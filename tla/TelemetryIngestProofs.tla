------------------------ MODULE TelemetryIngestProofs ------------------------
(***************************************************************************)
(* What holds of the ingest of telemetry for any set of drones, packets    *)
(* and devices, any times and any number of faults, as long as a nonce is  *)
(* remembered for longer than twice the skew.                              *)
(*                                                                         *)
(* The argument about copies counts, for a packet that could still pass    *)
(* the clock check, the nonce memories in which it is not noted: Room.     *)
(* Storing the packet uses one up; only a fault makes a new one.  A nonce  *)
(* that expired was noted at the earliest Skew before the packet's         *)
(* timestamp, so its packet is too old by then.                            *)
(***************************************************************************)
EXTENDS TelemetryIngest, TLAPS

(* The nonces noted now were noted while their packets passed the clock.    *)
NotedInWindow(key) ==
  \A p \in Packets :
    key[p] # Never => ts[p] # Never /\ key[p] >= ts[p] - Skew /\ key[p] <= now

UnsignedIsUnknown == \A p \in Packets : ts[p] = Never => stored[p] = 0

Fresh(p) == ts[p] # Never /\ now <= ts[p] + Skew

RedisRoom(p) == IF redisUp /\ redisKey[p] # Never THEN 0 ELSE 1

MemRoom(p) == IF memKey[p] # Never THEN 0 ELSE 1

OutagesCounted == (~hasRedis \/ ~redisUp) => outages > 0

OnceWithoutOutage ==
  outages = 0 => \A p \in Packets :
                   stored[p] <= 1 /\ (stored[p] = 1 => redisKey[p] # Never)

CopiesLeaveRoom ==
  \A p \in Packets :
    /\ stored[p] <= outages + restarts + 2
    /\ Fresh(p) => stored[p] + RedisRoom(p) + MemRoom(p) <= outages + restarts + 2

TracksInWindow ==
  \A d \in Drones :
    track[d] # NoPacket => ts[track[d]] # Never /\ ts[track[d]] <= now + Skew

NonceInv ==
  /\ NotedInWindow(redisKey)
  /\ NotedInWindow(memKey)
  /\ UnsignedIsUnknown
  /\ OutagesCounted
  /\ OnceWithoutOutage
  /\ CopiesLeaveRoom

RowsInv == TracksInWindow /\ DerivedFromStored

IInv == TypeOK /\ NonceInv /\ RowsInv

USE DEF Never, Times

Constants == /\ DroneOf \in [Packets -> Drones]
             /\ NoDevice \notin Devices /\ NoDrone \notin Drones /\ NoPacket \notin Packets
             /\ Skew \in Nat /\ TTL \in Nat /\ MaxTime \in Nat
             /\ MaxOutages \in Nat /\ MaxRestarts \in Nat
             /\ TTL > 2 * Skew

LEMMA ConstantsType == Constants
  BY DroneOfAssumption, AbsentAssumption, TimesAssumption, TTLAssumption DEF Constants

-----------------------------------------------------------------------------
(* The type invariant *)

LEMMA InitType == Init => TypeOK
  BY ConstantsType DEF Init, TypeOK, Constants

LEMMA RegisterType ==
  ASSUME TypeOK, NEW p \in Packets, Register(p)
  PROVE  /\ redisKey' \in [Packets -> Times \cup {Never}]
         /\ memKey' \in [Packets -> Times \cup {Never}]
         /\ hasRedis' \in BOOLEAN
<1>1. now \in Times \cup {Never}
  BY DEF TypeOK
<1>2. Purged \in [Packets -> Times \cup {Never}]
  BY DEF TypeOK, Purged
<1> QED
  BY <1>1, <1>2 DEF TypeOK, Register

LEMMA DeviceType ==
  ASSUME TypeOK, NEW p \in Packets, NEW v, NEW ok \in BOOLEAN, UpdateDevice(p, v, ok)
  PROVE  /\ owner' \in [Devices -> Drones \cup {NoDrone}]
         /\ seen' \in [Devices -> Packets \cup {NoPacket}]
         /\ failing' \subseteq Devices
  BY DEF TypeOK, UpdateDevice, deviceVars

LEMMA NextType == TypeOK /\ [Next]_vars => TypeOK'
<1> SUFFICES ASSUME TypeOK, [Next]_vars PROVE TypeOK'
  OBVIOUS
<1> USE ConstantsType
<1>1. CASE UNCHANGED vars
  BY <1>1 DEF vars, nonceVars, rowVars, deviceVars, faultVars, TypeOK
<1>2. ASSUME NEW p \in Packets, NEW v \in Devices \cup {NoDevice}, Ingest(p, v)
      PROVE  TypeOK'
  <2>1. CASE RefuseClock(p, v)
    BY <2>1, DeviceType DEF RefuseClock, Reject, nonceVars, rowVars, faultVars, TypeOK
  <2>2. CASE RefuseReplay(p, v)
    <3>1. memKey' \in [Packets -> Times \cup {Never}]
      BY <2>2 DEF RefuseReplay, FindRegistered, Purged, TypeOK
    <3> QED
      BY <2>2, <3>1, DeviceType DEF RefuseReplay, FindRegistered, Reject, rowVars, faultVars, TypeOK
  <2>3. CASE RefuseSignature(p, v)
    BY <2>3, DeviceType, RegisterType DEF RefuseSignature, Reject, rowVars, faultVars, TypeOK
  <2>4. CASE Store(p, v)
    <3>1. Register(p) /\ UpdateDevice(p, v, TRUE)
      BY <2>4 DEF Store
    <3>2. /\ stored' \in [Packets -> Nat]
          /\ track' \in [Drones -> Packets \cup {NoPacket}]
          /\ alerts' \subseteq Drones
      BY <2>4 DEF Store, TypeOK, Constants
    <3> QED
      BY <2>4, <3>1, <3>2, DeviceType, RegisterType DEF Store, faultVars, TypeOK
  <2> QED
    BY <1>2, <2>1, <2>2, <2>3, <2>4 DEF Ingest
<1>3. ASSUME NEW p \in Packets, FailAfterNonce(p) PROVE TypeOK'
  BY <1>3, RegisterType DEF FailAfterNonce, rowVars, deviceVars, faultVars, TypeOK
<1>4. ASSUME NEW p \in Packets, NEW t \in Times, Sign(p, t) PROVE TypeOK'
  BY <1>4 DEF Sign, nonceVars, rowVars, deviceVars, faultVars, TypeOK
<1>5. ASSUME NEW v \in Devices, NEW d \in Drones, Provision(v, d) PROVE TypeOK'
  BY <1>5 DEF Provision, nonceVars, rowVars, faultVars, TypeOK
<1>6. ASSUME NEW v \in Devices, RotateCert(v) PROVE TypeOK'
  BY <1>6 DEF RotateCert, nonceVars, rowVars, faultVars, TypeOK
<1>7. CASE RaiseLinkLost
  BY <1>7 DEF RaiseLinkLost, nonceVars, deviceVars, faultVars, TypeOK
<1>8. CASE Tick
  BY <1>8 DEF Tick, nonceVars, rowVars, deviceVars, faultVars, TypeOK, Constants
<1>9. CASE RedisDown
  <2>1. outages' \in 0 .. MaxOutages + 1
    BY <1>9 DEF RedisDown, TypeOK, Constants
  <2>2. redisUp' \in BOOLEAN
    BY <1>9 DEF RedisDown
  <2> QED
    BY <1>9, <2>1, <2>2 DEF RedisDown, nonceVars, rowVars, deviceVars, TypeOK
<1>10. CASE RedisBack
  BY <1>10 DEF RedisBack, rowVars, deviceVars, TypeOK
<1>11. CASE Restart
  BY <1>11 DEF Restart, rowVars, deviceVars, TypeOK, Constants
<1> QED
  BY <1>1, <1>2, <1>3, <1>4, <1>5, <1>6, <1>7, <1>8, <1>9, <1>10, <1>11 DEF Next

(* Every reachable state is well typed, the counters within their bounds.   *)
THEOREM Typing == Spec => []TypeOK
  BY InitType, NextType, PTL DEF Spec

-----------------------------------------------------------------------------
(* The nonce memories *)

(* Purging forgets only packets that are too old to pass the clock check.   *)
LEMMA PurgeKeepsFresh ==
  ASSUME TypeOK, NonceInv, NEW q \in Packets
  PROVE  /\ Purged[q] \in {memKey[q], Never}
         /\ Fresh(q) /\ memKey[q] # Never => Purged[q] = memKey[q]
<1>1. Purged[q] = IF memKey[q] < now - TTL THEN Never ELSE memKey[q]
  BY DEF Purged
<1>2. memKey[q] # Never => ts[q] # Never /\ memKey[q] >= ts[q] - Skew
  BY DEF NonceInv, NotedInWindow
<1>3. memKey[q] \in Int /\ ts[q] \in Int /\ now \in Int /\ TTL > 2 * Skew /\ TTL \in Nat /\ Skew \in Nat
  BY ConstantsType DEF TypeOK, Constants
<1> QED
  BY <1>1, <1>2, <1>3 DEF Fresh

(* A packet that passes the clock check and is not registered is in the     *)
(* memory that is consulted for the first time.                             *)
LEMMA RegisterIsFirst ==
  ASSUME TypeOK, NonceInv, NEW p \in Packets, ts[p] # Never, ClockOk(p), Register(p)
  PROVE  /\ Fresh(p)
         /\ \/ /\ UsesRedis
               /\ redisKey[p] = Never
               /\ redisKey' = [redisKey EXCEPT ![p] = now]
               /\ memKey' = memKey
            \/ /\ ~UsesRedis
               /\ memKey[p] = Never
               /\ memKey' = [Purged EXCEPT ![p] = now]
               /\ redisKey' = redisKey
<1>1. ts[p] \in Int /\ now \in Int /\ TTL > 2 * Skew /\ TTL \in Nat /\ Skew \in Nat
      /\ redisKey[p] \in Int
  BY ConstantsType DEF TypeOK, Constants
<1>2. Fresh(p)
  BY <1>1 DEF ClockOk, Fresh
<1>3. redisKey[p] # Never => redisKey[p] >= ts[p] - Skew
  BY DEF NonceInv, NotedInWindow
<1>4. redisKey[p] # Never => InRedis(p)
  BY <1>1, <1>2, <1>3 DEF Fresh, InRedis
<1>5. CASE UsesRedis
  BY <1>2, <1>4, <1>5 DEF Register, Registered
<1>6. CASE ~UsesRedis
  <2>1. Purged[p] = Never
    BY <1>6 DEF Register, Registered
  <2>2. memKey[p] = Never
    BY <1>2, <2>1, PurgeKeepsFresh
  <2> QED
    BY <1>2, <1>6, <2>2 DEF Register
<1> QED
  BY <1>5, <1>6

(* A packet that registers, stored then or not, uses up room in a memory.   *)
LEMMA RegisterKeepsNonceInv ==
  ASSUME TypeOK, NonceInv, NEW p \in Packets, ts[p] # Never, ClockOk(p), Register(p),
         stored' = stored \/ stored' = [stored EXCEPT ![p] = @ + 1],
         UNCHANGED <<now, ts, redisUp, outages, restarts>>
  PROVE  NonceInv'
<1> USE ConstantsType
<1>1. Fresh(p) /\ hasRedis' = hasRedis
  BY RegisterIsFirst DEF Register
<1>2. \A q \in Packets \ {p} : stored'[q] = stored[q] /\ redisKey'[q] = redisKey[q]
  BY RegisterIsFirst DEF TypeOK
<1>3. \A q \in Packets \ {p} :
        /\ memKey'[q] \in {memKey[q], Never}
        /\ Fresh(q) /\ memKey[q] # Never => memKey'[q] = memKey[q]
  BY ZenonT(40), RegisterIsFirst, PurgeKeepsFresh DEF TypeOK, Purged
<1>4. stored'[p] \in {stored[p], stored[p] + 1}
  BY DEF TypeOK
<1>5. \/ /\ UsesRedis /\ redisKey[p] = Never /\ redisKey'[p] = now /\ memKey'[p] = memKey[p]
      \/ /\ ~UsesRedis /\ memKey[p] = Never /\ memKey'[p] = now /\ redisKey'[p] = redisKey[p]
  BY RegisterIsFirst DEF TypeOK, Purged
<1>6. \A q \in Packets : /\ stored[q] \in Nat /\ ts[q] \in Int /\ now \in Nat /\ outages \in Nat
                         /\ restarts \in Nat /\ redisKey[q] \in Int /\ memKey[q] \in Int
                         /\ Skew \in Nat
  BY DEF TypeOK, Constants
<1>7. now >= ts[p] - Skew /\ now \in Int
  BY <1>6 DEF ClockOk
<1>8. NotedInWindow(redisKey)'
  BY <1>2, <1>5, <1>7 DEF NonceInv, NotedInWindow
<1>9. NotedInWindow(memKey)'
  BY <1>3, <1>5, <1>7 DEF NonceInv, NotedInWindow
<1>10. UnsignedIsUnknown'
  BY <1>2 DEF NonceInv, UnsignedIsUnknown
<1>11. OutagesCounted'
  BY <1>1 DEF NonceInv, OutagesCounted
<1>12. OnceWithoutOutage'
  <2>1. SUFFICES ASSUME outages = 0, NEW q \in Packets
                 PROVE  stored'[q] <= 1 /\ (stored'[q] = 1 => redisKey'[q] # Never)
    BY DEF OnceWithoutOutage
  <2>2. stored[q] <= 1 /\ (stored[q] = 1 => redisKey[q] # Never)
    BY <2>1 DEF NonceInv, OnceWithoutOutage
  <2>3. UsesRedis
    BY <2>1, <1>6 DEF NonceInv, OutagesCounted, UsesRedis, TypeOK
  <2>4. CASE q = p
    <3>1. redisKey[p] = Never /\ redisKey'[p] = now
      BY <1>5, <2>3
    <3>2. stored[p] = 0
      BY <1>6, <2>2, <2>4, <3>1
    <3> QED
      BY <1>4, <1>6, <2>4, <3>1, <3>2
  <2> QED
    BY <1>2, <2>2, <2>4
<1>13. CopiesLeaveRoom'
  <2>1. SUFFICES ASSUME NEW q \in Packets
                 PROVE  /\ stored'[q] <= outages + restarts + 2
                        /\ Fresh(q)' => stored'[q] + RedisRoom(q)' + MemRoom(q)'
                                          <= outages + restarts + 2
    BY DEF CopiesLeaveRoom
  <2>2. /\ stored[q] <= outages + restarts + 2
        /\ Fresh(q) => stored[q] + RedisRoom(q) + MemRoom(q) <= outages + restarts + 2
    BY DEF NonceInv, CopiesLeaveRoom
  <2>3. Fresh(q)' <=> Fresh(q)
    BY DEF Fresh
  <2>4. CASE q = p
    <3>1. CASE UsesRedis
      <4>1. RedisRoom(p) = 1 /\ RedisRoom(p)' = 0 /\ MemRoom(p)' = MemRoom(p) /\ MemRoom(p) \in {0, 1}
        BY <1>5, <1>6, <3>1 DEF UsesRedis, RedisRoom, MemRoom
      <4> QED
        BY <1>1, <1>4, <1>6, <2>2, <2>3, <2>4, <4>1
    <3>2. CASE ~UsesRedis
      <4>1. MemRoom(p) = 1 /\ MemRoom(p)' = 0 /\ RedisRoom(p)' = RedisRoom(p) /\ RedisRoom(p) \in {0, 1}
        BY <1>5, <1>6, <3>2 DEF RedisRoom, MemRoom
      <4> QED
        BY <1>1, <1>4, <1>6, <2>2, <2>3, <2>4, <4>1
    <3> QED
      BY <3>1, <3>2
  <2>5. CASE q # p
    <3>1. stored'[q] = stored[q] /\ RedisRoom(q)' = RedisRoom(q)
      BY <1>2, <2>5 DEF RedisRoom
    <3>2. Fresh(q) => MemRoom(q)' = MemRoom(q)
      BY <1>3, <2>5 DEF MemRoom
    <3> QED
      BY <2>2, <2>3, <3>1, <3>2
  <2> QED
    BY <2>4, <2>5
<1> QED
  BY <1>8, <1>9, <1>10, <1>11, <1>12, <1>13 DEF NonceInv

(* A replayed packet at most purges.                                        *)
LEMMA FindKeepsNonceInv ==
  ASSUME TypeOK, NonceInv, NEW p \in Packets, FindRegistered(p),
         UNCHANGED <<now, ts, stored, redisUp, outages, restarts>>
  PROVE  NonceInv'
<1>1. redisKey' = redisKey /\ hasRedis' = hasRedis
  BY DEF FindRegistered
<1>2. \A q \in Packets : /\ memKey'[q] \in {memKey[q], Never}
                         /\ Fresh(q) /\ memKey[q] # Never => memKey'[q] = memKey[q]
  BY PurgeKeepsFresh DEF FindRegistered
<1>3. NotedInWindow(redisKey)' /\ NotedInWindow(memKey)'
  BY <1>1, <1>2 DEF NonceInv, NotedInWindow
<1>4. UnsignedIsUnknown' /\ OutagesCounted' /\ OnceWithoutOutage'
  BY <1>1 DEF NonceInv, UnsignedIsUnknown, OutagesCounted, OnceWithoutOutage
<1>5. CopiesLeaveRoom'
  <2>1. \A q \in Packets : Fresh(q)' = Fresh(q) /\ RedisRoom(q)' = RedisRoom(q)
    BY <1>1 DEF Fresh, RedisRoom
  <2>2. \A q \in Packets : Fresh(q) => MemRoom(q)' = MemRoom(q)
    BY <1>2 DEF MemRoom
  <2> QED
    BY <2>1, <2>2 DEF NonceInv, CopiesLeaveRoom
<1> QED
  BY <1>3, <1>4, <1>5 DEF NonceInv

(* The environment: a signature, time, and what happens to the memories.    *)
LEMMA SignKeepsNonceInv ==
  ASSUME TypeOK, NonceInv, NEW p \in Packets, NEW t \in Times, Sign(p, t)
  PROVE  NonceInv'
<1> USE ConstantsType
<1>1. ts[p] = Never /\ stored[p] = 0 /\ ts'[p] = t
  BY DEF Sign, TypeOK, NonceInv, UnsignedIsUnknown
<1>2. \A q \in Packets \ {p} : ts'[q] = ts[q]
  BY DEF Sign, TypeOK
<1>3. UNCHANGED <<now, redisUp, hasRedis, redisKey, memKey, stored, outages, restarts>>
  BY DEF Sign, nonceVars, rowVars, faultVars
<1>4. redisKey[p] = Never /\ memKey[p] = Never
  BY <1>1 DEF NonceInv, NotedInWindow
<1>5. NotedInWindow(redisKey)' /\ NotedInWindow(memKey)' /\ UnsignedIsUnknown'
  BY <1>1, <1>2, <1>3, <1>4 DEF NonceInv, NotedInWindow, UnsignedIsUnknown
<1>6. OutagesCounted' /\ OnceWithoutOutage'
  BY <1>3 DEF NonceInv, OutagesCounted, OnceWithoutOutage
<1>7. CopiesLeaveRoom'
  <2>1. \A q \in Packets : RedisRoom(q)' = RedisRoom(q) /\ MemRoom(q)' = MemRoom(q)
    BY <1>3 DEF RedisRoom, MemRoom
  <2>2. \A q \in Packets \ {p} : Fresh(q)' = Fresh(q)
    BY <1>2, <1>3 DEF Fresh
  <2>3. stored[p] + RedisRoom(p) + MemRoom(p) <= outages + restarts + 2
    BY <1>1 DEF RedisRoom, MemRoom, TypeOK, Constants
  <2> QED
    BY <1>3, <2>1, <2>2, <2>3 DEF NonceInv, CopiesLeaveRoom
<1> QED
  BY <1>5, <1>6, <1>7 DEF NonceInv

LEMMA TickKeepsNonceInv ==
  ASSUME TypeOK, NonceInv, Tick
  PROVE  NonceInv'
<1> USE ConstantsType
<1>1. UNCHANGED <<ts, redisUp, hasRedis, redisKey, memKey, stored, outages, restarts>>
  BY DEF Tick, nonceVars, rowVars, faultVars
<1>2. now' = now + 1 /\ now \in Nat
  BY DEF Tick, TypeOK, Constants
<1>3. NotedInWindow(redisKey)' /\ NotedInWindow(memKey)'
  BY <1>1, <1>2 DEF NonceInv, NotedInWindow, TypeOK, Constants
<1>4. UnsignedIsUnknown' /\ OutagesCounted' /\ OnceWithoutOutage'
  BY <1>1 DEF NonceInv, UnsignedIsUnknown, OutagesCounted, OnceWithoutOutage
<1>5. CopiesLeaveRoom'
  <2>1. \A q \in Packets : Fresh(q)' => Fresh(q)
    BY <1>1, <1>2 DEF Fresh, TypeOK, Constants
  <2>2. \A q \in Packets : RedisRoom(q)' = RedisRoom(q) /\ MemRoom(q)' = MemRoom(q)
    BY <1>1 DEF RedisRoom, MemRoom
  <2> QED
    BY <1>1, <2>1, <2>2 DEF NonceInv, CopiesLeaveRoom
<1> QED
  BY <1>3, <1>4, <1>5 DEF NonceInv

LEMMA FaultKeepsNonceInv ==
  ASSUME TypeOK, NonceInv, RedisDown \/ RedisBack \/ Restart
  PROVE  NonceInv'
<1> USE ConstantsType
<1>1. UNCHANGED <<now, ts, stored>>
  BY DEF RedisDown, RedisBack, Restart, rowVars
<1>2. outages \in Nat /\ restarts \in Nat /\ \A q \in Packets : stored[q] \in Nat
  BY DEF TypeOK, Constants
<1>3. \A q \in Packets : redisKey'[q] \in {redisKey[q], Never} /\ memKey'[q] \in {memKey[q], Never}
  BY DEF RedisDown, RedisBack, Restart, nonceVars
<1>4. NotedInWindow(redisKey)' /\ NotedInWindow(memKey)' /\ UnsignedIsUnknown'
  BY <1>1, <1>3 DEF NonceInv, NotedInWindow, UnsignedIsUnknown
<1>5. OutagesCounted'
  BY <1>2 DEF NonceInv, OutagesCounted, RedisDown, RedisBack, Restart
<1>6. outages' = 0 => outages = 0 /\ redisKey' = redisKey
  BY <1>2 DEF NonceInv, OutagesCounted, RedisDown, RedisBack, Restart, nonceVars
<1>7. OnceWithoutOutage'
  BY <1>1, <1>6 DEF NonceInv, OnceWithoutOutage
<1>8. CopiesLeaveRoom'
  <2>1. SUFFICES ASSUME NEW q \in Packets
                 PROVE  /\ stored[q] <= outages' + restarts' + 2
                        /\ Fresh(q) => stored[q] + RedisRoom(q)' + MemRoom(q)'
                                         <= outages' + restarts' + 2
    BY <1>1 DEF CopiesLeaveRoom, Fresh
  <2>2. /\ stored[q] <= outages + restarts + 2
        /\ Fresh(q) => stored[q] + RedisRoom(q) + MemRoom(q) <= outages + restarts + 2
    BY DEF NonceInv, CopiesLeaveRoom
  <2>3. CASE RedisDown
    <3>1. outages' = outages + 1 /\ restarts' = restarts /\ MemRoom(q)' = MemRoom(q)
      BY <2>3 DEF RedisDown, nonceVars, MemRoom
    <3>2. RedisRoom(q)' <= RedisRoom(q) + 1 /\ RedisRoom(q)' \in {0, 1} /\ RedisRoom(q) \in {0, 1}
          /\ MemRoom(q) \in {0, 1}
      BY DEF RedisRoom, MemRoom
    <3> QED
      BY <1>2, <2>2, <3>1, <3>2
  <2>4. CASE RedisBack
    <3>1. outages' = outages /\ restarts' = restarts /\ MemRoom(q)' = MemRoom(q)
      BY <2>4 DEF RedisBack, MemRoom
    <3>2. RedisRoom(q) = 1 /\ RedisRoom(q)' \in {0, 1} /\ MemRoom(q) \in {0, 1}
      BY <2>4 DEF RedisBack, RedisRoom, MemRoom
    <3> QED
      BY <1>2, <2>2, <3>1, <3>2
  <2>5. CASE Restart
    <3>1. outages' = outages /\ restarts' = restarts + 1 /\ RedisRoom(q)' = RedisRoom(q)
      BY <2>5 DEF Restart, RedisRoom
    <3>2. MemRoom(q)' \in {0, 1} /\ MemRoom(q) \in {0, 1} /\ RedisRoom(q) \in {0, 1}
      BY DEF RedisRoom, MemRoom
    <3> QED
      BY <1>2, <2>2, <3>1, <3>2
  <2> QED
    BY <2>3, <2>4, <2>5
<1> QED
  BY <1>4, <1>5, <1>7, <1>8 DEF NonceInv

(* Every other step leaves the nonces and the copies alone.                 *)
LEMMA IdleKeepsNonceInv ==
  ASSUME NonceInv, UNCHANGED <<now, ts, nonceVars, stored, faultVars>>
  PROVE  NonceInv'
<1>1. NotedInWindow(redisKey)' /\ NotedInWindow(memKey)'
  BY DEF nonceVars, NonceInv, NotedInWindow
<1>2. UnsignedIsUnknown' /\ OutagesCounted' /\ OnceWithoutOutage'
  BY DEF nonceVars, faultVars, NonceInv, UnsignedIsUnknown, OutagesCounted, OnceWithoutOutage
<1>3. CopiesLeaveRoom'
  <2>1. \A q \in Packets :
          Fresh(q)' = Fresh(q) /\ RedisRoom(q)' = RedisRoom(q) /\ MemRoom(q)' = MemRoom(q)
    BY DEF nonceVars, faultVars, Fresh, RedisRoom, MemRoom
  <2> QED
    BY <2>1 DEF faultVars, NonceInv, CopiesLeaveRoom
<1> QED
  BY <1>1, <1>2, <1>3 DEF NonceInv

LEMMA NextNonceInv == TypeOK /\ NonceInv /\ [Next]_vars => NonceInv'
<1> SUFFICES ASSUME TypeOK, NonceInv, [Next]_vars PROVE NonceInv'
  OBVIOUS
<1>1. CASE UNCHANGED vars
  BY <1>1, IdleKeepsNonceInv DEF vars, rowVars
<1>2. ASSUME NEW p \in Packets, NEW v \in Devices \cup {NoDevice}, Ingest(p, v)
      PROVE  NonceInv'
  <2>1. CASE RefuseClock(p, v)
    BY <2>1, IdleKeepsNonceInv DEF RefuseClock, Reject, rowVars
  <2>2. CASE RefuseReplay(p, v)
    BY <2>2, FindKeepsNonceInv DEF RefuseReplay, Reject, rowVars, faultVars
  <2>3. CASE RefuseSignature(p, v)
    BY <2>3, RegisterKeepsNonceInv DEF RefuseSignature, Reject, rowVars, faultVars
  <2>4. CASE Store(p, v)
    BY <2>4, RegisterKeepsNonceInv DEF Store, faultVars
  <2> QED
    BY <1>2, <2>1, <2>2, <2>3, <2>4 DEF Ingest
<1>3. ASSUME NEW p \in Packets, FailAfterNonce(p) PROVE NonceInv'
  BY <1>3, RegisterKeepsNonceInv DEF FailAfterNonce, rowVars, faultVars
<1>4. ASSUME NEW p \in Packets, NEW t \in Times, Sign(p, t) PROVE NonceInv'
  BY <1>4, SignKeepsNonceInv
<1>5. ASSUME NEW v \in Devices, NEW d \in Drones, Provision(v, d) PROVE NonceInv'
  BY <1>5, IdleKeepsNonceInv DEF Provision, rowVars
<1>6. ASSUME NEW v \in Devices, RotateCert(v) PROVE NonceInv'
  BY <1>6, IdleKeepsNonceInv DEF RotateCert, rowVars
<1>7. CASE RaiseLinkLost
  BY <1>7, IdleKeepsNonceInv DEF RaiseLinkLost
<1>8. CASE Tick
  BY <1>8, TickKeepsNonceInv
<1>9. CASE RedisDown \/ RedisBack \/ Restart
  BY <1>9, FaultKeepsNonceInv
<1> QED
  BY <1>1, <1>2, <1>3, <1>4, <1>5, <1>6, <1>7, <1>8, <1>9 DEF Next

-----------------------------------------------------------------------------
(* What is derived from stored packets *)

LEMMA StoreKeepsRowsInv ==
  ASSUME TypeOK, RowsInv, NEW p \in Packets, NEW v, Store(p, v)
  PROVE  RowsInv'
<1> USE ConstantsType
<1>1. UNCHANGED <<now, ts>> /\ ts[p] # Never /\ ts[p] <= now + Skew
  BY DEF Store, ClockOk, TypeOK, Constants
<1>2. /\ track'[DroneOf[p]] = p
      /\ \A d \in Drones \ {DroneOf[p]} : track'[d] = track[d]
  BY DEF Store, TypeOK, Constants
<1>3. stored'[p] > 0 /\ \A q \in Packets : stored[q] > 0 => stored'[q] > 0
  BY DEF Store, TypeOK
<1>4. /\ owner' = owner
      /\ \A w \in Devices : seen'[w] = seen[w] \/ (seen'[w] = p /\ owner[w] = DroneOf[p])
  BY DEF Store, UpdateDevice, TypeOK, deviceVars
<1>5. TracksInWindow'
  BY <1>1, <1>2 DEF RowsInv, TracksInWindow
<1>6. \A d \in Drones : track[d] \in Packets \cup {NoPacket}
  BY DEF TypeOK
<1>7. \A w \in Devices : seen[w] \in Packets \cup {NoPacket}
  BY DEF TypeOK
<1>8. DerivedFromStored'
  BY <1>2, <1>3, <1>4, <1>6, <1>7 DEF RowsInv, DerivedFromStored
<1> QED
  BY <1>5, <1>8 DEF RowsInv

(* A step that stores nothing, whatever it does to time and to devices.     *)
LEMMA OtherKeepsRowsInv ==
  ASSUME TypeOK, RowsInv, UNCHANGED <<stored, track, seen>>,
         now' \in Times, now' >= now,
         \A q \in Packets : ts[q] # Never => ts'[q] = ts[q],
         \A w \in Devices : owner[w] # NoDrone => owner'[w] = owner[w]
  PROVE  RowsInv'
<1> USE ConstantsType
<1>1. now \in Nat /\ now' \in Nat /\ \A q \in Packets : ts[q] \in Int
  BY DEF TypeOK, Constants
<1>2. \A d \in Drones : track[d] \in Packets \cup {NoPacket}
  BY DEF TypeOK
<1>3. TracksInWindow'
  BY <1>1, <1>2 DEF RowsInv, TracksInWindow, Constants
<1>4. \A w \in Devices : seen[w] # NoPacket => owner[w] # NoDrone
  BY DEF TypeOK, RowsInv, DerivedFromStored, Constants
<1>5. DerivedFromStored'
  BY <1>4 DEF RowsInv, DerivedFromStored
<1> QED
  BY <1>3, <1>5 DEF RowsInv

(* A step other than Store: the premises of OtherKeepsRowsInv.              *)
LEMMA NextRows ==
  ASSUME TypeOK, [Next]_vars
  PROVE  \/ \E p \in Packets, v \in Devices \cup {NoDevice} : Store(p, v)
         \/ /\ UNCHANGED <<stored, track, seen>>
            /\ now' \in Times /\ now' >= now
            /\ \A q \in Packets : ts[q] # Never => ts'[q] = ts[q]
            /\ \A w \in Devices : owner[w] # NoDrone => owner'[w] = owner[w]
<1> USE ConstantsType
<1> DEFINE Other == /\ UNCHANGED <<stored, track, seen>>
                    /\ now' \in Times /\ now' >= now
                    /\ \A q \in Packets : ts[q] # Never => ts'[q] = ts[q]
                    /\ \A w \in Devices : owner[w] # NoDrone => owner'[w] = owner[w]
<1>0. now \in Times /\ now \in Nat
  BY DEF TypeOK, Constants
<1>1. CASE UNCHANGED vars
  BY <1>0, <1>1 DEF vars, rowVars, deviceVars
<1>2. ASSUME NEW p \in Packets, NEW v \in Devices \cup {NoDevice}, Ingest(p, v), ~Store(p, v)
      PROVE  Other
  <2>1. Reject(p, v)
    BY <1>2 DEF Ingest, RefuseClock, RefuseReplay, RefuseSignature
  <2> QED
    BY <1>0, <2>1 DEF Reject, UpdateDevice, rowVars, deviceVars
<1>3. ASSUME NEW p \in Packets, FailAfterNonce(p) PROVE Other
  BY <1>0, <1>3 DEF FailAfterNonce, rowVars, deviceVars
<1>4. ASSUME NEW p \in Packets, NEW t \in Times, Sign(p, t) PROVE Other
  BY <1>0, <1>4 DEF Sign, rowVars, deviceVars, TypeOK
<1>5. ASSUME NEW v \in Devices, NEW d \in Drones, Provision(v, d) PROVE Other
  BY <1>0, <1>5 DEF Provision, rowVars, TypeOK
<1>6. ASSUME NEW v \in Devices, RotateCert(v) PROVE Other
  BY <1>0, <1>6 DEF RotateCert, rowVars
<1>7. CASE RaiseLinkLost
  BY <1>0, <1>7 DEF RaiseLinkLost, deviceVars
<1>8. CASE Tick
  BY <1>0, <1>8 DEF Tick, rowVars, deviceVars, Constants
<1>9. CASE RedisDown \/ RedisBack \/ Restart
  BY <1>0, <1>9 DEF RedisDown, RedisBack, Restart, rowVars, deviceVars
<1> QED
  BY <1>1, <1>2, <1>3, <1>4, <1>5, <1>6, <1>7, <1>8, <1>9 DEF Next

LEMMA NextRowsInv == TypeOK /\ RowsInv /\ [Next]_vars => RowsInv'
  BY NextRows, StoreKeepsRowsInv, OtherKeepsRowsInv

LEMMA InitInv == Init => NonceInv /\ RowsInv
<1> SUFFICES ASSUME Init PROVE NonceInv /\ RowsInv
  OBVIOUS
<1> USE ConstantsType DEF Init
<1>1. NotedInWindow(redisKey) /\ NotedInWindow(memKey) /\ UnsignedIsUnknown
  BY DEF NotedInWindow, UnsignedIsUnknown
<1>2. OutagesCounted
  BY DEF OutagesCounted
<1>3. OnceWithoutOutage
  BY DEF OnceWithoutOutage
<1>4. CopiesLeaveRoom
  BY DEF CopiesLeaveRoom, RedisRoom, MemRoom
<1>5. RowsInv
  BY DEF RowsInv, TracksInWindow, DerivedFromStored
<1> QED
  BY <1>1, <1>2, <1>3, <1>4, <1>5 DEF NonceInv

-----------------------------------------------------------------------------
(* The theorems *)

LEMMA Inductive == Spec => []IInv
<1>1. Init => IInv
  BY InitType, InitInv DEF IInv
<1>2. IInv /\ [Next]_vars => IInv'
  BY NextType, NextNonceInv, NextRowsInv DEF IInv
<1> QED
  BY <1>1, <1>2, PTL DEF Spec

(* A packet is stored once as long as Redis and the API stay up, and a      *)
(* bounded number of times whatever fails.                                  *)
THEOREM CopiesAreBounded == Spec => []CopiesBounded
<1>1. IInv => CopiesBounded
  BY DEF IInv, NonceInv, OnceWithoutOutage, CopiesLeaveRoom, CopiesBounded
<1> QED
  BY <1>1, Inductive, PTL

(* Tracks and devices only show packets of their drone that were stored.    *)
THEOREM RowsAreDerived == Spec => []DerivedFromStored
<1>1. IInv => DerivedFromStored
  BY DEF IInv, RowsInv
<1> QED
  BY <1>1, Inductive, PTL

(* A packet that overtakes another takes the track back by two skew windows *)
(* at most.                                                                 *)
THEOREM TracksRegressLittle == Spec => TrackRegressionBounded
<1>1. IInv /\ [Next]_vars =>
        [\A d \in Drones :
           track[d] # NoPacket => /\ track'[d] # NoPacket
                                  /\ ts'[track'[d]] >= ts[track[d]] - 2 * Skew]_vars
  <2> SUFFICES ASSUME IInv, [Next]_vars, NEW d \in Drones, track[d] # NoPacket
               PROVE  track'[d] # NoPacket /\ ts'[track'[d]] >= ts[track[d]] - 2 * Skew
    OBVIOUS
  <2> USE ConstantsType
  <2>1. /\ TypeOK /\ track[d] \in Packets
        /\ ts[track[d]] # Never /\ ts[track[d]] <= now + Skew
    BY DEF IInv, TypeOK, RowsInv, TracksInWindow
  <2>2. ASSUME NEW p \in Packets, NEW v, Store(p, v)
        PROVE  track'[d] # NoPacket /\ ts'[track'[d]] >= ts[track[d]] - 2 * Skew
    <3>1. track'[d] = IF d = DroneOf[p] THEN p ELSE track[d]
      BY <2>1, <2>2 DEF Store, TypeOK, Constants
    <3>2. ts' = ts /\ now - ts[p] <= Skew
      BY <2>2 DEF Store, ClockOk
    <3>3. ts[p] \in Int /\ ts[track[d]] \in Int /\ now \in Int /\ Skew \in Nat
      BY <2>1 DEF TypeOK, Constants
    <3> QED
      BY <2>1, <3>1, <3>2, <3>3 DEF Constants
  <2>3. ASSUME UNCHANGED track, \A q \in Packets : ts[q] # Never => ts'[q] = ts[q]
        PROVE  track'[d] # NoPacket /\ ts'[track'[d]] >= ts[track[d]] - 2 * Skew
    <3>1. ts[track[d]] \in Int /\ Skew \in Nat
      BY <2>1 DEF TypeOK, Constants
    <3> QED
      BY <2>1, <2>3, <3>1
  <2> QED
    BY <2>1, <2>2, <2>3, NextRows
<1> QED
  BY <1>1, Inductive, PTL DEF Spec, TrackRegressionBounded
=============================================================================
