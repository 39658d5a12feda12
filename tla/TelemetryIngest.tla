--------------------------- MODULE TelemetryIngest ---------------------------
(***************************************************************************)
(* POST /v1/telemetry/ingest: what becomes of a signed packet that arrives *)
(* once, twice, late, altered on the way, or while Redis or the database   *)
(* fails.  process_telemetry (app/services/telemetry.py) runs on the event *)
(* loop, so one packet is handled at a time; it consults the nonce store   *)
(* (nonce_store.py), which lives in Redis or, while Redis cannot be        *)
(* reached, in the memory of the process.                                  *)
(*                                                                         *)
(* A packet stands for one (drone_uid, nonce) pair with the timestamp that *)
(* was signed.  Time is counted in a unit of which Skew and TTL are        *)
(* multiples.  device.status is never set to revoked by any code.          *)
(***************************************************************************)
EXTENDS Integers

CONSTANTS
  Drones,
  Packets,
  DroneOf,      (* the drone a packet speaks for                           *)
  Devices,      (* the device ids of the X-Device-Id header                *)
  NoDevice,     (* no such header                                          *)
  NoDrone,      (* the owner of a device id that is not provisioned        *)
  NoPacket,     (* no row in track_state                                   *)
  Skew,         (* telemetry_allowed_skew_seconds                          *)
  TTL,          (* nonce_ttl_seconds                                       *)
  MaxTime, MaxOutages, MaxRestarts      (* bounds                          *)

ASSUME DroneOfAssumption == DroneOf \in [Packets -> Drones]

ASSUME AbsentAssumption ==
  NoDevice \notin Devices /\ NoDrone \notin Drones /\ NoPacket \notin Packets

ASSUME TimesAssumption ==
  {Skew, TTL, MaxTime, MaxOutages, MaxRestarts} \subseteq Nat

(* The shipped values are 120 and 30; app/config.py does not compare them.  *)
ASSUME TTLAssumption == TTL > 2 * Skew

Never == -1
Times == 0 .. MaxTime

VARIABLES
  now,          (* the API's clock                                         *)
  ts,           (* a packet's signed timestamp, Never before it is signed  *)
  redisUp,      (* Redis answers                                           *)
  hasRedis,     (* it answered when the process started                    *)
  redisKey,     (* when a packet's nonce was set in Redis                  *)
  memKey,       (* when it was noted in the process's dictionary           *)
  stored,       (* rows of telemetry_events for a packet                   *)
  track,        (* the packet track_state was last written from            *)
  owner,        (* the drone of a provisioned device                       *)
  seen,         (* last_seen_at of a device: the packet it is taken from   *)
  failing,      (* devices with a last_error_reason                        *)
  alerts,       (* drones with an open link_lost alert                     *)
  outages,      (* how often Redis went away                               *)
  restarts      (* how often the API was restarted                         *)

nonceVars  == <<hasRedis, redisKey, memKey>>
rowVars    == <<stored, track, alerts>>
deviceVars == <<owner, seen, failing>>
faultVars  == <<redisUp, outages, restarts>>
vars == <<now, ts, nonceVars, rowVars, deviceVars, faultVars>>

TypeOK ==
  /\ now \in Times
  /\ ts \in [Packets -> Times \cup {Never}]
  /\ redisUp \in BOOLEAN
  /\ hasRedis \in BOOLEAN
  /\ redisKey \in [Packets -> Times \cup {Never}]
  /\ memKey \in [Packets -> Times \cup {Never}]
  /\ stored \in [Packets -> Nat]
  /\ track \in [Drones -> Packets \cup {NoPacket}]
  /\ owner \in [Devices -> Drones \cup {NoDrone}]
  /\ seen \in [Devices -> Packets \cup {NoPacket}]
  /\ failing \subseteq Devices
  /\ alerts \subseteq Drones
  /\ outages \in 0 .. MaxOutages + 1
  /\ restarts \in 0 .. MaxRestarts

Init ==
  /\ now = 0
  /\ ts = [p \in Packets |-> Never]
  /\ redisUp \in BOOLEAN
  /\ hasRedis = redisUp
  /\ redisKey = [p \in Packets |-> Never]
  /\ memKey = [p \in Packets |-> Never]
  /\ stored = [p \in Packets |-> 0]
  /\ track = [d \in Drones |-> NoPacket]
  /\ owner = [v \in Devices |-> NoDrone]
  /\ seen = [v \in Devices |-> NoPacket]
  /\ failing = {}
  /\ alerts = {}
  /\ outages = IF redisUp THEN 0 ELSE 1
  /\ restarts = 0

-----------------------------------------------------------------------------
(* NonceStore.register_once *)

UsesRedis == hasRedis /\ redisUp

(* Faulty variant: the key expires with the skew window of one packet.      *)
InRedisForSkew(p) == redisKey[p] # Never /\ now <= redisKey[p] + Skew

(* SET NX EX: the key is there until TTL after it was set.                  *)
InRedis(p) == redisKey[p] # Never /\ now < redisKey[p] + TTL

(* The dictionary without the entries older than TTL.                       *)
Purged == [p \in Packets |-> IF memKey[p] < now - TTL THEN Never ELSE memKey[p]]

Registered(p) == IF UsesRedis THEN InRedis(p) ELSE Purged[p] # Never

(* Faulty variant: the expiry is noted in the place of the time.            *)
RegisterExpiry(p) ==
  /\ ~Registered(p)
  /\ IF UsesRedis
     THEN redisKey' = [redisKey EXCEPT ![p] = now + TTL] /\ memKey' = memKey
     ELSE memKey' = [Purged EXCEPT ![p] = now + TTL] /\ redisKey' = redisKey
  /\ UNCHANGED hasRedis

Register(p) ==
  /\ ~Registered(p)
  /\ IF UsesRedis
     THEN redisKey' = [redisKey EXCEPT ![p] = now] /\ memKey' = memKey
     ELSE memKey' = [Purged EXCEPT ![p] = now] /\ redisKey' = redisKey
  /\ UNCHANGED hasRedis

FindRegistered(p) ==
  /\ Registered(p)
  /\ memKey' = IF UsesRedis THEN memKey ELSE Purged
  /\ UNCHANGED <<hasRedis, redisKey>>

-----------------------------------------------------------------------------
(* _update_device_health *)

(* Faulty variant: the packet is not compared with the device's drone.      *)
UpdateAnyDevice(p, v, accepted) ==
  IF v \in Devices /\ owner[v] # NoDrone
  THEN /\ failing' = IF accepted THEN failing \ {v} ELSE failing \cup {v}
       /\ seen' = IF accepted THEN [seen EXCEPT ![v] = p] ELSE seen
       /\ UNCHANGED owner
  ELSE UNCHANGED deviceVars

UpdateDevice(p, v, accepted) ==
  LET ok == accepted /\ owner[v] = DroneOf[p] IN
  IF v \in Devices /\ owner[v] # NoDrone
  THEN /\ failing' = IF ok THEN failing \ {v} ELSE failing \cup {v}
       /\ seen' = IF ok THEN [seen EXCEPT ![v] = p] ELSE seen
       /\ UNCHANGED owner
  ELSE UNCHANGED deviceVars

-----------------------------------------------------------------------------
(* process_telemetry *)

(* Faulty variant: only packets from the past are refused.                  *)
NotTooOld(p) == now - ts[p] <= Skew

ClockOk(p) == now - ts[p] <= Skew /\ ts[p] - now <= Skew

Reject(p, v) ==
  /\ UpdateDevice(p, v, FALSE)
  /\ UNCHANGED <<now, ts, rowVars, faultVars>>

RefuseClock(p, v) ==
  /\ ts[p] # Never
  /\ ~ClockOk(p)
  /\ Reject(p, v)
  /\ UNCHANGED nonceVars

RefuseReplay(p, v) ==
  /\ ts[p] # Never
  /\ ClockOk(p)
  /\ FindRegistered(p)
  /\ Reject(p, v)

(* A body or a signature that does not verify, after the nonce is taken.    *)
RefuseSignature(p, v) ==
  /\ ts[p] # Never
  /\ ClockOk(p)
  /\ Register(p)
  /\ Reject(p, v)

Store(p, v) ==
  /\ ts[p] # Never
  /\ ClockOk(p)
  /\ Register(p)
  /\ stored' = [stored EXCEPT ![p] = @ + 1]
  /\ track' = [track EXCEPT ![DroneOf[p]] = p]
  /\ UpdateDevice(p, v, TRUE)
  /\ alerts' = alerts \ {DroneOf[p]}
  /\ UNCHANGED <<now, ts, faultVars>>

(* The commit fails, or the process ends before it: a 500 or no answer, and *)
(* the nonce is taken.                                                      *)
FailAfterNonce(p) ==
  /\ ts[p] # Never
  /\ ClockOk(p)
  /\ Register(p)
  /\ UNCHANGED <<now, ts, rowVars, deviceVars, faultVars>>

Ingest(p, v) ==
  RefuseClock(p, v) \/ RefuseReplay(p, v) \/ RefuseSignature(p, v) \/ Store(p, v)

-----------------------------------------------------------------------------
(* Devices, the link monitor, the environment *)

Provision(v, d) ==
  /\ owner[v] = NoDrone
  /\ owner' = [owner EXCEPT ![v] = d]
  /\ UNCHANGED <<now, ts, nonceVars, rowVars, seen, failing, faultVars>>

RotateCert(v) ==
  /\ owner[v] # NoDrone
  /\ failing' = failing \ {v}
  /\ UNCHANGED <<now, ts, nonceVars, rowVars, owner, seen, faultVars>>

(* raise_link_lost_alerts commits what it read of the tracks some time ago, *)
(* so the drones it opens an alert for may have been heard since:           *)
(* LinkMonitor has its steps.                                               *)
RaiseLinkLost ==
  /\ \E silent \in SUBSET {d \in Drones : track[d] # NoPacket} : alerts' = alerts \cup silent
  /\ UNCHANGED <<now, ts, nonceVars, stored, track, deviceVars, faultVars>>

(* The edge agent's clock may be ahead of the API's, or behind.             *)
Sign(p, t) ==
  /\ ts[p] = Never
  /\ ts' = [ts EXCEPT ![p] = t]
  /\ UNCHANGED <<now, nonceVars, rowVars, deviceVars, faultVars>>

Tick ==
  /\ now < MaxTime
  /\ now' = now + 1
  /\ UNCHANGED <<ts, nonceVars, rowVars, deviceVars, faultVars>>

RedisDown ==
  /\ redisUp
  /\ outages < MaxOutages
  /\ redisUp' = FALSE
  /\ outages' = outages + 1
  /\ UNCHANGED <<now, ts, nonceVars, rowVars, deviceVars, restarts>>

(* Redis comes back with its keys, or restarted without them.               *)
RedisBack ==
  /\ ~redisUp
  /\ redisUp' = TRUE
  /\ redisKey' \in {redisKey, [p \in Packets |-> Never]}
  /\ UNCHANGED <<now, ts, hasRedis, memKey, rowVars, deviceVars, outages, restarts>>

Restart ==
  /\ restarts < MaxRestarts
  /\ restarts' = restarts + 1
  /\ hasRedis' = redisUp
  /\ memKey' = [p \in Packets |-> Never]
  /\ UNCHANGED <<now, ts, redisKey, rowVars, deviceVars, redisUp, outages>>

Next ==
  \/ \E p \in Packets, v \in Devices \cup {NoDevice} : Ingest(p, v)
  \/ \E p \in Packets : FailAfterNonce(p)
  \/ \E p \in Packets, t \in Times : Sign(p, t)
  \/ \E v \in Devices, d \in Drones : Provision(v, d)
  \/ \E v \in Devices : RotateCert(v)
  \/ RaiseLinkLost
  \/ Tick \/ RedisDown \/ RedisBack \/ Restart

Spec == Init /\ [][Next]_vars

-----------------------------------------------------------------------------
(* Properties *)

(* A packet that is delivered again and again is stored once, however late  *)
(* the copies come and whatever the clocks say; each time Redis went away   *)
(* or the API restarted, one of the two nonce memories may have been lost   *)
(* or exchanged for the other, which lets one more copy in.                 *)
CopiesBounded ==
  \A p \in Packets :
    stored[p] <= IF outages = 0 THEN 1 ELSE outages + restarts + 2

(* What is derived from packets is derived from stored ones of the right    *)
(* drone: a track is written from an event of its drone, a device was seen  *)
(* when its own drone's packet was stored.                                  *)
DerivedFromStored ==
  /\ \A d \in Drones : track[d] # NoPacket => DroneOf[track[d]] = d /\ stored[track[d]] > 0
  /\ \A v \in Devices :
       seen[v] # NoPacket => DroneOf[seen[v]] = owner[v] /\ stored[seen[v]] > 0

(* Packets that arrive out of order take a track back in time, but never by *)
(* more than the two skew windows.                                          *)
TrackRegressionBounded ==
  [][\A d \in Drones :
       track[d] # NoPacket => /\ track'[d] # NoPacket
                              /\ ts'[track'[d]] >= ts[track[d]] - 2 * Skew]_vars
=============================================================================
