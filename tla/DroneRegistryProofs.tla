------------------------- MODULE DroneRegistryProofs -------------------------
(***************************************************************************)
(* What holds of the registry for any number of drones, keys, stations and *)
(* overlapping requests: every drone has an active key of its own, and a   *)
(* secret without a drone has been left by an overlap.                     *)
(***************************************************************************)
EXTENDS DroneRegistry, TLAPS, FiniteSetTheorems

Rotating == {"rotate", "rotating"}
Deleting == {"delete", "deleting"}

(* What a request holds.                                                    *)
ReqTyped(s) ==
  /\ s.pc = "create" => s.uid \in Uids
  /\ s.pc \in Rotating => s \in [pc : Rotating, drone : Rows, key : KeyIds]
  /\ s.pc \in Deleting =>
       s \in [pc : Deleting, drone : Rows, key : KeyIds, unlinked : SUBSET Stations]
  /\ s.pc \in {"link", "provision", "report"} => s.drone \in Rows
  /\ s.pc = "link" => s.station \in Stations

RequestsTyped ==
  /\ req = [r \in Requests |-> req[r]]
  /\ \A r \in Requests : ReqTyped(req[r])

(* The requests that are going to insert a key, and a drone.                *)
Insert    == {"create", "rotate", "rotating"}
Inserting == {q \in Requests : PC(q) \in Insert}
Creating  == {q \in Requests : PC(q) = "create"}

Room ==
  /\ lastKey + Cardinality(Inserting) <= MaxKeys
  /\ lastRow + Cardinality(Creating) <= MaxDrones

(* No number is given twice: a key or a row that is inserted is new.        *)
Numbered ==
  /\ \A d \in Rows : key[d] <= lastKey
  /\ \A d \in Rows : d > lastRow => ~Exists(d)
  /\ \A r \in Requests : PC(r) \in Rotating => req[r].key <= lastKey

(* The key that a rotation is about to deactivate is no other drone's,      *)
(* whatever has become of the drone since it was read.                      *)
RotationsOwn ==
  \A r \in Requests : PC(r) \in Rotating =>
    \A e \in Registered : key[e] = req[r].key => e = req[r].drone

RegInv == RegTypeOK /\ RequestsTyped /\ Room /\ Numbered /\ RotationsOwn /\ KeyInForce

-----------------------------------------------------------------------------
(* Requests and room *)

LEMMA GotoReads ==
  ASSUME RequestsTyped, NEW r \in Requests, NEW s, Goto(r, s)
  PROVE  /\ req' = [q \in Requests |-> req'[q]]
         /\ \A q \in Requests : req'[q] = IF q = r THEN s ELSE req[q]
BY DEF RequestsTyped, Goto

LEMMA GotoTyped ==
  ASSUME RequestsTyped, NEW r \in Requests, NEW s, Goto(r, s), ReqTyped(s)
  PROVE  RequestsTyped'
<1>1. \A q \in Requests : ReqTyped(req'[q])
  BY GotoReads DEF RequestsTyped
<1> QED
  BY <1>1, GotoReads DEF RequestsTyped

LEMMA FinishReads ==
  ASSUME RequestsTyped, NEW r \in Requests, Finish(r)
  PROVE  /\ Goto(r, Idle)
         /\ RequestsTyped'
         /\ PC(r)' = "idle"
         /\ req'[r] = Idle
         /\ \A q \in Requests \ {r} : req'[q] = req[q]
<1>1. Goto(r, Idle)
  BY DEF Finish
<1>2. ReqTyped(Idle)
  BY DEF ReqTyped, Idle, Rotating, Deleting
<1> QED
  BY <1>1, <1>2, GotoTyped, GotoReads DEF Idle, PC

LEMMA CountsTyped ==
  /\ IsFiniteSet(Inserting) /\ Cardinality(Inserting) \in Nat
  /\ IsFiniteSet(Creating) /\ Cardinality(Creating) \in Nat
<1>1. Inserting \in SUBSET Requests /\ Creating \in SUBSET Requests
  BY DEF Inserting, Creating
<1>2. IsFiniteSet(Inserting) /\ IsFiniteSet(Creating)
  BY <1>1, FS_Subset, BoundsAssumption
<1> QED
  BY <1>2, FS_CardinalityType

(* How the step of one request changes the two sets.                        *)
LEMMA CountsMove ==
  ASSUME RequestsTyped, NEW r \in Requests, NEW s, Goto(r, s)
  PROVE  /\ Inserting' = IF s.pc \in Insert THEN Inserting \cup {r} ELSE Inserting \ {r}
         /\ Creating' = IF s.pc = "create" THEN Creating \cup {r} ELSE Creating \ {r}
BY GotoReads DEF Inserting, Creating, PC

LEMMA RoomKept ==
  ASSUME RegTypeOK, RequestsTyped, Room, NEW r \in Requests, NEW s, Goto(r, s),
         s.pc \in Insert => PC(r) \in Insert \/ RoomForKey,
         s.pc = "create" => PC(r) = "create" \/ RoomForDrone,
         lastKey' = lastKey, lastRow' = lastRow
  PROVE  Room'
<1>1. lastKey \in Nat /\ lastRow \in Nat /\ MaxKeys \in Nat /\ MaxDrones \in Nat
  BY BoundsAssumption DEF RegTypeOK
<1>2. lastKey + Cardinality(Inserting') <= MaxKeys
  <2>1. CASE s.pc \in Insert /\ r \notin Inserting
    <3>1. lastKey + Cardinality(Inserting) < MaxKeys
      BY <2>1 DEF Inserting, RoomForKey, Insert
    <3>2. Cardinality(Inserting') = Cardinality(Inserting) + 1
      BY <2>1, CountsMove, CountsTyped, FS_AddElement
    <3> QED
      BY <1>1, <3>1, <3>2, CountsTyped
  <2>2. CASE s.pc \in Insert /\ r \in Inserting
    <3>1. Inserting' = Inserting
      BY <2>2, CountsMove
    <3> QED
      BY <3>1 DEF Room
  <2>3. CASE s.pc \notin Insert
    <3>1. Cardinality(Inserting') <= Cardinality(Inserting) /\ Cardinality(Inserting') \in Nat
      <4>1. Inserting' \in SUBSET Inserting
        BY <2>3, CountsMove
      <4> QED
        BY <4>1, CountsTyped, FS_Subset, FS_CardinalityType
    <3> QED
      BY <1>1, <3>1, CountsTyped DEF Room
  <2> QED
    BY <2>1, <2>2, <2>3
<1>3. lastRow + Cardinality(Creating') <= MaxDrones
  <2>1. CASE s.pc = "create" /\ r \notin Creating
    <3>1. lastRow + Cardinality(Creating) < MaxDrones
      BY <2>1 DEF Creating, RoomForDrone
    <3>2. Cardinality(Creating') = Cardinality(Creating) + 1
      BY <2>1, CountsMove, CountsTyped, FS_AddElement
    <3> QED
      BY <1>1, <3>1, <3>2, CountsTyped
  <2>2. CASE s.pc = "create" /\ r \in Creating
    <3>1. Creating' = Creating
      BY <2>2, CountsMove
    <3> QED
      BY <3>1 DEF Room
  <2>3. CASE s.pc # "create"
    <3>1. Cardinality(Creating') <= Cardinality(Creating) /\ Cardinality(Creating') \in Nat
      <4>1. Creating' \in SUBSET Creating
        BY <2>3, CountsMove
      <4> QED
        BY <4>1, CountsTyped, FS_Subset, FS_CardinalityType
    <3> QED
      BY <1>1, <3>1, CountsTyped DEF Room
  <2> QED
    BY <2>1, <2>2, <2>3
<1> QED
  BY <1>2, <1>3 DEF Room

(* A request that ends gives its room to what it has inserted.              *)
LEMMA RoomUsed ==
  ASSUME RegTypeOK, RequestsTyped, Room, NEW r \in Requests, Finish(r), PC(r) \in Insert,
         lastKey' = lastKey + 1,
         lastRow' = IF PC(r) = "create" THEN lastRow + 1 ELSE lastRow
  PROVE  /\ Room'
         /\ lastKey' \in KeyIds
         /\ PC(r) = "create" => lastRow' \in Rows
<1>1. lastKey \in Nat /\ lastRow \in Nat /\ MaxKeys \in Nat /\ MaxDrones \in Nat
  BY BoundsAssumption DEF RegTypeOK
<1>2. Inserting' = Inserting \ {r} /\ Creating' = Creating \ {r}
  <2>1. Idle.pc = "idle" /\ "idle" \notin Insert
    BY DEF Idle, Insert
  <2> QED
    BY <2>1, CountsMove, FinishReads
<1>3. /\ Cardinality(Inserting') = Cardinality(Inserting) - 1
      /\ Cardinality(Inserting') \in Nat
  <2>1. r \in Inserting
    BY DEF Inserting
  <2>2. IsFiniteSet(Inserting')
    BY <1>2, CountsTyped, FS_RemoveElement
  <2> QED
    BY <1>2, <2>1, <2>2, CountsTyped, FS_RemoveElement, FS_CardinalityType
<1>4. /\ Cardinality(Creating') = IF PC(r) = "create" THEN Cardinality(Creating) - 1
                                  ELSE Cardinality(Creating)
      /\ Cardinality(Creating') \in Nat
  <2>1. r \in Creating <=> PC(r) = "create"
    BY DEF Creating
  <2>2. IsFiniteSet(Creating')
    BY <1>2, CountsTyped, FS_RemoveElement
  <2> QED
    BY <1>2, <2>1, <2>2, CountsTyped, FS_RemoveElement, FS_CardinalityType
<1>5. lastKey' + Cardinality(Inserting') <= MaxKeys /\ lastKey' \in KeyIds
  BY <1>1, <1>3, CountsTyped DEF Room, KeyIds
<1>6. /\ lastRow' + Cardinality(Creating') <= MaxDrones
      /\ PC(r) = "create" => lastRow' \in Rows
  BY <1>1, <1>4, CountsTyped DEF Room, Rows
<1> QED
  BY <1>5, <1>6 DEF Room

-----------------------------------------------------------------------------
(* Steps that leave drones and keys alone *)

(* RegTypeOK without its last conjunct.                                     *)
TablesTyped ==
  /\ uid \in [Rows -> Uids \cup {Nil}]
  /\ key \in [Rows -> KeyIds \cup {Nil}]
  /\ role \in [Rows -> Roles]
  /\ keyStatus \in [KeyIds -> {"none", "active", "inactive"}]
  /\ stations \subseteq Stations
  /\ stationDrone \in [Stations -> Rows \cup {Nil}]
  /\ deviceDrone \in [Devices -> Rows \cup {Nil}]
  /\ tasked \subseteq Rows
  /\ lastRow \in 0 .. MaxDrones
  /\ lastKey \in 0 .. MaxKeys

Stages == {"idle", "create", "rotate", "rotating", "delete", "deleting",
           "link", "provision", "report"}

LEMMA TypeParts == RegTypeOK <=> TablesTyped /\ \A r \in Requests : PC(r) \in Stages
BY DEF RegTypeOK, TablesTyped, Stages

LEMMA GotoStaged ==
  ASSUME RegTypeOK, RequestsTyped, NEW r \in Requests, NEW s, Goto(r, s),
         s.pc \in Stages, TablesTyped'
  PROVE  RegTypeOK'
<1>1. \A q \in Requests : PC(q)' \in Stages
  BY GotoReads, TypeParts DEF PC
<1>2. RegTypeOK' <=> TablesTyped' /\ \A q \in Requests : PC(q)' \in Stages
  BY DEF RegTypeOK, TablesTyped, Stages
<1> QED
  BY <1>1, <1>2

Untouched == UNCHANGED <<uid, key, lastRow, keyVars>>

LEMMA QuietStep ==
  ASSUME RegInv, NEW r \in Requests, NEW s, Goto(r, s), Untouched, TablesTyped',
         s.pc \in Stages, ReqTyped(s),
         s.pc \in Insert => PC(r) \in Insert \/ RoomForKey,
         s.pc = "create" => PC(r) = "create" \/ RoomForDrone,
         s.pc \in Rotating =>
           /\ s.key <= lastKey
           /\ \A e \in Registered : key[e] = s.key => e = s.drone
  PROVE  RegInv'
<1>1. uid' = uid /\ key' = key /\ lastRow' = lastRow /\ lastKey' = lastKey
      /\ keyStatus' = keyStatus
  BY DEF Untouched, keyVars
<1>2. RegTypeOK' /\ RequestsTyped' /\ Room'
  BY <1>1, GotoStaged, GotoTyped, RoomKept DEF RegInv
<1>3. Registered' = Registered /\ \A d \in Rows : Exists(d)' = Exists(d)
  BY <1>1 DEF Registered, Exists
<1>4. KeyInForce'
  BY <1>1, <1>3 DEF RegInv, KeyInForce
<1>5. \A q \in Requests : req'[q] = IF q = r THEN s ELSE req[q]
  BY GotoReads DEF RegInv
<1>6. Numbered'
  BY <1>1, <1>3, <1>5 DEF RegInv, Numbered, PC
<1>7. RotationsOwn'
  BY <1>1, <1>3, <1>5 DEF RegInv, RotationsOwn, PC
<1> QED
  BY <1>2, <1>4, <1>6, <1>7 DEF RegInv

(* An answer that writes nothing about drones and keys.                     *)
LEMMA QuietFinish ==
  ASSUME RegInv, NEW r \in Requests, Finish(r), Untouched, TablesTyped'
  PROVE  RegInv'
<1>1. Goto(r, Idle) /\ Idle.pc = "idle"
  BY FinishReads DEF RegInv, Idle
<1>2. ReqTyped(Idle)
  BY DEF ReqTyped, Idle, Rotating, Deleting
<1>3. "idle" \in Stages /\ "idle" \notin Insert /\ "idle" \notin Rotating
  BY DEF Stages, Insert, Rotating
<1> QED
  BY <1>1, <1>2, <1>3, QuietStep DEF Insert

LEMMA TablesStay ==
  ASSUME TablesTyped, UNCHANGED tables
  PROVE  TablesTyped' /\ Untouched
BY DEF TablesTyped, Untouched, tables, droneVars, keyVars, stationVars

LEMMA AbortKeeps ==
  ASSUME RegInv, NEW r \in Requests, Abort(r)
  PROVE  RegInv'
BY TypeParts, TablesStay, QuietFinish DEF Abort, RegInv

(* Steps of nobody's request.                                               *)
LEMMA RestKeeps ==
  ASSUME RegInv, UNCHANGED req, Untouched, TablesTyped'
  PROVE  RegInv'
<1>1. uid' = uid /\ key' = key /\ lastRow' = lastRow /\ lastKey' = lastKey
      /\ keyStatus' = keyStatus /\ req' = req
  BY DEF Untouched, keyVars
<1>2. RegTypeOK'
  <2>1. \A q \in Requests : PC(q)' \in Stages
    BY <1>1, TypeParts DEF PC, RegInv
  <2> QED
    BY <2>1 DEF RegTypeOK, TablesTyped, Stages
<1>3. RequestsTyped' /\ Room'
  BY <1>1 DEF RegInv, RequestsTyped, Room, Inserting, Creating, PC
<1>4. Numbered' /\ RotationsOwn' /\ KeyInForce'
  BY <1>1 DEF RegInv, Numbered, RotationsOwn, KeyInForce, Registered, Exists, PC
<1> QED
  BY <1>2, <1>3, <1>4 DEF RegInv

-----------------------------------------------------------------------------
(* Arrivals *)

LEMMA ArriveKeeps ==
  ASSUME RegInv, NEW r \in Requests, Arrive(r)
  PROVE  RegInv'
<1>t. UNCHANGED tables => TablesTyped' /\ Untouched
  BY TypeParts, TablesStay DEF RegInv
<1>1. CASE StartCreate(r)
  <2>1. PICK u \in Uids : Goto(r, [pc |-> "create", uid |-> u])
    BY <1>1 DEF StartCreate
  <2> DEFINE s == [pc |-> "create", uid |-> u]
  <2>2. s.pc \in Stages /\ s.pc \notin Rotating /\ ReqTyped(s)
    BY DEF ReqTyped, Stages, Rotating, Deleting
  <2>3. RoomForKey /\ RoomForDrone /\ TablesTyped' /\ Untouched
    BY <1>1, <1>t DEF StartCreate
  <2>4. Goto(r, s)
    BY <2>1
  <2> HIDE DEF s
  <2> QED
    BY <2>2, <2>3, <2>4, QuietStep
<1>2. ASSUME NEW d \in Rows, StartRotate(r, d) PROVE RegInv'
  <2> DEFINE s == [pc |-> "rotate", drone |-> d, key |-> key[d]]
  <2>1. Goto(r, s) /\ RoomForKey /\ Exists(d) /\ TablesTyped' /\ Untouched
    BY <1>2, <1>t DEF StartRotate
  <2>2. d \in Registered
    BY <2>1 DEF Registered
  <2>3. key[d] \in KeyIds
    BY <2>2 DEF RegInv, KeyInForce, RegTypeOK
  <2>4. s.pc = "rotate" /\ s.drone = d /\ s.key = key[d] /\ ReqTyped(s)
    BY <2>3 DEF ReqTyped, Rotating, Deleting
  <2>5. s.key <= lastKey /\ \A e \in Registered : key[e] = s.key => e = s.drone
    BY <2>2, <2>4 DEF RegInv, Numbered, KeyInForce
  <2> HIDE DEF s
  <2> QED
    BY <2>1, <2>4, <2>5, QuietStep DEF Stages
<1>3. ASSUME NEW d \in Rows, StartDelete(r, d) PROVE RegInv'
  <2> DEFINE s == [pc |-> "delete", drone |-> d, key |-> key[d], unlinked |-> {}]
  <2>1. Goto(r, s) /\ Exists(d) /\ TablesTyped' /\ Untouched
    BY <1>3, <1>t DEF StartDelete
  <2>2. key[d] \in KeyIds
    BY <2>1 DEF Registered, RegInv, KeyInForce, RegTypeOK
  <2>3. s.pc = "delete" /\ ReqTyped(s)
    BY <2>2 DEF ReqTyped, Rotating, Deleting
  <2> HIDE DEF s
  <2> QED
    BY <2>1, <2>3, QuietStep DEF Stages, Rotating, Insert
<1>4. ASSUME NEW d \in Rows, NEW t \in Stations, StartLink(r, t, d) PROVE RegInv'
  <2> DEFINE s == [pc |-> "link", station |-> t, drone |-> d]
  <2>1. Goto(r, s) /\ TablesTyped' /\ Untouched
    BY <1>4, <1>t DEF StartLink
  <2>2. s.pc = "link" /\ ReqTyped(s)
    BY DEF ReqTyped, Rotating, Deleting
  <2> HIDE DEF s
  <2> QED
    BY <2>1, <2>2, QuietStep DEF Stages, Rotating, Insert
<1>5. ASSUME NEW d \in Rows, NEW v \in Devices, StartProvision(r, v, d) PROVE RegInv'
  <2> DEFINE s == [pc |-> "provision", device |-> v, drone |-> d]
  <2>1. Goto(r, s) /\ TablesTyped' /\ Untouched
    BY <1>5, <1>t DEF StartProvision
  <2>2. s.pc = "provision" /\ ReqTyped(s)
    BY DEF ReqTyped, Rotating, Deleting
  <2> HIDE DEF s
  <2> QED
    BY <2>1, <2>2, QuietStep DEF Stages, Rotating, Insert
<1>6. ASSUME NEW t \in Stations, StartReport(r, t) PROVE RegInv'
  <2> DEFINE s == [pc |-> "report", drone |-> stationDrone[t]]
  <2>1. Goto(r, s) /\ TablesTyped' /\ Untouched
    BY <1>6, <1>t DEF StartReport
  <2>2. stationDrone[t] \in Rows
    BY <1>6 DEF StartReport, RegInv, RegTypeOK
  <2>3. s.pc = "report" /\ ReqTyped(s)
    BY <2>2 DEF ReqTyped, Rotating, Deleting
  <2> HIDE DEF s
  <2> QED
    BY <2>1, <2>3, QuietStep DEF Stages, Rotating, Insert
<1> QED
  BY <1>1, <1>2, <1>3, <1>4, <1>5, <1>6 DEF Arrive

-----------------------------------------------------------------------------
(* Flushes and commits *)

LEMMA FlushesKeep ==
  ASSUME RegInv, NEW r \in Requests, FlushRotate(r) \/ FlushDelete(r)
  PROVE  RegInv'
<1>t. TablesTyped' /\ Untouched
  BY TypeParts, TablesStay DEF RegInv, FlushRotate, FlushDelete
<1>1. CASE FlushRotate(r)
  <2> DEFINE s == [req[r] EXCEPT !.pc = "rotating"]
  <2>1. Goto(r, s) /\ PC(r) = "rotate"
    BY <1>1 DEF FlushRotate
  <2>2. req[r] \in [pc : Rotating, drone : Rows, key : KeyIds]
    BY <2>1 DEF RegInv, RequestsTyped, ReqTyped, PC, Rotating
  <2>3. s.pc = "rotating" /\ s.drone = req[r].drone /\ s.key = req[r].key /\ ReqTyped(s)
    BY <2>2 DEF ReqTyped, Rotating, Deleting
  <2>4. s.key <= lastKey /\ \A e \in Registered : key[e] = s.key => e = s.drone
    BY <2>1, <2>3 DEF RegInv, Numbered, RotationsOwn, Rotating
  <2> HIDE DEF s
  <2> QED
    BY <1>t, <2>1, <2>3, <2>4, QuietStep DEF Stages, Insert
<1>2. CASE FlushDelete(r)
  <2> DEFINE s == [req[r] EXCEPT !.pc = "deleting", !.unlinked = LinkedStations(req[r].drone)]
  <2>1. Goto(r, s) /\ PC(r) = "delete"
    BY <1>2 DEF FlushDelete
  <2>2. req[r] \in [pc : Deleting, drone : Rows, key : KeyIds, unlinked : SUBSET Stations]
    BY <2>1 DEF RegInv, RequestsTyped, ReqTyped, PC, Deleting
  <2>3. LinkedStations(req[r].drone) \in SUBSET Stations
    BY DEF LinkedStations
  <2>4. s.pc = "deleting" /\ s \in [pc : Deleting, drone : Rows, key : KeyIds,
                                     unlinked : SUBSET Stations]
    BY <2>2, <2>3 DEF Deleting
  <2>5. ReqTyped(s)
    BY <2>4 DEF ReqTyped, Rotating, Deleting
  <2> HIDE DEF s
  <2> QED
    BY <1>t, <2>1, <2>4, <2>5, QuietStep DEF Stages, Insert, Rotating
<1> QED
  BY <1>1, <1>2

(* A new key and a new row: neither was used.                               *)
LEMMA CommitCreateKeeps ==
  ASSUME RegInv, NEW r \in Requests, CommitCreate(r)
  PROVE  RegInv'
<1> DEFINE k == lastKey + 1
           d == lastRow + 1
<1>n. lastKey \in Nat /\ lastRow \in Nat /\ \A e \in Rows : key[e] \in Nat
  BY BoundsAssumption DEF RegInv, RegTypeOK, KeyIds, Nil
<1>1. /\ Finish(r) /\ PC(r) = "create" /\ PC(r) \in Insert
      /\ lastKey' = k /\ lastRow' = d
      /\ keyStatus' = [keyStatus EXCEPT ![k] = "active"]
      /\ uid' = [uid EXCEPT ![d] = req[r].uid]
      /\ key' = [key EXCEPT ![d] = k]
      /\ \E p \in Roles : role' = [role EXCEPT ![d] = p]
      /\ UNCHANGED <<stationVars, deviceDrone, tasked>>
  BY DEF CommitCreate, InsertKey, Insert
<1>2. Room' /\ k \in KeyIds /\ d \in Rows
  BY <1>1, RoomUsed DEF RegInv
<1>3. req[r].uid \in Uids
  BY <1>1 DEF RegInv, RequestsTyped, ReqTyped, PC
<1>4. TablesTyped'
  <2>1. lastRow' \in 0 .. MaxDrones /\ lastKey' \in 0 .. MaxKeys
    BY <1>1, <1>2, <1>n DEF Rows, KeyIds
  <2> QED
    BY <1>1, <1>2, <1>3, <2>1 DEF TablesTyped, RegInv, RegTypeOK, stationVars
<1>5. RegTypeOK' /\ RequestsTyped'
  BY <1>1, <1>4, FinishReads, GotoStaged DEF RegInv, Stages, Idle
<1>6. /\ uid'[d] # Nil /\ key'[d] = k /\ keyStatus'[k] = "active"
      /\ \A e \in Rows \ {d} : uid'[e] = uid[e] /\ key'[e] = key[e]
      /\ \A j \in KeyIds \ {k} : keyStatus'[j] = keyStatus[j]
  BY <1>1, <1>2, <1>3 DEF RegInv, RegTypeOK, Uids, Nil
<1>7. Registered' = Registered \cup {d}
  BY <1>2, <1>6 DEF Registered, Exists
<1>8. \A e \in Rows : key[e] <= lastKey /\ key[e] # k
  BY <1>n DEF RegInv, Numbered
<1>9. KeyInForce'
  <2>1. ASSUME NEW e \in Registered, e # d
        PROVE  key'[e] = key[e] /\ key[e] # Nil /\ keyStatus'[key[e]] = "active"
    <3>1. e \in Rows /\ key[e] \in KeyIds \ {k}
      BY <1>8 DEF Registered, RegInv, KeyInForce, RegTypeOK
    <3> QED
      BY <1>6, <2>1, <3>1 DEF RegInv, KeyInForce
  <2>2. k # Nil
    BY <1>n DEF Nil
  <2>3. ASSUME NEW e \in Registered', NEW f \in Registered', key'[e] = key'[f] PROVE e = f
    BY <1>6, <1>7, <1>8, <2>1, <2>3 DEF RegInv, KeyInForce, Registered
  <2> QED
    BY <1>6, <1>7, <2>1, <2>2, <2>3 DEF KeyInForce
<1>10. \A q \in Requests : PC(q)' \in Rotating => req'[q] = req[q] /\ PC(q) \in Rotating
  BY <1>1, FinishReads DEF RegInv, PC, Rotating
<1>11. Numbered'
  <2>1. \A e \in Rows : key'[e] <= lastKey'
    BY <1>1, <1>6, <1>8, <1>n
  <2>2. \A e \in Rows : e > lastRow' => ~Exists(e)'
    BY <1>1, <1>6, <1>n DEF RegInv, Numbered, Exists, Rows
  <2>3. ASSUME NEW q \in Requests, PC(q)' \in Rotating PROVE req'[q].key <= lastKey'
    <3>1. req'[q].key = req[q].key /\ req[q].key <= lastKey /\ req[q].key \in KeyIds
      BY <1>10, <2>3 DEF RegInv, Numbered, RequestsTyped, ReqTyped, PC
    <3> QED
      BY <1>1, <1>n, <3>1 DEF KeyIds
  <2> QED
    BY <2>1, <2>2, <2>3 DEF Numbered
<1>12. RotationsOwn'
  <2> SUFFICES ASSUME NEW q \in Requests, PC(q)' \in Rotating,
                      NEW e \in Registered', key'[e] = req'[q].key
               PROVE  e = req'[q].drone
    BY DEF RotationsOwn
  <2>1. req'[q] = req[q] /\ PC(q) \in Rotating
    BY <1>10
  <2>2. req[q].key <= lastKey
    BY <2>1 DEF RegInv, Numbered
  <2>3. e # d
    BY <1>6, <1>n, <2>1, <2>2
  <2>4. e \in Registered /\ key'[e] = key[e]
    BY <1>6, <1>7, <2>3 DEF Registered
  <2> QED
    BY <2>1, <2>4 DEF RegInv, RotationsOwn
<1> QED
  BY <1>2, <1>5, <1>9, <1>11, <1>12 DEF RegInv

(* The old key was no other drone's, and the new one was nobody's.          *)
LEMMA CommitRotateKeeps ==
  ASSUME RegInv, NEW r \in Requests, CommitRotate(r)
  PROVE  RegInv'
<1> DEFINE k == lastKey + 1
           d == req[r].drone
           old == req[r].key
<1>n. lastKey \in Nat /\ \A e \in Rows : key[e] \in Nat
  BY BoundsAssumption DEF RegInv, RegTypeOK, KeyIds, Nil
<1>1. /\ Finish(r) /\ PC(r) = "rotating" /\ PC(r) \in Insert
      /\ Exists(d)
      /\ lastKey' = k
      /\ keyStatus' = [keyStatus EXCEPT ![old] = "inactive", ![k] = "active"]
      /\ key' = [key EXCEPT ![d] = k]
      /\ uid' = uid /\ role' = role /\ lastRow' = lastRow
      /\ UNCHANGED <<stationVars, deviceDrone, tasked>>
  BY DEF CommitRotate, Insert
<1>2. Room' /\ k \in KeyIds
  BY <1>1, RoomUsed DEF RegInv
<1>3. d \in Rows /\ old \in KeyIds /\ old <= lastKey
  BY <1>1 DEF RegInv, RequestsTyped, ReqTyped, Numbered, PC, Rotating
<1>4. TablesTyped'
  <2>1. lastKey' \in 0 .. MaxKeys
    BY <1>1, <1>2, <1>n DEF KeyIds
  <2> QED
    BY <1>1, <1>2, <1>3, <2>1 DEF TablesTyped, RegInv, RegTypeOK, stationVars
<1>5. RegTypeOK' /\ RequestsTyped'
  BY <1>1, <1>4, FinishReads, GotoStaged DEF RegInv, Stages, Idle
<1>6. /\ key'[d] = k /\ keyStatus'[k] = "active"
      /\ \A e \in Rows \ {d} : key'[e] = key[e]
      /\ \A j \in KeyIds \ {k, old} : keyStatus'[j] = keyStatus[j]
  BY <1>1, <1>2, <1>3 DEF RegInv, RegTypeOK
<1>7. Registered' = Registered /\ d \in Registered
  BY <1>1, <1>3 DEF Registered, Exists
<1>8. \A e \in Rows : key[e] <= lastKey /\ key[e] # k
  BY <1>n DEF RegInv, Numbered
<1>9. \A e \in Registered : key[e] = old => e = d
  BY <1>1 DEF RegInv, RotationsOwn, Rotating
<1>10. KeyInForce'
  <2>1. ASSUME NEW e \in Registered, e # d
        PROVE  key'[e] = key[e] /\ key[e] # Nil /\ keyStatus'[key[e]] = "active"
    <3>1. e \in Rows /\ key[e] \in KeyIds \ {k, old}
      BY <1>8, <1>9, <2>1 DEF Registered, RegInv, KeyInForce, RegTypeOK
    <3> QED
      BY <1>6, <2>1, <3>1 DEF RegInv, KeyInForce
  <2>2. k # Nil
    BY <1>n DEF Nil
  <2>3. ASSUME NEW e \in Registered', NEW f \in Registered', key'[e] = key'[f] PROVE e = f
    BY <1>6, <1>7, <1>8, <2>1, <2>3 DEF RegInv, KeyInForce, Registered
  <2> QED
    BY <1>6, <1>7, <2>1, <2>2, <2>3 DEF KeyInForce
<1>11. \A q \in Requests : PC(q)' \in Rotating => req'[q] = req[q] /\ PC(q) \in Rotating
  BY <1>1, FinishReads DEF RegInv, PC, Rotating
<1>12. Numbered'
  <2>1. \A e \in Rows : key'[e] <= lastKey'
    BY <1>1, <1>6, <1>8, <1>n
  <2>2. \A e \in Rows : e > lastRow' => ~Exists(e)'
    BY <1>1 DEF RegInv, Numbered, Exists
  <2>3. ASSUME NEW q \in Requests, PC(q)' \in Rotating PROVE req'[q].key <= lastKey'
    <3>1. req'[q].key = req[q].key /\ req[q].key <= lastKey /\ req[q].key \in KeyIds
      BY <1>11, <2>3 DEF RegInv, Numbered, RequestsTyped, ReqTyped, PC
    <3> QED
      BY <1>1, <1>n, <3>1 DEF KeyIds
  <2> QED
    BY <2>1, <2>2, <2>3 DEF Numbered
<1>13. RotationsOwn'
  <2> SUFFICES ASSUME NEW q \in Requests, PC(q)' \in Rotating,
                      NEW e \in Registered', key'[e] = req'[q].key
               PROVE  e = req'[q].drone
    BY DEF RotationsOwn
  <2>1. req'[q] = req[q] /\ PC(q) \in Rotating
    BY <1>11
  <2>2. req[q].key <= lastKey
    BY <2>1 DEF RegInv, Numbered
  <2>3. e # d
    BY <1>6, <1>n, <2>1, <2>2
  <2>4. e \in Registered /\ key'[e] = key[e]
    BY <1>6, <1>7, <2>3 DEF Registered
  <2> QED
    BY <2>1, <2>4 DEF RegInv, RotationsOwn
<1> QED
  BY <1>2, <1>5, <1>10, <1>12, <1>13 DEF RegInv

(* Only a key that no drone that stays has is taken away.                   *)
LEMMA CommitDeleteKeeps ==
  ASSUME RegInv, NEW r \in Requests, CommitDelete(r)
  PROVE  RegInv'
<1> DEFINE d == req[r].drone
           k == req[r].key
           unused == \A e \in Registered \ {d} : key[e] # k
<1>1. /\ Finish(r) /\ PC(r) = "deleting"
      /\ keyStatus' = [keyStatus EXCEPT ![k] = IF unused THEN "none" ELSE @]
      /\ uid' = [uid EXCEPT ![d] = Nil]
      /\ key' = [key EXCEPT ![d] = Nil]
      /\ role' = [role EXCEPT ![d] = "recon"]
      /\ stationDrone' = [s \in Stations |-> IF s \in req[r].unlinked THEN Nil
                                             ELSE stationDrone[s]]
      /\ lastRow' = lastRow /\ lastKey' = lastKey /\ stations' = stations
      /\ deviceDrone' = deviceDrone /\ tasked' = tasked
  BY DEF CommitDelete
<1>2. d \in Rows /\ k \in KeyIds
  BY <1>1 DEF RegInv, RequestsTyped, ReqTyped, PC, Deleting
<1>3. TablesTyped'
  BY <1>1, <1>2 DEF TablesTyped, RegInv, RegTypeOK, Roles
<1>4. RegTypeOK' /\ RequestsTyped'
  BY <1>1, <1>3, FinishReads, GotoStaged DEF RegInv, Stages, Idle
<1>5. Room'
  <2>1. Goto(r, Idle) /\ Idle.pc = "idle"
    BY <1>1, FinishReads DEF RegInv, Idle
  <2> QED
    BY <1>1, <2>1, RoomKept DEF RegInv, Insert
<1>6. /\ uid'[d] = Nil /\ key'[d] = Nil
      /\ \A e \in Rows \ {d} : uid'[e] = uid[e] /\ key'[e] = key[e]
      /\ \A j \in KeyIds \ {k} : keyStatus'[j] = keyStatus[j]
      /\ ~unused => keyStatus'[k] = keyStatus[k]
  BY <1>1, <1>2 DEF RegInv, RegTypeOK
<1>7. Registered' = Registered \ {d}
  BY <1>6 DEF Registered, Exists
<1>8. KeyInForce'
  <2>1. ASSUME NEW e \in Registered \ {d}
        PROVE  key'[e] = key[e] /\ key[e] # Nil /\ keyStatus'[key[e]] = "active"
    <3>1. e \in Rows /\ key[e] \in KeyIds /\ keyStatus[key[e]] = "active"
      BY DEF Registered, RegInv, KeyInForce, RegTypeOK
    <3>2. unused => key[e] # k
      OBVIOUS
    <3> QED
      BY <1>6, <3>1, <3>2 DEF RegInv, KeyInForce
  <2> QED
    BY <1>7, <2>1 DEF RegInv, KeyInForce
<1>9. \A q \in Requests : PC(q)' \in Rotating => req'[q] = req[q] /\ PC(q) \in Rotating
  BY <1>1, FinishReads DEF RegInv, PC, Rotating
<1>10. Numbered'
  <2>1. \A e \in Rows : key'[e] <= lastKey'
    BY <1>1, <1>6, BoundsAssumption DEF RegInv, RegTypeOK, Numbered, Nil
  <2>2. \A e \in Rows : e > lastRow' => ~Exists(e)'
    BY <1>1, <1>6 DEF RegInv, Numbered, Exists
  <2>3. \A q \in Requests : PC(q)' \in Rotating => req'[q].key <= lastKey'
    BY <1>1, <1>9 DEF RegInv, Numbered
  <2> QED
    BY <2>1, <2>2, <2>3 DEF Numbered
<1>11. RotationsOwn'
  BY <1>6, <1>7, <1>9 DEF RegInv, RotationsOwn, Registered
<1> QED
  BY <1>4, <1>5, <1>8, <1>10, <1>11 DEF RegInv

(* The rows that refer to drones.                                           *)
LEMMA CommitOthersKeep ==
  ASSUME RegInv, NEW r \in Requests,
         CommitLink(r) \/ CommitProvision(r) \/ CommitReport(r)
  PROVE  RegInv'
<1>1. CASE CommitLink(r)
  <2>1. req[r].station \in Stations /\ req[r].drone \in Rows
    BY <1>1 DEF CommitLink, RegInv, RequestsTyped, ReqTyped, PC
  <2>2. TablesTyped' /\ Untouched /\ Finish(r)
    BY <1>1, <2>1
    DEF CommitLink, RegInv, RegTypeOK, TablesTyped, Untouched, droneVars, keyVars
  <2> QED
    BY <2>2, QuietFinish
<1>2. CASE CommitProvision(r)
  <2>1. req[r].drone \in Rows
    BY <1>2 DEF CommitProvision, RegInv, RequestsTyped, ReqTyped, PC
  <2>2. TablesTyped' /\ Untouched /\ Finish(r)
    BY <1>2, <2>1
    DEF CommitProvision, RegInv, RegTypeOK, TablesTyped, Untouched, droneVars, keyVars,
        stationVars
  <2> QED
    BY <2>2, QuietFinish
<1>3. CASE CommitReport(r)
  <2>1. req[r].drone \in Rows
    BY <1>3 DEF CommitReport, RegInv, RequestsTyped, ReqTyped, PC
  <2>2. TablesTyped' /\ Untouched /\ Finish(r)
    BY <1>3, <2>1
    DEF CommitReport, RegInv, RegTypeOK, TablesTyped, Untouched, droneVars, keyVars,
        stationVars
  <2> QED
    BY <2>2, QuietFinish
<1> QED
  BY <1>1, <1>2, <1>3

LEMMA ProceedKeeps ==
  ASSUME RegInv, NEW r \in Requests, Proceed(r)
  PROVE  RegInv'
<1>1. CASE Abort(r)
  BY <1>1, AbortKeeps
<1>2. CASE ~Abort(r)
  BY <1>2, CommitCreateKeeps, FlushesKeep, CommitRotateKeeps, CommitDeleteKeeps,
     CommitOthersKeep
  DEF Proceed, RefuseCreate, AbortRotate, AbortDelete, BreakDeadlock, RefuseLink,
      AbortProvision, AbortReport
<1> QED
  BY <1>1, <1>2

(* Single statements of nobody's request.                                   *)
LEMMA RestStepKeeps ==
  ASSUME RegInv,
         \/ \E d \in Rows : PatchRole(d) \/ DropTasks(d)
         \/ \E s \in Stations : Unlink(s)
  PROVE  RegInv'
<1>1. ASSUME NEW d \in Rows, PatchRole(d) PROVE RegInv'
  <2>1. TablesTyped' /\ Untouched /\ UNCHANGED req
    BY <1>1 DEF PatchRole, RegInv, RegTypeOK, TablesTyped, Untouched, keyVars, stationVars
  <2> QED
    BY <2>1, RestKeeps
<1>2. ASSUME NEW d \in Rows, DropTasks(d) PROVE RegInv'
  <2>1. TablesTyped' /\ Untouched /\ UNCHANGED req
    BY <1>2
    DEF DropTasks, RegInv, RegTypeOK, TablesTyped, Untouched, droneVars, keyVars, stationVars
  <2> QED
    BY <2>1, RestKeeps
<1>3. ASSUME NEW s \in Stations, Unlink(s) PROVE RegInv'
  <2>1. TablesTyped' /\ Untouched /\ UNCHANGED req
    BY <1>3 DEF Unlink, RegInv, RegTypeOK, TablesTyped, Untouched, droneVars, keyVars
  <2> QED
    BY <2>1, RestKeeps
<1> QED
  BY <1>1, <1>2, <1>3

LEMMA StepKeeps == RegInv /\ [Next]_vars => RegInv'
<1> SUFFICES ASSUME RegInv, [Next]_vars PROVE RegInv'
  OBVIOUS
<1>1. CASE UNCHANGED vars
  <2>1. UNCHANGED tables /\ UNCHANGED req
    BY <1>1 DEF vars
  <2> QED
    BY <2>1, TypeParts, TablesStay, RestKeeps DEF RegInv
<1>2. CASE Next
  BY <1>2, ArriveKeeps, ProceedKeeps, RestStepKeeps DEF Next
<1> QED
  BY <1>1, <1>2

LEMMA InitKeeps == Init => RegInv
<1> SUFFICES ASSUME Init PROVE RegInv
  OBVIOUS
<1>1. /\ req = [r \in Requests |-> Idle]
      /\ \A r \in Requests : PC(r) = "idle" /\ req[r] = Idle
  BY DEF Init, Idle, PC
<1>2. RegTypeOK
  <2>1. TablesTyped
    BY BoundsAssumption DEF Init, TablesTyped, Nil, Roles
  <2> QED
    BY <1>1, <2>1, TypeParts DEF Stages
<1>3. RequestsTyped
  BY <1>1 DEF RequestsTyped, ReqTyped, Idle, Rotating, Deleting
<1>4. Room
  <2>1. Inserting = {} /\ Creating = {}
    BY <1>1 DEF Inserting, Creating, Insert
  <2>2. lastKey = 0 /\ lastRow = 0
    BY DEF Init
  <2> QED
    BY <2>1, <2>2, FS_EmptySet, BoundsAssumption DEF Room
<1>5. Registered = {} /\ \A d \in Rows : ~Exists(d) /\ key[d] = 0
  BY DEF Init, Registered, Exists, Nil
<1>6. Numbered
  BY <1>1, <1>5 DEF Numbered, Rotating, Init
<1>7. RotationsOwn /\ KeyInForce
  BY <1>1, <1>5 DEF RotationsOwn, KeyInForce, Rotating
<1> QED
  BY <1>2, <1>3, <1>4, <1>6, <1>7 DEF RegInv

(* The invariant of all handlers of the registry.                           *)
THEOREM RegInvHolds == Spec => []RegInv
BY InitKeeps, StepKeeps, PTL DEF Spec

(* Columns, keys and requests keep their types, numbers their bounds.       *)
THEOREM RegTyping == Spec => []RegTypeOK
<1>1. RegInv => RegTypeOK
  BY DEF RegInv
<1> QED
  BY <1>1, RegInvHolds, PTL

(* create_drone, rotate_drone_key, delete_drone_from_registry: every drone  *)
(* that is registered has an active key that no other drone has.            *)
THEOREM KeysStayInForce == Spec => []KeyInForce
<1>1. RegInv => KeyInForce
  BY DEF RegInv
<1> QED
  BY <1>1, RegInvHolds, PTL

-----------------------------------------------------------------------------
(* Secrets without a drone *)

(* A request that ends now and had read another key than its drone has.     *)
Overlapped(r) ==
  /\ PC(r) \in {"rotating", "deleting"}
  /\ req'[r] = Idle
  /\ req[r].key # key[req[r].drone]

(* Every step but three leaves keys and drones alone.                       *)
LEMMA OtherSteps ==
  ASSUME RegInv, [Next]_vars
  PROVE  \/ Untouched
         \/ \E r \in Requests : CommitCreate(r) \/ CommitRotate(r) \/ CommitDelete(r)
<1>1. UNCHANGED tables => Untouched
  BY TypeParts, TablesStay DEF RegInv
<1>2. CASE UNCHANGED vars
  BY <1>1, <1>2 DEF vars
<1>3. ASSUME NEW r \in Requests, Arrive(r) PROVE Untouched
  BY <1>1, <1>3
  DEF Arrive, StartCreate, StartRotate, StartDelete, StartLink, StartProvision, StartReport
<1>4. ASSUME NEW r \in Requests, Abort(r) \/ FlushRotate(r) \/ FlushDelete(r) PROVE Untouched
  BY <1>1, <1>4 DEF Abort, FlushRotate, FlushDelete
<1>5. ASSUME NEW r \in Requests, CommitLink(r) \/ CommitProvision(r) \/ CommitReport(r)
      PROVE  Untouched
  BY <1>5 DEF CommitLink, CommitProvision, CommitReport, Untouched, droneVars, keyVars
<1>6. ASSUME NEW r \in Requests, Proceed(r)
      PROVE  Untouched \/ CommitCreate(r) \/ CommitRotate(r) \/ CommitDelete(r)
  <2>1. CASE Abort(r)
    BY <1>4, <2>1
  <2>2. CASE ~Abort(r)
    BY <1>4, <1>5, <1>6, <2>2
    DEF Proceed, RefuseCreate, AbortRotate, AbortDelete, BreakDeadlock, RefuseLink,
        AbortProvision, AbortReport
  <2> QED
    BY <2>1, <2>2
<1>7. ASSUME \/ \E d \in Rows : PatchRole(d) \/ DropTasks(d)
             \/ \E s \in Stations : Unlink(s)
      PROVE  Untouched
  BY <1>7 DEF PatchRole, DropTasks, Unlink, Untouched, droneVars, keyVars
<1> QED
  BY <1>2, <1>3, <1>6, <1>7 DEF Next

LEMMA StrayStep ==
  ASSUME RegInv, [Next]_vars, NEW k \in KeyIds, Stray(k)', ~Stray(k)
  PROVE  \E r \in Requests : Overlapped(r)
<1>n. lastKey \in Nat /\ lastRow \in Nat
  BY BoundsAssumption DEF RegInv, RegTypeOK
<1>k. /\ keyStatus'[k] = "active"
      /\ \A d \in Registered' : key'[d] # k
  BY DEF Stray
<1>s. keyStatus[k] = "active" => \E d \in Registered : key[d] = k
  BY DEF Stray
<1>1. ~Untouched
  BY <1>k, <1>s DEF Untouched, keyVars, Registered, Exists
<1>2. ASSUME NEW r \in Requests, CommitCreate(r) PROVE FALSE
  <2> DEFINE new == lastKey + 1
             d == lastRow + 1
  <2>1. /\ Finish(r) /\ PC(r) = "create" /\ PC(r) \in Insert
        /\ lastKey' = new /\ lastRow' = d
        /\ keyStatus' = [keyStatus EXCEPT ![new] = "active"]
        /\ uid' = [uid EXCEPT ![d] = req[r].uid]
        /\ key' = [key EXCEPT ![d] = new]
    BY <1>2 DEF CommitCreate, InsertKey, Insert
  <2>2. d \in Rows /\ new \in KeyIds
    BY <2>1, RoomUsed DEF RegInv
  <2>3. req[r].uid # Nil
    BY <2>1 DEF RegInv, RequestsTyped, ReqTyped, PC, Uids, Nil
  <2>4. d \in Registered' /\ key'[d] = new
    BY <2>1, <2>2, <2>3 DEF Registered, Exists, RegInv, RegTypeOK
  <2>5. k # new
    BY <1>k, <2>4
  <2>6. keyStatus[k] = "active"
    BY <1>k, <2>1, <2>5 DEF RegInv, RegTypeOK
  <2>7. PICK e \in Registered : key[e] = k
    BY <1>s, <2>6
  <2>8. e # d
    BY <1>n, <2>2 DEF RegInv, Numbered, Registered
  <2>9. e \in Registered' /\ key'[e] = k
    BY <2>1, <2>7, <2>8 DEF Registered, Exists, RegInv, RegTypeOK
  <2> QED
    BY <1>k, <2>9
<1>3. ASSUME NEW r \in Requests, CommitRotate(r) PROVE Overlapped(r)
  <2> DEFINE new == lastKey + 1
             d == req[r].drone
             old == req[r].key
  <2>1. /\ Finish(r) /\ PC(r) = "rotating" /\ PC(r) \in Insert
        /\ Exists(d)
        /\ lastKey' = new
        /\ keyStatus' = [keyStatus EXCEPT ![old] = "inactive", ![new] = "active"]
        /\ key' = [key EXCEPT ![d] = new]
        /\ uid' = uid /\ lastRow' = lastRow
    BY <1>3 DEF CommitRotate, Insert
  <2>2. d \in Rows /\ old \in KeyIds /\ old <= lastKey
    BY <2>1 DEF RegInv, RequestsTyped, ReqTyped, Numbered, PC, Rotating
  <2>3. new \in KeyIds
    BY <2>1, RoomUsed DEF RegInv
  <2>4. d \in Registered' /\ key'[d] = new
    BY <2>1, <2>2 DEF Registered, Exists, RegInv, RegTypeOK
  <2>5. k # new
    BY <1>k, <2>4
  <2>6. k # old
    BY <1>k, <1>n, <2>1, <2>2, <2>3 DEF RegInv, RegTypeOK, KeyIds
  <2>7. keyStatus[k] = "active"
    BY <1>k, <2>1, <2>5, <2>6 DEF RegInv, RegTypeOK
  <2>8. PICK e \in Registered : key[e] = k
    BY <1>s, <2>7
  <2>9. e = d
    <3>1. e # d => e \in Registered' /\ key'[e] = k
      BY <2>1, <2>8 DEF Registered, Exists, RegInv, RegTypeOK
    <3> QED
      BY <1>k, <3>1
  <2> QED
    BY <2>1, <2>6, <2>8, <2>9, FinishReads DEF Overlapped, RegInv
<1>4. ASSUME NEW r \in Requests, CommitDelete(r) PROVE Overlapped(r)
  <2> DEFINE d == req[r].drone
             old == req[r].key
             unused == \A e \in Registered \ {d} : key[e] # old
  <2>1. /\ Finish(r) /\ PC(r) = "deleting"
        /\ keyStatus' = [keyStatus EXCEPT ![old] = IF unused THEN "none" ELSE @]
        /\ uid' = [uid EXCEPT ![d] = Nil]
        /\ key' = [key EXCEPT ![d] = Nil]
    BY <1>4 DEF CommitDelete
  <2>2. d \in Rows /\ old \in KeyIds
    BY <2>1 DEF RegInv, RequestsTyped, ReqTyped, PC, Deleting
  <2>3. keyStatus[k] = "active"
    BY <1>k, <2>1, <2>2 DEF RegInv, RegTypeOK
  <2>4. PICK e \in Registered : key[e] = k
    BY <1>s, <2>3
  <2>5. e = d
    <3>1. e # d => e \in Registered' /\ key'[e] = k
      BY <2>1, <2>4 DEF Registered, Exists, RegInv, RegTypeOK
    <3> QED
      BY <1>k, <3>1
  <2>6. k # old
    <3> SUFFICES ASSUME k = old PROVE FALSE
      OBVIOUS
    <3>1. unused
      BY <2>4, <2>5 DEF RegInv, KeyInForce
    <3>2. keyStatus'[k] = "none"
      BY <2>1, <2>2, <3>1 DEF RegInv, RegTypeOK
    <3> QED
      BY <1>k, <3>2
  <2> QED
    BY <2>1, <2>4, <2>5, <2>6, FinishReads DEF Overlapped, RegInv
<1> QED
  BY <1>1, <1>2, <1>3, <1>4, OtherSteps

(* A secret is left active without a drone only by a rotation or a deletion *)
(* that had read the drone's key before another request changed it.         *)
THEOREM StraysComeFromOverlaps == Spec => StraysOnlyByOverlap
<1> DEFINE Only == \A k \in KeyIds :
                     Stray(k)' /\ ~Stray(k) => \E r \in Requests : Overlapped(r)
<1>1. RegInv /\ [Next]_vars => [Only]_vars
  BY StrayStep
<1>2. StraysOnlyByOverlap <=> [][Only]_vars
  BY DEF StraysOnlyByOverlap, Overlapped
<1> QED
  BY <1>1, <1>2, RegInvHolds, PTL DEF Spec

-----------------------------------------------------------------------------
(* References to drones *)

(* Between its flush and its commit a deletion has taken off every station  *)
(* of its drone, nothing else refers to the drone, and it is alone with it. *)
DeletionHolds(r) ==
  /\ \A s \in Stations : stationDrone[s] = req[r].drone <=> s \in req[r].unlinked
  /\ \A v \in Devices : deviceDrone[v] # req[r].drone
  /\ req[r].drone \notin tasked
  /\ \A q \in Requests : PC(q) = "deleting" /\ req[q].drone = req[r].drone => q = r

DeletionsHold == \A r \in Requests : PC(r) = "deleting" => DeletionHolds(r)

RefInv == ReferencesHold /\ DeletionsHold

(* What a deletion that has flushed works with.                             *)
LEMMA DeletionTyped ==
  ASSUME RegInv, NEW r \in Requests, PC(r) = "deleting"
  PROVE  req[r].drone \in Rows /\ req[r].drone # Nil /\ req[r].unlinked \in SUBSET Stations
BY DEF RegInv, RequestsTyped, ReqTyped, Deleting, PC, Rows, Nil

(* Steps after which the same requests, or fewer, have flushed a deletion.  *)
NoNewDeletion ==
  \A q \in Requests : PC(q)' = "deleting" => PC(q) = "deleting" /\ req'[q] = req[q]

(* A step that leaves the references alone and removes no drone.            *)
LEMMA ReferencesRest ==
  ASSUME RefInv, NoNewDeletion, UNCHANGED <<stationDrone, deviceDrone, tasked>>,
         \A d : Exists(d) => Exists(d)'
  PROVE  RefInv'
<1>1. ReferencesHold'
  BY DEF RefInv, ReferencesHold
<1>2. DeletionsHold'
  BY DEF RefInv, DeletionsHold, DeletionHolds, NoNewDeletion, PC
<1> QED
  BY <1>1, <1>2 DEF RefInv

(* A request goes on to anything but a flushed deletion.                    *)
LEMMA GotoElsewhere ==
  ASSUME RequestsTyped, NEW r \in Requests, NEW s, Goto(r, s), s.pc # "deleting"
  PROVE  NoNewDeletion
BY GotoReads DEF NoNewDeletion, PC

LEMMA FinishElsewhere ==
  ASSUME RequestsTyped, NEW r \in Requests, Finish(r)
  PROVE  NoNewDeletion /\ PC(r)' # "deleting"
BY GotoElsewhere, FinishReads DEF Idle

LEMMA AbortRefs ==
  ASSUME RegInv, RefInv, NEW r \in Requests, Abort(r)
  PROVE  RefInv'
<1>1. NoNewDeletion
  BY FinishElsewhere DEF Abort, RegInv
<1>2. UNCHANGED <<stationDrone, deviceDrone, tasked, uid>>
  BY DEF Abort, tables, droneVars, stationVars
<1> QED
  BY <1>1, <1>2, ReferencesRest DEF Exists

LEMMA ArriveRefs ==
  ASSUME RegInv, RefInv, NEW r \in Requests, Arrive(r)
  PROVE  RefInv'
<1>1. PICK s : Goto(r, s) /\ s.pc # "deleting"
  <2>1. ASSUME StartCreate(r) PROVE \E s : Goto(r, s) /\ s.pc # "deleting"
    BY <2>1 DEF StartCreate
  <2>2. ASSUME NEW d \in Rows, StartRotate(r, d) PROVE \E s : Goto(r, s) /\ s.pc # "deleting"
    BY <2>2 DEF StartRotate
  <2>3. ASSUME NEW d \in Rows, StartDelete(r, d) PROVE \E s : Goto(r, s) /\ s.pc # "deleting"
    BY <2>3 DEF StartDelete
  <2>4. ASSUME NEW d \in Rows, NEW s \in Stations, StartLink(r, s, d)
        PROVE  \E t : Goto(r, t) /\ t.pc # "deleting"
    BY <2>4 DEF StartLink
  <2>5. ASSUME NEW d \in Rows, NEW v \in Devices, StartProvision(r, v, d)
        PROVE  \E s : Goto(r, s) /\ s.pc # "deleting"
    BY <2>5 DEF StartProvision
  <2>6. ASSUME NEW s \in Stations, StartReport(r, s)
        PROVE  \E t : Goto(r, t) /\ t.pc # "deleting"
    BY <2>6 DEF StartReport
  <2> QED
    BY <2>1, <2>2, <2>3, <2>4, <2>5, <2>6 DEF Arrive
<1>2. UNCHANGED tables
  BY DEF Arrive, StartCreate, StartRotate, StartDelete, StartLink, StartProvision, StartReport
<1>3. UNCHANGED <<stationDrone, deviceDrone, tasked, uid>>
  BY <1>2 DEF tables, droneVars, stationVars
<1> QED
  BY <1>1, <1>3, GotoElsewhere, ReferencesRest DEF RegInv, Exists

(* A creation and a rotation: drones only come, references stay.            *)
LEMMA KeysRefs ==
  ASSUME RegInv, RefInv, NEW r \in Requests,
         CommitCreate(r) \/ FlushRotate(r) \/ CommitRotate(r)
  PROVE  RefInv'
<1>1. CASE CommitCreate(r)
  <2>1. /\ Finish(r) /\ PC(r) = "create" /\ PC(r) \in Insert
        /\ lastRow' = lastRow + 1 /\ lastKey' = lastKey + 1
        /\ uid' = [uid EXCEPT ![lastRow'] = req[r].uid]
        /\ UNCHANGED <<stationDrone, deviceDrone, tasked>>
    BY <1>1 DEF CommitCreate, InsertKey, Insert, stationVars
  <2>2. lastRow + 1 \in Rows /\ req[r].uid # Nil
    <3>1. lastRow + 1 \in Rows
      BY <2>1, RoomUsed DEF RegInv
    <3> QED
      BY <2>1, <3>1 DEF RegInv, RequestsTyped, ReqTyped, PC, Uids, Nil
  <2>3. uid \in [Rows -> Uids \cup {Nil}]
    BY DEF RegInv, RegTypeOK
  <2>4. ASSUME NEW d \in Rows, Exists(d) PROVE Exists(d)'
    BY <2>1, <2>2, <2>3, <2>4 DEF Exists
  <2>5. ReferencesHold'
    <3>1. stationDrone \in [Stations -> Rows \cup {Nil}] /\ deviceDrone \in [Devices -> Rows \cup {Nil}]
          /\ tasked \subseteq Rows
      BY DEF RegInv, RegTypeOK
    <3> QED
      BY <2>1, <2>4, <3>1 DEF RefInv, ReferencesHold
  <2>6. DeletionsHold'
    BY <2>1, FinishElsewhere DEF RegInv, RefInv, DeletionsHold, DeletionHolds, NoNewDeletion, PC
  <2> QED
    BY <2>5, <2>6 DEF RefInv
<1>2. CASE FlushRotate(r)
  <2>1. UNCHANGED <<stationDrone, deviceDrone, tasked, uid>>
    BY <1>2 DEF FlushRotate, tables, droneVars, stationVars
  <2>2. req[r] \in [pc : Rotating, drone : Rows, key : KeyIds]
    BY <1>2 DEF FlushRotate, RegInv, RequestsTyped, ReqTyped, Rotating, PC
  <2>3. Goto(r, [req[r] EXCEPT !.pc = "rotating"])
    BY <1>2 DEF FlushRotate
  <2>4. [req[r] EXCEPT !.pc = "rotating"].pc = "rotating"
    BY <2>2
  <2>5. NoNewDeletion
    BY <2>3, <2>4, GotoElsewhere DEF RegInv
  <2> QED
    BY <2>1, <2>5, ReferencesRest DEF Exists
<1>3. CASE CommitRotate(r)
  BY <1>3, FinishElsewhere, ReferencesRest DEF CommitRotate, RegInv, stationVars, Exists
<1> QED
  BY <1>1, <1>2, <1>3

(* The flush of a deletion finds the stations of the drone, and would have  *)
(* failed had it found anything else.                                       *)
LEMMA FlushDeleteRefs ==
  ASSUME RegInv, RefInv, NEW r \in Requests, FlushDelete(r)
  PROVE  RefInv'
<1> DEFINE d == req[r].drone
           s == [req[r] EXCEPT !.pc = "deleting", !.unlinked = LinkedStations(d)]
<1>1. PC(r) = "delete" /\ ~DroneLocked(d) /\ ~HeldBack(d) /\ Goto(r, s)
  BY DEF FlushDelete
<1>2. UNCHANGED <<stationDrone, deviceDrone, tasked, uid>>
  BY DEF FlushDelete, tables, droneVars, stationVars
<1>3. req[r] \in [pc : Deleting, drone : Rows, key : KeyIds, unlinked : SUBSET Stations]
  BY <1>1 DEF RegInv, RequestsTyped, ReqTyped, Deleting, PC
<1>4. s.pc = "deleting" /\ s.drone = d /\ s.unlinked = LinkedStations(d)
  BY <1>3
<1>5. req'[r] = s /\ \A q \in Requests \ {r} : req'[q] = req[q]
  BY <1>1, GotoReads DEF RegInv
<1>6. ReferencesHold'
  BY <1>2 DEF RefInv, ReferencesHold, Exists
<1>7. \A q \in Requests \ {r} : PC(q)' = "deleting" => req[q].drone # d /\ PC(q) = "deleting"
  BY <1>1, <1>5 DEF DroneLocked, PC
<1>8. \A t \in Stations : stationDrone[t] = d <=> t \in LinkedStations(d)
  BY DEF LinkedStations
<1>9. (\A v \in Devices : deviceDrone[v] # d) /\ d \notin tasked
  BY <1>1 DEF HeldBack, LinkedDevices
<1>10. DeletionHolds(r)'
  <2>1. req'[r].drone = d /\ req'[r].unlinked = LinkedStations(d)
    BY <1>4, <1>5
  <2>2. \A q \in Requests : PC(q)' = "deleting" /\ req'[q].drone = d => q = r
    BY <1>5, <1>7
  <2> QED
    BY <1>2, <1>8, <1>9, <2>1, <2>2 DEF DeletionHolds
<1>11. ASSUME NEW q \in Requests \ {r}, PC(q)' = "deleting" PROVE DeletionHolds(q)'
  <2>1. DeletionHolds(q) /\ req'[q] = req[q] /\ req[q].drone # d
    BY <1>5, <1>7, <1>11 DEF RefInv, DeletionsHold
  <2>2. req'[r].drone = d
    BY <1>4, <1>5
  <2>3. ASSUME NEW p \in Requests, PC(p)' = "deleting", req'[p].drone = req[q].drone PROVE p = q
    <3>1. p # r
      BY <2>1, <2>2, <2>3
    <3>2. PC(p) = "deleting" /\ req'[p] = req[p]
      BY <1>5, <1>7, <2>3, <3>1
    <3> QED
      BY <2>1, <2>3, <3>2 DEF DeletionHolds
  <2> QED
    BY <1>2, <2>1, <2>3 DEF DeletionHolds
<1> QED
  BY <1>6, <1>10, <1>11 DEF RefInv, DeletionsHold

(* Its commit removes the drone with the references to it, and no other.    *)
LEMMA CommitDeleteRefs ==
  ASSUME RegInv, RefInv, NEW r \in Requests, CommitDelete(r)
  PROVE  RefInv'
<1> DEFINE d == req[r].drone
<1>1. /\ PC(r) = "deleting" /\ Finish(r)
      /\ uid' = [uid EXCEPT ![d] = Nil]
      /\ stationDrone' = [s \in Stations |-> IF s \in req[r].unlinked THEN Nil
                                             ELSE stationDrone[s]]
      /\ UNCHANGED <<deviceDrone, tasked>>
  BY DEF CommitDelete
<1>2. DeletionHolds(r) /\ d \in Rows /\ d # Nil
  BY <1>1, DeletionTyped DEF RefInv, DeletionsHold
<1>3. /\ uid \in [Rows -> Uids \cup {Nil}]
      /\ stationDrone \in [Stations -> Rows \cup {Nil}]
      /\ deviceDrone \in [Devices -> Rows \cup {Nil}]
      /\ tasked \in SUBSET Rows
  BY DEF RegInv, RegTypeOK
<1>4. \A e \in Rows : Exists(e) /\ e # d => Exists(e)'
  BY <1>1, <1>3 DEF Exists
<1>5. \A s \in Stations : stationDrone'[s] = IF stationDrone[s] = d THEN Nil ELSE stationDrone[s]
  BY <1>1, <1>2 DEF DeletionHolds
<1>6. ReferencesHold'
  <2>1. \A s \in Stations : stationDrone'[s] # Nil => uid'[stationDrone'[s]] # Nil
    BY <1>3, <1>4, <1>5 DEF RefInv, ReferencesHold, Exists
  <2>2. \A v \in Devices : deviceDrone'[v] # Nil => uid'[deviceDrone'[v]] # Nil
    BY <1>1, <1>2, <1>3, <1>4 DEF RefInv, ReferencesHold, DeletionHolds, Exists
  <2>3. \A e \in tasked' : Exists(e)'
    BY <1>1, <1>2, <1>3, <1>4 DEF RefInv, ReferencesHold, DeletionHolds
  <2>4. \A s, t \in Stations : stationDrone'[s] # Nil /\ stationDrone'[s] = stationDrone'[t] => s = t
    BY <1>5 DEF RefInv, ReferencesHold
  <2> QED
    BY <2>1, <2>2, <2>3, <2>4 DEF ReferencesHold, Exists
<1>7. ASSUME NEW q \in Requests, PC(q)' = "deleting" PROVE DeletionHolds(q)'
  <2>1. PC(q) = "deleting" /\ req'[q] = req[q] /\ q # r
    BY <1>1, <1>7, FinishElsewhere DEF RegInv, NoNewDeletion
  <2>2. DeletionHolds(q) /\ req[q].drone # d /\ req[q].drone # Nil
    BY <1>1, <1>2, <2>1, DeletionTyped DEF RefInv, DeletionsHold, DeletionHolds
  <2>3. \A s \in Stations : stationDrone'[s] = req[q].drone <=> s \in req[q].unlinked
    BY <1>5, <2>2 DEF DeletionHolds
  <2>4. NoNewDeletion
    BY <1>1, FinishElsewhere DEF RegInv
  <2>5. \A p \in Requests : PC(p)' = "deleting" /\ req'[p].drone = req[q].drone => p = q
    BY <2>2, <2>4 DEF DeletionHolds, NoNewDeletion
  <2> QED
    BY <1>1, <2>1, <2>2, <2>3, <2>5 DEF DeletionHolds
<1> QED
  BY <1>6, <1>7 DEF RefInv, DeletionsHold

(* A drone that is being deleted makes whoever would refer to it wait, and  *)
(* so does a station that is being taken off.                               *)
LEMMA LinkRefs ==
  ASSUME RegInv, RefInv, NEW s \in Stations, NEW d, NoNewDeletion,
         stationDrone' = [stationDrone EXCEPT ![s] = d],
         d # Nil => (Exists(d) /\ ~DroneLocked(d) /\ LinkedStations(d) \ {s} = {}),
         ~StationLocked(s), UNCHANGED <<uid, deviceDrone, tasked>>
  PROVE  RefInv'
<1>1. stationDrone \in [Stations -> Rows \cup {Nil}]
  BY DEF RegInv, RegTypeOK
<1>2. \A t \in Stations : stationDrone'[t] = IF t = s THEN d ELSE stationDrone[t]
  BY <1>1
<1>3. d # Nil => \A t \in Stations \ {s} : stationDrone[t] # d
  BY DEF LinkedStations
<1>4. ReferencesHold'
  BY <1>2, <1>3 DEF RefInv, ReferencesHold, Exists
<1>5. ASSUME NEW q \in Requests, PC(q)' = "deleting" PROVE DeletionHolds(q)'
  <2>1. PC(q) = "deleting" /\ req'[q] = req[q] /\ DeletionHolds(q)
    BY <1>5 DEF NoNewDeletion, RefInv, DeletionsHold
  <2>2. req[q].drone # d /\ s \notin req[q].unlinked
    BY <2>1, DeletionTyped DEF DroneLocked, StationLocked
  <2>3. \A t \in Stations : stationDrone'[t] = req[q].drone <=> t \in req[q].unlinked
    BY <1>2, <2>1, <2>2 DEF DeletionHolds
  <2>4. \A p \in Requests : PC(p)' = "deleting" /\ req'[p].drone = req[q].drone => p = q
    BY <2>1 DEF DeletionHolds, NoNewDeletion
  <2> QED
    BY <2>1, <2>3, <2>4 DEF DeletionHolds
<1> QED
  BY <1>4, <1>5 DEF RefInv, DeletionsHold

LEMMA CommitOthersRefs ==
  ASSUME RegInv, RefInv, NEW r \in Requests,
         CommitLink(r) \/ CommitProvision(r) \/ CommitReport(r)
  PROVE  RefInv'
<1>1. NoNewDeletion
  BY FinishElsewhere DEF CommitLink, CommitProvision, CommitReport, RegInv
<1>2. CASE CommitLink(r)
  <2>1. req[r].station \in Stations
    BY <1>2 DEF CommitLink, RegInv, RequestsTyped, ReqTyped, PC
  <2> QED
    BY <1>1, <1>2, <2>1, LinkRefs DEF CommitLink, LinkWaits, LinkClashes, droneVars
<1>3. CASE CommitProvision(r)
  <2> DEFINE v == req[r].device
             d == req[r].drone
  <2>1. /\ ~DroneLocked(d) /\ Exists(d)
        /\ deviceDrone' = [deviceDrone EXCEPT ![v] = d]
        /\ UNCHANGED <<uid, stationDrone, tasked>>
    BY <1>3 DEF CommitProvision, droneVars, stationVars
  <2>2. \A w \in Devices : deviceDrone'[w] = deviceDrone[w] \/ deviceDrone'[w] = d
    BY <2>1 DEF RegInv, RegTypeOK
  <2>3. ReferencesHold'
    BY <2>1, <2>2 DEF RefInv, ReferencesHold, Exists
  <2>4. ASSUME NEW q \in Requests, PC(q)' = "deleting" PROVE DeletionHolds(q)'
    <3>1. PC(q) = "deleting" /\ req'[q] = req[q] /\ DeletionHolds(q)
      BY <1>1, <2>4 DEF NoNewDeletion, RefInv, DeletionsHold
    <3>2. req[q].drone # d
      BY <2>1, <3>1 DEF DroneLocked
    <3>3. \A w \in Devices : deviceDrone'[w] # req[q].drone
      BY <2>2, <3>1, <3>2 DEF DeletionHolds
    <3>4. \A p \in Requests : PC(p)' = "deleting" /\ req'[p].drone = req[q].drone => p = q
      BY <1>1, <3>1 DEF DeletionHolds, NoNewDeletion
    <3> QED
      BY <2>1, <3>1, <3>3, <3>4 DEF DeletionHolds
  <2> QED
    BY <2>3, <2>4 DEF RefInv, DeletionsHold
<1>4. CASE CommitReport(r)
  <2> DEFINE d == req[r].drone
  <2>1. /\ ~DroneLocked(d) /\ Exists(d) /\ tasked' = tasked \cup {d}
        /\ UNCHANGED <<uid, stationDrone, deviceDrone>>
    BY <1>4 DEF CommitReport, droneVars, stationVars
  <2>2. ReferencesHold'
    BY <2>1 DEF RefInv, ReferencesHold, Exists
  <2>3. ASSUME NEW q \in Requests, PC(q)' = "deleting" PROVE DeletionHolds(q)'
    <3>1. PC(q) = "deleting" /\ req'[q] = req[q] /\ DeletionHolds(q)
      BY <1>1, <2>3 DEF NoNewDeletion, RefInv, DeletionsHold
    <3>2. req[q].drone # d
      BY <2>1, <3>1 DEF DroneLocked
    <3>3. \A p \in Requests : PC(p)' = "deleting" /\ req'[p].drone = req[q].drone => p = q
      BY <1>1, <3>1 DEF DeletionHolds, NoNewDeletion
    <3> QED
      BY <2>1, <3>1, <3>2, <3>3 DEF DeletionHolds
  <2> QED
    BY <2>2, <2>3 DEF RefInv, DeletionsHold
<1> QED
  BY <1>2, <1>3, <1>4

(* What no request does: a role, a task's end, a station's drone taken off. *)
LEMMA RestRefs ==
  ASSUME RegInv, RefInv,
         \/ \E d \in Rows : PatchRole(d) \/ DropTasks(d)
         \/ \E s \in Stations : Unlink(s)
  PROVE  RefInv'
<1>1. ASSUME req' = req PROVE NoNewDeletion
  BY <1>1 DEF NoNewDeletion, PC
<1>2. ASSUME NEW d \in Rows, PatchRole(d) PROVE RefInv'
  BY <1>1, <1>2, ReferencesRest DEF PatchRole, stationVars, Exists
<1>3. ASSUME NEW d \in Rows, DropTasks(d) PROVE RefInv'
  <2>1. /\ tasked' = tasked \ {d} /\ req' = req
        /\ UNCHANGED <<uid, stationDrone, deviceDrone>>
    BY <1>3 DEF DropTasks, droneVars, stationVars
  <2>2. ReferencesHold'
    BY <2>1 DEF RefInv, ReferencesHold, Exists
  <2>3. DeletionsHold'
    BY <2>1 DEF RefInv, DeletionsHold, DeletionHolds, PC
  <2> QED
    BY <2>2, <2>3 DEF RefInv
<1>4. ASSUME NEW s \in Stations, Unlink(s) PROVE RefInv'
  BY <1>1, <1>4, LinkRefs DEF Unlink, droneVars
<1> QED
  BY <1>2, <1>3, <1>4

LEMMA RefInvStep == RegInv /\ RefInv /\ [Next]_vars => RefInv'
<1> SUFFICES ASSUME RegInv, RefInv, [Next]_vars PROVE RefInv'
  OBVIOUS
<1>1. CASE UNCHANGED vars
  BY <1>1, ReferencesRest DEF vars, tables, droneVars, stationVars, NoNewDeletion, PC, Exists
<1>2. ASSUME NEW r \in Requests, Proceed(r) PROVE RefInv'
  <2>1. CASE Abort(r)
    BY <2>1, AbortRefs
  <2>2. CASE ~Abort(r)
    BY <1>2, <2>2, KeysRefs, FlushDeleteRefs, CommitDeleteRefs, CommitOthersRefs
    DEF Proceed, RefuseCreate, AbortRotate, AbortDelete, BreakDeadlock, RefuseLink,
        AbortProvision, AbortReport
  <2> QED
    BY <2>1, <2>2
<1> QED
  BY <1>1, <1>2, ArriveRefs, RestRefs DEF Next

LEMMA RefInvInit == Init => RefInv
<1> SUFFICES ASSUME Init PROVE RefInv
  OBVIOUS
<1>1. ReferencesHold
  BY DEF Init, ReferencesHold
<1>2. \A r \in Requests : PC(r) # "deleting"
  BY DEF Init, PC, Idle
<1> QED
  BY <1>1, <1>2 DEF RefInv, DeletionsHold

(* Whatever overlaps a deletion: no station, device or task refers to a     *)
(* drone that is gone, and no two stations share one.                       *)
THEOREM ReferencesStay == Spec => []ReferencesHold
<1>1. Spec => [](RegInv /\ RefInv)
  <2>1. RegInv /\ RefInv /\ [Next]_vars => RefInv'
    BY RefInvStep
  <2> QED
    BY <2>1, RefInvInit, RegInvHolds, PTL DEF Spec
<1>2. RegInv /\ RefInv => ReferencesHold
  BY DEF RefInv
<1> QED
  BY <1>1, <1>2, PTL
=============================================================================
