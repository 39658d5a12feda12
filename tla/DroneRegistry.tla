---------------------------- MODULE DroneRegistry ----------------------------
(***************************************************************************)
(* The registry of drones and their keys, and the rows that refer to a     *)
(* drone: operator stations, devices and intercept tasks.  The handlers of *)
(* app/api/routers/drones.py, devices.py, operator_stations.py and of the  *)
(* registry page in ui.py, with app/services/drone_registry.py, run on a   *)
(* pool of threads.  Each reads and checks, then writes in a transaction:  *)
(* what it flushes ahead of its commit locks the rows it wrote, and a      *)
(* statement on a locked row waits for the end of the other transaction.   *)
(*                                                                         *)
(* A row of drones is a number, given in the order of insertion; so is a   *)
(* row of drone_keys.  A drone_uid is a number, too: the one that follows  *)
(* the prefix of its unit class.  A request that is refused with a 4xx     *)
(* before it writes changes nothing and is left out.                       *)
(***************************************************************************)
EXTENDS Naturals, FiniteSets

CONSTANTS
  Requests,     (* the threads that run handlers                           *)
  Stations,     (* the users a station may be created for                  *)
  Devices,      (* the device ids that may be provisioned                  *)
  MaxUid,       (* bound: numbers in a drone_uid                           *)
  MaxDrones,    (* bound: rows ever inserted into drones                   *)
  MaxKeys       (* bound: rows ever inserted into drone_keys               *)

ASSUME BoundsAssumption ==
  {MaxUid, MaxDrones, MaxKeys} \subseteq Nat /\ IsFiniteSet(Requests)

Uids  == 1 .. MaxUid
Rows  == 1 .. MaxDrones
KeyIds == 1 .. MaxKeys
Nil   == 0        (* NULL, or no row *)
Roles == {"recon", "interceptor"}

VARIABLES
  uid,          (* drone_uid of a row of drones, Nil without the row       *)
  key,          (* its key_id                                              *)
  role,         (* its platform_role                                       *)
  keyStatus,    (* status of a row of drone_keys, "none" without the row   *)
  stations,     (* the rows of operator_stations                           *)
  stationDrone, (* assigned_interceptor_drone_id                           *)
  deviceDrone,  (* drone_id of a device, Nil when it is not provisioned    *)
  tasked,       (* drones some intercept task refers to                    *)
  lastRow, lastKey,                             (* the numbers given last  *)
  req           (* what each request has read, and where it is             *)

droneVars   == <<uid, key, role, lastRow>>
keyVars     == <<keyStatus, lastKey>>
stationVars == <<stations, stationDrone>>
tables == <<droneVars, keyVars, stationVars, deviceDrone, tasked>>
vars   == <<tables, req>>

Idle == [pc |-> "idle"]

PC(r) == req[r].pc
Goto(r, record) == req' = [req EXCEPT ![r] = record]
Finish(r) == Goto(r, Idle)

(* A 500, or a 4xx after a rollback: nothing is written.                    *)
Abort(r) == Finish(r) /\ UNCHANGED tables

RegTypeOK ==
  /\ uid \in [Rows -> Uids \cup {Nil}]
  /\ key \in [Rows -> KeyIds \cup {Nil}]
  /\ role \in [Rows -> Roles]
  /\ keyStatus \in [KeyIds -> {"none", "active", "inactive"}]
  /\ stations \subseteq Stations
  /\ stationDrone \in [Stations -> Rows \cup {Nil}]
  /\ deviceDrone \in [Devices -> Rows \cup {Nil}]
  /\ tasked \subseteq Rows
  /\ lastRow \in 0 .. MaxDrones
  /\ lastKey \in 0 .. MaxKeys
  /\ \A r \in Requests :
       PC(r) \in {"idle", "create", "rotate", "rotating", "delete", "deleting",
                  "link", "provision", "report"}

Init ==
  /\ uid = [d \in Rows |-> Nil]
  /\ key = [d \in Rows |-> Nil]
  /\ role = [d \in Rows |-> "recon"]
  /\ keyStatus = [k \in KeyIds |-> "none"]
  /\ stations = {}
  /\ stationDrone = [s \in Stations |-> Nil]
  /\ deviceDrone = [v \in Devices |-> Nil]
  /\ tasked = {}
  /\ lastRow = 0
  /\ lastKey = 0
  /\ req = [r \in Requests |-> Idle]

-----------------------------------------------------------------------------
(* Rows and their locks *)

Exists(d) == uid[d] # Nil
Registered == {d \in Rows : Exists(d)}

LinkedStations(d) == {s \in Stations : stationDrone[s] = d}
LinkedDevices(d)  == {v \in Devices : deviceDrone[v] = d}

(* A transaction has deleted the row and has not ended.                     *)
DroneLocked(d) == \E q \in Requests : PC(q) = "deleting" /\ req[q].drone = d

(* A rotation has updated the row and has not ended.                        *)
KeyLocked(k) == \E q \in Requests : PC(q) = "rotating" /\ req[q].key = k

(* A deletion has taken the drone off the station and has not ended.        *)
StationLocked(s) == \E q \in Requests : PC(q) = "deleting" /\ s \in req[q].unlinked

-----------------------------------------------------------------------------
(* create_drone, ui_drones_submit *)

(* Bound: what the requests under way will insert has room.                 *)
RoomForKey ==
  lastKey + Cardinality({q \in Requests : PC(q) \in {"create", "rotate", "rotating"}})
    < MaxKeys

RoomForDrone == lastRow + Cardinality({q \in Requests : PC(q) = "create"}) < MaxDrones

(* The API refuses a uid it finds; the page takes any, and fills in a blank *)
(* one with the number after the highest it finds.                          *)
StartCreate(r) ==
  /\ PC(r) = "idle"
  /\ RoomForKey /\ RoomForDrone
  /\ \E u \in Uids : Goto(r, [pc |-> "create", uid |-> u])
  /\ UNCHANGED tables

UidTaken(u) == \E d \in Registered : uid[d] = u

(* A uid that is being deleted makes the insert wait.                       *)
UidSettled(u) == \A d \in Registered : uid[d] = u => ~DroneLocked(d)

InsertKey ==
  /\ lastKey' = lastKey + 1
  /\ keyStatus' = [keyStatus EXCEPT ![lastKey'] = "active"]

CommitCreate(r) ==
  /\ PC(r) = "create"
  /\ ~UidTaken(req[r].uid)
  /\ InsertKey
  /\ lastRow' = lastRow + 1
  /\ uid' = [uid EXCEPT ![lastRow'] = req[r].uid]
  /\ key' = [key EXCEPT ![lastRow'] = lastKey']
  /\ \E p \in Roles : role' = [role EXCEPT ![lastRow'] = p]
  /\ Finish(r)
  /\ UNCHANGED <<stationVars, deviceDrone, tasked>>

(* Faulty variant: the key is committed ahead of the drone.                 *)
RefuseCreateKeepingKey(r) ==
  /\ PC(r) = "create"
  /\ UidTaken(req[r].uid) /\ UidSettled(req[r].uid)
  /\ InsertKey
  /\ Finish(r)
  /\ UNCHANGED <<droneVars, stationVars, deviceDrone, tasked>>

(* IntegrityError: the page answers 409, the API a 500; the key goes too.   *)
RefuseCreate(r) ==
  /\ PC(r) = "create"
  /\ UidTaken(req[r].uid) /\ UidSettled(req[r].uid)
  /\ Abort(r)

-----------------------------------------------------------------------------
(* patch_drone: nothing but the row is read *)

(* Faulty variant: the role is taken as it was sent.                        *)
PatchRoleUnchecked(d) ==
  /\ Exists(d) /\ ~DroneLocked(d)
  /\ \E p \in Roles \cup {"unknown"} : role' = [role EXCEPT ![d] = p]
  /\ UNCHANGED <<uid, key, lastRow, keyVars, stationVars, deviceDrone, tasked, req>>

PatchRole(d) ==
  /\ Exists(d) /\ ~DroneLocked(d)
  /\ \E p \in Roles : role' = [role EXCEPT ![d] = p]
  /\ UNCHANGED <<uid, key, lastRow, keyVars, stationVars, deviceDrone, tasked, req>>

-----------------------------------------------------------------------------
(* rotate_drone_key *)

StartRotate(r, d) ==
  /\ PC(r) = "idle"
  /\ Exists(d)
  /\ RoomForKey
  /\ Goto(r, [pc |-> "rotate", drone |-> d, key |-> key[d]])
  /\ UNCHANGED tables

(* The flush: UPDATE of the old key, INSERT of the new one.                 *)
FlushRotate(r) ==
  /\ PC(r) = "rotate"
  /\ keyStatus[req[r].key] # "none" /\ ~KeyLocked(req[r].key)
  /\ Goto(r, [req[r] EXCEPT !.pc = "rotating"])
  /\ UNCHANGED tables

(* Faulty variant: the new key is never given to the drone.                 *)
CommitRotateUnused(r) ==
  /\ PC(r) = "rotating"
  /\ Exists(req[r].drone) /\ ~DroneLocked(req[r].drone)
  /\ lastKey' = lastKey + 1
  /\ keyStatus' = [keyStatus EXCEPT ![req[r].key] = "inactive", ![lastKey'] = "active"]
  /\ Finish(r)
  /\ UNCHANGED <<droneVars, stationVars, deviceDrone, tasked>>

(* The commit: UPDATE of the drone with the new key.                        *)
CommitRotate(r) ==
  /\ PC(r) = "rotating"
  /\ Exists(req[r].drone) /\ ~DroneLocked(req[r].drone)
  /\ lastKey' = lastKey + 1
  /\ keyStatus' = [keyStatus EXCEPT ![req[r].key] = "inactive", ![lastKey'] = "active"]
  /\ key' = [key EXCEPT ![req[r].drone] = lastKey']
  /\ Finish(r)
  /\ UNCHANGED <<uid, role, lastRow, stationVars, deviceDrone, tasked>>

(* Faulty variant: the flush is tried again, on a key that is gone.         *)
AbortRotateRetrying(r) ==
  /\ \/ PC(r) = "rotate" /\ keyStatus[req[r].key] = "none"
     \/ PC(r) = "rotating" /\ ~Exists(req[r].drone)
  /\ Goto(r, [req[r] EXCEPT !.pc = "rotate"])
  /\ UNCHANGED tables

(* StaleDataError: the key or the drone is gone.                            *)
AbortRotate(r) ==
  /\ \/ PC(r) = "rotate" /\ keyStatus[req[r].key] = "none"
     \/ PC(r) = "rotating" /\ ~Exists(req[r].drone)
  /\ Abort(r)

-----------------------------------------------------------------------------
(* delete_drone_from_registry *)

(* Reads the drone and its key id; no station and no device refers to it.   *)
StartDelete(r, d) ==
  /\ PC(r) = "idle"
  /\ Exists(d)
  /\ LinkedStations(d) = {} /\ LinkedDevices(d) = {}
  /\ Goto(r, [pc |-> "delete", drone |-> d, key |-> key[d], unlinked |-> {}])
  /\ UNCHANGED tables

(* What refers to the drone when the flush runs and cannot be set to NULL.  *)
HeldBack(d) == d \in tasked \/ LinkedDevices(d) # {}

(* Faulty variant: no station is taken off, as the check found none.        *)
FlushDeleteAsChecked(r) ==
  /\ PC(r) = "delete"
  /\ ~DroneLocked(req[r].drone) /\ ~HeldBack(req[r].drone)
  /\ Goto(r, [req[r] EXCEPT !.pc = "deleting"])
  /\ UNCHANGED tables

(* The flush sets the column of a station that was linked since the check   *)
(* to NULL, so that the operator loses the drone, and deletes the row; a    *)
(* row that is gone already is a warning.                                   *)
FlushDelete(r) ==
  LET d == req[r].drone IN
  /\ PC(r) = "delete"
  /\ ~DroneLocked(d) /\ ~HeldBack(d)
  /\ Goto(r, [req[r] EXCEPT !.pc = "deleting", !.unlinked = LinkedStations(d)])
  /\ UNCHANGED tables

(* IntegrityError, a 500.                                                   *)
AbortDelete(r) ==
  /\ PC(r) = "delete"
  /\ ~DroneLocked(req[r].drone) /\ HeldBack(req[r].drone)
  /\ Abort(r)

(* The key that was read goes with the drone unless another drone has it.   *)
CommitDelete(r) ==
  LET d == req[r].drone  k == req[r].key
      unused == \A e \in Registered \ {d} : key[e] # k
  IN
  /\ PC(r) = "deleting"
  /\ unused => ~KeyLocked(k)
  /\ keyStatus' = [keyStatus EXCEPT ![k] = IF unused THEN "none" ELSE @]
  /\ uid' = [uid EXCEPT ![d] = Nil]
  /\ key' = [key EXCEPT ![d] = Nil]
  /\ role' = [role EXCEPT ![d] = "recon"]
  /\ stationDrone' = [s \in Stations |-> IF s \in req[r].unlinked THEN Nil
                                         ELSE stationDrone[s]]
  /\ Finish(r)
  /\ UNCHANGED <<lastRow, lastKey, stations, deviceDrone, tasked>>

(* A deletion holds the drone and waits for its key, a rotation holds the   *)
(* key and waits for the drone: PostgreSQL ends one of them, a 500.         *)
Deadlocked(r, q) ==
  /\ PC(r) = "deleting" /\ PC(q) = "rotating"
  /\ req[r].drone = req[q].drone /\ req[r].key = req[q].key

BreakDeadlock(r) ==
  /\ \E q \in Requests : Deadlocked(r, q) \/ Deadlocked(q, r)
  /\ Abort(r)

-----------------------------------------------------------------------------
(* create_operator_station, patch_operator_station *)

(* The drone exists and is an interceptor.                                  *)
StartLink(r, s, d) ==
  /\ PC(r) = "idle"
  /\ Exists(d) /\ role[d] = "interceptor"
  /\ Goto(r, [pc |-> "link", station |-> s, drone |-> d])
  /\ UNCHANGED tables

LinkClashes(s, d) == ~Exists(d) \/ LinkedStations(d) \ {s} # {}

LinkWaits(s, d) == DroneLocked(d) \/ StationLocked(s)

CommitLink(r) ==
  LET s == req[r].station  d == req[r].drone IN
  /\ PC(r) = "link"
  /\ ~LinkWaits(s, d) /\ ~LinkClashes(s, d)
  /\ stations' = stations \cup {s}
  /\ stationDrone' = [stationDrone EXCEPT ![s] = d]
  /\ Finish(r)
  /\ UNCHANGED <<droneVars, keyVars, deviceDrone, tasked>>

(* IntegrityError, answered with a 409.                                     *)
RefuseLink(r) ==
  LET s == req[r].station  d == req[r].drone IN
  /\ PC(r) = "link"
  /\ ~LinkWaits(s, d) /\ LinkClashes(s, d)
  /\ Abort(r)

(* A station is created without a drone, or its drone is taken off.         *)
Unlink(s) ==
  /\ ~StationLocked(s)
  /\ stations' = stations \cup {s}
  /\ stationDrone' = [stationDrone EXCEPT ![s] = Nil]
  /\ UNCHANGED <<droneVars, keyVars, deviceDrone, tasked, req>>

-----------------------------------------------------------------------------
(* provision_device *)

StartProvision(r, v, d) ==
  /\ PC(r) = "idle"
  /\ Exists(d) /\ deviceDrone[v] = Nil
  /\ Goto(r, [pc |-> "provision", device |-> v, drone |-> d])
  /\ UNCHANGED tables

CommitProvision(r) ==
  LET v == req[r].device  d == req[r].drone IN
  /\ PC(r) = "provision"
  /\ ~DroneLocked(d) /\ Exists(d) /\ deviceDrone[v] = Nil
  /\ deviceDrone' = [deviceDrone EXCEPT ![v] = d]
  /\ Finish(r)
  /\ UNCHANGED <<droneVars, keyVars, stationVars, tasked>>

(* The drone is gone, or the device id is taken: a 500.                     *)
AbortProvision(r) ==
  LET v == req[r].device  d == req[r].drone IN
  /\ PC(r) = "provision"
  /\ ~DroneLocked(d)
  /\ ~Exists(d) \/ deviceDrone[v] # Nil
  /\ Abort(r)

-----------------------------------------------------------------------------
(* ingest_recon_contact, as far as it refers to a drone *)

(* The station is chosen with the drone it has, an interceptor.             *)
StartReport(r, s) ==
  /\ PC(r) = "idle"
  /\ stationDrone[s] # Nil /\ role[stationDrone[s]] = "interceptor"
  /\ Goto(r, [pc |-> "report", drone |-> stationDrone[s]])
  /\ UNCHANGED tables

CommitReport(r) ==
  /\ PC(r) = "report"
  /\ ~DroneLocked(req[r].drone) /\ Exists(req[r].drone)
  /\ tasked' = tasked \cup {req[r].drone}
  /\ Finish(r)
  /\ UNCHANGED <<droneVars, keyVars, stationVars, deviceDrone>>

AbortReport(r) ==
  /\ PC(r) = "report"
  /\ ~DroneLocked(req[r].drone) /\ ~Exists(req[r].drone)
  /\ Abort(r)

(* The tasks of a drone are deleted with their detections.                  *)
DropTasks(d) ==
  /\ d \in tasked
  /\ tasked' = tasked \ {d}
  /\ UNCHANGED <<droneVars, keyVars, stationVars, deviceDrone, req>>

-----------------------------------------------------------------------------
Arrive(r) ==
  \/ StartCreate(r)
  \/ \E d \in Rows : StartRotate(r, d) \/ StartDelete(r, d)
  \/ \E d \in Rows, s \in Stations : StartLink(r, s, d)
  \/ \E d \in Rows, v \in Devices : StartProvision(r, v, d)
  \/ \E s \in Stations : StartReport(r, s)

Proceed(r) ==
  \/ CommitCreate(r) \/ RefuseCreate(r)
  \/ FlushRotate(r) \/ CommitRotate(r) \/ AbortRotate(r)
  \/ FlushDelete(r) \/ CommitDelete(r) \/ AbortDelete(r)
  \/ BreakDeadlock(r)
  \/ CommitLink(r) \/ RefuseLink(r)
  \/ CommitProvision(r) \/ AbortProvision(r)
  \/ CommitReport(r) \/ AbortReport(r)

Next ==
  \/ \E r \in Requests : Arrive(r) \/ Proceed(r)
  \/ \E d \in Rows : PatchRole(d) \/ DropTasks(d)
  \/ \E s \in Stations : Unlink(s)

Spec == Init /\ [][Next]_vars

(* A thread that can go on does, and the deadlock detector runs.            *)
FairSpec == Spec /\ \A r \in Requests : WF_vars(Proceed(r))

-----------------------------------------------------------------------------
(* Properties *)

(* Every registered drone has a key of its own, and the key is active:      *)
(* whatever rotations and deletions overlap, none takes the key of a drone  *)
(* that stays, and packets signed with the last key handed out are accepted. *)
KeyInForce ==
  \A d \in Registered :
    /\ key[d] # Nil
    /\ keyStatus[key[d]] = "active"
    /\ \A e \in Registered : key[e] = key[d] => e = d

(* A secret stays active without a drone only when a rotation overlapped    *)
(* another one or a deletion: the request that leaves it had read the       *)
(* drone's key before the other changed it.  No refused creation, and no    *)
(* rotation or deletion alone, leaves one.                                  *)
Stray(k) == keyStatus[k] = "active" /\ \A d \in Registered : key[d] # k

StraysOnlyByOverlap ==
  [][\A k \in KeyIds :
       Stray(k)' /\ ~Stray(k) =>
         \E r \in Requests :
           /\ PC(r) \in {"rotating", "deleting"}
           /\ req'[r] = Idle
           /\ req[r].key # key[req[r].drone]]_vars

(* No row refers to a drone that is gone, and no two stations share one:    *)
(* whatever is linked, provisioned or tasked while a deletion is between    *)
(* its check, its flush and its commit waits, is refused, or is what the    *)
(* deletion takes off or stumbles over.                                     *)
ReferencesHold ==
  /\ \A s \in Stations : stationDrone[s] # Nil => Exists(stationDrone[s])
  /\ \A v \in Devices : deviceDrone[v] # Nil => Exists(deviceDrone[v])
  /\ \A d \in tasked : Exists(d)
  /\ \A s, t \in Stations : stationDrone[s] # Nil /\ stationDrone[s] = stationDrone[t] => s = t

(* No set of requests waits on one another for ever: every request that     *)
(* arrives is answered, a deletion that deadlocks with a rotation too.      *)
EveryRequestEnds == \A r \in Requests : PC(r) # "idle" ~> PC(r) = "idle"
=============================================================================
