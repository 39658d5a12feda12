--------------------------- MODULE InterceptTasks ---------------------------
(***************************************************************************)
(* The engagement tables of the control center: hostile_detections and     *)
(* intercept_tasks, one action per database transaction of                 *)
(* app/services/intercept_control.py, intercept_simulation.py and          *)
(* app/api/routers/hostile_detections.py, each transaction atomic.         *)
(*                                                                         *)
(* This is what the handlers promise when no two of them overlap.          *)
(* InterceptControl splits the same handlers into their reads and their    *)
(* commit.                                                                 *)
(*                                                                         *)
(* A variable stands for a column.  A contact stands for the unique pair   *)
(* (recon_drone_uid, contact_id).  A station is a number: the order of the *)
(* numbers is the order of the station names, and as user_id is unique in  *)
(* operator_stations and never patched, the number names the operator too. *)
(* A task id is given in the order of assigned_at.                         *)
(***************************************************************************)
EXTENDS Naturals, FiniteSets

CONSTANTS
  Contacts,     (* the contacts the recon drones report                    *)
  Stations,     (* the operator stations, a set of numbers                 *)
  NoStation,    (* NULL in a station column                                *)
  NoContact,    (* NULL in a contact column                                *)
  Admin,        (* an administrator: acts on every operator's tasks        *)
  MaxTasks,     (* bound: task rows ever inserted                          *)
  MaxDistance   (* bound: distances are ranked 0..MaxDistance              *)

ASSUME StationsAssumption ==
  /\ Stations \subseteq Nat
  /\ NoStation \notin Stations
  /\ Admin \notin Stations

ASSUME ContactsAssumption == NoContact \notin Contacts

ASSUME BoundsAssumption == MaxTasks \in Nat /\ MaxDistance \in Nat

TaskIds == 1 .. MaxTasks

DetectionStatus == {"absent", "open", "assigned", "resolved"}

TaskStatus ==
  {"none", "pending", "accepted", "rejected", "completed", "expired"}

Timestamps == {"accepted_at", "rejected_at", "completed_at"}

VARIABLES
  detStatus,    (* status of a contact's detection, "absent" without a row *)
  detStation,   (* its assigned_operator_station_id                        *)
  taskStatus,   (* status of a task, "none" without a row                  *)
  taskContact,  (* its hostile_detection_id                                *)
  taskStation,  (* its operator_station_id and operator_user_id            *)
  taskStamps,   (* which of its timestamps are set                         *)
  lastTask,     (* the id given last                                       *)
  due,          (* accepted tasks whose simulated flight time is over      *)
  eligible      (* stations choose_nearest_operator_station considers      *)

detVars  == <<detStatus, detStation>>
taskVars == <<taskStatus, taskContact, taskStation, taskStamps, lastTask>>
vars     == <<detVars, taskVars, due, eligible>>

TypeOK ==
  /\ detStatus \in [Contacts -> DetectionStatus]
  /\ detStation \in [Contacts -> Stations \cup {NoStation}]
  /\ taskStatus \in [TaskIds -> TaskStatus]
  /\ taskContact \in [TaskIds -> Contacts \cup {NoContact}]
  /\ taskStation \in [TaskIds -> Stations \cup {NoStation}]
  /\ taskStamps \in [TaskIds -> SUBSET Timestamps]
  /\ lastTask \in 0 .. MaxTasks
  /\ due \subseteq TaskIds
  /\ eligible \subseteq Stations

Init ==
  /\ detStatus = [c \in Contacts |-> "absent"]
  /\ detStation = [c \in Contacts |-> NoStation]
  /\ taskStatus = [t \in TaskIds |-> "none"]
  /\ taskContact = [t \in TaskIds |-> NoContact]
  /\ taskStation = [t \in TaskIds |-> NoStation]
  /\ taskStamps = [t \in TaskIds |-> {}]
  /\ lastTask = 0
  /\ due = {}
  /\ eligible \in SUBSET Stations

-----------------------------------------------------------------------------
(* Queries *)

(* Faulty variant: a completed task still counts as one.                    *)
ActiveOrCompleted(t) == taskStatus[t] \in {"pending", "accepted", "completed"}

Active(t) == taskStatus[t] \in {"pending", "accepted"}

Terminal(t) == taskStatus[t] \in {"rejected", "completed", "expired"}

ActiveTasks(c) == {t \in TaskIds : Active(t) /\ taskContact[t] = c}

(* _active_task_for_detection: the first of the active tasks by assigned_at *)
(* descending; at most one element.                                         *)
CurrentTask(c) ==
  {t \in ActiveTasks(c) : \A u \in ActiveTasks(c) : u <= t}

OpenTaskCount(s) ==
  Cardinality({t \in TaskIds : Active(t) /\ taskStation[t] = s})

(* Faulty variant: the station name does not break a tie.                   *)
PrecedesByLoad(s, u, distance) ==
  \/ distance[s] < distance[u]
  \/ distance[s] = distance[u] /\ OpenTaskCount(s) < OpenTaskCount(u)

(* s precedes u in the order (distance, open tasks, station name).          *)
Precedes(s, u, distance) ==
  \/ distance[s] < distance[u]
  \/ /\ distance[s] = distance[u]
     /\ \/ OpenTaskCount(s) < OpenTaskCount(u)
        \/ OpenTaskCount(s) = OpenTaskCount(u) /\ s < u

Nearest(s, distance) ==
  /\ s \in eligible
  /\ \A u \in eligible \ {s} : Precedes(s, u, distance)

MayActOn(actor, t) == actor = Admin \/ actor = taskStation[t]

-----------------------------------------------------------------------------
(* POST /v1/recon/contacts *)

(* The report carries a new target position: an accepted task that was due  *)
(* may have farther to fly now.                                             *)
Retarget(c, expired) == due' \in {due \ expired, due \ ActiveTasks(c)}

PendingOf(T) == {t \in T : taskStatus[t] = "pending"}

Expire(T) == [t \in TaskIds |-> IF t \in T THEN "expired" ELSE taskStatus[t]]

ReportUnassigned(c) ==
  /\ eligible = {}
  /\ detStatus' = [detStatus EXCEPT ![c] = "open"]
  /\ detStation' = [detStation EXCEPT ![c] = NoStation]
  /\ taskStatus' = Expire(PendingOf(CurrentTask(c)))
  /\ Retarget(c, {})
  /\ UNCHANGED <<taskContact, taskStation, taskStamps, lastTask, eligible>>

Assign(c, s) ==
  /\ detStatus' = [detStatus EXCEPT ![c] = "assigned"]
  /\ detStation' = [detStation EXCEPT ![c] = s]

ReportReused(c, s) ==
  /\ \E t \in CurrentTask(c) : taskStation[t] = s
  /\ Assign(c, s)
  /\ Retarget(c, {})
  /\ UNCHANGED <<taskVars, eligible>>

ExpireAndInsert(c, s, expired) ==
  /\ lastTask < MaxTasks
  /\ lastTask' = lastTask + 1
  /\ taskStatus' = [Expire(expired) EXCEPT ![lastTask + 1] = "pending"]
  /\ taskContact' = [taskContact EXCEPT ![lastTask + 1] = c]
  /\ taskStation' = [taskStation EXCEPT ![lastTask + 1] = s]
  /\ Retarget(c, expired)
  /\ UNCHANGED <<taskStamps, eligible>>

(* Faulty variants: the old task is left as it is; only a pending one is    *)
(* expired.                                                                 *)
ReportReassignedKeepingOld(c, s) ==
  /\ \A t \in CurrentTask(c) : taskStation[t] # s
  /\ Assign(c, s)
  /\ ExpireAndInsert(c, s, {})

ReportReassignedKeepingAccepted(c, s) ==
  /\ \A t \in CurrentTask(c) : taskStation[t] # s
  /\ Assign(c, s)
  /\ ExpireAndInsert(c, s, PendingOf(CurrentTask(c)))

ReportReassigned(c, s) ==
  /\ \A t \in CurrentTask(c) : taskStation[t] # s
  /\ Assign(c, s)
  /\ ExpireAndInsert(c, s, CurrentTask(c))

Report(c) ==
  \/ ReportUnassigned(c)
  \/ \E s \in Stations :
       /\ \E distance \in [Stations -> 0 .. MaxDistance] : Nearest(s, distance)
       /\ ReportReused(c, s) \/ ReportReassigned(c, s)

-----------------------------------------------------------------------------
(* POST /v1/intercept-tasks/{id}/accept, reject, complete *)

Accept(t, actor) ==
  /\ MayActOn(actor, t)
  /\ taskStatus[t] = "pending"
  /\ taskStatus' = [taskStatus EXCEPT ![t] = "accepted"]
  /\ taskStamps' = [taskStamps EXCEPT ![t] = @ \cup {"accepted_at"}]
  /\ detStatus' = [detStatus EXCEPT ![taskContact[t]] = "assigned"]
  /\ UNCHANGED <<detStation, taskContact, taskStation, lastTask, due, eligible>>

(* Faulty variant: the detection stays assigned to the station that refused. *)
RejectKeepingDetection(t, actor) ==
  /\ MayActOn(actor, t)
  /\ Active(t)
  /\ taskStatus' = [taskStatus EXCEPT ![t] = "rejected"]
  /\ taskStamps' = [taskStamps EXCEPT ![t] = @ \cup {"rejected_at"}]
  /\ due' = due \ {t}
  /\ UNCHANGED <<detVars, taskContact, taskStation, lastTask, eligible>>

Reject(t, actor) ==
  /\ MayActOn(actor, t)
  /\ Active(t)
  /\ taskStatus' = [taskStatus EXCEPT ![t] = "rejected"]
  /\ taskStamps' = [taskStamps EXCEPT ![t] = @ \cup {"rejected_at"}]
  /\ detStatus' = [detStatus EXCEPT ![taskContact[t]] = "open"]
  /\ detStation' = [detStation EXCEPT ![taskContact[t]] = NoStation]
  /\ due' = due \ {t}
  /\ UNCHANGED <<taskContact, taskStation, lastTask, eligible>>

(* Faulty variant: any task may be completed, an ended one too.             *)
CompleteAny(t, actor) ==
  /\ MayActOn(actor, t)
  /\ taskStatus[t] # "none"
  /\ taskStatus' = [taskStatus EXCEPT ![t] = "completed"]
  /\ taskStamps' = [taskStamps EXCEPT ![t] = @ \cup {"accepted_at", "completed_at"}]
  /\ detStatus' = [detStatus EXCEPT ![taskContact[t]] = "resolved"]
  /\ due' = due \ {t}
  /\ UNCHANGED <<detStation, taskContact, taskStation, lastTask, eligible>>

Complete(t, actor) ==
  /\ MayActOn(actor, t)
  /\ Active(t)
  /\ taskStatus' = [taskStatus EXCEPT ![t] = "completed"]
  /\ taskStamps' = [taskStamps EXCEPT ![t] = @ \cup {"accepted_at", "completed_at"}]
  /\ detStatus' = [detStatus EXCEPT ![taskContact[t]] = "resolved"]
  /\ due' = due \ {t}
  /\ UNCHANGED <<detStation, taskContact, taskStation, lastTask, eligible>>

-----------------------------------------------------------------------------
(* advance_intercept_simulation, run by every read of tasks, detections,    *)
(* tracks and playback and ahead of every task action *)

(* Time passes: the simulated flight of an accepted task is over.           *)
Elapse(t) ==
  /\ taskStatus[t] = "accepted"
  /\ t \notin due
  /\ due' = due \cup {t}
  /\ UNCHANGED <<detVars, taskVars, eligible>>

(* Faulty variant: the task's status goes into the detection's column.      *)
AdvanceWritingTaskStatus(D) ==
  /\ D # {}
  /\ D \subseteq due
  /\ taskStatus' = [t \in TaskIds |-> IF t \in D THEN "completed" ELSE taskStatus[t]]
  /\ taskStamps' = [t \in TaskIds |-> IF t \in D THEN taskStamps[t] \cup {"completed_at"}
                                      ELSE taskStamps[t]]
  /\ detStatus' = [c \in Contacts |-> IF \E t \in D : taskContact[t] = c
                                      THEN "completed" ELSE detStatus[c]]
  /\ due' = due \ D
  /\ UNCHANGED <<detStation, taskContact, taskStation, lastTask, eligible>>

(* D: the accepted tasks that were due when the handler read the clock.     *)
Advance(D) ==
  /\ D # {}
  /\ D \subseteq due
  /\ taskStatus' = [t \in TaskIds |-> IF t \in D THEN "completed" ELSE taskStatus[t]]
  /\ taskStamps' = [t \in TaskIds |-> IF t \in D THEN taskStamps[t] \cup {"completed_at"}
                                      ELSE taskStamps[t]]
  /\ detStatus' = [c \in Contacts |-> IF \E t \in D : taskContact[t] = c
                                      THEN "resolved" ELSE detStatus[c]]
  /\ due' = due \ D
  /\ UNCHANGED <<detStation, taskContact, taskStation, lastTask, eligible>>

-----------------------------------------------------------------------------
(* DELETE /v1/hostile-detections/{id}: the tasks, then the detection *)

Delete(c) ==
  LET gone == {t \in TaskIds : taskStatus[t] # "none" /\ taskContact[t] = c} IN
  /\ detStatus[c] # "absent"
  /\ detStatus' = [detStatus EXCEPT ![c] = "absent"]
  /\ detStation' = [detStation EXCEPT ![c] = NoStation]
  /\ taskStatus' = [t \in TaskIds |-> IF t \in gone THEN "none" ELSE taskStatus[t]]
  /\ taskContact' = [t \in TaskIds |-> IF t \in gone THEN NoContact ELSE taskContact[t]]
  /\ taskStation' = [t \in TaskIds |-> IF t \in gone THEN NoStation ELSE taskStation[t]]
  /\ taskStamps' = [t \in TaskIds |-> IF t \in gone THEN {} ELSE taskStamps[t]]
  /\ due' = due \ gone
  /\ UNCHANGED <<lastTask, eligible>>

(* A patch of a station (is_active, its drone) or of a drone's status makes *)
(* the station eligible or not; its tasks stay as they are.                 *)
ChangeEligibility(s) ==
  /\ eligible' \in {eligible \cup {s}, eligible \ {s}}
  /\ UNCHANGED <<detVars, taskVars, due>>

-----------------------------------------------------------------------------
Next ==
  \/ \E c \in Contacts : Report(c) \/ Delete(c)
  \/ \E t \in TaskIds, actor \in Stations \cup {Admin} :
       Accept(t, actor) \/ Reject(t, actor) \/ Complete(t, actor)
  \/ \E t \in TaskIds : Elapse(t)
  \/ \E D \in SUBSET due : Advance(D)
  \/ \E s \in Stations : ChangeEligibility(s)

Spec == Init /\ [][Next]_vars

-----------------------------------------------------------------------------
(* Properties *)

(* A target never has two tasks in force: whatever sequence of reports,     *)
(* station changes and operator decisions, ingest_recon_contact expires or  *)
(* reuses the task it finds before it inserts one.                          *)
OneActiveTask ==
  \A t, u \in TaskIds :
    Active(t) /\ Active(u) /\ taskContact[t] = taskContact[u] => t = u

(* The two tables agree.  A pending task belongs to the station its         *)
(* detection shows; an accepted one too, except that a report without any   *)
(* eligible station takes the assignment off the detection and leaves the   *)
(* accepted task in force.                                                  *)
TaskMatchesDetection(t) ==
  LET c == taskContact[t] IN
  \/ detStatus[c] = "assigned" /\ detStation[c] = taskStation[t]
  \/ taskStatus[t] = "accepted" /\ detStatus[c] = "open" /\ detStation[c] = NoStation

(* A detection shown as assigned has a task in force, at that station.      *)
AssignedHasTask(c) ==
  detStatus[c] = "assigned" =>
    \E t \in TaskIds :
      Active(t) /\ taskContact[t] = c /\ taskStation[t] = detStation[c]

(* hostile_detections and intercept_tasks tell the same story: nobody is    *)
(* sent to a target shown as open or resolved, no target is shown as        *)
(* assigned with nobody sent, and an unassigned one names no station.       *)
TablesAgree ==
  /\ \A t \in TaskIds : Active(t) => TaskMatchesDetection(t)
  /\ \A c \in Contacts : AssignedHasTask(c)
  /\ \A c \in Contacts : detStatus[c] = "open" => detStation[c] = NoStation

(* No task row refers to a detection that is gone.                          *)
NoOrphanTask ==
  \A t \in TaskIds :
    taskStatus[t] # "none" => /\ taskContact[t] \in Contacts
                             /\ detStatus[taskContact[t]] # "absent"
                             /\ taskStation[t] \in Stations

(* The timestamps tell how a task ended: completed means accepted first,    *)
(* never rejected; a task that was rejected was not completed; an expired   *)
(* one was neither.                                                         *)
StampsOf(status) ==
  CASE status \in {"none", "pending"} -> {{}}
    [] status = "accepted"  -> {{"accepted_at"}}
    [] status = "rejected"  -> {{"rejected_at"}, {"accepted_at", "rejected_at"}}
    [] status = "completed" -> {{"accepted_at", "completed_at"}}
    [] status = "expired"   -> {{}, {"accepted_at"}}

StampsTellTheStory == \A t \in TaskIds : taskStamps[t] \in StampsOf(taskStatus[t])

(* Whatever the distances of a report, exactly one eligible station is the  *)
(* nearest: choose_nearest_operator_station never depends on the order in   *)
(* which the rows come back.                                                *)
NearestIsUnique ==
  eligible # {} =>
    \A distance \in [Stations -> 0 .. MaxDistance] :
      \E s \in eligible : \A u \in eligible : Nearest(u, distance) <=> u = s

(* An ended task stays ended: only the deletion of its detection takes the  *)
(* row away.                                                                *)
TerminalIsFinal ==
  [][\A t \in TaskIds :
       Terminal(t) => taskStatus'[t] \in {taskStatus[t], "none"}]_vars

(* A resolved target that is reported again gets a new pending task; no     *)
(* task of the earlier engagement comes back.                               *)
ReopensWithFreshTask ==
  [][\A c \in Contacts :
       detStatus[c] = "resolved" /\ detStatus'[c] = "assigned" =>
         /\ lastTask' = lastTask + 1
         /\ taskStatus'[lastTask'] = "pending"
         /\ taskContact'[lastTask'] = c]_vars
=============================================================================
