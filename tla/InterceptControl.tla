-------------------------- MODULE InterceptControl --------------------------
(***************************************************************************)
(* The engagement handlers as the server runs them: FastAPI executes them  *)
(* on a pool of threads, each with a database session of its own           *)
(* (app/db/session.py, no isolation level set: PostgreSQL reads the last   *)
(* committed rows).  A handler reads rows into objects, decides on what it *)
(* read, and its commit writes the columns whose value it changed, with no *)
(* condition on their current value.  Between the reads and the commit     *)
(* other handlers commit.                                                  *)
(*                                                                         *)
(* A request is one handler running.  Its steps are its SELECTs, the       *)
(* INSERT ahead of the commit, and the commit; a commit that meets a row   *)
(* that is gone (StaleDataError) or a broken constraint (IntegrityError)   *)
(* is rolled back, and the handler ends with a 500.                        *)
(*                                                                         *)
(* InterceptTasks is what the same handlers do one at a time.              *)
(***************************************************************************)
EXTENDS Naturals, FiniteSets

CONSTANTS
  Contacts, Stations, NoStation, NoContact, Admin, MaxTasks, MaxDistance,
  Requests,     (* the threads that run handlers                           *)
  Kinds,        (* the kinds of requests that arrive, a subset of AllKinds *)
  MaxRow        (* bound: deletions of a contact's detection               *)

AllKinds == {"report", "accept", "reject", "complete", "poll", "delete", "patch"}

ASSUME RequestsAssumption ==
  Kinds \subseteq AllKinds /\ MaxRow \in Nat /\ IsFiniteSet(Requests)

(* What InterceptTasks assumes.                                             *)
ASSUME TablesAssumption ==
  /\ Stations \subseteq Nat /\ NoStation \notin Stations /\ Admin \notin Stations
  /\ NoContact \notin Contacts
  /\ MaxTasks \in Nat /\ MaxDistance \in Nat

VARIABLES
  detStatus, detStation,                              (* hostile_detections *)
  taskStatus, taskContact, taskStation, taskStamps,   (* intercept_tasks    *)
  lastTask, due, eligible,
  detRow,       (* which row, by number, a contact's detection is (its id)  *)
  req           (* what each request has read, and where it is              *)

(* The abstract specification is over the same tables: the refinement maps  *)
(* each to itself, and leaves out detRow and what the requests have read.   *)
Tables == INSTANCE InterceptTasks
  WITH Contacts <- Contacts, Stations <- Stations, NoStation <- NoStation,
       NoContact <- NoContact, Admin <- Admin, MaxTasks <- MaxTasks,
       MaxDistance <- MaxDistance,
       detStatus <- detStatus, detStation <- detStation,
       taskStatus <- taskStatus, taskContact <- taskContact,
       taskStation <- taskStation, taskStamps <- taskStamps,
       lastTask <- lastTask, due <- due, eligible <- eligible

TaskIds == 1 .. MaxTasks

tables == <<detStatus, detStation, taskStatus, taskContact, taskStation,
            taskStamps, lastTask, due, eligible, detRow>>
vars   == <<tables, req>>

Idle == [pc |-> "idle"]

PC(r) == req[r].pc

Goto(r, record) == req' = [req EXCEPT ![r] = record]

Finish(r) == Goto(r, Idle)

(* A 4xx, a 404 or a rolled back commit: nothing is written.                *)
Abort(r) == Finish(r) /\ UNCHANGED tables

Init ==
  /\ Tables!Init
  /\ detRow = [c \in Contacts |-> 0]
  /\ req = [r \in Requests |-> Idle]

-----------------------------------------------------------------------------
(* advance_intercept_simulation: one SELECT, one commit *)

Flown == {t \in TaskIds : taskStatus[t] = "accepted" /\ t \in due}

Bundle(t) == [task |-> t, resolved |-> detStatus[taskContact[t]] = "resolved"]

(* The SELECT of a request whose next step is the record then.              *)
ReadFlown(r, then) ==
  /\ \/ Flown = {} /\ Goto(r, then)
     \/ Flown # {} /\ Goto(r, [pc |-> "advance", then |-> then,
                               bundles |-> {Bundle(t) : t \in Flown}])
  /\ UNCHANGED tables

AdvancedTasks(r) == {b.task : b \in req[r].bundles}

AdvancedContacts(r) ==
  {taskContact[b.task] : b \in {x \in req[r].bundles : ~x.resolved}}

CommitAdvance(r) ==
  /\ PC(r) = "advance"
  /\ \A t \in AdvancedTasks(r) : taskStatus[t] # "none"
  /\ taskStatus' = [t \in TaskIds |-> IF t \in AdvancedTasks(r) THEN "completed"
                                      ELSE taskStatus[t]]
  /\ taskStamps' = [t \in TaskIds |-> IF t \in AdvancedTasks(r)
                                      THEN taskStamps[t] \cup {"completed_at"}
                                      ELSE taskStamps[t]]
  /\ detStatus' = [c \in Contacts |-> IF c \in AdvancedContacts(r) THEN "resolved"
                                      ELSE detStatus[c]]
  /\ due' = due \ AdvancedTasks(r)
  /\ Goto(r, req[r].then)
  /\ UNCHANGED <<detStation, taskContact, taskStation, lastTask, eligible, detRow>>

AbortAdvance(r) ==
  /\ PC(r) = "advance"
  /\ \E t \in AdvancedTasks(r) : taskStatus[t] = "none"
  /\ Abort(r)

(* Every GET of tasks, detections, tracks or playback.                      *)
StartPoll(r) ==
  /\ "poll" \in Kinds
  /\ PC(r) = "idle"
  /\ Flown # {}
  /\ ReadFlown(r, Idle)

-----------------------------------------------------------------------------
(* accept_task, reject_task, complete_task *)

(* Whose task it is never changes and is checked here; a stranger's request *)
(* is refused after it has advanced the simulation, as a poll does.         *)
StartDecision(r, kind, t, actor) ==
  /\ kind \in Kinds
  /\ PC(r) = "idle"
  /\ taskStatus[t] # "none"
  /\ Tables!MayActOn(actor, t)
  /\ ReadFlown(r, [pc |-> "load", kind |-> kind, task |-> t])

(* Faulty variant: an accepted task can be accepted again.                  *)
AdmissibleActive(kind) == {"pending", "accepted"}

Admissible(kind) == IF kind = "accept" THEN {"pending"} ELSE {"pending", "accepted"}

Decided(kind) ==
  CASE kind = "accept"   -> [task |-> "accepted", detection |-> "assigned"]
    [] kind = "reject"   -> [task |-> "rejected", detection |-> "open"]
    [] kind = "complete" -> [task |-> "completed", detection |-> "resolved"]

(* Faulty variant: completing never sets accepted_at.                       *)
StampsSetAlone(kind) ==
  CASE kind = "accept"   -> {"accepted_at"}
    [] kind = "reject"   -> {"rejected_at"}
    [] kind = "complete" -> {"completed_at"}

(* Completing sets accepted_at when it read none; a timestamp is never      *)
(* cleared, so adding it to one that is there changes nothing.              *)
StampsSet(kind) ==
  CASE kind = "accept"   -> {"accepted_at"}
    [] kind = "reject"   -> {"rejected_at"}
    [] kind = "complete" -> {"accepted_at", "completed_at"}

(* What the commit will write is settled here: of the detection, only the   *)
(* columns whose value differs from the one that is read.                   *)
LoadTask(r) ==
  LET t == req[r].task  kind == req[r].kind  c == taskContact[t] IN
  /\ PC(r) = "load"
  /\ taskStatus[t] \in Admissible(kind)
  /\ Goto(r, [pc |-> "decide", kind |-> kind, task |-> t,
              setsStatus |-> detStatus[c] # Decided(kind).detection,
              setsStation |-> kind = "reject" /\ detStation[c] # NoStation])
  /\ UNCHANGED tables

RefuseTask(r) ==
  /\ PC(r) = "load"
  /\ taskStatus[req[r].task] \notin Admissible(req[r].kind)
  /\ Abort(r)

CommitDecision(r) ==
  LET q == req[r]  t == q.task  c == taskContact[t] IN
  /\ q.pc = "decide"
  /\ taskStatus[t] # "none"
  /\ taskStatus' = [taskStatus EXCEPT ![t] = Decided(q.kind).task]
  /\ taskStamps' = [taskStamps EXCEPT ![t] = @ \cup StampsSet(q.kind)]
  /\ detStatus' = IF q.setsStatus
                  THEN [detStatus EXCEPT ![c] = Decided(q.kind).detection] ELSE detStatus
  /\ detStation' = IF q.setsStation
                   THEN [detStation EXCEPT ![c] = NoStation] ELSE detStation
  /\ due' = due \ {t}
  /\ Goto(r, [pc |-> "refresh"])
  /\ UNCHANGED <<taskContact, taskStation, lastTask, eligible, detRow>>

AbortDecision(r) ==
  /\ PC(r) = "decide"
  /\ taskStatus[req[r].task] = "none"
  /\ Abort(r)

(* The router answers with list_task_rows, which advances the simulation.   *)
Refresh(r) ==
  /\ PC(r) = "refresh"
  /\ ReadFlown(r, Idle)

-----------------------------------------------------------------------------
(* ingest_recon_contact *)

Reporting(r) == PC(r) \in {"insert", "choose", "assign"}

(* Its INSERT of the detection is flushed, not committed: a transaction     *)
(* that inserts the same key waits for its end.                             *)
HoldsKey(r, c) == PC(r) \in {"choose", "assign"} /\ req[r].new /\ req[r].contact = c

Loaded(c) == [status |-> detStatus[c], station |-> detStation[c]]

StartReport(r, c) ==
  /\ "report" \in Kinds
  /\ PC(r) = "idle"
  /\ lastTask + Cardinality({q \in Requests : Reporting(q)}) < MaxTasks
  /\ Goto(r, [pc |-> IF detStatus[c] = "absent" THEN "insert" ELSE "choose",
              contact |-> c, row |-> detRow[c], new |-> FALSE, loaded |-> Loaded(c)])
  /\ UNCHANGED tables

InsertDetection(r) ==
  LET c == req[r].contact IN
  /\ PC(r) = "insert"
  /\ detStatus[c] = "absent"
  /\ \A q \in Requests : ~HoldsKey(q, c)
  /\ Goto(r, [req[r] EXCEPT !.pc = "choose", !.new = TRUE, !.row = detRow[c]])
  /\ UNCHANGED tables

(* Faulty variant: the insert is tried again instead of failing.            *)
RetryDuplicate(r) ==
  /\ PC(r) = "insert"
  /\ detStatus[req[r].contact] # "absent"
  /\ UNCHANGED vars

(* uq_hostile_detection_recon_contact: somebody else's report came first.   *)
DuplicateDetection(r) ==
  /\ PC(r) = "insert"
  /\ detStatus[req[r].contact] # "absent"
  /\ Abort(r)

(* choose_nearest_operator_station and _active_task_for_detection.  The     *)
(* distances are free, so reading the stations and the task in one step     *)
(* loses no outcome.  The rest of the handler works on what it has read:    *)
(* station s is the chosen one, or NoStation.                               *)
FoundTask(r) ==
  IF req[r].row = detRow[req[r].contact] THEN Tables!CurrentTask(req[r].contact) ELSE {}

(* Faulty variant: a task that is at the chosen station already is not      *)
(* looked for.                                                              *)
AssignmentAlways(r, s) ==
  LET q == req[r]
      current == FoundTask(r)
      none == s = NoStation
  IN
  [pc |-> "assign", contact |-> q.contact, row |-> q.row, new |-> q.new, station |-> s,
   setsStatus |-> q.loaded.status # (IF none THEN "open" ELSE "assigned"),
   setsStation |-> q.loaded.station # s, current |-> current,
   expires |-> IF none THEN Tables!PendingOf(current) ELSE {t \in current : taskStation[t] # s},
   opens |-> ~none]

Assignment(r, s) ==
  LET q == req[r]
      current == FoundTask(r)
      elsewhere == {t \in current : taskStation[t] # s}
      none == s = NoStation
  IN
  [pc |-> "assign", contact |-> q.contact, row |-> q.row, new |-> q.new, station |-> s,
   setsStatus |-> q.loaded.status # (IF none THEN "open" ELSE "assigned"),
   setsStation |-> q.loaded.station # s, current |-> current,
   expires |-> IF none THEN Tables!PendingOf(current) ELSE elsewhere,
   opens |-> ~none /\ current = elsewhere]

Choose(r) ==
  /\ PC(r) = "choose"
  /\ \/ eligible = {} /\ Goto(r, Assignment(r, NoStation))
     \/ \E s \in Stations :
          /\ \E distance \in [Stations -> 0 .. MaxDistance] : Tables!Nearest(s, distance)
          /\ Goto(r, Assignment(r, s))
  /\ UNCHANGED tables

(* Like a decision, a report writes the columns that differ from what it    *)
(* loaded; it always updates the row, for the new position.                 *)
CommitReport(r) ==
  LET q == req[r]  new == lastTask + 1 IN
  /\ q.pc = "assign"
  /\ detRow[q.contact] = q.row
  /\ detStatus' = IF ~q.setsStatus THEN detStatus
                  ELSE [detStatus EXCEPT ![q.contact] =
                          IF q.station = NoStation THEN "open" ELSE "assigned"]
  /\ detStation' = IF q.setsStation
                   THEN [detStation EXCEPT ![q.contact] = q.station] ELSE detStation
  /\ due' \in {due \ q.expires, due \ (q.expires \cup Tables!ActiveTasks(q.contact))}
  /\ IF q.opens
     THEN /\ lastTask' = new
          /\ taskStatus' = [Tables!Expire(q.expires) EXCEPT ![new] = "pending"]
          /\ taskContact' = [taskContact EXCEPT ![new] = q.contact]
          /\ taskStation' = [taskStation EXCEPT ![new] = q.station]
     ELSE /\ taskStatus' = Tables!Expire(q.expires)
          /\ UNCHANGED <<lastTask, taskContact, taskStation>>
  /\ Finish(r)
  /\ UNCHANGED <<taskStamps, eligible, detRow>>

AbortReport(r) ==
  /\ PC(r) = "assign"
  /\ detRow[req[r].contact] # req[r].row
  /\ Abort(r)

-----------------------------------------------------------------------------
(* DELETE /v1/hostile-detections/{id} *)

TasksOf(c) == {t \in TaskIds : taskStatus[t] # "none" /\ taskContact[t] = c}

(* The detection and its tasks are two SELECTs; a commit between them could *)
(* as well have come before both.                                           *)
StartDelete(r, c) ==
  /\ "delete" \in Kinds
  /\ PC(r) = "idle"
  /\ detStatus[c] # "absent"
  /\ detRow[c] < MaxRow
  /\ Goto(r, [pc |-> "remove", contact |-> c, row |-> detRow[c], tasks |-> TasksOf(c)])
  /\ UNCHANGED tables

RemoveRows(c) ==
  /\ detRow' = [detRow EXCEPT ![c] = @ + 1]
  /\ Tables!Delete(c)

(* Faulty variant: without the foreign key, the tasks that were not loaded  *)
(* stay behind.                                                             *)
CommitDeleteUnchecked(r) ==
  LET c == req[r].contact  gone == req[r].tasks IN
  /\ PC(r) = "remove"
  /\ detRow[c] = req[r].row
  /\ detRow' = [detRow EXCEPT ![c] = @ + 1]
  /\ detStatus' = [detStatus EXCEPT ![c] = "absent"]
  /\ detStation' = [detStation EXCEPT ![c] = NoStation]
  /\ taskStatus' = [t \in TaskIds |-> IF t \in gone THEN "none" ELSE taskStatus[t]]
  /\ taskContact' = [t \in TaskIds |-> IF t \in gone THEN NoContact ELSE taskContact[t]]
  /\ taskStation' = [t \in TaskIds |-> IF t \in gone THEN NoStation ELSE taskStation[t]]
  /\ taskStamps' = [t \in TaskIds |-> IF t \in gone THEN {} ELSE taskStamps[t]]
  /\ due' = due \ gone
  /\ Finish(r)
  /\ UNCHANGED <<lastTask, eligible>>

CommitDelete(r) ==
  LET c == req[r].contact IN
  /\ PC(r) = "remove"
  /\ detRow[c] = req[r].row
  /\ TasksOf(c) \subseteq req[r].tasks
  /\ RemoveRows(c)
  /\ Finish(r)

(* The rows are gone already, or a task came since and the foreign key of   *)
(* intercept_tasks refuses.                                                 *)
AbortDelete(r) ==
  LET c == req[r].contact IN
  /\ PC(r) = "remove"
  /\ detRow[c] # req[r].row \/ ~(TasksOf(c) \subseteq req[r].tasks)
  /\ Abort(r)

-----------------------------------------------------------------------------
(* A patch of a station or a drone commits to other tables what the caller  *)
(* sent, in one step of a request; time passes whatever runs.               *)
Patch(r, s) ==
  /\ "patch" \in Kinds
  /\ PC(r) = "idle"
  /\ Tables!ChangeEligibility(s)
  /\ UNCHANGED <<detRow, req>>

Elapse(t) == Tables!Elapse(t) /\ UNCHANGED <<detRow, req>>

Start(r) ==
  \/ StartPoll(r)
  \/ \E kind \in {"accept", "reject", "complete"}, t \in TaskIds,
        actor \in Stations \cup {Admin} : StartDecision(r, kind, t, actor)
  \/ \E c \in Contacts : StartReport(r, c) \/ StartDelete(r, c)
  \/ \E s \in Stations : Patch(r, s)

Step(r) ==
  \/ CommitAdvance(r) \/ AbortAdvance(r)
  \/ LoadTask(r) \/ RefuseTask(r) \/ CommitDecision(r) \/ AbortDecision(r) \/ Refresh(r)
  \/ InsertDetection(r) \/ DuplicateDetection(r) \/ Choose(r)
  \/ CommitReport(r) \/ AbortReport(r)
  \/ CommitDelete(r) \/ AbortDelete(r)

Next ==
  \/ \E r \in Requests : Start(r) \/ Step(r)
  \/ \E t \in TaskIds : Elapse(t)

Spec == Init /\ [][Next]_vars

(* A thread that can go on does; a transaction that waits for a key is in   *)
(* PostgreSQL's queue for it, and is let through when the key is free again *)
(* and again.                                                               *)
FairSpec == Spec /\ \A r \in Requests : SF_vars(Step(r))

-----------------------------------------------------------------------------
(* Properties *)

(* One request at a time does exactly what InterceptTasks says: the reads   *)
(* and the commit of every handler amount to one transaction.               *)
OneAtATime == Tables!Spec

(* Whatever overlaps, no task row outlives its detection: a report that     *)
(* inserts a task races the deletion of the detection, and one of the two   *)
(* fails.                                                                   *)
NoOrphanTask == Tables!NoOrphanTask

(* Whatever overlaps, the status of a task is stamped: the last writer set  *)
(* its own timestamp, and a completed task carries accepted_at even when    *)
(* the request that completed it had read the task before its acceptance.   *)
StatusIsStamped ==
  \A t \in TaskIds :
    /\ taskStatus[t] = "pending" => taskStamps[t] = {}
    /\ taskStatus[t] = "accepted" => "accepted_at" \in taskStamps[t]
    /\ taskStatus[t] = "rejected" => "rejected_at" \in taskStamps[t]
    /\ taskStatus[t] = "completed" => {"accepted_at", "completed_at"} \subseteq taskStamps[t]

(* Every request is answered: no two of them wait for each other, the first *)
(* reports of one contact included.                                         *)
EveryRequestEnds == \A r \in Requests : PC(r) # "idle" ~> PC(r) = "idle"

(* A target comes to have two tasks in force only by a request that decides *)
(* on what another one has changed since: a report that expires or keeps    *)
(* the task it had read and misses the one there is, or an acceptance of a  *)
(* task that is not in force any more.                                      *)
TwoInForce(c) == \E t, u \in Tables!ActiveTasks(c) : t # u

MissesTask(r, c) ==
  PC(r) = "assign" /\ req[r].contact = c /\ req[r].current # Tables!CurrentTask(c)

RevivesTask(r, c) ==
  LET t == req[r].task IN
  /\ PC(r) = "decide" /\ req[r].kind = "accept"
  /\ taskContact[t] = c /\ t \notin Tables!ActiveTasks(c)

DuplicatesOnlyByOverlap ==
  [][\A c \in Contacts :
       ~TwoInForce(c) /\ TwoInForce(c)' =>
         \E r \in Requests : req'[r] # req[r] /\ (MissesTask(r, c) \/ RevivesTask(r, c))]_vars

(* accept_task refuses a task that is not pending, complete_task one that   *)
(* is neither pending nor accepted (intercept_control.py lines 293, 329).   *)
(* Both look at what they read, not at what their UPDATE overwrites, and a  *)
(* poll completes what it read as accepted.                                 *)
DecidedAsChecked ==
  [][\A t \in TaskIds :
       taskStatus'[t] # taskStatus[t] =>
         /\ taskStatus'[t] = "accepted" => taskStatus[t] = "pending"
         /\ taskStatus'[t] = "completed" => taskStatus[t] \in {"pending", "accepted"}]_vars
=============================================================================
