------------------------ MODULE InterceptControlProofs ------------------------
(***************************************************************************)
(* Proofs about InterceptControl: what overlapping requests cannot break,  *)
(* for any number of them, and that one request at a time implements       *)
(* InterceptTasks.                                                         *)
(***************************************************************************)
EXTENDS InterceptControl, FiniteSetTheorems, TLAPS

(* The tables, in their types and in agreement.                            *)
Typed ==
  /\ detStatus \in [Contacts -> {"absent", "open", "assigned", "resolved"}]
  /\ detStation \in [Contacts -> Stations \cup {NoStation}]
  /\ taskStatus \in [TaskIds -> {"none", "pending", "accepted", "rejected", "completed", "expired"}]
  /\ taskContact \in [TaskIds -> Contacts \cup {NoContact}]
  /\ taskStation \in [TaskIds -> Stations \cup {NoStation}]
  /\ taskStamps \in [TaskIds -> SUBSET {"accepted_at", "rejected_at", "completed_at"}]
  /\ lastTask \in 0 .. MaxTasks
  /\ due \subseteq TaskIds
  /\ eligible \subseteq Stations
  /\ detRow \in [Contacts -> Nat]

FreeIds == \A t \in TaskIds : t > lastTask => taskStatus[t] = "none"

NoneUnstamped == \A t \in TaskIds : taskStatus[t] = "none" => taskStamps[t] = {}

RowsReferTo ==
  \A t \in TaskIds :
    taskStatus[t] # "none" => /\ taskContact[t] \in Contacts
                             /\ detStatus[taskContact[t]] # "absent"
                             /\ taskStation[t] \in Stations

TablesInv == Typed /\ FreeIds /\ NoneUnstamped /\ RowsReferTo /\ StatusIsStamped

-----------------------------------------------------------------------------
(* The requests *)

Decisions == {"accept", "reject", "complete"}

(* What the handler of a decision holds until it reads the task.           *)
IsLoad(q) == q.pc = "load" /\ q.kind \in Decisions /\ q.task \in TaskIds

IsAfterAdvance(q) == q = Idle \/ IsLoad(q)

(* A request that advances the simulation: its tasks were given out and    *)
(* accepted, and a row that is still there shows it.                       *)
AdvanceOK(q) ==
  /\ \A b \in q.bundles :
       /\ b.task \in 1 .. lastTask
       /\ taskStatus[b.task] # "none" => "accepted_at" \in taskStamps[b.task]
  /\ IsAfterAdvance(q.then)

DecideOK(q) == q.kind \in Decisions /\ q.task \in TaskIds

RowOK(q) == q.contact \in Contacts /\ q.row \in Nat /\ q.row <= detRow[q.contact]

InsertOK(q) == RowOK(q) /\ ~q.new /\ q.loaded.status = "absent"

(* The row a report has loaded is there as long as it is the same row.     *)
RowIsThere(q) == detRow[q.contact] = q.row /\ ~q.new => detStatus[q.contact] # "absent"

ChooseOK(q) ==
  /\ RowOK(q) /\ q.new \in BOOLEAN /\ RowIsThere(q)
  /\ q.new => q.loaded.status = "absent"

(* The tasks it is about to expire are those of its row.                   *)
AssignOK(q) ==
  /\ RowOK(q) /\ RowIsThere(q)
  /\ {q.new, q.setsStatus, q.setsStation, q.opens} \subseteq BOOLEAN
  /\ q.new => q.setsStatus
  /\ q.station \in Stations \cup {NoStation}
  /\ q.opens => q.station \in Stations
  /\ q.opens => q.expires = q.current
  /\ q.expires \subseteq TaskIds
  /\ detRow[q.contact] = q.row =>
       \A t \in q.expires : taskStatus[t] # "none" /\ taskContact[t] = q.contact

RequestOK(q) ==
  \/ q = Idle
  \/ q.pc = "refresh"
  \/ q.pc = "advance" /\ AdvanceOK(q)
  \/ IsLoad(q)
  \/ q.pc = "decide" /\ DecideOK(q)
  \/ q.pc = "insert" /\ InsertOK(q)
  \/ q.pc = "choose" /\ ChooseOK(q)
  \/ q.pc = "assign" /\ AssignOK(q)
  \/ q.pc = "remove" /\ RowOK(q)

RequestsInv == DOMAIN req = Requests /\ req = [r \in Requests |-> req[r]]
               /\ \A r \in Requests : RequestOK(req[r])

InReport == {r \in Requests : Reporting(r)}

(* Every report under way finds a free task id.                            *)
Room == lastTask + Cardinality(InReport) <= MaxTasks

ControlInv == TablesInv /\ RequestsInv /\ Room

(* What no commit does to rows somebody has read: a row that goes does not *)
(* come back under its number, and a timestamp stays.                      *)
RowsKept ==
  /\ \A c \in Contacts : detRow'[c] \in Nat /\ detRow[c] <= detRow'[c]
  /\ lastTask' \in Nat /\ lastTask <= lastTask'
  /\ \A t \in 1 .. lastTask :
       taskStatus'[t] # "none" => taskStatus[t] # "none" /\ taskStamps[t] \subseteq taskStamps'[t]
  /\ \A c \in Contacts : detRow'[c] = detRow[c] =>
       /\ detStatus[c] # "absent" => detStatus'[c] # "absent"
       /\ \A t \in TaskIds : taskStatus[t] # "none" /\ taskContact[t] = c =>
                               taskStatus'[t] # "none" /\ taskContact'[t] = c

LEMMA KeptRequest ==
  ASSUME Typed, RowsKept, NEW q, RequestOK(q)
  PROVE  RequestOK(q)'
<1>a. lastTask \in Nat /\ lastTask' \in Int /\ MaxTasks \in Nat /\ lastTask' >= lastTask
  BY TablesAssumption DEF Typed, RowsKept
<1>1. CASE q = Idle \/ q.pc = "refresh" \/ IsLoad(q) \/ (q.pc = "decide" /\ DecideOK(q))
  BY <1>1 DEF RequestOK, IsLoad, DecideOK
<1>2. CASE q.pc = "advance" /\ AdvanceOK(q)
  <2>1. AdvanceOK(q)'
    <3>1. ASSUME NEW b \in q.bundles
          PROVE  /\ b.task \in 1 .. lastTask'
                 /\ taskStatus'[b.task] # "none" => "accepted_at" \in taskStamps'[b.task]
      <4>1. b.task \in 1 .. lastTask
            /\ (taskStatus[b.task] # "none" => "accepted_at" \in taskStamps[b.task])
        BY <1>2 DEF AdvanceOK
      <4>2. b.task \in 1 .. lastTask'
        BY <1>a, <4>1
      <4> QED
        BY <4>1, <4>2 DEF RowsKept
    <3> QED
      BY <1>2, <3>1 DEF AdvanceOK, IsAfterAdvance, IsLoad
  <2> QED
    BY <1>2, <2>1 DEF RequestOK
<1>r. ASSUME RowOK(q) PROVE /\ RowOK(q)'
                            /\ detRow'[q.contact] = q.row => detRow[q.contact] = q.row
                            /\ q.contact \in Contacts
  BY <1>r DEF RowOK, RowsKept, Typed
<1>t. ASSUME RowOK(q), RowIsThere(q) PROVE RowIsThere(q)'
  BY <1>r, <1>t DEF RowIsThere, RowsKept
<1>3. CASE q.pc = "insert" /\ InsertOK(q)
  BY <1>3, <1>r DEF RequestOK, InsertOK
<1>4. CASE q.pc = "choose" /\ ChooseOK(q)
  BY <1>4, <1>r, <1>t DEF RequestOK, ChooseOK
<1>5. CASE q.pc = "assign" /\ AssignOK(q)
  <2>1. RowOK(q)' /\ RowIsThere(q)'
    BY <1>5, <1>r, <1>t DEF AssignOK
  <2>2. ASSUME detRow'[q.contact] = q.row, NEW t \in q.expires
        PROVE  taskStatus'[t] # "none" /\ taskContact'[t] = q.contact
    <3>1. detRow[q.contact] = q.row /\ q.contact \in Contacts /\ t \in TaskIds
      BY <1>5, <1>r, <2>2 DEF AssignOK
    <3>2. taskStatus[t] # "none" /\ taskContact[t] = q.contact
      BY <1>5, <2>2, <3>1 DEF AssignOK
    <3> QED
      BY <2>2, <3>1, <3>2 DEF RowsKept
  <2>3. AssignOK(q)'
    BY <1>5, <2>1, <2>2 DEF AssignOK
  <2> QED
    BY <1>5, <2>3 DEF RequestOK
<1>6. CASE q.pc = "remove" /\ RowOK(q)
  BY <1>6, <1>r DEF RequestOK
<1> QED
  BY <1>1, <1>2, <1>3, <1>4, <1>5, <1>6 DEF RequestOK

(* A step of one request, from what it does to the tables and to itself.   *)
LEMMA OneRequestSteps ==
  ASSUME ControlInv, NEW r \in Requests, NEW n, req' = [req EXCEPT ![r] = n],
         RequestOK(n), TablesInv', RowsKept, Room'
  PROVE  ControlInv'
<1>1. \A q : RequestOK(q) => RequestOK(q)'
  BY KeptRequest DEF ControlInv, TablesInv
<1>2. ASSUME NEW s \in Requests PROVE RequestOK(req[s])'
  <2>1. req'[s] = IF s = r THEN n ELSE req[s]
    BY DEF ControlInv, RequestsInv
  <2>2. RequestOK(req'[s])
    BY <2>1 DEF ControlInv, RequestsInv
  <2> QED
    BY <1>1, <2>2
<1>3. DOMAIN req' = Requests /\ req' = [s \in Requests |-> req'[s]]
  BY DEF ControlInv, RequestsInv
<1> QED
  BY <1>2, <1>3 DEF ControlInv, RequestsInv

LEMMA StillTables ==
  ASSUME TablesInv, UNCHANGED tables
  PROVE  TablesInv' /\ RowsKept
<1>1. /\ detStatus' = detStatus /\ detStation' = detStation /\ taskStatus' = taskStatus
      /\ taskContact' = taskContact /\ taskStation' = taskStation /\ taskStamps' = taskStamps
      /\ lastTask' = lastTask /\ due' = due /\ eligible' = eligible /\ detRow' = detRow
  BY DEF tables
<1>2. TablesInv'
  BY <1>1 DEF TablesInv, Typed, FreeIds, NoneUnstamped, RowsReferTo, StatusIsStamped
<1>3. RowsKept
  BY <1>1, TablesAssumption DEF TablesInv, Typed, RowsKept
<1> QED
  BY <1>2, <1>3

(* A request that does not start to report leaves room for those that do.  *)
LEMMA RoomStays ==
  ASSUME ControlInv, NEW r \in Requests, NEW n, req' = [req EXCEPT ![r] = n],
         n.pc \in {"insert", "choose", "assign"} => Reporting(r), lastTask' = lastTask
  PROVE  Room'
<1>1. \A s \in Requests : req'[s] = IF s = r THEN n ELSE req[s]
  BY DEF ControlInv, RequestsInv
<1>2. InReport' \subseteq InReport
  BY <1>1 DEF InReport, Reporting, PC
<1>3. IsFiniteSet(InReport)
  BY FS_Subset, RequestsAssumption DEF InReport
<1>4. /\ Cardinality(InReport) \in Nat /\ Cardinality(InReport') \in Nat
      /\ Cardinality(InReport') <= Cardinality(InReport)
  BY <1>2, <1>3, FS_Subset, FS_CardinalityType
<1> QED
  BY <1>4, TablesAssumption DEF ControlInv, TablesInv, Typed, Room

(* A read, and a request that is refused or rolled back.                   *)
LEMMA QuietStep ==
  ASSUME ControlInv, NEW r \in Requests, NEW n, req' = [req EXCEPT ![r] = n],
         RequestOK(n), n.pc \in {"insert", "choose", "assign"} => Reporting(r), UNCHANGED tables
  PROVE  ControlInv'
<1>1. Room'
  BY RoomStays DEF tables
<1> QED
  BY <1>1, OneRequestSteps, StillTables DEF ControlInv

LEMMA IdleOK == RequestOK(Idle) /\ Idle.pc = "idle"
BY DEF RequestOK, Idle

LEMMA AbortKeeps ==
  ASSUME ControlInv, NEW r \in Requests, Abort(r) PROVE ControlInv'
BY IdleOK, QuietStep DEF Abort, Finish, Goto

LEMMA ReadFlownKeeps ==
  ASSUME ControlInv, NEW r \in Requests, NEW then, IsAfterAdvance(then), ReadFlown(r, then)
  PROVE  ControlInv'
<1>t. UNCHANGED tables
  BY DEF ReadFlown
<1>1. RequestOK(then) /\ then.pc \notin {"insert", "choose", "assign"}
  BY IdleOK DEF IsAfterAdvance, RequestOK, IsLoad
<1>2. CASE Flown = {} /\ Goto(r, then)
  BY <1>t, <1>1, <1>2, QuietStep DEF Goto
<1>3. CASE Goto(r, [pc |-> "advance", then |-> then, bundles |-> {Bundle(t) : t \in Flown}])
  <2> DEFINE n == [pc |-> "advance", then |-> then, bundles |-> {Bundle(t) : t \in Flown}]
  <2>1. ASSUME NEW t \in Flown
        PROVE  Bundle(t).task \in 1 .. lastTask /\ "accepted_at" \in taskStamps[Bundle(t).task]
    <3>1. t \in TaskIds /\ taskStatus[t] = "accepted" /\ Bundle(t).task = t
      BY DEF Flown, Bundle
    <3>2. "accepted_at" \in taskStamps[t]
      BY <3>1 DEF ControlInv, TablesInv, StatusIsStamped
    <3>3. t \in 1 .. lastTask
      BY <3>1, TablesAssumption DEF ControlInv, TablesInv, Typed, FreeIds, TaskIds
    <3> QED
      BY <3>1, <3>2, <3>3
  <2>2. AdvanceOK(n)
    BY <2>1 DEF AdvanceOK
  <2>3. RequestOK(n) /\ n.pc = "advance"
    BY <2>2 DEF RequestOK
  <2> HIDE DEF n
  <2> QED
    BY <1>t, <1>3, <2>3, QuietStep DEF Goto, n
<1> QED
  BY <1>2, <1>3 DEF ReadFlown

-----------------------------------------------------------------------------
(* The requests that start, read or give up *)

LEMMA StartKeeps ==
  ASSUME ControlInv, NEW r \in Requests,
         \/ StartPoll(r)
         \/ \E kind \in Decisions, t \in TaskIds, actor \in Stations \cup {Admin} :
              StartDecision(r, kind, t, actor)
         \/ \E c \in Contacts : StartDelete(r, c)
  PROVE  ControlInv'
<1>1. CASE StartPoll(r)
  BY <1>1, ReadFlownKeeps DEF StartPoll, IsAfterAdvance
<1>2. ASSUME NEW kind \in Decisions, NEW t \in TaskIds, NEW actor, StartDecision(r, kind, t, actor)
      PROVE  ControlInv'
  <2> DEFINE n == [pc |-> "load", kind |-> kind, task |-> t]
  <2>1. IsAfterAdvance(n)
    BY DEF IsAfterAdvance, IsLoad
  <2> HIDE DEF n
  <2> QED
    BY <1>2, <2>1, ReadFlownKeeps DEF StartDecision, n
<1>3. ASSUME NEW c \in Contacts, StartDelete(r, c) PROVE ControlInv'
  <2> DEFINE n == [pc |-> "remove", contact |-> c, row |-> detRow[c], tasks |-> TasksOf(c)]
  <2>1. RequestOK(n) /\ n.pc = "remove"
    BY DEF ControlInv, TablesInv, Typed, RequestOK, RowOK
  <2>2. req' = [req EXCEPT ![r] = n] /\ UNCHANGED tables
    BY <1>3 DEF StartDelete, Goto
  <2> HIDE DEF n
  <2> QED
    BY <2>1, <2>2, QuietStep
<1> QED
  BY <1>1, <1>2, <1>3

(* A report only starts when a task id is left for it.                     *)
LEMMA StartReportKeeps ==
  ASSUME ControlInv, NEW r \in Requests, NEW c \in Contacts, StartReport(r, c)
  PROVE  ControlInv'
<1> DEFINE n == [pc |-> IF detStatus[c] = "absent" THEN "insert" ELSE "choose",
                 contact |-> c, row |-> detRow[c], new |-> FALSE, loaded |-> Loaded(c)]
<1>1. RequestOK(n)
  <2>1. RowOK(n) /\ ~n.new /\ n.new \in BOOLEAN /\ n.contact = c
    BY DEF ControlInv, TablesInv, Typed, RowOK
  <2>2. CASE detStatus[c] = "absent"
    <3>1. n.pc = "insert" /\ n.loaded.status = "absent"
      BY <2>2 DEF Loaded
    <3> QED
      BY <2>1, <3>1 DEF RequestOK, InsertOK
  <2>3. CASE detStatus[c] # "absent"
    <3>1. n.pc = "choose" /\ RowIsThere(n)
      BY <2>3 DEF RowIsThere
    <3> QED
      BY <2>1, <3>1 DEF RequestOK, ChooseOK
  <2> QED
    BY <2>2, <2>3
<1>2. req' = [req EXCEPT ![r] = n] /\ UNCHANGED tables
  BY DEF StartReport, Goto
<1>3. Room'
  <2>1. \A s \in Requests : req'[s] = IF s = r THEN n ELSE req[s]
    BY <1>2 DEF ControlInv, RequestsInv
  <2>2. r \notin InReport
    BY DEF InReport, Reporting, StartReport, PC
  <2>3. InReport' = InReport \cup {r}
    <3> HIDE DEF n
    <3>1. n.pc \in {"insert", "choose"}
      BY DEF n
    <3> QED
      BY <2>1, <3>1 DEF InReport, Reporting, PC
  <2>4. IsFiniteSet(InReport)
    BY FS_Subset, RequestsAssumption DEF InReport
  <2>5. /\ Cardinality(InReport') = Cardinality(InReport) + 1
        /\ Cardinality(InReport) \in Nat
    BY <2>2, <2>3, <2>4, FS_AddElement, FS_CardinalityType
  <2>6. lastTask + Cardinality(InReport) < MaxTasks
    BY DEF StartReport, InReport
  <2>7. lastTask' = lastTask /\ lastTask \in Nat
    BY <1>2, TablesAssumption DEF ControlInv, TablesInv, Typed, tables
  <2> QED
    BY <2>5, <2>6, <2>7, TablesAssumption DEF Room
<1> HIDE DEF n
<1> QED
  BY <1>1, <1>2, <1>3, OneRequestSteps, StillTables DEF ControlInv

LEMMA LoadTaskKeeps ==
  ASSUME ControlInv, NEW r \in Requests, LoadTask(r) PROVE ControlInv'
<1> DEFINE t == req[r].task
           kind == req[r].kind
           c == taskContact[t]
           n == [pc |-> "decide", kind |-> kind, task |-> t,
                 setsStatus |-> detStatus[c] # Decided(kind).detection,
                 setsStation |-> kind = "reject" /\ detStation[c] # NoStation]
<1>1. RequestOK(req[r]) /\ req[r].pc = "load"
  BY DEF ControlInv, RequestsInv, LoadTask, PC
<1>2. IsLoad(req[r])
  BY <1>1 DEF RequestOK, Idle
<1>3. RequestOK(n) /\ n.pc = "decide"
  BY <1>2 DEF RequestOK, DecideOK, IsLoad
<1>4. req' = [req EXCEPT ![r] = n] /\ UNCHANGED tables
  BY DEF LoadTask, Goto
<1> HIDE DEF n
<1> QED
  BY <1>3, <1>4, QuietStep

LEMMA RefreshKeeps ==
  ASSUME ControlInv, NEW r \in Requests, Refresh(r) PROVE ControlInv'
BY ReadFlownKeeps DEF Refresh, IsAfterAdvance

LEMMA InsertKeeps ==
  ASSUME ControlInv, NEW r \in Requests, InsertDetection(r) PROVE ControlInv'
<1> DEFINE n == [req[r] EXCEPT !.pc = "choose", !.new = TRUE, !.row = detRow[req[r].contact]]
<1>1. RequestOK(req[r]) /\ req[r].pc = "insert"
  BY DEF ControlInv, RequestsInv, InsertDetection, PC
<1>2. InsertOK(req[r])
  BY <1>1 DEF RequestOK, Idle, IsLoad
<1>3. req' = [req EXCEPT ![r] = n] /\ UNCHANGED tables
  BY DEF InsertDetection, Goto
<1>4. /\ n.pc = "choose" /\ n.new = TRUE /\ n.row = detRow[req[r].contact]
      /\ n.contact = req[r].contact /\ n.loaded = req[r].loaded
  OBVIOUS
<1> HIDE DEF n
<1>5. detRow[req[r].contact] \in Nat
  BY <1>2 DEF InsertOK, RowOK, ControlInv, TablesInv, Typed
<1>6. ChooseOK(n)
  <2>1. RowOK(n)
    BY <1>2, <1>4, <1>5 DEF InsertOK, RowOK
  <2>2. RowIsThere(n)
    BY <1>4 DEF RowIsThere
  <2>3. n.loaded.status = "absent"
    BY <1>2, <1>4 DEF InsertOK
  <2> QED
    BY <1>4, <2>1, <2>2, <2>3 DEF ChooseOK
<1>7. RequestOK(n)
  BY <1>4, <1>6 DEF RequestOK
<1> QED
  BY <1>1, <1>3, <1>7, QuietStep DEF Reporting, PC

LEMMA ChooseKeeps ==
  ASSUME ControlInv, NEW r \in Requests, Choose(r) PROVE ControlInv'
<1>1. PICK s \in Stations \cup {NoStation} : Goto(r, Assignment(r, s)) /\ UNCHANGED tables
  BY DEF Choose
<1> DEFINE q == req[r]
           n == Assignment(r, s)
           current == FoundTask(r)
<1>2. RequestOK(q) /\ q.pc = "choose"
  BY DEF ControlInv, RequestsInv, Choose, PC
<1>3. ChooseOK(q)
  BY <1>2 DEF RequestOK, Idle, IsLoad
<1>4. \A t \in current : /\ t \in TaskIds /\ taskStatus[t] # "none" /\ taskContact[t] = q.contact
                         /\ detRow[q.contact] = q.row
  BY DEF FoundTask, Tables!CurrentTask, Tables!ActiveTasks, Tables!Active, Tables!TaskIds, TaskIds
<1>5. /\ n.pc = "assign" /\ n.contact = q.contact /\ n.row = q.row /\ n.new = q.new
      /\ n.station = s
      /\ n.setsStatus = (q.loaded.status # (IF s = NoStation THEN "open" ELSE "assigned"))
      /\ n.setsStation \in BOOLEAN /\ n.opens \in BOOLEAN
      /\ n.opens => s # NoStation /\ n.expires = n.current
      /\ n.expires \subseteq current
  <2>1. Tables!PendingOf(current) \subseteq current
    BY DEF Tables!PendingOf
  <2> QED
    BY <2>1 DEF Assignment
<1> HIDE DEF n, current
<1>6. RowOK(n) /\ RowIsThere(n)
  BY <1>3, <1>5 DEF ChooseOK, RowOK, RowIsThere
<1>7. AssignOK(n)
  BY <1>3, <1>4, <1>5, <1>6 DEF ChooseOK, AssignOK
<1>8. RequestOK(n)
  BY <1>5, <1>7 DEF RequestOK
<1> QED
  BY <1>1, <1>2, <1>8, QuietStep DEF Goto, Reporting, PC, n

-----------------------------------------------------------------------------
(* The commits *)

LEMMA CommitAdvanceKeeps ==
  ASSUME ControlInv, NEW r \in Requests, CommitAdvance(r) PROVE ControlInv'
<1> DEFINE D == AdvancedTasks(r)
           n == req[r].then
<1>1. RequestOK(req[r]) /\ req[r].pc = "advance"
  BY DEF ControlInv, RequestsInv, CommitAdvance, PC
<1>2. AdvanceOK(req[r])
  BY <1>1 DEF RequestOK, Idle, IsLoad
<1>3. \A t \in D : t \in 1 .. lastTask /\ taskStatus[t] # "none" /\ "accepted_at" \in taskStamps[t]
  BY <1>2 DEF AdvanceOK, AdvancedTasks, CommitAdvance
<1>4. Typed /\ FreeIds /\ NoneUnstamped /\ RowsReferTo /\ StatusIsStamped
  BY DEF ControlInv, TablesInv
<1>5. /\ taskStatus' = [t \in TaskIds |-> IF t \in D THEN "completed" ELSE taskStatus[t]]
      /\ taskStamps' = [t \in TaskIds |-> IF t \in D THEN taskStamps[t] \cup {"completed_at"}
                                          ELSE taskStamps[t]]
      /\ due' = due \ D
      /\ req' = [req EXCEPT ![r] = n]
      /\ UNCHANGED <<detStation, taskContact, taskStation, lastTask, eligible, detRow>>
  BY DEF CommitAdvance, Goto
<1>6. /\ detStatus' \in [Contacts -> {"absent", "open", "assigned", "resolved"}]
      /\ \A c \in Contacts : detStatus[c] # "absent" => detStatus'[c] # "absent"
  BY <1>4 DEF CommitAdvance, Typed
<1> HIDE DEF D, n
<1>7. \A t \in 1 .. lastTask : t \in TaskIds
  BY <1>4, TablesAssumption DEF Typed, TaskIds
<1>8. TablesInv'
  <2>1. Typed'
    BY <1>4, <1>5, <1>6 DEF Typed
  <2>2. FreeIds' /\ NoneUnstamped'
    BY <1>3, <1>4, <1>5 DEF FreeIds, NoneUnstamped
  <2>3. RowsReferTo'
    BY <1>3, <1>4, <1>5, <1>6 DEF RowsReferTo
  <2>4. StatusIsStamped'
    BY <1>3, <1>4, <1>5 DEF StatusIsStamped
  <2> QED
    BY <2>1, <2>2, <2>3, <2>4 DEF TablesInv
<1>9. RowsKept
  <2>1. lastTask' \in Nat /\ lastTask <= lastTask'
    BY <1>4, <1>5, TablesAssumption DEF Typed
  <2>2. \A c \in Contacts : detRow'[c] \in Nat /\ detRow[c] <= detRow'[c]
    BY <1>4, <1>5 DEF Typed
  <2>3. \A t \in TaskIds : /\ taskStatus'[t] # "none" <=> taskStatus[t] # "none"
                           /\ taskStamps[t] \subseteq taskStamps'[t] /\ taskContact'[t] = taskContact[t]
    BY <1>3, <1>5
  <2> QED
    BY <1>6, <1>7, <2>1, <2>2, <2>3 DEF RowsKept
<1>10. RequestOK(n) /\ n.pc \notin {"insert", "choose", "assign"}
  BY <1>2, IdleOK DEF AdvanceOK, IsAfterAdvance, RequestOK, IsLoad, n
<1>11. Room'
  BY <1>5, <1>10, RoomStays
<1> QED
  BY <1>5, <1>8, <1>9, <1>10, <1>11, OneRequestSteps

LEMMA CommitDecisionKeeps ==
  ASSUME ControlInv, NEW r \in Requests, CommitDecision(r) PROVE ControlInv'
<1> DEFINE q == req[r]
           t == q.task
           c == taskContact[t]
           n == [pc |-> "refresh"]
<1>1. RequestOK(q) /\ q.pc = "decide"
  BY DEF ControlInv, RequestsInv, CommitDecision
<1>2. q.kind \in Decisions /\ t \in TaskIds
  BY <1>1 DEF RequestOK, Idle, IsLoad, DecideOK
<1>3. Typed /\ FreeIds /\ NoneUnstamped /\ RowsReferTo /\ StatusIsStamped
  BY DEF ControlInv, TablesInv
<1>4. /\ Decided(q.kind).task \in {"accepted", "rejected", "completed"}
      /\ Decided(q.kind).detection \in {"open", "assigned", "resolved"}
      /\ StampsSet(q.kind) \subseteq {"accepted_at", "rejected_at", "completed_at"}
      /\ Decided(q.kind).task = "accepted" => "accepted_at" \in StampsSet(q.kind)
      /\ Decided(q.kind).task = "rejected" => "rejected_at" \in StampsSet(q.kind)
      /\ Decided(q.kind).task = "completed" => {"accepted_at", "completed_at"} \subseteq StampsSet(q.kind)
  BY <1>2 DEF Decisions, Decided, StampsSet
<1>5. taskStatus[t] # "none" /\ c \in Contacts
  BY <1>2, <1>3 DEF CommitDecision, RowsReferTo
<1>6. /\ taskStatus' = [taskStatus EXCEPT ![t] = Decided(q.kind).task]
      /\ taskStamps' = [taskStamps EXCEPT ![t] = @ \cup StampsSet(q.kind)]
      /\ due' = due \ {t}
      /\ req' = [req EXCEPT ![r] = n]
      /\ UNCHANGED <<taskContact, taskStation, lastTask, eligible, detRow>>
  BY DEF CommitDecision, Goto
<1>7. /\ detStatus' \in [Contacts -> {"absent", "open", "assigned", "resolved"}]
      /\ \A d \in Contacts : detStatus[d] # "absent" => detStatus'[d] # "absent"
  BY <1>3, <1>4, <1>5 DEF CommitDecision, Typed
<1>8. detStation' \in [Contacts -> Stations \cup {NoStation}]
  BY <1>3, <1>5 DEF CommitDecision, Typed
<1>s. ASSUME NEW u \in TaskIds
      PROVE  /\ taskStatus'[u] = IF u = t THEN Decided(q.kind).task ELSE taskStatus[u]
             /\ taskStamps'[u] = IF u = t THEN taskStamps[u] \cup StampsSet(q.kind) ELSE taskStamps[u]
  BY <1>2, <1>3, <1>6 DEF Typed
<1> HIDE DEF q, t, n
<1>9. TablesInv'
  <2>1. Typed'
    BY <1>2, <1>3, <1>4, <1>6, <1>7, <1>8 DEF Typed
  <2>2. FreeIds' /\ NoneUnstamped'
    BY <1>3, <1>4, <1>5, <1>6, <1>s DEF FreeIds, NoneUnstamped
  <2>3. RowsReferTo'
    BY <1>3, <1>5, <1>6, <1>7, <1>s DEF RowsReferTo
  <2>4. StatusIsStamped'
    BY <1>3, <1>4, <1>s DEF StatusIsStamped
  <2> QED
    BY <2>1, <2>2, <2>3, <2>4 DEF TablesInv
<1>10. RowsKept
  <2>1. lastTask' \in Nat /\ lastTask <= lastTask'
    BY <1>3, <1>6, TablesAssumption DEF Typed
  <2>2. \A d \in Contacts : detRow'[d] \in Nat /\ detRow[d] <= detRow'[d]
    BY <1>3, <1>6 DEF Typed
  <2>3. \A u \in TaskIds : /\ taskStatus'[u] # "none" <=> taskStatus[u] # "none"
                           /\ taskStamps[u] \subseteq taskStamps'[u] /\ taskContact'[u] = taskContact[u]
    BY <1>4, <1>5, <1>6, <1>s
  <2>4. \A u \in 1 .. lastTask : u \in TaskIds
    BY <1>3, TablesAssumption DEF Typed, TaskIds
  <2> QED
    BY <1>7, <2>1, <2>2, <2>3, <2>4 DEF RowsKept
<1>11. RequestOK(n) /\ n.pc = "refresh"
  BY DEF RequestOK, n
<1>12. Room'
  BY <1>6, <1>11, RoomStays
<1> QED
  BY <1>6, <1>9, <1>10, <1>11, <1>12, OneRequestSteps

LEMMA CommitReportKeeps ==
  ASSUME ControlInv, NEW r \in Requests, CommitReport(r) PROVE ControlInv'
<1> DEFINE q == req[r]
           c == q.contact
           new == lastTask + 1
<1>1. RequestOK(q) /\ q.pc = "assign" /\ detRow[c] = q.row
  BY DEF ControlInv, RequestsInv, CommitReport
<1>2. AssignOK(q)
  BY <1>1 DEF RequestOK, Idle, IsLoad
<1>3. Typed /\ FreeIds /\ NoneUnstamped /\ RowsReferTo /\ StatusIsStamped
  BY DEF ControlInv, TablesInv
<1>4. /\ c \in Contacts /\ q.expires \subseteq TaskIds
      /\ \A t \in q.expires : taskStatus[t] # "none" /\ taskContact[t] = c
      /\ q.new => q.setsStatus
      /\ ~q.new => detStatus[c] # "absent"
      /\ q.opens => q.station \in Stations
      /\ q.station \in Stations \cup {NoStation}
  BY <1>1, <1>2 DEF AssignOK, RowOK, RowIsThere
<1>5. /\ lastTask \in Nat /\ MaxTasks \in Nat
      /\ Cardinality(InReport) \in Nat /\ Cardinality(InReport') \in Nat
      /\ Cardinality(InReport') = Cardinality(InReport) - 1
      /\ lastTask + Cardinality(InReport) <= MaxTasks
  <2>1. r \in InReport
    BY <1>1 DEF InReport, Reporting, PC
  <2>2. \A s \in Requests : req'[s] = IF s = r THEN Idle ELSE req[s]
    BY DEF ControlInv, RequestsInv, CommitReport, Finish, Goto
  <2>3. InReport' = InReport \ {r}
    BY <2>2, IdleOK DEF InReport, Reporting, PC
  <2>4. IsFiniteSet(InReport)
    BY FS_Subset, RequestsAssumption DEF InReport
  <2> QED
    BY <2>1, <2>3, <2>4, <1>3, FS_RemoveElement, FS_CardinalityType, TablesAssumption
    DEF ControlInv, Room, Typed
<1>6. new \in TaskIds /\ new > lastTask /\ new \in 1 .. MaxTasks
  BY <1>5 DEF TaskIds
<1>7. taskStatus[new] = "none" /\ taskStamps[new] = {} /\ new \notin q.expires
  BY <1>3, <1>4, <1>6 DEF FreeIds, NoneUnstamped
<1>8. /\ detStatus' \in [Contacts -> {"absent", "open", "assigned", "resolved"}]
      /\ \A d \in Contacts : detStatus[d] # "absent" => detStatus'[d] # "absent"
      /\ detStatus'[c] # "absent"
  <2>1. CASE q.setsStatus
    BY <1>3, <1>4, <2>1 DEF CommitReport, Typed
  <2>2. CASE ~q.setsStatus
    BY <1>3, <1>4, <2>2 DEF CommitReport, Typed
  <2> QED
    BY <2>1, <2>2
<1>9. detStation' \in [Contacts -> Stations \cup {NoStation}]
  BY <1>3, <1>4 DEF CommitReport, Typed
<1>10. due' \subseteq TaskIds /\ UNCHANGED <<taskStamps, eligible, detRow>>
       /\ req' = [req EXCEPT ![r] = Idle]
  BY <1>3 DEF CommitReport, Typed, Finish, Goto
<1>11. /\ taskStatus' \in [TaskIds -> {"none", "pending", "accepted", "rejected", "completed", "expired"}]
       /\ \A t \in TaskIds :
            taskStatus'[t] = IF q.opens /\ t = new THEN "pending"
                             ELSE IF t \in q.expires THEN "expired" ELSE taskStatus[t]
  <2> DEFINE left == [t \in TaskIds |-> IF t \in q.expires THEN "expired" ELSE taskStatus[t]]
  <2>1. Tables!Expire(q.expires) = left
    BY DEF Tables!Expire, Tables!TaskIds, TaskIds
  <2>2. left \in [TaskIds -> {"none", "pending", "accepted", "rejected", "completed", "expired"}]
    BY <1>3 DEF Typed
  <2>3. taskStatus' = IF q.opens THEN [left EXCEPT ![new] = "pending"] ELSE left
    BY <2>1 DEF CommitReport
  <2> HIDE DEF q, new
  <2> QED
    BY <2>2, <2>3
<1>12. /\ taskContact' \in [TaskIds -> Contacts \cup {NoContact}]
       /\ taskStation' \in [TaskIds -> Stations \cup {NoStation}]
       /\ \A t \in TaskIds :
            /\ taskContact'[t] = IF q.opens /\ t = new THEN c ELSE taskContact[t]
            /\ taskStation'[t] = IF q.opens /\ t = new THEN q.station ELSE taskStation[t]
  BY <1>3, <1>4, <1>6 DEF CommitReport, Typed
<1>13. lastTask' = IF q.opens THEN new ELSE lastTask
  BY DEF CommitReport
<1> HIDE DEF q, c, new
<1>14. lastTask' \in 0 .. MaxTasks /\ lastTask <= lastTask' /\ lastTask' <= new
  BY <1>3, <1>5, <1>6, <1>13 DEF Typed, new
<1>15. TablesInv'
  <2>1. Typed'
    BY <1>3, <1>8, <1>9, <1>10, <1>11, <1>12, <1>14 DEF Typed
  <2>2. FreeIds'
    <3>1. ASSUME NEW t \in TaskIds, t > lastTask' PROVE taskStatus'[t] = "none"
      <4>1. t > lastTask /\ ~(q.opens /\ t = new)
        BY <1>5, <1>13, <1>14, <3>1 DEF TaskIds
      <4>2. taskStatus[t] = "none" /\ t \notin q.expires
        BY <1>3, <1>4, <4>1 DEF FreeIds
      <4> QED
        BY <1>11, <4>1, <4>2
    <3> QED
      BY <3>1 DEF FreeIds
  <2>3. NoneUnstamped'
    BY <1>3, <1>10, <1>11 DEF NoneUnstamped
  <2>4. RowsReferTo'
    BY <1>3, <1>4, <1>8, <1>11, <1>12 DEF RowsReferTo
  <2>5. StatusIsStamped'
    BY <1>3, <1>7, <1>10, <1>11 DEF StatusIsStamped
  <2> QED
    BY <2>1, <2>2, <2>3, <2>4, <2>5 DEF TablesInv
<1>16. RowsKept
  <2>1. lastTask' \in Nat /\ lastTask <= lastTask'
    BY <1>14, TablesAssumption
  <2>2. \A d \in Contacts : detRow'[d] \in Nat /\ detRow[d] <= detRow'[d]
    BY <1>3, <1>10 DEF Typed
  <2>3. ASSUME NEW t \in 1 .. lastTask
        PROVE  taskStatus'[t] # "none" => taskStatus[t] # "none" /\ taskStamps[t] \subseteq taskStamps'[t]
    <3>1. t \in TaskIds /\ t # new
      BY <1>5, <1>6, TablesAssumption DEF TaskIds
    <3> QED
      BY <1>4, <1>10, <1>11, <3>1
  <2>4. ASSUME NEW t \in TaskIds, taskStatus[t] # "none"
        PROVE  taskStatus'[t] # "none" /\ taskContact'[t] = taskContact[t]
    BY <1>7, <1>11, <1>12, <2>4
  <2> QED
    BY <1>8, <2>1, <2>2, <2>3, <2>4 DEF RowsKept
<1>17. Room'
  <2>1. lastTask' <= lastTask + 1 /\ lastTask' \in Nat
    BY <1>14, TablesAssumption DEF new
  <2> QED
    BY <1>5, <2>1 DEF Room
<1> QED
  BY <1>10, <1>15, <1>16, <1>17, IdleOK, OneRequestSteps

LEMMA CommitDeleteKeeps ==
  ASSUME ControlInv, NEW r \in Requests, CommitDelete(r) PROVE ControlInv'
<1> DEFINE c == req[r].contact
           gone == {t \in TaskIds : taskStatus[t] # "none" /\ taskContact[t] = c}
<1>1. RequestOK(req[r]) /\ req[r].pc = "remove"
  BY DEF ControlInv, RequestsInv, CommitDelete, PC
<1>2. c \in Contacts
  BY <1>1 DEF RequestOK, Idle, IsLoad, RowOK
<1>3. Typed /\ FreeIds /\ NoneUnstamped /\ RowsReferTo /\ StatusIsStamped
  BY DEF ControlInv, TablesInv
<1>4. /\ detRow' = [detRow EXCEPT ![c] = @ + 1]
      /\ detStatus' = [detStatus EXCEPT ![c] = "absent"]
      /\ detStation' = [detStation EXCEPT ![c] = NoStation]
      /\ taskStatus' = [t \in TaskIds |-> IF t \in gone THEN "none" ELSE taskStatus[t]]
      /\ taskContact' = [t \in TaskIds |-> IF t \in gone THEN NoContact ELSE taskContact[t]]
      /\ taskStation' = [t \in TaskIds |-> IF t \in gone THEN NoStation ELSE taskStation[t]]
      /\ taskStamps' = [t \in TaskIds |-> IF t \in gone THEN {} ELSE taskStamps[t]]
      /\ due' = due \ gone
      /\ UNCHANGED <<lastTask, eligible>>
      /\ req' = [req EXCEPT ![r] = Idle]
  BY DEF CommitDelete, RemoveRows, Tables!Delete, Tables!TaskIds, TaskIds, Finish, Goto
<1>5. TablesInv'
  <2>1. Typed'
    BY <1>2, <1>3, <1>4 DEF Typed
  <2>2. FreeIds' /\ NoneUnstamped'
    BY <1>3, <1>4 DEF FreeIds, NoneUnstamped
  <2>3. RowsReferTo'
    BY <1>2, <1>3, <1>4 DEF RowsReferTo, Typed
  <2>4. StatusIsStamped'
    BY <1>3, <1>4 DEF StatusIsStamped
  <2> QED
    BY <2>1, <2>2, <2>3, <2>4 DEF TablesInv
<1>6. RowsKept
  <2>1. lastTask' \in Nat /\ lastTask <= lastTask'
    BY <1>3, <1>4, TablesAssumption DEF Typed
  <2>2. \A d \in Contacts : detRow'[d] = IF d = c THEN detRow[d] + 1 ELSE detRow[d]
    BY <1>3, <1>4 DEF Typed
  <2>3. \A d \in Contacts : detRow[d] \in Nat
    BY <1>3 DEF Typed
  <2>4. ASSUME NEW t \in 1 .. lastTask
        PROVE  taskStatus'[t] # "none" => taskStatus[t] # "none" /\ taskStamps[t] \subseteq taskStamps'[t]
    <3>1. t \in TaskIds
      BY <1>3, TablesAssumption DEF Typed, TaskIds
    <3> QED
      BY <1>4, <3>1
  <2>5. ASSUME NEW d \in Contacts, d # c
        PROVE  /\ detStatus'[d] = detStatus[d]
               /\ \A t \in TaskIds : taskStatus[t] # "none" /\ taskContact[t] = d =>
                                       taskStatus'[t] # "none" /\ taskContact'[t] = d
    BY <1>3, <1>4, <2>5 DEF Typed
  <2> QED
    <3>1. \A d \in Contacts : /\ detRow'[d] \in Nat /\ detRow[d] <= detRow'[d]
                              /\ detRow'[d] = detRow[d] => d # c
      BY <2>2, <2>3
    <3> QED
      BY <2>1, <2>4, <2>5, <3>1 DEF RowsKept
<1>7. Room'
  BY <1>4, IdleOK, RoomStays
<1> QED
  BY <1>4, <1>5, <1>6, <1>7, IdleOK, OneRequestSteps

(* A patch and the clock: no request changes.                              *)
LEMMA OtherTables ==
  ASSUME ControlInv, req' = req, Typed',
         UNCHANGED <<detStatus, taskStatus, taskContact, taskStation, taskStamps, lastTask, detRow>>
  PROVE  ControlInv'
<1>1. TablesInv'
  BY DEF ControlInv, TablesInv, FreeIds, NoneUnstamped, RowsReferTo, StatusIsStamped
<1>2. RowsKept
  <2>1. lastTask' \in Nat /\ lastTask <= lastTask'
    BY TablesAssumption DEF ControlInv, TablesInv, Typed
  <2>2. \A d \in Contacts : detRow'[d] \in Nat /\ detRow[d] <= detRow'[d]
    BY DEF ControlInv, TablesInv, Typed
  <2> QED
    BY <2>1, <2>2 DEF RowsKept
<1>3. \A q : RequestOK(q) => RequestOK(q)'
  BY <1>2, KeptRequest DEF ControlInv, TablesInv
<1>4. RequestsInv'
  BY <1>3 DEF ControlInv, RequestsInv
<1>5. Room'
  BY DEF ControlInv, Room, InReport, Reporting, PC
<1> QED
  BY <1>1, <1>4, <1>5 DEF ControlInv

LEMMA InitControl == Init => ControlInv
<1> SUFFICES ASSUME Init PROVE ControlInv
  OBVIOUS
<1> USE DEF Init, Tables!Init, Tables!TaskIds, TaskIds
<1>1. TablesInv
  BY TablesAssumption
  DEF TablesInv, Typed, FreeIds, NoneUnstamped, RowsReferTo, StatusIsStamped
<1>2. RequestsInv
  BY IdleOK DEF RequestsInv
<1>3. InReport = {}
  BY IdleOK DEF InReport, Reporting, PC
<1>4. Room
  BY <1>3, FS_EmptySet, TablesAssumption DEF Room
<1> QED
  BY <1>1, <1>2, <1>4 DEF ControlInv

LEMMA NextControl == ControlInv /\ [Next]_vars => ControlInv'
<1> SUFFICES ASSUME ControlInv, [Next]_vars PROVE ControlInv'
  OBVIOUS
<1>1. ASSUME NEW r \in Requests, Start(r) PROVE ControlInv'
  <2>1. ASSUME NEW s \in Stations, Patch(r, s) PROVE ControlInv'
    <3>1. /\ eligible' \subseteq Stations /\ due' = due /\ req' = req
          /\ UNCHANGED <<detStatus, detStation, taskStatus, taskContact, taskStation, taskStamps,
                         lastTask, detRow>>
      BY <2>1 DEF Patch, Tables!ChangeEligibility, Tables!detVars, Tables!taskVars,
                  ControlInv, TablesInv, Typed
    <3>2. Typed'
      BY <3>1 DEF ControlInv, TablesInv, Typed
    <3> QED
      BY <3>1, <3>2, OtherTables
  <2> QED
    BY <1>1, <2>1, StartKeeps, StartReportKeeps DEF Start, Decisions
<1>2. ASSUME NEW r \in Requests, Step(r) PROVE ControlInv'
  <2>1. CASE AbortAdvance(r) \/ RefuseTask(r) \/ AbortDecision(r) \/ DuplicateDetection(r)
             \/ AbortReport(r) \/ AbortDelete(r)
    BY <2>1, AbortKeeps
    DEF AbortAdvance, RefuseTask, AbortDecision, DuplicateDetection, AbortReport, AbortDelete
  <2> QED
    BY <1>2, <2>1, CommitAdvanceKeeps, LoadTaskKeeps, CommitDecisionKeeps, RefreshKeeps,
       InsertKeeps, ChooseKeeps, CommitReportKeeps, CommitDeleteKeeps
    DEF Step
<1>3. ASSUME NEW t \in TaskIds, Elapse(t) PROVE ControlInv'
  <2>1. /\ due' = due \cup {t} /\ eligible' = eligible /\ req' = req
        /\ UNCHANGED <<detStatus, detStation, taskStatus, taskContact, taskStation, taskStamps,
                       lastTask, detRow>>
    BY <1>3 DEF Elapse, Tables!Elapse, Tables!detVars, Tables!taskVars
  <2>2. Typed'
    BY <2>1 DEF ControlInv, TablesInv, Typed
  <2> QED
    BY <2>1, <2>2, OtherTables
<1>4. CASE UNCHANGED vars
  <2>1. UNCHANGED tables /\ req' = req
    BY <1>4 DEF vars
  <2>2. Typed'
    BY <2>1, StillTables DEF ControlInv, TablesInv
  <2> QED
    BY <2>1, <2>2, OtherTables DEF tables
<1> QED
  BY <1>1, <1>2, <1>3, <1>4 DEF Next

(* Whatever requests overlap, and however many: the tables keep their      *)
(* types, no id is given twice, rows refer to rows that are there, and     *)
(* what a request holds stays true as far as nobody checks it again.       *)
THEOREM ControlInvariance == Spec => []ControlInv
BY InitControl, NextControl, PTL DEF Spec

(* Whatever overlaps, no task row outlives its detection: the number of    *)
(* the row and the foreign key make the report or the deletion fail.       *)
THEOREM OverlapLeavesNoOrphan == Spec => []NoOrphanTask
<1>1. ControlInv => NoOrphanTask
  BY DEF ControlInv, TablesInv, RowsReferTo, NoOrphanTask, Tables!NoOrphanTask, Tables!TaskIds, TaskIds
<1> QED
  BY <1>1, ControlInvariance, PTL

(* Whatever overlaps, the status of a task is stamped.                     *)
THEOREM OverlapKeepsStamps == Spec => []StatusIsStamped
<1>1. ControlInv => StatusIsStamped
  BY DEF ControlInv, TablesInv
<1> QED
  BY <1>1, ControlInvariance, PTL

-----------------------------------------------------------------------------
(* Two tasks in force *)

(* A contact that gains no task in force does not come to have two.         *)
LEMMA NoneGained ==
  ASSUME NEW c, Tables!ActiveTasks(c)' \subseteq Tables!ActiveTasks(c)
  PROVE  ~TwoInForce(c) => ~TwoInForce(c)'
BY DEF TwoInForce

LEMMA ActiveAre ==
  \A c, t : t \in Tables!ActiveTasks(c) <=>
            t \in TaskIds /\ taskStatus[t] \in {"pending", "accepted"} /\ taskContact[t] = c
BY DEF Tables!ActiveTasks, Tables!Active, Tables!TaskIds, TaskIds

LEMMA ActiveAfter ==
  \A c, t : t \in Tables!ActiveTasks(c)' <=>
            t \in TaskIds /\ taskStatus'[t] \in {"pending", "accepted"} /\ taskContact'[t] = c
BY DEF Tables!ActiveTasks, Tables!Active, Tables!TaskIds, TaskIds

(* Of a contact with one task in force, that is the current one.            *)
LEMMA OnlyOneIsCurrent ==
  ASSUME NEW c, ~TwoInForce(c) PROVE Tables!CurrentTask(c) = Tables!ActiveTasks(c)
<1>1. \A t \in Tables!ActiveTasks(c) : t \in Nat
  BY ActiveAre, TablesAssumption DEF TaskIds
<1> QED
  BY <1>1 DEF TwoInForce, Tables!CurrentTask

LEMMA DecisionDuplicates ==
  ASSUME ControlInv, NEW r \in Requests, CommitDecision(r), NEW c \in Contacts,
         ~TwoInForce(c), TwoInForce(c)'
  PROVE  req'[r] # req[r] /\ RevivesTask(r, c)
<1> DEFINE q == req[r]
           t == q.task
<1>1. RequestOK(q) /\ q.pc = "decide" /\ Typed
  BY DEF ControlInv, RequestsInv, CommitDecision, TablesInv
<1>2. q.kind \in Decisions /\ t \in TaskIds
  BY <1>1 DEF RequestOK, Idle, IsLoad, DecideOK
<1>3. /\ taskContact' = taskContact
      /\ \A u \in TaskIds : taskStatus'[u] = IF u = t THEN Decided(q.kind).task ELSE taskStatus[u]
  BY <1>1, <1>2 DEF CommitDecision, Typed
<1>4. req'[r].pc = "refresh"
  BY DEF CommitDecision, Goto, ControlInv, RequestsInv
<1>5. PICK u \in Tables!ActiveTasks(c)' : u \notin Tables!ActiveTasks(c)
  BY NoneGained
<1>6. u = t /\ Decided(q.kind).task \in {"pending", "accepted"} /\ taskContact[t] = c
  BY <1>3, <1>5, ActiveAre, ActiveAfter
<1>7. q.kind = "accept"
  BY <1>2, <1>6 DEF Decided, Decisions
<1> QED
  BY <1>1, <1>4, <1>5, <1>6, <1>7 DEF RevivesTask, PC

LEMMA ReportDuplicates ==
  ASSUME ControlInv, NEW r \in Requests, CommitReport(r), NEW c \in Contacts,
         ~TwoInForce(c), TwoInForce(c)'
  PROVE  req'[r] # req[r] /\ MissesTask(r, c)
<1> DEFINE q == req[r]
           new == lastTask + 1
<1>1. RequestOK(q) /\ q.pc = "assign" /\ Typed /\ FreeIds /\ q.contact \in Contacts
  BY DEF ControlInv, RequestsInv, CommitReport, TablesInv, RequestOK, Idle, IsLoad, AssignOK, RowOK
<1>2. AssignOK(q)
  BY <1>1 DEF RequestOK, Idle, IsLoad
<1>3. req'[r] = Idle
  BY DEF CommitReport, Finish, Goto, ControlInv, RequestsInv
<1>4. /\ \A t \in TaskIds :
           taskStatus'[t] \in {"pending", "accepted"} =>
             (q.opens /\ t = new) \/ (t \notin q.expires /\ taskStatus'[t] = taskStatus[t])
      /\ \A t \in TaskIds : taskContact'[t] = IF q.opens /\ t = new THEN q.contact ELSE taskContact[t]
  <2> DEFINE left == [t \in TaskIds |-> IF t \in q.expires THEN "expired" ELSE taskStatus[t]]
  <2>1. Tables!Expire(q.expires) = left
    BY DEF Tables!Expire, Tables!TaskIds, TaskIds
  <2>2. taskStatus' = IF q.opens THEN [left EXCEPT ![new] = "pending"] ELSE left
    BY <2>1 DEF CommitReport
  <2>3. taskContact' = IF q.opens THEN [taskContact EXCEPT ![new] = q.contact] ELSE taskContact
    BY DEF CommitReport
  <2> HIDE DEF q, new
  <2> QED
    BY <1>1, <2>2, <2>3 DEF Typed
<1>5. \A t \in Tables!ActiveTasks(c)' :
        (q.opens /\ t = new /\ q.contact = c) \/ (t \in Tables!ActiveTasks(c) /\ t \notin q.expires)
  BY <1>4, ActiveAre, ActiveAfter
<1>6. q.opens /\ q.contact = c
  BY <1>5, NoneGained
<1>7. q.expires # Tables!CurrentTask(c)
  BY <1>5, OnlyOneIsCurrent DEF TwoInForce
<1>8. q.expires = q.current
  BY <1>2, <1>6 DEF AssignOK
<1> QED
  BY <1>1, <1>3, <1>6, <1>7, <1>8 DEF MissesTask, PC, Idle

LEMMA OthersGainNone ==
  ASSUME ControlInv, NEW c \in Contacts,
         \A t \in TaskIds : taskStatus'[t] \in {"pending", "accepted"} =>
           taskStatus'[t] = taskStatus[t] /\ taskContact'[t] = taskContact[t]
  PROVE  ~TwoInForce(c) => ~TwoInForce(c)'
<1>1. Tables!ActiveTasks(c)' \subseteq Tables!ActiveTasks(c)
  BY ActiveAre, ActiveAfter
<1> QED
  BY <1>1, NoneGained

LEMMA DuplicatesStep ==
  ASSUME ControlInv, [Next]_vars, NEW c \in Contacts, ~TwoInForce(c), TwoInForce(c)'
  PROVE  \E r \in Requests : req'[r] # req[r] /\ (MissesTask(r, c) \/ RevivesTask(r, c))
<1> DEFINE Quiet == \A t \in TaskIds : taskStatus'[t] \in {"pending", "accepted"} =>
                      taskStatus'[t] = taskStatus[t] /\ taskContact'[t] = taskContact[t]
<1>1. ~Quiet
  BY OthersGainNone
<1>2. ASSUME UNCHANGED <<taskStatus, taskContact>> PROVE FALSE
  BY <1>1, <1>2
<1>3. ASSUME NEW r \in Requests, CommitAdvance(r) PROVE FALSE
  <2>1. \A t \in TaskIds : taskStatus'[t] = IF t \in AdvancedTasks(r) THEN "completed" ELSE taskStatus[t]
    BY <1>3 DEF CommitAdvance
  <2>2. taskContact' = taskContact
    BY <1>3 DEF CommitAdvance
  <2> QED
    BY <1>1, <2>1, <2>2
<1>4. ASSUME NEW r \in Requests, CommitDelete(r) PROVE FALSE
  <2> DEFINE gone == {t \in TaskIds : taskStatus[t] # "none" /\ taskContact[t] = req[r].contact}
  <2>1. /\ taskStatus' = [t \in TaskIds |-> IF t \in gone THEN "none" ELSE taskStatus[t]]
        /\ taskContact' = [t \in TaskIds |-> IF t \in gone THEN NoContact ELSE taskContact[t]]
    BY <1>4 DEF CommitDelete, RemoveRows, Tables!Delete, Tables!TaskIds, TaskIds
  <2> QED
    BY <1>1, <2>1
<1>5. ASSUME NEW r \in Requests, Start(r) PROVE FALSE
  <2>1. UNCHANGED <<taskStatus, taskContact>>
    BY <1>5
    DEF Start, StartPoll, StartDecision, StartReport, StartDelete, Patch, ReadFlown, tables,
        Tables!ChangeEligibility, Tables!detVars, Tables!taskVars
  <2> QED
    BY <1>2, <2>1
<1>6. ASSUME NEW r \in Requests, Step(r)
      PROVE  CommitDecision(r) \/ CommitReport(r)
  <2>1. ASSUME UNCHANGED tables PROVE FALSE
    BY <1>2, <2>1 DEF tables
  <2> QED
    BY <1>3, <1>4, <1>6, <2>1
    DEF Step, AbortAdvance, LoadTask, RefuseTask, AbortDecision, Refresh, ReadFlown,
        InsertDetection, DuplicateDetection, Choose, AbortReport, AbortDelete, Abort
<1>7. ASSUME NEW t \in TaskIds, Elapse(t) PROVE FALSE
  BY <1>2, <1>7 DEF Elapse, Tables!Elapse, Tables!detVars, Tables!taskVars
<1>8. ASSUME UNCHANGED vars PROVE FALSE
  BY <1>2, <1>8 DEF vars, tables
<1>9. PICK r \in Requests : CommitDecision(r) \/ CommitReport(r)
  BY <1>5, <1>6, <1>7, <1>8 DEF Next
<1> QED
  BY <1>9, DecisionDuplicates, ReportDuplicates

(* Whatever overlaps: a target comes to have two tasks in force only by a   *)
(* report or an acceptance that decides on what another request has changed *)
(* since it was read (ingest_recon_contact, accept_task).                   *)
THEOREM DuplicatesComeFromOverlaps == Spec => DuplicatesOnlyByOverlap
<1> DEFINE Only == \A c \in Contacts :
                     ~TwoInForce(c) /\ TwoInForce(c)' =>
                       \E r \in Requests :
                         req'[r] # req[r] /\ (MissesTask(r, c) \/ RevivesTask(r, c))
<1>1. ControlInv /\ [Next]_vars => [Only]_vars
  BY DuplicatesStep
<1>2. DuplicatesOnlyByOverlap <=> [][Only]_vars
  BY DEF DuplicatesOnlyByOverlap
<1> QED
  BY <1>1, <1>2, ControlInvariance, PTL DEF Spec

-----------------------------------------------------------------------------
(* One request at a time *)

(* The proofs about InterceptTasks, over these tables.                     *)
One == INSTANCE InterceptTasksProofs
  WITH Contacts <- Contacts, Stations <- Stations, NoStation <- NoStation,
       NoContact <- NoContact, Admin <- Admin, MaxTasks <- MaxTasks,
       MaxDistance <- MaxDistance,
       detStatus <- detStatus, detStation <- detStation,
       taskStatus <- taskStatus, taskContact <- taskContact,
       taskStation <- taskStation, taskStamps <- taskStamps,
       lastTask <- lastTask, due <- due, eligible <- eligible

(* One and Tables instantiate the same module: what they name is the same. *)
LEMMA SameSets ==
  /\ Tables!TaskIds = TaskIds /\ One!TaskIds = TaskIds
  /\ Tables!Timestamps = One!Timestamps
BY DEF Tables!TaskIds, TaskIds, One!TaskIds, Tables!Timestamps, One!Timestamps

LEMMA SameActive == \A c : Tables!ActiveTasks(c) = One!ActiveTasks(c)
BY SameSets DEF Tables!ActiveTasks, One!ActiveTasks, Tables!Active, One!Active

LEMMA SameCurrent == \A c : Tables!CurrentTask(c) = One!CurrentTask(c)
BY SameActive DEF Tables!CurrentTask, One!CurrentTask

LEMMA SameExpire == \A S : Tables!Expire(S) = One!Expire(S) /\ Tables!PendingOf(S) = One!PendingOf(S)
BY SameSets DEF Tables!Expire, One!Expire, Tables!PendingOf, One!PendingOf

LEMMA SameCardinality == \A S : Tables!Cardinality(S) = One!Cardinality(S)
BY DEF Tables!Cardinality, One!Cardinality

LEMMA SameCount == \A s : Tables!OpenTaskCount(s) = One!OpenTaskCount(s)
BY SameSets, SameCardinality
DEF Tables!OpenTaskCount, One!OpenTaskCount, Tables!Active, One!Active

LEMMA SameNearest == \A s, distance : Tables!Nearest(s, distance) <=> One!Nearest(s, distance)
BY SameCount DEF Tables!Nearest, One!Nearest, Tables!Precedes, One!Precedes

LEMMA SameReport == \A c : Tables!Report(c) <=> One!Report(c)
<1>1. \A S, c : /\ Tables!Retarget(c, S) <=> One!Retarget(c, S)
                /\ \A s : Tables!Assign(c, s) <=> One!Assign(c, s)
  BY SameActive DEF Tables!Retarget, One!Retarget, Tables!Assign, One!Assign
<1>2. \A c : Tables!ReportUnassigned(c) <=> One!ReportUnassigned(c)
  BY <1>1, SameCurrent, SameExpire DEF Tables!ReportUnassigned, One!ReportUnassigned
<1>3. \A c, s : Tables!ReportReused(c, s) <=> One!ReportReused(c, s)
  BY <1>1, SameCurrent
  DEF Tables!ReportReused, One!ReportReused, Tables!taskVars, One!taskVars
<1>4. \A c, s : Tables!ReportReassigned(c, s) <=> One!ReportReassigned(c, s)
  BY <1>1, SameCurrent, SameExpire
  DEF Tables!ReportReassigned, One!ReportReassigned, Tables!ExpireAndInsert, One!ExpireAndInsert
<1> QED
  BY <1>2, <1>3, <1>4, SameNearest DEF Tables!Report, One!Report

LEMMA SameDecisions ==
  \A t, actor : /\ Tables!Accept(t, actor) <=> One!Accept(t, actor)
                /\ Tables!Reject(t, actor) <=> One!Reject(t, actor)
                /\ Tables!Complete(t, actor) <=> One!Complete(t, actor)
BY DEF Tables!Accept, One!Accept, Tables!Reject, One!Reject, Tables!Complete, One!Complete,
       Tables!MayActOn, One!MayActOn, Tables!Active, One!Active

LEMMA SameOthers ==
  /\ \A c : Tables!Delete(c) <=> One!Delete(c)
  /\ \A t : Tables!Elapse(t) <=> One!Elapse(t)
  /\ \A D : Tables!Advance(D) <=> One!Advance(D)
  /\ \A s : Tables!ChangeEligibility(s) <=> One!ChangeEligibility(s)
<1> USE DEF Tables!detVars, One!detVars, Tables!taskVars, One!taskVars
<1>1. \A c : Tables!Delete(c) <=> One!Delete(c)
  BY SameSets DEF Tables!Delete, One!Delete
<1>2. \A t : Tables!Elapse(t) <=> One!Elapse(t)
  BY DEF Tables!Elapse, One!Elapse
<1>3. \A D : Tables!Advance(D) <=> One!Advance(D)
  BY SameSets DEF Tables!Advance, One!Advance
<1>4. \A s : Tables!ChangeEligibility(s) <=> One!ChangeEligibility(s)
  BY DEF Tables!ChangeEligibility, One!ChangeEligibility
<1> QED
  BY <1>1, <1>2, <1>3, <1>4

LEMMA SameNext == [Tables!Next]_Tables!vars <=> [One!Next]_One!vars
<1>1. Tables!vars = One!vars /\ Tables!vars' = One!vars'
  BY DEF Tables!vars, One!vars, Tables!detVars, One!detVars, Tables!taskVars, One!taskVars
<1> QED
  BY <1>1, SameSets, SameReport, SameDecisions, SameOthers DEF Tables!Next, One!Next

(* What the only request has read is still so when it commits: the tasks   *)
(* it advances are due, the columns it writes are those that differ, the   *)
(* task it found is the one in force, and the rows it deletes are there.   *)
AdvanceCurrent(q) ==
  /\ q.bundles # {}
  /\ \A b \in q.bundles : b.task \in due /\ ~b.resolved

DecideCurrent(q) ==
  LET c == taskContact[q.task] IN
  /\ taskStatus[q.task] \in Admissible(q.kind)
  /\ q.setsStatus = (detStatus[c] # Decided(q.kind).detection)
  /\ q.setsStation = (q.kind = "reject" /\ detStation[c] # NoStation)

LoadedCurrent(q) == q.row = detRow[q.contact] /\ q.loaded = Loaded(q.contact)

HasNearest(s) == \E distance \in [Stations -> 0 .. MaxDistance] : Tables!Nearest(s, distance)

AssignCurrent(q) ==
  LET current == Tables!CurrentTask(q.contact)
      elsewhere == {t \in current : taskStation[t] # q.station}
      none == q.station = NoStation
  IN
  /\ IF none THEN eligible = {} ELSE HasNearest(q.station)
  /\ q.setsStatus = (detStatus[q.contact] # (IF none THEN "open" ELSE "assigned"))
  /\ q.setsStation = (detStation[q.contact] # q.station)
  /\ q.expires = IF none THEN Tables!PendingOf(current) ELSE elsewhere
  /\ q.opens = (~none /\ current = elsewhere)

RemoveCurrent(q) == detStatus[q.contact] # "absent"

Current(q) ==
  /\ q.pc = "advance" => AdvanceCurrent(q)
  /\ q.pc = "decide" => DecideCurrent(q)
  /\ q.pc \in {"insert", "choose"} => LoadedCurrent(q)
  /\ q.pc = "assign" => AssignCurrent(q)
  /\ q.pc = "remove" => RemoveCurrent(q)

AllCurrent == \A r \in Requests : Current(req[r])

OneInv == ControlInv /\ One!IInv /\ AllCurrent

(* The clock aside, only a commit makes what was read stale.               *)
LEMMA StillCurrent ==
  ASSUME NEW q, Current(q), due \subseteq due',
         UNCHANGED <<detStatus, detStation, taskStatus, taskContact, taskStation, eligible, detRow>>
  PROVE  Current(q)'
<1>1. q.pc = "advance" => AdvanceCurrent(q)'
  BY DEF Current, AdvanceCurrent
<1>2. q.pc = "decide" => DecideCurrent(q)'
  BY DEF Current, DecideCurrent
<1>3. q.pc \in {"insert", "choose"} => LoadedCurrent(q)'
  BY DEF Current, LoadedCurrent, Loaded
<1>4. \A t : Tables!Active(t)' <=> Tables!Active(t)
  BY DEF Tables!Active
<1>5. /\ \A c : Tables!CurrentTask(c)' = Tables!CurrentTask(c)
      /\ \A T : Tables!PendingOf(T)' = Tables!PendingOf(T)
  BY <1>4, SameSets DEF Tables!CurrentTask, Tables!ActiveTasks, Tables!PendingOf
<1>6. \A s : Tables!OpenTaskCount(s)' = Tables!OpenTaskCount(s)
  BY <1>4, SameSets DEF Tables!OpenTaskCount
<1>7. \A s : HasNearest(s)' <=> HasNearest(s)
  BY <1>6 DEF HasNearest, Tables!Nearest, Tables!Precedes
<1>8. q.pc = "assign" => AssignCurrent(q)'
  BY <1>5, <1>7 DEF Current, AssignCurrent
<1>9. q.pc = "remove" => RemoveCurrent(q)'
  BY DEF Current, RemoveCurrent
<1> QED
  BY <1>1, <1>2, <1>3, <1>8, <1>9 DEF Current

(* A step that only reads.                                                *)
LEMMA ReadsCurrent ==
  ASSUME ControlInv, AllCurrent, NEW r \in Requests, NEW n, req' = [req EXCEPT ![r] = n],
         Current(n), UNCHANGED tables
  PROVE  AllCurrent'
<1>1. due' = due
      /\ UNCHANGED <<detStatus, detStation, taskStatus, taskContact, taskStation, eligible, detRow>>
  BY DEF tables
<1>2. ASSUME NEW s \in Requests PROVE Current(req[s])'
  <2>1. req'[s] = IF s = r THEN n ELSE req[s]
    BY DEF ControlInv, RequestsInv
  <2>2. Current(req'[s])
    BY <2>1 DEF AllCurrent
  <2>3. \A q : Current(q) => Current(q)'
    BY <1>1, StillCurrent
  <2> QED
    BY <2>2, <2>3
<1> QED
  BY <1>2 DEF AllCurrent

LEMMA NothingRead == ASSUME NEW q, q.pc \in {"idle", "load", "refresh"} PROVE Current(q)
BY DEF Current

LEMMA ReadFlownCurrent ==
  ASSUME OneInv, NEW r \in Requests, NEW then, then.pc \in {"idle", "load"}, ReadFlown(r, then)
  PROVE  AllCurrent'
<1>t. UNCHANGED tables /\ ControlInv /\ AllCurrent
  BY DEF ReadFlown, OneInv
<1>1. CASE Flown = {} /\ Goto(r, then)
  <2>1. Current(then)
    BY NothingRead
  <2> QED
    BY <1>t, <1>1, <2>1, ReadsCurrent DEF Goto
<1>2. CASE Flown # {} /\ Goto(r, [pc |-> "advance", then |-> then, bundles |-> {Bundle(t) : t \in Flown}])
  <2> DEFINE n == [pc |-> "advance", then |-> then, bundles |-> {Bundle(t) : t \in Flown}]
  <2>1. ASSUME NEW t \in Flown PROVE Bundle(t).task \in due /\ ~Bundle(t).resolved
    <3>1. t \in One!TaskIds /\ One!Active(t) /\ t \in due
      BY SameSets DEF Flown, One!Active
    <3>2. One!TaskMatchesDetection(t)
      BY <3>1 DEF OneInv, One!IInv, One!Consistent, One!TablesAgree
    <3> QED
      BY <3>1, <3>2 DEF One!TaskMatchesDetection, Bundle
  <2>2. Current(n)
    BY <1>2, <2>1 DEF Current, AdvanceCurrent
  <2> HIDE DEF n
  <2> QED
    BY <1>t, <1>2, <2>2, ReadsCurrent DEF Goto, n
<1> QED
  BY <1>1, <1>2 DEF ReadFlown

LEMMA StartCurrent ==
  ASSUME OneInv, NEW r \in Requests,
         \/ StartPoll(r)
         \/ \E kind \in Decisions, t \in TaskIds, actor \in Stations \cup {Admin} :
              StartDecision(r, kind, t, actor)
         \/ \E c \in Contacts : StartReport(r, c) \/ StartDelete(r, c)
  PROVE  AllCurrent'
<1>i. Idle.pc = "idle"
  BY DEF Idle
<1>1. CASE StartPoll(r)
  BY <1>1, <1>i, ReadFlownCurrent DEF StartPoll
<1>2. ASSUME NEW kind, NEW t, NEW actor, StartDecision(r, kind, t, actor) PROVE AllCurrent'
  BY <1>2, ReadFlownCurrent DEF StartDecision
<1>3. ASSUME NEW c \in Contacts, StartReport(r, c) PROVE AllCurrent'
  <2> DEFINE n == [pc |-> IF detStatus[c] = "absent" THEN "insert" ELSE "choose",
                   contact |-> c, row |-> detRow[c], new |-> FALSE, loaded |-> Loaded(c)]
  <2>1. Current(n)
    BY DEF Current, LoadedCurrent
  <2> HIDE DEF n
  <2> QED
    BY <1>3, <2>1, ReadsCurrent DEF StartReport, Goto, n, OneInv
<1>4. ASSUME NEW c \in Contacts, StartDelete(r, c) PROVE AllCurrent'
  <2> DEFINE n == [pc |-> "remove", contact |-> c, row |-> detRow[c], tasks |-> TasksOf(c)]
  <2>1. Current(n)
    BY <1>4 DEF Current, RemoveCurrent, StartDelete
  <2> HIDE DEF n
  <2> QED
    BY <1>4, <2>1, ReadsCurrent DEF StartDelete, Goto, n, OneInv
<1> QED
  BY <1>1, <1>2, <1>3, <1>4

LEMMA AbortCurrent ==
  ASSUME OneInv, NEW r \in Requests, Abort(r) PROVE AllCurrent'
<1>1. Current(Idle)
  BY NothingRead DEF Idle
<1> QED
  BY <1>1, ReadsCurrent DEF Abort, Finish, Goto, OneInv

LEMMA LoadTaskCurrent ==
  ASSUME OneInv, NEW r \in Requests, LoadTask(r) PROVE AllCurrent'
<1> DEFINE t == req[r].task
           kind == req[r].kind
           c == taskContact[t]
           n == [pc |-> "decide", kind |-> kind, task |-> t,
                 setsStatus |-> detStatus[c] # Decided(kind).detection,
                 setsStation |-> kind = "reject" /\ detStation[c] # NoStation]
<1>1. Current(n)
  BY DEF Current, DecideCurrent, LoadTask
<1>2. req' = [req EXCEPT ![r] = n] /\ UNCHANGED tables
  BY DEF LoadTask, Goto
<1> HIDE DEF n
<1> QED
  BY <1>1, <1>2, ReadsCurrent DEF OneInv

LEMMA InsertCurrent ==
  ASSUME OneInv, NEW r \in Requests, InsertDetection(r) PROVE AllCurrent'
<1> DEFINE q == req[r]
           n == [q EXCEPT !.pc = "choose", !.new = TRUE, !.row = detRow[q.contact]]
<1>1. q.pc = "insert" /\ InsertOK(q) /\ LoadedCurrent(q)
  BY DEF OneInv, ControlInv, RequestsInv, RequestOK, Idle, IsLoad, AllCurrent, Current, InsertDetection, PC
<1>2. n.pc = "choose" /\ n.contact = q.contact /\ n.row = detRow[q.contact] /\ n.loaded = q.loaded
  OBVIOUS
<1>3. Current(n)
  BY <1>1, <1>2 DEF Current, LoadedCurrent
<1>4. req' = [req EXCEPT ![r] = n] /\ UNCHANGED tables
  BY DEF InsertDetection, Goto
<1> HIDE DEF n
<1> QED
  BY <1>3, <1>4, ReadsCurrent DEF OneInv

LEMMA ChooseCurrent ==
  ASSUME OneInv, NEW r \in Requests, Choose(r) PROVE AllCurrent'
<1> DEFINE q == req[r]
<1>1. LoadedCurrent(q) /\ UNCHANGED tables
  BY DEF OneInv, AllCurrent, Current, Choose, PC
<1>2. ASSUME NEW s, IF s = NoStation THEN eligible = {} ELSE HasNearest(s),
             req' = [req EXCEPT ![r] = Assignment(r, s)]
      PROVE  AllCurrent'
  <2> DEFINE n == Assignment(r, s)
             current == Tables!CurrentTask(q.contact)
             elsewhere == {t \in current : taskStation[t] # s}
  <2>1. q.row = detRow[q.contact] /\ q.loaded.status = detStatus[q.contact]
        /\ q.loaded.station = detStation[q.contact]
    BY <1>1 DEF LoadedCurrent, Loaded
  <2>2. /\ n.pc = "assign" /\ n.contact = q.contact /\ n.station = s
        /\ n.setsStatus = (detStatus[q.contact] # (IF s = NoStation THEN "open" ELSE "assigned"))
        /\ n.setsStation = (detStation[q.contact] # s)
        /\ n.expires = IF s = NoStation THEN Tables!PendingOf(current) ELSE elsewhere
        /\ n.opens = (s # NoStation /\ current = elsewhere)
    BY <2>1 DEF Assignment, FoundTask
  <2> HIDE DEF n
  <2>3. Current(n)
    BY <1>2, <2>2 DEF Current, AssignCurrent
  <2> QED
    BY <1>1, <1>2, <2>3, ReadsCurrent DEF n, OneInv
<1>3. CASE eligible = {} /\ Goto(r, Assignment(r, NoStation))
  BY <1>2, <1>3 DEF Goto
<1>4. ASSUME NEW s \in Stations, HasNearest(s), Goto(r, Assignment(r, s)) PROVE AllCurrent'
  BY <1>2, <1>4, TablesAssumption DEF Goto
<1> QED
  BY <1>3, <1>4 DEF Choose, HasNearest

(* The commits, each a transaction of InterceptTasks.                      *)
LEMMA CommitAdvanceImplements ==
  ASSUME OneInv, NEW r \in Requests, CommitAdvance(r)
  PROVE  \E D \in SUBSET due : Tables!Advance(D)
<1> DEFINE q == req[r]
           D == AdvancedTasks(r)
<1>1. q.bundles # {} /\ \A b \in q.bundles : b.task \in due /\ ~b.resolved
  BY DEF OneInv, AllCurrent, Current, AdvanceCurrent, CommitAdvance, PC
<1>2. D # {} /\ D \subseteq due
  BY <1>1 DEF AdvancedTasks
<1>3. \A c \in Contacts : c \in AdvancedContacts(r) <=> \E t \in D : taskContact[t] = c
  BY <1>1 DEF AdvancedContacts, AdvancedTasks
<1>4. detStatus' = [c \in Contacts |-> IF \E t \in D : taskContact[t] = c THEN "resolved"
                                       ELSE detStatus[c]]
  BY <1>3 DEF CommitAdvance
<1>5. Tables!Advance(D)
  BY <1>2, <1>4, SameSets DEF CommitAdvance, Tables!Advance
<1> QED
  BY <1>2, <1>5

LEMMA CommitDecisionImplements ==
  ASSUME OneInv, NEW r \in Requests, CommitDecision(r)
  PROVE  \E t \in TaskIds : Tables!Accept(t, Admin) \/ Tables!Reject(t, Admin) \/ Tables!Complete(t, Admin)
<1> DEFINE q == req[r]
           t == q.task
           c == taskContact[t]
<1>1. RequestOK(q) /\ q.pc = "decide" /\ Typed
  BY DEF OneInv, ControlInv, TablesInv, RequestsInv, CommitDecision
<1>2. q.kind \in Decisions /\ t \in TaskIds
  BY <1>1 DEF RequestOK, Idle, IsLoad, DecideOK
<1>3. DecideCurrent(q)
  BY <1>1 DEF OneInv, AllCurrent, Current
<1>4. /\ taskStatus' = [taskStatus EXCEPT ![t] = Decided(q.kind).task]
      /\ taskStamps' = [taskStamps EXCEPT ![t] = @ \cup StampsSet(q.kind)]
      /\ due' = due \ {t}
      /\ UNCHANGED <<taskContact, taskStation, lastTask, eligible>>
  BY DEF CommitDecision
<1>5. detStatus' = [detStatus EXCEPT ![c] = Decided(q.kind).detection]
  BY <1>1, <1>3 DEF CommitDecision, DecideCurrent, Typed
<1>6. detStation' = IF q.kind = "reject" THEN [detStation EXCEPT ![c] = NoStation] ELSE detStation
  BY ZenonT(40), <1>1, <1>3 DEF CommitDecision, DecideCurrent, Typed
<1>7. Tables!MayActOn(Admin, t) /\ taskStatus[t] \in Admissible(q.kind)
  BY <1>3 DEF Tables!MayActOn, DecideCurrent
<1> HIDE DEF q, t, c
<1>8. CASE q.kind = "accept"
  <2>1. Decided(q.kind) = [task |-> "accepted", detection |-> "assigned"]
        /\ StampsSet(q.kind) = {"accepted_at"} /\ taskStatus[t] = "pending"
    BY <1>7, <1>8 DEF Decided, StampsSet, Admissible
  <2>2. t \notin due
    BY <2>1 DEF OneInv, One!IInv, One!Consistent, One!DueIsAccepted
  <2>3. /\ taskStatus' = [taskStatus EXCEPT ![t] = "accepted"]
        /\ taskStamps' = [taskStamps EXCEPT ![t] = @ \cup {"accepted_at"}]
        /\ detStatus' = [detStatus EXCEPT ![taskContact[t]] = "assigned"]
    BY <1>4, <1>5, <2>1 DEF c
  <2>4. detStation' = detStation /\ due' = due
    BY <1>4, <1>6, <1>8, <2>2
  <2>5. Tables!Accept(t, Admin)
    BY <1>4, <1>7, <2>1, <2>3, <2>4 DEF Tables!Accept
  <2> QED
    BY <1>2, <2>5
<1>9. CASE q.kind = "reject"
  <2>1. Decided(q.kind) = [task |-> "rejected", detection |-> "open"]
        /\ StampsSet(q.kind) = {"rejected_at"} /\ Tables!Active(t)
    BY <1>7, <1>9 DEF Decided, StampsSet, Admissible, Tables!Active
  <2>2. /\ taskStatus' = [taskStatus EXCEPT ![t] = "rejected"]
        /\ taskStamps' = [taskStamps EXCEPT ![t] = @ \cup {"rejected_at"}]
        /\ detStatus' = [detStatus EXCEPT ![taskContact[t]] = "open"]
    BY <1>4, <1>5, <2>1 DEF c
  <2>3. detStation' = [detStation EXCEPT ![taskContact[t]] = NoStation]
    BY <1>6, <1>9 DEF c
  <2>4. Tables!Reject(t, Admin)
    BY <1>4, <1>7, <2>1, <2>2, <2>3 DEF Tables!Reject
  <2> QED
    BY <1>2, <2>4
<1>10. CASE q.kind = "complete"
  <2>1. Decided(q.kind) = [task |-> "completed", detection |-> "resolved"]
        /\ StampsSet(q.kind) = {"accepted_at", "completed_at"} /\ Tables!Active(t)
    BY <1>7, <1>10 DEF Decided, StampsSet, Admissible, Tables!Active
  <2>2. /\ taskStatus' = [taskStatus EXCEPT ![t] = "completed"]
        /\ taskStamps' = [taskStamps EXCEPT ![t] = @ \cup {"accepted_at", "completed_at"}]
        /\ detStatus' = [detStatus EXCEPT ![taskContact[t]] = "resolved"]
    BY <1>4, <1>5, <2>1 DEF c
  <2>3. detStation' = detStation
    BY <1>6, <1>10
  <2>4. Tables!Complete(t, Admin)
    BY <1>4, <1>7, <2>1, <2>2, <2>3 DEF Tables!Complete
  <2> QED
    BY <1>2, <2>4
<1> QED
  BY <1>2, <1>8, <1>9, <1>10 DEF Decisions

LEMMA CommitReportImplements ==
  ASSUME OneInv, NEW r \in Requests, CommitReport(r)
  PROVE  Tables!Report(req[r].contact) /\ req[r].contact \in Contacts
<1> DEFINE q == req[r]
           c == q.contact
           s == q.station
           current == Tables!CurrentTask(c)
           elsewhere == {t \in current : taskStation[t] # s}
<1>1. RequestOK(q) /\ q.pc = "assign" /\ Typed /\ r \in InReport
  BY DEF OneInv, ControlInv, TablesInv, RequestsInv, CommitReport, InReport, Reporting, PC
<1>2. c \in Contacts /\ s \in Stations \cup {NoStation}
  BY <1>1 DEF RequestOK, Idle, IsLoad, AssignOK, RowOK
<1>3. /\ IF s = NoStation THEN eligible = {} ELSE HasNearest(s)
      /\ q.setsStatus = (detStatus[c] # (IF s = NoStation THEN "open" ELSE "assigned"))
      /\ q.setsStation = (detStation[c] # s)
      /\ q.expires = IF s = NoStation THEN Tables!PendingOf(current) ELSE elsewhere
      /\ q.opens = (s # NoStation /\ current = elsewhere)
  BY <1>1 DEF OneInv, AllCurrent, Current, AssignCurrent
<1>4. /\ detStatus' = [detStatus EXCEPT ![c] = IF s = NoStation THEN "open" ELSE "assigned"]
      /\ detStation' = [detStation EXCEPT ![c] = s]
  <2>1. detStatus' = [detStatus EXCEPT ![c] = IF s = NoStation THEN "open" ELSE "assigned"]
    <3>1. CASE q.setsStatus
      BY <3>1 DEF CommitReport
    <3>2. CASE ~q.setsStatus
      BY <1>1, <1>3, <3>2 DEF CommitReport, Typed
    <3> QED
      BY <3>1, <3>2
  <2>2. detStation' = [detStation EXCEPT ![c] = s]
    BY <1>1, <1>3 DEF CommitReport, Typed
  <2> QED
    BY <2>1, <2>2
<1>5. /\ due' \in {due \ q.expires, due \ (q.expires \cup Tables!ActiveTasks(c))}
      /\ UNCHANGED <<taskStamps, eligible>>
      /\ q.opens => /\ lastTask' = lastTask + 1
                    /\ taskStatus' = [Tables!Expire(q.expires) EXCEPT ![lastTask + 1] = "pending"]
                    /\ taskContact' = [taskContact EXCEPT ![lastTask + 1] = c]
                    /\ taskStation' = [taskStation EXCEPT ![lastTask + 1] = s]
      /\ ~q.opens => /\ taskStatus' = Tables!Expire(q.expires)
                     /\ UNCHANGED <<lastTask, taskContact, taskStation>>
  BY DEF CommitReport
<1>6. lastTask < MaxTasks
  <2>1. IsFiniteSet(InReport)
    BY FS_Subset, RequestsAssumption DEF InReport
  <2>2. Cardinality(InReport) \in Nat /\ Cardinality(InReport) # 0
    BY <1>1, <2>1, FS_EmptySet, FS_CardinalityType
  <2> QED
    BY <1>1, <2>2, TablesAssumption DEF Typed, OneInv, ControlInv, Room
<1>7. current \subseteq Tables!ActiveTasks(c) /\ current \subseteq TaskIds
  BY SameSets DEF Tables!CurrentTask, Tables!ActiveTasks
<1>8. \A t, u \in current : t = u
  BY SameSets DEF Tables!CurrentTask, Tables!ActiveTasks, TaskIds
<1> HIDE DEF q, c, s, current
<1>9. CASE s = NoStation
  <2>1. q.expires \cap due = {} /\ q.expires \subseteq Tables!ActiveTasks(c)
    BY <1>3, <1>7, <1>9 DEF Tables!PendingOf, OneInv, One!IInv, One!Consistent, One!DueIsAccepted
  <2>2. Tables!Retarget(c, {})
    BY <1>5, <2>1 DEF Tables!Retarget
  <2>3. taskStatus' = Tables!Expire(Tables!PendingOf(current)) /\ eligible = {}
        /\ UNCHANGED <<lastTask, taskContact, taskStation>>
    BY <1>3, <1>5, <1>9
  <2>4. detStatus' = [detStatus EXCEPT ![c] = "open"] /\ detStation' = [detStation EXCEPT ![c] = NoStation]
    BY <1>4, <1>9
  <2>5. Tables!ReportUnassigned(c)
    BY <1>5, <2>2, <2>3, <2>4 DEF Tables!ReportUnassigned, current
  <2> QED
    BY <1>2, <2>5 DEF Tables!Report, c, q
<1>10. CASE s # NoStation
  <2>1. s \in Stations /\ Tables!Assign(c, s) /\ HasNearest(s) /\ q.expires = elsewhere
    BY <1>2, <1>3, <1>4, <1>10 DEF Tables!Assign
  <2>2. CASE current = elsewhere
    <3>1. q.opens /\ q.expires = current
      BY <1>3, <1>10, <2>1, <2>2
    <3>2. \A t \in current : taskStation[t] # s
      BY <2>2
    <3>3. Tables!Retarget(c, current)
      BY <1>5, <1>7, <3>1 DEF Tables!Retarget
    <3>4. Tables!ExpireAndInsert(c, s, current)
      BY <1>5, <1>6, <3>1, <3>3 DEF Tables!ExpireAndInsert
    <3>5. Tables!ReportReassigned(c, s)
      BY <2>1, <3>2, <3>4 DEF Tables!ReportReassigned, current
    <3> QED
      BY <1>2, <2>1, <3>5 DEF Tables!Report, HasNearest, c, q
  <2>3. CASE current # elsewhere
    <3>1. PICK t \in current : taskStation[t] = s
      BY <2>3
    <3>2. elsewhere = {} /\ ~q.opens
      BY <1>3, <1>8, <2>3, <3>1
    <3>3. Tables!Expire({}) = taskStatus
      BY <1>1, SameSets DEF Tables!Expire, Typed
    <3>4. UNCHANGED <<taskStatus, taskContact, taskStation, taskStamps, lastTask, eligible>>
      BY <1>5, <2>1, <3>2, <3>3
    <3>5. Tables!Retarget(c, {})
      BY <1>5, <2>1, <3>2 DEF Tables!Retarget
    <3>6. Tables!ReportReused(c, s)
      BY <2>1, <3>1, <3>4, <3>5 DEF Tables!ReportReused, Tables!taskVars, current
    <3> QED
      BY <1>2, <2>1, <3>6 DEF Tables!Report, HasNearest, c, q
  <2> QED
    BY <2>2, <2>3
<1> QED
  BY <1>9, <1>10

(* A step of the only request is a transaction of InterceptTasks or leaves *)
(* the tables alone.                                                       *)
LEMMA OneStepImplements ==
  OneInv /\ [Next]_vars => [Tables!Next]_Tables!vars
<1> SUFFICES ASSUME OneInv, [Next]_vars PROVE [Tables!Next]_Tables!vars
  OBVIOUS
<1>s. UNCHANGED tables => UNCHANGED Tables!vars
  BY DEF tables, Tables!vars, Tables!detVars, Tables!taskVars
<1>1. ASSUME NEW r \in Requests, Start(r) PROVE [Tables!Next]_Tables!vars
  <2>1. (\E s \in Stations : Patch(r, s)) => \E s \in Stations : Tables!ChangeEligibility(s)
    BY DEF Patch
  <2>2. ~(\E s \in Stations : Patch(r, s)) => UNCHANGED tables
    BY <1>1 DEF Start, StartPoll, StartDecision, StartReport, StartDelete, ReadFlown
  <2> QED
    BY <1>s, <2>1, <2>2 DEF Tables!Next
<1>2. ASSUME NEW r \in Requests, Step(r) PROVE [Tables!Next]_Tables!vars
  <2>1. CASE CommitAdvance(r)
    BY <2>1, CommitAdvanceImplements DEF Tables!Next
  <2>2. CASE CommitDecision(r)
    BY <2>2, CommitDecisionImplements, SameSets DEF Tables!Next
  <2>3. CASE CommitReport(r)
    BY <2>3, CommitReportImplements DEF Tables!Next
  <2>4. CASE CommitDelete(r)
    <3>1. req[r].contact \in Contacts
      BY <2>4 DEF OneInv, ControlInv, RequestsInv, RequestOK, Idle, IsLoad, RowOK, CommitDelete, PC
    <3> QED
      BY <2>4, <3>1 DEF CommitDelete, RemoveRows, Tables!Next
  <2>5. CASE AbortAdvance(r) \/ RefuseTask(r) \/ AbortDecision(r) \/ DuplicateDetection(r)
             \/ AbortReport(r) \/ AbortDelete(r)
    BY <1>s, <2>5
    DEF AbortAdvance, RefuseTask, AbortDecision, DuplicateDetection, AbortReport, AbortDelete, Abort
  <2>6. CASE LoadTask(r) \/ Refresh(r) \/ InsertDetection(r) \/ Choose(r)
    BY <1>s, <2>6 DEF LoadTask, Refresh, ReadFlown, InsertDetection, Choose
  <2> QED
    BY <1>2, <2>1, <2>2, <2>3, <2>4, <2>5, <2>6 DEF Step
<1>3. ASSUME NEW t \in TaskIds, Elapse(t) PROVE [Tables!Next]_Tables!vars
  BY <1>3, SameSets DEF Elapse, Tables!Next
<1>4. CASE UNCHANGED vars
  BY <1>s, <1>4 DEF vars
<1> QED
  BY <1>1, <1>2, <1>3, <1>4 DEF Next

(* With one request, nobody else's commit comes between its reads and its  *)
(* own commit, after which it holds nothing it has read.                   *)
HoldsNothing(q) == q.pc \in {"idle", "load", "refresh"}

LEMMA OneCommitCurrent ==
  ASSUME NEW r0, Requests = {r0}, OneInv, NEW r \in Requests,
         CommitAdvance(r) \/ CommitDecision(r) \/ CommitReport(r) \/ CommitDelete(r)
  PROVE  AllCurrent'
<1>1. ASSUME NEW n, HoldsNothing(n), req' = [req EXCEPT ![r] = n]
      PROVE  AllCurrent'
  <2>1. ASSUME NEW s \in Requests PROVE req'[s] = n
    BY <1>1 DEF OneInv, ControlInv, RequestsInv
  <2>2. \A q : HoldsNothing(q) => Current(q)'
    BY DEF HoldsNothing, Current
  <2> QED
    BY <1>1, <2>1, <2>2 DEF AllCurrent
<1>2. CASE CommitAdvance(r)
  <2>1. HoldsNothing(req[r].then) /\ req' = [req EXCEPT ![r] = req[r].then]
    BY <1>2 DEF CommitAdvance, PC, Goto, OneInv, ControlInv, RequestsInv, RequestOK, Idle, IsLoad,
                AdvanceOK, IsAfterAdvance, HoldsNothing
  <2> QED
    BY <1>1, <2>1
<1>3. CASE CommitDecision(r)
  <2>1. HoldsNothing([pc |-> "refresh"]) /\ req' = [req EXCEPT ![r] = [pc |-> "refresh"]]
    BY <1>3 DEF CommitDecision, Goto, HoldsNothing
  <2> QED
    BY <1>1, <2>1
<1>4. CASE CommitReport(r) \/ CommitDelete(r)
  <2>1. HoldsNothing(Idle) /\ req' = [req EXCEPT ![r] = Idle]
    BY <1>4, IdleOK DEF CommitReport, CommitDelete, Finish, Goto, HoldsNothing
  <2> QED
    BY <1>1, <2>1
<1> QED
  BY <1>2, <1>3, <1>4

LEMMA NextCurrent ==
  ASSUME NEW r0, Requests = {r0}, OneInv, [Next]_vars PROVE AllCurrent'
<1>s. ASSUME UNCHANGED <<detStatus, detStation, taskStatus, taskContact, taskStation, eligible, detRow, req>>,
             due \subseteq due'
      PROVE  AllCurrent'
  <2>1. \A q : Current(q) => Current(q)'
    BY <1>s, StillCurrent
  <2> QED
    BY <1>s, <2>1 DEF OneInv, AllCurrent
<1>1. ASSUME NEW r \in Requests, Start(r) PROVE AllCurrent'
  <2>1. ASSUME NEW s \in Stations, Patch(r, s) PROVE AllCurrent'
    <3>1. req' = req /\ \A q \in Requests : req[q].pc = "idle"
      BY <2>1 DEF Patch, PC
    <3>2. \A q : q.pc = "idle" => Current(q)'
      BY DEF Current
    <3> QED
      BY <3>1, <3>2 DEF AllCurrent
  <2> QED
    BY <1>1, <2>1, StartCurrent DEF Start, Decisions
<1>2. ASSUME NEW r \in Requests, Step(r) PROVE AllCurrent'
  <2>1. CASE AbortAdvance(r) \/ RefuseTask(r) \/ AbortDecision(r) \/ DuplicateDetection(r)
             \/ AbortReport(r) \/ AbortDelete(r)
    BY <2>1, AbortCurrent
    DEF AbortAdvance, RefuseTask, AbortDecision, DuplicateDetection, AbortReport, AbortDelete
  <2>2. CASE Refresh(r)
    BY <2>2, ReadFlownCurrent, IdleOK DEF Refresh
  <2>3. CASE CommitAdvance(r) \/ CommitDecision(r) \/ CommitReport(r) \/ CommitDelete(r)
    BY <2>3, OneCommitCurrent
  <2> QED
    BY <1>2, <2>1, <2>2, <2>3, LoadTaskCurrent, InsertCurrent, ChooseCurrent DEF Step
<1>3. ASSUME NEW t \in TaskIds, Elapse(t) PROVE AllCurrent'
  BY <1>s, <1>3 DEF Elapse, Tables!Elapse, Tables!detVars, Tables!taskVars
<1>4. CASE UNCHANGED vars
  BY <1>s, <1>4 DEF vars, tables
<1> QED
  BY <1>1, <1>2, <1>3, <1>4 DEF Next

(* One request at a time implements InterceptTasks: each step of the       *)
(* handler that commits is one of its transactions, and what it read       *)
(* before is still so, whatever the sets of contacts and stations.         *)
THEOREM OneRequestImplements ==
  ASSUME NEW CONSTANT r0, Requests = {r0}
  PROVE  Spec => OneAtATime
<1>1. Init => OneInv
  <2>1. Init => One!Init /\ Tables!Init
    BY SameSets DEF Init, Tables!Init, One!Init
  <2>2. Init => One!IInv
    BY <2>1, One!InitTypeOK, One!InitConsistent, TablesAssumption DEF One!IInv
  <2>3. Init => AllCurrent
    BY IdleOK, NothingRead DEF Init, AllCurrent
  <2> QED
    BY <2>2, <2>3, InitControl DEF OneInv
<1>2. OneInv /\ [Next]_vars => OneInv'
  <2> SUFFICES ASSUME OneInv, [Next]_vars PROVE OneInv'
    OBVIOUS
  <2>1. [One!Next]_One!vars
    BY OneStepImplements, SameNext
  <2>2. One!IInv'
    BY <2>1, One!NextTypeOK, One!NextConsistent, TablesAssumption DEF OneInv, One!IInv
  <2> QED
    BY <2>2, NextControl, NextCurrent DEF OneInv
<1>3. Init => Tables!Init
  BY DEF Init
<1> QED
  BY <1>1, <1>2, <1>3, OneStepImplements, PTL DEF Spec, OneAtATime, Tables!Spec
=============================================================================
