-------------------------- MODULE DemoResetProofs --------------------------
(***************************************************************************)
(* Proofs about DemoReset, for every set of stations and contacts, demo or *)
(* real.                                                                   *)
(***************************************************************************)
EXTENDS DemoReset, InterceptTasksProofs

(* The inductive invariant: that of the engagements, which a reset has to  *)
(* keep as well, and the stations that exist.                              *)
DemoIInv == IInv /\ DemoTypeOK /\ StationsExist

LEMMA InitDemoInv == DemoInit => DemoIInv
<1> SUFFICES ASSUME DemoInit PROVE DemoIInv
  OBVIOUS
<1>1. IInv
  BY InitTypeOK, InitConsistent DEF DemoInit, IInv
<1>2. DemoTypeOK
  BY <1>1 DEF IInv, DemoInit, DemoTypeOK
<1>3. StationsExist
  BY DEF DemoInit, Init, StationsExist
<1> QED
  BY <1>1, <1>2, <1>3 DEF DemoIInv

-----------------------------------------------------------------------------
(* Engagements: a task is only ever given to an eligible station.          *)

LEMMA ReportStations ==
  ASSUME DemoTypeOK, StationsExist, NEW c \in Contacts, Report(c)
  PROVE  /\ \A t \in TaskIds : taskStatus'[t] # "none" => taskStation'[t] \in stationRows
         /\ \A k \in Contacts : detStation'[k] # NoStation => detStation'[k] \in stationRows
<1> USE DEF DemoTypeOK, TypeOK, StationsExist
<1>1. CASE ReportUnassigned(c)
  BY <1>1 DEF ReportUnassigned, Expire, PendingOf, CurrentTask, ActiveTasks, Active
<1>2. ASSUME NEW s \in Stations, NEW distance \in [Stations -> 0 .. MaxDistance],
             Nearest(s, distance), ReportReused(c, s) \/ ReportReassigned(c, s)
      PROVE  /\ \A t \in TaskIds : taskStatus'[t] # "none" => taskStation'[t] \in stationRows
             /\ \A k \in Contacts : detStation'[k] # NoStation => detStation'[k] \in stationRows
  <2>1. s \in stationRows
    BY <1>2 DEF Nearest
  <2>2. \A k \in Contacts : detStation'[k] # NoStation => detStation'[k] \in stationRows
    BY <1>2, <2>1 DEF ReportReused, ReportReassigned, Assign
  <2>3. CASE ReportReused(c, s)
    BY <2>2, <2>3 DEF ReportReused, taskVars
  <2>4. CASE ReportReassigned(c, s)
    <3>1. ASSUME NEW t \in TaskIds, taskStatus'[t] # "none"
          PROVE  taskStation'[t] \in stationRows
      BY <2>1, <2>4, <3>1
      DEF ReportReassigned, ExpireAndInsert, Expire, CurrentTask, ActiveTasks, Active
    <3> QED
      BY <2>2, <3>1
  <2> QED
    BY <1>2, <2>3, <2>4
<1> QED
  BY <1>1, <1>2 DEF Report

LEMMA EngageStations ==
  ASSUME DemoTypeOK, NoOrphanTask, DueIsAccepted, StationsExist, Engage
  PROVE  StationsExist'
<1> USE DEF DemoTypeOK, TypeOK
<1> DEFINE Kept ==
      /\ \A t \in TaskIds : taskStatus'[t] # "none" => taskStation'[t] \in stationRows
      /\ \A k \in Contacts : detStation'[k] # NoStation => detStation'[k] \in stationRows
<1>1. eligible' \subseteq stationRows' /\ stationRows' = stationRows
  BY DEF Engage
<1>2. ASSUME NEW c \in Contacts, Report(c) PROVE Kept
  BY <1>2, ReportStations
<1>3. ASSUME NEW c \in Contacts, Delete(c) PROVE Kept
  BY <1>3 DEF Delete, StationsExist
<1>4. ASSUME NEW t \in TaskIds, NEW actor, Accept(t, actor) \/ Reject(t, actor) \/ Complete(t, actor)
      PROVE  Kept
  BY <1>4 DEF Accept, Reject, Complete, Active, StationsExist
<1>5. ASSUME NEW t \in TaskIds, Elapse(t) PROVE Kept
  BY <1>5 DEF Elapse, detVars, taskVars, StationsExist
<1>6. ASSUME NEW D \in SUBSET due, Advance(D) PROVE Kept
  BY <1>6 DEF Advance, DueIsAccepted, StationsExist
<1>7. ASSUME NEW s \in Stations, ChangeEligibility(s) PROVE Kept
  BY <1>7 DEF ChangeEligibility, detVars, taskVars, StationsExist
<1>8. Kept
  BY <1>2, <1>3, <1>4, <1>5, <1>6, <1>7 DEF Engage, Next
<1> QED
  BY <1>1, <1>8 DEF StationsExist

LEMMA EngageInv == DemoIInv /\ Engage => DemoIInv'
<1> SUFFICES ASSUME DemoIInv, Engage PROVE DemoIInv'
  OBVIOUS
<1>1. IInv'
  BY NextTypeOK, NextConsistent DEF DemoIInv, Engage, IInv
<1>2. DemoTypeOK'
  BY <1>1 DEF IInv, DemoIInv, DemoTypeOK, Engage
<1>3. StationsExist'
  BY EngageStations DEF DemoIInv, IInv, Consistent
<1> QED
  BY <1>1, <1>2, <1>3 DEF DemoIInv

-----------------------------------------------------------------------------
(* The demo *)

(* What does not write detections or tasks keeps them in agreement.        *)
LEMMA Undisturbed ==
  ASSUME Consistent, UNCHANGED <<detVars, taskVars>>, due' \subseteq due
  PROVE  Consistent'
<1>1. /\ detStatus' = detStatus /\ detStation' = detStation
      /\ taskStatus' = taskStatus /\ taskContact' = taskContact
      /\ taskStation' = taskStation /\ taskStamps' = taskStamps /\ lastTask' = lastTask
  BY DEF detVars, taskVars
<1>2. IdsInOrder' /\ DueIsAccepted' /\ NoOrphanTask'
  BY <1>1 DEF Consistent, IdsInOrder, DueIsAccepted, NoOrphanTask
<1>3. OneActiveTask'
  BY <1>1 DEF Consistent, OneActiveTask, Active
<1>4. TablesAgree'
  BY <1>1 DEF Consistent, TablesAgree, TaskMatchesDetection, AssignedHasTask, Active
<1>5. StampsTellTheStory'
  BY <1>1 DEF Consistent, StampsTellTheStory, StampsOf
<1> QED
  BY <1>2, <1>3, <1>4, <1>5 DEF Consistent

LEMMA SeedInv ==
  ASSUME DemoIInv, NEW n \in DemoStations, Seed(n)
  PROVE  DemoIInv'
<1> USE DEF DemoIInv, IInv
<1>1. UNCHANGED <<detVars, taskVars>> /\ due' \subseteq due
  BY DEF Seed
<1>2. TypeOK' /\ DemoTypeOK'
  BY <1>1, DemoAssumption DEF Seed, TypeOK, DemoTypeOK, detVars, taskVars
<1>3. Consistent'
  BY <1>1, Undisturbed
<1>4. StationsExist'
  BY <1>1 DEF Seed, StationsExist, detVars, taskVars
<1> QED
  BY <1>2, <1>3, <1>4

LEMMA AckInv == DemoIInv /\ AckAlert => DemoIInv'
<1> SUFFICES ASSUME DemoIInv, AckAlert PROVE DemoIInv'
  OBVIOUS
<1> USE DEF DemoIInv, IInv, AckAlert, vars
<1>1. Consistent'
  BY Undisturbed
<1>2. TypeOK' /\ DemoTypeOK' /\ StationsExist'
  BY DEF TypeOK, DemoTypeOK, StationsExist, detVars, taskVars
<1> QED
  BY <1>1, <1>2

(* A reset that the foreign keys let through leaves the tables in          *)
(* agreement: a real contact that is assigned is so to a real station, and *)
(* the task that says so stays.                                            *)
LEMMA ResetInv == DemoIInv /\ Reset => DemoIInv'
<1> SUFFICES ASSUME DemoIInv, Reset PROVE DemoIInv'
  OBVIOUS
<1> USE DEF DemoIInv, IInv, TypeOK, DemoTypeOK
<1> DEFINE Real(c) == c \in Contacts \ DemoContacts
<1>1. ASSUME NEW t \in TaskIds
      PROVE  IF t \in DemoTasks
             THEN taskStatus'[t] = "none" /\ taskContact'[t] = NoContact
                  /\ taskStation'[t] = NoStation /\ taskStamps'[t] = {}
             ELSE taskStatus'[t] = taskStatus[t] /\ taskContact'[t] = taskContact[t]
                  /\ taskStation'[t] = taskStation[t] /\ taskStamps'[t] = taskStamps[t]
  BY DEF Reset, RemoveTasks
<1>2. \A c \in Contacts :
        IF c \in DemoContacts THEN detStatus'[c] = "absent" /\ detStation'[c] = NoStation
        ELSE detStatus'[c] = detStatus[c] /\ detStation'[c] = detStation[c]
  BY DEF Reset, Referenced, RemoveDetections
<1>3. \A t \in TaskIds :
        taskStatus[t] # "none" /\ t \notin DemoTasks =>
          Real(taskContact[t]) /\ taskStation[t] \in Stations \ DemoStations
  BY DEF DemoTasks, Consistent, NoOrphanTask
<1>4. TypeOK' /\ DemoTypeOK'
  BY DEF Reset, RemoveTasks, RemoveDetections, TaskStatus, DetectionStatus
<1>5. IdsInOrder' /\ DueIsAccepted'
  BY <1>1 DEF Reset, RemoveTasks, Consistent, IdsInOrder, DueIsAccepted
<1>6. NoOrphanTask'
  BY <1>1, <1>2, <1>3 DEF Consistent, NoOrphanTask
<1>7. OneActiveTask'
  BY <1>1 DEF Consistent, OneActiveTask, Active
<1>8. TablesAgree'
  <2>1. ASSUME NEW t \in TaskIds, Active(t)' PROVE TaskMatchesDetection(t)'
    <3>1. t \notin DemoTasks /\ Active(t) /\ Real(taskContact[t])
      BY <1>1, <1>3, <2>1 DEF Active
    <3>2. TaskMatchesDetection(t)
      BY <3>1 DEF Consistent, TablesAgree
    <3> QED
      BY <1>1, <1>2, <3>1, <3>2 DEF TaskMatchesDetection
  <2>2. ASSUME NEW c \in Contacts PROVE AssignedHasTask(c)'
    <3> SUFFICES ASSUME detStatus'[c] = "assigned"
                 PROVE  \E t \in TaskIds :
                          Active(t)' /\ taskContact'[t] = c /\ taskStation'[t] = detStation'[c]
      BY DEF AssignedHasTask
    <3>1. Real(c) /\ detStatus[c] = "assigned" /\ detStation'[c] = detStation[c]
      BY <1>2
    <3>2. PICK t \in TaskIds : Active(t) /\ taskContact[t] = c /\ taskStation[t] = detStation[c]
      BY <3>1 DEF Consistent, TablesAgree, AssignedHasTask
    <3>3. detStation[c] \notin DemoStations
      BY <3>1 DEF Reset, Referenced
    <3>4. t \notin DemoTasks
      BY <3>1, <3>2, <3>3 DEF DemoTasks
    <3> QED
      BY <1>1, <3>1, <3>2, <3>4 DEF Active
  <2>3. \A c \in Contacts : detStatus'[c] = "open" => detStation'[c] = NoStation
    BY <1>2 DEF Consistent, TablesAgree
  <2> QED
    BY <2>1, <2>2, <2>3 DEF TablesAgree
<1>9. StampsTellTheStory'
  <2>1. ASSUME NEW t \in TaskIds PROVE taskStamps'[t] \in StampsOf(taskStatus'[t])
    <3>1. CASE t \in DemoTasks
      BY <1>1, <3>1 DEF StampsOf
    <3>2. CASE t \notin DemoTasks
      BY <1>1, <3>2 DEF Consistent, StampsTellTheStory
    <3> QED
      BY <3>1, <3>2
  <2> QED
    BY <2>1 DEF StampsTellTheStory, StampsOf
<1>10. StationsExist'
  <2>1. eligible' \subseteq stationRows'
    BY DEF Reset, StationsExist
  <2>2. \A t \in TaskIds : taskStatus'[t] # "none" => taskStation'[t] \in stationRows'
    BY <1>1, <1>3 DEF Reset, StationsExist
  <2>3. \A c \in Contacts : detStation'[c] # NoStation => detStation'[c] \in stationRows'
    BY DEF Reset, RemoveDetections, StationsExist
  <2> QED
    BY <2>1, <2>2, <2>3 DEF StationsExist
<1> QED
  BY <1>4, <1>5, <1>6, <1>7, <1>8, <1>9, <1>10 DEF Consistent

-----------------------------------------------------------------------------
THEOREM DemoInvariance == DemoSpec => []DemoIInv
<1>1. DemoIInv /\ [DemoNext]_demoVars => DemoIInv'
  <2> SUFFICES ASSUME DemoIInv, [DemoNext]_demoVars PROVE DemoIInv'
    OBVIOUS
  <2>1. CASE UNCHANGED demoVars
    BY <2>1, NextTypeOK, NextConsistent DEF DemoIInv, IInv, demoVars, DemoTypeOK, StationsExist,
       vars, detVars, taskVars
  <2> QED
    BY <2>1, EngageInv, AckInv, SeedInv, ResetInv DEF DemoNext
<1> QED
  BY <1>1, InitDemoInv, PTL DEF DemoSpec

(* Every reachable state of the demo and the real operations is well typed. *)
THEOREM DemoTyping == DemoSpec => []DemoTypeOK
<1>1. DemoIInv => DemoTypeOK
  BY DEF DemoIInv
<1> QED
  BY <1>1, DemoInvariance, PTL

(* Tasks and detections refer to rows that exist, and tasks are stamped as  *)
(* their status says, whatever is seeded and reset between them: a reset     *)
(* deletes the tasks of every detection and of every station it deletes      *)
(* (reset_demo_scenario).                                                    *)
THEOREM RowsStayWhole == DemoSpec => []RowsAreWhole
<1>1. DemoIInv => RowsAreWhole
  BY DEF DemoIInv, IInv, Consistent, RowsAreWhole
<1> QED
  BY <1>1, DemoInvariance, PTL

(* No reset breaks the agreement of detections and tasks, those of real    *)
(* contacts with demo operators included (reset_demo_scenario).            *)
THEOREM ResetKeepsAgreement == DemoSpec => []TablesAgree
<1>1. DemoIInv => TablesAgree
  BY DEF DemoIInv, IInv, Consistent
<1> QED
  BY <1>1, DemoInvariance, PTL

(* A target has at most one task in force, also when demo operators are    *)
(* sent to it and a reset takes them away (reset_demo_scenario).           *)
THEOREM ResetKeepsOneTask == DemoSpec => []OneActiveTask
<1>1. DemoIInv => OneActiveTask
  BY DEF DemoIInv, IInv, Consistent
<1> QED
  BY <1>1, DemoInvariance, PTL

(* With demo stations among the eligible ones a report still has one       *)
(* nearest station (choose_nearest_operator_station).                      *)
THEOREM DemoOneNearest == DemoSpec => []NearestIsUnique
<1>1. DemoIInv => NearestIsUnique
  BY TypedNearestUnique DEF DemoIInv, IInv
<1> QED
  BY <1>1, DemoInvariance, PTL

-----------------------------------------------------------------------------
(* Action properties: what the demo's own transactions do to the tables.   *)

LEMMA DemoStepKeepsEnded ==
  ASSUME DemoIInv, [DemoNext]_demoVars, NEW t \in TaskIds, Terminal(t)
  PROVE  taskStatus'[t] \in {taskStatus[t], "none"}
<1>1. CASE Engage
  BY <1>1, NextKeepsEnded DEF Engage, DemoIInv
<1>2. CASE AckAlert
  BY <1>2 DEF AckAlert, vars, taskVars
<1>3. ASSUME NEW n \in DemoStations, Seed(n) PROVE taskStatus'[t] = taskStatus[t]
  BY <1>3 DEF Seed, taskVars
<1>4. CASE Reset
  BY <1>4 DEF Reset, RemoveTasks
<1>5. CASE UNCHANGED demoVars
  BY <1>5 DEF demoVars, vars, taskVars
<1> QED
  BY <1>1, <1>2, <1>3, <1>4, <1>5 DEF DemoNext

(* An ended task stays ended until its row is deleted, by an operator or by *)
(* a reset.                                                                *)
THEOREM ResetRevivesNoTask == DemoSpec => TerminalIsFinal
<1>1. DemoIInv /\ [DemoNext]_demoVars =>
        [\A t \in TaskIds : Terminal(t) => taskStatus'[t] \in {taskStatus[t], "none"}]_vars
  BY DemoStepKeepsEnded
<1> QED
  BY <1>1, DemoInvariance, PTL DEF DemoSpec, TerminalIsFinal

LEMMA DemoStepReopensFresh ==
  ASSUME DemoIInv, [DemoNext]_demoVars, NEW c \in Contacts,
         detStatus[c] = "resolved", detStatus'[c] = "assigned"
  PROVE  /\ lastTask' = lastTask + 1
         /\ taskStatus'[lastTask'] = "pending"
         /\ taskContact'[lastTask'] = c
<1>1. CASE Engage
  BY <1>1, NextReopensFresh DEF Engage, DemoIInv
<1>2. ~AckAlert
  BY DEF AckAlert, vars, detVars
<1>3. \A n \in DemoStations : ~Seed(n)
  BY DEF Seed, detVars
<1>4. ~Reset
  BY DEF Reset, RemoveDetections
<1>5. ~UNCHANGED demoVars
  BY DEF demoVars, vars, detVars
<1> QED
  BY <1>1, <1>2, <1>3, <1>4, <1>5 DEF DemoNext

(* No seed and no reset brings an earlier engagement back.                 *)
THEOREM DemoReopensFresh == DemoSpec => ReopensWithFreshTask
<1>1. DemoIInv /\ [DemoNext]_demoVars =>
        [\A c \in Contacts :
           detStatus[c] = "resolved" /\ detStatus'[c] = "assigned" =>
             /\ lastTask' = lastTask + 1
             /\ taskStatus'[lastTask'] = "pending"
             /\ taskContact'[lastTask'] = c]_vars
  BY DemoStepReopensFresh
<1> QED
  BY <1>1, DemoInvariance, PTL DEF DemoSpec, ReopensWithFreshTask
=============================================================================
