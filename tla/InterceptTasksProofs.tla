------------------------ MODULE InterceptTasksProofs ------------------------
(***************************************************************************)
(* Proofs about InterceptTasks, for every set of contacts and stations and *)
(* every bound.                                                            *)
(***************************************************************************)
EXTENDS InterceptTasks, FiniteSetTheorems, WellFoundedInduction, TLAPS

(* The inductive invariant.  Beyond the properties it needs only that ids  *)
(* above lastTask are unused, so that an inserted row overwrites none, and *)
(* that a due task is an accepted one, so that Advance ends tasks in force *)
(* only.                                                                   *)
IdsInOrder == \A t \in TaskIds : t > lastTask => taskStatus[t] = "none"

DueIsAccepted == \A t \in due : taskStatus[t] = "accepted"

Consistent ==
  /\ IdsInOrder
  /\ DueIsAccepted
  /\ NoOrphanTask
  /\ OneActiveTask
  /\ TablesAgree
  /\ StampsTellTheStory

IInv == TypeOK /\ Consistent

(* Type correctness of the initial state.                                  *)
LEMMA InitTypeOK == Init => TypeOK
BY BoundsAssumption
   DEF Init, TypeOK, TaskIds, DetectionStatus, TaskStatus, Timestamps

(* Every transaction keeps the columns in their types.                     *)
LEMMA NextTypeOK == TypeOK /\ [Next]_vars => TypeOK'
<1> SUFFICES ASSUME TypeOK, [Next]_vars PROVE TypeOK'
  OBVIOUS
<1> USE DEF TypeOK
<1>1. ASSUME NEW c \in Contacts, ReportUnassigned(c) PROVE TypeOK'
  <2>1. taskStatus' \in [TaskIds -> TaskStatus]
    BY <1>1 DEF ReportUnassigned, Expire, TaskStatus
  <2>2. due' \subseteq TaskIds
    BY <1>1 DEF ReportUnassigned, Retarget
  <2> QED
    BY <1>1, <2>1, <2>2 DEF ReportUnassigned, DetectionStatus
<1>2. ASSUME NEW c \in Contacts, NEW s \in Stations, ReportReused(c, s)
      PROVE  TypeOK'
  BY <1>2 DEF ReportReused, Assign, Retarget, taskVars, DetectionStatus
<1>3. ASSUME NEW c \in Contacts, NEW s \in Stations, ReportReassigned(c, s)
      PROVE  TypeOK'
  <2>1. Expire(CurrentTask(c)) \in [TaskIds -> TaskStatus]
    BY DEF Expire, TaskStatus
  <2>2. taskStatus' \in [TaskIds -> TaskStatus]
    BY <1>3, <2>1 DEF ReportReassigned, ExpireAndInsert, TaskStatus
  <2>3. due' \subseteq TaskIds /\ lastTask' \in 0 .. MaxTasks
    BY <1>3, BoundsAssumption DEF ReportReassigned, ExpireAndInsert, Retarget
  <2> QED
    BY <1>3, <2>2, <2>3
    DEF ReportReassigned, ExpireAndInsert, Assign, DetectionStatus
<1>4. ASSUME NEW c \in Contacts, Delete(c) PROVE TypeOK'
  <2> DEFINE gone == {t \in TaskIds : taskStatus[t] # "none" /\ taskContact[t] = c}
  <2>1. taskStatus' \in [TaskIds -> TaskStatus]
    BY <1>4 DEF Delete, TaskStatus
  <2>2. taskStamps' \in [TaskIds -> SUBSET Timestamps]
    BY <1>4 DEF Delete
  <2> QED
    BY <1>4, <2>1, <2>2 DEF Delete, DetectionStatus
<1>5. ASSUME NEW t \in TaskIds, NEW actor, Accept(t, actor) PROVE TypeOK'
  BY <1>5 DEF Accept, TaskStatus, DetectionStatus, Timestamps
<1>6. ASSUME NEW t \in TaskIds, NEW actor, Reject(t, actor) PROVE TypeOK'
  BY <1>6 DEF Reject, TaskStatus, DetectionStatus, Timestamps
<1>7. ASSUME NEW t \in TaskIds, NEW actor, Complete(t, actor) PROVE TypeOK'
  BY <1>7 DEF Complete, TaskStatus, DetectionStatus, Timestamps
<1>8. ASSUME NEW t \in TaskIds, Elapse(t) PROVE TypeOK'
  BY <1>8 DEF Elapse, detVars, taskVars
<1>9. ASSUME NEW D \in SUBSET due, Advance(D) PROVE TypeOK'
  BY <1>9 DEF Advance, TaskStatus, DetectionStatus, Timestamps
<1>10. ASSUME NEW s \in Stations, ChangeEligibility(s) PROVE TypeOK'
  BY <1>10 DEF ChangeEligibility, detVars, taskVars
<1>11. CASE UNCHANGED vars
  BY <1>11 DEF vars, detVars, taskVars
<1> QED
  BY <1>1, <1>2, <1>3, <1>4, <1>5, <1>6, <1>7, <1>8, <1>9, <1>10, <1>11
  DEF Next, Report

(* Every column of hostile_detections and intercept_tasks keeps its type.  *)
THEOREM Typing == Spec => []TypeOK
BY InitTypeOK, NextTypeOK, PTL DEF Spec

-----------------------------------------------------------------------------
(* With at most one task in force per target, the task the handler picks   *)
(* (the latest) is all there is.                                           *)
LEMMA CurrentIsActive ==
  ASSUME OneActiveTask, NEW c \in Contacts
  PROVE  CurrentTask(c) = ActiveTasks(c)
<1>1. ASSUME NEW t \in ActiveTasks(c), NEW u \in ActiveTasks(c)
      PROVE  u <= t
  <2>1. u = t /\ t \in TaskIds
    BY <1>1 DEF OneActiveTask, ActiveTasks
  <2> QED
    BY <2>1 DEF TaskIds
<1> QED
  BY <1>1 DEF CurrentTask

(* The rest of the invariant, one lemma per transaction.                   *)
LEMMA ReportUnassignedConsistent ==
  ASSUME TypeOK, Consistent, NEW c \in Contacts, ReportUnassigned(c)
  PROVE  Consistent'
<1> USE DEF TypeOK
<1>1. CurrentTask(c) = ActiveTasks(c)
  BY CurrentIsActive DEF Consistent
<1>2. \A t \in TaskIds :
        taskStatus'[t] = IF t \in ActiveTasks(c) /\ taskStatus[t] = "pending"
                         THEN "expired" ELSE taskStatus[t]
  BY <1>1 DEF ReportUnassigned, Expire, PendingOf
<1>3. UNCHANGED <<taskContact, taskStation, taskStamps, lastTask>>
  BY DEF ReportUnassigned
<1>4. due' \subseteq due
  BY DEF ReportUnassigned, Retarget
<1>5. /\ detStatus' = [detStatus EXCEPT ![c] = "open"]
      /\ detStation' = [detStation EXCEPT ![c] = NoStation]
  BY DEF ReportUnassigned
<1>6. IdsInOrder'
  BY <1>2, <1>3 DEF Consistent, IdsInOrder, ActiveTasks, Active
<1>7. DueIsAccepted'
  BY <1>2, <1>4 DEF Consistent, DueIsAccepted
<1>8. NoOrphanTask'
  BY <1>2, <1>3, <1>5 DEF Consistent, NoOrphanTask, ActiveTasks, Active
<1>9. OneActiveTask'
  BY <1>2, <1>3 DEF Consistent, OneActiveTask, Active
<1>10. TablesAgree'
  <2>1. \A t \in TaskIds : Active(t)' => TaskMatchesDetection(t)'
    BY <1>2, <1>3, <1>5
    DEF Consistent, TablesAgree, TaskMatchesDetection, ActiveTasks, Active, NoOrphanTask
  <2>2. \A d \in Contacts : AssignedHasTask(d)'
    BY <1>2, <1>3, <1>5
    DEF Consistent, TablesAgree, AssignedHasTask, ActiveTasks, Active
  <2>3. \A d \in Contacts : detStatus'[d] = "open" => detStation'[d] = NoStation
    BY <1>5 DEF Consistent, TablesAgree
  <2> QED
    BY <2>1, <2>2, <2>3 DEF TablesAgree
<1>11. StampsTellTheStory'
  BY <1>2, <1>3 DEF Consistent, StampsTellTheStory, StampsOf
<1> QED
  BY <1>6, <1>7, <1>8, <1>9, <1>10, <1>11 DEF Consistent

LEMMA ReportReusedConsistent ==
  ASSUME TypeOK, Consistent,
         NEW c \in Contacts, NEW s \in Stations, ReportReused(c, s)
  PROVE  Consistent'
<1> USE DEF TypeOK
<1>1. PICK t \in ActiveTasks(c) : taskStation[t] = s
  BY CurrentIsActive DEF Consistent, ReportReused
<1>2. UNCHANGED taskVars /\ due' \subseteq due
  BY DEF ReportReused, Retarget
<1>3. /\ detStatus' = [detStatus EXCEPT ![c] = "assigned"]
      /\ detStation' = [detStation EXCEPT ![c] = s]
  BY DEF ReportReused, Assign
<1>4. IdsInOrder' /\ DueIsAccepted' /\ NoOrphanTask' /\ OneActiveTask'
  BY <1>2, <1>3
  DEF Consistent, IdsInOrder, DueIsAccepted, NoOrphanTask, OneActiveTask, Active, taskVars
<1>5. TablesAgree'
  <2>1. \A u \in TaskIds : Active(u) /\ taskContact[u] = c => u = t
    BY <1>1 DEF Consistent, OneActiveTask, ActiveTasks
  <2>2. \A u \in TaskIds : Active(u)' => TaskMatchesDetection(u)'
    BY <1>1, <1>2, <1>3, <2>1
    DEF Consistent, TablesAgree, TaskMatchesDetection, ActiveTasks, Active, taskVars,
        NoOrphanTask
  <2>3. \A d \in Contacts : AssignedHasTask(d)'
    BY <1>1, <1>2, <1>3
    DEF Consistent, TablesAgree, AssignedHasTask, ActiveTasks, Active, taskVars
  <2>4. \A d \in Contacts : detStatus'[d] = "open" => detStation'[d] = NoStation
    BY <1>3 DEF Consistent, TablesAgree
  <2> QED
    BY <2>2, <2>3, <2>4 DEF TablesAgree
<1>6. StampsTellTheStory'
  BY <1>2 DEF Consistent, StampsTellTheStory, taskVars
<1> QED
  BY <1>4, <1>5, <1>6 DEF Consistent

LEMMA ReportReassignedConsistent ==
  ASSUME TypeOK, Consistent,
         NEW c \in Contacts, NEW s \in Stations, ReportReassigned(c, s)
  PROVE  Consistent'
<1> USE DEF TypeOK
<1> DEFINE new == lastTask + 1
<1>1. new \in TaskIds /\ lastTask' = new
  BY BoundsAssumption DEF ReportReassigned, ExpireAndInsert, TaskIds
<1>2. \A t \in TaskIds :
        taskStatus'[t] = IF t = new THEN "pending"
                         ELSE IF t \in ActiveTasks(c) THEN "expired"
                         ELSE taskStatus[t]
  BY CurrentIsActive DEF Consistent, ReportReassigned, ExpireAndInsert, Expire
<1>3. /\ taskContact' = [taskContact EXCEPT ![new] = c]
      /\ taskStation' = [taskStation EXCEPT ![new] = s]
      /\ taskStamps' = taskStamps
  BY DEF ReportReassigned, ExpireAndInsert
<1>4. /\ detStatus' = [detStatus EXCEPT ![c] = "assigned"]
      /\ detStation' = [detStation EXCEPT ![c] = s]
  BY DEF ReportReassigned, Assign
<1>5. due' \subseteq due \ ActiveTasks(c)
  BY CurrentIsActive DEF Consistent, ReportReassigned, ExpireAndInsert, Retarget
<1>6. taskStatus[new] = "none" /\ new \notin ActiveTasks(c)
  BY <1>1 DEF Consistent, IdsInOrder, ActiveTasks, Active
<1>7. IdsInOrder'
  BY <1>1, <1>2, <1>3 DEF Consistent, IdsInOrder, ActiveTasks, Active, TaskIds
<1>8. DueIsAccepted'
  BY <1>2, <1>5, <1>6 DEF Consistent, DueIsAccepted
<1>9. NoOrphanTask'
  BY <1>2, <1>3, <1>4 DEF Consistent, NoOrphanTask, ActiveTasks, Active
<1>10. \A t \in TaskIds : Active(t)' /\ taskContact'[t] = c => t = new
  BY <1>2, <1>3 DEF ActiveTasks, Active
<1>11. OneActiveTask'
  BY <1>2, <1>3, <1>10 DEF Consistent, OneActiveTask, Active
<1>12. TablesAgree'
  <2>1. \A t \in TaskIds : Active(t)' => TaskMatchesDetection(t)'
    BY <1>2, <1>3, <1>4, <1>10
    DEF Consistent, TablesAgree, TaskMatchesDetection, Active, NoOrphanTask
  <2>2. AssignedHasTask(c)'
    BY <1>1, <1>2, <1>3, <1>4 DEF AssignedHasTask, Active
  <2>3. ASSUME NEW d \in Contacts, d # c PROVE AssignedHasTask(d)'
    BY <1>2, <1>3, <1>4, <1>6, <2>3
    DEF Consistent, TablesAgree, AssignedHasTask, ActiveTasks, Active
  <2>4. \A d \in Contacts : detStatus'[d] = "open" => detStation'[d] = NoStation
    BY <1>4 DEF Consistent, TablesAgree
  <2> QED
    BY <2>1, <2>2, <2>3, <2>4 DEF TablesAgree
<1>13. StampsTellTheStory'
  BY ZenonT(40), <1>2, <1>3, <1>6
  DEF Consistent, StampsTellTheStory, StampsOf, ActiveTasks, Active
<1> QED
  BY <1>7, <1>8, <1>9, <1>11, <1>12, <1>13 DEF Consistent

LEMMA AcceptConsistent ==
  ASSUME TypeOK, Consistent, NEW t \in TaskIds, NEW actor, Accept(t, actor)
  PROVE  Consistent'
<1> USE DEF TypeOK
<1>1. taskStatus[t] = "pending" /\ taskContact[t] \in Contacts
  BY DEF Accept, Consistent, NoOrphanTask
<1>2. IdsInOrder' /\ DueIsAccepted' /\ NoOrphanTask' /\ OneActiveTask'
  BY <1>1
  DEF Accept, Consistent, IdsInOrder, DueIsAccepted, NoOrphanTask, OneActiveTask, Active
<1>3. TablesAgree'
  <2>1. \A u \in TaskIds : Active(u)' => TaskMatchesDetection(u)'
    BY <1>1
    DEF Accept, Consistent, TablesAgree, TaskMatchesDetection, OneActiveTask, NoOrphanTask,
        Active
  <2>2. \A d \in Contacts : AssignedHasTask(d)'
    BY <1>1
    DEF Accept, Consistent, TablesAgree, TaskMatchesDetection, AssignedHasTask, Active
  <2>3. \A d \in Contacts : detStatus'[d] = "open" => detStation'[d] = NoStation
    BY <1>1 DEF Accept, Consistent, TablesAgree
  <2> QED
    BY <2>1, <2>2, <2>3 DEF TablesAgree
<1>4. StampsTellTheStory'
  BY <1>1 DEF Accept, Consistent, StampsTellTheStory, StampsOf
<1> QED
  BY <1>2, <1>3, <1>4 DEF Consistent

(* Reject and Complete end task t and take the assignment off its          *)
(* detection: what they share.                                             *)
LEMMA EndingConsistent ==
  ASSUME TypeOK, Consistent, NEW t \in TaskIds, Active(t),
         NEW ended \in {"rejected", "completed"},
         NEW status \in {"open", "resolved"},
         taskStatus' = [taskStatus EXCEPT ![t] = ended],
         detStatus' = [detStatus EXCEPT ![taskContact[t]] = status],
         \A c \in Contacts : c # taskContact[t] => detStation'[c] = detStation[c],
         status = "open" => detStation'[taskContact[t]] = NoStation,
         due' = due \ {t},
         UNCHANGED <<taskContact, taskStation, lastTask>>
  PROVE  /\ IdsInOrder' /\ DueIsAccepted' /\ NoOrphanTask' /\ OneActiveTask'
         /\ TablesAgree'
<1> USE DEF TypeOK
<1>1. taskContact[t] \in Contacts /\ taskStatus[t] # "none"
  BY DEF Active, Consistent, NoOrphanTask
<1>2. IdsInOrder' /\ DueIsAccepted' /\ NoOrphanTask' /\ OneActiveTask'
  BY <1>1
  DEF Consistent, IdsInOrder, DueIsAccepted, NoOrphanTask, OneActiveTask, Active
<1>3. \A u \in TaskIds : Active(u)' => u # t /\ Active(u) /\ taskContact[u] # taskContact[t]
  BY DEF Active, Consistent, OneActiveTask
<1>4. \A u \in TaskIds : Active(u)' => TaskMatchesDetection(u)'
  BY <1>1, <1>3 DEF Consistent, TablesAgree, TaskMatchesDetection, NoOrphanTask, Active
<1>5. \A d \in Contacts : AssignedHasTask(d)'
  BY <1>1 DEF Consistent, TablesAgree, AssignedHasTask, Active
<1>6. \A d \in Contacts : detStatus'[d] = "open" => detStation'[d] = NoStation
  BY <1>1 DEF Consistent, TablesAgree
<1> QED
  BY <1>2, <1>4, <1>5, <1>6 DEF TablesAgree

LEMMA RejectConsistent ==
  ASSUME TypeOK, Consistent, NEW t \in TaskIds, NEW actor, Reject(t, actor)
  PROVE  Consistent'
<1> USE DEF TypeOK
<1>1. taskContact[t] \in Contacts
  BY DEF Reject, Active, Consistent, NoOrphanTask
<1>2. IdsInOrder' /\ DueIsAccepted' /\ NoOrphanTask' /\ OneActiveTask' /\ TablesAgree'
  BY <1>1, EndingConsistent DEF Reject
<1>3. StampsTellTheStory'
  BY ZenonT(40) DEF Reject, Active, Consistent, StampsTellTheStory, StampsOf
<1> QED
  BY <1>2, <1>3 DEF Consistent

LEMMA CompleteConsistent ==
  ASSUME TypeOK, Consistent, NEW t \in TaskIds, NEW actor, Complete(t, actor)
  PROVE  Consistent'
<1> USE DEF TypeOK
<1>1. taskContact[t] \in Contacts
  BY DEF Complete, Active, Consistent, NoOrphanTask
<1>2. IdsInOrder' /\ DueIsAccepted' /\ NoOrphanTask' /\ OneActiveTask' /\ TablesAgree'
  BY <1>1, EndingConsistent DEF Complete
<1>3. StampsTellTheStory'
  BY ZenonT(40) DEF Complete, Active, Consistent, StampsTellTheStory, StampsOf
<1> QED
  BY <1>2, <1>3 DEF Consistent

LEMMA AdvanceConsistent ==
  ASSUME TypeOK, Consistent, NEW D \in SUBSET due, Advance(D)
  PROVE  Consistent'
<1> USE DEF TypeOK
<1>1. \A t \in D : t \in TaskIds /\ taskStatus[t] = "accepted" /\ taskContact[t] \in Contacts
  BY DEF Consistent, DueIsAccepted, NoOrphanTask
<1>2. \A t \in TaskIds :
        taskStatus'[t] = IF t \in D THEN "completed" ELSE taskStatus[t]
  BY DEF Advance
<1>3. \A c \in Contacts :
        detStatus'[c] = IF \E t \in D : taskContact[t] = c THEN "resolved" ELSE detStatus[c]
  BY DEF Advance
<1>4. UNCHANGED <<detStation, taskContact, taskStation, lastTask>> /\ due' = due \ D
  BY DEF Advance
<1>5. IdsInOrder' /\ DueIsAccepted' /\ OneActiveTask'
  BY <1>1, <1>2, <1>4 DEF Consistent, IdsInOrder, DueIsAccepted, OneActiveTask, Active
<1>6. NoOrphanTask'
  BY <1>1, <1>2, <1>3, <1>4 DEF Consistent, NoOrphanTask
<1>7. TablesAgree'
  <2>1. \A u \in TaskIds : Active(u)' => Active(u) /\ \A t \in D : taskContact[t] # taskContact[u]
    BY <1>1, <1>2 DEF Consistent, OneActiveTask, Active
  <2>2. \A u \in TaskIds : Active(u)' => TaskMatchesDetection(u)'
    BY <1>2, <1>3, <1>4, <2>1
    DEF Consistent, TablesAgree, TaskMatchesDetection, NoOrphanTask, Active
  <2>3. \A d \in Contacts : AssignedHasTask(d)'
    BY <1>1, <1>2, <1>3, <1>4 DEF Consistent, TablesAgree, AssignedHasTask, Active
  <2>4. \A d \in Contacts : detStatus'[d] = "open" => detStation'[d] = NoStation
    BY <1>3, <1>4 DEF Consistent, TablesAgree
  <2> QED
    BY <2>2, <2>3, <2>4 DEF TablesAgree
<1>8. StampsTellTheStory'
  BY <1>1 DEF Advance, Consistent, StampsTellTheStory, StampsOf
<1> QED
  BY <1>5, <1>6, <1>7, <1>8 DEF Consistent

LEMMA DeleteConsistent ==
  ASSUME TypeOK, Consistent, NEW c \in Contacts, Delete(c)
  PROVE  Consistent'
<1> USE DEF TypeOK
<1> DEFINE gone == {t \in TaskIds : taskStatus[t] # "none" /\ taskContact[t] = c}
<1>1. \A t \in TaskIds :
        /\ taskStatus'[t] = IF t \in gone THEN "none" ELSE taskStatus[t]
        /\ t \notin gone => /\ taskContact'[t] = taskContact[t]
                           /\ taskStation'[t] = taskStation[t]
        /\ taskStamps'[t] = IF t \in gone THEN {} ELSE taskStamps[t]
  BY DEF Delete
<1>2. /\ detStatus' = [detStatus EXCEPT ![c] = "absent"]
      /\ detStation' = [detStation EXCEPT ![c] = NoStation]
      /\ due' = due \ gone /\ lastTask' = lastTask
  BY DEF Delete
<1>3. IdsInOrder' /\ DueIsAccepted' /\ OneActiveTask'
  BY <1>1, <1>2 DEF Consistent, IdsInOrder, DueIsAccepted, OneActiveTask, Active
<1>4. NoOrphanTask'
  BY <1>1, <1>2 DEF Consistent, NoOrphanTask
<1>5. TablesAgree'
  <2>1. \A u \in TaskIds : Active(u)' => TaskMatchesDetection(u)'
    BY <1>1, <1>2 DEF Consistent, TablesAgree, TaskMatchesDetection, NoOrphanTask, Active
  <2>2. \A d \in Contacts : AssignedHasTask(d)'
    BY <1>1, <1>2 DEF Consistent, TablesAgree, AssignedHasTask, Active
  <2>3. \A d \in Contacts : detStatus'[d] = "open" => detStation'[d] = NoStation
    BY <1>2 DEF Consistent, TablesAgree
  <2> QED
    BY <2>1, <2>2, <2>3 DEF TablesAgree
<1>6. StampsTellTheStory'
  BY <1>1 DEF Consistent, StampsTellTheStory, StampsOf
<1> QED
  BY <1>3, <1>4, <1>5, <1>6 DEF Consistent

-----------------------------------------------------------------------------
LEMMA InitConsistent == Init => Consistent
BY BoundsAssumption
   DEF Init, Consistent, IdsInOrder, DueIsAccepted, NoOrphanTask, OneActiveTask,
       TablesAgree, AssignedHasTask, StampsTellTheStory, StampsOf, Active, TaskIds

LEMMA NextConsistent == TypeOK /\ Consistent /\ [Next]_vars => Consistent'
<1> SUFFICES ASSUME TypeOK, Consistent, [Next]_vars PROVE Consistent'
  OBVIOUS
<1>1. ASSUME NEW c \in Contacts, Report(c) PROVE Consistent'
  BY <1>1, ReportUnassignedConsistent, ReportReusedConsistent, ReportReassignedConsistent
  DEF Report
<1>2. ASSUME NEW t \in TaskIds, Elapse(t) PROVE Consistent'
  BY <1>2
  DEF Elapse, detVars, taskVars, TypeOK, Consistent, IdsInOrder, DueIsAccepted,
      NoOrphanTask, OneActiveTask, TablesAgree, TaskMatchesDetection, AssignedHasTask,
      StampsTellTheStory, Active
<1>3. ASSUME NEW s \in Stations, ChangeEligibility(s) PROVE Consistent'
  BY <1>3
  DEF ChangeEligibility, detVars, taskVars, Consistent, IdsInOrder, DueIsAccepted,
      NoOrphanTask, OneActiveTask, TablesAgree, TaskMatchesDetection, AssignedHasTask,
      StampsTellTheStory, Active
<1>4. CASE UNCHANGED vars
  BY <1>4
  DEF vars, detVars, taskVars, Consistent, IdsInOrder, DueIsAccepted, NoOrphanTask,
      OneActiveTask, TablesAgree, TaskMatchesDetection, AssignedHasTask,
      StampsTellTheStory, Active
<1> QED
  BY <1>1, <1>2, <1>3, <1>4, DeleteConsistent, AcceptConsistent, RejectConsistent,
     CompleteConsistent, AdvanceConsistent
  DEF Next

(* The inductive invariant holds in every reachable state.                 *)
THEOREM Invariance == Spec => []IInv
<1>1. Init => IInv
  BY InitTypeOK, InitConsistent DEF IInv
<1>2. IInv /\ [Next]_vars => IInv'
  BY NextTypeOK, NextConsistent DEF IInv
<1> QED
  BY <1>1, <1>2, PTL DEF Spec

(* As long as transactions do not overlap, a target never has two tasks in *)
(* force.                                                                  *)
THEOREM AtMostOneActiveTask == Spec => []OneActiveTask
<1>1. IInv => OneActiveTask
  BY DEF IInv, Consistent
<1> QED
  BY <1>1, Invariance, PTL

(* As long as transactions do not overlap, detections and tasks agree on   *)
(* who is sent to which target.                                            *)
THEOREM TablesAlwaysAgree == Spec => []TablesAgree
<1>1. IInv => TablesAgree
  BY DEF IInv, Consistent
<1> QED
  BY <1>1, Invariance, PTL

(* Every task row refers to a detection row and a station.                 *)
THEOREM NoTaskIsOrphan == Spec => []NoOrphanTask
<1>1. IInv => NoOrphanTask
  BY DEF IInv, Consistent
<1> QED
  BY <1>1, Invariance, PTL

(* The timestamps of a task agree with its status.                         *)
THEOREM StampsAgree == Spec => []StampsTellTheStory
<1>1. IInv => StampsTellTheStory
  BY DEF IInv, Consistent
<1> QED
  BY <1>1, Invariance, PTL

-----------------------------------------------------------------------------
(* Action properties *)

(* What a transaction may do to an ended task.                             *)
LEMMA NextKeepsEnded ==
  ASSUME IInv, Next, NEW t \in TaskIds, Terminal(t)
  PROVE  taskStatus'[t] \in {taskStatus[t], "none"}
<1> USE DEF IInv, TypeOK, Terminal
<1>1. ASSUME NEW c \in Contacts, Report(c)
      PROVE  taskStatus'[t] = taskStatus[t]
  <2>1. \A u \in CurrentTask(c) : Active(u)
    BY DEF CurrentTask, ActiveTasks
  <2>2. CASE ReportUnassigned(c)
    BY <2>1, <2>2 DEF ReportUnassigned, Expire, PendingOf, Active
  <2>3. ASSUME NEW s \in Stations, ReportReused(c, s)
        PROVE  taskStatus'[t] = taskStatus[t]
    BY <2>3 DEF ReportReused, taskVars
  <2>4. ASSUME NEW s \in Stations, ReportReassigned(c, s)
        PROVE  taskStatus'[t] = taskStatus[t]
    <3>1. lastTask + 1 \in TaskIds /\ lastTask + 1 > lastTask
      BY <2>4, BoundsAssumption DEF ReportReassigned, ExpireAndInsert, TaskIds
    <3>2. t # lastTask + 1
      BY <3>1 DEF Consistent, IdsInOrder
    <3> QED
      BY <2>1, <2>4, <3>2 DEF ReportReassigned, ExpireAndInsert, Expire, Active
  <2> QED
    BY <1>1, <2>2, <2>3, <2>4 DEF Report
<1>2. ASSUME NEW c \in Contacts, Delete(c)
      PROVE  taskStatus'[t] \in {taskStatus[t], "none"}
  BY <1>2 DEF Delete
<1>3. ASSUME NEW u \in TaskIds, NEW actor,
             Accept(u, actor) \/ Reject(u, actor) \/ Complete(u, actor) \/ Elapse(u)
      PROVE  taskStatus'[t] = taskStatus[t]
  BY <1>3 DEF Accept, Reject, Complete, Elapse, Active, taskVars
<1>4. ASSUME NEW D \in SUBSET due, Advance(D)
      PROVE  taskStatus'[t] = taskStatus[t]
  BY <1>4 DEF Advance, Consistent, DueIsAccepted
<1>5. ASSUME NEW s \in Stations, ChangeEligibility(s)
      PROVE  taskStatus'[t] = taskStatus[t]
  BY <1>5 DEF ChangeEligibility, taskVars
<1> QED
  BY <1>1, <1>2, <1>3, <1>4, <1>5 DEF Next

(* Rejected, completed and expired tasks never change status again.        *)
THEOREM EndedTasksStayEnded == Spec => TerminalIsFinal
<1>1. IInv /\ [Next]_vars =>
        [\A t \in TaskIds : Terminal(t) => taskStatus'[t] \in {taskStatus[t], "none"}]_vars
  BY NextKeepsEnded
<1> QED
  BY <1>1, Invariance, PTL DEF Spec, TerminalIsFinal

(* What a transaction that reopens a resolved target does.                 *)
LEMMA NextReopensFresh ==
  ASSUME IInv, Next, NEW c \in Contacts,
         detStatus[c] = "resolved", detStatus'[c] = "assigned"
  PROVE  /\ lastTask' = lastTask + 1
         /\ taskStatus'[lastTask'] = "pending"
         /\ taskContact'[lastTask'] = c
<1> USE DEF IInv, TypeOK
<1>1. ActiveTasks(c) = {}
  BY DEF Consistent, TablesAgree, TaskMatchesDetection, ActiveTasks
<1>2. \A d \in Contacts : ~ReportUnassigned(d) /\ ~Delete(d)
  BY DEF ReportUnassigned, Delete
<1>3. \A t \in TaskIds : \A actor : ~Reject(t, actor) /\ ~Complete(t, actor) /\ ~Elapse(t)
  BY DEF Reject, Complete, Elapse, detVars
<1>4. \A t \in TaskIds : \A actor : ~Accept(t, actor)
  BY <1>1 DEF Accept, ActiveTasks, Active
<1>5. \A D \in SUBSET due : ~Advance(D)
  BY DEF Advance
<1>6. \A s \in Stations : ~ChangeEligibility(s)
  BY DEF ChangeEligibility, detVars
<1>7. PICK d \in Contacts, s \in Stations : ReportReused(d, s) \/ ReportReassigned(d, s)
  BY <1>2, <1>3, <1>4, <1>5, <1>6 DEF Next, Report
<1>8. d = c
  BY <1>7 DEF ReportReused, ReportReassigned, Assign
<1>9. ReportReassigned(c, s)
  BY <1>1, <1>7, <1>8 DEF ReportReused, CurrentTask
<1>10. lastTask + 1 \in TaskIds
  BY <1>9, BoundsAssumption DEF ReportReassigned, ExpireAndInsert, TaskIds
<1> QED
  BY <1>9, <1>10 DEF ReportReassigned, ExpireAndInsert, Expire

(* A resolved target is engaged again only through a new pending task.     *)
THEOREM ReopeningIsFresh == Spec => ReopensWithFreshTask
<1>1. IInv /\ [Next]_vars =>
        [\A c \in Contacts :
           detStatus[c] = "resolved" /\ detStatus'[c] = "assigned" =>
             /\ lastTask' = lastTask + 1
             /\ taskStatus'[lastTask'] = "pending"
             /\ taskContact'[lastTask'] = c]_vars
  BY NextReopensFresh
<1> QED
  BY <1>1, Invariance, PTL DEF Spec, ReopensWithFreshTask

-----------------------------------------------------------------------------
(* The choice of the station *)

LEMMA OpenTaskCountType == \A s : OpenTaskCount(s) \in Nat
<1> SUFFICES ASSUME NEW s PROVE OpenTaskCount(s) \in Nat
  OBVIOUS
<1>1. IsFiniteSet(TaskIds)
  BY FS_Interval, BoundsAssumption DEF TaskIds
<1>2. IsFiniteSet({t \in TaskIds : Active(t) /\ taskStation[t] = s})
  BY <1>1, FS_Subset
<1> QED
  BY <1>2, FS_CardinalityType DEF OpenTaskCount

(* No report leaves a choice between two stations: whatever the distances  *)
(* and loads, at most one station is the nearest.                          *)
THEOREM NearestAtMostOne ==
  ASSUME NEW distance \in [Stations -> Nat], eligible \subseteq Stations,
         NEW s, NEW u, Nearest(s, distance), Nearest(u, distance)
  PROVE  s = u
<1>1. /\ s \in Stations /\ u \in Stations
      /\ distance[s] \in Nat /\ distance[u] \in Nat
      /\ s \in Nat /\ u \in Nat
  BY StationsAssumption DEF Nearest
<1>2. s # u => Precedes(s, u, distance) /\ Precedes(u, s, distance)
  BY DEF Nearest
<1> QED
  BY <1>1, <1>2, OpenTaskCountType DEF Precedes

LEMMA LeastMember ==
  ASSUME NEW S \in SUBSET Nat, S # {}
  PROVE  \E m \in S : \A n \in S : m <= n
<1> DEFINE R == OpToRel(<, Nat)
<1>1. IsWellFoundedOn(R, Nat)
  BY NatLessThanWellFounded
<1>2. \A x, y \in Nat : y < x => <<y, x>> \in R
  BY DEF OpToRel
<1> HIDE DEF R
<1>3. PICK m \in S : \A y \in S : ~ (<<y, m>> \in R)
  BY <1>1, WFMin
<1>4. \A n \in S : m \in Nat /\ n \in Nat /\ ~ (n < m)
  BY <1>2, <1>3
<1>5. \A n \in S : m <= n
  BY <1>4
<1> QED
  BY <1>3, <1>5

(* The least distance, the least load among those, the least name among    *)
(* those: some eligible station precedes all others.                       *)
LEMMA NearestExists ==
  ASSUME NEW distance \in [Stations -> Nat], eligible \subseteq Stations, eligible # {}
  PROVE  \E s \in eligible : Nearest(s, distance)
<1>1. \A s \in eligible : distance[s] \in Nat /\ OpenTaskCount(s) \in Nat /\ s \in Nat
  BY StationsAssumption, OpenTaskCountType
<1>2. PICK a \in eligible : \A s \in eligible : distance[a] <= distance[s]
  <2> DEFINE S == {distance[s] : s \in eligible}
  <2>1. S \in SUBSET Nat /\ S # {}
    BY <1>1
  <2>2. \E m \in S : \A n \in S : m <= n
    BY <2>1, LeastMember
  <2> QED
    BY <2>2
<1> DEFINE near == {s \in eligible : distance[s] = distance[a]}
<1>3. PICK b \in near : \A s \in near : OpenTaskCount(b) <= OpenTaskCount(s)
  <2> DEFINE S == {OpenTaskCount(s) : s \in near}
  <2>1. S \in SUBSET Nat /\ S # {}
    BY <1>1
  <2>2. \E m \in S : \A n \in S : m <= n
    BY <2>1, LeastMember
  <2> QED
    BY <2>2
<1> DEFINE free == {s \in near : OpenTaskCount(s) = OpenTaskCount(b)}
<1>4. PICK c \in free : \A s \in free : c <= s
  <2>1. free \in SUBSET Nat /\ free # {}
    BY <1>1, <1>3
  <2> QED
    BY <2>1, LeastMember
<1>5. ASSUME NEW u \in eligible \ {c} PROVE Precedes(c, u, distance)
  <2>1. distance[c] = distance[a] /\ distance[a] <= distance[u]
    BY <1>2, <1>4
  <2>2. CASE distance[c] < distance[u]
    BY <2>2 DEF Precedes
  <2>3. CASE distance[c] = distance[u]
    <3>1. u \in near /\ OpenTaskCount(c) = OpenTaskCount(b) /\ OpenTaskCount(b) <= OpenTaskCount(u)
      BY <1>3, <1>4, <2>1, <2>3
    <3>2. CASE OpenTaskCount(c) < OpenTaskCount(u)
      BY <2>3, <3>2 DEF Precedes
    <3>3. CASE OpenTaskCount(c) = OpenTaskCount(u)
      <4>1. u \in free /\ c <= u /\ c # u
        BY <1>4, <3>1, <3>3
      <4>2. c < u
        BY <1>1, <1>4, <4>1
      <4> QED
        BY <2>3, <3>3, <4>2 DEF Precedes
    <3> QED
      BY <1>1, <1>4, <3>1, <3>2, <3>3
  <2> QED
    BY <1>1, <1>2, <1>4, <2>1, <2>2, <2>3
<1> QED
  BY <1>4, <1>5 DEF Nearest

LEMMA TypedNearestUnique == TypeOK => NearestIsUnique
<1> SUFFICES ASSUME TypeOK, eligible # {}, NEW distance \in [Stations -> 0 .. MaxDistance]
             PROVE  \E s \in eligible : \A u \in eligible : Nearest(u, distance) <=> u = s
  BY DEF NearestIsUnique
<1>1. distance \in [Stations -> Nat] /\ eligible \subseteq Stations
  BY BoundsAssumption DEF TypeOK
<1>2. PICK s \in eligible : Nearest(s, distance)
  BY <1>1, NearestExists
<1>3. \A u : Nearest(u, distance) => u = s
  BY <1>1, <1>2, NearestAtMostOne
<1> QED
  BY <1>2, <1>3

(* Whatever the distances of a report, one eligible station is the nearest *)
(* and no other (choose_nearest_operator_station).                         *)
THEOREM OneNearest == Spec => []NearestIsUnique
BY TypedNearestUnique, Typing, PTL
=============================================================================
