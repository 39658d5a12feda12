--------------------------- MODULE EdgeSpoolProofs ---------------------------
(***************************************************************************)
(* What holds of the edge agent, whatever it is answered, for any number   *)
(* of packets, attempts and restarts: a row of its spool is where it       *)
(* belongs.                                                                *)
(***************************************************************************)
EXTENDS EdgeSpool, FiniteSetTheorems, WellFoundedInduction, TLAPS

(* What makes it inductive: the thread deals only with rows it fetched as  *)
(* ready, of which there is one as long as it is sending, and a packet     *)
(* that is not made yet has no attempts.                                   *)
Sending == at \in {"send", "wait"} \cup Results

BatchIsReady ==
  /\ batch \cap waiting = {}
  /\ Sending => batch # {}

UnmadeIsUntried == \A p \in Packets : p > made => attempts[p] = 0

EdgeInv == EdgeTypeOK /\ RowsAreWhereTheyBelong /\ BatchIsReady /\ UnmadeIsUntried

LEMMA EdgeConstants ==
  /\ MaxPackets \in Nat /\ MaxCrashes \in Nat
  /\ QueueMax \in Nat \ {0} /\ BatchSize \in Nat \ {0} /\ MaxAttempts \in Nat \ {0}
  BY EdgeAssumption

-----------------------------------------------------------------------------
(* The oldest of some rows *)

LEMMA Least ==
  ASSUME NEW rows \in SUBSET Packets, rows # {}
  PROVE  \E p \in rows : \A q \in rows : p <= q
<1> DEFINE R == OpToRel(<, Nat)
<1>1. rows \subseteq Nat
  BY EdgeConstants DEF Packets
<1>2. IsWellFoundedOn(R, Nat)
  BY NatLessThanWellFounded
<1>3. \A x, y \in Nat : y < x => <<y, x>> \in R
  BY DEF OpToRel
<1> HIDE DEF R
<1>4. PICK x \in rows : \A y \in rows : ~ (<<y, x>> \in R)
  BY <1>1, <1>2, WFMin
<1>5. \A y \in rows : ~ (y < x)
  BY <1>1, <1>3, <1>4
<1>6. \A y \in rows : x <= y
  BY <1>1, <1>5
<1> QED
  BY <1>6

LEMMA OldestIsOne ==
  ASSUME NEW rows \in SUBSET Packets, rows # {}
  PROVE  Oldest(rows) \in rows
  BY Least DEF Oldest

LEMMA CurrentIsReady ==
  ASSUME EdgeInv, Sending
  PROVE  /\ Current \in batch /\ Current \in outbox /\ Current \notin waiting
         /\ Current \in 1 .. made /\ Current \in Packets
         /\ attempts[Current] \in Nat /\ attempts[Current] + 1 <= MaxAttempts
<1>1. Current \in batch
  BY OldestIsOne DEF Current, EdgeInv, EdgeTypeOK, BatchIsReady
<1>2. Current \in outbox /\ Current \notin waiting /\ Current \in 1 .. made /\ Current \in Packets
  BY <1>1 DEF EdgeInv, EdgeTypeOK, RowsAreWhereTheyBelong, BatchIsReady
<1>3. attempts[Current] \in Nat /\ attempts[Current] < MaxAttempts
  BY <1>2, EdgeConstants DEF EdgeInv, EdgeTypeOK, RowsAreWhereTheyBelong
<1> QED
  BY <1>1, <1>2, <1>3, EdgeConstants

LEMMA FetchIsNotEmpty ==
  ASSUME EdgeTypeOK, Ready # {}
  PROVE  {p \in Ready : Cardinality({q \in Ready : q < p}) < BatchSize} # {}
<1>1. Ready \subseteq Packets
  BY DEF Ready, EdgeTypeOK
<1>2. PICK p \in Ready : \A q \in Ready : p <= q
  BY <1>1, Least
<1>3. {q \in Ready : q < p} = {}
  <2>1. \A q \in Ready : q \in Nat
    BY <1>1, EdgeConstants DEF Packets
  <2>2. \A q \in Ready : ~ (q < p)
    BY <1>2, <2>1
  <2> QED
    BY <2>2
<1>4. Cardinality({}) = 0
  BY FS_EmptySet
<1>5. Cardinality({q \in Ready : q < p}) < BatchSize
  BY <1>3, <1>4, EdgeConstants
<1> QED
  BY <1>2, <1>5

LEMMA PacketsAreFinite == IsFiniteSet(Packets)
<1>1. 1 \in Int /\ MaxPackets \in Int
  BY EdgeConstants
<1> QED
  BY <1>1, FS_Interval DEF Packets

(* Some of the rows of an outbox within its limit are within it, too.       *)
LEMMA FewerRows ==
  ASSUME EdgeTypeOK, Cardinality(outbox) <= QueueMax, NEW rows \in SUBSET outbox
  PROVE  Cardinality(rows) <= QueueMax
<1>1. IsFiniteSet(outbox)
  BY PacketsAreFinite, FS_Subset DEF EdgeTypeOK
<1>2. /\ Cardinality(outbox) \in Nat /\ Cardinality(rows) \in Nat
      /\ Cardinality(rows) <= Cardinality(outbox)
  BY <1>1, FS_Subset, FS_CardinalityType
<1> QED
  BY <1>2, EdgeConstants

LEMMA OneMoreRow ==
  ASSUME EdgeTypeOK, Cardinality(outbox) < QueueMax, NEW p
  PROVE  Cardinality(outbox \cup {p}) <= QueueMax
<1>1. IsFiniteSet(outbox)
  BY PacketsAreFinite, FS_Subset DEF EdgeTypeOK
<1>2. /\ Cardinality(outbox) \in Nat
      /\ \/ Cardinality(outbox \cup {p}) = Cardinality(outbox)
         \/ Cardinality(outbox \cup {p}) = Cardinality(outbox) + 1
  BY <1>1, FS_AddElement, FS_CardinalityType
<1> QED
  BY <1>2, EdgeConstants

-----------------------------------------------------------------------------
(* The invariant *)

LEMMA EdgeInvInit == EdgeInit => EdgeInv
  BY EdgeConstants, FS_EmptySet
  DEF EdgeInit, EdgeInv, EdgeTypeOK, RowsAreWhereTheyBelong, BatchIsReady, UnmadeIsUntried,
      Sending, Results, Packets

LEMMA EmitInv ==
  ASSUME EdgeInv, Emit
  PROVE  EdgeInv'
<1> USE EdgeConstants DEF Packets
<1>1. made' = made + 1 /\ made + 1 \in Packets /\ made \in Nat
      /\ UNCHANGED <<waiting, attempts, dead, batch, crashes>> /\ at' = "fetch"
  BY DEF Emit, EdgeInv, EdgeTypeOK
<1>2. made + 1 \notin outbox \cup dead \cup dropped /\ attempts[made + 1] = 0
  BY <1>1 DEF EdgeInv, RowsAreWhereTheyBelong, UnmadeIsUntried
<1>3. \/ outbox' = outbox \cup {made + 1} /\ dropped' = dropped
      \/ dropped' = dropped \cup {made + 1} /\ outbox' = outbox
  BY DEF Emit
<1>4. EdgeTypeOK'
  <2>1. made' \in 0 .. MaxPackets
    BY <1>1
  <2>2. outbox' \subseteq Packets /\ dropped' \subseteq Packets
    BY <1>1, <1>3 DEF EdgeInv, EdgeTypeOK
  <2> QED
    BY <1>1, <2>1, <2>2 DEF EdgeInv, EdgeTypeOK
<1>c. Cardinality(outbox') <= QueueMax
  BY <1>1, OneMoreRow DEF Emit, EdgeInv, RowsAreWhereTheyBelong
<1>5. RowsAreWhereTheyBelong'
  BY <1>1, <1>2, <1>3, <1>c DEF EdgeInv, RowsAreWhereTheyBelong
<1>6. BatchIsReady' /\ UnmadeIsUntried'
  BY <1>1 DEF EdgeInv, BatchIsReady, UnmadeIsUntried, Sending, Results
<1> QED
  BY <1>4, <1>5, <1>6 DEF EdgeInv

LEMMA FetchInv ==
  ASSUME EdgeInv, FetchReady
  PROVE  EdgeInv'
<1>1. batch' \subseteq Ready
  BY DEF FetchReady
<1>2. Sending' => batch' # {}
  BY FetchIsNotEmpty DEF FetchReady, EdgeInv, Sending, Results
<1>3. UNCHANGED <<made, outbox, dropped, waiting, attempts, dead, crashes>> /\ at' \in {"input", "send"}
  BY DEF FetchReady
<1>4. EdgeTypeOK'
  BY <1>1, <1>3 DEF EdgeInv, EdgeTypeOK, Ready
<1>5. RowsAreWhereTheyBelong' /\ BatchIsReady' /\ UnmadeIsUntried'
  BY <1>1, <1>2, <1>3 DEF EdgeInv, RowsAreWhereTheyBelong, BatchIsReady, UnmadeIsUntried, Ready
<1> QED
  BY <1>4, <1>5 DEF EdgeInv

(* What the three ways of dealing with a row have in common.                *)
LEMMA DoneInv ==
  ASSUME EdgeInv, Sending, Done
  PROVE  /\ UNCHANGED <<made, dropped, crashes>>
         /\ batch' = batch \ {Current}
         /\ at' \in {"input", "send"}
         /\ Sending' => batch' # {}
<1>1. CASE batch = {Current}
  BY <1>1 DEF Done, Sending, Results
<1>2. CASE batch # {Current}
  <2>1. batch \ {Current} # {}
    BY <1>2, CurrentIsReady
  <2> QED
    BY <1>2, <2>1 DEF Done
<1> QED
  BY <1>1, <1>2

LEMMA MarkInv ==
  ASSUME EdgeInv, Mark
  PROVE  EdgeInv'
<1> USE EdgeConstants
<1>1. Sending /\ Done
  BY DEF Mark, MarkSuccess, MarkRetry, MoveToDeadLetter, Sending, Results
<1>2. /\ UNCHANGED <<made, dropped, crashes>>
      /\ batch' = batch \ {Current}
      /\ at' \in {"input", "send"}
      /\ Sending' => batch' # {}
  BY <1>1, DoneInv
<1>3. /\ Current \in batch /\ Current \in outbox /\ Current \notin waiting
      /\ Current \in 1 .. made /\ Current \in Packets
      /\ attempts[Current] \in Nat /\ attempts[Current] + 1 <= MaxAttempts
  BY <1>1, CurrentIsReady
<1>4. CASE MarkSuccess
  <2>1. outbox' = outbox \ {Current} /\ UNCHANGED <<waiting, attempts, dead>>
    BY <1>4 DEF MarkSuccess
  <2>2. EdgeTypeOK'
    BY <1>2, <2>1 DEF EdgeInv, EdgeTypeOK
  <2>c. Cardinality(outbox') <= QueueMax
    BY <2>1, FewerRows DEF EdgeInv, RowsAreWhereTheyBelong
  <2>3. RowsAreWhereTheyBelong' /\ BatchIsReady' /\ UnmadeIsUntried'
    BY <1>2, <1>3, <2>1, <2>c DEF EdgeInv, RowsAreWhereTheyBelong, BatchIsReady, UnmadeIsUntried
  <2> QED
    BY <2>2, <2>3 DEF EdgeInv
<1>5. CASE MarkRetry
  <2>1. /\ waiting' = waiting \cup {Current} /\ UNCHANGED <<outbox, dead>>
        /\ attempts' = [attempts EXCEPT ![Current] = @ + 1]
        /\ attempts[Current] + 1 < MaxAttempts
    BY <1>5 DEF MarkRetry
  <2>2. /\ attempts' \in [Packets -> 0 .. MaxAttempts]
        /\ attempts'[Current] = attempts[Current] + 1
        /\ \A p \in Packets \ {Current} : attempts'[p] = attempts[p]
    BY <1>3, <2>1 DEF EdgeInv, EdgeTypeOK
  <2>3. EdgeTypeOK'
    BY <1>2, <1>3, <2>1, <2>2 DEF EdgeInv, EdgeTypeOK
  <2>4. RowsAreWhereTheyBelong'
    <3>1. \A p \in outbox' : attempts'[p] < MaxAttempts
      BY <2>1, <2>2 DEF EdgeInv, EdgeTypeOK, RowsAreWhereTheyBelong
    <3> QED
      BY <1>2, <1>3, <2>1, <3>1 DEF EdgeInv, RowsAreWhereTheyBelong
  <2>5. BatchIsReady'
    BY <1>2, <2>1 DEF EdgeInv, BatchIsReady
  <2>6. UnmadeIsUntried'
    BY <1>2, <1>3, <2>2 DEF EdgeInv, EdgeTypeOK, UnmadeIsUntried
  <2> QED
    BY <2>3, <2>4, <2>5, <2>6 DEF EdgeInv
<1>6. CASE MoveToDeadLetter
  <2>1. /\ outbox' = outbox \ {Current} /\ dead' = dead \cup {Current} /\ waiting' = waiting
        /\ attempts' = [attempts EXCEPT ![Current] = @ + 1]
    BY <1>6 DEF MoveToDeadLetter
  <2>2. /\ attempts' \in [Packets -> 0 .. MaxAttempts]
        /\ \A p \in Packets \ {Current} : attempts'[p] = attempts[p]
    BY <1>3, <2>1 DEF EdgeInv, EdgeTypeOK
  <2>3. EdgeTypeOK'
    BY <1>2, <1>3, <2>1, <2>2 DEF EdgeInv, EdgeTypeOK
  <2>4. RowsAreWhereTheyBelong'
    <3>1. \A p \in outbox' : attempts'[p] < MaxAttempts
      BY <2>1, <2>2 DEF EdgeInv, EdgeTypeOK, RowsAreWhereTheyBelong
    <3>2. Current \notin dropped
      BY <1>3 DEF EdgeInv, RowsAreWhereTheyBelong
    <3>3. Cardinality(outbox') <= QueueMax
      BY <2>1, FewerRows DEF EdgeInv, RowsAreWhereTheyBelong
    <3> QED
      BY <1>2, <1>3, <2>1, <3>1, <3>2, <3>3 DEF EdgeInv, RowsAreWhereTheyBelong
  <2>5. BatchIsReady'
    BY <1>2, <2>1 DEF EdgeInv, BatchIsReady
  <2>6. UnmadeIsUntried'
    BY <1>2, <1>3, <2>2 DEF EdgeInv, EdgeTypeOK, UnmadeIsUntried
  <2> QED
    BY <2>3, <2>4, <2>5, <2>6 DEF EdgeInv
<1> QED
  BY <1>4, <1>5, <1>6 DEF Mark

LEMMA EdgeInvStep == EdgeInv /\ [EdgeNext]_edgeVars => EdgeInv'
<1> SUFFICES ASSUME EdgeInv, [EdgeNext]_edgeVars PROVE EdgeInv'
  OBVIOUS
<1> USE EdgeConstants
<1>1. CASE UNCHANGED edgeVars
  BY <1>1 DEF edgeVars, EdgeInv, EdgeTypeOK, RowsAreWhereTheyBelong, BatchIsReady, UnmadeIsUntried, Sending
<1>2. CASE Emit
  BY <1>2, EmitInv
<1>3. CASE SkipItem
  BY <1>3 DEF SkipItem, EdgeInv, EdgeTypeOK, RowsAreWhereTheyBelong, BatchIsReady, UnmadeIsUntried,
              Sending, Results
<1>4. CASE FetchReady
  BY <1>4, FetchInv
<1>5. CASE Send
  BY <1>5 DEF Send, EdgeInv, EdgeTypeOK, RowsAreWhereTheyBelong, BatchIsReady, UnmadeIsUntried, Sending
<1>6. ASSUME NEW r \in Results, Receive(r) PROVE EdgeInv'
  BY <1>6 DEF Receive, EdgeInv, EdgeTypeOK, RowsAreWhereTheyBelong, BatchIsReady, UnmadeIsUntried, Sending
<1>7. CASE Mark
  BY <1>7, MarkInv
<1>8. ASSUME NEW p \in Packets, BackoffEnds(p) PROVE EdgeInv'
  BY <1>8 DEF BackoffEnds, EdgeInv, EdgeTypeOK, RowsAreWhereTheyBelong, BatchIsReady, UnmadeIsUntried, Sending
<1>9. CASE Crash
  <2>1. crashes' \in 0 .. MaxCrashes
    BY <1>9 DEF Crash, EdgeInv, EdgeTypeOK
  <2> QED
    BY <1>9, <2>1 DEF Crash, EdgeInv, EdgeTypeOK, RowsAreWhereTheyBelong, BatchIsReady, UnmadeIsUntried,
                      Sending, Results
<1> QED
  BY <1>1, <1>2, <1>3, <1>4, <1>5, <1>6, <1>7, <1>8, <1>9 DEF EdgeNext

LEMMA EdgeInvHolds == EdgeSpec => []EdgeInv
  BY EdgeInvInit, EdgeInvStep, PTL DEF EdgeSpec

(* Every reachable state of the edge agent is well typed: a row is tried    *)
(* retry_max_attempts times at most.                                        *)
THEOREM EdgeTyping == EdgeSpec => []EdgeTypeOK
<1>1. EdgeInv => EdgeTypeOK
  BY DEF EdgeInv
<1> QED
  BY <1>1, EdgeInvHolds, PTL

(* The thread deals with rows that are in the outbox, of which there are at *)
(* most queue_max, and a packet that was given up is not in it again.       *)
THEOREM RowsStayInPlace == EdgeSpec => []RowsAreWhereTheyBelong
<1>1. EdgeInv => RowsAreWhereTheyBelong
  BY DEF EdgeInv
<1> QED
  BY <1>1, EdgeInvHolds, PTL
=============================================================================
