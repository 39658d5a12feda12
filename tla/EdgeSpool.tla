------------------------------ MODULE EdgeSpool ------------------------------
(***************************************************************************)
(* The edge agent beside the drone's autopilot: one thread that, for each  *)
(* item of its input, signs a packet, writes it to the outbox of a SQLite  *)
(* spool and then sends what the outbox holds (edge_agent/runner.py,       *)
(* spool.py).  It may stop at any point; the spool stays.                  *)
(*                                                                         *)
(* A packet is the number of its row: packets are made, and rows fetched,  *)
(* in ascending order.  Its signature, nonce and timestamp are made once,  *)
(* with the packet.                                                        *)
(***************************************************************************)
EXTENDS Naturals, FiniteSets

CONSTANTS
  MaxPackets,     (* bound                                                 *)
  QueueMax,       (* queue_max                                             *)
  BatchSize,      (* flush_batch_size                                      *)
  MaxAttempts,    (* retry_max_attempts                                    *)
  MaxCrashes      (* bound                                                 *)

ASSUME EdgeAssumption ==
  /\ {MaxPackets, MaxCrashes} \subseteq Nat
  /\ {QueueMax, BatchSize, MaxAttempts} \subseteq Nat \ {0}

Packets == 1 .. MaxPackets

(* DeliveryResult: a 2xx, a 5xx or no answer, any other answer.             *)
Results == {"delivered", "retryable", "refused"}

VARIABLES
  made,       (* the packets made so far are 1 .. made                     *)
  outbox,     (* table outbox                                              *)
  dropped,    (* packets that found the outbox full                        *)
  waiting,    (* its rows with next_retry_at in the future                 *)
  attempts,   (* column attempts of both tables                            *)
  dead,       (* table dead_letter                                         *)
  at,         (* where the thread is: after a request, with its result     *)
  batch,      (* the rows it fetched and has not dealt with                *)
  crashes

edgeVars == <<made, outbox, dropped, waiting, attempts, dead, at, batch, crashes>>

EdgeTypeOK ==
  /\ made \in 0 .. MaxPackets
  /\ outbox \subseteq Packets
  /\ dropped \subseteq Packets
  /\ waiting \subseteq Packets
  /\ attempts \in [Packets -> 0 .. MaxAttempts]
  /\ dead \subseteq Packets
  /\ at \in {"input", "fetch", "send", "wait"} \cup Results
  /\ batch \subseteq Packets
  /\ crashes \in 0 .. MaxCrashes

EdgeInit ==
  /\ made = 0
  /\ outbox = {}
  /\ dropped = {}
  /\ waiting = {}
  /\ attempts = [p \in Packets |-> 0]
  /\ dead = {}
  /\ at = "input"
  /\ batch = {}
  /\ crashes = 0

Oldest(rows) == CHOOSE p \in rows : \A q \in rows : p <= q

Current == Oldest(batch)

-----------------------------------------------------------------------------
(* run, _enqueue_payload: the newest packet is dropped when the spool is    *)
(* full.                                                                    *)
Emit ==
  /\ at = "input"
  /\ made < MaxPackets
  /\ made' = made + 1
  /\ IF Cardinality(outbox) < QueueMax
     THEN outbox' = outbox \cup {made + 1} /\ dropped' = dropped
     ELSE dropped' = dropped \cup {made + 1} /\ outbox' = outbox
  /\ at' = "fetch"
  /\ UNCHANGED <<waiting, attempts, dead, batch, crashes>>

(* An item that comes too soon, or that cannot be normalised.               *)
SkipItem ==
  /\ at = "input"
  /\ at' = "fetch"
  /\ UNCHANGED <<made, outbox, dropped, waiting, attempts, dead, batch, crashes>>

Ready == outbox \ waiting

FetchReady ==
  /\ at = "fetch"
  /\ batch' = {p \in Ready : Cardinality({q \in Ready : q < p}) < BatchSize}
  /\ at' = IF Ready = {} THEN "input" ELSE "send"
  /\ UNCHANGED <<made, outbox, dropped, waiting, attempts, dead, crashes>>

Send ==
  /\ at = "send"
  /\ at' = "wait"
  /\ UNCHANGED <<made, outbox, dropped, waiting, attempts, dead, batch, crashes>>

Receive(r) ==
  /\ at = "wait"
  /\ at' = r
  /\ UNCHANGED <<made, outbox, dropped, waiting, attempts, dead, batch, crashes>>

Done ==
  /\ batch' = batch \ {Current}
  /\ at' = IF batch = {Current} THEN "input" ELSE "send"
  /\ UNCHANGED <<made, dropped, crashes>>

MarkSuccess ==
  /\ at = "delivered"
  /\ Done
  /\ outbox' = outbox \ {Current}
  /\ UNCHANGED <<waiting, attempts, dead>>

(* Faulty variant: a retry is not counted.                                  *)
MarkRetryUncounted ==
  /\ at = "retryable"
  /\ Done
  /\ attempts[Current] + 1 < MaxAttempts
  /\ waiting' = waiting \cup {Current}
  /\ UNCHANGED <<outbox, attempts, dead>>

(* Faulty variant: attempts are not limited.                                *)
MarkRetryForever ==
  /\ at = "retryable"
  /\ Done
  /\ attempts' = [attempts EXCEPT ![Current] = @ + 1]
  /\ waiting' = waiting \cup {Current}
  /\ UNCHANGED <<outbox, dead>>

MarkRetry ==
  /\ at = "retryable"
  /\ Done
  /\ attempts[Current] + 1 < MaxAttempts
  /\ attempts' = [attempts EXCEPT ![Current] = @ + 1]
  /\ waiting' = waiting \cup {Current}
  /\ UNCHANGED <<outbox, dead>>

(* Faulty variant: the attempts before this one are compared, and not       *)
(* counted as one more.                                                     *)
MoveEarly ==
  /\ \/ at = "refused"
     \/ at = "retryable" /\ attempts[Current] + 2 >= MaxAttempts
  /\ Done
  /\ attempts' = [attempts EXCEPT ![Current] = @ + 1]
  /\ outbox' = outbox \ {Current}
  /\ dead' = dead \cup {Current}
  /\ UNCHANGED waiting

(* Faulty variant: the row is not deleted.                                  *)
CopyToDeadLetter ==
  /\ \/ at = "refused"
     \/ at = "retryable" /\ attempts[Current] + 1 >= MaxAttempts
  /\ Done
  /\ attempts' = [attempts EXCEPT ![Current] = @ + 1]
  /\ dead' = dead \cup {Current}
  /\ UNCHANGED <<outbox, waiting>>

MoveToDeadLetter ==
  /\ \/ at = "refused"
     \/ at = "retryable" /\ attempts[Current] + 1 >= MaxAttempts
  /\ Done
  /\ attempts' = [attempts EXCEPT ![Current] = @ + 1]
  /\ outbox' = outbox \ {Current}
  /\ dead' = dead \cup {Current}
  /\ UNCHANGED waiting

Mark == MarkSuccess \/ MarkRetry \/ MoveToDeadLetter

(* The backoff of a row ends.                                               *)
BackoffEnds(p) ==
  /\ p \in waiting
  /\ waiting' = waiting \ {p}
  /\ UNCHANGED <<made, outbox, dropped, attempts, dead, at, batch, crashes>>

(* The process stops, and is started again.                                 *)
Crash ==
  /\ at # "input"
  /\ crashes < MaxCrashes
  /\ crashes' = crashes + 1
  /\ at' = "input"
  /\ batch' = {}
  /\ UNCHANGED <<made, outbox, dropped, waiting, attempts, dead>>

EdgeNext ==
  \/ Emit \/ SkipItem \/ FetchReady \/ Send
  \/ \E r \in Results : Receive(r)
  \/ Mark
  \/ \E p \in Packets : BackoffEnds(p)
  \/ Crash

EdgeSpec == EdgeInit /\ [][EdgeNext]_edgeVars

(* The autopilot goes on sending items, the thread goes on, a request is    *)
(* answered or times out.                                                   *)
EdgeFairness ==
  /\ WF_edgeVars(SkipItem) /\ WF_edgeVars(FetchReady) /\ WF_edgeVars(Send)
  /\ WF_edgeVars(\E r \in Results : Receive(r))
  /\ WF_edgeVars(Mark)
  /\ \A p \in Packets : WF_edgeVars(BackoffEnds(p))

EdgeFairSpec == EdgeSpec /\ EdgeFairness

-----------------------------------------------------------------------------
(* Properties *)

(* The rows that the thread has fetched are still in the outbox, as it read *)
(* them, and none of them has a dead letter: a packet is given up once,     *)
(* after which it is not sent again.  The outbox never holds more than      *)
(* queue_max rows, and what it had no room for is nowhere.                  *)
RowsAreWhereTheyBelong ==
  /\ Cardinality(outbox) <= QueueMax
  /\ batch \subseteq outbox
  /\ outbox \cap dead = {}
  /\ waiting \subseteq outbox
  /\ outbox \cup dead \cup dropped \subseteq 1 .. made
  /\ dropped \cap (outbox \cup dead) = {}
  /\ \A p \in outbox : attempts[p] < MaxAttempts

(* Every packet in the outbox leaves it, delivered or given up, whatever    *)
(* the receiver answers and how often the agent is restarted: no packet is  *)
(* kept from being sent by others that fail.                                *)
OutboxDrains == \A p \in Packets : p \in outbox ~> p \notin outbox
=============================================================================
