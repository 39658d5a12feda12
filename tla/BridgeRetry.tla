----------------------------- MODULE BridgeRetry -----------------------------
(***************************************************************************)
(* The bridge between the vehicles and the API: handlers that forward a    *)
(* packet and queue it in Redis when the API cannot take it                *)
(* (bridge/main.py), one worker that tries again what is queued            *)
(* (worker.py), and the queue itself (queue.py).  Redis and the API may    *)
(* fail; the process may be restarted, its queue stays in Redis.           *)
(*                                                                         *)
(* What a forward comes to is chosen by who composes this module with an   *)
(* API.  Redis does not answer at times: Faults bounds how often.          *)
(***************************************************************************)
EXTENDS Naturals, Sequences, FiniteSets

CONSTANTS
  Handlers,             (* requests in progress                            *)
  NoHandler,
  Envelopes,            (* the packets that may be queued                  *)
  BridgeQueueMax,       (* bridge_queue_max                                *)
  BridgeMaxAttempts,    (* bridge_retry_max_attempts                       *)
  MaxFaults             (* bound                                           *)

ASSUME BridgeAssumption ==
  /\ NoHandler \notin Handlers
  /\ IsFiniteSet(Handlers)
  /\ {BridgeQueueMax, BridgeMaxAttempts} \subseteq Nat \ {0}
  /\ MaxFaults \in Nat

(* ForwardResult: any answer but a 5xx, a 5xx or no answer.                 *)
Forwards == {"delivered", "refused", "retryable"}

VARIABLES
  handler,    (* what a request handler is doing, for which packet         *)
  queue,      (* the Redis list of envelopes                               *)
  dlq,        (* the packets on the dead letter list                       *)
  worker,     (* what the worker is doing, with which envelope             *)
  connected,  (* Redis answered at the start: there are a queue, a worker  *)
  faults,
  gone        (* packets of which the worker let go without an answer      *)

bridgeVars == <<handler, queue, dlq, worker, connected, faults, gone>>

Busy == {"forward", "check", "push"}
Answers == {"delivered", "refused", "queued", "unavailable"}

Idle == [step |-> "idle", attempts |-> 0]
Envelope == [packet : Envelopes, attempts : 0 .. BridgeMaxAttempts]

BridgeTypeOK ==
  /\ \A h \in Handlers :
       \/ handler[h] = Idle
       \/ /\ handler[h].step \in Busy \cup Answers
          /\ handler[h].packet \in Envelopes
  /\ \A i \in DOMAIN queue : queue[i] \in Envelope /\ queue[i].attempts < BridgeMaxAttempts
  /\ dlq \subseteq Envelopes
  /\ \/ worker = Idle
     \/ worker.step \in Busy /\ worker.packet \in Envelopes
  /\ connected \in BOOLEAN
  /\ faults \in 0 .. MaxFaults
  /\ gone \subseteq Envelopes

BridgeInit ==
  /\ handler = [h \in Handlers |-> Idle]
  /\ queue = <<>>
  /\ dlq = {}
  /\ worker = Idle
  /\ connected = TRUE
  /\ faults = 0
  /\ gone = {}

Fault == faults < MaxFaults /\ faults' = faults + 1

-----------------------------------------------------------------------------
(* bridge_ingest *)

Accept(h, p) ==
  /\ handler[h] = Idle
  /\ handler' = [handler EXCEPT ![h] = [step |-> "forward", packet |-> p, attempts |-> 0]]
  /\ UNCHANGED <<queue, dlq, worker, connected, faults, gone>>

(* A 400 from the gateway, or a 401: the token is not the bridge's.         *)
TurnAway(h, p) ==
  /\ handler[h] = Idle
  /\ handler' = [handler EXCEPT ![h] = [step |-> "refused", packet |-> p, attempts |-> 0]]
  /\ UNCHANGED <<queue, dlq, worker, connected, faults, gone>>

To(h, step) == handler' = [handler EXCEPT ![h].step = step]

(* Faulty variant: the answer is given before the packet is queued.         *)
HandlerQueuesBlindly(h, r) ==
  /\ handler[h].step = "forward"
  /\ To(h, IF r # "retryable" THEN r ELSE "queued")
  /\ UNCHANGED <<queue, dlq, worker, connected, faults, gone>>

HandlerForwarded(h, r) ==
  /\ handler[h].step = "forward"
  /\ To(h, IF r # "retryable" THEN r ELSE IF connected THEN "check" ELSE "unavailable")
  /\ UNCHANGED <<queue, dlq, worker, connected, faults, gone>>

HasRoom == Len(queue) < BridgeQueueMax

(* Faulty variant: the length is not looked at.                             *)
HandlerChecksNothing(h) ==
  /\ handler[h].step = "check"
  /\ To(h, "push")
  /\ UNCHANGED <<queue, dlq, worker, connected, faults, gone>>

(* LLEN, then RPUSH: the queue may have grown in between.                   *)
HandlerChecks(h) ==
  /\ handler[h].step = "check"
  /\ To(h, IF HasRoom THEN "push" ELSE "unavailable")
  /\ UNCHANGED <<queue, dlq, worker, connected, faults, gone>>

HandlerPushes(h) ==
  /\ handler[h].step = "push"
  /\ queue' = Append(queue, [packet |-> handler[h].packet, attempts |-> 0])
  /\ To(h, "queued")
  /\ UNCHANGED <<dlq, worker, connected, faults, gone>>

HandlerCannotQueue(h) ==
  /\ handler[h].step \in {"check", "push"}
  /\ Fault
  /\ To(h, "unavailable")
  /\ UNCHANGED <<queue, dlq, worker, connected, gone>>

(* The response: passed through, 202 queued or 503.                         *)
Respond(h) ==
  /\ handler[h].step \in Answers
  /\ handler' = [handler EXCEPT ![h] = Idle]
  /\ UNCHANGED <<queue, dlq, worker, connected, faults, gone>>

-----------------------------------------------------------------------------
(* RetryWorker *)

Dequeue ==
  /\ connected
  /\ worker = Idle
  /\ queue # <<>>
  /\ worker' = [step |-> "forward", packet |-> Head(queue).packet, attempts |-> Head(queue).attempts]
  /\ queue' = Tail(queue)
  /\ UNCHANGED <<handler, dlq, connected, faults, gone>>

(* BLPOP took the envelope, its answer does not arrive.                     *)
DequeueFails ==
  /\ connected
  /\ worker = Idle
  /\ queue # <<>>
  /\ Fault
  /\ gone' = gone \cup {Head(queue).packet}
  /\ queue' = Tail(queue)
  /\ UNCHANGED <<handler, dlq, worker, connected>>

(* A refusal is not kept: process_one returns.                              *)
WorkerForwarded(r) ==
  /\ worker.step = "forward"
  /\ r # "retryable"
  /\ worker' = Idle
  /\ gone' = IF r = "refused" THEN gone \cup {worker.packet} ELSE gone
  /\ UNCHANGED <<handler, queue, dlq, connected, faults>>

(* Faulty variant: attempts are not limited.                                *)
WorkerRetriesForever(r) ==
  /\ worker.step = "forward"
  /\ r = "retryable"
  /\ worker' = [worker EXCEPT !.step = "check", !.attempts = @ + 1]
  /\ UNCHANGED <<handler, queue, dlq, connected, faults, gone>>

WorkerRetries(r) ==
  /\ worker.step = "forward"
  /\ r = "retryable"
  /\ worker.attempts + 1 < BridgeMaxAttempts
  /\ worker' = [worker EXCEPT !.step = "check", !.attempts = @ + 1]
  /\ UNCHANGED <<handler, queue, dlq, connected, faults, gone>>

WorkerGivesUp(r) ==
  /\ worker.step = "forward"
  /\ r = "retryable"
  /\ worker.attempts + 1 >= BridgeMaxAttempts
  /\ worker' = Idle
  /\ \/ dlq' = dlq \cup {worker.packet} /\ UNCHANGED <<gone, faults>>
     \/ gone' = gone \cup {worker.packet} /\ Fault /\ UNCHANGED dlq
  /\ UNCHANGED <<handler, queue, connected>>

(* enqueue returns False when the queue is full, and nobody looks.          *)
WorkerChecks ==
  /\ worker.step = "check"
  /\ worker' = IF HasRoom THEN [worker EXCEPT !.step = "push"] ELSE Idle
  /\ gone' = IF HasRoom THEN gone ELSE gone \cup {worker.packet}
  /\ UNCHANGED <<handler, queue, dlq, connected, faults>>

WorkerPushes ==
  /\ worker.step = "push"
  /\ queue' = Append(queue, [packet |-> worker.packet, attempts |-> worker.attempts])
  /\ worker' = Idle
  /\ UNCHANGED <<handler, dlq, connected, faults, gone>>

WorkerCannotQueue ==
  /\ worker.step \in {"check", "push"}
  /\ Fault
  /\ worker' = Idle
  /\ gone' = gone \cup {worker.packet}
  /\ UNCHANGED <<handler, queue, dlq, connected>>

-----------------------------------------------------------------------------
(* The process is killed and started again, with Redis or without: requests *)
(* are cut off, the worker's envelope is nowhere.                           *)
BridgeRestart ==
  /\ Fault
  /\ handler' = [h \in Handlers |-> Idle]
  /\ worker' = Idle
  /\ gone' = IF worker = Idle THEN gone ELSE gone \cup {worker.packet}
  /\ connected' \in BOOLEAN
  /\ UNCHANGED <<queue, dlq>>

(* The steps that neither talk to the API nor to an agent.                  *)
BridgeStep ==
  \/ \E h \in Handlers : HandlerChecks(h) \/ HandlerPushes(h) \/ HandlerCannotQueue(h)
  \/ Dequeue \/ DequeueFails \/ WorkerChecks \/ WorkerPushes \/ WorkerCannotQueue

WorkerForward(r) == WorkerForwarded(r) \/ WorkerRetries(r) \/ WorkerGivesUp(r)

-----------------------------------------------------------------------------
(* Properties *)

(* Checking and pushing are two commands: as many requests as are between   *)
(* them, and the worker, may take the queue beyond its maximum, no more.    *)
QueueOvershoot == Len(queue) <= BridgeQueueMax + Cardinality(Handlers)
=============================================================================
