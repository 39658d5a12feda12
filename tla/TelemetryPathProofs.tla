------------------------- MODULE TelemetryPathProofs -------------------------
(***************************************************************************)
(* What holds of a packet's way, for any number of packets, handlers,      *)
(* attempts, faults and restarts: a packet is stored once, nothing but the *)
(* bridge's worker loses it, it is given up for a reason, and the list     *)
(* stays near its limit.                                                   *)
(***************************************************************************)
EXTENDS TelemetryPath, EdgeSpoolProofs, SequenceTheorems

-----------------------------------------------------------------------------
(* The whole way                                                           *)

Item == [packet : Packets, attempts : 0 .. BridgeMaxAttempts - 1]

HandlerState ==
  {Idle} \cup [step : Busy \cup Answers, packet : Packets, attempts : {0}]

WorkerState ==
  {Idle} \cup [step : Busy, packet : Packets, attempts : 0 .. BridgeMaxAttempts - 1]

BridgeTyped ==
  /\ handler \in [Handlers -> HandlerState]
  /\ queue \in Seq(Item)
  /\ dlq \subseteq Packets
  /\ worker \in WorkerState
  /\ connected \in BOOLEAN
  /\ faults \in 0 .. MaxFaults
  /\ gone \subseteq Packets

FitTyped ==
  /\ ahead \subseteq Packets /\ expired \subseteq Packets /\ turned \subseteq Packets
  /\ barred \subseteq Packets
  /\ signed \in [Packets -> Secrets \cup {NoSecret}]
  /\ secret \in Secrets \cup {NoSecret}

ApiTyped ==
  /\ nonces \subseteq Packets
  /\ stored \in [Packets -> Nat]
  /\ FitTyped

(* The API stores a packet when it registers its nonce.                     *)
Once == \A p \in Packets : stored[p] <= 1 /\ (stored[p] > 0 => p \in nonces)

(* What has become of a packet that the agent no longer has.                *)
Queued(p) == \E i \in DOMAIN queue : queue[i].packet = p
Held(p) == p \in gone \/ stored[p] > 0 \/ AtBridge(p)

(* An answer is given after what it says has been done.                     *)
AnswerTrue(h) ==
  /\ handler[h].step \in {"delivered", "queued"} => Held(handler[h].packet)
  /\ handler[h].step = "refused" => handler[h].packet \in nonces \cup barred

AnswersTrue == \A h \in Handlers : AnswerTrue(h)

(* The agent waits for the answer about the packet that it deals with.      *)
LinkRight ==
  link # NoHandler =>
    /\ link \in Handlers
    /\ at = "wait"
    /\ handler[link] # Idle
    /\ handler[link].packet = Current

(* What the agent makes of the answer is true, too.                         *)
ResultTrue ==
  /\ at = "delivered" => Held(Current)
  /\ at = "refused" => Current \in nonces \cup barred

PathInv ==
  /\ EdgeInv
  /\ BridgeTyped /\ ApiTyped
  /\ Once /\ AnswersTrue /\ LinkRight /\ ResultTrue
  /\ Custody /\ DeadForAReason

(* Whatever speaks against a packet has been noted, and what is on its way  *)
(* through bridge and list has been made.                                   *)
Noted == \A p \in 1 .. made : signed[p] \in Secrets /\ (Unfit(p) => p \in barred)

CarriedIsMade ==
  /\ \A h \in Handlers : handler[h] # Idle => handler[h].packet \in 1 .. made
  /\ \A p : Queued(p) => p \in 1 .. made
  /\ worker # Idle => worker.packet \in 1 .. made

MadeInv == Noted /\ CarriedIsMade

-----------------------------------------------------------------------------
(* The API *)

ApiGrows ==
  /\ \A p \in Packets : stored[p] > 0 => stored'[p] > 0
  /\ nonces \subseteq nonces'
  /\ barred \subseteq barred'

LEMMA FitRests ==
  ASSUME FitTyped, UNCHANGED fitVars
  PROVE  FitTyped' /\ barred' = barred
BY DEF FitTyped, fitVars

(* Each refusal has its reason: the drone is not registered or has another  *)
(* secret, the clocks are apart, the nonce is known.                        *)
LEMMA ApiStep ==
  ASSUME ApiTyped, Once, Noted, NEW p \in Packets, p \in 1 .. made, NEW r, Api(p, r)
  PROVE  /\ ApiTyped' /\ Once' /\ ApiGrows
         /\ r = "delivered" => stored'[p] > 0
         /\ r = "refused" => p \in nonces' \cup barred'
<1>1. FitTyped' /\ barred' = barred
  BY FitRests DEF Api, ApiTyped
<1>u. signed[p] \in Secrets /\ (Unfit(p) => p \in barred)
  BY DEF Noted
<1>2. CASE /\ nonces' = nonces /\ stored' = stored /\ r # "delivered"
           /\ r = "refused" => p \in nonces \cup barred
  BY <1>1, <1>2 DEF ApiTyped, Once, ApiGrows
<1>3. CASE nonces' = nonces \cup {p} /\ stored' = stored /\ r # "delivered"
  BY <1>1, <1>3 DEF ApiTyped, Once, ApiGrows
<1>4. CASE Store(p, r)
  <2>1. stored[p] = 0
    BY <1>4 DEF Store, Once, ApiTyped
  <2>2. stored' = [stored EXCEPT ![p] = 1] /\ nonces' = nonces \cup {p}
    BY <1>4, <2>1 DEF Store, ApiTyped
  <2> QED
    BY <1>1, <2>2 DEF ApiTyped, Once, ApiGrows
<1>5. CASE NotRegistered(p, r)
  <2>1. signed[p] # secret
    BY <1>5, <1>u, PathAssumption DEF NotRegistered
  <2> QED
    BY <1>2, <1>5, <1>u, <2>1 DEF NotRegistered, Lost, Unfit
<1>6. CASE Clock(p, r)
  BY <1>2, <1>6, <1>u DEF Clock, ClockOk, Lost, Unfit
<1>7. CASE Replay(p, r) \/ Unreached(r)
  BY <1>2, <1>7 DEF Replay, Unreached, Lost
<1>8. CASE BadSignature(p, r) \/ FailAfterNonce(p, r)
  BY <1>3, <1>8 DEF BadSignature, FailAfterNonce, Lost
<1> QED
  BY <1>4, <1>5, <1>6, <1>7, <1>8 DEF Api

LEMMA ApiRests ==
  ASSUME ApiTyped, Once, UNCHANGED apiVars
  PROVE  ApiTyped' /\ Once' /\ ApiGrows
BY FitRests DEF ApiTyped, Once, ApiGrows, apiVars

-----------------------------------------------------------------------------
(* The list of the bridge *)

LEMMA IdleFields == Idle.step = "idle" /\ Idle.attempts = 0
BY DEF Idle

LEMMA BusyWorker ==
  ASSUME BridgeTyped, worker # Idle
  PROVE  /\ worker \in [step : Busy, packet : Packets, attempts : 0 .. BridgeMaxAttempts - 1]
         /\ worker.packet \in Packets
BY DEF BridgeTyped, WorkerState

LEMMA BusyHandler ==
  ASSUME BridgeTyped, NEW h \in Handlers, handler[h].step \in Busy \cup Answers
  PROVE  /\ handler[h] \in [step : Busy \cup Answers, packet : Packets, attempts : {0}]
         /\ handler[h] # Idle /\ handler[h].packet \in Packets
BY IdleFields DEF BridgeTyped, HandlerState, Busy, Answers

LEMMA Appended ==
  ASSUME BridgeTyped, NEW e \in Item, queue' = Append(queue, e)
  PROVE  /\ queue' \in Seq(Item)
         /\ Queued(e.packet)'
         /\ \A p : Queued(p) => Queued(p)'
         /\ \A p : Queued(p)' => Queued(p) \/ p = e.packet
<1>1. /\ queue' \in Seq(Item)
      /\ Len(queue') = Len(queue) + 1
      /\ \A i \in 1 .. Len(queue) : queue'[i] = queue[i]
      /\ queue'[Len(queue) + 1] = e
  BY AppendProperties DEF BridgeTyped
<1>2. Len(queue) \in Nat /\ DOMAIN queue = 1 .. Len(queue) /\ DOMAIN queue' = 1 .. Len(queue')
  BY <1>1, LenProperties DEF BridgeTyped
<1>3. Len(queue) + 1 \in DOMAIN queue' /\ DOMAIN queue \subseteq DOMAIN queue'
  BY <1>1, <1>2
<1>4. \A i \in DOMAIN queue' : i \in DOMAIN queue \/ i = Len(queue) + 1
  BY <1>1, <1>2
<1> QED
  BY <1>1, <1>2, <1>3, <1>4 DEF Queued

LEMMA Taken ==
  ASSUME BridgeTyped, queue # <<>>, queue' = Tail(queue)
  PROVE  /\ queue' \in Seq(Item)
         /\ Head(queue) \in Item
         /\ \A p : Queued(p) => Queued(p)' \/ p = Head(queue).packet
         /\ Queued(Head(queue).packet)
         /\ \A p : Queued(p)' => Queued(p)
<1>1. /\ queue' \in Seq(Item)
      /\ Len(queue') = Len(queue) - 1
      /\ \A i \in 1 .. Len(queue') : queue'[i] = queue[i + 1]
      /\ Head(queue) \in Item
  BY HeadTailProperties DEF BridgeTyped
<1>2. Len(queue) \in Nat /\ DOMAIN queue = 1 .. Len(queue) /\ DOMAIN queue' = 1 .. Len(queue')
  BY <1>1, LenProperties DEF BridgeTyped
<1>3. Head(queue) = queue[1]
  OBVIOUS
<1>4. ASSUME NEW p, NEW i \in DOMAIN queue, queue[i].packet = p, i # 1
      PROVE  Queued(p)'
  <2>1. i - 1 \in DOMAIN queue' /\ queue'[i - 1] = queue[i]
    BY <1>1, <1>2, <1>4
  <2> QED
    BY <1>4, <2>1 DEF Queued
<1>5. ASSUME NEW p, NEW i \in DOMAIN queue', queue'[i].packet = p
      PROVE  Queued(p)
  <2>1. i + 1 \in DOMAIN queue /\ queue'[i] = queue[i + 1]
    BY <1>1, <1>2
  <2> QED
    BY <1>5, <2>1 DEF Queued
<1>6. 1 \in DOMAIN queue
  BY <1>2
<1> QED
  BY <1>1, <1>3, <1>4, <1>5, <1>6 DEF Queued

-----------------------------------------------------------------------------
(* The bridge *)

HeldGrows == \A p \in Packets : Held(p) => Held(p)'

(* No request in progress ends, or gets another packet.                     *)
KeepsRequests ==
  \A h \in Handlers :
    handler[h] # Idle => handler'[h] # Idle /\ handler'[h].packet = handler[h].packet

(* What is left to show of a step of the bridge.                            *)
BridgeKeeps == BridgeTyped' /\ HeldGrows /\ AnswersTrue'

LEMMA HandlerMoves ==
  ASSUME BridgeTyped, NEW h \in Handlers, handler[h].step \in Busy,
         NEW step \in Busy \cup Answers, To(h, step)
  PROVE  /\ handler' \in [Handlers -> HandlerState]
         /\ handler'[h].step = step
         /\ handler'[h].packet = handler[h].packet
         /\ \A q \in Handlers \ {h} : handler'[q] = handler[q]
         /\ KeepsRequests
<1>1. handler[h] \in [step : Busy \cup Answers, packet : Packets, attempts : {0}]
  BY BusyHandler
<1>2. /\ handler'[h] = [handler[h] EXCEPT !.step = step]
      /\ \A q \in Handlers \ {h} : handler'[q] = handler[q]
      /\ DOMAIN handler' = Handlers
  BY DEF BridgeTyped, To
<1>3. /\ handler'[h] \in [step : Busy \cup Answers, packet : Packets, attempts : {0}]
      /\ handler'[h].step = step /\ handler'[h].packet = handler[h].packet
  BY <1>1, <1>2
<1>4. handler'[h] # Idle
  BY <1>3, IdleFields DEF Busy, Answers
<1>5. handler' \in [Handlers -> HandlerState]
  <2>1. \A q \in Handlers : handler'[q] \in HandlerState
    BY <1>2, <1>3 DEF BridgeTyped, HandlerState
  <2>2. handler' = [q \in Handlers |-> handler'[q]]
    BY DEF To, BridgeTyped
  <2> QED
    BY <2>1, <2>2
<1> QED
  BY <1>2, <1>3, <1>4, <1>5 DEF KeepsRequests

(* Answers that were true stay true.                                        *)
LEMMA AnswersStay ==
  ASSUME BridgeTyped, AnswersTrue, HeldGrows, ApiGrows, NEW h \in Handlers,
         handler'[h] = handler[h]
  PROVE  AnswerTrue(h)'
<1>1. ASSUME handler[h].step \in {"delivered", "queued"} PROVE Held(handler[h].packet)'
  <2>1. handler[h].packet \in Packets
    BY <1>1, BusyHandler DEF Answers
  <2>2. PICK p \in Packets : p = handler[h].packet
    BY <2>1
  <2>3. Held(p)
    BY <1>1, <2>2 DEF AnswersTrue, AnswerTrue
  <2>4. Held(p)'
    BY <2>3 DEF HeldGrows
  <2>5. p = handler'[h].packet
    BY <2>2
  <2> QED
    BY <2>4, <2>5
<1>2. handler[h].step = "refused" => handler'[h].packet \in nonces' \cup barred'
  BY DEF AnswersTrue, AnswerTrue, ApiGrows
<1> QED
  BY <1>1, <1>2 DEF AnswerTrue

LEMMA AcceptKeeps ==
  ASSUME BridgeTyped, AnswersTrue, NEW h \in Handlers, NEW p \in Packets,
         \/ Accept(h, p)
         \/ TurnAway(h, p) /\ p \in barred,
         UNCHANGED apiVars
  PROVE  /\ BridgeKeeps
         /\ handler[h] = Idle
         /\ handler'[h] # Idle /\ handler'[h].packet = p
         /\ KeepsRequests
<1>0. PICK step \in {"forward", "refused"} :
        /\ handler' = [handler EXCEPT ![h] = [step |-> step, packet |-> p, attempts |-> 0]]
        /\ step = "refused" => p \in barred
  BY DEF Accept, TurnAway
<1> DEFINE s == [step |-> step, packet |-> p, attempts |-> 0]
<1>1. s \in [step : Busy \cup Answers, packet : Packets, attempts : {0}]
  BY DEF Busy, Answers
<1>2. s.step = step /\ s.packet = p /\ s # Idle
  BY IdleFields
<1>3. /\ handler[h] = Idle
      /\ handler' = [handler EXCEPT ![h] = s]
      /\ queue' = queue /\ dlq' = dlq /\ worker' = worker /\ connected' = connected
      /\ faults' = faults /\ gone' = gone /\ stored' = stored /\ barred' = barred
  BY <1>0 DEF Accept, TurnAway, apiVars, fitVars
<1> HIDE DEF s
<1>4. /\ handler'[h] = s /\ \A q \in Handlers \ {h} : handler'[q] = handler[q]
      /\ handler' \in [Handlers -> HandlerState]
  BY <1>1, <1>3 DEF BridgeTyped, HandlerState
<1>5. BridgeTyped'
  BY <1>3, <1>4 DEF BridgeTyped
<1>6. HeldGrows /\ ApiGrows
  BY <1>3 DEF HeldGrows, Held, AtBridge, ApiGrows, apiVars, fitVars
<1>7. AnswersTrue'
  <2>1. ASSUME NEW q \in Handlers, q # h
        PROVE  AnswerTrue(q)'
    BY <1>4, <1>6, <2>1, AnswersStay
  <2>2. AnswerTrue(h)'
    BY <1>0, <1>2, <1>3, <1>4 DEF AnswerTrue
  <2> QED
    BY <2>1, <2>2 DEF AnswersTrue
<1>8. KeepsRequests
  BY <1>3, <1>4 DEF KeepsRequests
<1> QED
  BY <1>2, <1>3, <1>4, <1>5, <1>6, <1>7, <1>8 DEF BridgeKeeps

LEMMA RespondKeeps ==
  ASSUME BridgeTyped, AnswersTrue, NEW h \in Handlers, Respond(h), UNCHANGED apiVars
  PROVE  BridgeKeeps /\ \A q \in Handlers \ {h} : handler'[q] = handler[q]
<1>1. /\ handler' = [handler EXCEPT ![h] = Idle]
      /\ queue' = queue /\ dlq' = dlq /\ worker' = worker /\ connected' = connected
      /\ faults' = faults /\ gone' = gone /\ stored' = stored
  BY DEF Respond, apiVars
<1>2. /\ handler'[h] = Idle /\ \A q \in Handlers \ {h} : handler'[q] = handler[q]
      /\ handler' \in [Handlers -> HandlerState]
  BY <1>1 DEF BridgeTyped, HandlerState
<1>3. BridgeTyped'
  BY <1>1, <1>2 DEF BridgeTyped
<1>4. HeldGrows /\ ApiGrows
  BY <1>1 DEF HeldGrows, Held, AtBridge, ApiGrows, apiVars, fitVars
<1>5. AnswersTrue'
  <2>1. ASSUME NEW q \in Handlers, q # h
        PROVE  AnswerTrue(q)'
    BY <1>2, <1>4, <2>1, AnswersStay
  <2>2. handler'[h].step \notin {"delivered", "queued", "refused"}
    BY <1>2, IdleFields
  <2> QED
    BY <2>1, <2>2 DEF AnswersTrue, AnswerTrue
<1> QED
  BY <1>2, <1>3, <1>4, <1>5 DEF BridgeKeeps

(* The answer passed through is what the API said.                          *)
LEMMA HandlerForwardKeeps ==
  ASSUME BridgeTyped, ApiTyped, Once, AnswersTrue, MadeInv, NEW h \in Handlers,
         HandlerForward(h)
  PROVE  BridgeKeeps /\ ApiTyped' /\ Once' /\ ApiGrows /\ KeepsRequests
<1>1. PICK r \in Forwards : HandlerForwarded(h, r) /\ Api(handler[h].packet, r)
  BY DEF HandlerForward
<1>2. PICK step \in Busy \cup Answers :
        /\ step = IF r # "retryable" THEN r ELSE IF connected THEN "check" ELSE "unavailable"
        /\ To(h, step)
  BY <1>1 DEF HandlerForwarded, Busy, Answers, Forwards
<1>3. /\ handler[h].step \in Busy
      /\ queue' = queue /\ dlq' = dlq /\ worker' = worker /\ connected' = connected
      /\ faults' = faults /\ gone' = gone
  BY <1>1 DEF HandlerForwarded, Busy
<1>p. PICK p \in Packets : p = handler[h].packet /\ p \in 1 .. made
  BY <1>3, BusyHandler DEF MadeInv, CarriedIsMade
<1>4. /\ ApiTyped' /\ Once' /\ ApiGrows
      /\ r = "delivered" => stored'[p] > 0
      /\ r = "refused" => p \in nonces' \cup barred'
  BY <1>1, <1>p, ApiStep DEF MadeInv
<1>5. BridgeTyped' /\ KeepsRequests
  BY <1>2, <1>3, HandlerMoves DEF BridgeTyped
<1>6. HeldGrows
  BY <1>3, <1>4 DEF HeldGrows, Held, AtBridge, ApiGrows
<1>7. AnswersTrue'
  <2>1. ASSUME NEW q \in Handlers, q # h PROVE AnswerTrue(q)'
    BY <1>2, <1>3, <1>4, <1>6, <2>1, AnswersStay, HandlerMoves
  <2>2. handler'[h].step = step /\ handler'[h].packet = p
    BY <1>2, <1>3, <1>p, HandlerMoves
  <2>3. step \in {"delivered", "queued"} => stored'[p] > 0
    BY <1>2, <1>4 DEF Forwards
  <2>4. step = "refused" => p \in nonces' \cup barred'
    BY <1>2, <1>4
  <2>5. AnswerTrue(h)'
    BY <2>2, <2>3, <2>4 DEF AnswerTrue, Held
  <2> QED
    BY <2>1, <2>5 DEF AnswersTrue
<1> QED
  BY <1>4, <1>5, <1>6, <1>7 DEF BridgeKeeps

(* A step of one handler that keeps what is held, and answers rightly.      *)
LEMMA OneHandlerKeeps ==
  ASSUME BridgeTyped, AnswersTrue, HeldGrows, ApiGrows, NEW h \in Handlers,
         handler[h].step \in Busy, NEW step \in Busy \cup Answers, To(h, step),
         step \in {"delivered", "queued"} => Held(handler[h].packet)',
         step # "refused"
  PROVE  AnswersTrue'
<1>1. /\ handler'[h].step = step /\ handler'[h].packet = handler[h].packet
      /\ \A q \in Handlers \ {h} : handler'[q] = handler[q]
  BY HandlerMoves
<1>2. ASSUME NEW q \in Handlers, q # h PROVE AnswerTrue(q)'
  BY <1>1, <1>2, AnswersStay
<1>3. AnswerTrue(h)'
  BY <1>1 DEF AnswerTrue
<1> QED
  BY <1>2, <1>3 DEF AnswersTrue

(* A step that leaves the handlers alone.                                   *)
LEMMA HandlersRest ==
  ASSUME BridgeTyped, AnswersTrue, HeldGrows, ApiGrows, handler' = handler
  PROVE  AnswersTrue' /\ KeepsRequests
<1>1. ASSUME NEW q \in Handlers PROVE AnswerTrue(q)'
  BY AnswersStay
<1> QED
  BY <1>1 DEF AnswersTrue, KeepsRequests

LEMMA FaultTyped ==
  ASSUME BridgeTyped, Fault
  PROVE  faults' \in 0 .. MaxFaults
BY BridgeAssumption DEF BridgeTyped, Fault

LEMMA ApiSame == UNCHANGED apiVars => ApiGrows /\ stored' = stored
BY DEF ApiGrows, apiVars, fitVars

(* A worker with a step is no idle one.                                     *)
LEMMA WorkerHas ==
  ASSUME BridgeTyped, worker.step \in Busy
  PROVE  worker # Idle
BY IdleFields DEF Busy

LEMMA HandlerStepKeeps ==
  ASSUME BridgeTyped, AnswersTrue, UNCHANGED apiVars, NEW h \in Handlers,
         HandlerChecks(h) \/ HandlerPushes(h) \/ HandlerCannotQueue(h)
  PROVE  BridgeKeeps /\ KeepsRequests
<1>s. ApiGrows /\ stored' = stored
  BY ApiSame
<1>1. CASE HandlerChecks(h)
  <2>1. PICK step \in {"push", "unavailable"} : To(h, step)
    BY <1>1 DEF HandlerChecks
  <2>2. /\ handler[h].step \in Busy /\ step \in Busy \cup Answers
        /\ queue' = queue /\ dlq' = dlq /\ worker' = worker /\ connected' = connected
        /\ faults' = faults /\ gone' = gone
    BY <1>1 DEF HandlerChecks, Busy, Answers
  <2>3. BridgeTyped' /\ KeepsRequests
    BY <2>1, <2>2, HandlerMoves DEF BridgeTyped
  <2>4. HeldGrows
    BY <1>s, <2>2 DEF HeldGrows, Held, AtBridge
  <2> QED
    BY <1>s, <2>1, <2>2, <2>3, <2>4, OneHandlerKeeps DEF BridgeKeeps
<1>2. CASE HandlerPushes(h)
  <2> DEFINE e == [packet |-> handler[h].packet, attempts |-> 0]
  <2>1. /\ handler[h].step \in Busy /\ To(h, "queued")
        /\ queue' = Append(queue, e)
        /\ dlq' = dlq /\ worker' = worker /\ connected' = connected
        /\ faults' = faults /\ gone' = gone
    BY <1>2 DEF HandlerPushes, Busy
  <2>2. e \in Item /\ e.packet = handler[h].packet
    BY <2>1, BusyHandler, BridgeAssumption DEF Item
  <2> HIDE DEF e
  <2>3. queue' \in Seq(Item) /\ \A p : Queued(p) => Queued(p)'
    BY <2>1, <2>2, Appended
  <2>4. BridgeTyped' /\ KeepsRequests
    <3>1. "queued" \in Busy \cup Answers
      BY DEF Answers
    <3> QED
      BY <2>1, <2>3, <3>1, HandlerMoves DEF BridgeTyped
  <2>5. HeldGrows
    BY <1>s, <2>1, <2>3 DEF HeldGrows, Held, AtBridge, Queued
  <2>p. PICK p \in Packets : p = handler[h].packet
    BY <2>1, BusyHandler
  <2>6. Held(handler[h].packet)'
    <3>1. "queued" \in Busy \cup Answers
      BY DEF Answers
    <3>2. handler'[h].packet = p
      BY <2>1, <2>p, <3>1, HandlerMoves
    <3>3. e.packet = p /\ e \in Item
      BY <2>2, <2>p
    <3>4. PICK f \in Item : f = e
      BY <3>3
    <3>5. queue' = Append(queue, f) /\ f.packet = p
      BY <2>1, <3>3, <3>4
    <3>6. Queued(p)'
      BY <3>5, Appended
    <3>7. Held(p)'
      BY <3>6 DEF Held, AtBridge, Queued
    <3> QED
      BY <3>2, <3>7
  <2>7. "queued" \in Busy \cup Answers /\ "queued" # "refused"
    BY DEF Answers
  <2> QED
    BY <1>s, <2>1, <2>4, <2>5, <2>6, <2>7, OneHandlerKeeps DEF BridgeKeeps
<1>3. CASE HandlerCannotQueue(h)
  <2>1. /\ handler[h].step \in Busy /\ To(h, "unavailable")
        /\ queue' = queue /\ dlq' = dlq /\ worker' = worker /\ connected' = connected
        /\ faults' \in 0 .. MaxFaults /\ gone' = gone
    BY <1>3, FaultTyped DEF HandlerCannotQueue, Busy
  <2>2. "unavailable" \in Busy \cup Answers
    BY DEF Answers
  <2>3. BridgeTyped' /\ KeepsRequests
    BY <2>1, <2>2, HandlerMoves DEF BridgeTyped
  <2>4. HeldGrows
    BY <1>s, <2>1 DEF HeldGrows, Held, AtBridge
  <2> QED
    BY <1>s, <2>1, <2>2, <2>3, <2>4, OneHandlerKeeps DEF BridgeKeeps
<1> QED
  BY <1>1, <1>2, <1>3

LEMMA TakeKeeps ==
  ASSUME BridgeTyped, AnswersTrue, UNCHANGED apiVars, Dequeue \/ DequeueFails
  PROVE  BridgeKeeps /\ KeepsRequests
<1>s. ApiGrows /\ stored' = stored
  BY ApiSame
<1>1. /\ worker = Idle /\ queue # <<>> /\ queue' = Tail(queue)
      /\ handler' = handler /\ dlq' = dlq /\ connected' = connected
  BY DEF Dequeue, DequeueFails
<1>2. PICK e \in Item : e = Head(queue)
  BY <1>1, Taken
<1>3. queue' \in Seq(Item) /\ \A p : Queued(p) => Queued(p)' \/ p = e.packet
  BY <1>1, <1>2, Taken
<1>4. CASE Dequeue
  <2> DEFINE w == [step |-> "forward", packet |-> e.packet, attempts |-> e.attempts]
  <2>1. worker' = w /\ faults' = faults /\ gone' = gone
    BY <1>2, <1>4 DEF Dequeue
  <2>2. w \in [step : Busy, packet : Packets, attempts : 0 .. BridgeMaxAttempts - 1]
    BY DEF Item, Busy
  <2>3. w # Idle /\ w.packet = e.packet
    BY IdleFields
  <2> HIDE DEF w
  <2>4. BridgeTyped'
    BY <1>1, <1>3, <2>1, <2>2 DEF BridgeTyped, WorkerState
  <2>5. HeldGrows
    BY <1>s, <1>1, <1>3, <2>1, <2>3 DEF HeldGrows, Held, AtBridge, Queued
  <2> QED
    BY <1>s, <1>1, <2>4, <2>5, HandlersRest DEF BridgeKeeps
<1>5. CASE DequeueFails
  <2>1. gone' = gone \cup {e.packet} /\ worker' = worker /\ faults' \in 0 .. MaxFaults
    BY <1>2, <1>5, FaultTyped DEF DequeueFails
  <2>2. e.packet \in Packets
    BY DEF Item
  <2>3. BridgeTyped'
    BY <1>1, <1>3, <2>1, <2>2 DEF BridgeTyped
  <2>4. HeldGrows
    BY <1>s, <1>1, <1>3, <2>1 DEF HeldGrows, Held, AtBridge, Queued
  <2> QED
    BY <1>s, <1>1, <2>3, <2>4, HandlersRest DEF BridgeKeeps
<1> QED
  BY <1>4, <1>5

LEMMA WorkerStepKeeps ==
  ASSUME BridgeTyped, AnswersTrue, UNCHANGED apiVars,
         WorkerChecks \/ WorkerPushes \/ WorkerCannotQueue
  PROVE  BridgeKeeps /\ KeepsRequests
<1>s. ApiGrows /\ stored' = stored
  BY ApiSame
<1>1. worker.step \in Busy /\ worker # Idle
  BY WorkerHas DEF WorkerChecks, WorkerPushes, WorkerCannotQueue, Busy
<1>w. /\ worker \in [step : Busy, packet : Packets, attempts : 0 .. BridgeMaxAttempts - 1]
      /\ worker.packet \in Packets
  BY <1>1, BusyWorker
<1>h. handler' = handler /\ dlq' = dlq /\ connected' = connected
  BY DEF WorkerChecks, WorkerPushes, WorkerCannotQueue
<1>2. CASE WorkerChecks /\ HasRoom
  <2> DEFINE w == [worker EXCEPT !.step = "push"]
  <2>1. worker' = w /\ gone' = gone /\ queue' = queue /\ faults' = faults
    BY <1>2 DEF WorkerChecks
  <2>2. /\ w \in [step : Busy, packet : Packets, attempts : 0 .. BridgeMaxAttempts - 1]
        /\ w.packet = worker.packet /\ w.step = "push"
    BY <1>w DEF Busy
  <2>3. w # Idle
    BY <2>2, IdleFields
  <2> HIDE DEF w
  <2>4. BridgeTyped'
    BY <1>h, <2>1, <2>2 DEF BridgeTyped, WorkerState
  <2>5. HeldGrows
    BY <1>s, <1>h, <2>1, <2>2, <2>3 DEF HeldGrows, Held, AtBridge
  <2> QED
    BY <1>s, <1>h, <2>4, <2>5, HandlersRest DEF BridgeKeeps
<1>3. CASE (WorkerChecks /\ ~HasRoom) \/ WorkerCannotQueue
  <2>1. /\ worker' = Idle /\ gone' = gone \cup {worker.packet} /\ queue' = queue
        /\ faults' \in 0 .. MaxFaults
    BY <1>3, FaultTyped DEF WorkerChecks, WorkerCannotQueue, BridgeTyped
  <2>2. BridgeTyped'
    BY <1>w, <1>h, <2>1 DEF BridgeTyped, WorkerState
  <2>3. HeldGrows
    BY <1>s, <1>h, <2>1 DEF HeldGrows, Held, AtBridge
  <2> QED
    BY <1>s, <1>h, <2>2, <2>3, HandlersRest DEF BridgeKeeps
<1>4. CASE WorkerPushes
  <2>1. PICK e \in Item : e = [packet |-> worker.packet, attempts |-> worker.attempts]
    BY <1>w DEF Item
  <2>2. /\ queue' = Append(queue, e) /\ e.packet = worker.packet
        /\ worker' = Idle /\ gone' = gone /\ faults' = faults
    BY <1>4, <2>1 DEF WorkerPushes
  <2>3. queue' \in Seq(Item) /\ Queued(e.packet)' /\ \A p : Queued(p) => Queued(p)'
    BY <2>2, Appended
  <2>4. BridgeTyped'
    BY <1>h, <2>2, <2>3 DEF BridgeTyped, WorkerState
  <2>5. HeldGrows
    BY <1>s, <1>h, <2>2, <2>3 DEF HeldGrows, Held, AtBridge, Queued
  <2> QED
    BY <1>s, <1>h, <2>4, <2>5, HandlersRest DEF BridgeKeeps
<1> QED
  BY <1>2, <1>3, <1>4

(* What the worker stops holding is stored, on a list, or let go.           *)
LEMMA WorkerForwardKeeps ==
  ASSUME BridgeTyped, ApiTyped, Once, AnswersTrue, MadeInv, WorkerForwards
  PROVE  BridgeKeeps /\ ApiTyped' /\ Once' /\ ApiGrows /\ KeepsRequests
<1>1. PICK r \in Forwards : WorkerForward(r) /\ Api(worker.packet, r)
  BY DEF WorkerForwards
<1>2. worker.step \in Busy /\ worker # Idle
  BY <1>1, WorkerHas DEF WorkerForward, WorkerForwarded, WorkerRetries, WorkerGivesUp, Busy
<1>w. worker \in [step : Busy, packet : Packets, attempts : 0 .. BridgeMaxAttempts - 1]
  BY <1>2, BusyWorker
<1>p. PICK p \in Packets : p = worker.packet /\ p \in 1 .. made
  BY <1>2, <1>w DEF MadeInv, CarriedIsMade
<1>3. /\ ApiTyped' /\ Once' /\ ApiGrows
      /\ r = "delivered" => stored'[p] > 0
  BY <1>1, <1>p, ApiStep DEF MadeInv
<1>h. handler' = handler /\ queue' = queue /\ connected' = connected
  BY <1>1 DEF WorkerForward, WorkerForwarded, WorkerRetries, WorkerGivesUp
<1>4. CASE WorkerForwarded(r)
  <2>1. /\ worker' = Idle /\ dlq' = dlq /\ faults' = faults
        /\ gone' = gone \/ gone' = gone \cup {p}
        /\ r = "delivered" \/ gone' = gone \cup {p}
    BY <1>4, <1>p DEF WorkerForwarded, Forwards
  <2>2. BridgeTyped'
    BY <1>h, <2>1 DEF BridgeTyped, WorkerState
  <2>3. HeldGrows
    BY <1>3, <1>h, <1>p, <2>1 DEF HeldGrows, Held, AtBridge, ApiGrows
  <2> QED
    BY <1>3, <1>h, <2>2, <2>3, HandlersRest DEF BridgeKeeps
<1>5. CASE WorkerRetries(r)
  <2> DEFINE w == [worker EXCEPT !.step = "check", !.attempts = @ + 1]
  <2>1. worker' = w /\ dlq' = dlq /\ faults' = faults /\ gone' = gone
    BY <1>5 DEF WorkerRetries
  <2>2. worker.attempts \in Nat /\ worker.attempts + 1 < BridgeMaxAttempts
    BY <1>5, <1>w, BridgeAssumption DEF WorkerRetries
  <2>3. worker.attempts + 1 \in 0 .. BridgeMaxAttempts - 1
    BY <2>2, BridgeAssumption
  <2>4. w \in [step : Busy, packet : Packets, attempts : 0 .. BridgeMaxAttempts - 1]
    BY <1>w, <2>3 DEF Busy
  <2>5. w.packet = p /\ w.step = "check"
    BY <1>w, <1>p
  <2>6. w # Idle
    BY <2>5, IdleFields
  <2> HIDE DEF w
  <2>7. BridgeTyped'
    BY <1>h, <2>1, <2>4 DEF BridgeTyped, WorkerState
  <2>8. HeldGrows
    BY <1>3, <1>h, <1>p, <2>1, <2>5, <2>6 DEF HeldGrows, Held, AtBridge, ApiGrows
  <2> QED
    BY <1>3, <1>h, <2>7, <2>8, HandlersRest DEF BridgeKeeps
<1>6. CASE WorkerGivesUp(r)
  <2>1. /\ worker' = Idle
        /\ \/ dlq' = dlq \cup {p} /\ gone' = gone
           \/ gone' = gone \cup {p} /\ dlq' = dlq
        /\ faults' \in 0 .. MaxFaults
    BY <1>6, <1>p, FaultTyped DEF WorkerGivesUp, BridgeTyped
  <2>2. BridgeTyped'
    BY <1>h, <2>1 DEF BridgeTyped, WorkerState
  <2>3. HeldGrows
    BY <1>3, <1>h, <1>p, <2>1 DEF HeldGrows, Held, AtBridge, ApiGrows
  <2> QED
    BY <1>3, <1>h, <2>2, <2>3, HandlersRest DEF BridgeKeeps
<1> QED
  BY <1>1, <1>4, <1>5, <1>6 DEF WorkerForward

LEMMA RestartKeeps ==
  ASSUME BridgeTyped, AnswersTrue, UNCHANGED apiVars, BridgeRestart
  PROVE  BridgeKeeps
<1>1. /\ handler' = [h \in Handlers |-> Idle] /\ worker' = Idle
      /\ queue' = queue /\ dlq' = dlq /\ connected' \in BOOLEAN
      /\ faults' \in 0 .. MaxFaults
      /\ worker = Idle => gone' = gone
      /\ worker # Idle => gone' = gone \cup {worker.packet}
  BY FaultTyped DEF BridgeRestart
<1>2. BridgeTyped'
  BY <1>1, BusyWorker DEF BridgeTyped, WorkerState, HandlerState
<1>3. HeldGrows
  BY <1>1, ApiSame DEF HeldGrows, Held, AtBridge
<1>4. \A h \in Handlers : handler'[h].step = "idle"
  BY <1>1, IdleFields
<1>5. AnswersTrue'
  BY <1>4 DEF AnswersTrue, AnswerTrue
<1> QED
  BY <1>2, <1>3, <1>5 DEF BridgeKeeps

LEMMA BridgeRests ==
  ASSUME BridgeTyped, AnswersTrue, UNCHANGED bridgeVars, ApiGrows
  PROVE  BridgeKeeps /\ KeepsRequests
<1>1. /\ handler' = handler /\ queue' = queue /\ dlq' = dlq /\ worker' = worker
      /\ connected' = connected /\ faults' = faults /\ gone' = gone
  BY DEF bridgeVars
<1>2. BridgeTyped'
  BY <1>1 DEF BridgeTyped
<1>3. HeldGrows
  BY <1>1 DEF HeldGrows, Held, AtBridge, ApiGrows
<1> QED
  BY <1>1, <1>2, <1>3, HandlersRest DEF BridgeKeeps

-----------------------------------------------------------------------------
(* The agent *)

(* To the agent, bridge and API are a receiver that answers anything: what  *)
(* holds of EdgeSpool holds here.                                           *)
LEMMA EdgeStep == [Next]_vars => [EdgeNext]_edgeVars
<1> SUFFICES ASSUME [Next]_vars PROVE [EdgeNext]_edgeVars
  OBVIOUS
<1>1. CASE UNCHANGED vars
  BY <1>1 DEF vars
<1>2. CASE EdgeSends
  BY <1>2 DEF EdgeSends, EdgeNext
<1>3. CASE EdgeHears
  <2>1. Outcome(handler[link].step) \in Results
    BY <1>3 DEF EdgeHears, Respond, Answers, Outcome, Results
  <2> QED
    BY <1>3, <2>1 DEF EdgeHears, EdgeNext
<1>4. CASE EdgeTimesOut
  BY <1>4 DEF EdgeTimesOut, EdgeNext, Results
<1>5. CASE EdgeAlone
  BY <1>5 DEF EdgeAlone, EdgeNext
<1>6. CASE EdgeCrash
  BY <1>6 DEF EdgeCrash, EdgeNext
<1>7. ASSUME NEW h \in Handlers, HandlerForward(h) \/ AnswerIsLost(h) PROVE UNCHANGED edgeVars
  BY <1>7 DEF HandlerForward, AnswerIsLost
<1>8. CASE WorkerForwards \/ BridgeAlone \/ BridgeCrash
  BY <1>8 DEF WorkerForwards, BridgeAlone, BridgeCrash
<1>9. CASE EdgeEmits
  BY <1>9 DEF EdgeEmits, EdgeNext
<1>10. ASSUME NEW p \in Packets, CatchUp(p) \/ Expire(p) PROVE UNCHANGED edgeVars
  BY <1>10 DEF CatchUp, Expire
<1>11. CASE RegistryChanges \/ AdmissionChanges
  BY <1>11 DEF RegistryChanges, AdmissionChanges
<1> QED
  BY <1>1, <1>2, <1>3, <1>4, <1>5, <1>6, <1>7, <1>8, <1>9, <1>10, <1>11 DEF Next

(* A step that leaves rows, batch and place of the agent alone.             *)
LEMMA RowsRest ==
  ASSUME PathInv, HeldGrows, ApiGrows, UNCHANGED <<made, outbox, dropped, dead, attempts>>
  PROVE  Custody' /\ DeadForAReason'
<1>1. (1 .. made) \subseteq Packets
  BY EdgeConstants DEF PathInv, EdgeInv, EdgeTypeOK, Packets
<1>2. ASSUME NEW p \in (1 .. made) \ dropped PROVE p \in outbox \cup dead \/ Held(p)'
  <2>1. p \in outbox \cup dead \/ Held(p)
    BY DEF PathInv, Custody, Held
  <2> QED
    BY <1>1, <2>1 DEF HeldGrows
<1>3. Custody'
  BY <1>2 DEF Custody, Held
<1>4. DeadForAReason'
  BY DEF PathInv, DeadForAReason, ApiGrows
<1> QED
  BY <1>3, <1>4

LEMMA ResultRests ==
  ASSUME PathInv, HeldGrows, ApiGrows, UNCHANGED <<at, batch>>
  PROVE  ResultTrue'
<1>1. Current' = Current
  BY DEF Current
<1>2. ASSUME at = "delivered" PROVE Held(Current)'
  <2>1. PICK p \in Packets : p = Current
    BY <1>2, CurrentIsReady DEF PathInv, Sending, Results
  <2>2. Held(p)
    BY <1>2, <2>1 DEF PathInv, ResultTrue
  <2>3. Held(p)' /\ Current' = p
    BY <1>1, <2>1, <2>2 DEF HeldGrows
  <2> QED
    BY <2>3
<1>3. at = "refused" => Current' \in nonces' \cup barred'
  BY <1>1 DEF PathInv, ResultTrue, ApiGrows
<1> QED
  BY <1>2, <1>3 DEF ResultTrue

(* A step of bridge and API alone, during which the agent's request is kept. *)
LEMMA BehindTheAgent ==
  ASSUME PathInv, UNCHANGED <<edgeVars, link>>, BridgeKeeps, KeepsRequests,
         ApiTyped', Once', ApiGrows
  PROVE  PathInv'
<1>e. /\ made' = made /\ outbox' = outbox /\ dropped' = dropped /\ dead' = dead
      /\ attempts' = attempts /\ at' = at /\ batch' = batch /\ link' = link
  BY DEF edgeVars
<1>1. EdgeInv'
  BY EdgeInvStep DEF PathInv
<1>2. Custody' /\ DeadForAReason' /\ ResultTrue'
  BY <1>e, RowsRest, ResultRests DEF BridgeKeeps
<1>3. Current' = Current
  BY <1>e DEF Current
<1>4. LinkRight'
  BY <1>e, <1>3 DEF PathInv, LinkRight, KeepsRequests
<1> QED
  BY <1>1, <1>2, <1>4 DEF PathInv, BridgeKeeps

LEMMA SendsKeep ==
  ASSUME PathInv, MadeInv, EdgeSends
  PROVE  PathInv'
<1>1. EdgeInv'
  BY EdgeStep, EdgeInvStep DEF PathInv, Next
<1>2. /\ at = "send" /\ at' = "wait" /\ batch' = batch
      /\ UNCHANGED <<made, outbox, dropped, dead, attempts>>
      /\ UNCHANGED apiVars
  BY DEF EdgeSends, Send
<1>3. link = NoHandler
  BY <1>2 DEF PathInv, LinkRight
<1>4. Current \in Packets /\ Current \in 1 .. made /\ Current' = Current
  BY <1>2, CurrentIsReady DEF PathInv, Sending, Current
<1>t. Current \in turned => Current \in barred
  BY <1>4 DEF MadeInv, Noted, Unfit
<1>5. ApiTyped' /\ Once' /\ ApiGrows
  BY <1>2, ApiRests DEF PathInv
<1>6. BridgeKeeps /\ LinkRight'
  <2>1. ASSUME NEW h \in Handlers, link' = h,
               Accept(h, Current) \/ (TurnAway(h, Current) /\ Current \in turned)
        PROVE  BridgeKeeps /\ LinkRight'
    BY <1>2, <1>4, <1>t, <2>1, AcceptKeeps DEF PathInv, LinkRight
  <2>2. CASE UNCHANGED <<bridgeVars, link>>
    BY <1>3, <1>5, <2>2, BridgeRests DEF PathInv, LinkRight
  <2> QED
    BY <2>1, <2>2 DEF EdgeSends
<1>7. Custody' /\ DeadForAReason'
  BY <1>2, <1>5, <1>6, RowsRest DEF BridgeKeeps
<1>8. ResultTrue'
  BY <1>2 DEF ResultTrue
<1> QED
  BY <1>1, <1>5, <1>6, <1>7, <1>8 DEF PathInv, BridgeKeeps

(* What the answer of the handler says of its packet becomes the result.    *)
LEMMA HearsKeep ==
  ASSUME PathInv, EdgeHears
  PROVE  PathInv'
<1>1. EdgeInv'
  BY EdgeStep, EdgeInvStep DEF PathInv, Next
<1>2. /\ link # NoHandler /\ Respond(link) /\ link' = NoHandler
      /\ handler[link].step \in Answers
      /\ at' = Outcome(handler[link].step) /\ batch' = batch
      /\ UNCHANGED <<made, outbox, dropped, dead, attempts>>
      /\ UNCHANGED apiVars
  BY DEF EdgeHears, Receive, Respond
<1>3. link \in Handlers /\ handler[link].packet = Current
  BY <1>2 DEF PathInv, LinkRight
<1>4. ApiTyped' /\ Once' /\ ApiGrows
  BY <1>2, ApiRests DEF PathInv
<1>5. BridgeKeeps
  BY <1>2, <1>3, RespondKeeps DEF PathInv
<1>6. Custody' /\ DeadForAReason' /\ LinkRight'
  BY <1>2, <1>4, <1>5, RowsRest DEF BridgeKeeps, LinkRight
<1>7. ResultTrue'
  <2>1. PICK p \in Packets : p = handler[link].packet
    BY <1>2, <1>3, BusyHandler DEF PathInv
  <2>2. Current' = p
    BY <1>2, <1>3, <2>1 DEF Current
  <2>3. AnswerTrue(link)
    BY <1>3 DEF PathInv, AnswersTrue
  <2>4. at' = "delivered" => Held(p)'
    <3>1. at' = "delivered" => handler[link].step \in {"delivered", "queued"}
      BY <1>2 DEF Outcome, Answers
    <3> QED
      BY <1>5, <2>1, <2>3, <3>1 DEF AnswerTrue, BridgeKeeps, HeldGrows
  <2>5. at' = "refused" => p \in nonces' \cup barred'
    <3>1. at' = "refused" => handler[link].step = "refused"
      BY <1>2 DEF Outcome, Answers
    <3> QED
      BY <1>4, <2>1, <2>3, <3>1 DEF AnswerTrue, ApiGrows
  <2> QED
    BY <2>2, <2>4, <2>5 DEF ResultTrue
<1> QED
  BY <1>1, <1>4, <1>5, <1>6, <1>7 DEF PathInv, BridgeKeeps

LEMMA TimesOutKeeps ==
  ASSUME PathInv, EdgeTimesOut
  PROVE  PathInv'
<1>1. EdgeInv'
  BY EdgeStep, EdgeInvStep DEF PathInv, Next
<1>2. /\ at' = "retryable" /\ link' = NoHandler
      /\ UNCHANGED <<made, outbox, dropped, dead, attempts>>
      /\ UNCHANGED apiVars /\ UNCHANGED bridgeVars
  BY DEF EdgeTimesOut, Receive
<1>3. ApiTyped' /\ Once' /\ ApiGrows
  BY <1>2, ApiRests DEF PathInv
<1>4. BridgeKeeps
  BY <1>2, <1>3, BridgeRests DEF PathInv
<1>5. Custody' /\ DeadForAReason' /\ LinkRight' /\ ResultTrue'
  BY <1>2, <1>3, <1>4, RowsRest DEF BridgeKeeps, LinkRight, ResultTrue
<1> QED
  BY <1>1, <1>3, <1>4, <1>5 DEF PathInv, BridgeKeeps

LEMMA LostKeeps ==
  ASSUME PathInv, NEW h \in Handlers, AnswerIsLost(h)
  PROVE  PathInv'
<1>1. EdgeInv'
  BY EdgeStep, EdgeInvStep DEF PathInv, Next
<1>2. /\ Respond(h) /\ link' = IF link = h THEN NoHandler ELSE link
      /\ at' = at /\ batch' = batch
      /\ UNCHANGED <<made, outbox, dropped, dead, attempts>>
      /\ UNCHANGED apiVars
  BY DEF AnswerIsLost, edgeVars
<1>3. ApiTyped' /\ Once' /\ ApiGrows
  BY <1>2, ApiRests DEF PathInv
<1>4. BridgeKeeps /\ \A q \in Handlers \ {h} : handler'[q] = handler[q]
  BY <1>2, RespondKeeps DEF PathInv
<1>5. Custody' /\ DeadForAReason' /\ ResultTrue'
  BY <1>2, <1>3, <1>4, RowsRest, ResultRests DEF BridgeKeeps
<1>6. Current' = Current
  BY <1>2 DEF Current
<1>7. LinkRight'
  BY <1>2, <1>4, <1>6 DEF PathInv, LinkRight
<1> QED
  BY <1>1, <1>3, <1>4, <1>5, <1>7 DEF PathInv, BridgeKeeps

(* A row leaves the outbox when its packet is held, or has a dead letter.   *)
LEMMA MarkCustody ==
  ASSUME PathInv, Mark, UNCHANGED <<bridgeVars, apiVars>>
  PROVE  Custody' /\ DeadForAReason'
<1>1. Sending
  BY DEF Mark, MarkSuccess, MarkRetry, MoveToDeadLetter, Sending, Results
<1>2. /\ Current \in outbox /\ Current \in Packets
      /\ attempts[Current] \in Nat /\ attempts[Current] + 1 <= MaxAttempts
  BY <1>1, CurrentIsReady DEF PathInv
<1>3. /\ made' = made /\ dropped' = dropped
      /\ barred' = barred /\ nonces' = nonces
      /\ \A p : Held(p) <=> Held(p)'
  BY DEF Mark, MarkSuccess, MarkRetry, MoveToDeadLetter, Done, bridgeVars, apiVars, fitVars, Held, AtBridge
<1>4. \A p \in (1 .. made) \ dropped : p \in outbox \cup dead \/ Held(p)
  BY DEF PathInv, Custody, Held
<1>a. attempts \in [Packets -> 0 .. MaxAttempts] /\ dead \subseteq Packets /\ MaxAttempts \in Nat
  BY EdgeConstants DEF PathInv, EdgeInv, EdgeTypeOK
<1>5. CASE MarkSuccess
  <2>1. outbox' = outbox \ {Current} /\ dead' = dead /\ attempts' = attempts
    BY <1>5 DEF MarkSuccess
  <2>2. Held(Current)
    BY <1>5 DEF MarkSuccess, PathInv, ResultTrue
  <2>3. \A p \in (1 .. made') \ dropped' : p \in outbox' \cup dead' \/ Held(p)'
    BY <1>3, <1>4, <2>1, <2>2
  <2> QED
    BY <1>3, <2>1, <2>3 DEF Custody, Held, PathInv, DeadForAReason
<1>6. CASE MarkRetry
  <2>1. outbox' = outbox /\ dead' = dead
        /\ attempts' = [attempts EXCEPT ![Current] = @ + 1]
    BY <1>6 DEF MarkRetry
  <2>2. Custody'
    BY <1>3, <1>4, <2>1 DEF Custody, Held
  <2>3. \A p \in dead : attempts'[p] = attempts[p]
    BY <1>2, <1>a, <2>1 DEF PathInv, EdgeInv, RowsAreWhereTheyBelong
  <2> QED
    BY <1>3, <2>1, <2>2, <2>3 DEF PathInv, DeadForAReason
<1>7. CASE MoveToDeadLetter
  <2>1. /\ outbox' = outbox \ {Current} /\ dead' = dead \cup {Current}
        /\ attempts' = [attempts EXCEPT ![Current] = @ + 1]
    BY <1>7 DEF MoveToDeadLetter
  <2>2. Custody'
    BY <1>3, <1>4, <2>1 DEF Custody, Held
  <2>3. \A p \in dead : attempts'[p] = attempts[p]
    BY <1>2, <1>a, <2>1 DEF PathInv, EdgeInv, RowsAreWhereTheyBelong
  <2>4. attempts'[Current] = attempts[Current] + 1
    BY <1>2, <1>a, <2>1
  <2>5. attempts'[Current] = MaxAttempts \/ Current \in nonces \cup barred
    <3>1. CASE at = "refused"
      BY <3>1 DEF PathInv, ResultTrue
    <3>2. CASE at # "refused"
      BY <1>2, <1>7, <1>a, <2>4, <3>2 DEF MoveToDeadLetter
    <3> QED
      BY <3>1, <3>2
  <2>6. \A p \in dead' : attempts'[p] = MaxAttempts \/ p \in nonces' \cup barred'
    BY <1>3, <2>1, <2>3, <2>5 DEF PathInv, DeadForAReason
  <2> QED
    BY <2>2, <2>6 DEF DeadForAReason
<1> QED
  BY <1>5, <1>6, <1>7 DEF Mark

LEMMA AloneKeeps ==
  ASSUME PathInv, EdgeAlone
  PROVE  PathInv'
<1>1. EdgeInv'
  BY EdgeStep, EdgeInvStep DEF PathInv, Next
<1>2. UNCHANGED bridgeVars /\ UNCHANGED apiVars /\ link' = link
  BY DEF EdgeAlone
<1>3. ApiTyped' /\ Once' /\ ApiGrows
  BY <1>2, ApiRests DEF PathInv
<1>4. BridgeKeeps
  BY <1>2, <1>3, BridgeRests DEF PathInv
<1>5. ASSUME at # "wait", at' \notin {"delivered", "refused"} PROVE LinkRight' /\ ResultTrue'
  BY <1>2, <1>5 DEF PathInv, LinkRight, ResultTrue
<1>7. CASE SkipItem \/ FetchReady
  <2>1. /\ at # "wait" /\ at' \notin {"delivered", "refused"}
        /\ UNCHANGED <<made, outbox, dropped, dead, attempts>>
    BY <1>7 DEF SkipItem, FetchReady
  <2>2. Custody' /\ DeadForAReason'
    BY <1>3, <1>4, <2>1, RowsRest DEF BridgeKeeps
  <2> QED
    BY <1>1, <1>3, <1>4, <1>5, <2>1, <2>2 DEF PathInv, BridgeKeeps
<1>8. CASE Mark
  <2>1. at # "wait" /\ at' \notin {"delivered", "refused"}
    BY <1>8 DEF Mark, MarkSuccess, MarkRetry, MoveToDeadLetter, Done
  <2>2. Custody' /\ DeadForAReason'
    BY <1>2, <1>8, MarkCustody
  <2> QED
    BY <1>1, <1>3, <1>4, <1>5, <2>1, <2>2 DEF PathInv, BridgeKeeps
<1>9. ASSUME NEW p \in Packets, BackoffEnds(p) PROVE PathInv'
  <2>1. /\ at' = at /\ batch' = batch
        /\ UNCHANGED <<made, outbox, dropped, dead, attempts>>
    BY <1>9 DEF BackoffEnds
  <2>2. Custody' /\ DeadForAReason' /\ ResultTrue'
    BY <1>3, <1>4, <2>1, RowsRest, ResultRests DEF BridgeKeeps
  <2>3. Current' = Current
    BY <2>1 DEF Current
  <2>4. LinkRight'
    BY <1>2, <2>1, <2>3 DEF PathInv, LinkRight, bridgeVars
  <2> QED
    BY <1>1, <1>3, <1>4, <2>2, <2>4 DEF PathInv, BridgeKeeps
<1> QED
  BY <1>7, <1>8, <1>9 DEF EdgeAlone

(* A packet is made; whatever speaks against it is noted.                   *)
LEMMA EmitsKeep ==
  ASSUME PathInv, EdgeEmits
  PROVE  PathInv'
<1>1. EdgeInv'
  BY EdgeStep, EdgeInvStep DEF PathInv, Next
<1>2. /\ at # "wait" /\ at' \notin {"delivered", "refused"}
      /\ made' = made + 1 /\ dead' = dead /\ attempts' = attempts
      /\ \/ outbox' = outbox \cup {made + 1} /\ dropped' = dropped
         \/ dropped' = dropped \cup {made + 1} /\ outbox' = outbox
      /\ UNCHANGED bridgeVars /\ link' = link /\ nonces' = nonces /\ stored' = stored
      /\ expired' = expired /\ secret' = secret
  BY DEF EdgeEmits, Emit
<1>3. made \in Nat /\ (1 .. made) \subseteq Packets /\ (1 .. made') \subseteq Packets
  BY <1>1, <1>2, EdgeConstants DEF PathInv, EdgeInv, EdgeTypeOK, Packets
<1>4. FitTyped' /\ barred \subseteq barred'
  <2>1. made' \in Packets
    BY <1>2, <1>3
  <2>2. PICK s \in Secrets : signed' = [signed EXCEPT ![made'] = s]
    BY DEF EdgeEmits
  <2>3. signed' \in [Packets -> Secrets \cup {NoSecret}]
    BY <2>2 DEF PathInv, ApiTyped, FitTyped
  <2>4. ahead' \subseteq Packets /\ turned' \subseteq Packets
    BY <2>1 DEF EdgeEmits, PathInv, ApiTyped, FitTyped
  <2>5. barred' \subseteq Packets /\ barred \subseteq barred'
    BY <1>3 DEF EdgeEmits, Note, PathInv, ApiTyped, FitTyped
  <2> QED
    BY <1>2, <2>3, <2>4, <2>5 DEF PathInv, ApiTyped, FitTyped
<1>5. ApiTyped' /\ Once' /\ ApiGrows
  BY <1>2, <1>4 DEF PathInv, ApiTyped, Once, ApiGrows
<1>6. BridgeKeeps
  BY <1>2, <1>5, BridgeRests DEF PathInv
<1>7. LinkRight' /\ ResultTrue'
  BY <1>2 DEF PathInv, LinkRight, ResultTrue
<1>8. \A p \in (1 .. made) \ dropped : p \in outbox \cup dead \/ Held(p)'
  BY <1>3, <1>6 DEF BridgeKeeps, HeldGrows, PathInv, Custody, Held
<1>9. \A p \in (1 .. made') \ dropped' : p \in outbox' \cup dead' \/ Held(p)'
  <2>1. \A p \in 1 .. made' : p \in 1 .. made \/ p = made + 1
    BY <1>2, <1>3
  <2> QED
    BY <1>2, <1>8, <2>1
<1>10. Custody' /\ DeadForAReason'
  BY <1>2, <1>5, <1>9 DEF Custody, Held, PathInv, DeadForAReason, ApiGrows
<1> QED
  BY <1>1, <1>5, <1>6, <1>7, <1>10 DEF PathInv, BridgeKeeps

LEMMA CrashKeeps ==
  ASSUME PathInv, EdgeCrash
  PROVE  PathInv'
<1>1. EdgeInv'
  BY EdgeStep, EdgeInvStep DEF PathInv, Next
<1>2. /\ at' = "input" /\ link' = NoHandler
      /\ UNCHANGED <<made, outbox, dropped, dead, attempts>>
      /\ UNCHANGED apiVars /\ UNCHANGED bridgeVars
  BY DEF EdgeCrash, Crash
<1>3. ApiTyped' /\ Once' /\ ApiGrows
  BY <1>2, ApiRests DEF PathInv
<1>4. BridgeKeeps
  BY <1>2, <1>3, BridgeRests DEF PathInv
<1>5. Custody' /\ DeadForAReason' /\ LinkRight' /\ ResultTrue'
  BY <1>2, <1>3, <1>4, RowsRest DEF BridgeKeeps, LinkRight, ResultTrue
<1> QED
  BY <1>1, <1>3, <1>4, <1>5 DEF PathInv, BridgeKeeps

LEMMA BridgeCrashKeeps ==
  ASSUME PathInv, BridgeCrash
  PROVE  PathInv'
<1>1. EdgeInv'
  BY EdgeStep, EdgeInvStep DEF PathInv, Next
<1>2. /\ BridgeRestart /\ link' = NoHandler
      /\ at' = at /\ batch' = batch
      /\ UNCHANGED <<made, outbox, dropped, dead, attempts>>
      /\ UNCHANGED apiVars
  BY DEF BridgeCrash, edgeVars
<1>3. ApiTyped' /\ Once' /\ ApiGrows
  BY <1>2, ApiRests DEF PathInv
<1>4. BridgeKeeps
  BY <1>2, RestartKeeps DEF PathInv
<1>5. Custody' /\ DeadForAReason' /\ ResultTrue' /\ LinkRight'
  BY <1>2, <1>3, <1>4, RowsRest, ResultRests DEF BridgeKeeps, LinkRight
<1> QED
  BY <1>1, <1>3, <1>4, <1>5 DEF PathInv, BridgeKeeps

(* Time passes, the registry or the admission changes.                      *)
LEMMA AroundKeeps ==
  ASSUME PathInv,
         (\E p \in Packets : CatchUp(p) \/ Expire(p)) \/ RegistryChanges \/ AdmissionChanges
  PROVE  PathInv'
<1>1. /\ nonces' = nonces /\ stored' = stored
      /\ UNCHANGED <<edgeVars, link>> /\ UNCHANGED bridgeVars
  BY DEF CatchUp, Expire, RegistryChanges, AdmissionChanges
<1>2. (1 .. made) \subseteq Packets /\ made' = made
  BY <1>1, EdgeConstants DEF PathInv, EdgeInv, EdgeTypeOK, Packets, edgeVars
<1>3. /\ ahead' \subseteq Packets /\ expired' \subseteq Packets /\ turned' \subseteq Packets
      /\ signed' = signed /\ secret' \in Secrets \cup {NoSecret}
  <2>1. CASE \E p \in Packets : CatchUp(p) \/ Expire(p)
    BY <2>1 DEF CatchUp, Expire, PathInv, ApiTyped, FitTyped
  <2>2. CASE RegistryChanges
    BY <2>2 DEF RegistryChanges, RegisterDrone, RotateKey, DeleteDrone, PathInv, ApiTyped, FitTyped
  <2>3. CASE AdmissionChanges
    BY <1>2, <2>3 DEF AdmissionChanges, PathInv, ApiTyped, FitTyped
  <2> QED
    BY <2>1, <2>2, <2>3
<1>4. barred' \subseteq Packets /\ barred \subseteq barred'
  BY <1>2 DEF CatchUp, Expire, RegistryChanges, AdmissionChanges, Note, PathInv, ApiTyped, FitTyped
<1>5. ApiTyped' /\ Once' /\ ApiGrows
  BY <1>1, <1>3, <1>4 DEF PathInv, ApiTyped, FitTyped, Once, ApiGrows
<1>6. BridgeKeeps /\ KeepsRequests
  BY <1>1, <1>5, BridgeRests DEF PathInv
<1> QED
  BY <1>1, <1>5, <1>6, BehindTheAgent

LEMMA BridgeAloneKeeps ==
  ASSUME PathInv, BridgeAlone
  PROVE  PathInv'
<1>1. BridgeStep /\ UNCHANGED <<edgeVars, link>> /\ UNCHANGED apiVars
  BY DEF BridgeAlone
<1>2. ApiTyped' /\ Once' /\ ApiGrows
  BY <1>1, ApiRests DEF PathInv
<1>3. BridgeKeeps /\ KeepsRequests
  BY <1>1, HandlerStepKeeps, TakeKeeps, WorkerStepKeeps DEF BridgeStep, PathInv
<1> QED
  BY <1>1, <1>2, <1>3, BehindTheAgent

LEMMA PathStep ==
  ASSUME PathInv, MadeInv, [Next]_vars
  PROVE  PathInv'
<1>1. CASE UNCHANGED vars
  <2>1. UNCHANGED <<edgeVars, link>> /\ UNCHANGED bridgeVars /\ UNCHANGED apiVars
    BY <1>1 DEF vars
  <2>2. ApiTyped' /\ Once' /\ ApiGrows
    BY <2>1, ApiRests DEF PathInv
  <2>3. BridgeKeeps /\ KeepsRequests
    BY <2>1, <2>2, BridgeRests DEF PathInv
  <2> QED
    BY <2>1, <2>2, <2>3, BehindTheAgent
<1>2. CASE EdgeEmits \/ EdgeSends \/ EdgeHears \/ EdgeTimesOut \/ EdgeAlone \/ EdgeCrash
  BY <1>2, EmitsKeep, SendsKeep, HearsKeep, TimesOutKeeps, AloneKeeps, CrashKeeps
<1>3. ASSUME NEW h \in Handlers, HandlerForward(h) PROVE PathInv'
  <2>1. UNCHANGED <<edgeVars, link>>
    BY <1>3 DEF HandlerForward
  <2> QED
    BY <1>3, <2>1, HandlerForwardKeeps, BehindTheAgent DEF PathInv
<1>4. ASSUME NEW h \in Handlers, AnswerIsLost(h) PROVE PathInv'
  BY <1>4, LostKeeps
<1>5. CASE WorkerForwards
  <2>1. UNCHANGED <<edgeVars, link>>
    BY <1>5 DEF WorkerForwards
  <2> QED
    BY <1>5, <2>1, WorkerForwardKeeps, BehindTheAgent DEF PathInv
<1>6. CASE BridgeAlone \/ BridgeCrash
  BY <1>6, BridgeAloneKeeps, BridgeCrashKeeps
<1>7. CASE (\E p \in Packets : CatchUp(p) \/ Expire(p)) \/ RegistryChanges \/ AdmissionChanges
  BY <1>7, AroundKeeps
<1> QED
  BY <1>1, <1>2, <1>3, <1>4, <1>5, <1>6, <1>7 DEF Next

(* What speaks against a packet is noted when it comes up.                  *)
LEMMA NotedStep ==
  ASSUME PathInv, Noted, [Next]_vars
  PROVE  Noted'
<1>1. made \in Nat
  BY EdgeConstants DEF PathInv, EdgeInv, EdgeTypeOK
<1>2. CASE UNCHANGED fitVars /\ made' = made
  BY <1>2 DEF Noted, Unfit, fitVars
<1>3. CASE Note /\ made' = made /\ signed' = signed
  BY <1>3 DEF Note, Noted
<1>4. CASE EdgeEmits
  <2>1. made' = made + 1 /\ Note
    BY <1>4 DEF EdgeEmits, Emit
  <2>2. PICK s \in Secrets : signed' = [signed EXCEPT ![made'] = s]
    BY <1>4 DEF EdgeEmits
  <2>3. \A p \in 1 .. made' : p = made' \/ p \in 1 .. made
    BY <1>1, <2>1
  <2>4. (1 .. made') \subseteq Packets
    <3>1. EdgeInv'
      BY EdgeStep, EdgeInvStep DEF PathInv
    <3> QED
      BY <3>1, EdgeConstants DEF EdgeInv, EdgeTypeOK, Packets
  <2>5. \A p \in 1 .. made' : signed'[p] \in Secrets
    BY <2>2, <2>3, <2>4 DEF Noted, PathInv, ApiTyped, FitTyped
  <2> QED
    BY <2>1, <2>5 DEF Note, Noted
<1>5. ASSUME NEW p \in Packets, CatchUp(p) PROVE Noted'
  BY <1>5 DEF CatchUp, Noted, Unfit, edgeVars
<1>6. CASE (\E p \in Packets : Expire(p)) \/ RegistryChanges \/ AdmissionChanges
  BY <1>3, <1>6 DEF Expire, RegistryChanges, AdmissionChanges, edgeVars
<1>7. CASE UNCHANGED vars
  BY <1>2, <1>7 DEF vars, apiVars, edgeVars
<1>8. CASE EdgeSends \/ EdgeHears \/ EdgeTimesOut \/ EdgeAlone \/ EdgeCrash
  <2>1. UNCHANGED fitVars
    BY <1>8 DEF EdgeSends, EdgeHears, EdgeTimesOut, EdgeAlone, EdgeCrash, apiVars
  <2>2. made' = made
    BY <1>8 DEF EdgeSends, EdgeHears, EdgeTimesOut, EdgeAlone, EdgeCrash, Send, Receive, Crash,
                SkipItem, FetchReady, Mark, MarkSuccess, MarkRetry, MoveToDeadLetter, Done, BackoffEnds
  <2> QED
    BY <1>2, <2>1, <2>2
<1>9. CASE \/ \E h \in Handlers : HandlerForward(h) \/ AnswerIsLost(h)
           \/ WorkerForwards \/ BridgeAlone \/ BridgeCrash
  BY <1>2, <1>9 DEF HandlerForward, AnswerIsLost, WorkerForwards, BridgeAlone, BridgeCrash, Api,
                    apiVars, edgeVars
<1> QED
  BY <1>4, <1>5, <1>6, <1>7, <1>8, <1>9 DEF Next

(* What is on its way through the bridge comes from the agent.              *)
LEMMA BridgeCarries ==
  ASSUME BridgeTyped, CarriedIsMade, made' = made,
         \/ UNCHANGED bridgeVars
         \/ \E h \in Handlers : Respond(h)
         \/ \E h \in Handlers, p \in 1 .. made : Accept(h, p) \/ TurnAway(h, p)
         \/ \E h \in Handlers, r \in Forwards : HandlerForwarded(h, r)
         \/ \E r \in Forwards : WorkerForward(r)
         \/ BridgeStep \/ BridgeRestart
  PROVE  CarriedIsMade'
<1>u. ASSUME handler' = handler \/ handler' = [h \in Handlers |-> Idle]
             \/ \E h \in Handlers : handler' = [handler EXCEPT ![h] = Idle]
      PROVE  \A h \in Handlers : handler'[h] # Idle => handler'[h].packet \in 1 .. made
  BY <1>u DEF CarriedIsMade, BridgeTyped
<1>m. ASSUME NEW h \in Handlers, handler[h].step \in Busy, NEW step \in Busy \cup Answers,
             To(h, step)
      PROVE  \A q \in Handlers : handler'[q] # Idle => handler'[q].packet \in 1 .. made
  <2>1. /\ handler'[h].packet = handler[h].packet /\ handler[h] # Idle
        /\ \A q \in Handlers \ {h} : handler'[q] = handler[q]
    BY <1>m, HandlerMoves, BusyHandler
  <2> QED
    BY <2>1 DEF CarriedIsMade
<1>a. ASSUME NEW h \in Handlers, NEW p \in 1 .. made, NEW step,
             handler' = [handler EXCEPT ![h] = [step |-> step, packet |-> p, attempts |-> 0]]
      PROVE  \A q \in Handlers : handler'[q] # Idle => handler'[q].packet \in 1 .. made
  BY <1>a DEF CarriedIsMade, BridgeTyped
<1>q. ASSUME NEW packet \in 1 .. made, packet \in Packets, NEW n \in 0 .. BridgeMaxAttempts - 1,
             queue' = Append(queue, [packet |-> packet, attempts |-> n])
      PROVE  \A p : Queued(p)' => p \in 1 .. made
  <2>1. PICK e \in Item : e = [packet |-> packet, attempts |-> n]
    BY <1>q DEF Item
  <2> QED
    BY <1>q, <2>1, Appended DEF CarriedIsMade
<1>k. queue' = queue => \A p : Queued(p)' => p \in 1 .. made
  BY DEF CarriedIsMade, Queued
<1>w. worker' = worker \/ worker' = Idle => (worker' # Idle => worker'.packet \in 1 .. made)
  BY DEF CarriedIsMade
<1>v. ASSUME worker.step \in Busy,
             worker' = [worker EXCEPT !.step = "push"]
             \/ worker' = [worker EXCEPT !.step = "check", !.attempts = @ + 1]
      PROVE  worker' # Idle => worker'.packet \in 1 .. made
  <2>1. worker # Idle
    BY <1>v, WorkerHas
  <2>2. worker'.packet = worker.packet
    BY <1>v, <2>1, BusyWorker
  <2> QED
    BY <2>1, <2>2 DEF CarriedIsMade
<1>1. CASE UNCHANGED bridgeVars \/ BridgeRestart
  BY <1>1, <1>k, <1>u, <1>w DEF bridgeVars, BridgeRestart, CarriedIsMade
<1>2. CASE \E h \in Handlers : Respond(h)
  BY <1>2, <1>k, <1>u, <1>w DEF Respond, CarriedIsMade
<1>3. CASE \E h \in Handlers, p \in 1 .. made : Accept(h, p) \/ TurnAway(h, p)
  BY <1>3, <1>k, <1>a, <1>w DEF Accept, TurnAway, CarriedIsMade
<1>4. ASSUME NEW h \in Handlers, NEW r \in Forwards, HandlerForwarded(h, r) PROVE CarriedIsMade'
  <2>1. PICK step \in Busy \cup Answers : To(h, step) /\ handler[h].step \in Busy
    BY <1>4 DEF HandlerForwarded, Busy, Answers, Forwards
  <2> QED
    BY <1>4, <1>k, <1>m, <1>w, <2>1 DEF HandlerForwarded, CarriedIsMade
<1>5. ASSUME NEW h \in Handlers, HandlerChecks(h) \/ HandlerCannotQueue(h) PROVE CarriedIsMade'
  <2>1. PICK step \in Busy \cup Answers : To(h, step) /\ handler[h].step \in Busy
    BY <1>5 DEF HandlerChecks, HandlerCannotQueue, Busy, Answers
  <2> QED
    BY <1>5, <1>k, <1>m, <1>w, <2>1 DEF HandlerChecks, HandlerCannotQueue, CarriedIsMade
<1>6. ASSUME NEW h \in Handlers, HandlerPushes(h) PROVE CarriedIsMade'
  <2>1. To(h, "queued") /\ handler[h].step \in Busy /\ worker' = worker
        /\ queue' = Append(queue, [packet |-> handler[h].packet, attempts |-> 0])
    BY <1>6 DEF HandlerPushes, Busy
  <2>2. handler[h].packet \in 1 .. made /\ handler[h].packet \in Packets
    BY <2>1, BusyHandler DEF CarriedIsMade
  <2>3. 0 \in 0 .. BridgeMaxAttempts - 1
    BY BridgeAssumption
  <2>4. \A p : Queued(p)' => p \in 1 .. made
    BY <1>q, <2>1, <2>2, <2>3
  <2> QED
    BY <1>m, <1>w, <2>1, <2>4 DEF CarriedIsMade, Answers
<1>7. CASE Dequeue \/ DequeueFails
  <2>1. /\ handler' = handler /\ queue # <<>> /\ queue' = Tail(queue)
        /\ worker' = worker \/ worker'.packet = Head(queue).packet
    BY <1>7 DEF Dequeue, DequeueFails
  <2>2. (\A p : Queued(p)' => Queued(p)) /\ Head(queue).packet \in 1 .. made
    BY <2>1, Taken DEF CarriedIsMade
  <2> QED
    BY <1>u, <2>1, <2>2 DEF CarriedIsMade
<1>8. CASE WorkerChecks \/ WorkerCannotQueue
  <2>1. /\ handler' = handler /\ queue' = queue /\ worker.step \in Busy
        /\ worker' = Idle \/ worker' = [worker EXCEPT !.step = "push"]
    BY <1>8 DEF WorkerChecks, WorkerCannotQueue, Busy
  <2> QED
    BY <1>k, <1>u, <1>v, <1>w, <2>1 DEF CarriedIsMade
<1>9. CASE WorkerPushes
  <2>1. /\ worker.step \in Busy /\ worker' = Idle /\ handler' = handler
        /\ queue' = Append(queue, [packet |-> worker.packet, attempts |-> worker.attempts])
    BY <1>9 DEF WorkerPushes, Busy
  <2>2. worker # Idle
    BY <2>1, WorkerHas
  <2>3. /\ worker.packet \in Packets /\ worker.packet \in 1 .. made
        /\ worker.attempts \in 0 .. BridgeMaxAttempts - 1
    BY <2>2, BusyWorker DEF CarriedIsMade
  <2>4. \A p : Queued(p)' => p \in 1 .. made
    BY <1>q, <2>1, <2>3
  <2> QED
    BY <1>u, <1>w, <2>1, <2>4 DEF CarriedIsMade
<1>10. ASSUME NEW r \in Forwards, WorkerForward(r) PROVE CarriedIsMade'
  <2>1. /\ handler' = handler /\ queue' = queue /\ worker.step \in Busy
        /\ worker' = Idle \/ worker' = [worker EXCEPT !.step = "check", !.attempts = @ + 1]
    BY <1>10 DEF WorkerForward, WorkerForwarded, WorkerRetries, WorkerGivesUp, Busy
  <2> QED
    BY <1>k, <1>u, <1>v, <1>w, <2>1 DEF CarriedIsMade
<1> QED
  BY <1>1, <1>2, <1>3, <1>4, <1>5, <1>6, <1>7, <1>8, <1>9, <1>10 DEF BridgeStep

LEMMA MadeStep ==
  ASSUME PathInv, MadeInv, [Next]_vars
  PROVE  MadeInv'
<1>t. BridgeTyped /\ CarriedIsMade /\ made \in Nat
  BY EdgeConstants DEF PathInv, MadeInv, EdgeInv, EdgeTypeOK
<1>1. CASE EdgeEmits
  <2>1. UNCHANGED bridgeVars /\ (1 .. made) \subseteq (1 .. made')
    BY <1>1, <1>t DEF EdgeEmits, Emit
  <2> QED
    BY <2>1, NotedStep DEF MadeInv, CarriedIsMade, bridgeVars, Queued
<1>2. CASE EdgeSends
  <2>1. at = "send" /\ made' = made
    BY <1>2 DEF EdgeSends, Send
  <2>2. Current \in 1 .. made
    BY <2>1, CurrentIsReady DEF PathInv, Sending
  <2> QED
    BY <1>2, <1>t, <2>1, <2>2, BridgeCarries, NotedStep DEF EdgeSends, MadeInv
<1>3. CASE EdgeHears
  <2>1. made' = made /\ link \in Handlers /\ Respond(link)
    BY <1>3 DEF EdgeHears, Receive, PathInv, LinkRight
  <2> QED
    BY <1>t, <2>1, BridgeCarries, NotedStep DEF MadeInv
<1>4. CASE UNCHANGED vars \/ EdgeTimesOut \/ EdgeAlone \/ EdgeCrash
           \/ (\E p \in Packets : CatchUp(p) \/ Expire(p)) \/ RegistryChanges \/ AdmissionChanges
  <2>1. UNCHANGED bridgeVars
    BY <1>4 DEF vars, EdgeTimesOut, EdgeAlone, EdgeCrash, CatchUp, Expire, RegistryChanges,
                AdmissionChanges
  <2>2. made' = made
    BY <1>4 DEF vars, edgeVars, EdgeTimesOut, EdgeAlone, EdgeCrash, CatchUp, Expire,
                RegistryChanges, AdmissionChanges, Receive, Crash, SkipItem, FetchReady, Mark,
                MarkSuccess, MarkRetry, MoveToDeadLetter, Done, BackoffEnds
  <2> QED
    BY <1>t, <2>1, <2>2, BridgeCarries, NotedStep DEF MadeInv
<1>5. CASE \/ \E h \in Handlers : HandlerForward(h) \/ AnswerIsLost(h)
           \/ WorkerForwards \/ BridgeAlone \/ BridgeCrash
  <2>1. made' = made
    BY <1>5 DEF HandlerForward, AnswerIsLost, WorkerForwards, BridgeAlone, BridgeCrash, edgeVars
  <2>2. \/ \E h \in Handlers, r \in Forwards : HandlerForwarded(h, r)
        \/ \E h \in Handlers : Respond(h)
        \/ \E r \in Forwards : WorkerForward(r)
        \/ BridgeStep \/ BridgeRestart
    BY <1>5 DEF HandlerForward, AnswerIsLost, WorkerForwards, BridgeAlone, BridgeCrash
  <2> QED
    BY <1>t, <2>1, <2>2, BridgeCarries, NotedStep DEF MadeInv
<1> QED
  BY <1>1, <1>2, <1>3, <1>4, <1>5 DEF Next

LEMMA PathInit == Init => PathInv /\ MadeInv
<1> SUFFICES ASSUME Init PROVE PathInv /\ MadeInv
  OBVIOUS
<1>1. EdgeInit /\ BridgeInit /\ link = NoHandler
      /\ ahead = {} /\ expired = {} /\ turned = {} /\ barred = {}
      /\ nonces = {} /\ stored = [p \in Packets |-> 0]
      /\ signed = [p \in Packets |-> NoSecret] /\ secret \in Secrets \cup {NoSecret}
  BY DEF Init
<1>2. EdgeInv
  BY <1>1, EdgeInvInit
<1>3. BridgeTyped
  BY <1>1, BridgeAssumption, EmptySeq DEF BridgeInit, BridgeTyped, HandlerState, WorkerState
<1>4. ApiTyped /\ Once
  BY <1>1 DEF ApiTyped, FitTyped, Once
<1>5. \A h \in Handlers : handler[h].step = "idle"
  BY <1>1, IdleFields DEF BridgeInit
<1>6. AnswersTrue
  BY <1>5 DEF AnswersTrue, AnswerTrue
<1>7. LinkRight /\ ResultTrue
  BY <1>1 DEF LinkRight, ResultTrue, EdgeInit
<1>8. Custody /\ DeadForAReason
  <2>1. 1 .. made = {} /\ dead = {}
    BY <1>1 DEF EdgeInit
  <2> QED
    BY <2>1 DEF Custody, DeadForAReason
<1>9. MadeInv
  <2>1. 1 .. made = {} /\ DOMAIN queue = {}
    BY <1>1 DEF EdgeInit, BridgeInit
  <2> QED
    BY <1>1, <2>1 DEF BridgeInit, MadeInv, Noted, CarriedIsMade, Queued
<1> QED
  BY <1>2, <1>3, <1>4, <1>6, <1>7, <1>8, <1>9 DEF PathInv

(* The invariant of agent, bridge and API together.                         *)
THEOREM PathInvHolds == Spec => [](PathInv /\ MadeInv)
<1>1. PathInv /\ MadeInv /\ [Next]_vars => PathInv' /\ MadeInv'
  BY PathStep, MadeStep
<1> QED
  BY <1>1, PathInit, PTL DEF Spec

(* The agent on the way through bridge and API implements the agent that    *)
(* any answers may meet: what is proved of EdgeSpool holds on the way.      *)
THEOREM PathImplementsEdge == Spec => EdgeSpec
<1>1. Init => EdgeInit
  BY DEF Init
<1> QED
  BY <1>1, EdgeStep, PTL DEF Spec, EdgeSpec

(* process_telemetry under the retries of agent and bridge: no packet is    *)
(* stored twice.                                                            *)
THEOREM PacketsAreStoredOnce == Spec => []StoredOnce
<1>1. PathInv => StoredOnce
  BY DEF PathInv, Once, StoredOnce
<1> QED
  BY <1>1, PathInvHolds, PTL

(* runner.py, main.py, worker.py: a spooled packet is in the spool, at the  *)
(* bridge or stored, or the worker let it go.                               *)
THEOREM CustodyIsKept == Spec => []Custody
<1>1. PathInv => Custody
  BY DEF PathInv
<1> QED
  BY <1>1, PathInvHolds, PTL

(* _flush_outbox: a packet is given up after its last attempt, or for one   *)
(* of the reasons of bridge_ingest and process_telemetry: it was turned     *)
(* away, its drone not registered or with another secret, the clocks apart, *)
(* or its nonce known.                                                      *)
THEOREM DeadLettersHaveReasons == Spec => []DeadForAReason
<1>1. PathInv => DeadForAReason
  BY DEF PathInv
<1> QED
  BY <1>1, PathInvHolds, PTL

(* Rows, requests, envelopes and answers keep their types.                  *)
THEOREM PathTyping == Spec => []TypeOK
<1>1. PathInv => TypeOK
  <2> SUFFICES ASSUME PathInv PROVE TypeOK
    OBVIOUS
  <2>1. EdgeTypeOK
    BY DEF PathInv, EdgeInv
  <2>2. ASSUME NEW h \in Handlers
        PROVE  \/ handler[h] = Idle
               \/ /\ handler[h].step \in Busy \cup Answers
                  /\ handler[h].packet \in Envelopes
    BY PathAssumption DEF PathInv, BridgeTyped, HandlerState
  <2>3. ASSUME NEW i \in DOMAIN queue
        PROVE  queue[i] \in Envelope /\ queue[i].attempts < BridgeMaxAttempts
    <3>1. queue[i] \in Item
      BY ElementOfSeq, LenProperties DEF PathInv, BridgeTyped
    <3> QED
      BY <3>1, PathAssumption, BridgeAssumption DEF Item, Envelope
  <2>4. worker = Idle \/ (worker.step \in Busy /\ worker.packet \in Envelopes)
    BY PathAssumption DEF PathInv, BridgeTyped, WorkerState
  <2>5. dlq \subseteq Envelopes /\ gone \subseteq Envelopes
    BY PathAssumption DEF PathInv, BridgeTyped
  <2>6. BridgeTypeOK
    BY <2>2, <2>3, <2>4, <2>5 DEF PathInv, BridgeTyped, BridgeTypeOK
  <2> QED
    BY <2>1, <2>6 DEF PathInv, LinkRight, ApiTyped, FitTyped, TypeOK
<1> QED
  BY <1>1, PathInvHolds, PTL

-----------------------------------------------------------------------------
(* The length of the list *)

(* Who has looked at the length and is about to push.                       *)
Pushing == {h \in Handlers : handler[h].step = "push"}
WorkerPushing == IF worker.step = "push" THEN 1 ELSE 0

RoomForAll ==
  Len(queue) + Cardinality(Pushing) + WorkerPushing <= BridgeQueueMax + Cardinality(Handlers)

LEMMA PushersTyped ==
  /\ IsFiniteSet(Pushing) /\ Cardinality(Pushing) \in Nat /\ Cardinality(Handlers) \in Nat
  /\ Cardinality(Pushing) <= Cardinality(Handlers)
  /\ WorkerPushing \in {0, 1}
<1>1. Pushing \in SUBSET Handlers
  BY DEF Pushing
<1> QED
  BY <1>1, BridgeAssumption, FS_Subset, FS_CardinalityType DEF WorkerPushing

LEMMA LenTyped == BridgeTyped => Len(queue) \in Nat
BY LenProperties DEF BridgeTyped

(* Whoever sees room leaves room for everybody.                             *)
LEMMA RoomSeen ==
  ASSUME BridgeTyped, HasRoom, queue' = queue
  PROVE  RoomForAll'
<1>1. Len(queue) <= BridgeQueueMax - 1 /\ Len(queue') = Len(queue)
  BY LenTyped, BridgeAssumption DEF HasRoom
<1>2. /\ Cardinality(Pushing') \in Nat /\ Cardinality(Pushing') <= Cardinality(Handlers)
      /\ WorkerPushing' \in {0, 1}
  <2>1. Pushing' \in SUBSET Handlers
    BY DEF Pushing
  <2> QED
    BY <2>1, BridgeAssumption, FS_Subset, FS_CardinalityType DEF WorkerPushing
<1> QED
  BY <1>1, <1>2, LenTyped, PushersTyped, BridgeAssumption DEF RoomForAll

(* Steps after which no more are about to push, on a list not longer.       *)
LEMMA RoomStays ==
  ASSUME BridgeTyped, RoomForAll, Pushing' \subseteq Pushing, WorkerPushing' <= WorkerPushing,
         Len(queue') \in Nat, Len(queue') <= Len(queue)
  PROVE  RoomForAll'
<1>1. Cardinality(Pushing') \in Nat /\ Cardinality(Pushing') <= Cardinality(Pushing)
  BY PushersTyped, FS_Subset, FS_CardinalityType
<1>2. WorkerPushing' \in {0, 1}
  BY DEF WorkerPushing
<1> QED
  BY <1>1, <1>2, LenTyped, PushersTyped, BridgeAssumption DEF RoomForAll

(* A handler that moves elsewhere, and nothing else of the bridge.          *)
LEMMA RoomBeside ==
  ASSUME BridgeTyped, RoomForAll, queue' = queue, WorkerPushing' <= WorkerPushing,
         \A h \in Handlers : handler'[h].step = "push" => handler[h].step = "push"
  PROVE  RoomForAll'
<1>1. Pushing' \subseteq Pushing
  BY DEF Pushing
<1>2. Len(queue') \in Nat /\ Len(queue') <= Len(queue)
  BY LenTyped
<1> QED
  BY <1>1, <1>2, RoomStays

LEMMA RoomStep ==
  ASSUME PathInv, RoomForAll, [Next]_vars
  PROVE  RoomForAll'
<1>t. BridgeTyped
  BY DEF PathInv
<1>w. worker' = worker => WorkerPushing' <= WorkerPushing
  BY DEF WorkerPushing
<1>m. ASSUME NEW h \in Handlers, NEW step, To(h, step), step # "push"
      PROVE  \A q \in Handlers : handler'[q].step = "push" => handler[q].step = "push"
  <2>1. handler[h] \in HandlerState /\ handler'[h] = [handler[h] EXCEPT !.step = step]
        /\ \A q \in Handlers \ {h} : handler'[q] = handler[q]
    BY <1>m, <1>t DEF To, BridgeTyped
  <2>2. handler'[h].step = step
    BY <2>1 DEF HandlerState, Idle
  <2> QED
    BY <1>m, <2>1, <2>2
<1>1. CASE UNCHANGED bridgeVars
  BY <1>1, <1>t, <1>w, RoomBeside DEF bridgeVars
<1>2. ASSUME NEW h \in Handlers, NEW p, Accept(h, p) \/ TurnAway(h, p) PROVE RoomForAll'
  <2>1. handler'[h].step \in {"forward", "refused"}
        /\ \A q \in Handlers \ {h} : handler'[q] = handler[q]
    BY <1>2, <1>t DEF Accept, TurnAway, BridgeTyped
  <2> QED
    BY <1>2, <1>t, <1>w, <2>1, RoomBeside DEF Accept, TurnAway
<1>3. ASSUME NEW h \in Handlers, Respond(h) PROVE RoomForAll'
  <2>1. handler'[h].step = "idle" /\ \A q \in Handlers \ {h} : handler'[q] = handler[q]
    BY <1>3, <1>t, IdleFields DEF Respond, BridgeTyped
  <2> QED
    BY <1>3, <1>t, <1>w, <2>1, RoomBeside DEF Respond
<1>4. ASSUME NEW h \in Handlers, NEW r \in Forwards, HandlerForwarded(h, r) PROVE RoomForAll'
  <2>1. PICK step : To(h, step) /\ step # "push"
    BY <1>4 DEF HandlerForwarded, Forwards
  <2> QED
    BY <1>4, <1>m, <1>t, <1>w, <2>1, RoomBeside DEF HandlerForwarded
<1>5. ASSUME NEW h \in Handlers, HandlerChecks(h) PROVE RoomForAll'
  <2>1. CASE HasRoom
    BY <1>5, <1>t, <2>1, RoomSeen DEF HandlerChecks
  <2>2. CASE ~HasRoom
    <3>1. To(h, "unavailable")
      BY <1>5, <2>2 DEF HandlerChecks
    <3> QED
      BY <1>5, <1>m, <1>t, <1>w, <3>1, RoomBeside DEF HandlerChecks
  <2> QED
    BY <2>1, <2>2
<1>6. ASSUME NEW h \in Handlers, HandlerPushes(h) PROVE RoomForAll'
  <2>1. /\ handler[h].step = "push" /\ To(h, "queued") /\ worker' = worker
        /\ queue' = Append(queue, [packet |-> handler[h].packet, attempts |-> 0])
    BY <1>6 DEF HandlerPushes
  <2>2. PICK e \in Item : queue' = Append(queue, e)
    BY <1>t, <2>1, BusyHandler, BridgeAssumption DEF Item, Busy
  <2>3. Len(queue') = Len(queue) + 1
    BY <1>t, <2>2, AppendProperties DEF BridgeTyped
  <2>4. Pushing' = Pushing \ {h} /\ h \in Pushing
    <3>1. handler'[h].step = "queued" /\ \A q \in Handlers \ {h} : handler'[q] = handler[q]
      <4>1. "queued" \in Busy \cup Answers /\ handler[h].step \in Busy
        BY <2>1 DEF Busy, Answers
      <4> QED
        BY <1>t, <2>1, <4>1, HandlerMoves
    <3> QED
      BY <2>1, <3>1 DEF Pushing
  <2>5. Cardinality(Pushing') = Cardinality(Pushing) - 1
    BY <2>4, PushersTyped, FS_RemoveElement
  <2>6. WorkerPushing' = WorkerPushing
    BY <2>1 DEF WorkerPushing
  <2> QED
    BY <1>t, <2>3, <2>5, <2>6, LenTyped, PushersTyped, BridgeAssumption DEF RoomForAll
<1>7. ASSUME NEW h \in Handlers, HandlerCannotQueue(h) PROVE RoomForAll'
  <2>1. To(h, "unavailable")
    BY <1>7 DEF HandlerCannotQueue
  <2> QED
    BY <1>7, <1>m, <1>t, <1>w, <2>1, RoomBeside DEF HandlerCannotQueue
<1>8. CASE Dequeue \/ DequeueFails
  <2>1. /\ handler' = handler /\ queue # <<>> /\ queue' = Tail(queue)
        /\ worker'.step # "push"
    BY <1>8, IdleFields DEF Dequeue, DequeueFails
  <2>2. Len(queue') = Len(queue) - 1 /\ Len(queue') \in Nat
    BY <1>t, <2>1, HeadTailProperties, LenProperties DEF BridgeTyped
  <2>3. Pushing' = Pushing /\ WorkerPushing' <= WorkerPushing
    BY <2>1 DEF Pushing, WorkerPushing
  <2> QED
    BY <1>t, <2>2, <2>3, LenTyped, RoomStays
<1>9. CASE WorkerChecks
  <2>1. CASE HasRoom
    BY <1>9, <1>t, <2>1, RoomSeen DEF WorkerChecks
  <2>2. CASE ~HasRoom
    <3>1. worker'.step = "idle"
      BY <1>9, <2>2, IdleFields DEF WorkerChecks
    <3>2. WorkerPushing' <= WorkerPushing
      BY <3>1 DEF WorkerPushing
    <3> QED
      BY <1>9, <1>t, <3>2, RoomBeside DEF WorkerChecks
  <2> QED
    BY <2>1, <2>2
<1>10. CASE WorkerPushes
  <2>1. /\ worker.step = "push" /\ worker'.step = "idle" /\ handler' = handler
        /\ queue' = Append(queue, [packet |-> worker.packet, attempts |-> worker.attempts])
    BY <1>10, IdleFields DEF WorkerPushes
  <2>2. PICK e \in Item : queue' = Append(queue, e)
    BY <1>t, <2>1, BusyWorker, WorkerHas DEF Item, Busy
  <2>3. Len(queue') = Len(queue) + 1
    BY <1>t, <2>2, AppendProperties DEF BridgeTyped
  <2>4. Pushing' = Pushing /\ WorkerPushing = 1 /\ WorkerPushing' = 0
    BY <2>1 DEF Pushing, WorkerPushing
  <2> QED
    BY <1>t, <2>3, <2>4, LenTyped, PushersTyped, BridgeAssumption DEF RoomForAll
<1>11. CASE WorkerCannotQueue \/ BridgeRestart
  <2>1. /\ worker'.step = "idle" /\ queue' = queue
        /\ \A h \in Handlers : handler'[h].step = "push" => handler[h].step = "push"
    BY <1>11, IdleFields DEF WorkerCannotQueue, BridgeRestart
  <2>2. WorkerPushing' <= WorkerPushing
    BY <2>1 DEF WorkerPushing
  <2> QED
    BY <1>t, <2>1, <2>2, RoomBeside
<1>12. ASSUME NEW r \in Forwards, WorkerForward(r) PROVE RoomForAll'
  <2>1. worker.step = "forward" /\ queue' = queue /\ handler' = handler
    BY <1>12 DEF WorkerForward, WorkerForwarded, WorkerRetries, WorkerGivesUp
  <2>2. worker'.step # "push"
    <3>1. CASE WorkerRetries(r)
      <4>1. worker \in [step : Busy, packet : Packets, attempts : 0 .. BridgeMaxAttempts - 1]
        BY <1>t, <2>1, BusyWorker, WorkerHas DEF Busy
      <4> QED
        BY <3>1, <4>1 DEF WorkerRetries
    <3>2. CASE WorkerForwarded(r) \/ WorkerGivesUp(r)
      BY <3>2, IdleFields DEF WorkerForwarded, WorkerGivesUp
    <3> QED
      BY <1>12, <3>1, <3>2 DEF WorkerForward
  <2>3. WorkerPushing' <= WorkerPushing
    BY <2>2 DEF WorkerPushing
  <2> QED
    BY <1>t, <2>1, <2>3, RoomBeside
<1>13. CASE BridgeStep
  BY <1>5, <1>6, <1>7, <1>8, <1>9, <1>10, <1>11, <1>13 DEF BridgeStep
<1>14. CASE UNCHANGED vars \/ EdgeEmits \/ EdgeTimesOut \/ EdgeAlone \/ EdgeCrash
            \/ (\E p \in Packets : CatchUp(p) \/ Expire(p)) \/ RegistryChanges \/ AdmissionChanges
  BY <1>1, <1>14 DEF vars, EdgeEmits, EdgeTimesOut, EdgeAlone, EdgeCrash, CatchUp, Expire,
                     RegistryChanges, AdmissionChanges
<1>15. CASE EdgeSends
  BY <1>1, <1>2, <1>15 DEF EdgeSends
<1>16. CASE EdgeHears
  BY <1>3, <1>16 DEF EdgeHears, PathInv, LinkRight
<1>17. ASSUME NEW h \in Handlers, HandlerForward(h) \/ AnswerIsLost(h) PROVE RoomForAll'
  BY <1>3, <1>4, <1>17 DEF HandlerForward, AnswerIsLost
<1>18. CASE WorkerForwards \/ BridgeAlone \/ BridgeCrash
  BY <1>11, <1>12, <1>13, <1>18 DEF WorkerForwards, BridgeAlone, BridgeCrash
<1> QED
  BY <1>14, <1>15, <1>16, <1>17, <1>18 DEF Next

(* queue.py: the handlers between LLEN and RPUSH, and no more, take the     *)
(* list beyond bridge_queue_max.                                            *)
THEOREM OvershootIsBounded == Spec => []QueueOvershoot
<1>1. Init => RoomForAll
  <2> SUFFICES ASSUME Init PROVE RoomForAll
    OBVIOUS
  <2>1. Len(queue) = 0 /\ Pushing = {} /\ WorkerPushing = 0
    BY IdleFields DEF Init, BridgeInit, Pushing, WorkerPushing
  <2> QED
    BY <2>1, FS_EmptySet, PushersTyped, BridgeAssumption DEF RoomForAll
<1>2. PathInv /\ RoomForAll /\ [Next]_vars => RoomForAll'
  BY RoomStep
<1>3. PathInv /\ RoomForAll => QueueOvershoot
  BY LenTyped, PushersTyped, BridgeAssumption DEF PathInv, RoomForAll, QueueOvershoot
<1> QED
  BY <1>1, <1>2, <1>3, PathInvHolds, PTL DEF Spec
=============================================================================
