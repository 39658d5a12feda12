---------------------------- MODULE TelemetryPath ----------------------------
(***************************************************************************)
(* A packet's way from the edge agent over the bridge to the API, through  *)
(* a network that loses requests and answers.  The edge agent              *)
(* (EdgeSpool) and the bridge (BridgeRetry) are composed with what the API *)
(* makes of a packet: TelemetryIngest reduced to what decides its answer,  *)
(* with Redis always there.                                                *)
(*                                                                         *)
(* Time is reduced to two events of a packet: the API's clock comes within *)
(* telemetry_allowed_skew_seconds of its timestamp (CatchUp), and leaves   *)
(* it that far behind (Expire).  Headers and body are those an agent makes *)
(* of normalised input, which bridge and API can read.                     *)
(***************************************************************************)
EXTENDS EdgeSpool, BridgeRetry

CONSTANTS
  Secrets,      (* the secrets a drone and its agent may be given          *)
  NoSecret

(* What the agent sends, the bridge may queue.                              *)
ASSUME PathAssumption == Packets \subseteq Envelopes /\ NoSecret \notin Secrets

VARIABLES
  link,      (* the handler whose answer the edge agent waits for          *)
  nonces,    (* packets whose nonce the API has registered                 *)
  stored,    (* rows of telemetry_events for a packet                      *)
  ahead,     (* packets stamped further ahead of the API than is allowed   *)
  expired,   (* packets stamped longer ago than is allowed                 *)
  turned,    (* packets that the gateway or the bridge turns away          *)
  signed,    (* the secret a packet was signed with                        *)
  secret,    (* that of the drone, NoSecret while it is not registered     *)
  barred     (* history: packets of which some of this, at one time since  *)
             (* they were made, spoke against them                         *)

fitVars == <<ahead, expired, turned, signed, secret, barred>>
apiVars == <<nonces, stored, fitVars>>
vars == <<edgeVars, bridgeVars, link, apiVars>>

TypeOK ==
  /\ EdgeTypeOK
  /\ BridgeTypeOK
  /\ link \in Handlers \cup {NoHandler}
  /\ {nonces, ahead, expired, turned, barred} \subseteq SUBSET Packets
  /\ stored \in [Packets -> Nat]
  /\ signed \in [Packets -> Secrets \cup {NoSecret}]
  /\ secret \in Secrets \cup {NoSecret}

Init ==
  /\ EdgeInit
  /\ BridgeInit
  /\ link = NoHandler
  /\ nonces = {}
  /\ stored = [p \in Packets |-> 0]
  /\ ahead = {} /\ expired = {} /\ turned = {} /\ barred = {}
  /\ signed = [p \in Packets |-> NoSecret]
  /\ secret \in Secrets \cup {NoSecret}

-----------------------------------------------------------------------------
(* process_telemetry, and the answer that reaches the bridge.  An answer    *)
(* that is lost or late is "retryable", as is a 500.                        *)

Lost(answer) == {answer, "retryable"}

(* _clock_ok: abs(now - packet_time) is within the skew.                    *)
ClockOk(p) == p \notin ahead \cup expired

NotRegistered(p, r) ==
  /\ secret = NoSecret
  /\ r \in Lost("refused")
  /\ UNCHANGED <<nonces, stored>>

Clock(p, r) ==
  /\ secret # NoSecret
  /\ ~ClockOk(p)
  /\ r \in Lost("refused")
  /\ UNCHANGED <<nonces, stored>>

Replay(p, r) ==
  /\ secret # NoSecret /\ ClockOk(p)
  /\ p \in nonces
  /\ r \in Lost("refused")
  /\ UNCHANGED <<nonces, stored>>

(* The nonce is registered before the signature is looked at.               *)
BadSignature(p, r) ==
  /\ secret # NoSecret /\ ClockOk(p)
  /\ p \notin nonces
  /\ signed[p] # secret
  /\ r \in Lost("refused")
  /\ nonces' = nonces \cup {p}
  /\ UNCHANGED stored

(* Faulty variant: the event is stored whether the nonce is new or not.     *)
StoreAgain(p, r) ==
  /\ secret # NoSecret /\ ClockOk(p)
  /\ signed[p] = secret
  /\ r \in Lost("delivered")
  /\ nonces' = nonces \cup {p}
  /\ stored' = [stored EXCEPT ![p] = @ + 1]

Store(p, r) ==
  /\ secret # NoSecret /\ ClockOk(p)
  /\ p \notin nonces
  /\ signed[p] = secret
  /\ r \in Lost("delivered")
  /\ nonces' = nonces \cup {p}
  /\ stored' = [stored EXCEPT ![p] = @ + 1]

(* The commit fails: a 500, and the nonce is registered.                    *)
FailAfterNonce(p, r) ==
  /\ secret # NoSecret /\ ClockOk(p)
  /\ p \notin nonces
  /\ r = "retryable"
  /\ nonces' = nonces \cup {p}
  /\ UNCHANGED stored

(* The API cannot be reached, or fails before it registers the nonce.       *)
Unreached(r) ==
  /\ r = "retryable"
  /\ UNCHANGED <<nonces, stored>>

Api(p, r) ==
  /\ \/ NotRegistered(p, r) \/ Clock(p, r) \/ Replay(p, r) \/ BadSignature(p, r)
     \/ Store(p, r) \/ FailAfterNonce(p, r) \/ Unreached(r)
  /\ UNCHANGED fitVars

-----------------------------------------------------------------------------
(* What may speak against a packet, and how that changes *)

Unfit(p) == p \in ahead \cup expired \cup turned \/ signed[p] # secret

Note == barred' = barred \cup {p \in 1 .. made' : Unfit(p)'}

(* The agent signs with the secret and the token that it has been given,    *)
(* and stamps the packet with its own clock.                                *)
EdgeEmits ==
  /\ Emit
  /\ \E s \in Secrets : signed' = [signed EXCEPT ![made'] = s]
  /\ ahead' \in {ahead, ahead \cup {made'}}
  /\ turned' \in {turned, turned \cup {made'}}
  /\ UNCHANGED <<bridgeVars, link, nonces, stored, expired, secret>>
  /\ Note

CatchUp(p) ==
  /\ p \in ahead
  /\ ahead' = ahead \ {p}
  /\ UNCHANGED <<edgeVars, bridgeVars, link, nonces, stored, expired, turned, signed, secret, barred>>

Expire(p) ==
  /\ p \in (1 .. made) \ (ahead \cup expired)
  /\ expired' = expired \cup {p}
  /\ UNCHANGED <<edgeVars, bridgeVars, link, nonces, stored, ahead, turned, signed, secret>>
  /\ Note

(* The drone is registered, is given another secret, or is deleted.         *)
RegisterDrone == secret = NoSecret /\ secret' \in Secrets
RotateKey     == secret # NoSecret /\ secret' \in Secrets \ {secret}
DeleteDrone   == secret # NoSecret /\ secret' = NoSecret

RegistryChanges ==
  /\ RegisterDrone \/ RotateKey \/ DeleteDrone
  /\ UNCHANGED <<edgeVars, bridgeVars, link, nonces, stored, ahead, expired, turned, signed>>
  /\ Note

(* The agent's certificate lapses or is renewed; the bridge is configured   *)
(* with another token, or again with the one that some packets carry.       *)
AdmissionChanges ==
  /\ turned' \in (SUBSET (1 .. made)) \ {turned}
  /\ UNCHANGED <<edgeVars, bridgeVars, link, nonces, stored, ahead, expired, signed, secret>>
  /\ Note

-----------------------------------------------------------------------------
(* The edge agent and the bridge *)

EdgeSends ==
  /\ Send
  /\ \/ \E h \in Handlers :
          /\ IF Current \in turned THEN TurnAway(h, Current) ELSE Accept(h, Current)
          /\ link' = h
     \/ UNCHANGED <<bridgeVars, link>>      (* the request is lost *)
  /\ UNCHANGED apiVars

(* TelemetrySender.send of the bridge's answer.                             *)
Outcome(answer) ==
  CASE answer \in {"delivered", "queued"} -> "delivered"
    [] answer = "refused" -> "refused"
    [] answer = "unavailable" -> "retryable"

EdgeHears ==
  /\ link # NoHandler
  /\ Respond(link)
  /\ Receive(Outcome(handler[link].step))
  /\ link' = NoHandler
  /\ UNCHANGED apiVars

EdgeTimesOut ==
  /\ Receive("retryable")
  /\ link' = NoHandler
  /\ UNCHANGED <<bridgeVars, apiVars>>

AnswerIsLost(h) ==
  /\ Respond(h)
  /\ link' = IF link = h THEN NoHandler ELSE link
  /\ UNCHANGED <<edgeVars, apiVars>>

EdgeAlone ==
  /\ \/ SkipItem \/ FetchReady \/ Mark
     \/ \E p \in Packets : BackoffEnds(p)
  /\ UNCHANGED <<bridgeVars, link, apiVars>>

EdgeCrash ==
  /\ Crash
  /\ link' = NoHandler
  /\ UNCHANGED <<bridgeVars, apiVars>>

HandlerForward(h) ==
  \E r \in Forwards :
    HandlerForwarded(h, r) /\ Api(handler[h].packet, r) /\ UNCHANGED <<edgeVars, link>>

WorkerForwards ==
  \E r \in Forwards :
    WorkerForward(r) /\ Api(worker.packet, r) /\ UNCHANGED <<edgeVars, link>>

BridgeAlone == BridgeStep /\ UNCHANGED <<edgeVars, link, apiVars>>

BridgeCrash ==
  /\ BridgeRestart
  /\ link' = NoHandler
  /\ UNCHANGED <<edgeVars, apiVars>>

Next ==
  \/ EdgeEmits \/ EdgeSends \/ EdgeHears \/ EdgeTimesOut \/ EdgeAlone \/ EdgeCrash
  \/ \E h \in Handlers : HandlerForward(h) \/ AnswerIsLost(h)
  \/ WorkerForwards \/ BridgeAlone \/ BridgeCrash
  \/ \E p \in Packets : CatchUp(p) \/ Expire(p)
  \/ RegistryChanges \/ AdmissionChanges

Spec == Init /\ [][Next]_vars

-----------------------------------------------------------------------------
(* Properties *)

(* A packet is stored once, however often the agent and the bridge send it: *)
(* after a lost answer, after a restart, from the outbox and the queue.     *)
StoredOnce == \A p \in Packets : stored[p] <= 1

AtBridge(p) ==
  \/ \E i \in DOMAIN queue : queue[i].packet = p
  \/ worker # Idle /\ worker.packet = p
  \/ p \in dlq

(* A packet that was spooled is in the spool, at the bridge or stored, or   *)
(* the worker let it go: nothing else loses it, whoever crashes when.       *)
Custody ==
  \A p \in (1 .. made) \ dropped :
    p \in outbox \cup dead \cup gone \/ stored[p] > 0 \/ AtBridge(p)

(* A packet becomes a dead letter because it was tried MaxAttempts times,   *)
(* because the API knows its nonce, or because at some time since it was    *)
(* made its timestamp was too old or too far ahead, its drone was not in    *)
(* the registry or had another secret, or it was turned away before the     *)
(* API: none of these is needed for a packet that a crash, a lost answer or *)
(* a full queue delays.                                                     *)
DeadForAReason ==
  \A p \in dead : attempts[p] = MaxAttempts \/ p \in nonces \cup barred

(* The field runbook says that the spool is replayed when the connection    *)
(* comes back (docs/VPN_MTLS_RUNBOOK.md:84): a packet that nothing speaks    *)
(* against but its age does not become a dead letter with attempts left,    *)
(* unless it has been stored.                                               *)
SpoolIsReplayed ==
  \A p \in dead :
    \/ attempts[p] = MaxAttempts \/ stored[p] > 0
    \/ p \in (barred \ expired) \cup turned \/ signed[p] # secret
=============================================================================
