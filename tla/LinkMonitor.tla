----------------------------- MODULE LinkMonitor -----------------------------
(***************************************************************************)
(* The link_lost alerts: the maintenance thread that opens them            *)
(* (app/services/background.py, alerts.py), the ingest of telemetry on the *)
(* event loop that resolves them, and the operators who acknowledge them,  *)
(* each in a database session of its own.  Sessions read what others have  *)
(* committed (READ COMMITTED) and publish their writes at commit.          *)
(*                                                                         *)
(* One API process; background_idle_after_seconds is 0, its default.  An   *)
(* alert's identifier is used again once the alert is closed and nobody    *)
(* holds it: of closed alerts nothing is told apart.                       *)
(***************************************************************************)
EXTENDS Naturals

CONSTANTS
  Drones,
  NoDrone,        (* what a free alert identifier is about                 *)
  Alerts,         (* identifiers of open alerts                            *)
  LinkLost,       (* link_lost_seconds, in a unit of choice                *)
  MaxFailures     (* bound                                                 *)

ASSUME MonitorAssumption ==
  /\ NoDrone \notin Drones
  /\ LinkLost \in Nat
  /\ MaxFailures \in Nat

Silent == LinkLost + 1     (* ages above it behave alike                   *)
Unknown == LinkLost + 2    (* no row in track_state                        *)
SignalAges == 0 .. Silent

VARIABLES
  age,       (* now - last_seen_at of a drone's track                      *)
  about,     (* the drone an open alert is about                           *)
  tick,      (* the session of the maintenance thread                      *)
  ingest,    (* the session of the packet that is being processed          *)
  failures   (* sessions that ended without a commit                       *)

vars == <<age, about, tick, ingest, failures>>

NoAlert == [a \in Alerts |-> NoDrone]

Asleep == [running |-> FALSE, todo |-> {}, opened |-> NoAlert]
NoPacket == [drone |-> NoDrone, age |-> 0, found |-> {}]

TypeOK ==
  /\ age \in [Drones -> SignalAges \cup {Unknown}]
  /\ about \in [Alerts -> Drones \cup {NoDrone}]
  /\ tick \in [running : BOOLEAN, todo : SUBSET Drones, opened : [Alerts -> Drones \cup {NoDrone}]]
  /\ ingest \in [drone : Drones \cup {NoDrone}, age : SignalAges, found : SUBSET Alerts]
  /\ failures \in 0 .. MaxFailures

Init ==
  /\ age = [d \in Drones |-> Unknown]
  /\ about = NoAlert
  /\ tick = Asleep
  /\ ingest = NoPacket
  /\ failures = 0

OpenFor(d) == {a \in Alerts : about[a] = d}

-----------------------------------------------------------------------------
(* _link_lost_tick: read every track, ensure an alert for each silent one, *)
(* commit.                                                                 *)

TickRead ==
  /\ ~tick.running
  /\ tick' = [Asleep EXCEPT !.running = TRUE, !.todo = {d \in Drones : age[d] = Silent}]
  /\ UNCHANGED <<age, about, ingest, failures>>

Free(a) == about[a] = NoDrone /\ tick.opened[a] = NoDrone /\ a \notin ingest.found

(* Faulty variant: an alert of the drone is not looked for.                 *)
InsertAlert(d) ==
  /\ d \in tick.todo
  /\ \E a \in Alerts : Free(a) /\ tick' = [tick EXCEPT !.todo = @ \ {d}, !.opened[a] = d]
  /\ UNCHANGED <<age, about, ingest, failures>>

(* Faulty variant: the first alert that is found ends the loop.             *)
EnsureUntilFound(d) ==
  /\ d \in tick.todo
  /\ IF OpenFor(d) # {}
     THEN tick' = [tick EXCEPT !.todo = {}]
     ELSE \E a \in Alerts :
            Free(a) /\ tick' = [tick EXCEPT !.todo = @ \ {d}, !.opened[a] = d]
  /\ UNCHANGED <<age, about, ingest, failures>>

(* ensure_open_alert.  It raises if it finds two; OneOpenAlert says that it *)
(* does not.                                                                *)
EnsureOpenAlert(d) ==
  /\ d \in tick.todo
  /\ IF OpenFor(d) # {}
     THEN tick' = [tick EXCEPT !.todo = @ \ {d}]
     ELSE \E a \in Alerts :
            Free(a) /\ tick' = [tick EXCEPT !.todo = @ \ {d}, !.opened[a] = d]
  /\ UNCHANGED <<age, about, ingest, failures>>

TickCommit ==
  /\ tick.running /\ tick.todo = {}
  /\ about' = [a \in Alerts |-> IF tick.opened[a] # NoDrone THEN tick.opened[a] ELSE about[a]]
  /\ tick' = Asleep
  /\ UNCHANGED <<age, ingest, failures>>

(* _safe_call swallows the exception; the session is rolled back.           *)
TickFails ==
  /\ tick.running
  /\ failures < MaxFailures
  /\ failures' = failures + 1
  /\ tick' = Asleep
  /\ UNCHANGED <<age, about, ingest>>

-----------------------------------------------------------------------------
(* process_telemetry, for a packet that passes its checks.  The skew that  *)
(* is allowed exceeds LinkLost, so that the packet itself may be old.      *)

(* Faulty variant: an alert the operator has not seen is left to him.       *)
IngestReadTracks(d, packetAge) ==
  /\ ingest.drone = NoDrone
  /\ ingest' = [drone |-> d, age |-> packetAge, found |-> {}]
  /\ UNCHANGED <<age, about, tick, failures>>

IngestRead(d, packetAge) ==
  /\ ingest.drone = NoDrone
  /\ ingest' = [drone |-> d, age |-> packetAge, found |-> OpenFor(d)]
  /\ UNCHANGED <<age, about, tick, failures>>

IngestCommit ==
  /\ ingest.drone # NoDrone
  /\ age' = [age EXCEPT ![ingest.drone] = ingest.age]
  /\ about' = [a \in Alerts |-> IF a \in ingest.found THEN NoDrone ELSE about[a]]
  /\ ingest' = NoPacket
  /\ UNCHANGED <<tick, failures>>

IngestFails ==
  /\ ingest.drone # NoDrone
  /\ failures < MaxFailures
  /\ failures' = failures + 1
  /\ ingest' = NoPacket
  /\ UNCHANGED <<age, about, tick>>

-----------------------------------------------------------------------------
(* ack_alert, on an open alert: of the others it changes the status too,   *)
(* never to open.                                                          *)
Ack(a) ==
  /\ about[a] # NoDrone
  /\ about' = [about EXCEPT ![a] = NoDrone]
  /\ UNCHANGED <<age, tick, ingest, failures>>

(* Faulty variant: a drone that was never heard grows silent too.           *)
AdvanceUnseen ==
  /\ age' = [d \in Drones |-> IF age[d] # Silent THEN age[d] + 1 ELSE Silent]
  /\ UNCHANGED <<about, tick, ingest, failures>>

Advance ==
  /\ \E d \in Drones : age[d] < Silent
  /\ age' = [d \in Drones |-> IF age[d] < Silent THEN age[d] + 1 ELSE age[d]]
  /\ UNCHANGED <<about, tick, ingest, failures>>

Next ==
  \/ TickRead
  \/ \E d \in Drones : EnsureOpenAlert(d)
  \/ TickCommit
  \/ TickFails
  \/ \E d \in Drones, packetAge \in SignalAges : IngestRead(d, packetAge)
  \/ IngestCommit
  \/ IngestFails
  \/ \E a \in Alerts : Ack(a)
  \/ Advance

Spec == Init /\ [][Next]_vars

(* The maintenance loop starts its tick again and again, a session that    *)
(* does not fail goes on to its commit.  Packets, time and operators need  *)
(* not come.                                                               *)
Fairness ==
  /\ WF_vars(TickRead)
  /\ \A d \in Drones : WF_vars(EnsureOpenAlert(d))
  /\ WF_vars(TickCommit)
  /\ WF_vars(IngestCommit)

FairSpec == Spec /\ Fairness

-----------------------------------------------------------------------------
(* Properties *)

IsOpen(a, d) == about[a] = d \/ tick.opened[a] = d

(* A drone never has two open link_lost alerts, those of the tick under way *)
(* included: with two, scalar_one_or_none in ensure_open_alert raises, and  *)
(* no later tick opens an alert for any drone.                              *)
OneOpenAlert ==
  \A d \in Drones, a, b \in Alerts : IsOpen(a, d) /\ IsOpen(b, d) => a = b

(* A drone that stays silent gets an alert, and another one each time its   *)
(* alert is acknowledged or resolved meanwhile, whatever sessions overlap   *)
(* with the ticks.                                                          *)
SilenceIsReported ==
  \A d \in Drones : age[d] = Silent ~> OpenFor(d) # {} \/ age[d] # Silent

Heard(d) == ingest.drone = d /\ IngestCommit

(* An alert that a tick opens on what it read before the drone was heard    *)
(* again does not stay: as packets go on coming, one of them resolves it.   *)
AlertsAreResolved ==
  \A d \in Drones :
    []<><<Heard(d)>>_vars => \A a \in Alerts : about[a] = d ~> about[a] # d
=============================================================================
