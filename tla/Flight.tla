------------------------------- MODULE Flight -------------------------------
(***************************************************************************)
(* The simulated flights of one interceptor: which position the map shows  *)
(* for it and which points its playback has                                *)
(* (app/services/intercept_simulation.py, app/api/routers/tracks.py).      *)
(*                                                                         *)
(* An interceptor flies from its station straight to the target of a task, *)
(* as soon as the task is accepted.  Nothing of that is stored: a position *)
(* is computed from the task's timestamps and from where the detection has *)
(* its target now.  Positions are distances from the station, and the      *)
(* speed is one unit of distance per unit of time.  Recorded telemetry     *)
(* enters a playback as it is and is left out.                             *)
(***************************************************************************)
EXTENDS Integers, Sequences, SequencesExt, FiniteSetsExt

CONSTANTS
  FlightContacts,   (* the contacts the interceptor is sent to             *)
  Distances,        (* how far their targets are                           *)
  MinDuration,      (* demo_interceptor_min_duration_seconds               *)
  MinStep,          (* the least time between two points of a playback     *)
  Slices,           (* into how many steps a long flight is divided        *)
  Windows,          (* how far back a playback is asked for                *)
  MaxNow,           (* bound on the clock                                  *)
  MaxFlights        (* bound on the tasks of the interceptor               *)

ASSUME FlightAssumption ==
  /\ Distances \subseteq Nat /\ Windows \subseteq Nat \ {0}
  /\ {MinDuration, MinStep, Slices} \subseteq Nat \ {0}
  /\ {MaxNow, MaxFlights} \subseteq Nat

VARIABLES
  now,          (* the clock                                               *)
  flights,      (* the tasks of the interceptor, as they were assigned     *)
  target,       (* where the detection of a contact has its target         *)
  tracked       (* the interceptor has a row in track_state                *)

flightVars == <<now, flights, target, tracked>>

FlightStatus == {"pending", "accepted", "rejected", "completed", "expired"}

Flown == {"accepted", "completed"}

FlightTypeOK ==
  /\ now \in 0 .. MaxNow
  /\ target \in [FlightContacts -> Distances]
  /\ tracked \in BOOLEAN
  /\ \A i \in DOMAIN flights :
       /\ flights[i].contact \in FlightContacts
       /\ flights[i].status \in FlightStatus
       /\ {flights[i].accepted, flights[i].completed} \subseteq 0 .. now

FlightInit ==
  /\ now = 0
  /\ flights = <<>>
  /\ target \in [FlightContacts -> Distances]
  /\ tracked = FALSE

-----------------------------------------------------------------------------
(* _simulation_duration_seconds, _simulate_point,                           *)
(* advance_intercept_simulation                                             *)

Larger(m, n) == IF m >= n THEN m ELSE n

Duration(f) == Larger(MinDuration, target[f.contact])

Place(f, t) ==
  LET elapsed == Larger(0, t - f.accepted)
  IN  IF elapsed >= Duration(f) THEN target[f.contact]
      ELSE (target[f.contact] * elapsed) \div Duration(f)

(* The flights as every request finds them: the accepted ones whose time is *)
(* over are completed first.                                                *)
Advanced ==
  [i \in DOMAIN flights |->
     LET f == flights[i]
     IN  IF f.status = "accepted" /\ now - f.accepted >= Duration(f)
         THEN [f EXCEPT !.status = "completed", !.completed = now]
         ELSE f]

EndOf(f) == IF f.status = "completed" THEN f.completed ELSE now

-----------------------------------------------------------------------------
(* build_simulated_track_overrides, build_playback_response *)

(* The rows come with the latest task first, and each replaces the one      *)
(* before it: the earliest is shown.                                        *)
ShownFlight(fs) == Min({i \in DOMAIN fs : fs[i].status \in Flown})

IsShown(fs) == tracked /\ \E i \in DOMAIN fs : fs[i].status \in Flown

Shown(fs) ==
  LET i == ShownFlight(fs)
  IN  [flight |-> i, at |-> EndOf(fs[i]), place |-> Place(fs[i], EndOf(fs[i]))]

StepOf(f) == Larger(MinStep, Duration(f) \div Slices)

(* Faulty variant: the playback has no point for the end of a flight.       *)
SampleTimesBySteps(f, window) ==
  LET start == Larger(f.accepted, now - window)
  IN  {t \in start .. EndOf(f) : (t - start) % StepOf(f) = 0}

(* When a flight is sampled: every step since it began, or since the window *)
(* did, and at its end.  A flight that ended before the window is left out. *)
SampleTimes(f, window) ==
  LET start == Larger(f.accepted, now - window)
  IN  IF EndOf(f) < now - window THEN {}
      ELSE {t \in start .. EndOf(f) : (t - start) % StepOf(f) = 0} \cup {EndOf(f)}

Playback(fs, window) ==
  UNION {{[flight |-> i, at |-> t, place |-> Place(fs[i], t)]
            : t \in SampleTimes(fs[i], window)}
         : i \in {j \in DOMAIN fs : fs[j].status \in Flown}}

-----------------------------------------------------------------------------
(* Requests and time *)

(* A list of tracks, a playback or any other request that reads tasks.      *)
View ==
  /\ flights' = Advanced
  /\ UNCHANGED <<now, target, tracked>>

(* A report moves the target, also that of a task that is accepted or done. *)
(* The target goes to this interceptor's station, to another one, or to     *)
(* none: another one takes over a task in force, none ends a pending one.   *)
Report(c, d) ==
  LET inForce(f) == f.contact = c /\ f.status \in {"pending", "accepted"}
      expire(S) == [i \in DOMAIN flights |->
                      IF inForce(flights[i]) /\ flights[i].status \in S
                      THEN [flights[i] EXCEPT !.status = "expired"] ELSE flights[i]]
  IN  /\ target' = [target EXCEPT ![c] = d]
      /\ \/ \E i \in DOMAIN flights : inForce(flights[i]) /\ UNCHANGED flights
         \/ /\ \A i \in DOMAIN flights : ~inForce(flights[i])
            /\ Len(flights) < MaxFlights
            /\ flights' = Append(flights, [contact |-> c, status |-> "pending",
                                           accepted |-> 0, completed |-> 0])
         \/ flights' = expire({"pending", "accepted"})
         \/ flights' = expire({"pending"})
      /\ UNCHANGED <<now, tracked>>

(* accept_task, reject_task and complete_task, after the flown flights are  *)
(* completed.                                                               *)
AcceptFlight(i) ==
  /\ Advanced[i].status = "pending"
  /\ flights' = [Advanced EXCEPT ![i].status = "accepted", ![i].accepted = now]
  /\ UNCHANGED <<now, target, tracked>>

RejectFlight(i) ==
  /\ Advanced[i].status \in {"pending", "accepted"}
  /\ flights' = [Advanced EXCEPT ![i].status = "rejected"]
  /\ UNCHANGED <<now, target, tracked>>

CompleteFlight(i) ==
  /\ Advanced[i].status \in {"pending", "accepted"}
  /\ flights' = [Advanced EXCEPT
                   ![i].status = "completed", ![i].completed = now,
                   ![i].accepted = IF Advanced[i].status = "pending" THEN now ELSE @]
  /\ UNCHANGED <<now, target, tracked>>

(* The first packet of the interceptor makes its row in track_state.        *)
FirstPacket ==
  /\ ~tracked
  /\ tracked' = TRUE
  /\ UNCHANGED <<now, flights, target>>

FlightTick ==
  /\ now < MaxNow
  /\ now' = now + 1
  /\ UNCHANGED <<flights, target, tracked>>

FlightNext ==
  \/ View
  \/ \E c \in FlightContacts, d \in Distances : Report(c, d)
  \/ \E i \in DOMAIN flights : AcceptFlight(i) \/ RejectFlight(i) \/ CompleteFlight(i)
  \/ FirstPacket
  \/ FlightTick

FlightSpec == FlightInit /\ [][FlightNext]_flightVars

-----------------------------------------------------------------------------
(* Properties *)

(* The map and the playback, computed by two handlers, tell the same story  *)
(* at any time and for any window: the position the map shows is a point of *)
(* the playback unless it is older than the window; all points lie in the   *)
(* window; and from one point to the next the interceptor flies no longer   *)
(* than a step, up to the end of each flight.                               *)
PlaybackAgrees ==
  \A window \in Windows :
    LET points == Playback(Advanced, window)
        from == now - window
    IN  /\ IsShown(Advanced) /\ Shown(Advanced).at >= from => Shown(Advanced) \in points
        /\ \A p \in points : from <= p.at /\ p.at <= now
        /\ \A i \in DOMAIN flights :
             LET f == Advanced[i]
             IN  f.status \in Flown =>
                   \A t \in Larger(from, f.accepted) .. EndOf(f) :
                     \E p \in points :
                       p.flight = i /\ p.at >= t /\ p.at - t < StepOf(f)

(* The movement of an interceptor is simulated once its operator accepts    *)
(* (README.md:114): a tracked interceptor with one accepted task is shown   *)
(* on the way to that task's target.                                        *)
AcceptedFlightIsShown ==
  \A i \in DOMAIN flights :
    /\ tracked
    /\ {j \in DOMAIN flights : Advanced[j].status = "accepted"} = {i}
    => Shown(Advanced).flight = i
=============================================================================
