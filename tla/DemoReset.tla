------------------------------ MODULE DemoReset ------------------------------
(***************************************************************************)
(* The demo scenario next to real operations (app/services/demo_control.py)*)
(* over the engagement tables of InterceptTasks: seeding adds operators    *)
(* with their stations and interceptors, a demo contact is reported like   *)
(* any other, a real contact goes to a demo station when it is the nearest,*)
(* and the reset deletes the demo's rows from all tables, one transaction  *)
(* each.                                                                   *)
(*                                                                         *)
(* A demo station stands for its operator, its interceptor and its row in  *)
(* operator_stations: seeding and reset make and delete them together.     *)
(* Nobody gives a demo interceptor to a real operator's station.           *)
(***************************************************************************)
EXTENDS InterceptTasks

CONSTANTS
  DemoStations,   (* the stations of demo_operator_1, ...                  *)
  DemoContacts    (* contacts of DEMO-RECON-01, or named HST-DEMO...       *)

ASSUME DemoAssumption == DemoStations \subseteq Stations /\ DemoContacts \subseteq Contacts

VARIABLES
  stationRows,    (* the rows of operator_stations                         *)
  acked           (* a demo operator is acked_by of an alert               *)

demoVars == <<vars, stationRows, acked>>

DemoTypeOK ==
  /\ TypeOK
  /\ stationRows \subseteq Stations
  /\ acked \in BOOLEAN

DemoInit ==
  /\ Init
  /\ stationRows = Stations \ DemoStations
  /\ eligible \subseteq stationRows
  /\ acked = FALSE

-----------------------------------------------------------------------------
(* Engagements, on the stations that exist.                                 *)
Engage ==
  /\ Next
  /\ eligible' \subseteq stationRows
  /\ UNCHANGED <<stationRows, acked>>

(* A demo operator acknowledges an alert, or somebody else does so after it. *)
AckAlert ==
  /\ stationRows \cap DemoStations # {}
  /\ acked' = ~acked
  /\ UNCHANGED <<vars, stationRows>>

(* POST /v1/demo/scenario with stations for the first n slots: they exist   *)
(* and are eligible afterwards.  One that is moved may have farther to fly. *)
Seed(n) ==
  LET slots == {s \in DemoStations : s <= n} IN
  /\ slots # {}
  /\ stationRows' = stationRows \cup slots
  /\ eligible' = eligible \cup slots
  /\ due' \in {due, {t \in due : taskStation[t] \notin slots}}
  /\ UNCHANGED <<detVars, taskVars, acked>>

(* Faulty variant: the tasks of demo operators on real contacts are left.   *)
TasksOfDemoContacts ==
  {t \in TaskIds : taskStatus[t] # "none" /\ taskContact[t] \in DemoContacts}

(* reset_demo_scenario selects the tasks by contact, operator and drone.    *)
DemoTasks ==
  {t \in TaskIds :
     /\ taskStatus[t] # "none"
     /\ taskContact[t] \in DemoContacts \/ taskStation[t] \in DemoStations}

(* Faulty variant: no foreign key from hostile_detections to the stations.  *)
ReferencedByAlert == acked

(* What the reset keeps still refers to what it deletes: a detection of a   *)
(* real contact to a station, or an alert to a user.  The foreign key makes *)
(* the flush fail; nothing catches it, and the reset is rolled back.        *)
Referenced ==
  \/ acked
  \/ \E c \in Contacts \ DemoContacts : detStation[c] \in DemoStations

RemoveTasks(gone) ==
  /\ taskStatus' = [t \in TaskIds |-> IF t \in gone THEN "none" ELSE taskStatus[t]]
  /\ taskContact' = [t \in TaskIds |-> IF t \in gone THEN NoContact ELSE taskContact[t]]
  /\ taskStation' = [t \in TaskIds |-> IF t \in gone THEN NoStation ELSE taskStation[t]]
  /\ taskStamps' = [t \in TaskIds |-> IF t \in gone THEN {} ELSE taskStamps[t]]
  /\ due' = due \ gone
  /\ UNCHANGED lastTask

(* A station that is gone shows as NULL in what referred to it.             *)
RemoveDetections ==
  /\ detStatus' = [c \in Contacts |-> IF c \in DemoContacts THEN "absent" ELSE detStatus[c]]
  /\ detStation' = [c \in Contacts |->
                      IF c \in DemoContacts \/ detStation[c] \in DemoStations
                      THEN NoStation ELSE detStation[c]]

Reset ==
  /\ ~Referenced
  /\ RemoveTasks(DemoTasks)
  /\ RemoveDetections
  /\ stationRows' = stationRows \ DemoStations
  /\ eligible' = eligible \ DemoStations
  /\ UNCHANGED acked

DemoNext ==
  \/ Engage
  \/ AckAlert
  \/ \E n \in DemoStations : Seed(n)
  \/ Reset

DemoSpec == DemoInit /\ [][DemoNext]_demoVars

-----------------------------------------------------------------------------
(* Properties *)

(* Rows refer to stations that exist, and only those are given tasks: the   *)
(* reset finds every task of the stations that it deletes, also those on    *)
(* contacts of real drones.                                                 *)
StationsExist ==
  /\ eligible \subseteq stationRows
  /\ \A t \in TaskIds : taskStatus[t] # "none" => taskStation[t] \in stationRows
  /\ \A c \in Contacts : detStation[c] # NoStation => detStation[c] \in stationRows

(* Every row is whole, whatever transactions and resets follow one another: *)
(* it refers to rows that are there, and a task has the timestamps of its   *)
(* status.                                                                  *)
RowsAreWhole == NoOrphanTask /\ StationsExist /\ StampsTellTheStory

(* Whenever a reset is requested it clears the demo, as the demo guide says *)
(* (docs/PUBLIC_DEMO_DEPLOY.md:156): nothing that stays refers to it.       *)
ResetClears == ~Referenced
=============================================================================
