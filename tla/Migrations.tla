----------------------------- MODULE Migrations -----------------------------
(***************************************************************************)
(* The database schema through its revisions (alembic/versions): a release *)
(* upgrades to its own last revision when it starts, an operator may step  *)
(* back.  alembic/env.py runs all pending revisions in one transaction, so *)
(* that a statement PostgreSQL refuses leaves the schema as it was and the *)
(* server does not start.                                                  *)
(*                                                                         *)
(* A schema is its tables, and those of their columns that a revision adds *)
(* or removes later, written <<table, column>>; types, indexes and the     *)
(* columns that come and go with their table are left out.                 *)
(***************************************************************************)
EXTENDS Naturals, Sequences, SequencesExt

LastRevision == 7

VARIABLES
  rev,          (* alembic_version, 0 before the first revision            *)
  schema        (* its tables and columns, and which of the tables that    *)
                (* gain columns are filled: have rows                      *)

schemaVars == <<rev, schema>>

BaseTables == {"users", "drone_keys", "drones", "telemetry_events", "track_state",
               "alerts", "audit_log", "devices"}
ControlCenter == {"operator_stations", "hostile_detections", "intercept_tasks"}
Dropped == {"sensor_contact_events", "mission_assignments", "missions"}

(* Tables of an earlier form of revision 5, which no revision creates.      *)
Engagement == {"engagement_logs", "engagement_targets", "fire_positions", "weapon_systems"}

Growing == {"users", "drones", "telemetry_events", "track_state"}

(* The foreign keys of a table.                                             *)
References(t) ==
  CASE t = "drones" -> {"drone_keys"}
    [] t = "devices" -> {"drones"}
    [] t \in {"missions", "alerts", "field_layers"} -> {"users"}
    [] t = "mission_assignments" -> {"users", "drones", "missions"}
    [] t = "operator_stations" -> {"users", "drones"}
    [] t = "hostile_detections" -> {"operator_stations"}
    [] t = "intercept_tasks" -> {"hostile_detections", "operator_stations", "users", "drones"}
    [] OTHER -> {}

PasswordColumns == {"users"} \X {"must_change_password", "password_changed_at"}
DecisionColumns == [t \in {"drones", "telemetry_events", "track_state"} |->
  {t} \X CASE t = "drones" -> {}
           [] t = "telemetry_events" -> {"decision_status", "confidence"}
           [] t = "track_state" -> {"friend_status", "confidence", "reason"}]
RoleColumns == [t \in {"drones", "telemetry_events", "track_state"} |->
  {t} \X IF t = "track_state" THEN {"platform_role", "speed_mps", "heading_deg"}
         ELSE {"platform_role"}]

-----------------------------------------------------------------------------
(* The statements of a revision.  An added column is nullable or has a      *)
(* default for the rows there are (AddColumns), or neither (AddRequired).   *)

Statement(do, t, S) == [do |-> do, table |-> t, columns |-> S]

Create(t)      == Statement("create", t, {})
Drop(t)        == Statement("drop", t, {})
AddColumns(S)  == Statement("add", "", S)
AddRequired(S) == Statement("require", "", S)
DropColumns(S) == Statement("remove", "", S)

(* Revision 6 looks first (_has_table, _has_column) and leaves what is done *)
(* already.                                                                 *)
CreateMissing(t)  == Statement("create missing", t, {})
DropPresent(t)    == Statement("drop present", t, {})
AddMissing(S)     == Statement("add missing", "", S)
RemovePresent(S)  == Statement("remove present", "", S)

(* Faulty variant: the stations go while the detections refer to them.      *)
DropControlCenterStationsFirst ==
  <<Drop("intercept_tasks"), Drop("operator_stations"), Drop("hostile_detections")>>

DropControlCenter ==
  <<Drop("intercept_tasks"), Drop("hostile_detections"), Drop("operator_stations")>>

CreateControlCenter ==
  <<Create("operator_stations"), Create("hostile_detections"), Create("intercept_tasks")>>

AllOf(columns) == UNION {columns[t] : t \in DOMAIN columns}

InitialSchema ==
  <<Create("users"), Create("drone_keys"), Create("drones"), Create("missions"),
    Create("mission_assignments"), Create("telemetry_events"), Create("track_state"),
    Create("alerts"), Create("audit_log"), AddRequired(AllOf(DecisionColumns))>>

Refactor ==
  <<Drop("sensor_contact_events"), Drop("mission_assignments"), Drop("missions"),
    AddColumns(AllOf(RoleColumns)), DropColumns(AllOf(DecisionColumns))>>
    \o CreateControlCenter

Adapt ==
  <<AddMissing(AllOf(RoleColumns)), RemovePresent(AllOf(DecisionColumns)),
    DropPresent("engagement_logs"), DropPresent("engagement_targets"),
    DropPresent("fire_positions"), DropPresent("weapon_systems"),
    DropPresent("sensor_contact_events"), DropPresent("mission_assignments"),
    DropPresent("missions"), CreateMissing("operator_stations"),
    CreateMissing("hostile_detections"), CreateMissing("intercept_tasks")>>

Up(r) ==
  CASE r = 1 -> InitialSchema
    [] r = 2 -> <<AddColumns(PasswordColumns)>>
    [] r = 3 -> <<Create("devices")>>
    [] r = 4 -> <<Create("sensor_contact_events")>>
    [] r = 5 -> Refactor
    [] r = 6 -> Adapt
    [] r = 7 -> <<Create("field_layers")>>

DropInitialSchema ==
  <<Drop("audit_log"), Drop("alerts"), Drop("track_state"), Drop("telemetry_events"),
    Drop("mission_assignments"), Drop("missions"), Drop("drones"), Drop("drone_keys"),
    Drop("users")>>

UndoRefactor ==
  DropControlCenter
    \o <<AddColumns(AllOf(DecisionColumns)), DropColumns(AllOf(RoleColumns)),
         Create("missions"), Create("mission_assignments"), Create("sensor_contact_events")>>

(* What takes revision r away again; that of revision 6 does nothing.       *)
Down(r) ==
  CASE r = 1 -> DropInitialSchema
    [] r = 2 -> <<DropColumns(PasswordColumns)>>
    [] r = 3 -> <<Drop("devices")>>
    [] r = 4 -> <<Drop("sensor_contact_events")>>
    [] r = 5 -> UndoRefactor
    [] r = 6 -> <<>>
    [] r = 7 -> <<Drop("field_layers")>>

-----------------------------------------------------------------------------
(* PostgreSQL *)

(* It refuses to create a table that is there or refers to one that is not, *)
(* to drop one that another refers to, to add a column that is there or     *)
(* that rows would have no value for, and to remove one that is not.        *)
Allowed(s, x) ==
  CASE x.do = "create"  -> x.table \notin s.tables /\ References(x.table) \subseteq s.tables
    [] x.do = "drop"    -> /\ x.table \in s.tables
                           /\ \A t \in s.tables : x.table \notin References(t)
    [] x.do = "add"     -> \A c \in x.columns : c[1] \in s.tables /\ c \notin s.columns
    [] x.do = "require" -> \A c \in x.columns :
                             c[1] \in s.tables \ s.filled /\ c \notin s.columns
    [] x.do = "remove"  -> x.columns \subseteq s.columns

(* What is left to do of a statement that looks first; of any other, all.   *)
Nothing == AddColumns({})

Needed(s, x) ==
  CASE x.do = "create missing" -> IF x.table \in s.tables THEN Nothing ELSE Create(x.table)
    [] x.do = "drop present"   -> IF x.table \in s.tables THEN Drop(x.table) ELSE Nothing
    [] x.do = "add missing"    -> AddColumns({c \in x.columns \ s.columns : c[1] \in s.tables})
    [] x.do = "remove present" -> DropColumns(x.columns \cap s.columns)
    [] OTHER                   -> x

Performed(s, x) ==
  IF ~s.ok \/ ~Allowed(s, x) THEN [s EXCEPT !.ok = FALSE]
  ELSE CASE x.do = "create" -> [s EXCEPT !.tables = @ \cup {x.table}]
         [] x.do = "drop"   -> [s EXCEPT !.tables = @ \ {x.table},
                                         !.columns = {c \in @ : c[1] # x.table},
                                         !.filled = @ \ {x.table}]
         [] x.do \in {"add", "require"} -> [s EXCEPT !.columns = @ \cup x.columns]
         [] x.do = "remove" -> [s EXCEPT !.columns = @ \ x.columns]

Execute(s, x) == Performed(s, Needed(s, x))

Run(s, statements) == FoldLeft(Execute, s, statements)

RunRevision(s, r) == Run(s, Up(r))

Upgraded(s, from, to) == FoldLeft(RunRevision, s, [i \in 1 .. to - from |-> from + i])

Downgraded(s, from) == Run(s, Down(from))

Empty == [tables |-> {}, columns |-> {}, filled |-> {}, ok |-> TRUE]

(* The schema of a revision, straight from an empty database.               *)
SchemaOf == [r \in 0 .. LastRevision |-> Upgraded(Empty, 0, r)]

-----------------------------------------------------------------------------

(* A database that an earlier form of revision 5 has left: each of the      *)
(* tables that changed may have its old or its new columns, and tables may  *)
(* be missing or left over, as far as their foreign keys allow.             *)
NewParts == {S \in SUBSET ControlCenter :
               \A t \in S : References(t) \cap ControlCenter \subseteq S}
OldParts == {S \in SUBSET Dropped : "mission_assignments" \in S => "missions" \in S}

MixedColumns(adapted) ==
  UNION {IF t \in adapted THEN RoleColumns[t] ELSE DecisionColumns[t] : t \in DOMAIN RoleColumns}

EarlierSchema(new, old, engagement, adapted) ==
  [tables |-> BaseTables \cup new \cup old \cup engagement,
   columns |-> PasswordColumns \cup MixedColumns(adapted), filled |-> {}, ok |-> TRUE]

Earlier ==
  {EarlierSchema(new, old, engagement, adapted) :
     new \in NewParts, old \in OldParts, engagement \in {{}, Engagement},
     adapted \in SUBSET DOMAIN RoleColumns}

SchemaTypeOK ==
  /\ rev \in 0 .. LastRevision
  /\ schema.ok
  /\ \A c \in schema.columns : c[1] \in schema.tables
  /\ schema.filled \subseteq Growing \cap schema.tables

SchemaInit ==
  \/ rev = 0 /\ schema = Empty
  \/ rev = 5 /\ schema \in Earlier

(* The server, or somebody, stores the first row of a table.                *)
Insert ==
  /\ \E t \in (Growing \cap schema.tables) \ schema.filled :
       schema' = [schema EXCEPT !.filled = @ \cup {t}]
  /\ UNCHANGED rev

(* alembic upgrade head, of a release that ends at revision r: also of one  *)
(* that a later release has been rolled back to.                            *)
Upgrade(r) ==
  /\ r > rev
  /\ LET s == Upgraded(schema, rev, r) IN
       /\ s.ok
       /\ schema' = s
  /\ rev' = r

(* alembic downgrade -1                                                     *)
Downgrade ==
  /\ rev > 0
  /\ LET s == Downgraded(schema, rev) IN
       /\ s.ok
       /\ schema' = s
  /\ rev' = rev - 1

SchemaNext ==
  \/ Insert
  \/ \E r \in 1 .. LastRevision : Upgrade(r)
  \/ Downgrade

SchemaSpec == SchemaInit /\ [][SchemaNext]_schemaVars

-----------------------------------------------------------------------------
(* Properties *)

(* The tables, and the columns of those that changed, that app/db/models.py *)
(* declares.                                                                *)
ModelTables  == BaseTables \cup ControlCenter \cup {"field_layers"}
ModelColumns == PasswordColumns \cup AllOf(RoleColumns)

(* From any database the server or an operator can have left, with or       *)
(* without rows, the upgrade to the last revision meets no statement that   *)
(* is refused and ends at what the models declare, which the tests create   *)
(* their tables from.  Whatever way a database came to its revision, it has *)
(* the schema of that revision, but for tables of the earlier revision 5    *)
(* before 6 removes them and the two forms of 5 itself; and from there a    *)
(* step back is refused nothing either.                                     *)
UpgradeReachesModels ==
  /\ LET s == IF schema = Empty THEN SchemaOf[LastRevision]
              ELSE Upgraded(schema, rev, LastRevision)
     IN  s.ok /\ s.tables = ModelTables /\ s.columns = ModelColumns
  /\ LET same == /\ schema.tables \ Engagement = SchemaOf[rev].tables
                 /\ schema.columns = SchemaOf[rev].columns
     IN  /\ rev = 5 \/ same
         /\ same /\ rev > 0 => Downgraded(schema, rev).ok
=============================================================================
