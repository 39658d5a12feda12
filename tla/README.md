# Verification of the drone airspace control center

TLA+ models of the control center (`app/`), of the telemetry bridge (`bridge/`) and of the edge
agent (`edge_agent/`), the TLC runs that check them on small instances, and TLAPS proofs of what
holds for every instance. `PROJECT.json` names, for each definition, the lines of `src/` it models.

## 1. The system

| Component | State | Operations |
|---|---|---|
| Intercept control (`app/services/intercept_control.py`, `intercept_simulation.py`, the recon, task and detection routers) | tables `hostile_detections`, `intercept_tasks` | report a contact, accept, reject, complete, delete a detection, auto-complete flown tasks on every read |
| Stations and drones (`app/api/routers/operator_stations.py`, `drones.py`, `app/services/drone_registry.py`) | tables `operator_stations`, `drones`, `drone_keys` | create, patch, rotate a key, delete |
| Telemetry ingest (`app/services/telemetry.py`, `nonce_store.py`) | `telemetry_events`, `track_state`, `devices`; nonces in Redis or in process memory | verify and store a signed packet |
| Link monitor and alerts (`app/services/alerts.py`, `background.py`, `activity.py`, `app/api/routers/alerts.py`) | table `alerts`, the last-activity clock | tick every 5 s, resolve on telemetry, acknowledge |
| Edge agent (`edge_agent/`) | SQLite spool with `outbox` and `dead_letter`, sequence counter | read an input item, sign, enqueue, flush |
| Bridge (`bridge/`) | Redis retry list and dead-letter list | forward, queue on failure, retry in a worker |
| Auth (`app/services/login_rate_limit.py`, `app/api/routers/auth.py`, `bootstrap.py`, `passwords.py`, `app/api/deps.py`) | users, failed-login counters in memory or Redis | log in, change password, re-sync accounts at start |
| OpenSky cache (`app/services/opensky.py`) | cached snapshot, token, last error | fetch on demand |
| Migrations (`alembic/versions/`) | the database schema | upgrade to a release's last revision, step back |
| Field layers (`app/services/field_layer_effects.py`, router) | table `field_layers` | polygon membership, effects on tracks |
| Demo control (`app/services/demo_control.py`) | demo users, drones, stations, detections | seed, reset, create a target |
| Decision engine (`app/domain/decision.py`, `policy_engine.py`) | none (pure) | rate a telemetry packet |
| UI (`app/api/routers/ui.py`, templates, JavaScript) | browser state | poll and render |

How they interact: the edge agent posts signed packets to the bridge, the bridge forwards them to
the API or queues them in Redis and retries; the API stores them and updates the track of the
drone, which resolves its link-lost alert. A recon drone's fresh track lets a contact be reported;
the report assigns the nearest eligible station and opens a task, which its operator accepts,
rejects or completes. Everything the UI shows is polled; the polls of tasks and detections also
advance the simulated flight of accepted tasks, so reads write.

What makes it hard: synchronous handlers run on a thread pool, each with a database session that
reads committed rows and writes changed columns unconditionally; nonces are consumed before the
packet they protect is stored; three queues (spool, Redis list, HTTP) retry the same signed packet,
whose timestamp ages and whose nonce is single-use; the alert monitor and the ingest path update
the same alerts.

What makes each component correct:

- **Intercept control.** At most one task in force per target; detections and tasks tell the same
  story; an ended task stays ended and a resolved target is reopened only with a new task; no task
  outlives its detection; every request is answered.
- **Telemetry ingest.** A packet is stored once, or as often as lost nonce memories explain; tracks
  and devices show stored packets of their own drone; a track does not run far backwards.
- **Link monitor.** At most one open alert per drone, every silence reported, every alert resolved
  once the drone is heard.
- **Edge agent and bridge.** A spooled packet is in exactly one place, leaves the outbox, is stored
  once, and is lost only where the code lets it go; the bridge's list stays near its limit.
- **Demo control.** Seeding and reset leave real engagements in agreement, and the reset succeeds.
- **Registry.** Every registered drone has an active key of its own, whatever rotations and
  deletions overlap; secrets that belong to no drone come from overlaps only; no row refers to a
  drone that is gone; no request hangs.
- **Login limiter.** A client fails only so often in a window, and is let in again in the end.
- **OpenSky cache.** The data shown is at most one time to live and one slow answer old; a request
  is refused twice for its token only if a token was revoked meanwhile.
- **Field layers.** The polygon test agrees with a geometric definition, edges and corners included, for
  any holes, with what their order decides.
- **Simulated flights.** The map and the playback tell the same story, and a flight that an operator
  has accepted is shown.
- **Migrations.** From every database a release can meet, the upgrade reaches what the models declare.

## 2. Modules

| Module | Models | State |
|---|---|---|
| `InterceptTasks` | the engagement handlers, one transaction each | columns of both tables; `due` (flown tasks), `eligible` (stations the choice considers) |
| `InterceptControl` | the same handlers as overlapping requests | the tables, and in `req` what each request has read and where it is |
| `DemoReset` (extends `InterceptTasks`) | seeding and resetting the demo among real engagements | `stationRows`, `acked` |
| `TelemetryIngest` | `process_telemetry` and `NonceStore` with clocks, Redis outages and restarts | nonce memories, rows, tracks, devices |
| `LinkMonitor` | maintenance ticks, ingests and acknowledgements as overlapping sessions | ages of the tracks, the alerts, what each session has read |
| `EdgeSpool` | the edge agent's loop and its spool | outbox, dead letters, backoff, the fetched batch |
| `BridgeRetry` | the bridge's handlers and its worker around the Redis list | list, dead letters, the step of each handler and of the worker |
| `TelemetryPath` (extends `EdgeSpool`, `BridgeRetry`) | both, a network that loses requests and answers, and the API's answer | a packet's nonce and rows, its timestamp against the API's clock, the secret it was signed with and the drone's, who is turned away before the API |
| `DroneRegistry` | the handlers over drones, keys, stations, devices, with the row locks their flushes take | the columns and foreign keys of those tables; in `req` what each request has read |
| `LoginLimiter` | `LoginRateLimiter` under both login handlers | the counts in Redis and in memory, who is verifying a password |
| `AirTraffic` | `fetch_opensky_aircraft` on a pool of threads | both caches, with ages instead of times; where each request is; OpenSky |
| `FieldLayers` | one field layer and the targets it concerns | the row of the layer |
| `Flight` | the flights of one interceptor, its position on the map, its playback | the clock, its tasks, the targets |
| `Migrations` | the revisions, up and down | revision, tables, columns that come and go, which tables have rows |
| `*Proofs` | theorems about the module of that name; `PartsProofs` those about `AirTraffic`, `LoginLimiter`, `Flight`, `FieldLayers`, `Migrations`, `LinkMonitor` and about their composition `MCParts` | |
| `MC*` | instances for TLC; `MCParts` composes the parts that share no state | |

A variable stands for a column, a table or a local of a running function; an action for a handler,
or for one of its SELECTs, its flush, its commit. `PROJECT.json` has the lines of each. Definitions
introduced as a *faulty variant* are not part of any specification: each is the change of one
definition that makes one property fail, which shows that the property depends on the code.

`InterceptTasks` is the abstract specification of intercept control: what the handlers do when no
two overlap. `InterceptControl` instantiates it and, with one request in flight, implements it
(`OneAtATime`, checked by TLC and proved). The assumptions on constants that `InterceptTasks` names are
repeated there, as an instance does not bring them along.

### Abstractions

- *Intercept control.* Positions are replaced by distances: any ranking of the stations may come
  with a report. Flight time is an event (`Elapse`), and a poll may see any part of the flown
  tasks. PostgreSQL at READ COMMITTED: a SELECT reads the last commit, a commit writes the changed
  columns, is atomic, and fails on a row that is gone or a broken constraint. In `InterceptControl`
  choosing a station and reading the task in force are one step, as are the two SELECTs of a
  deletion and a station's patch; who may act on a task is checked when the request starts, as its
  station never changes; two tasks of one target have different `assigned_at`.
- *Demo.* A demo station stands for operator, interceptor and row. No real operator's station is
  given a demo interceptor. The telemetry rows, tracks, devices and keys the reset deletes are
  referred to by nothing that stays.
- *Telemetry ingest.* One packet at a time; the API reads its clock and registers the nonce in one
  instant; Redis does or does not answer, a lost answer of Redis is not modelled. `RaiseLinkLost`
  may open an alert for any drone with a track, which is more than the code does. Bounds: times,
  outages, restarts.
- *Link monitor.* Alert rows are reused once closed; acknowledged and resolved are not told apart.
  `BACKGROUND_IDLE_AFTER_SECONDS` is 0, its default.
- *Edge agent and bridge.* An SQLite transaction is a step. Backoff ends at any time. The API's
  step is atomic and Redis is there for its nonces. Time is two events of a packet: one that was stamped
  too far ahead becomes acceptable (`CatchUp`), and a packet becomes too old (`Expire`). The drone is
  registered, gets another secret or is deleted in one event; so do the agent's certificate and the
  bridge's token change (`turned` holds the packets that the gateway's 400 or the bridge's 401 answers).
  Headers and body are those the agent makes of normalised input, and its URLs are the routes', so that
  the answers to a missing header or an unreadable body (400 of the bridge, 422 of the API) do not
  arise. `barred` is a history variable that no step looks at. A restart of the bridge is a kill: what
  its worker and handlers hold is gone.
- *Registry.* A flush locks the rows it wrote until its transaction ends; a statement on a locked row
  waits, and one that finds its row gone or a key taken ends the request. `FOR KEY SHARE` locks of
  foreign keys are the waits on a drone that is being deleted. A drone's uid is the number after its
  prefix. Names and users of stations do not clash. Refusals before the first write are left out.
- *Login limiter.* One client; time in units of which a window has `Window`; INCR and EXPIRE are one
  MULTI, and the connection may break after it. The proxy's address headers are left out.
- *Aircraft.* One base URL and bounding box. A token's answer may be slow, so that it is revoked before
  it is kept. A snapshot's answer may take `AirTimeout`, which stands for the whole of a request.
  `opensky_timeout_seconds` is httpx's timeout for each connect and each read, so an answer that trickles
  in may take longer: `AircraftAreFresh` is about answers that arrive within that time as a whole.
- *Field layers and flights.* Whole numbers. A layer has any holes in any order; `MaxHoles` bounds their
  number and `Redrawn`, for TLC, which of the exteriors a patch draws. A flight is a distance from its station at one unit of
  distance per unit of time; recorded telemetry enters a playback unchanged and is left out.
- *Migrations.* Foreign keys, tables, and columns that a revision adds or removes. A revision is its list of
  statements, some of which look first whether there is anything to do. PostgreSQL, where a revision that
  fails leaves everything as it was.

## 3. Runs

| Run | Question | Instance |
|---|---|---|
| `intercept_refine` | do the handlers' separate reads and commits amount to those transactions? | 1 request of any kind, 2 contacts, 2 stations, 2 tasks |
| `intercept_overlap` | what survives two overlapping requests? | 2 requests, 1 contact, 1 station, 2 tasks, 1 deletion |
| `intercept_late_decision` | *violation*: a decision on a task that has ended | 2 requests, 2 stations |
| `demo_reset` | do the tables agree after every sequence of transactions, the demo's seed and reset among them? | a real and a demo station, a real and a demo contact, 3 tasks |
| `demo_reset_refused` | *violation*: a reset that cannot succeed | the same, 1 task |
| `telemetry_ingest` | copies, tracks, devices | 2 packets, skew 1, TTL 3, times to 3, 1 outage, 1 restart |
| `link_monitor` | alerts under overlapping sessions, with liveness | 2 drones, 3 alerts, 1 failing session |
| `telemetry_path` | the whole way | 1 packet, 3 attempts of the agent, 2 of the bridge, 2 handlers, a list of 1, 2 secrets, 1 fault, 1 restart of each |
| `spool_replay` | *violation*: a spooled packet that is too old | 1 packet, 3 attempts of each, no fault |
| `registry` | keys, references and requests under overlaps | 2 requests, 2 drones, 2 uids, 3 keys, 1 station, 1 device |
| `parts`, login | failures counted, lockouts ended | 2 requests, 2 attempts, a window of 2, 2 changes of Redis, 1 restart |
| `parts`, aircraft | fresh data, retries | 2 requests, 2 tokens, times to live 2 and 3, answers 1 late |
| `parts`, layers | the polygon test | every quadrilateral from 2 corners over a 3 x 3 grid, up to 2 of 2 overlapping holes in any order, targets on a 5 x 5 grid |
| `parts`, flight | map and playback | 2 contacts, 2 flights, distances 1 and 4, time to 5, windows 1 and 3 |
| `parts`, schema | migrations | all 7 revisions, every mixture of old and new of revision 5 |
| `parts`, edge | the spool under any answers, with liveness | 4 packets, room for 3, batches of 2, 2 attempts, 1 restart |
| `flight_shown` | *violation*: an accepted flight that the map does not show | as `parts` |

`parts` checks six parts in one instance: `part` says which of them runs, and the others rest. They
share no variable, no row and no lock, so that an interleaving of two of them has, for each, only the
behaviours it has alone; the composition adds nothing and loses nothing, and fairness of a part is
required only where it runs. The wide-open initial states of a part are those of its own behaviours.

**Bounds.** Three tasks let a target be assigned, reassigned and, after its resolution, reported
again; two contacts let one task be mistaken for another's; two stations give every order of
distances, with ties. Two requests are what a lost update or a lost race for a key needs; a third
would only repeat them. Since every decision advances the simulation first and last and a rejection
writes as a completion does, `intercept_overlap` leaves out the requests that only poll or reject;
they run in `intercept_refine`. `TTL = 3` is the least above twice the skew of 1, and time 3 lets a
nonce expire with its packet still acceptable if the TTL were one less. For the edge agent there is a
packet that does not fit, and one more than a batch. `telemetry_path` has one packet, as two are
more than 10 million states; its copies fill the list, packets meet each other in `parts`, and the
proofs of `TelemetryPath` hold for any number of them. Two secrets let a drone be given another and
the first again, so that a packet is refused and later would not be.
In `registry` two drones let a deletion find another drone's key or uid, and three keys let both be
rotated or one be rotated twice. In `parts`, each of two requests can pass the limiter's check before
the other counts, two changes take Redis away and back, two tokens let one request keep what another
lost; the grid has every kind of degenerate corner and edge, and targets on and between its lines; each of
the two holes has an edge inside the other, so that their order tells, and both orders are drawn;
two flights of one interceptor may follow each other, overlap, and have their targets moved.

**Fairness.** `InterceptControl`: strong fairness of the steps of each request, because a
transaction that waits for a key is queued by PostgreSQL and gets it when it is free again and
again. `LinkMonitor`: weak fairness of the tick's steps and of the ingest's commit; the loop of
`background_maintenance` never ends, a failed tick is followed by another, and failures are
bounded. Packets, time and operators need not come: `AlertsAreResolved` supposes that packets of
the drone keep being stored, and `SilenceIsReported` that it stays silent. `EdgeSpool`: weak
fairness of the input and of each step of the loop; the agent flushes when an input item or a read
timeout comes, and every request ends in an answer or in its timeout. No answer is assumed to be a
success. `DroneRegistry`: weak fairness of each request's next step, as its thread runs whenever its
transaction does not wait, and PostgreSQL's deadlock detector does its work. `LoginLimiter`: time
passes; nobody need ever stop trying.

## 4. What the violation runs show

- **`intercept_late_decision`.** Two requests read a pending task; one rejects it, the other's
  acceptance commits later. The UPDATE has no condition on the status, so the rejected task becomes
  accepted, while the detection stays `open` with no station: the acceptance writes only columns that
  differ from what it read, and it had read `assigned`. A poll that saw a flown task does the same
  to a rejection. `StatusIsStamped`, `NoOrphanTask` and `EveryRequestEnds` do hold.
- **`spool_replay`.** A packet keeps the timestamp it was signed with. After an outage longer than
  the skew it is refused as `clock_skew` and goes to the dead letters at its first attempt.
- **`demo_reset_refused`.** A contact of a real drone is assigned to a demo station, which its row
  keeps referring to; the foreign key then refuses every reset.
- **`flight_shown`.** The rows of an interceptor's flights come with the latest first, and each
  overwrites the one before in the dictionary of overrides: the map shows its earliest flight. Once a
  mission is completed, the interceptor stands at that mission's target for good, and its later
  flights, and its real telemetry, are not seen.

Some results of passing runs are worth knowing. With no eligible station a report leaves an
accepted task in force on an unassigned target (`TablesAgree` allows exactly this). `Custody`
excepts what the bridge's worker lets go: a 4xx, a full list, or Redis out of reach lose a packet
of which the agent was told that it is queued. And two requests that overlap can leave a target with
two tasks in force, which is why `OneActiveTask` is claimed of transactions only; `DuplicatesOnlyByOverlap`
says that it takes a report or an acceptance that decides on what another request has changed since. A packet that was stored while Redis
answered is stored again by its copy when Redis does not (`CopiesBounded` says how often). A rotation
that overlaps another or a deletion leaves an active secret that belongs to no drone, and a station
that is linked between a deletion's check and its flush silently loses the drone (`StraysOnlyByOverlap` says
that nothing else does the former, `ReferencesHold` that the station is not left with a drone that is gone). `FailuresBounded` shows how much each outage or restart lets through.

A rotated secret, a deleted drone, a clock that runs ahead, a lapsed certificate or a changed token
make a dead letter of a packet at its first attempt, whatever becomes of them later; for a signature, the
API has registered the nonce as well, so that the packet cannot be sent again. `DeadForAReason` says that
the list of such reasons is complete. And the order of a layer's holes matters: a target on the edge of
one hole and inside another is shown with the layer just if the former comes first, because the loop over
the holes returns at the first one that the target touches
(`app/services/field_layer_effects.py:80-85`). `TargetsAreClassified` says that this is the only case in
which order matters, and which answer it gets.

## 5. Proofs

All theorems hold for every value of the constants under the assumptions named in the modules.

| Theorem | Property | In |
|---|---|---|
| `AtMostOneActiveTask`, `TablesAlwaysAgree`, `NoTaskIsOrphan`, `StampsAgree` | `OneActiveTask`, `TablesAgree`, `NoOrphanTask`, `StampsTellTheStory` | `InterceptTasksProofs` |
| `EndedTasksStayEnded`, `ReopeningIsFresh` | `TerminalIsFinal`, `ReopensWithFreshTask` | `InterceptTasksProofs` |
| `OneNearest` | `NearestIsUnique` | `InterceptTasksProofs` |
| `OneRequestImplements` | `OneAtATime`: a request that is alone implements `InterceptTasks` | `InterceptControlProofs` |
| `OverlapLeavesNoOrphan`, `OverlapKeepsStamps`, `DuplicatesComeFromOverlaps` | `NoOrphanTask`, `StatusIsStamped`, `DuplicatesOnlyByOverlap` of `InterceptControl` | `InterceptControlProofs` |
| `ResetKeepsAgreement`, `RowsStayWhole` | `TablesAgree`, `RowsAreWhole` with the demo's steps | `DemoResetProofs` |
| `ResetKeepsOneTask`, `DemoOneNearest` | `OneActiveTask`, `NearestIsUnique` with the demo's steps | `DemoResetProofs` |
| `ResetRevivesNoTask`, `DemoReopensFresh` | `TerminalIsFinal`, `ReopensWithFreshTask` with the demo's steps | `DemoResetProofs` |
| `CopiesAreBounded`, `RowsAreDerived`, `TracksRegressLittle` | `CopiesBounded`, `DerivedFromStored`, `TrackRegressionBounded` | `TelemetryIngestProofs` |
| `NeverTwoOpen` | `OneOpenAlert` of `LinkMonitor` | `PartsProofs` |
| `RowsStayInPlace` | `RowsAreWhereTheyBelong` of `EdgeSpool` | `EdgeSpoolProofs` |
| `PathImplementsEdge` | `TelemetryPath` implements `EdgeSpool` | `TelemetryPathProofs` |
| `PacketsAreStoredOnce`, `CustodyIsKept`, `DeadLettersHaveReasons`, `OvershootIsBounded` | `StoredOnce`, `Custody`, `DeadForAReason`, `QueueOvershoot` | `TelemetryPathProofs` |
| `KeysStayInForce`, `ReferencesStay`, `StraysComeFromOverlaps` | `KeyInForce`, `ReferencesHold`, `StraysOnlyByOverlap` | `DroneRegistryProofs` |
| `DataIsFresh`, `RetrySuffices` | `AircraftAreFresh`, `OneRetryIsEnough` of `AirTraffic` | `PartsProofs` |
| `LoginBound` | `FailuresBounded` of `LoginLimiter` | `PartsProofs` |
| `PlaybackIsTrue` | `PlaybackAgrees` of `Flight` | `PartsProofs` |
| `AreasAreTold` | `TargetsAreClassified` of `FieldLayers` | `PartsProofs` |
| `UpgradesMeetModels` | `UpgradeReachesModels` of `Migrations` | `PartsProofs` |
| `Typing`, `DemoTyping`, `EdgeTyping`, `PathTyping`, `RegTyping`, `MonitorTyping`, `LoginTyping`, `FlightTyping`, `LayerTyping`, `SchemaTyping`, `PartsTyping` | the type invariants | |

- **`InterceptTasksProofs`** (assumes only that NULLs are no members of their sets and bounds are
  numbers). `IInv` adds to the table properties that ids above `lastTask` are unused, without which
  an insertion could overwrite a row, and that due tasks are accepted, without which `Advance` could
  complete an ended one. One lemma per action, one step per conjunct. From it: `OneActiveTask`,
  `TablesAgree`, `NoOrphanTask`, `StampsTellTheStory`, and the action properties `TerminalIsFinal`
  and `ReopensWithFreshTask`. For `NearestIsUnique` the order of the stations is total
  (`NearestAtMostOne`), and a least one exists: take the least distance, among those the least number
  of open tasks, among those the least name, each by the well-foundedness of the numbers.
- **`InterceptControlProofs`** (assumes that there are finitely many requests). For any number of
  overlapping requests, `ControlInv` says what each of them holds and nobody can take from it. Row
  numbers only grow, so a row that goes does not come back under its number: a report whose row number
  still matches finds the detection and the tasks it is about to expire. A poll holds tasks whose row,
  if it is still there, has `accepted_at`, for timestamps are never cleared, so a late completion is
  stamped as well. And reports under way find room within the model's bound. Every step that keeps
  these facts of rows (`RowsKept`) keeps them for all requests, whoever steps. So `NoOrphanTask` and
  `StatusIsStamped`. `OneActiveTask` is not among what survives, but `DuplicatesOnlyByOverlap` says when
  it is lost: a step that does not put a task in force, or change the target of one, gains no target a
  second one (`NoneGained`), which leaves decisions and reports. A rejection ends its task; an acceptance
  of a task still in force adds none; and a report whose task is the one in force keeps it or ends it.
  For a request that is alone the invariant is stronger (`AllCurrent`): what it has read is still so
  when it commits. With it each commit is one of the transactions of `InterceptTasks`, every other step
  leaves the tables alone, and the invariant `IInv` of `InterceptTasks` carries over step by step; it
  is needed in turn, as a poll's tasks have unresolved detections because the tables agree.
- **`DemoResetProofs`** reuses these lemmas for engagements and shows that a reset let through by the
  foreign keys keeps them. The crux: a real contact that is assigned is assigned to a real station,
  or the reset would have been refused, so its task is not among those deleted. The demo's own steps
  touch no row of an ended task except by deleting it, so the action properties carry over as well.
- **`TelemetryIngestProofs`** (assumes `TTL > 2 * Skew`; nothing in `app/config.py` enforces it, the
  shipped values satisfy it). The invariant relates each copy to the nonce memories: while a packet's
  timestamp is acceptable, the memory that last registered it still holds the nonce, unless an outage
  or a restart is on account. From it `CopiesBounded`, `DerivedFromStored`, `TrackRegressionBounded`.
- **`PartsProofs`**, link monitor. An alert that a tick has opened but not committed is counted as open, is
  not a committed one, and its drone is not in the tick's remaining work; so `OneOpenAlert` for any
  number of drones and packets, with the one maintenance thread the process has.
- **`EdgeSpoolProofs`**. Of the agent alone: the fetched batch is in the outbox and not in
  backoff, and packets not made yet have no attempts; so `RowsAreWhereTheyBelong`. That the outbox has
  at most `QueueMax` rows is a conjunct of it: what `Emit` inserts it counts first, in the same transaction.
- **`TelemetryPathProofs`** (extends it; assumes that there are finitely many handlers, that the agent's
  packets are among the bridge's envelopes and that no secret is `NoSecret`). The agent in the composition takes only steps of `EdgeSpool`, so
  its invariant carries over. To it `PathInv` adds that answers are true: a handler that says
  "delivered" or "queued" has done so, one that says "refused" had a reason, and the agent hears the
  answer about the packet that it is waiting for. Without this a crash between an answer and
  the deletion of the row could not be told from a loss. That a refusal has a reason needs two
  facts more: whatever speaks against a packet that was made has been noted in `barred`, as each event
  notes it when it happens (`Noted`), and what the list, the worker and the handlers carry was made
  (`CarriedIsMade`). For `QueueOvershoot`, whoever has seen room
  and is about to push is counted as if it had pushed.
- **`DroneRegistryProofs`** (assumes that there are finitely many requests). `KeyInForce` is inductive
  only together with three facts: numbers of rows and keys are not given twice; the key that a
  rotation is about to deactivate is no other drone's, whatever became of its drone since it was
  read; and requests that have begun find room within the model's bounds. The step in which a secret
  becomes a stray is then a last step of a rotation or a deletion whose key is not its drone's any more.
  `ReferencesHold` needs what a deletion may count on between its flush and its commit (`DeletionHolds`):
  the stations it has taken off are exactly those linked, no device and no task refers to its drone, and
  no other deletion has flushed for it. Whoever links, provisions or reports waits for the row lock, so
  none of this changes under it; that is where the locks enter the proof.
- **`PartsProofs`**, aircraft. A snapshot's age and its remaining time add up to a time to live and a slow
  answer, so that a late answer that replaces a newer one is not shown too long. For the retry: while
  a request is in its second try and no token was revoked, the cached token is good, whichever thread
  cleared or stored it.
- **`PartsProofs`**, login (assumes finitely many threads). The failures of a window are a fold over a
  function. What the fold computes for every finite set is proved without an operator-valued
  induction: the numbers for which a statement holds are a set, and one that contains 0 and successors
  contains every number (`Counting`). `LoginInv` says that failures and threads still verifying stay
  within the bound together (`InFlight`), and that the counter in use has seen every failure but those
  that were forgiven (`Counted`), for each age by itself: without that, the ageing of a failure out of
  the window could not be told from one of the counter's. Each change of counter forgives what can have
  failed or be under way at that moment.
- **`PartsProofs`**, flights. That the times of all tasks are past is inductive. The playback's points
  are the multiples of the step from where the flight or the window begins, and the end of the flight;
  after any time of a flight one of them comes less than a step later; the flight the map shows is the
  first of those that fly.
- **`PartsProofs`**, field layers (assumes corners of whole coordinates, and for the reference
  definition a place in line with no target and corner, which any finite map has). An edge and the far
  place make a triangle, and it holds a point exactly when the point's ray crosses an odd number of its
  three sides (`EdgeByRays`): by the signs of three areas, whose sum weighted by the heights of the
  corners is zero. Along the ring each side to the far place is met twice, as the ring is closed,
  so the parities agree (`ParityOfChanges`, an induction along the corners by `Counting`). The holes are
  a sequence of any length: if any is touched there is a first one (`LeastMember`), and it decides
  (`FirstHoleDecides`).
- **`PartsProofs`**, migrations. `SchemaInv`: a database is what its revision makes of an empty one or,
  at revision 5 and nowhere else, one of its mixtures with the tables and columns of before, and what has
  rows is a table that is there. A revision is a fold of statements over the database; its seven lists are
  fixed, so each fold is followed statement by statement (`FoldExists`, `RunSteps`, and one lemma for each
  revision and direction: `Up1` to `Up7`, `Down1` to `Down7`). What has to be shown at 5 is that statements
  which look first before they add or drop do the rest of the work in every mixture, and that none of the
  statements that do not look is refused. From any database, by the revisions one after the other, the
  upgrade so meets the models (`UpgradesMeetModels`).
- **`PartsProofs`**, composition. The part that runs keeps its invariant, those that rest keep theirs because
  nothing of theirs changes (`PartsInv`); so `PartsTypeOK` for all parts together.

Only model-checked: liveness (`EveryRequestEnds` of both modules, `SilenceIsReported`,
`AlertsAreResolved`, `OutboxDrains`, `LockoutEnds`), which is beyond the prover. Every safety property of
a passing run, the refinement `OneAtATime` included, is stated by a theorem. The violation runs are
counterexamples and need no proof.

## 6. Not modelled

- *The other half of the user interface*: rendering, polling, the browser's state. Its forms that
  change state go through the handlers of the modules above.
- *Passwords and tokens*: hashing, cookies, CSRF, the change of a password and the re-synchronisation
  of accounts at start, each of which reads and writes one row of `users` and nothing else.
- *The decision engine*, a table of cases that no request reaches; its polygon test is in `FieldLayers`.
- *Schemas, message parsing, unit conversion* of the agent's inputs: no state that steps could disturb.
- *Configuration and deployment*: settings are constants and assumptions of the modules.
- *Retention and audit*: deleted old telemetry events and inserted log rows, which nothing reads back.
- *The idle mode* of the maintenance loop, off by default, and several API processes: `LinkMonitor` has
  the one loop of the one process.
- *Two packets of one drone that overlap* in `process_telemetry`, beyond what `LinkMonitor` has of them.

## 7. How to extend

What a next step would take: the idle mode as a second guard of `LinkMonitor`'s tick, and two
overlapping packets of one drone in `TelemetryIngest`.
