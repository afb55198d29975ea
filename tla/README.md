# Rotta: formal models

TLA+ models of Rotta, a freight platform: a Django backend (`src/src`), a Flutter
app for the driver (`src/apps/rotta_driver`) and a scheduled command. The modules
translate the code, not its documents; `PROJECT.json` maps every definition to
its lines. `tlc -config X.cfg M` checks a run, `tlapm M_proofs.tla` the proofs.

## The system

A customer's **request** is priced by versioned **quotes**; an approved one lets the
office publish an **offer**. Carriers and drivers found by **matching** are invited and
express **interest**; the office **selects** one, and confirming the selection creates the
**operation**. **Contracted routes** create operations without a market, from a
calendar. The **driver's app** takes the operation through its statuses, stops and
proofs of delivery, sends GPS points (queued offline) and the cargo's temperature.

| Component | State it keeps | Operations | Hard behaviour |
|---|---|---|---|
| Operation execution | status, stops, proofs, timeline | advance, cancel, incident, proof, stop move | calls in any order and repeated; rules over several rows |
| Driver app | the screen (actions, next stop) | fetch, tap, reload | unlocked reads, stale screens, lost calls |
| Tracking server | sessions, points | start, batch, end | checks before the lock, whole-row saves, closing beside them |
| Tracking client | session, sequence, offline queue | start/stop, capture, save, sync | timers over awaits, lost answers, refused points, restart, a logout that empties the storage |
| Offers and marketplace | offer, interests, selections | publish ... cancel, interest, select, confirm | stale objects, expiration, exclusivity, partial failure |
| Contracted routes | occurrences | plan, materialise | overlapping and killed runs, broken items, limits |
| Thermal monitoring | readings, excursions | record a reading | late, repeated, out-of-order readings |
| Requests, quotes, pricing | request, quotes, charges, totals | submit, quote, approve, send, revise, expire | stale objects, version numbers, partial failure, time |
| Compliance documents | documents, their verdict | upload, replace, review, approve, reject | stale reviews, uniqueness, replacement order, time |
| Mobile session | three storage keys, tokens, screen | login, call, refresh, retry, logout | awaits between the keys, kills, overlapping calls |
| Matching, invitations | candidates, invitations | run, invite, cancel | check-then-insert |
| Route intents | intents | activate, cancel, expire | stale objects, as in offers and quotes |
| SLA, intelligence, reports | none, or snapshots | compute | pure rules; sampling |
| Organizations, customers, carriers, drivers, vehicles, audit | registers | create, update | little: plain records |

Components meet through the database rows: the app calls the API views, the views call
the services, and confirming a selection, closing an operation and recording a reading
change rows of several components in one transaction.

## What each component must guarantee

- An operation's stops are served in sequence, cargo is dropped only where it was
  collected, a delivered operation is proved and its record is final, and the timeline
  is a history although clients repeat calls.
- The app offers what the services accept, and a driver who goes on finishes.
- One active tracking session; points only while the operation is open; sessions do not
  reopen. A point is stored once, a sync does not forget it before it was sent, and while its
  session is active it is delivered, whatever other sessions refuse.
- An offer is awarded once, interests agree with selections, operations with confirmations.
- A planned occurrence becomes one operation, or is cancelled, and is not forgotten.
- A sensor's alarm shows its last valid reading, and no breach is lost.
- Two quotes of a request never take one version (by the sequence's lock, and astride New
  Year by the unique constraint alone); a superseded quote has the one that
  revises it; a total is what its charges add up to; an offer comes from an approved quote;
  an expired, cancelled or superseded quote is moved only by whoever loaded it before.
- An entity's verdict does not depend on the order of its rows; a document's decision and
  its reason agree; nothing but an approval makes an entity compliant.
- One driver per session of the app, whatever is killed or overlaps, and a session that is
  half there is being cleared.

## Modules

| Module | Models | Code |
|---|---|---|
| `OperationStateMachine` | statuses and the transition table | `freights/domain/enums.py`, `state_machine.py` |
| `OperationExecution` | one operation: status, stops, proofs, timeline, sessions | `application/operation_services.py` |
| `CargoCustody` | abstract: what is promised of each lot | refined by `OperationExecution` |
| `DriverApp` | detail view and app, EXTENDS `OperationExecution` | `available_actions.py`, `api/v1/views.py`, Dart |
| `OperationTracking` | requests read by read, EXTENDS `OperationExecution` | `tracking_services.py` |
| `TrackingClient` | provider, offline queue and a server of sessions | `tracking_provider.dart`, `tracking_service.dart` |
| `Marketplace` | one offer, its interests and selections | `offer_services.py`, `marketplace_services.py` |
| `ContractedRoutes` | runs of the command and the occurrences | `route_services.py` |
| `ThermalMonitoring` | readings and excursions of an operation | `record_thermal_reading` |
| `FreightQuotes` | one request, its quotes and the users that hold copies of them | `services.py`, `quote_services.py`, `pricing_services.py`, the quote and request views |
| `ComplianceDocuments` | the documents of one entity and its verdict | `compliance/application/services.py`, `evaluation.py`, `expiration.py` |
| `MobileSession` | the phone's tokens, the calls in flight, the server's revocations | `auth_service.dart`, `api_client.dart`, `api/v1/auth.py` |
| `Operation_proofs` | theorems of `OperationExecution`, of its refinement of `CargoCustody`, and of `OperationTracking` and `DriverApp`, which extend it | |
| other `*_proofs` | theorems of the module they are named for | |

How state and steps correspond: a row's field is a function from the row to its value;
a service that runs under a lock or in one transaction is one action; a service that
reads without a lock is split where it reads and where it writes. `select_for_update`
is the atomicity of an action. A call refused by the code is a disabled action, since
its transaction leaves nothing. Operators that end in `_Something` beside a definition
are the plausible bugs that the properties were tried against; no specification uses them.

- `OperationExecution`: `AdvanceStatus` is `change_operation_status` with the end of the
  active sessions; `RepeatStatus` its idempotent return; `ChangeStopStatus`,
  `RecordStopPod`, `RecordOperationPod`, `CancelOperation`, `ReportIncident` the services of
  those names; `TrackingCommit` is anything the tracking services commit. The timeline
  keeps the events that carry a status or a client id.
- `DriverApp`: the detail reads the status, computes the actions and then the next stop;
  each is a step (`FetchStatus`, `FetchActions`, `FetchNextStop`), so others may work in between.
- `OperationTracking`: a request of a worker is idle, opening, reading the session,
  reading the operation, committing or ending. The batch's points become visible together.
- `TrackingClient`: every `await` is a boundary. A capture goes from locating to sending,
  recorded, sent, or saving, writing and queued; a sync from read to send to write. The
  queue is read and written apart. A call that fails has been recorded or has not; one
  that failed is not recorded later. Each point is valid or not when its position arrives;
  `Accepts` is `record_location_point`, which refuses the whole batch for an ended session or an
  invalid point, and `AfterFailure` the chunks of the session that the app then skips. The queue
  lives in the secure storage of the tokens: `Logout` is the `deleteAll` that any call answered
  401 leads to, at any moment, while captures and syncs go on.
- `Marketplace`: a request holds a copy of the offer's status from when its view loaded
  it (`LoadOffer`), and its transitions are decided on the copy. Selection services lock the
  offer and are atomic.
- `ContractedRoutes`: a run plans the day's occurrences one transaction at a time, takes a
  snapshot of the due ones and materialises each under its lock; it can die between.
- `ThermalMonitoring`: the operation's row is locked, so a reading is one action. A tick
  is an hour; the five minutes a sensor's clock may run ahead are less than a tick.
- `FreightQuotes`: a user's call begins with `LoadQuote` or `LoadRequest`, and its transitions
  are decided on that copy; saving a draft writes the whole copy back. A creation or revision is
  `AllocateVersion` (the sequence row locked, the versions counted, the source superseded) and
  then `InsertQuote`, or `Rollback` when the charges are refused or the version was taken meanwhile.
  The sequence row is the organization's of one year (`SequenceFree`): it excludes the allocations
  of that year and no others. The source's row, locked before, excludes its other writers.
- `ComplianceDocuments`: a review is `Load` and then `StartReview`, `Approve` or `Reject` on the
  copy; an upload and a replacement are one transaction each, with `full_clean` before each save.
  The verdict is a set, the values that the code may return for some order of the rows.
- `MobileSession`: each read and each write of a storage key is a step, as is each answer; a
  call goes through sent, refused, refreshing, saving, dating, retrying, clearing, revoking and
  deleting. The app can be killed before any of them, and only the storage is left.

## Runs

| Run | Bounds | Shows |
|---|---|---|
| `operation` | 3 stops, 3 lots, 4 client ids, 1 session | a delivered operation is proved and final, with an operation's own proof beside its drop's; timeline |
| `driver` | 4 stops, 5 lots | sequence, collected cargo, proofs of stops, refinement of `CargoCustody`; offered actions are accepted; the driver finishes, or is stuck only by a cancelled pickup |
| `tracking` | 2 workers, 2 sessions, 2 points | one active session, none reopens, stray ones stay empty, the operation is kept |
| `market` | 2 requests, 2 candidates, 3 interests, 2 selections | exclusivity, agreement of the rows, one final award |
| `market_overdue` | 1 request, 1 candidate | *violation*: an overdue selection is expired and confirmed in one call |
| `routes` | 2 routes, 2 days, 2 runs, 1 kill, `--limit 1`, one broken occurrence | one operation each, settled ones stay, planned ones are processed |
| `client` | 2 points (valid or not), 2 sessions, 1 sync, 1 failure, 1 restart, 1 logout, batches of 1 | stored once, forgotten only when sent, queued points of an active session are delivered |
| `thermal` | 2 sensors, 2 hours, 3 readings, 4 temperatures | one alarm per sensor, it follows the sensor, no breach lost |
| `quotes` | 2 quotes, 2 users, 2 days with New Year between, 2 compositions of charges | versions clash across New Year only, supersession, totals, approval before the offer, only stale copies revive |
| `documents` | 3 documents, 2 types (one required), 2 reviewers, 3 days | one verdict, decisions agree, only approvals make compliant, only stale reviews restore |
| `documents_renewal` | 3 documents, 1 reviewer | *violation*: an approved document cannot be replaced by a new one of its type |
| `session` | 2 drivers, 2 calls, access tokens of 2 ticks, refresh tokens of 3, 6 ticks, 2 restarts, 1 failed revocation | one driver per session, half sessions are being cleared |

Why the bounds are enough to be worth something: four stops give a drop between two pickups and a
shared last drop, and three a single drop, which alone may leave its proof to the operation; two
workers, requests, runs, users, reviewers or calls give every pair of steps an order (the client's
callbacks, its sync and the logout do the same; two syncs that overlap are in the theorems, which
hold for any set of them); two sessions give a stale one beside a current one; three readings give
a breach on either side and its end, with one repeated or late; two quotes give a revision and its
source, three documents a valid one, its replacement and one of the other type; tokens of two and
three ticks give an expired access token under a living refresh token and the reverse. Failures,
kills and restarts are counted (`MaxFailures`, `MaxCrashes`, `MaxRestarts`), so that "the network
does not fail for ever" is a bound and not a fairness assumption. `quotes`, `documents` and
`session` use the symmetry of rows and callers that no definition tells apart; the liveness runs
use none. Deadlock is checked in `session`. The others may all stop: an operation that is closed,
a driver who stops, a queue that is empty, a calendar at its last day.

The type invariants are not runs of their own: they are theorems, each the first conjunct of
the inductive invariant of its module.

**Fairness.** `driver`: weak fairness for the fetch and strong fairness for the steps that
others can disable (the reads after it, the tap, the service's answer): a driver who goes on
working over a network that does not fail for ever; nothing is assumed of the office.
`routes`: weak fairness of each run's steps: cron starts the command again. `client`:
callbacks that wait are resumed and the sync timer ticks while it is on; nothing is assumed
of the driver's taps. Its liveness property excludes by name what the code does not deliver: a
point behind an invalid one of its session (`Poisoned`), one that a write in hand is about to
erase (`BeingErased`), and those queued before the last logout.

## What the code does otherwise than it says

Checked by a run (`findings` in `PROJECT.json`):

- an overdue selection is expired and confirmed in one call (`marketplace_services.py:454`);
- an approved document cannot be replaced by a new one of its type, since the new row is checked
  before the old one is marked (`compliance/application/services.py:170`), although the audit row
  of a replacement says that what it replaced was APPROVED (`:183`) and the catalog allows multiple
  versions (`catalog.py:16`). Within a type only a rejected document is replaced, and the audit row
  is wrong about it.

Shown by the models and not kept as runs. Operations, tracking, thermal:

- a session is opened on an operation closed after its status was read
  (`tracking_services.py:38`, against README.md:325), and stays without points;
- a point queued during a sync is deleted with the queue (`tracking_service.dart:120`), and an
  overlapping save loses the other's point (`:48`);
- points admitted before a session ended enter it after (`tracking_services.py:108`);
- an end request that read the session before a delivery erases the closure reason (`:245`);
- an operation without stops is offered COMPLETE_OPERATION before its proof (`available_actions.py:39`);
- an excursion resolved by a late reading ends before it started (`operation_services.py:770`);
  a limit of zero degrees is none in the driver's detail (`api/v1/views.py:313`);
- after a restart the sequence starts at 1 in the same session and new points are lost
  (`tracking_provider.dart:83`); a point can be stored in two sessions (`:150`); points of an ended
  session stay in the queue for ever (`:103`);
- an invalid point is never accepted and never dropped: a position whose speed or heading the
  device gives as -1 is refused (`tracking_services.py:131`, `:140`) with the batch it is in, and the
  app skips the rest of its session (`tracking_service.dart:103-116`), so that the valid points
  behind it wait for ever;
- a call of any screen that is answered 401 ends in a logout, whose `deleteAll`
  (`auth_service.dart:52`) empties the storage that also holds the queue: the unsent points
  are lost, with every access token that expires in use, since the retry throws (below).

Offers and routes:

- an offer cancelled during a pending selection is closed by the confirmation
  (`marketplace_services.py:495`), a stale object takes a closed offer out of CLOSED
  (`offer_services.py:154`) and interest enters an offer that left the market (`marketplace_services.py:158`);
- a selected candidate that expresses interest again makes its pending selection impossible to
  cancel or expire: the restored interest meets the unique constraint (`marketplace_services.py:424`);
- a paused offer never expires: expiration takes it and the transition table refuses it
  (`offer_services.py:376`);
- `withdraw_interest` locks the interest before the offer and selection the offer before the interest
  (`marketplace_services.py:279`), which the database resolves by aborting one;
- an invitation is created after an `exists()` query without a constraint (`invitation_services.py:51`);
- the creation limit counts existing occurrences (`route_services.py:325`), so that a command
  repeated with `--limit` never plans the later routes; a route edited while an occurrence is
  materialised gives an operation of both versions (`:180`).

Requests and quotes:

- an approved quote whose validity has passed can still be sent: expiration looks at sent ones
  only (`quote_services.py:199`, `:396`);
- a form loaded before a quote was submitted saves it back as a draft, whatever it became
  (`quote_services.py:311`, against the refusal at `:290`); a stale request form reverts the
  request's status (`services.py:253`);
- two revisions of one quote from copies loaded before fork it (`quote_services.py:443`);
- the version is protected by a lock taken for the reference code, on a row per year (`:65-74`): of two
  creations that begin on the two sides of New Year both count the same versions (`:77-79`), and
  the later one fails with the unique constraint's error;
- the request stays SUBMITTED when it is quoted (`quote_services.py:146`), misses the gate when the
  approval came before QUOTING, and can be moved to READY_TO_PUBLISH by hand without a quote;
- the status view submits a draft without the validation that `submit_freight_request` does.

Documents:

- a replacement may be of another type than the document it replaces, which then counts no more;
- a rejected document is not active, so `rejected_types` is never filled; EXPIRED is never
  assigned; a document within thirty days of its end already makes its entity ineligible;
- a review that loaded a document before it was replaced revives it beside its `replaced_by`.

Mobile session:

- after a 401 the refresh succeeds, but the retry sends a request object that was sent already, which
  throws, and the session is cleared (`api_client.dart:24-35`); at the start only the access token's
  end is looked at, so a phone idle for longer than it asks for a login;
- logout revokes only the access token it finds, in the cache of one server process;
  a revocation without an answer leaves the storage as it was;
- a refresh that saves its expiry after `deleteAll` leaves an expiry without tokens.

## Proofs

For every value of the constants, from the assumptions named in each module:

- `Operation_proofs`, the operation: `TypeCorrect`; `InductiveHolds`, whose invariant adds to types,
  sequence, cargo and proofs that a delivered operation has no open delivery stop, which is
  why nothing can change its record; `StopsStayInSequence`, `CargoIsCollected`,
  `ProofsAreSound`, `DeliveryIsProven`, `DeliveredRecordStays`; and `TimelineIsHistory`: every
  transition climbs a rank, so a call that would move the operation finds no event with its
  id. Each stop step is proved once, in `StopStep`. `CustodyIsKept`: every step is a custody
  step or a stutter. `OperationOnlyAdvances`: with the same rank, and one for stops, no call
  takes a status, a stop, a proof or an event back.
- `Operation_proofs`, tracking: `TrackingInvariant`, which says of each request in flight what is
  true of the rows it read (`RequestSound`): its session was opened, and a batch that took points
  took them while session and operation were open, so if the operation is closed now that session
  ended with it and is not the stray one; a session never opened has no points. From it `OneActiveSession`, `StraySessionsAreEmpty`,
  `EndedSessionsStayEnded`, `TrackingTypeCorrect`, and `TrackingKeepsOperation`: each commit of a
  request is one that `OperationExecution` allows at any time (`TrackingCommit`), so the theorems above
  hold beside tracking too.
- `Operation_proofs`, the app: `AppInvariant` is the operation's invariant with the types of the
  screen; `AppKeepsOperation` and `AppKeepsCustody` carry the operation's theorems to the app with the
  office beside it. `OffersAreAccepted` and `StuckByCancelledPickup` take the next stop as the least open
  sequence number (`NextStopIsFirst`, from `LeastElement`) and go through the detail's rules
  one by one. `OffersAreAccepted` supposes `Stops # {}`: without stops the rule for
  COMPLETE_OPERATION offers it before the operation's own proof (above). `AppAssumption` is that
  `NoStop` is no stop. `TapsAdvance`, that an accepted tap always moves something, is with
  `OperationOnlyAdvances` the safety half of `DriverFinishes`.
- `TrackingClient_proofs`: `TypeCorrect`, with the session that a capture in flight must have;
  `PointsStoredOnce` and `ForgetsOnlySent`. Their invariant says that every point that is stored,
  queued, or in a sync's hands was located before (`PointsArePlaced`) and so keeps its sequence for
  good (`PlacedStays`): a retry meets the slot of the first attempt. And while none of its calls
  failed, what a sync has read and holds no more has its slot taken (`SentIsStored`); slots are
  never freed.
- `Marketplace_proofs`: `MarketInvHolds` (the three agreements of rows and that a chosen interest
  belongs to one active selection) and from it `SelectionsAreExclusive`,
  `InterestsFollowSelections`, `OperationsFollowConfirmation`, `AwardStays`, `SettledInterestsRemain`.
- `ContractedRoutes_proofs`: `OneOperationPerOccurrence`, `SettledOccurrencesRemain`, by a lemma on
  what a step may do to the rows, for any number of runs.
- `ThermalMonitoring_proofs`: `ThermalInvHolds` and `AlarmsAreSingle`, `AlarmsFollowSensors`,
  `BreachesStayRecorded`. A sensor's alarm needs the uniqueness of its active excursion, and the
  bounds need that evaluation only widens.
- `FreightQuotes_proofs`: `InvariantHolds`, whose invariant adds to the properties that only one
  transaction holds the sequence of a year, that a revising one holds a copy that may be revised, of
  an earlier version, and that rows and copies shown as approved were approved; from it
  `ClashesAreAcrossYears`, `SupersededAreSucceeded`, `TotalsStayExact`, `OffersAreApproved`,
  `RevivalsAreStale`, and `VersionsHaveNoGaps`: astride New Year too the versions run 1, 2, 3, each once.
- `ComplianceDocuments_proofs`: `VerdictsAreUnique`, `DecisionsStayAgreed`, `RestorationsAreStale`,
  `ApprovalsMakeCompliant`, all from one active document of a type.
- `MobileSession_proofs`: `DriversStaySeparate`, whose invariant says that tokens of two drivers are
  stored only behind an expiry that has passed, and that calls and storage agree while the
  operations are shown; `HalfSessionsAreCleared`.
- `TypeCorrect` of each of these modules.

Every safety property of a passing run is a theorem. Model-checked only: liveness
(`DriverFinishes`, `PlannedAreProcessed`, `ActivePointsAreDelivered`), which the prover does not reach.

## Not modelled

Geometry, speed and accuracy of points (the client's points are valid or not); permissions and tenants, which only refuse calls; the
wording of errors, audit rows and marketplace events; the copy of stops and lots into an
operation; vehicle, driver and ETA updates of an operation; dry runs; decimal arithmetic.

The program is Python and Dart. Its JavaScript is the backoffice theme and its icon fonts,
which are vendored, and `static/backoffice/nexadash/js/dashboard/rotta.js`, which draws charts from
a payload of the page and keeps no state; there is nothing in it to check. Of the components
left out, the registers (drivers, vehicles, carriers, customers, organizations) and the audit log are
rows that no process moves; SLA, scoring and risk are pure sums and comparisons whose results decide
nothing here; matching runs under the offer's lock with unique rows; and route intents repeat
the pattern of the quotes (the office locks the row, expiration and the app act on
copies, and the app's activation skips the check of overlapping windows,
`api/v1/views.py:1128`) on a row that only scores candidates.

## Plan

1. Done: the operation and its app, tracking on both sides, the market, contracted routes,
   thermal monitoring, requests with their quotes, documents and the mobile session, each with
   its proofs.
2. The safety half of the other two liveness properties, as the app's has: what an iteration of
   the command, and of a sync, takes off its queue.
3. A composition of `Marketplace` with `FreightQuotes` and `ComplianceDocuments`: an award whose quote
   or documents changed after they were consulted.
