# kpnhcis-backend: TLA+ models and proofs

The program is the backend of a human-resources system: a NestJS service over
PostgreSQL (Prisma), a Redis cache and a BullMQ queue. This directory models the
parts of it whose correctness depends on the order in which things happen, checks
them on small instances with TLC, and proves the most important facts for every
instance with TLAPS.

Paths below are relative to the repository; `time-management/` stands for
`src/modules/time-management/`.

## The system

A request is served by one Node.js process of possibly several. Code between two
`await`s runs without interruption; at each `await` of a database or Redis round
trip any other request, of the same or another process, may run. Only three
places in the code use a database transaction (persisting a leave transition,
the upsert of a synchronised profile, a user list with its count), none uses
row locks or version columns, and the default isolation (read committed) does
not protect a read-decide-write sequence. That makes the database round trip the
natural step of a model. The repository has no tests.

| Component | State it keeps | Operations | What is hard |
|---|---|---|---|
| Leave request workflow (`src/leave-request/`) | `leave_requests` (status, submittedAt, JSON payload with the machine's context and log), `leave_approvals` | create, submit, approve, reject, cancel | Read, decide on a copy, replace the row: stale copies overwrite newer rows; JSON that clients or an older workflow wrote |
| Organisation units (`src/units/`) | `units` as an adjacency list | create, update, deactivate, tree, ancestors | Check of the hierarchy and write are apart |
| Clock-event pipeline (`time-management/attendance-management.service.ts`, `queues/`) | `attendance_daily`, `attendance_logs`, queued jobs | processClockEvent | Five writes without a transaction; overnight days; a job per day against late taps |
| Aggregation and fraud workers | the same rows | not in the repository | Run concurrently with taps |
| Authentication (`src/auth/`) | `users.refresh_token_hash` | login, refresh, logout | One hash for all sessions of a user; compare and replace are apart |
| Ability factory and cache (`src/casl/`) | permission lists in process memory and Redis | createForUser, invalidateCache, guard, the access check at the head of each view | Stale lists; a list stored after a newer one; the row checked and the row read may differ; invalidation has no caller |
| Users (`src/users/`) | `users`, `user_roles` | create, update, remove | Check-then-create; role changes against the cache |
| Profile sync (`src/profiles/`) | `users.payload`, unit and manager links | syncDarwinboxProfile | Payload read, rebuilt and written back; order of syncs |
| Attendance views (`time-management/attendance-management.service.ts`) | none | overview, log, day status, details, policies | Calendar arithmetic, windows, UTC and local days; queries that see different moments |
| Leave views (`time-management/leave-management.service.ts`) | none | common details, leaves, upcoming time off, team status, pattern | Balances against live requests, queries in two stages, months and windows that cut leaves |
| Employee profile views (`src/modules/employee/`) | none | details, profile, employment, organisation lens and chart, status of today | Manager links that form loops; page and count read apart |
| AI divisional health (`src/modules/ai/`) | none | analyzeDivisionalHealth | Four awaits over changing tables, a remote call; normalisation of whatever the model puts under the shares |
| UI translations (`src/modules/localization/`) | none | lookup | Locale fallback |

How they interact: all requests pass the permission guard, which reads the cache.
The leave workflow reads `users.payload.positionIds`, which HR administration and
the profile sync write. The pipeline reads shift assignments and business trips
that nothing in the repository writes, and hands work to the queue. The views
read the rows of the workflow and the pipeline.

What makes each correct, in short:

- *Leave workflow*: a request is APPROVED only if every slot of its approval chain
  approved it in order; terminal requests stay as they are; log, audit rows and
  answers tell one story.
- *Units*: the hierarchy is a forest, so that trees and ancestor chains end and are
  complete.
- *Pipeline*: each tap belongs to exactly one operational day; a tap answered with
  success has left everything it should; the day's row is explained by its taps;
  every tap is aggregated.
- *Ability cache*: a change of roles is seen after a bounded time, and who is answered
  about somebody else was entitled to it while the request was under way.
- *Users and profile sync*: a row is that of one sync or of its create, never a
  mixture; passwords, roles, deletions and what HR administration maintains survive
  a sync; a manager who has a row is linked.
- *Views*: each day of a window is classified once, totals match the days; what a view
  shows held at some moment while it ran, what held all along is not missing, and the
  views of two services tell the same of a person who is on leave.

## Modules

| Module | What it is |
|---|---|
| `LeaveMachine` | The XState machine of `leave-request.machine.ts`: guards, transitions and context as constant operators |
| `LeaveRequest` | The service's handlers over the two tables, cut at round trips; extends `LeaveMachine` |
| `LeaveWorkflow` | What a request promises: a phase, the slots still to be passed, a trail; no rows, payloads or calls |
| `LeaveRequestProofs` | Theorems about `LeaveRequest`, and that with serial calls it implements `LeaveWorkflow` |
| `UnitTree` | `units.service.ts`, cut at round trips |
| `UnitTreeProofs` | Theorems about `UnitTree` |
| `ShiftWindow` | The pure part of the pipeline: operational day, shift close, geofence pool |
| `AttendanceClock` | `processClockEvent()`, cut at round trips, with time and the aggregation worker; extends `ShiftWindow` |
| `AttendanceClockProofs` | Theorems about `ShiftWindow` and `AttendanceClock` |
| `PayCycle` | The pay cycle of a date (`buildCycleDates()`) over any calendar of months |
| `AttendanceViews` | Overview, log, day status, details and policies of attendance, and the races of their queries with the writers; extends `ShiftWindow` and `PayCycle` |
| `AttendanceViewsProofs` | Theorems about `AttendanceViews`, the early-outs of `ShiftWindow`, and `PayCycle` |
| `AccessGate` | Guard, ability factory, its two cache levels, and the access checks of the views, cut at round trips |
| `AccessGateProofs` | Theorems about `AccessGate` |
| `LeaveViews` | What the leave views compute from what they found: balances, cards, sheet, timeline, calendar, pattern |
| `OrgViews` | Reports, pages, and the recursive team of the profile views |
| `HealthAnalysis` | The normalisation of the sentiment shares |
| `EmployeeViews` | The queries of the leave, profile and analysis views in their stages, among the writers; extends the three modules above |
| `EmployeeViewsProofs` | Theorems about `EmployeeViews` |
| `UserDirectory` | The users table under `UsersService` and the Darwinbox sync, cut at round trips |
| `UserDirectoryProofs` | Theorems about `UserDirectory` |
| `DataTheorems` | Lemmas about data that several proofs need: least numbers, induction over a finite set, sums |
| `MCLeaveRequest`, `MCUnitTree`, `MCAttendance`, `MCAttendanceViews`, `MCUserDirectory`, `MCAccessGate`, `MCEmployeeViews` | Values of the constants for TLC |

A few operators in the component modules are variants of a definition with a
plausible bug (`RowAfterRestartingTheLog`, `UpdateUnchecked`, `WriteDangling`,
`UpdateOfTheCopy`, `OnLeaveUntilEve`, ...). No specification uses them. They stand before the
definition they vary; putting one in its place must make a property fail, which
is how each property is tested. `PROJECT.json` pairs them under `mutants`.

### LeaveRequest

- `rows`, `audit` are the tables, `positions` is `user.payload.positionIds`,
  `calls` holds the requests being served: which handler, what it read, what it
  answered.
- `Create` is `create()`, one insert. `Extras` are the client payloads, which the
  code spreads over the reserved keys; `CreatedPayload` does the same.
- `Submit`, `Reject`, `Cancel` are those handlers up to the end of the read in
  `transition()`. `approve()` has a round trip before it, so `ResolvePositions`
  and `Approve` are its two steps. What follows the read up to the transaction
  does not give up the event loop, so its guards are part of the read step, and
  the answers 404, 409 and 400 end the call there.
- `Persist` is the transaction: it replaces the row found by its id (`StoreRow`) and
  adds the audit row. `Fail` is a failing round trip, a rollback or a dying process.
- `LoseAcknowledgement` is a COMMIT whose answer does not come back: the caller has
  been told of an error (500) while the transaction is still at the database, where it
  commits (`Persist`) or rolls back (`Fail`), then or after other calls. So an answer
  of 500 says nothing of the row, and `AnswersTellTheTruth` does not claim that it
  does: only that row, log and audit row are stored together or not at all, once, and as
  the call asked.
- `SetPositions` is HR administration, outside the repository.
- Abstracted: leave type, dates, remarks (absent, blank, written), and actor ids
  of log records that no guard reads. A call stands for its timestamps.
- A payload key with the wrong JSON type is `Malformed`, and `Log` and `Rehydrate`
  read it as its default, as the code does.

### LeaveWorkflow, and how LeaveRequest implements it

The workflow knows three things of a request: its `phase`, the slots `left` to be
passed, and the `trail` of acts. Its actions are the promises of the comments in
`leave-request.machine.ts`: a chain is handed in once with the submission, only the head
of `left` can decide and is consumed by it, the last approval ends the request, an ended
one never moves again, and no act leaves the trail.

`LeaveRequest` maps to it with `Phases`, `Lefts` and `Trails`. The phase is that of the
stored status, `left` the part of the stored chain from the stored index on, or nothing
for a row that has no slot at its index (the rows of the old workflow, which therefore
can only be cancelled), and the trail what transitions have logged. `Persist` is the step
that shows: a read, a refusal, a failure or a change of positions is a stutter. The
refinement holds for `SerialSpec`, in which no two calls hold a copy of one request; it
fails for `Spec`, for the reason shown by `leave_bad_terminal`.

### UnitTree

- `created` (the units in order of `created_at`), `parent`, `active` are the
  columns; a unit is named by its code.
- `Create`, `CheckParent`, `Insert` are the round trips of `create()`; `Update`,
  `CheckCycle`, `Write` those of `update()`; `Deactivate` and `Write` those of
  `deactivate()`. The unique index and the foreign key refuse writes in `Insert`
  and `Write` (an unhandled database error: 500).
- `Descendants` is the answer of the recursive query: the least set closed under
  children. On a cycle the `UNION ALL` query does not end, which `CheckCycle`
  models as a failing call.
- `Shown` and `FindAncestors` are the answers of the two reads; the latter is ordered by
  the places of its units in `created`.

### ShiftWindow and AttendanceClock

- Instants are UTC minutes, days are numbers of local calendar days. The code
  represents a day by its UTC midnight, and `ShiftClose` keeps that.
- A GPS point is the set of circles around it; the haversine distance is what
  decides membership, and is left out. The pool is a list of three lists (standard,
  overrides, trips), each with its entries at the places of their stays, since only
  the order matters.
- `Begin` is the call up to the geofence check, with the two reads of tables that
  nothing in the repository writes; then `FindDaily`, `Upsert`, `InsertLog`,
  `DispatchScan`, `DispatchAggregate`, `NoteJob` are the round trips in order.
- `Updated` sets columns one by one and the payload as a whole from what was read,
  which is the point of several properties.
- `Tick` is time. `Aggregate` is the worker, written after the list in
  `attendance.queue.ts`; it is external and its atomicity is an assumption.
- BullMQ ignores an added job whose id it still has. `removeOnComplete: {count: 100}`
  keeps the last hundred completed jobs; the model assumes that the job of a day
  is still kept while taps of that day arrive.
- Left out: device, address, source, the stored pool (it is always `Pools(day)`),
  fraud scores.

### AttendanceViews and PayCycle

- `daily`, `approved`, `holidays` are what the views read: the daily rows of one
  employee, the approved leave requests and the public holidays. `taps` are those under
  way and `logs` what the worker reads. `view` is the request being served, `now` the
  clock.
- `AskWindow`, `AskDay`, `AskDetails` and `AskPolicies` are the starts of the requests:
  the checks of the window (`BadWindow`; the details only refuse an end before the
  start) and the lookup of the shift (`ShiftsFound`), which nothing in the repository
  writes. Details and policies make no other query and are answered in that step: the
  start day of the pay cycle is that of the assignment, 1 without one. The queries of a `Promise.all` run
  in any order; each is a `Read`. The last one completes the answer, which is
  computed without giving up the event loop, so answers are operators on what the
  queries found: `Overview`, `Card`, `LogEntry`, `LogClass` (the counters of the
  log), `Badge`, `DayStatus`, `CycleStart`, `CycleEnd`.
- `BeginTap`, `FindDaily`, `UpsertDaily`, `InsertLog` and `FailTap` are the pipeline as
  far as the views see it: the round trips that touch the daily row and the log, with a
  failure between any two. `Aggregate` is the worker, which takes first and last from
  the *log*: a clock-in whose tap died before its log row is erased from the daily row.
- `Approve` is the outcome of the leave workflow, and `Overwrite` that of a racing call:
  it writes by id, so an approved request may become one that is not
  (`leave_bad_terminal`). `Proclaim` is HR administration.
- `view.known` is history, for `NothingForgotten`: the clock-ins and leaves of the moment
  the view was asked for, less those that were erased or overwritten since.
- Rows laid down at the start may be of any type; a clock-out in one is of its day (`OfDay`).
- Leaves come in any order, because the query has no `orderBy` and of two leaves on
  one day the last wins.
- In `PayCycle` a calendar is any increasing sequence of first days of months,
  numbered on across years, so leap years are a choice of the constant.
- Left out: names, formats and constants of the responses, grace periods and overtime
  tiers of the policy card. Who may see whom is in `AccessGate`.

### UserDirectory

- `users` is the table (a soft-deleted row has `deleted`), `units` the units created
  so far, `calls` the requests being served with what they have read. Rows are never
  removed and the employee number never changes, so it also stands for the id.
- `Create`, `Insert` are the round trips of `create()`; `Find`, `Write` those of
  `update()` and `remove()`, which write by id whatever happened in between.
- `CheckEmail`, `FindUnit`, `FindManager`, `ReadPayload`, `Upsert` are those of
  `syncDarwinboxProfile()`. `Upsert` is its transaction, with `manager_id`.
  `Synced` is the row after it: the payload is replaced, with the positions of the
  copy. The whole rest of the payload is one value, the request it came from.
- The unique indexes and the foreign key on the unit refuse writes in `Insert`,
  `Write` and `Upsert` with a database error (500). `LoseAcknowledgement` is a write
  whose answer does not come back: the caller is told of an error, and the row is stored
  nevertheless, then or later, or not. `stored` (history) is what was committed, and the
  properties speak of that, not of what a caller was told.
- A PATCH with `unitId: null` takes the user out of the unit (`Updated`).
- `EditPayload` is HR administration, outside the repository; `CreateUnit` is all
  that users see of `UnitTree`.
- `ValidCreate`, `ValidUpdate` and `ValidSync` are what the DTOs let through.
- Left out: name, status, `updatedAt` (no decision reads them), the existence of
  roles.

### AccessGate

- `users` and `lists` are the database: the row of a user as far as a condition or a
  check looks at it, and the permissions that the roles of a user add up to. `memory` and
  `redis` are the two stores of the cache, per process and shared. `calls` are reads with
  what they have found, `now` a clock in ticks; `past` is history for the properties.
- A read is `Begin` (the row of the token's user), then twice `GetList`, and on a miss
  `QueryList` and `SetList`: once for the guard of the route and once in the service,
  after `ReadReader` (the leave views read the reader again) and the person asked for:
  `FindBySource`, `FindByNumber` and `FindById` are three queries one after the other,
  and a person who changes between two of them may be found by none or by a later one.
  `ResolveSelf` is the call that names nobody. `Judged` is the code that runs after a
  list is at hand.
- A row is `deleted` or not and `active` or not. The reader must be both active and not
  deleted (`MayEnter`); the target only not deleted, so that a suspended person's data is
  answered. A company that is null or empty is no company to `OtherTenant`.
- `Store` gives both stores the same expiry; `Evict` lets an entry go at any time, which
  covers restarts, full memory, and `invalidateCache()`, should anything call it.
- `Interpolated` replaces the placeholders of a condition by the reader's fields, or by
  a text that no column holds. `DetectedSubject` is what `detectSubjectType` makes of a
  tagged object: always `all`. A row found by `source_employee_id` comes from raw SQL,
  with `unit_id` in place of `unitId` (`RawRow`), so no unit condition matches it.
- `SetRoles`, `SetUser` are `UsersService` and administration, `Tick` is time.
- Left out: `getTeamStatus()` makes no ability check after it has found the person, and
  the profile views no tenant check; the model of a read is that of the views that make
  them. The attendance details and policies read the target once more before the check,
  and the model takes the first row.

### LeaveViews, OrgViews, HealthAnalysis and EmployeeViews

- `db` is the tables, `view` the request being served with what its queries have found,
  `during` (history) what the tables held since it was asked, `changes` bounds the
  writes.
- `Stages` lists the queries of each view: those of a stage are sent together and
  answered in any order, the stages follow each other. Each `Read...` is one query; the
  view is answered when the last is in, with the operators of the pure modules on what
  was found: `Cards` and `Sheet` (balances), `Timeline`, `TeamStatus`, `LeavePattern`,
  `AttendanceStatus`, `Page`, `Hydrated`, `TeamSize`, `Normalised`.
- `TeamSize` counts the rows of the recursive query, which has one for each way down the
  manager links until a way closes a loop (the `CYCLE` clause).
- The two services that answer whether somebody is on leave today each have their query:
  `Active` is that of the leave sheet (all of them, for the gates), `OnLeave` and
  `Latest` that of the status (the one begun last).
- A reply of the model has whatever JSON has under a share: a number of any sign, in
  parts of a percent (`Grain`), null, nothing, a text that is a numeral or not. `Total`
  is what `+` makes of them, which joins if one is a text; `Scaled` is `NaN` where
  `Math.round` has no number to round.
- `Normalised` rounds in integers. Where a share is exactly at a half, or a sum of
  fractions at the end of the tolerance, floating point may land on either side, and both
  are outcomes.
- `AskAnalysis` asks for the id of a unit, or for one that is none (404, `ReadDivision`).
  `AskModel` is the remote call: shares to be normalised, an unusable answer, a failure
  or no answer in time. An answer after the timeout is dropped with its subscription.
- `WriteRequest`, `WriteUser` are what `LeaveRequest` and `UserDirectory` may leave. A
  request that was submitted may go to any status, from a terminal one too, because a
  late call overwrites it by id; a draft is submitted or cancelled, since the machine is
  set to the state of the *status* column, whatever `_stateValue` a payload has.
  `WriteBalance` and `WriteHoliday` are outside the repository.
- Days are numbers and a year is `MonthStart`; `Today` does not change during a view.
- Left out: colours, labels, recipients, sandwich rules and the other constants of the
  cards; the profile and employment cards, which format one row; the texts of the report.

## Runs

All passing runs end without error. Counters are bounded only by the finite sets
given to the constants: calls and taps are used once, so their number bounds
every log.

| Run | Instance | What it shows |
|---|---|---|
| `leave_race` | 1 request, 4 calls, 2 users, 1 position, 2 chains | Whatever races, acknowledged or not: a stored row is explained by its own log and audit rows (`HistoryFollowsChain`), the log is a path of the machine, and row, log and audit row are of one call, together or not at all |
| `leave_serial` | 1 request, 3 calls that do not overlap, client payloads over reserved keys, rows of the old workflow | The service implements `LeaveWorkflow`; audited decisions are logged |
| `unit_serial` | 3 units, 2 connections, moves do not overlap | A passed check still holds at the write; no cycle; the tree shows every unit, and the ancestors are the path from the root |
| `clock_race` | 1 employee, 2 taps, morning shift, 3 points, no row, or one laid down before the day with or without its shift | Answered taps are complete, refused taps left nothing, the daily row is explained by its taps; the first clock-in and the payroll flag are lost only to a tap that read the row before they were stored |
| `clock_live` | 2 taps, night shift, 4 instants over 3 days, a trip, fairness | A tap answered before the job of its day ran is counted by it |
| `views` | 3 days, Thursday to Saturday; office hours, then nights; 4 instants, 2 overlapping leaves, a holiday; windows of up to 2 days, one view per behaviour; months of 5, 2 and 3 days around the dates, cycles from day 1 to 3. Computing, with a rest day laid down: one tap at a time, nothing written while a view reads. Racing, with nothing laid down: 2 taps at a time, one leave that may be approved and overwritten, and the worker, all between the queries of a view of Friday and Saturday | Overview and log agree where the stored day types are those of the calendar; early-out and totals fit the rows, also those left by a tap that died half-way; a clock-in or leave that stands from the question to the answer is shown as absence by neither view; a cycle is that of each of its dates, month ends included |
| `directory_race` | an employee and her manager, 3 calls, 2 units, 1 position; the first call's acknowledgement may be lost; fairness | A row is that of one committed sync or of its create; one create of an employee stores a row; passwords, roles and deletions survive syncs, and so do positions that a sync has read; a sync that looks for a manager who has a row ends, and links the manager unless it stores nothing |
| `access` | a manager and an employee, either of whom may be suspended, deleted or moved to another company; 2 processes, a badge that names both users in different passes, and a number; two lists (own unit, leave balances); entries live for their tick, reads take at most one tick. Together, in one unit: 2 reads by badge or number, 3 ticks, one change beside the ticks' starts. Apart, without a unit and with an empty company: one read by every way of naming the person (badge, number, id, nobody), 2 ticks, 2 changes | Nobody is judged by an older list than the life of an entry and the call that stored it allow; who is answered about another was not deleted, of that name, and entitled by such a list, whatever changes between the reader's row, the three lookups and the check |
| `employee_views` | a boss and two people, one of them possibly inactive, five requests across months, a loop in the manager links, a year of three months, 12 replies of the model; one view, up to 2 writes while it runs, overwritten decisions included | Each view shows what held at some moment and misses nothing that held all along; available days leave room for pending requests; whoever is on leave all along is told so by status and sheet; pattern, team sizes, pages and shares add up |

Why the bounds are enough to be of interest. Lost updates in the leave workflow need a
reader, an overwriting writer and a third party to observe: four calls cover a submit,
two racing decisions and a late one. Two chains that differ in content and length let
two submits disagree. A cycle needs two units; a third lets a move happen in the middle
of a path, and two connections are what can race. Taps interact pairwise through one
daily row, and the worker runs before, between and after them. In `views` a window of
two days of three has days inside and outside, a leave that began before it, a night
that ends on its last day, and a weekend; the constraint `OneView` ends a behaviour with
the answer, since views change nothing. The run is two, told apart by the row of
the first day, which is never tapped: with a rest day there, `Quiet` leaves the tables alone
while a view reads; without it, `Racing` has two taps that can meet at one row, one of
them die before its log row, and the worker come between two queries, for the property about
what changes meanwhile. Months of five, two and three days have a start day at, before and
past a month's end, as those of 31 and 28 days do. In `access` two reads are enough for one to store
a list that another has replaced, and two processes for one to keep it; with a time to
live of nothing an entry is good for the tick it is stored in, which is the shortest life
that can still be too long. The properties compare ticks, so a longer life adds ticks and
no cases. Both users start in one unit, so that the list of the own unit grants the read of the
other, and one change can take the grant away between any two steps. `Racing` leaves out that
both reads are of the leave service, which differs by one more read of the reader's row, or
both by the number, since reads meet only in the caches, which do not depend on either;
`Alone`, for the users who start apart, has two changes for the three lookups.
In `employee_views` a view has at most four stages; two writes can fall before,
between and after any two of its queries, and the constraint `OneView` lets a behaviour ask
one view before anything is written and ends it with the answer; the initial states vary
who leads whom (a team, a line with a loop, a line whose middle was deleted).
In `directory_race` three calls let two syncs
that disagree race with a create, PATCH or removal, or with a sync that wants the same
e-mail. Its calls begin in order (`BeginInOrder`), which stands for the symmetry that its
liveness property forbids, and only the first, which may be the last to end, loses its
acknowledgement or fails before its write (`FirstFails`). Symmetry is used for calls, taps and
units where only safety is checked.

The serial runs are not a scheduling claim about the code: they state under which
discipline (a row lock, a version column) the promises of the comments hold. The same properties checked without
it fail, as described under Disagreements.

### Disagreements

Each violation run checks one statement of the repository, quoted in
`PROJECT.json` under `findings`.

| Run | Statement | What the code does |
|---|---|---|
| `leave_bad_terminal` | Terminal states have no outbound transitions | A call that read before overwrites a terminal row |
| `unit_bad_cycle` | A unit cannot become its own ancestor | Two racing moves close a cycle |
| `clock_bad_late` | Re-scheduling is safe | The job id of a completed job is ignored, so a later tap is never counted |

`ImplementsWorkflow` and `AuditedDecisionsAreLogged` fail in the same way when
`SPECIFICATION SerialSpec` is replaced by `Spec` in their configuration (a record, or a
whole chain, is lost to a racing transition).

Seen while modelling, and plain from one definition, so that no run asks:

- `reject()` passes no positions, so the holder of the position in the current slot
  may approve and is refused with 400 when rejecting, although the guard is described
  as covering both (`Reject`, `IsAuthorisedApprover`);
- the aggregation job is due seven hours after the shift closes: the local end time
  is added to a UTC midnight (`ShiftClose`);
- the schema says that the sync keeps a user's subsidiary equal to that of the unit,
  and the sync never writes it (`Synced`);
- a sync drops payload keys it does not know, such as the `is_union_member` of the
  example in `users.service.ts` (`Synced`);
- a client payload may set `_stateValue`, which the service's comment says is in
  sync with the status (`CreatedPayload`);
- a cancel writes no audit row, although `leave_approvals` is described as one row
  per APPROVE, REJECT and CANCEL (`AuditOf`);
- the report of a unit is said to be about "every active employee" of it
  (`ai-analysis.service.ts:93`, `:119`), and the query leaves out deleted users only: the
  requests of a suspended employee are in the report (`ReadMembers`);
- approving a draft answers 400, where the controller documents 409 (`Transition`);
- ancestors are ordered by creation time, not "shallowest-first" (`FindAncestors`);
- a parent that does not exist is left to the foreign key, a 500 (`Write`);
- a tap that fails at the queue leaves its daily and log rows, in what the comment
  calls the "core transactional unit" (`Fail`);
- the tail of the last night of an assignment is judged by the assignment of the new
  day, or by none (`Begin` looks it up for the local date);
- the badge of a day in the log puts a clock-in first, its counters put days off and
  leave first, and a comment describes one order for both (`Badge`, `LogClass`);
- overtime of leave days is in the total that is described as that of present days
  (`Overview`);
- a day with a holiday that was proclaimed after its row was written is present in
  the overview, which asks the row, and off in the log, which asks the calendar:
  hence the premise `Regular` of `ViewsAgree`;
- a clock-out before the first clock-in makes the elapsed time of a day negative and
  lowers the total of the window, though not its card: hence `InOrder`;
- early-out compares times of day, so a clock-out in the small hours that belongs to
  the day before, because a night shift follows, is early by most of a day: hence
  the premise of `EarlyOutIsEarly` (`EarlyOut`);
- a cycle of start day 31 that begins on 28 February ends on 30 March, where the
  comment has 27 March (`CycleEnd`);
- a sync writes back the positions it read before HR administration changed them, which
  a comment excludes: hence the premise of `SyncKeepsWhatItRead`;
- the row of a person found by `source_employee_id` has no `unitId`, so the team calendar
  of that spelling is empty and a unit condition does not match (`UnitFound`, `RawRow`);
- a tagged object is taken for `all`, and nothing calls `invalidateCache()`
  (`DetectedSubject`, `Evict`);
- nothing keeps a sync from closing a loop of managers, which a comment excludes; the
  team of somebody in a loop counts that person, and others more than once (`WaysDown`):
  hence the premise of `ChartsShowTheLine`;
- the chart takes its `user_id` as an id, where its siblings resolve it in three passes;
- a leave card without a balance row is skipped, though all six types are promised
  (`Cards`); days that are stored as pending count when no request is under way
  (`Remaining`): hence the second bound of `AvailableLeavesRoomForPending`; and the days
  of an approved request are in neither number until the balance job runs;
- the leave cycle of 2022 is 2, where the comment has 1;
- shares that sum to 98..102, or to nothing or less, are kept, and the third can become -1
  (`Normalised`): hence the tolerances of `ReportIsOfTheUnit`. Shares that are texts are
  joined ("50", "30", "20" give 0, 0, 100); of a sum that is scaled, a first or second share
  that is missing or no numeral gives `NaN`, which JSON has no number for (`Total`, `Scaled`):
  hence its premises;
- a tap that dies after its daily row and before its log row is shown until the worker
  runs, which then erases it (`Aggregate`): hence `NothingForgotten` speaks of what stands
  until the answer; and one whose clock-out is written after the worker has run leaves more
  minutes of work than between its taps: hence the premise of `TotalsCoverCards`;
- a suspended user cannot read, and can be read (`MayEnter`, `Undeleted`);
- a company of "" is that of everybody (`OtherTenant`);
- module flags from the environment are strings where booleans are promised;
- "today" of the leave and profile views is the UTC date, of attendance the local one:
  they differ between midnight and seven;
- the standard location comes first in the pool and the first match wins, while
  `shared.types.ts` says overrides take precedence (`PoolOf`, `FirstMatch`).

## Fairness

- `AttendanceClock!Fairness`: time passes, each tap under way gets its next step
  (or fails), and the worker takes a due job. The last is BullMQ's promise.
- `UserDirectory!Fairness` (in `FairSpec`): weak fairness of `Continue`, the steps of a call after its
  first: a round trip ends and the event loop runs its continuation, unless `Fail` ends
  the call first, which nothing forces. Nor does anything force a client to make a call,
  or HR to act.
- The other modules have none: nothing there is asked to happen.

## Proofs

Checked by TLAPS for every value of the constants that satisfies the assumptions
named in the modules.

**`LeaveRequestProofs`.** All under any interleaving of any number of calls, with
failures, legacy rows and client payloads. `TypeCorrect` and `HistoryAlwaysFollowsChain`:
`HistoryFollowsChain` is not inductive, since `Persist` stores a copy that may
be older than the row it replaces, so what holds of the row says nothing of the
copy. The inductive invariant `ChainInv` adds `CopiesFollowChain`: the copies
held by calls are explained in the same way, by the audit trail as it is now. The
trail only grows, so a copy stays explained (`FollowsChainMonotone`), and one
step of the machine from an explained row gives an explained row
(`RowAfterFollowsChain`, by cases on the five transitions).

`LogIsAlwaysAPath` and `AnswersAlwaysTellTheTruth` come from a second invariant,
`RecordsInv`: a row, and a copy of one, has the records of calls that have come to their end
(`MayHaveWritten`: answered with success, or with an error after their COMMIT was sent), once
each (`Once`), of what they asked of this request, and with the audit row of a decision
(`Recorded`); an audit row is of what its call asked. A call at its end is never changed
again and the trail only grows (`AnswersStay`), so what was stored stays true (`KeptStays`).
The log of a copy is a path that ends at the state of the copy; `Persist` adds one edge at
its end, which starts where the path ended because `RehydratesTo` reads the state that the
last record left, and its call, still at `read`, can have no record yet. It makes no
difference whether its caller has been told of an error meanwhile.

`Deterministic`: an event takes the machine to at most one state, so `Persist` has
one outcome. Assumptions: `NoUserAssumption` (the absent approver is no user) and
`RequestAssumption` (client payloads and legacy rows are well typed or
`Malformed`, and hold no record of a call that is yet to come).

Its last part is the refinement. `SerialCallsImplementWorkflow`: `SerialSpec` implies
`ImplementsWorkflow`, for any number of requests, calls, users, positions and chains. The
invariant `SerialInvariant` says what makes the machine's decision one about the row:
while calls do not overlap, the copy a call holds is the row, the call has not been
logged yet, and the trail holds no call that is yet to act. Then `Persist` is, by cases
on the five transitions, `Submit`, `Approve`, `Reject` or `Cancel` of the workflow; `Create`
is `Open`; every other step stutters. The lemmas are about sequences: the rest of a chain
after its head is passed, and the set of a log with one record more. The same invariant
gives the two promises that racing calls break: `SerialTerminalIsFinal` (the machine has
no edge out of a terminal state, and the copy is the row) and
`SerialAuditedDecisionsAreLogged` (the new log extends that of the row, not that of an
older copy).

**`UnitTreeProofs`.** `NoCycle` and `ChecksHold` for `SerialSpec`, that is, if at
most one move is between its check and its write. The invariant `TreeInv` adds to
types and acyclicity that every passed check still holds: creates add only leaves,
deactivations touch no parent, and moves to the root take edges away, so none of
them can add a descendant; a second move could, which is where `SerialSpec` is
used. `Acyclic` says that following parents leaves every set of units; moving a
unit under a non-descendant keeps it, by considering the set minus the
descendants of the moved unit. The theorem needs that descendants form the least
closed set (`DescendantsClosed`, `DescendantsLeast`).

The answers follow from the forest, each by naming a set that would be closed under
parents: the units that `findTree()` does not show (`TreeAlwaysShowsEveryUnit`); the units
that are above and below one unit (`NotBelowItself`, hence `QueriesAlwaysEnd`, the
`UNION ALL` terminates); the units below two siblings (`SiblingsAreApart`, hence
`AncestorsAreAlwaysThePath` has no branch).

**`AttendanceClockProofs`.** Of the pure part: `NightWindow`, the operational days of an
overnight shift partition time, the window of a day being from after the end of the night
before to the end of its own night. `CloseCoversTheDay`: for overnight shifts and those
that end at 16:59 local or later, no tap of a day is later than its job's due time; so
the taps lost in `clock_bad_late` are those after a shift with an earlier end, or
those that are under way when the job becomes due. Both are consequences of integer
arithmetic (`LocalDayBounds`). `MatchIsTheFirst`: what `FirstMatch` answers is in the pool
and holds the point, and no entry before it does; none is answered only where no entry
holds the point.

Of the pipeline: `TypeCorrect`, `AnsweredAlwaysComplete`,
`DailyAlwaysExplained`, `FirstAlwaysKept` and `FlagAlwaysKept`, for any number of taps
that race with each other, with time, failures and the worker. `ClockInv` says of each
tap under way what has been done of it at its program counter (`UnderWay`: a log row
before the scan, the scan before the job), of each log row that its tap stands behind
it, and of each daily row that it is explained. What makes it inductive is `Onward`: a
tap keeps the type, time, day and location it was told; rows, logs, scans and jobs are
never taken back; so what held of one tap at its last step still holds at the next,
whatever happened in between, and each action needs to be looked at only for its own tap
(`OtherTap`) and its own day (`OtherDay`). A copy may be old in its times, but its
shift and its location are explained by something that stays. The worker writes the
least and the greatest time of the log rows of its day; `Bounded` carries that they
exist. The action properties are read off
from how each writer forms the row it stores (`RowsWritten`). Assumptions:
`RosterAssumption` and `ClockAssumption`.

**`AttendanceViewsProofs`.** `TypeCorrect`, `NothingIsForgotten`, `ViewsAlwaysAgree`,
`EarlyOutAlwaysIsEarly`, `TotalsAlwaysCoverCards` and `CyclesAlwaysHoldTheirDates`, for any
calendar, roster, rows, leaves and holidays. `ViewsInv` says of a view under way that each clock-in and each leave that has stood since it
was asked for is in the tables, and in what the view has found if that query is in
(`KnownIsKept`). A writer that adds leaves it (`ViewBeside`); one that erases, overwrites or
replaces shrinks what is still known by what it takes back (`ViewAmong`), so what remains
known was there whenever a query looked; and a `Read` that comes after finds it: no leave is
cut off by the bound, since there are no more leaves than it allows (`LeavesFound`, by
counting). The invariant also carries that the clock-out of a row was resolved to the day of
the row, in the table, in a log row, in a tap under way and in what a view has read
(`OwnTimes`, `TimesAreOfTheirDays`); from there `EarlyOutOfItsDay` gives the early-out: for a
clock-out made on the local date of its day it is the distance to the end of the shift on
that date. A worker that erases a time from a row has a log row of that day, so it leaves the
other (`LoggedTimes`). `TotalsAlwaysCoverCards`: the overview adds what is stored, or the time
between the taps where nothing is, and a card caps it. The sums, over the days of a window, are compared day by day (`SumMonotone`). `ViewsAlwaysAgree` compares the two classifications day by day
(`SameClasses`); leave is the sum of two counters because they are of disjoint sets.

`CyclesPartition`: for every calendar and every start day, a
date is in its own cycle, and each date of that cycle has the same one; so cycles
neither overlap nor leave gaps, month ends included. A start clamped to its month
stays in it (`StartBounds`), a date has one month (`MonthUnique`), and a date between
two successive starts has the earlier one's cycle (`CycleMonthUnique`).
Assumptions: `CalendarAssumption` (first days of months increase) and `ViewsAssumption`:
the dates are an interval which the months of the calendar cover, with one before and
one after; there are no more leave requests than `MAX_LEAVE_FETCH`, as the comment there
says; and of a row that was there at the start the clock-out is of its day.

**`DataTheorems`.** Sums over finite sets, for the theorems on totals. The folds of the
community modules are defined by a recursive function over all finite sets;
`SumOf` says the same, and the lemmas are what one expects of a sum (removal of an element,
monotonicity, parts, telescoping, exchange of two sums). The library's induction theorems
take an operator as a parameter, which the provers cannot instantiate, so induction is had
here from the theorem under them, that a well-founded relation has a minimal element in
every set: `SubsetInduction` is about a *set* of subsets instead of a predicate.

**`UserDirectoryProofs`.** `RowsAlwaysExplained`, `PasswordsAlwaysExplained` and
`SyncAlwaysKeeps` for any number of employees, calls and units. `DirectoryInv`, the
conjunction of the two invariants with `TypeOK` (`TypeCorrect`), is inductive; what makes it so is
in `TypeOK`: a unit or manager that a sync has looked up still exists, because
neither is ever removed, and a call that is about to write found its row. Steps
are of three kinds: those that change only a call (`CallStep`), those that answer
commit and store one row (`SuccessStep`, `StoreInv`), whatever their caller was told,
and the outside writers. `SyncAlwaysKeeps` follows from types and the form of `Synced`. `DeletedAlwaysQuiet`
needs `FoundAlive` besides: a PATCH or a DELETE that has reached its write had found its row
not deleted.
Assumption: `DirectoryAssumption` (requests are well typed, the marks for nothing are no values).

**`AccessGateProofs`.** `TypeCorrect`, `AlwaysJudgedByRecentList` and
`AnsweredAlwaysWasEntitled`, for any users, processes, calls, lists and times.
`AccessInv` follows a list on its way: a call that is about to store one has
queried it since the call began; a call lasts at most `MaxCall`, so an entry that
expires at `e` holds a list that was so at `e - TTL - MaxCall` or later
(`EntriesRecent`); a call that finds it unexpired began after that, which is `Oldest`. The
remembered past only grows, so what was so stays remembered (`CallInvGrows`). For the
second theorem the invariant also carries that the rows of reader and target were
read while the call was under way, which is the point: they need not have been so at
the same moment. The three lookups are one lemma (`PassInv`). Assumption: `AccessAssumption` (profiles, lists and times are well
typed, `Absent` is no user and no placeholder that was left unresolved).

**`EmployeeViewsProofs`.** For any tables, users, requests, windows, pages and replies, and
any number of writes between the queries. The properties speak of answers, and an answer is
put together from queries that ran at different moments; `ServedInv` is what holds before
that. For each stage that a calendar, a timeline or a report can be in, it says which queries
are over, and that each found what the tables held at one moment of `during`, of the peers
or members that the query before it had found. A write only adds a moment to `during`, so
what was found stays explained (`WritesServed`); a query adds one field and touches no other
(`FoundFields`), so all that is left to show of it is its own stage (`TeamLearns`,
`TimelineLearns`, `AnalysisLearns`). `CalendarsAlwaysHoldEveryAbsence` follows because a leave
that was approved throughout was so at the moment of the query, and a day is in the
clamped days of a leave exactly when it is in the leave and in the window (`DaysInTheWindow`).
`ReportAlwaysIsOfTheUnit` adds the arithmetic of the shares, for every reply that
`AnalysisAssumption` lets be one, which is every JSON under the three keys up to a finest
fraction (`Grain`): what is reported is what was given or two shares scaled and the rest
(`SharesOfAReply`); of numbers that are scaled, two are off by at most half a point, so that
the third, the rest to a hundred, is off by one at most (`SharesAddUp`).

The other views are covered by a second invariant, `LookInv`, written once for all of them:
each query that is over found what the tables held at one moment of `during` (`AsOf`), the
stages still to come are disjoint, those asked first come first (`Staged`: `reports`
after `page`, `manager` after `managerId`), and what was asked and is not to come is in the
view. `AnswerOfLook` is what an answered view knows by it. `AwayIsAlwaysToldByEveryView` rests on it: the query of
the status and that of the sheet each find the leaves of one moment (`OnLeaveIsAway`), those
that stood throughout among them; the status names one that no other began after
(`StatusOfToday`), and a gate is shut by an active leave and, where the card has no
restriction, by nothing else (`GateFollowsCard`, `GateOfToday`). Two theorems on totals rest on it
and on `DataTheorems`. `AvailableAlwaysLeavesRoom`: the pending days that were found lie between
those of the requests that were under way throughout and those that were so at some moment
(`SumOfFewer`), and what is available falls as they rise. `PatternAlwaysCountsEachDay` exchanges
the sum over months with the sum over leaves (`SumSwap`); the days of one leave up to the first
of a month are a function of the month, the overlap with a month is one step of it
(`OverlapIsAStep`), and the steps add up to the days of the leave in the year (`MonthsAddUp`,
`SumOfSteps`).

`ChartsAlwaysShowTheLine` is about two recursive functions and a count. `WaysDownAreWays`: the
rows of the recursive query are exactly the sequences of live users in which each reports to the
one before and none comes twice (`WaysOf`); `TeamIsEnds`: the team, which is built by levels, is
exactly the set of their ends, since a way that comes back to one of its own has the way there as
a beginning (`EndsGoOn`). Hence the map from a way to its end is onto the team, and
one to one unless the target is among the ends: from an end upwards each has one manager
(`OneWayToAnEnd`). For the page, the places of the reports in the alphabet are the numbers from
one to as many as there are (`PlacesAreCounted`), so that a page has as many as fit
(`PageOfReports`). That one moment only was seen is a cardinality, which means something of a
finite set only: hence `FiniteMoments`.

Assumptions: `LeaveViewsAssumption`, `EmployeeViewsAssumption` and `AnalysisAssumption` (rows,
windows, pages and replies are well typed, there are finitely many requests, the months of the
year begin in order, today is in the year), and `OrgViewsAssumption` (finitely many users, no two
of one place in the alphabet).

Only model-checked:

- liveness (`AnsweredInTimeIsSummarised`, `ManagersFound` of the syncs), which is outside
  the prover's reach;
- the violation runs, and what fails without the discipline of `SerialSpec`.

## Not modelled

- Authentication: login, refresh and logout rest on the token and hash libraries, which
  a model would only assume. Its race of two refreshes is listed as a hazard.
- What the views only format: profile and employment cards (`buildProfileHeader`,
  the grids of `viewEmploymentDetails()`), policy bodies, wire formats, colours; they turn
  one row into text and nothing depends on it. `getEnabledModules()` merges one row with
  the environment.
- UI translations: a constant table.
- The anti-fraud worker, HR administration, the balance job, payroll and workflow tables:
  no code in the repository. What they write is an external action where a model reads it.
- Wiring, migrations and seed; of the DTOs only what the models take as their inputs.

The component list in `PROJECT.json` has every part with its status, and `hazards`
every place that is hard to test with the properties that cover it, or the reason
why none does.

## Plan

1. `LeaveMachine`, `LeaveRequest` with proofs: done.
2. `UnitTree` with proofs: done.
3. `ShiftWindow`, `AttendanceClock` with proofs: done.
4. `UserDirectory` with proofs: done.
5. `AttendanceViews`, `PayCycle` with proofs: done.
6. `LeaveWorkflow`, implemented by `LeaveRequest!SerialSpec`, with proof: done.
7. `AccessGate` with proofs: done.
8. `LeaveViews`, `OrgViews`, `HealthAnalysis`, `EmployeeViews` with proofs: done.
9. `LeaveHistory`, a request with the version each call saw, implemented by
   `LeaveRequest!Spec` without the serial discipline.
