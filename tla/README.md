# A model of CDT Alive

CDT Alive keeps one preemptible ECS instance of an Alibaba Cloud account
running inside the start windows of a calendar, and stops instances when the
CDT traffic of the month reaches a cap or the balance of the account falls too
low. This directory models the Go service (`cmd/`, `internal/`) in TLA+: TLC
checks the models on small instances, TLAPS proves every invariant the passing
runs check, and their action properties, for every value of the constants that
satisfies the assumptions of the module. Three theorems have a further
hypothesis, named below: `ProtectionCompletes`, `EnvironmentStaysOut` and
`DecisionStaysCurrent`.

## The system

| Component | State | Operations |
| --- | --- | --- |
| Checks, `internal/app/service.go` | `last` (the published result), `nextRunAt`, `runMu`, `stateMu` | `RunOnce`: read traffic and balance, choose one of six reasons, act on the target or on the whole account, record, store and publish. `RefreshECSStatus`: record the state of the target only |
| Stop history, `service.go`, `internal/store` | rows `ecs_state`, `stop_events` | `recordInstanceState`, `RecordECSState`, `StopCounts` |
| Calendar, `service.go`, `internal/config` | none | `withinStartSchedule`, `NextStartScheduleBoundary`, `NextStartScheduleTime` |
| Scheduler, `internal/app/scheduler.go` | channels `wake` and `runNow` of capacity one; locals `nextRegular`, `nextBoundary`, `forceRun`, `runKind` | the loop `Run`; `Notify`, `RunImmediately` |
| Web server, `internal/web/server.go` | none | `POST /api/run`, `PUT /api/settings`, `POST /api/init`; reads |
| Store, `internal/store/store.go` | SQLite tables | one statement or one transaction each |
| Configuration, `internal/config/config.go` | the YAML file | `Load` (also migrates old files), `Init`, `SaveSettings` |
| Cloud client, `internal/aliyun/client.go` | the cloud | traffic, balance, `Instance`, `Instances`, `Start`, `Stop` |
| Process, `cmd/cdtalive/main.go` | | starts the goroutines, prunes once a day |
| Dashboard | samples | reads of all of the above, amounts spent |
| Python service, `app/*.py` | JSON files | the same service written for asyncio |

The scheduler is one goroutine, every request is another. They share the
published result (under `stateMu`), run checks one at a time (under `runMu`),
and talk through the two channels. A check reads and writes the store and the
cloud, which go on changing by themselves: instances become running or stopped,
are reclaimed, released or started by hand, and windows begin and end.

What is hard:

- **Interleaving.** `IsTransitioning` is read three times in one iteration, and
  a handler can publish in between; handlers publish before they notify;
  settings are saved while a check runs or waits. The channels keep one token.
- **Failure.** Every call may fail after it had its effect; the process may
  crash between two statements; one of several stops may fail.
- **Masking.** A status that contradicts the request just made is recorded as
  the transition; regular checks are suspended during a transition.
- **Deadlines.** A boundary, a regular check and a poll share one timer, and the
  boundary is recomputed in each iteration.
- **Calendar.** Windows cross midnight and the end of the week.

`PROJECT.json` lists these hazards by line, with the properties aimed at each.

## The modules

| Module | Models | Composes |
| --- | --- | --- |
| `CheckCycle` | checks, scheduler, handlers, cloud, crash | |
| `StopHistory` | what each record writes into `ecs_state` and `stop_events` | extends `CheckCycle` |
| `ScheduledStops` | which scheduled stops are counted already | extends `StopHistory` |
| `StartSchedule` | the calendar operators, and the calendar README.md promises | |
| `BoundaryTimer` | the clock and the deadlines of the scheduler | extends `StartSchedule` |
| `LegacySchedule` | the migration of stop windows, as operators | extends `StartSchedule` |
| `ConfigFile` | the file, its readers and writers | extends `LegacySchedule` |
| `PowerControl` | the abstract specification: one controller that takes one turn at a time | |
| `CheckRefinement` | the mapping under which `CheckCycle` implements `PowerControl` | extends `CheckCycle`, instantiates `PowerControl` |
| `Accounting` | samples, figures of the dashboard, maintenance | |
| `CheckCycleProofs` | theorems about `CheckCycle` | extends `CheckCycle` |
| `PowerControlProofs` | the refinement, and theorems about protection checks | extends `CheckRefinement`, `CheckCycleProofs` |
| `StopHistoryProofs` | theorems about `StopHistory` | extends `StopHistory`, `PowerControlProofs` |
| `NumberFacts` | lemmas: least numbers, division, products, folds | |
| `StartScheduleProofs` | theorems about the calendar | extends `StartSchedule`, `NumberFacts` |
| `BoundaryTimerProofs` | theorems about the deadlines | extends `BoundaryTimer`, `StartScheduleProofs` |
| `AccountingProofs` | theorems about the figures | extends `Accounting`, `NumberFacts` |
| `ConfigFileProofs` | theorems about the migration and the file | extends `ConfigFile`, `StartScheduleProofs` |
| `MC*` | the small instances | |

`CheckCycle` and `BoundaryTimer` look at the same loop from two sides: the first
keeps every interleaving and forgets how long things take, the second keeps the
clock and makes a check one step.

### CheckCycle

Every goroutine has a place `pc[c]` and the locals of its check, `job[c]`. One
action stands for one call another goroutine or the cloud can get between:

| Action | Code |
| --- | --- |
| `BeginRun` | `RunOnce` from `runMu.Lock()` to the loop over the instances; `BeginFails` its early returns |
| `Look`, `Request`, `AnswerLost`, `CallFails` | `start` and `stop`: `Instance`, then `Start` or `Stop`, or an error |
| `BeginRefresh` | `RefreshECSStatus` up to the record |
| `Record`, `SaveLastResult`, `Publish` | `recordInstanceState`, the row `last_result`, `setLast` and the deferred unlock |
| `Top`, `SetUninitialized`, `Initialized`, `Recheck`, `Handle`, `Plan`, `Woken`, `RunRequested`, `Timer` | an iteration of `Scheduler.Run` and its selects |
| `RunRequest`, `RunReply`, `SaveSettings`, `Signal`, `Initialize`, `Notify` | the three writing handlers, split where they publish and then signal |
| `CloudProgress`, `NoStock`, `Reclaim`, `Release`, `OwnerStarts`, `WindowMoves`, `BoundaryPasses`, `RegularPasses`, `Crash` | the environment |

`BeginRun` reads configuration, traffic, balance, calendar and instance list in
one step, at the lock. The calls it merges write only rows that no other step
reads until the mutex is free, and a check that reads later than another event
is a check that begins later; a failure among them is `BeginFails`, with
or without the metrics row. `Instances` returns the released-free part of the
constant `Listed`. The values of traffic and balance are reduced to "over the
cap" and "low". The set `Faults` switches on what may go wrong, so that a run
can take the faults its question is about.

`unseen` is a history variable: settings were saved that no full check has read.

### PowerControl, CheckRefinement

`PowerControl` is what the service promises, without goroutines, channels or
locks. Its state is the cloud, the stored traffic, the stored and the published
result, and at most one turn:

| Action | Promise |
| --- | --- |
| `Decide` | a full check begins with a reason; a start only with the traffic it has just stored under the cap, over it only a protection |
| `Follow` | a quick check begins and takes over the published reason |
| `Sample` | a check that ends early has at most stored the traffic |
| `Deal` | the turn deals with one instance, and changes it only in the direction of its reason |
| `Lose`, `GiveUp` | the answer is lost; the turn ends with an error and publishes nothing |
| `Save`, `Show` | the result is stored, then published, once every instance the reason is about is dealt with or gone |
| `Excuse` | the scheduler replaces the published result by an error without a reason |
| `Restart`, `Outside` | the process restarts with an empty memory; the cloud goes on by itself |

`Turn` of `CheckRefinement` reads the turn off the holder of `runMu`: its kind,
its reason, the instances it has dealt with, and whether it has stored its
result. Everything the loop and the handlers do besides is a stutter. Two turns at
a time have no image, so the refinement is where mutual exclusion, the order of
storing and publishing and the completeness of a protection meet.

### StopHistory

A step `Record` of `CheckCycle` becomes `RecordECSState`, which also computes the
row and the event. The history variable `cause` says whether the target is down by a
stop of the service: `asked` until the check that asked for it has recorded it, `service`
from then on. It is `none` for what the cloud and the owner do, and for a stop
whose own check ended with an error before its record, as the service then keeps
no trace of it. `ScheduledStops` adds `counted`: a scheduled stop was inserted, and
since then the target has not been up and the instance has not left the windows again.

### StartSchedule, BoundaryTimer

An instant is a number of ticks since a Sunday midnight. The operators carry the
names of the functions they model. `Covered` and `Edge` are the reference: a
window of the day it begins on lasts from its start up to its end. Days all have
the same length, so changes to daylight saving time are not modelled (the
default time zone has none).

`BoundaryTimer` runs the loop over that clock. A check takes a number of ticks
from `Spans`, may fail, and may leave a transition; handlers act at any instant,
and a check a handler runs takes no time of its own: to the loop it is the instant
at which its transition is published. The process starts at one of `Starts`.
The clock does not advance past a timer or a token, and does not advance while
the loop computes: the loop is prompt compared with the deadlines, which are
seconds to minutes apart. Three history variables are about the rules in force:
`lastFull` is the instant the last full check looked at, `decided` what it was
told, `planned` the instant the loop last computed its deadlines. A failed check
unsets `lastFull`, and rules that are replaced unset it with `planned`.

### LegacySchedule, ConfigFile

`migrateStopSchedules` and its helpers are operators with the names of the
functions: the stop intervals of a weekday, merged, complemented, and grouped by
equal windows. `IsComplement` is the reference, by instants of a whole week.

In `ConfigFile` the goroutines that call into the package share only the file:

| Action | Code |
| --- | --- |
| `Load`, `ReadRaw` | a `Load` that migrates, up to its second read of the file in `persistMigratedStartSchedules`; a `Load` that does not changes nothing |
| `SaveSettings`, `InitConfig` | up to `write` |
| `Truncate`, `Put` | the two halves of `os.WriteFile` |
| `Crash` | the process restarts, the file stays as it is |

A read of the file is one step. When two writers write, the longer text keeps
its tail: the file is then `garbled`, and calls fail on it. Of the settings the
model keeps what the properties need: whether there are keys, the power mode,
the old stop windows, and the schedules or their absence. `saved` remembers what
the last `Init` or `SaveSettings` that ended wrote.

### Accounting

A check stores its balance and its traffic with the instant it took `runMu`, in
two statements, and may end between them; a prune deletes old rows at the start
of the process and once a day; the meters outside move with the clock, and the
traffic counter restarts with the month. `TodayTraffic`, `spentSince`,
`StopCounts` and `PreviousMonthStart` carry the names of the functions they
model, `Baseline` and `Spent24` stand for the loop in `Dashboard`.

| Action | Code |
| --- | --- |
| `BeginCheck`, `AddBalance`, `AddTraffic`, `Record`, `CheckFails` | the statements of `RunOnce` and `RefreshECSStatus` that insert rows, and the errors between them |
| `Prune` in `dailyMaintenance` and `Start` | `Store.Prune`, which must succeed for the process to start and may fail later |
| `ReadResult`, `ReadSamples`, `Answer` | `Dashboard` |
| `Tick`, `Crash` | the clock with the meters; the process ends, for any time |

The tables are ordered by time, so what is older than an instant is the beginning
of a table and what is not is its end; `TypeOK` says so, and it is proved.
A row also carries two history fields, what was really spent and paid in since
the row before. `CheckCycle` says which checks run and `StopHistory` which stops
are events; here both are free. `Scenes` lists what may happen in a behaviour.
Amounts are whole numbers: the rounding to four and two decimals is left out. So
is an answer without an amount, which the client takes for a balance of 0
(client.go:89): such a sample adds the whole balance to what the month spent.

## The runs

`Web` are the request goroutines, `Faults` what may go wrong.

| Run | Instance | Shows |
| --- | --- | --- |
| `check_requests` | two requests, mode `on`, traffic over, crashes | `TypeOK`, `IInv`, `StartUnderThreshold`, `PersistedIsPublished`, `NoLostPoll`, `SettingsNotForgotten`, `RefreshKeepsReason` |
| `check_protect` | the scheduler alone, two instances, both protections, all eight faults | `ProtectionIsComplete`, `ImplementsPowerControl` |
| `check_live` | one request, mode `auto`, fairness | `ImplementsPowerControl`, `SettingsApplied`, `TransitionResolves` |
| `stops` | mode `off`, reclaims, errors | `StopTypeOK`, `StopInv`, `UnexpectedOnlyOutside` |
| `timer` | three calendars, a Saturday morning to a Sunday evening; slow checks, failing checks, transitions, an unreadable configuration | `TypeOK`, `BoundaryIsChecked`, `DecisionIsCurrent`, `NextStartIsFirst`, `IntervalIsKept` |
| `accounting` | traffic, money, stops, crashes, or requests with failing checks; days of two ticks, two months of three days and the first day of a third | `TypeOK`, `DaysAddUp`, `MonthSpentIsReal`, `DaySpentIsRecent`, `RowsAreBounded`, `ShownIsNoOlder`, `PruneInvisible` |
| `config_file` | two goroutines, about fifty older files, five environments, crashes | `TypeOK`, `SavedIsKept`, `EnvironmentNotPersisted`, `MigrationIsComplement` |

Two requests are enough for a handler to get between the lock, the
publication and the notification of another and of the scheduler; two instances
are enough for one stop of a protection check to fail after another succeeded.
`check_requests` has the interleavings and few faults, `check_protect` every
fault and no request, and the refinement is checked on both sides of that line,
in `check_live` and `check_protect`: no fault interacts with a request except through the
variables both share, and the theorems below hold for any sets of both. The days of
`BoundaryTimer` have four minutes of two ticks, so that a clock can lie on a
boundary, in the delay after it and between two; `Starts` and
`Horizon` bound the clock to the end of a week, from a Saturday morning to a
Sunday evening: both midnights the operators treat apart, starts and ends of every
calendar, and more than two of the configured intervals. A check takes no tick or one, so
that it ends before, at or after an edge, and the rules change at any instant.
The older files of `config_file` have days of four minutes, so that two
stop windows can nest, touch, overlap or cross midnight; two goroutines are
enough for one to read or write inside the write of the other.

`accounting` needs a month with a month before it that is pruned: two months
of three days and the first of a third, cut off when that day has ended.
Three rows are a baseline, a sample and the latest; three moves of the meters
are a spending, a refill and a spending. At most one full check stores its
balance in a tick, and the scene with stops has quick checks only. The
precondition of `PruneInvisible`, a sample of the month before that is not of its
first two days, is what a service that ran in that month has.

**Fairness** (`FairSpec`). A goroutine that can run does (`WF` of `Loop` and
of `Check`). A check that waits for `runMu` gets it if the mutex is free
again and again (`SF`): a Go mutex passes to starvation mode and is handed to
the waiter. A `select` chooses among ready cases at random, so a token that is
ready again and again is taken (`SF` of `RunRequested`). A transition in the cloud
ends, time passes. Nothing is assumed of requests, boundaries, faults or the
owner, so `TransitionResolves` is stated for a time after which no boundary and no
request comes: with them the service may go on making new transitions.

### What the code does not do

Five runs show a disagreement between the code and a document; `findings` in
`PROJECT.json` quotes each line.

| Run | Shows |
| --- | --- |
| `check_live_stock` | a start that ends without an instance is masked as `Starting`, regular checks stay suspended, nobody tries again before the next boundary or request |
| `stops_twice` | a check with another reason between two outside the windows makes the same scheduled stop count twice |
| `timer_missed` | an edge that comes while a check runs is replaced by the next (scheduler.go:89), and no check is made at it |
| `timer_saturday` | a window across the midnight after Saturday ends at midnight |
| `config_lost` | a call that reads the file inside the write of another takes it for an empty one and writes it back without the keys |

Others are visible in the code without a run. A `PUT /api/settings` without schedules saves
those in effect, the environment's included (server.go:96), and a migration saves
schedules computed with the weekdays of the environment (config.go:124).
`Instances` asks for one page of 100 instances in one region, so a protection
check stops what is listed, which need not be the whole account of README.md:53;
`check_protect` takes `Listed` to be all of them. A failed `POST /api/run` does not become the published status (README.md:280).

A failed check of the scheduler is published by `SetFailure` after `runMu` is free
(scheduler.go:74): it may replace what a request published in between, its
transition included, and polling ends. On a day after a first of the month without
a reading, the traffic of the day is measured from the last reading of the month
before and shows as 0, where store.go:125 promises to count from zero; `DaysAddUp`
is stated for months whose first day has a reading.

One thing no document contradicts: a reclaim that a check repairs at once is
recorded as `Starting` (service.go:468), so it is not counted as an unexpected
stop; README.md:226 does not say that every one is.

`BoundaryIsChecked` and `DecisionIsCurrent` say what is left of README.md:232 with
slow and failing checks. The loop looks only ahead: it never sleeps past the
delay of an edge that lay ahead when it planned, and when it wakes after that
delay it runs a full check. An edge that came before it planned, during a check or
in the delay of one whose wake was early, is the edge of `timer_missed`, and
`DecisionIsCurrent` excuses a decision that is older than such an edge, until the
next full check. A check that fails leaves no decision to speak of. Windows across
the midnight after Saturday are left to `timer_saturday`.

`IntervalIsKept` is stated for the loop asleep, once a regular check has run and
while no transition is polled. Before the first one `nextRegular` is the zero
time, and a transition a request leaves before the first iteration of the loop
would let it sleep until the next boundary.

## The proofs

`CheckCycleProofs` proves for any sets of requests, instances, modes, listed
instances and faults, from the four named assumptions of `CheckCycle`:

| Theorem | States |
| --- | --- |
| `TypeCorrect` | `Spec => []TypeOK` |
| `MutualExclusion` | `Spec => []Mutex` |
| `TransitionIsPolled` | `Spec => []NoLostPoll` |
| `SettingsAreKept` | `Spec => []SettingsNotForgotten` |
| `StartsUnderThreshold` | `Spec => []StartUnderThreshold` |
| `MemoryIsStored` | `Spec => []PersistedIsPublished` |
| `QuickChecksKeepReason` | `Spec => RefreshKeepsReason` |

`PowerControlProofs` adds, under the same assumptions:

| Theorem | States |
| --- | --- |
| `ChecksCover` | `Spec => []Covering` |
| `ProtectionCompletes` | `Spec => []ProtectionIsComplete`, if `Listed = Instance` |
| `StrengtheningHolds` | `Spec => []IInv` |
| `ServiceIsSerial` | `Spec => ImplementsPowerControl` |

`StopHistoryProofs`, for the same constants:

| Theorem | States |
| --- | --- |
| `StopTypeCorrect` | `StopSpec => []StopTypeOK` |
| `ReasonsSurvive` | `StopSpec => []StopInv` |
| `OwnStopsAreExpected` | `StopSpec => UnexpectedOnlyOutside` |

`StartScheduleProofs`, about the operators, for days of any length, any set of
rules and any instant:

| Theorem | States |
| --- | --- |
| `NextStartIsRight` | `NextStartScheduleTime` is the first instant ahead at which a window begins |
| `NextBoundaryIsRight` | `NextStartScheduleBoundary` is the first `Edge` ahead |
| `WithinIsCovered` | `withinStartSchedule` implies `Covered`, and is the same under `NoSaturdayNight` |
| `CoveredChangesAtEdges` | between two instants that differ in `Covered` lies an `Edge` |

`BoundaryTimerProofs`, for any calendars, delays, intervals, durations and horizon:

| Theorem | States |
| --- | --- |
| `TimerTypeCorrect` | `Spec => []TypeOK` |
| `ShownStartIsFirst` | `Spec => []NextStartIsFirst` |
| `IntervalKept` | `Spec => []IntervalIsKept` |
| `BoundariesAreChecked` | `Spec => BoundaryIsChecked` |
| `DecisionStaysCurrent` | `Spec => []DecisionIsCurrent`, if every calendar satisfies `NoSaturdayNight` |

`AccountingProofs`, for any lengths of days, months and tables, and any scenes:

| Theorem | States |
| --- | --- |
| `FiguresTypeCorrect` | `Spec => []TypeOK`: the tables stay ordered, no figure is negative |
| `TablesAreBounded` | `Spec => []RowsAreBounded` |
| `PagesAreConsistent` | `Spec => []ShownIsNoOlder` |
| `MonthIsReal`, `DayIsRecent` | `Spec => []MonthSpentIsReal`, `Spec => []DaySpentIsRecent` |
| `DaysMakeTheMonth` | `Spec => []DaysAddUp` |
| `PrunesAreInvisible` | `Spec => PruneInvisible` |

and `ConfigFileProofs`, for any goroutines, older files, schedules and environments:

| Theorem | States |
| --- | --- |
| `MigrationIsRight` | any stop windows are migrated to rules that cover exactly the instants they left |
| `ConfigTypeCorrect` | `Spec => []TypeOK` |
| `MigrationsAreComplements` | `Spec => []MigrationIsComplement` |
| `EnvironmentStaysOut` | `Spec => []EnvironmentNotPersisted`, if `EnvMode # "auto"` |
| `SavedSettingsAreKept` | `Spec => []SavedIsKept` |

The assumptions are the named `ASSUME`s of each module: that the lengths are
positive numbers, that the sets have members of the right kind.

The line of argument for the checks: every step that a check makes leaves the loop and the
channels alone (`CheckLocals`), every step of the loop and of a handler leaves
the rows alone. `Mutex` says that the goroutines between their lock and unlock
are the one holder of `runMu`. From it follow `StartUnderThreshold` (only the
holder writes metrics, and a start is chosen in the step that writes them),
`Stored` (only the holder of the mutex saves and publishes, in that order;
`PersistedIsPublished` itself is not inductive, as it does not say what lies
between the two) and `QuickReason` (nobody publishes while a quick check carries
its copy). The end of a check returns the loop to `Plan`; `NoLostPoll` needs
that only a handler's check can publish while the loop sleeps.
`SettingsNotForgotten` needs `SettingsKept`: a regular check that already read
the settings must not be the one that is due for them. TLC checks the conjunction,
`IInv`, in `check_requests`.

`ProtectionIsComplete` speaks of the moment a check reports; `Covering` carries it
there: each instance of the `Scope` of a reason is still to do, is dealt with, or is
released, from the step that reads the list on. `Listed = Instance` is the
assumption that the one page `DescribeInstances` returns is the account.

The refinement has one lemma per action of `CheckCycle`, each naming the step of
`PowerControl` it is or that it is a stutter. It needs `Mutex` (a step of a check
is a step of the holder, so no turn changes behind another's back), `StartUnderThreshold`
(the traffic a start was decided on is still the stored one), `Stored` (what `Publish`
publishes is what was saved), `QuickReason` and `Covering`.

`UnexpectedOnlyOutside` speaks of the step that writes the event and is not
inductive. `StopInv` adds what the event is computed from. A check knows its
reason from the step that takes the mutex on, and a quick check follows a result
that has one (`ReasonKnown`). A quick check carries the published status, and only
a check that starts the target carries one in which it runs (`StatusCarried`). A
stop that was asked for belongs to a check on its way to the record (`StopOwned`):
with `Mutex` it is the only one, so no other reason can get before its record. A
check that starts the target gets to its record only with a target that is up or was
stopped by somebody else; its published start, and the quick checks that carry it,
record `Starting`, or find a row that shows the stop already, or a target that is
gone (`Harmless`), so that none of them makes a new stop of an old one
(`StartNotBlamed`).

The calendar works on days and minutes of the day, its reference on instants;
quotients and remainders lead from one to the other. That a week ahead is enough
is not an induction: an instant k weeks later is moved back by 7k days. A
window that covers an instant began on its day or the day before, which is what
`withinStartSchedule` asks, with the wrong weekday for the day before a Sunday:
hence `NoSaturdayNight`.

For the interval, whatever the loop sleeps for ends by `nextRegular`, and that
is at most `LongestInterval` after the last regular check: `Plan` takes
the earliest of the deadlines, and only a check moves `nextRegular`. For the
boundaries, `EdgesKnown` says that the boundary deadline is no later than the delay
of any edge after the last planning, if that was for the rules in force (`planned` is
set); `SleepsToEdge` that the timer is no later than that deadline;
and `DecidedByRules` that the last decision is what the rules say of its instant.
Together they give `BoundaryIsChecked`. Between edges the rules do not change
(`CoveredChangesAtEdges`), so a decision with no edge since is still current, and an
edge since is either one the loop had ahead, and it is no further past it than the
delay, or one of the two exceptions.

The figures of the dashboard are totals over the ends of tables. A total is the
last of its partial sums (`TotalIs`), which turns a statement about a fold into
one about neighbouring rows. `CheckIsLatest` (a check stores rows no earlier
than the last one) makes the tables ordered; `PrunedInTime` bounds what a table
may hold by the time of the next prune; `ResultsAreBacked` says that the rows a
published result came from are stored, or it is too old for the page;
`MoneyFlows` that from one sample to the next the balance falls by what was paid
and rises by what was refilled, so that the falls the dashboard adds up are
payments; `ReadingsRise` that the readings of a month rise up to the counter, so
that the differences of the days telescope. A prune deletes a beginning of the
table, and the baseline of an amount, the last row before the period, is never in it.

The migration is a chain of lemmas, each about the minutes a list of intervals holds:
the intervals of a weekday can be ordered by their starts (`InOrderIs`), merging
keeps the minutes and the order (`MergeIs`), complementing an ordered list leaves
exactly the other minutes of the day (`ComplementIs`: every window so far ends
before the next stop begins). The rules group the days of equal windows, and both
sides are compared day by day and minute by minute (`CoveredIs`).

For the configuration file, `Own` says that a content has no key and no mode of the
environment's, of the file and of what every goroutine is about to write; "auto" is
what a file without a mode has, hence the assumption. `Alone` says what holds as
long as no calls overlapped: one goroutine is inside a call, what it is about to
write is complete, and a migration runs only before anything was saved.

The prover has no induction. A statement about all numbers is proved by the least
number for which it fails (`LeastNat`, from the well-foundedness of `<`), and a
fold by the steps of the function that computes it: one exists for any number of
terms (`FoldExists`), and its values on the first k indices follow one from the other.

Only model-checked: `SettingsApplied` and `TransitionResolves`. Liveness under
fairness stays with TLC, as the prover has no rule for `ENABLED`. The five
runs that expect a violation refute statements, so there is nothing to prove.

## Not modelled

- The running time of the instance and the timestamps in `ecs_state`; what the
  dashboard shows for `scheduled_stop_active`; its reads of the metrics and of the
  configuration beside those of the result and the samples.
- In the configuration: the amounts, the interval, what a failed write leaves, a
  `garbled` text that still parses.
- Months and days of different lengths, changes to daylight saving time.
- Parsing of the answers of the cloud, log lines, pages, the orderly shutdown.
- The Python service, which keeps its samples and its state in JSON files.

## Plan

1. `PyScheduler`: the asyncio loop with its events, where it differs from the Go
   one. Its checks run to their end on one event loop, so only the waits of the loop
   interleave with the handlers.
2. The timestamps and the running time of `ecs_state` in `StopHistory`.
