# Verification of the Enphase Energy integration

This directory holds TLA+ models of the Home Assistant integration in
`src/custom_components/enphase_ev`, TLC configurations that check them on small
instances, and proofs of their main properties for every instance. Paths
without a directory are below `src/custom_components/enphase_ev`. `PROJECT.json`
maps every definition to the lines it models and lists components, runs,
mutants, hazards, theorems and findings.

The program is a Python asyncio application: one event loop, many coroutines.
Between two awaits nothing else runs, so in every model **one action is what
the code does between two awaits**, and everything that can interleave does so
at the awaits: other callers, timers, cloud answers, cancellation, unload.
The cloud is slow, loses answers, answers late and reports stale state; most of
the program's care goes into deciding which answer may still be believed.

## 1. Inventory

### Modelled

| Component | State | Operations | Who it meets | What is hard | What makes it correct |
|---|---|---|---|---|---|
| Control updates (command tracker), `control_updates.py` | open updates by control and charger, holders, shown values, read tokens, timers | begin, finish, observe, expire, hold, set requested, invalidate, cancel group, prune, cleanup | every command of entities and services; every read of the cloud | reads that overlap commands; commands that end after they were cancelled or replaced; controls sharing one cloud payload | one open command per group; evidence only from reads newer than the command; a confirmation is final; pending always ends |
| Control readback contracts, `control_values.py` (partly) | none | which controls a payload reports, how values compare | the tracker | matching of collections | data |
| Export limit, `export_limit_runtime.py`, `api_client/export_limit_surface.py` | the pending request in memory and in the Store, snapshot, repair issue, poll task | load, refresh, apply, poll, stop, reload | Store, cloud, repair issues, options | writes that are never replayed and may be carried out late; crashes between storing and sending; cancelled or failing saves | an open write is always stored and known; only a later read confirms it |
| Charger energy, `evse_timeseries.py` | caches, backoff, generation, acquisition records | refresh, request, answer, failure, prune, stop | coordinator refresh, forced reads, inventory | callers share a request without a task of its own; cancelled owners; answers of an older generation | attempts are shared; retired chargers stay away; no deadline is broken; every call returns |
| Charger commands, `evse_runtime.py` | command token and lock, stored restart, desired state | start, stop, restart for a new current, automatic resume, poll, prune, retire | user, number entity, telemetry, live stream | commands queue behind each other, retry and are replaced while they wait; telemetry is older than the last command | only the newest intent is sent and recorded; a Stop holds |
| Authentication refresh, `auth_refresh_runtime.py` and the coordinator's authentication state | streak of rejections, cooldowns, suspension, block, the shared login task | automatic and manual attempt, the login's outcomes, login wall, forgiveness by a successful refresh | API client (401), user, config entry, refresh pipeline | shared shielded task, lazily cleared deadlines, reload during a suspension | no automatic login under a bar; bars survive a reload; streak and bars agree |
| Battery profile, `battery_runtime.py`, `battery_profile_mismatch.py` (profile and reserve) | pending request, optimistic profile, generation of reads, write lock, reported disagreement, restore task | reads of three endpoints, writes, nudge and restore, two repair dialogues, ageing, unload | user, hardware, repairs, coordinator | reads under way across an accepted write; a delayed restore; a dialogue that acts on a disagreement that has ended | only later reads confirm; writers exclude each other; what is settled is not reverted |
| Schedule sync, `schedule_sync.py` | lifecycle generation, three kinds of locks, slot cache, delayed reads | start, stop, disable, unload, reads for four reasons, toggle, save, delete, replace | option listener, services, switches, coordinator, the mobile app | start, stop and disable against reads and edits in flight; reads that do not show an accepted edit yet; locks held while all of Home Assistant is waited for | an accepted edit gives way only to a read sent after it; an unloaded sync is quiet; the cache catches up |
| Chargers' summary and lifetime guard, `summary.py`, `energy.py` | shared cache, its two lifetimes, backoff, revisions; per charger the accepted total and a suspected reset | warmup, refresh, fetch, invalidate, stop; hold, confirm | warmup task, refresh pipeline, cloud | one answer shared by callers must not confirm itself | a reset needs two answers; a reset for good is accepted |
| Charger status refresh and health, `coordinator.py`, `evse_status_health.py` | published status and cache, counts of failures and of empty lists, repair issues, backoff, cooldown with its Store | ask, each kind of answer, restore, failure, success, timers, reload, crash | scheduler, Store, inventory, repairs | an answer's consequences are spread over the refresh; a deadline that outlives the process; a save that outlives its runtime; a Store that cannot be read | an outage the runtime knows of ends with fresh data; a deadline it knows of is kept; trouble ends |

The command tracker sits above the others: `tracked_control` wraps the export
limit's apply, the battery writes and the charger commands, and
`control_readback` wraps the reads. A command that its component gives up ends
as failed in the tracker; that interface is the action `Finish`. The
coordinator's refresh drives the readers: each of them is called by it, and by
users besides.

### Not modelled

| Component | Why |
|---|---|
| The rest of the refresh pipeline: endpoint families (`endpoint_policies.py`, `refresh_runner.py`), follow-ups of the first refresh | each family's health is one deadline without a protocol; the models that read such an endpoint leave open when it may be read |
| Lifecycle (`__init__.py`, `reload_snapshot.py`, `discovery_snapshot.py`) | what the modelled runtimes meet of it (stop, reload, shared Store, handed-over status) are actions of their modules; the rest is set-up of platforms |
| Battery settings and schedules (the rest of `battery_runtime.py`) | writes of the same form as the profile's under the tracker; parsing of nested payloads |
| Site energy (the rest of `energy.py`), session history, live stream, charge modes | a cache with one flight as the chargers' summary, with other data; queues of look-ups |
| Tariff (`tariff.py`) | merges acknowledged writes field by field into later reads: the content is nested payloads, the commands go through the tracker |
| Installer grid profile (`grid_profile_runtime.py`) | one write with a bounded loop of reads under a lock of its own |
| Inventory and heat pump | normalisation of payloads; caches with one lifetime each; the persisted cooldown is one deadline |
| VPP and gateway software, system events | read-only caches without writes |
| Cloud API client | requests and parsing; what its callers rely on (an answer, an error, a timeout, none yet) is an outcome in every model |
| Entity platforms, flows and services, migrations, diagnostics, scripts | views, dialogues, one-off conversions, tooling |

The greedy comparison of collections (`_collection_matches`,
`control_values.py:352`), a pure algorithm, is not modelled either: it can miss
a perfect matching when an item without an identifier takes the counterpart of
one that has no other.

## 2. Modules

| Module | Role |
|---|---|
| `ControlUpdates`, `ControlPromise`, `ControlUpdatesProofs`, `MCControlUpdates` | the command tracker, what it promises its users, and that it keeps the promise |
| `ExportLimit`, `ExportLimitProofs`, `MCExportLimit` | the export limit with Store, reload and crash |
| `EvseTimeseries`, `EvseTimeseriesProofs`, `MCEvseTimeseries` | shared acquisition of the charger energy |
| `ChargingCommands`, `ChargingCommandsProofs`, `MCChargingCommands` | commands of one charger |
| `AuthRefresh`, `RefreshProofs`, `MCAuthRefresh` | renewal of the session |
| `BatteryProfile`, `BatteryProfileProofs` | profile and reserve of the battery |
| `ScheduleSync`, `ScheduleMirror`, `ScheduleSyncProofs`, `MCScheduleSync` | the mirror of a charger's schedule, what it promises, and that it keeps the promise |
| `LifetimeSummary`, `LifetimeSummaryProofs`, `MCLifetimeSummary` | the shared summary composed with the guard of the totals |
| `StatusState`, `StatusRefresh`, `RefreshProofs` | the status refresh composed with the health of its endpoint: what is kept and promised, the steps |

The `MC` modules only name model values and small sets; `BatteryProfile` and
`StatusRefresh` need none. A definition marked "Mutant of ..." is a plausible
bug in the definition after it; it is not part of the specification, and the
named property must fail when it takes that definition's place.

### ControlUpdates and ControlPromise

An update object is an identity in `UpdateIds` (`0` is None); `updates`, `held`
and `values` are the dictionaries of `ControlUpdateRuntime`. A payload is a
partial function of a few fields. The object identity of `read_token` is the
pair of update and `version`; `invalidate_observations` makes a new version.
`StartRead` is `read_tokens`, `EndRead` is `observe` with the report of the
whole read. `Begin` is the entry of `tracked_control` with its guards
(`Unresolved`, `GroupBusy`) and the snapshot of the optimistic value. `Finish`
is its `finally`; `Expire` the 600 s timer. `fresh` and `tainted` are history:
which updates a read is new enough for, and which have been given evidence of a
read that is not. `Families` are the controls one endpoint reports on: a read
reports on those of one family.

`ControlPromise` is what entities and services rely on, without tokens, timers,
holders and coroutines: a command (its status, whether it is still being sent,
whether what it asked for has been read), each control's current command, the
command whose outcome it shows (`owner`), the value shown, and for each read the
commands it can tell of (`asked`). It starts a command only where none of its
group is open, lets a read bear only on what it can tell of, and moves no value
that is frozen. `Promise` in `ControlUpdates` is the mapping: `Standing` gives an
update as its users see it, `Owner` the one that answers for a control, and
`fresh` is `asked`: the code has no such record, and must do with tokens.
`Begin` maps to `Start`, `Finish` to `End`, `Expire` to `GiveUp`,
`SetRequested` and `Acknowledge` to `Change`, `StartRead` to `Ask`, `EndRead` to
`Answer`, `CancelGroup` to `Withdraw`, `Prune` and `Cleanup` to `Forget`; what
returns or fires too late is a stutter.

### ExportLimit

`pc` of a caller names the await it is at: `load`, `auth`, `read` (request on
its way), `answer` (served, not yet received), `confirm` (saving a match),
`form`, `record` (saving the request), `write`, `withdraw`, `reject`. The time a
read is *served* is separate from the time its answer is used, and a write may
be carried out any time after it was sent (`CarryOut`), so late and lost answers
and late writes are all there. `disk` is the Store: an interrupted save may or
may not have happened (`Interrupted`). Each load has its own runtime object, and
a service call keeps the one it began with. `aged` abstracts the age of a
request; `wish` what each asks for. Left out: `async_prepare`, which changes
only the shown snapshot, the lengths of the polling delays, and a read of the
Store that raises: it ends a service call as a cancellation at `load` does, and
the background task until the entry is loaded again, which the two liveness
properties leave aside.

### EvseTimeseries

A key is an endpoint family with a day. `Skip` and `Request` are the two things
a caller does with the next key of its list once it can have the lock:
use what is there, or ask. `Answer` and `Fail` end a request; a request of an
older generation changes nothing (`Late`). `Cancel` is cancellation at any
await, the `finally` clauses included. Time is a small clock, since caches and
backoffs compare instants. Left out: the merge into charger data.

### ChargingCommands

A process is the current task: a user's Start or Stop, a setter of the charging
current, a restart task, or the automatic resume. `Enter` takes the lock, which
counts as free between its release and the step of the woken waiter, as
`asyncio.Lock` has it. `Serve` is the cloud carrying a request out and the
answer; `NotReady` and `Fail` the error paths, `MayRetry` the retry without a
charge level; `Streaming` and `Settle` the awaits after it. `Abandon` is
cancellation by the caller. `Capture` and `Apply` are the number entity before
and after its refresh. `latest` and `halted` are history. The charger
itself is no variable: `telemetry` may show any state at any `Poll`, which
includes old ones. Left out: the 120 s limit between automatic resumes, and
charge modes (their awaits are part of `settle`).

### AuthRefresh

`state` has the fields of `AuthRefreshState` that decide anything; a deadline is
`none`, `running` or `over`, where *over* means that it has passed and nobody
has looked at it. Looking at it (`NoticeBlock`, `NoticeSuspension`, ...) clears
it and, for the suspension, the streak. `entry` is what the config entry keeps;
`Become` persists with every change. The streak is capped at the threshold,
since it is only compared with it, or with an earlier value while nothing is
suspended. `sentence` is history: the bars the provider's answers have put up,
which end with their time or a successful login. Left out: the counters, the
repair issues, the heat pump service's own circuit (the input `hems`), and the
looks diagnostics take at the deadlines.

### BatteryProfile

A caller is the user (the tracker lets one command of the group submit at a
time), the repair's dialogue, or the restore task; `call` says which write it is
about to make and at which await. `Send` and `Accepted` are the two ends of a
write under `_battery_profile_write_lock`; acceptance records the pending
request and begins a generation. `ReadProfile`, `ReadSettings` and `ReadStatus`
end a read with the generation it noted at its start; which endpoint a read is
for is decided when it is answered, which covers every order. `Wake` is the
restore task after its delay, `SyncIssue` the repair issue's update. Ages are
flags that time may set. The savings profiles' sub-type is read, compared and
restored wherever the reserve is, and is left out; the debounce is part of the
writes' being allowed or not.

### ScheduleSync and ScheduleMirror

Three kinds of locks: the lifecycle's (`lifecycle`, `waiting`), the readers'
(`lock`), the charger's (`mutating`). A reader is one of the sync's two tasks,
for the interval and after an edit, or a caller whose edit needs a read first;
it notes generation and revision when it is sent, and its answer counts only if
both still stand (`Fresh`). An edit is served (`cloud` changes) before it is
answered, and reads lag behind what is accepted (`schedule_sync.py:65`): they
show `reported`, which catches up with `cloud` at `Settle`, any time later. So a
read sent after an accepted edit may not show it, counts as fresh all the same,
and replaces its echo.

`known` is history: what accepted edits say of a slot, until it is changed
otherwise or a read that was sent since has shown something else; `blind` holds
the slots with an edit accepted since a read was sent. `ScheduleMirror` has the
charger's schedule, the copy, what is known, and for each read the slots it can
tell of (`tells`, from `Ask` to `Answer`): the copy may lag, and moves off an
accepted edit only by a read that was sent after it. The mapping forgets tasks,
locks and generations, and makes absent, deleted and not yet created slots alike.

Starting and disabling remove the helper entities of old versions and then wait
for the tasks of Home Assistant (`async_block_till_done`,
`schedule_sync.py:374`) with the lifecycle's lock held; `HelpersGone` is the end
of that wait. If a task waits for that lock, or another option listener
(`queued`) for the one that called, the two wait for each other (`Hung`). A
retained refresh that had to wait for the lifecycle's lock is cancelled by the
stop it makes itself (`CancelItself`). Left out: the server's timestamp, the
scheduler's backoff (edits may be refused, reads not sent), other chargers (they
share only the read lock), the 10 s limit on waiting for cancelled tasks.

### LifetimeSummary

The store's revisions are compared for equality only, so a call records what
the comparison would find: `completed`, `superseded`, `current`. `guard` is the
state `_apply_lifetime_guard` keeps per charger; `evidence` in it is history, the
answers that showed the fall. A cache has an age in steps of its two lifetimes.
`Total` is the reading in watt-hours as the code takes it: a number above 200
for watt-hours, else for kilowatt-hours. Left out: the guard's seeding from
earlier data, negative samples, and the 180 s clause, which never decides
(the count reaches two first).

### StatusRefresh

`StatusState` holds the variables and the safety properties, `StatusRefresh` the
steps. `poll` is the refresh under way with the await it is at: `asking` (the
request), `failing` (saving a server error), `siblings` (the endpoints beside
it), `enriching` and `recovering` (saving a success). The actions that end
`asking` are the kinds of answer the code tells apart, each with all of its
consequences for the backoff, the counts, the issues, the reuse of the cached
status and the health. `published` says whether the data name the charger and
what could be reused; `absence` is the count of empty lists and the
authoritative status; `saved` the deadline in the Store. `Reload` may hand over
the old data, if the unload could wait for the refresh under way; a plain reload
does not wait, and the save that refresh was awaiting stays in `late` until it is done
(`LateSaved`), maybe after the new runtime has read the Store. `Crash` loses
everything but the Store. Every save may fail, and so may the read of the Store
at a start: the code then goes on as if the Store were empty (`Restored`). `run`,
`outage` and `unheard` are history: the answers of one kind in a row, whether
the data are from before a server error the runtime knows of, and whether the
Store has a deadline it does not know of. One charger; a deadline and its timer
are one flag; lengths of delays and the kept records of failures are left out,
as are site-only entries, and what the answer to a request that outlives its
runtime does to the repair issues, by that runtime's counts.

## 3. Runs

| Run | Configuration | Distinct states | Question |
|---|---|---|---|
| `updates` | `MCControlUpdates` | 448,442 | does the tracker implement its promise; exclusion, fresh evidence, final confirmations; does every group become free again |
| `export` | `MCExportLimit` | 209,862 | is an open write always stored and known, through crashes, cancellations, failed saves and foreign changes; does only a later read confirm; is an overdue request reported, and a matching one resolved |
| `export_reload_mid_call` | `MCExportLimitReloadMidCall` | – | finding: a reload during a service call |
| `timeseries` | `MCEvseTimeseries` | 157,632 | records, sharing, days and deadlines as time passes and chargers leave; does every call return |
| `charging` | `MCChargingCommands` | 58,725 | is only the newest intent sent and recorded, does a Stop hold, does every command return |
| `auth_refresh` | `MCAuthRefresh` | 17,452 | bars, streak, no barred automatic login, every call returns |
| `battery` | `BatteryProfile` | 1,235,611 | writers exclude each other, dialogues act on what they were opened for, only later reads confirm, what is settled is not reverted |
| `battery_restore_after_unload` | `BatteryProfileUnload` | – | finding: a restore scheduled by a retired runtime |
| `schedule_sync` | `MCScheduleSync` | 363,469 | are accepted edits kept until a later read shows otherwise, do toggles merge, is a disabled or unloaded sync quiet, does the cache catch up, does the whole implement the mirror |
| `lifetime_summary` | `MCLifetimeSummary` | 96,824 | does a reset need two answers, is one for good accepted |
| `status_refresh` | `StatusRefresh` | 803,373 | does an outage the runtime knows of end with fresh data, is a deadline it wrote or read kept, through failing saves and reads of the Store, late saves, a reload or a crash; do issues need a streak no counted answer has broken, does all trouble end |
| `status_absence` | `StatusRefreshAbsence` | – | finding: a charger that left the account stays for ever |

The two status runs check deadlock: there is always a poll, an answer, a timer or a
reload ahead.
All others have `CHECK_DEADLOCK FALSE`: a runtime that is unloaded, with no call
in progress, and a model at the bounds of its counters, stop rightly.

### Bounds, and why they are enough

* `updates`: the two battery controls of one group, which hold each other (the
  least that can exclude each other), and the superseding charging control; two
  updates and one read in flight, a report that matches or is absent, one
  invalidation per update. A stale read needs one read and two updates, or one
  update and its invalidation. One value and no acknowledgement of a whole group:
  those parts of the promise are left to the proof.
* `export`: one service call beside the background task, one request, two loads,
  one foreign change, one toggle of the option. The second load is the one a
  crash or reload leads to; the race between a call and the task needs one of
  each. The proofs lift these bounds for the safety properties; the two liveness
  properties speak of one request. `export_reload_mid_call` has two calls and
  two requests, which the loss of one needs.
* `timeseries`: two callers, two chargers of which one may leave, two days with
  one kept, both families; delays of one and two ticks on a clock that lasts
  two, so a longer backoff and a shorter one meet in either order; one
  invalidation, which is the stop's: the first list of chargers is no change of
  one. A second list, with an invalidation of its own, is left to the proof.
* `charging`: two user commands, one setter, one restart task and the automatic
  resume; two explicit commands and two tokens, so a command can be replaced.
* `auth_refresh`: two automatic and two manual callers, the code's threshold of
  three. There is no counter to bound: the state space is finite.
* `battery`: two profiles, of which one fixes its reserve, two reserves, one read
  in flight of whichever endpoint, two accepted writes and one reported
  disagreement: a second write is what makes a read in flight old.
* `schedule_sync`: two slots and two callers, toggles and replacements, three
  changes in all (edits, updates of the entry, changes in the app): two edits,
  and one change beside them. One caller toggles, the other replaces, and in the
  app one slot is switched and the other deleted.
* `lifetime_summary`: one charger (the guards are independent), readings on both
  sides of the unit's threshold and of the reset's, four names for answers, which
  are used again once nothing refers to them. Nothing else is bounded.
* `status_refresh`: the code's three confirmations, one reload or crash, which is
  one runtime that knows, or does not know, what another left. The
  counters stop where no comparison depends on them any more.

The proofs hold for every value of these constants.

### Fairness

* `updates`: an armed timer fires (Home Assistant's scheduler) and a command's
  coroutine ends (each request has a timeout): weak fairness, per command.
* `export`: every caller goes on (weak). Strong fairness for the polling
  task's turn at the lock (`asyncio.Lock` is first come, first served), for
  its authorisation, and for reading the settings: the option is allowed to be
  off and reads to fail, not for ever. Without the last no readback protocol
  could promise anything.
* `timeseries`: a request ends (weak); a caller that can have the lock
  again and again gets it (strong; the lock is first come, first served).
* `charging`: the woken waiter runs, requests end, sleeps end, the setter
  goes on (weak).
* `auth_refresh`: the login ends, a woken caller runs (weak). Nothing is
  assumed of the clock, the user or the refresh pipeline.
* `schedule_sync`: who waits for the lifecycle gets it, the helpers' removal ends
  unless it waits for a task that waits for it (`~Hung`), the interval ticks,
  requests end, an edit under way goes on, and reads show an accepted edit in the
  end (weak); the scheduler answers some of the reads it is sent (strong). Nothing is assumed of users, the app or the option:
  `CatchesUp` allows them to go on until the bound.
* `lifetime_summary`: polling goes on, a waiter gets the lock, caches age, the
  backoff ends (weak); the cloud answers one of infinitely many requests
  (strong). `PersistentResetAccepted` asks that the cloud goes on showing the
  low total, not that anything else happens.
* `status_refresh`: polling goes on, a refresh goes on at each await, the backoff
  and the cooldown end (weak). `Recovers` speaks of behaviours whose answers
  name the charger from some time on.

## 4. Properties worth knowing

* **NoStaleEvidence** (`ControlUpdates`): what confirms a command was read after
  it began and after its last acknowledgement. The code has only object identity
  of tokens for this, held in a snapshot each read took.
* **KeepsPromise** (`ControlUpdates`): with tokens compared by identity, commands
  that answer for other controls, and commands looked up by key after their
  charger left and came back, a read still bears only on commands it can tell of
  and a frozen value still does not move.
* **GroupFreed** (`ControlUpdates`): nothing pending loses its timer, although
  `begin` cancels the timer of the update that answers for a control without
  looking at its status.
* **OpenWriteStored, OpenWriteKnown** (`ExportLimit`): as long as the cloud may
  still carry out a write no read has seen, the Store holds its request, and
  the loaded runtime, once it has read the Store, knows it.
* **AttemptShared, DeadlineHonoured, NoRetiredRecords** (`EvseTimeseries`):
  sharing without a common task, under cancellation of the one who asks.
* **NewestIntentSends, NewestIntentRecords, StopHolds** (`ChargingCommands`):
  no request, retry, delayed Start or automatic resume outlives the user's newer
  wish, and none records its outcome over it.
* **BarsRemembered, StreakExplained, AutomaticLoginBarred** (`AuthRefresh`): a
  suspension lasts its time through reloads and manual failures, although each
  deadline is cleared only by whoever looks at it next.
* **ConfirmedByMatchingRead, SettledNotReverted** (`BatteryProfile`): with three
  endpoints that answer in any order, a request is confirmed only by what was
  read after it was accepted, and no read begun earlier puts it back.
* **AcceptedKept, TogglesMerge** (`ScheduleSync`): a toggle sends all slots, so
  two of them undo each other unless each sees the other's echo. An echo gives way
  to nothing but a read sent after the edit was accepted; that such a read may
  lag, and the next toggle then sends the old state, is an observation below.
* **CatchesUp** (`ScheduleSync`): stops, disabled intervals, dropped reads and reads
  that lag do not keep the cache from the charger's schedule, unless the sync was
  left stopped or hangs.
* **ResetNeedsTwoAnswers** (`LifetimeSummary`): two callers, a shared cache and a
  rule that wants the same answer twice.
* **OutageEndsWithFreshData, DeadlineSurvives** (`StatusRefresh`): after a server
  error the charger counts as available only with data newer than it, although
  its health, the published data and the Store are written at different awaits.
  Both speak of what the runtime has met, written or read: a save or a read of
  the Store that fails, and a save that comes after the read, make a new runtime
  forget the outage and its deadline.
* **StreakReported** (`StatusRefresh`): answers in a row are counted as the code
  counts them, past those that are about the session or the scheduler.

## 5. Proofs

TLAPS checks the following for every value of the constants that the modules'
`ASSUME`s allow.

* `ControlUpdatesProofs`: `Typing`, `TrackerInvariant`, `Exclusion`,
  `TimersExact`, `EvidenceIsFresh`, `ConfirmedFinal`, `FrozenValues`, and
  **`TrackerKeepsPromise`**: every step is one of `ControlPromise` or a stutter.
  The inductive invariant is `TrackerInv`. The properties alone are not inductive:
  freshness of evidence needs `TokensTrackFreshness` (a read that holds an
  update's current token is fresh for it, and none holds a newer one);
  confirmations stay final only because a coroutine that still runs has not been
  confirmed (`RunningIsUnsettled`); and a value held by another control stays
  frozen only if holders are updates of the same group (`HoldersInGroup`). The
  refinement uses all of these: that a report a token lets through comes from a
  read that can tell of the command is `TokensTrackFreshness`, that a coroutine
  which ends has nothing confirmed to overwrite is `RunningIsUnsettled`. It needs
  one more invariant, `LinkedAreHeld`: a control of a related group that has an
  update is also held, so `begin`, which looks at the holder, leaves its value
  alone. Assumptions: keys name their group and
  charger (`KeysAssumption`), and a superseding control is alone in its group
  (`SupersedeAlone`), which the code's only two such commands justify.
* `ExportLimitProofs`: `ExportInvariant`, `Typing`, `OpenWritesAreStored`,
  `OpenWritesAreKnown`, `ConfirmedByEvidence`, each under `~ReloadMidCall`: the
  case they leave out is the one `export_reload_mid_call` refutes. The inductive
  invariant `ExportInv` says that one call at a time is under way, what it knows
  of the pending request at each of its awaits, and that no write is open when
  the Store is about to change.
* `EvseTimeseriesProofs`: `TimeseriesInvariant`, `Typing`, `RecordsAreCounted`,
  `RetiredStayAway`, `AttemptsAreShared`, `DeadlinesAreHonoured`,
  `NewerDaysAreKept`. Besides counts and locks the invariant says that a request
  of a stopped runtime is of an older generation, that what a caller may share is
  its record's last attempt, and that a family's backoff covers every deadline a
  failure has set. For `NewerDaysAreKept` a second invariant, `DaysFinite`, says
  that finitely many days are cached. Then, of the days a step drops, one has the
  fewest later days in the cache; all of these the step keeps, for a dropped one
  would have fewer still, and the code drops a day only when enough later ones
  are cached. It is assumed that `Absent` is not a cached record.
* `ChargingCommandsProofs`: `CommandsExclude`, `NewestSends`, `NewestRecords`,
  `StopStays`. The inductive invariant `Inv` ties a token to the intent it
  stands for: no token is newer than the last one made (`TokensMade`), whoever
  has the charger's token began with the newest intent (`TokensNameIntents`),
  the stored restart belongs to the newest intent (`RestartIsNewest`), resumes
  belong to a loaded runtime and have not sent during a Stop (`ResumesActive`),
  and a completed Stop leaves the desired state off (`HaltedIsOff`). The typing
  of the lock's queue is not part of it: it is filtered with `SelectSeq`, of
  which the provers know nothing.
* `RefreshProofs`, of `AuthRefresh`: `TypeCorrectness`, `BarsAlwaysRemembered`,
  `StreakAlwaysExplained`, `NoBarredLogin`. Here the run's own invariants
  together are inductive. The argument is about the operators on states: what
  each returns is `Sound`, and has the bars of its argument running
  (`SameBars`), but for those that put one up or take all down. `NoBarredLogin`
  follows because an attempt looks at both bars before it waits, and looking
  changes none that is running.
* `RefreshProofs`, of `StatusRefresh` (its variables from `StatusState`, its steps
  by `INSTANCE`, since the two components share names): `StatusInvariant`,
  `StatusTyping`, `OutagesEndWithFreshData`, `DeadlinesSurvive`,
  `StreaksReported`. `OutageEndsWithFreshData` alone is not inductive: a refresh
  that is about to save its success makes the charger available, so it must be
  known to hold fresh data (`RecoveringIsFresh`), and data published later must
  find the charger still unavailable (`OutageUnavailable`, stronger than the
  property). `DeadlineSurvives` needs `DeadlineTimed`: a deadline in the Store
  that is ahead and that the runtime wrote or read has its timer, and whoever asks
  began with none set.
  `StreakReported` needs the counters tied to the history of answers
  (`StreaksCounted`), and the typing that a stopped runtime is replaced within the
  bound (`StoppedIsReplaced`). `StatusInv`, their conjunction, has been checked by
  TLC with two restarts and one confirmation (4,542,804 distinct states); the run
  `status_refresh` checks the properties that follow from it.
* `BatteryProfileProofs`: `Typed`, `WritersExclude`, `RequestIsShown`,
  `DialoguesHold`, `ConfirmedByEvidence`, `SettledStays`. To the properties the
  invariant adds that evidence of a request was shown by a later read
  (`EvidenceShown`), that a call carries what its kind needs (`CallsComplete`),
  and that there is room for a write under way (`RoomToWrite`, of the bound).
* `ScheduleSyncProofs`: `Typed`, `EditsStay`, `TogglesDoNotUndo`, `OffIsEmpty`,
  `UnloadedSync`, and **`Refines`**: every step is one of `ScheduleMirror` or a
  stutter. The control half of the invariant says that tickets are not newer
  than the counters (`Tickets`), each lock has one holder (`Holders`), and
  whatever was disabled or unloaded is stopping and will be cleaned up
  (`Stopped`); the data half that no edit was accepted since a read that
  still counts was sent, and that no slot is seen before it was created
  (`SeenTrue`), and what an edit has sent and got (`SentTrue`).
* `LifetimeSummaryProofs`: `LifetimeTyping`, `TwoAnswersNeeded`,
  `InertWhenRetired`. A confirmation counts one answer once (`CountedOnce`), and
  the cached answer is new to every guard that has a suspicion
  (`EvidenceNotCached`): that the suspicion empties the cache is what keeps an
  answer from confirming itself.

Only model-checked: the liveness properties (`GroupFreed`, `OverdueReported`,
`Reconciled`, the `CallsReturn`s, `CommandsReturn`, `CatchesUp`,
`PersistentResetAccepted`, `Recovers`). Every invariant and every other action
property of a passing run has its theorem. Liveness under fairness and `ENABLED`
are out of TLAPS's reach, as is what a recursive definition computes for every
input. The type invariants of the proved modules are proved, so the runs do not
check them again.

## 6. Findings

* **A reload that overlaps a service call** (`export_reload_mid_call`,
  `export_limit_runtime.py:648`). The old runtime's call still saves into the
  Store the new one uses, and erases its request. The run `export` therefore
  keeps reloads and service calls apart, and says so with `ReloadMidCall = FALSE`.
* **A restore scheduled after unload** (`battery_restore_after_unload`,
  `battery_runtime.py:2672`). A recovery that awaits its nudge during an unload
  schedules the restore afterwards, in the retired runtime; the unload could
  cancel only the task there was.
* **A charger that never leaves** (`status_absence`, `inventory_runtime.py:1154`).
  An empty status list is believed only if the inventory has an empty bucket of
  chargers, and the only code that assigns buckets drops the empty ones. The
  last good status of a charger that left the account is preserved for ever; the
  test of the removal sets the empty bucket by hand.

### Observations

What the models show and no document denies.

* Charger status: an empty list republishes the cached status whatever its age.
  A network, rate or cloud issue stays open while the charger status alone
  answers with a server error, since only a success clears it. A failure whose
  history could not be saved is forgotten by a reload that hands over data, and so
  is one whose history cannot be read then: `async_load_status_history` returns
  `{}` (`evse_status_health.py:76`, tested by
  `test_status_history_storage_failure_is_nonfatal`), so the charger is available
  with the data of before the outage, and its endpoint is asked before the deadline.
  The save of a replaced runtime may come after the new one's read, with the same
  effect on the deadline, or undo the new one's save (`evse_status_health.py:195`).
  If the save of a success fails, a restart finds the old deadline. A 401 and an
  error of the scheduler return before the counts are reset (`coordinator.py:3995`,
  4098): two network errors, a 401 and a network error open the issue, although "an
  HTTP response breaks network and malformed-payload streaks"
  (`coordinator.py:4103`). The count of
  failures in a row is not restored. A refresh that outlives its runtime (a plain
  reload does not wait for it) can still touch repair issues and arm its backoff
  timer (`coordinator.py:4085`). With several chargers a partial list drops the
  missing ones at once, and an error resets the count of empty lists.
* Chargers' summary: while a charger that was reset is charging, totals that
  move by more than 0.05 kWh between polls begin the suspicion anew, so the reset
  waits for a pause and every poll forces a request. A total below 200 Wh is
  read as kilowatt-hours. A refresh that took its totals before the warmup
  published can publish an older total over a newer one.
* Site energy: a forced confirmation is lost if it meets a backoff, for
  `_site_energy_force_refresh` is reset before the backoff is looked at.
* Schedule sync: a refresh that sees the option off and on again around the update
  listener leaves the sync stopped with the option on (`__init__.py:311`; the
  case `LeftStopped` of `CatchesUp`). A write accepted while the read of an
  earlier one is under way drops that read, and none is scheduled anew: the local
  echo stays until the interval. A read sent after an edit was accepted may still
  show the slot as it was (`schedule_sync.py:65`) and undoes the echo; a toggle
  before the next read then sends the old state back, and a toggle under way does
  not put back a slot such a read has removed. The removal of old helpers waits for
  all tasks of Home Assistant with the lifecycle's lock held
  (`schedule_sync.py:374`), often inside the option listener: a listener or refresh
  that waits for one of these locks is such a task, and the two wait for each other
  (the case `Hung`). A retained refresh that finds the option off and has to wait
  for the lifecycle's lock is cancelled by its own stop, which leaves the cache as
  it was, with the cleanup marked as done (`schedule_sync.py:316`). A toggle sends all cached slots and can undo a
  change made in the app since the last read.
* Battery: a write of the reserve alone echoes its payload into the field the
  next live status is compared with. A delayed restore overwrites a newer choice
  of the user (`battery_runtime.py:2616`), and a failed one leaves the reserve
  nudged.
* Charging: a new current set after a completed Stop, before the telemetry shows
  it, schedules a restart that starts the session again (`number.py:498`). A Stop
  the cloud carried out, superseded by a command that then fails, leaves the
  desired state on; the next Start may then be taken for already charging
  (`evse_runtime.py:769`).
* Authentication: a refresh forgives rejections if their number is what it was at
  its start (`coordinator.py:5606`), so one that was forgiven and one that came
  count alike; a request of an unloaded runtime that is answered with 401 starts a
  login (`auth_refresh_runtime.py:118`).
* Export limit: with the option off, an open issue stays until it is on again.
