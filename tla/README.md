# Meltem ventilation integration: verification project

The repository is a Home Assistant integration for Meltem ventilation units. Up to
16 units sit behind one `M-WRG-GW` gateway and share one Modbus link (USB, raw RTU
over TCP or Modbus TCP). The integration polls the units, sends commands and shows
what the units run. This directory models its core in TLA+, checks the models with
TLC on small instances and proves the central properties with TLAPS for all
instances. File names below are relative to
`src/custom_components/meltem_ventilation/`.

## 1. Inventory

| component | state | operations | interacts with |
|---|---|---|---|
| Commands (`coordinator.py` 779–859, 1034–1365) | `RoomRuntime` (interrupted write, level fallback) | `async_set_level`, `..._unbalanced_levels`, `..._direction_level`, `..._operation_mode`, `..._preset_mode`, `async_clear_preset_mode`, `async_(de)activate_intensive`, `async_set_control_setting` | entities call them; they hold `_gateway_lock`, call the client, record an outcome, set an overlay, read back |
| Write confirmations (`write_confirmation.py`) | last outcome per unit and write key | `record_pending`, `supersede`, `set_status`, `mark_unconfirmed`, `confirm`, `prepare_balanced_target_readback` | judged by every read; issues feed `data_health` and the cumulative diagnostics |
| Optimistic overlays (`overlay.py`) | pending value, read baseline and expiry timer per unit | `set`, `clear`, `settle`, `_expire` | set by commands, settled by reads, dropped by a timer |
| Levels and mode codec (`levels.py`, `mode_codec.py`) | none | target, reported and planned levels; register lists; decoding of the mode block | used by commands and reads |
| Read health (`read_health.py`, `models.py`) | last success, error and age per read group | freshness tests, failure records | guards every use of a cached value |
| Register reads (`modbus_client.py` 462–593, 724–966) | back-off per unit and group | `read_room`, `_read_mode_block`, `read_balanced_target_readback` | called by polls and after commands |
| Mode register writes (`modbus_client.py` 599–718) | registers left staged per unit | `write_level`, `write_unbalanced_levels`, `write_operating_mode`, `write_preset_mode`, `clear_intensive` | register writes followed by APPLY, each through the transport policy |
| Transport policy (`device/transport.py`) | two locks, pauses per unit, timeouts, quiet window, read spacing, closed flag | `run`, `update_request_rate`, `shutdown` | one policy for all units of a link; drops the link |
| Poll scheduling (`coordinator.py` 380–452, 867–1032, `polling.py`) | next tick, due times per job, back-off | `async_poll`, `_select_poll_job`, `_schedule_next_tick`, back-off | one job per tick under `_gateway_lock` |
| Optional gateway reads (`gateway_reads.py`) | consumers, value, due time, task in flight, disable generation | `set_enabled`, `async_read_if_due` | part of a poll tick; entities enable and disable them |
| Control settings (`number.py`, `write_confirmation.py` 119–160) | pending control levels | range check, stepping, write | commands of their own read group |
| Lifecycle (`__init__.py`, `gateway_connection.py`, `units.py`) | config entry, shared connection | setup, unload, reload, shutdown | owns the coordinator and the client |
| Migration (`migration.py`, `identifiers.py`) | config entry version | step per version | once at setup |
| Discovery and probing (`modbus_helpers.py` 161–395, `flow_helpers.py`) | none | node list, profile of a unit | flows and repair notices |
| Flows (`config_flow.py`, `options_flow.py`, `subentry_flow.py`) | form steps | user setup, options, units | reload the entry |
| Cumulative diagnostics (`cumulative_diagnostics.py`) | counters, delayed save | load, count, delayed save, flush, remove | transport callbacks, write issues, setup and unload |
| Repair notices (`missing_sensors.py`, `new_units.py`) | issues | raise, withdraw | reads, discovery |
| Fan, select, switch and number entities | last percentage a fan ran at | percentages, modes, turning off and on | commands of the coordinator |
| Sensors, triggers, conditions, downloads | none of their own | presentation | coordinator state |
| Mock unit (`tools/_mock_model.py`) | set and status registers, airflow | APPLY, settling, app, reboot | stands for the unit |

What is hard here. Everything runs on one event loop, so races are between `await`s:
a command or a poll holds `_gateway_lock` over many requests while overlay timers
fire, the user's app or the keypad changes the unit, entities ask for state, callers
are cancelled and the entry is unloaded. Requests time out, are answered by the
gateway instead of the unit, or are answered late; commands stop between two
registers; the value a command is judged by may be older than the command.

What makes it correct: an outcome is final once and for all and is judged only by
what the unit reported after the command; a pending value on display belongs to an
accepted command; a command that depends on cached levels is not built on levels an
interrupted command made doubtful; a late answer is never taken for the answer of
another read; silent units do not recycle a link that answers; nothing is sent after
shutdown; registers an interrupted command left staged are not forgotten. A value shown
as available is current, and a dead unit is shown as dead; a unit keeps its key, its
device and its entities over rescans, moves and upgrades, and what runs is what is
stored; a range is checked against what the unit holds; the register values of every
command make the unit run what was asked; no counted event is lost. The
`hazards` of `PROJECT.json` list each danger at its line.

## 2. Modules

### `WritePath`

One unit from the command to its outcome. `op` is the holder of `_gateway_lock` and
its phase: `sending` (the request sequence of a command runs), `settling` (the unit
settles, then it is read back), `target` (the mode block was read, register 41121 is
being read), `idle`. `data`, `health`, `conf`, `overlay`, `uncertain` and `fallback`
are the fields of `RoomState`, `ReadHealth`, `WriteConfirmations`,
`OptimisticOverlay` and `RoomRuntime` that the properties tell apart; `unit` is the
unit itself, with its set register. Each command of the coordinator is an action up
to its first request; `WriteAccepted`, `WriteFailed` and `WriteCancelled` are the
three ways `_async_write_with_confirmation_locked` goes on; `Poll` and
`RefreshRoomAfterWrite` are the two ways a unit is read, with every outcome of the
two read groups; `ReadBalancedTarget` is the extra read of 41121. The timers
(`OverlayExpires`, `GroupAges`, `ConfirmationAges`), cancellation (`ReadCancelled`)
and the app (`AppChanges`) interleave with every phase.

The health of a group is the number of the read that recorded it, which is all that
`health == baseline` can see. Airflow levels are further apart than the tolerance of
`levels_reached`, so it is equality. `seen`, `issues`, `prov` and `marks` are history
variables for the properties; no action reads them.

### `TransportPolicy`

All units of one link. `op` is the request that holds `_operation_lock`: waiting for
its slot, sent, disconnecting the link, or sleeping before its retry. Clocks are
timers advanced by `Tick` and saturated where the code cannot tell larger values
apart. Every way a request ends is an action: an answer, an exception response, the
gateway's answer for a silent unit, no answer, a lost link, another error,
cancellation. `sinceLost`, `sinceAnswer` and `lost` are history variables. Its
specification is `PolicySpec` and that of `ModeRegisters` is `RegistersSpec`, because
the two share the proof module `LinkProofs` with `ControlSettings`.

### `ModeRegisters`

The request sequence of a mode command for one unit: register writes in order, then
APPLY, each of which is answered, refused, unanswered (and sent a second time by the
policy), answered by the gateway for a silent unit, or interrupted. `held` is what
the unit stored since its last APPLY, whether or not the client heard of it;
`tracked` is what the client remembers.

### `OptionalRead`

One optional value and the three actors that share it: the poll tick (`tick`), the
task that performs the read (`task`: running, asked to cancel, or done with a result
the tick has not seen yet) and the callbacks. `SetEnabled` and `SetDisabled` are
`set_enabled`; `StartRead` is `async_read_if_due` up to its `await`; `ReadValue`,
`ReadFailed` and `ReadCancelled` are the three ways it goes on, each with the whole
`finally` clause. `disabled` is the comparison of `_disable_generation` with its value
at the start of the read, the only use of it. `CancelTick` is the cancellation of the
tick itself; asyncio passes it on to the awaited task, or keeps it for the resumption
if that task is done. Left out: the age from which a value counts as unknown.

### `PollSchedule`

When the next tick runs and which job it reads. `timer` and `nextDelay` are the
planned tick and `_next_poll_delay`; `due` is the time to each `next_due`, and the
jobs whose time has passed are a queue in the order of their due times, which is what
`select_due_job` orders by. A tick is `Poll`, then `StartJob` or `NoJobDue`, then
`EndJob` with every outcome of the read (read, partial, refused, unanswered, skipped
because the unit is paused); the callbacks of the transport that count failures are
part of it. `UpdateRequestRate`, `SetOptionalEnabled`, `Readback` and `Shutdown` come
from outside between any two of these steps. When a unit counts as silent and how old
the integration is are arbitrary, so nothing depends on them. All optional values are
one value that is read when it is due. An entry with polling turned off is not
modelled. `Readback` plans no tick, as in the code (`docs/dev/DEVELOPER.md` 427 says that
the end of a write readback moves a waiting tick).

### `RoomReads`

The read jobs of one unit: `read_room` with the back-off of every register block and
of the mode block, the pause after an unanswered read, and what follows from a job: the
health of each read group, the availability of the unit and of its groups, the due
time of the next job with its silent interval, the absolute humidity derived from two
blocks, and the repair notice for a missing sensor. `ReadOneJob` is one job with every
combination of blocks that are answered, refused or skipped; `LostJob` is a job
without an answer, `SkipJob` one the pause leaves out. The unit may die, its sensor
may come and go, and the entry is reloaded or Home Assistant restarted at any moment.
`PollSchedule` decides when a job runs; here it runs before time goes on.

### `Units` and `ConfigEntry`

`Units` is the pure part: the unit subentries, `match_existing_rooms` and
`build_rooms_from_profiles`, unit keys (an address and a number that grows without
bound), device identifiers and entities. `ConfigEntry`
is the life of the entry of one gateway: creation or migration from any version an
earlier release may have left, the rescan with its confirmation, adding, removing and
reconfiguring a unit, connection and request rate, setup and unload split at their
`await`s with every way they fail, the update listener, the device and entity
registries and the notice for new units. Two flows may be open at once and go on while
a setup awaits the gateway. `at` is the gateway: which unit answers at which address;
pairing a unit again moves it. `had` and `missed` are history variables.

### `Diagnostics`

The cumulative counters: recorded in memory, saved with a throttled delay, flushed on
unload, loaded by the next setup. `cur` is the instance in use, `retired` holds
instances of earlier setups whose delayed save or last request is still to come.
`Stop` is the orderly stop of Home Assistant, `Crash` a power loss.

### `ControlSettings`

The number entities that write one register each: normalisation to the step, the range
check against the paired level (as read, or as written and not read back yet), the
write with every ending, the readback, back-off, polls and another client. `doubt` is
a history variable: since the last read nobody can know the register.

### `UnitControl` and `VentilationUnit`

`UnitControl` has the values that `WritePath` and `ModeRegisters` leave abstract: fan
percentages, quick modes, sensor modes and intensive ventilation, the register values
they are written as (`mode_codec.py`, `levels.py`), the unit that turns its set
registers into a status and airflow (the mock unit of `tools/_mock_model.py`), the
decoding of the status, and the exact target of 41121 that is carried from read to
read. Failures are in the other modules: here commands are accepted and applied. A
unit starts in manual mode or in the state of a register map file, and the app and a
gateway reboot change it. `asked` is a history variable: what the commands since the
last change in the app asked for.

`VentilationUnit` is the abstract specification: one base setting under an intensive
override that hides it and leaves it alone; off and the quick modes end the override,
no other command does. `UnitControl` implements it (`ImplementsUnit`): `wanted` is what
the set registers run without the override and whether they hold one, `running` the
status registers, `settling` a command not taken over yet. The unit of `WritePath`,
marked external there, is this abstraction, so the register lists of every command
are shown to have the effect `WritePath` takes for granted.

### Runs

| run | instance | checks |
|---|---|---|
| `WritePath` | one command of every kind, three reads, one change at the unit | `TypeOK`, `ConfirmedWasReported`, `IssueCountedOnce` |
| `WritePathPairs` | two commands of any kinds, one read between and after | `OneOpenBaseWrite`, `OverlayBacked`, `InterruptedRefused`, `FinalOutcomesStay` |
| `TransportPolicy` | two units, with fairness | `QuarantineRespected`, `RecycleJustified`, `NothingSentAfterShutdown`, `RunEnds`, `DeadLinkRecycled` |
| `ModeRegisters` | the four register lists of the client, any number of commands | `StagedIsTracked` |
| `OptionalRead` | two consumers, a read that may never be answered, with fairness | `ReadConsistent`, `EnabledReadSoon`, `OnlyCancelEndsTick`, `EnabledIsRead` |
| `PollSchedule` | three jobs of two units and one call from outside, with fairness | `PlanConsistent`, `WakesInTime`, `EveryJobRead` |
| `RoomReads` | three jobs of one unit, two faults or changes, with fairness | `AvailableIsCurrent`, `HealthConsistent`, `NoFlapping`, `DeadUnitShown`, `Recovers`, `IssueFollowsSensor` |
| `ConfigEntry` | three addresses, two setup codes, two user actions or moves, with fairness | `EntryConsistent`, `RegistriesKept`, `KeyFollowsUnit`, `RescanComplete`, `EntrySettles` |
| `Diagnostics` | three events, two restarts | `SavesOnTime`, `AllCounted` |
| `ControlSettings` | a pair of levels, three commands, one change by another client, with fairness | `BelievedIsHeld`, `WritesKeepRange`, `OutcomeSettles` |
| `UnitControl` | two unit families, two commands, one change in the app | `ControlsAgree`, `LevelsSurvive`, `OppositeKept`, `ImplementsUnit` |
| `ReloadsWhenDifferent` | the instance of `ConfigEntry` | ends in a counterexample (section 3) |

Some invariants are conjunctions of named parts. `ReadConsistent`: types, and the cap
of the retry delay. `PlanConsistent`: types, one tick ahead, the back-off of the
present failures. `HealthConsistent`: types, diagnostics the firmware lacks stay quiet,
the absolute humidity belongs to what is shown, the notice is justified.
`EntryConsistent`: types, distinct units, nothing left behind by a failed setup, the
notice names no running unit. `RegistriesKept`: devices and entities are those of the
stored units and survive an upgrade. `EntrySettles`: what runs is what is stored, and
the notice names the units that are left. `SavesOnTime`: types, no event waits longer
than the save interval, saves are spaced. `ControlsAgree`: types, the unit runs what
was asked, a read decodes it, the display catches up with whatever the unit runs.

Bounds. `WritePath`: the level 40 and the level 0 give balanced, one-sided and off
pairs; `low` and `extract_only` stand for the two kinds of quick mode. In `WritePath`
the unit starts in manual mode or in a quick mode; in `WritePathPairs` it starts in
manual mode and a first command brings the quick mode. Two commands are enough for
one to supersede, fail after or depend on another, with a read after each; the three
reads around the single command of `WritePath` are one before, its readback and one
after. A behaviour ends when the bounds on reads and commands are used up, so deadlock
is not checked there. In `TransportPolicy` the recovery time (3), the number of
timeouts (3) and the quiet window (5) keep the order of the real values (the window
covers the pause) and let a pause end inside a disconnect; there is no bound on the
number of requests. `ModeRegisters` has no bound at all. `OptionalRead` has none
either: with a refresh interval of 5 and a retry of 2 the number of doublings is not a
whole logarithm, so rounding shows. In `PollSchedule` two jobs share a unit and one is
optional; the intervals (2, 2, 3; 4 for silent units), the rates (1, 2) and a back-off
from 1 to 2 let due times coincide, the frequent jobs take every slot, a tick wait
longer than the rate, and a back-off grow. `MaxChanges` bounds only the calls from
outside: one at any moment, with reads, failures and time unbounded. The failure
counts stop where the code's delay has reached its maximum.

In `RoomReads` one job has a block and the mode block, one has three blocks of two
groups, one is answered by the gateway for the unit: together they meet every branch
of `read_room`. `MaxEvents` bounds jobs with a fault and changes of the unit, the
sensor or the entry; undisturbed jobs and time go on for ever. Two events make a
threshold of two failures, a fault during a back-off, or a fault and a reload. In
`ConfigEntry` three addresses and two codes let units swap, move to a free address or
share a code; `MaxChanges` bounds user actions and moved units, two of which interleave
with each other and with every phase of a setup (three were explored as well: 6.1
million states, no violation). `Diagnostics`: three events cover one that plans a save,
one that joins it and one after it; time ends after two intervals. `ControlSettings`:
two levels in three and two steps with requests off the steps and beyond the limits;
three commands write both levels and one of them again. `UnitControl`: both unit
families (97 and 100 m3/h), all their levels in `LevelsSurvive`, two commands and one
change in the app. An exact target carried along from earlier commands takes three
commands or more to go wrong; the theorems hold for any number. Polling may stop for good
in `OptionalRead` and `PollSchedule`, an entry may stay unloaded in `ConfigEntry` and
the clock ends in `Diagnostics`: deadlock is checked in the other runs only.

Fairness. `TransportPolicy`: weak fairness of `Tick` (time passes), of `Send`,
`RejectClosed` and `PauseEnds` (the event loop runs what is ready), and of
`RequestEnds` and `Disconnected` (the link layer ends every request and every
disconnect, if need be by its own timeout). Nothing is assumed about new requests,
answers, cancellation or shutdown. `OptionalRead`: weak fairness of the timer's tick, of
time and of every resumption that is ready, and strong fairness of `StartRead`: a tick
whose own job meets a failing link ends before the optional reads, and not every tick
does. Nothing says that a read is answered. `PollSchedule`: weak fairness of `Poll`
(the timer fires), of `StartJob` or `NoJobDue` (the lock comes free), of `EndJob` (the
transport ends every read, `RunEnds`) and of time. `RoomReads`: time passes and every
due job is run again and again, which is `EveryJobRead`; nothing says that it is
answered. `ConfigEntry`: weak fairness of the steps of setup and unload, of the update
listener and of the hourly unit list, all of which Home Assistant runs; nothing of the
user's. `ControlSettings`: polls go on, a back-off ends, a write or a readback ends by
its timeout at the latest; neither need succeed. The other modules have safety
properties only.

## 3. Where code and documents disagree

`ReloadsWhenDifferent`: "An update listener reloads the entry when the gateway
connection or unit subentries differ from what setup used (`_setup_snapshot`)"
(`docs/dev/DEVELOPER.md` 981). `async_setup_entry` reads the units and the connection,
awaits the gateway, takes the snapshot only then (`__init__.py` 253) and registers the
listener after the platforms are set up. A change a flow makes in between is in the
snapshot but not in what runs; no later update sees a difference, so the entry is not
reloaded. `EntrySettles` states what holds without such a change.

### Observations

These sentences of the repository are properties of the modules as well. The code does
not have them; each was found by checking the named definition with TLC, and the
properties of the runs leave out exactly these cases.

* `CachedPresetNeverConfirms` (`write_confirmation.py` 38): "Cached values from before
  the write cannot confirm it." A quick-mode write followed by a mode read that reports
  only an intensive override is confirmed by the preset cached before it.
* `CachedTargetNeverConfirms` (`write_confirmation.py` 162): the same sentence for
  airflow writes. After the retention of an outcome has ended 41121 is no longer read
  for it, but its value from before the write is carried along and judges it.
* `InterruptedLevelsNotReused` (`coordinator.py` 158): "dependent changes wait until
  the unit reports its state again". A mode read under an intensive override ends the
  wait although it reports no levels.
* `BuildsOnLatestAccepted` (`coordinator.py` 1093): "every command builds on the latest
  accepted state". If the readback of an accepted mode or quick-mode command is
  skipped, because the reads of the unit are paused, a direction command reuses the
  level from before it.
* `NothingStagedUntracked` (`modbus_client.py` 695): "one the unit refused with an
  exception response" is not staged. The exception may be the gateway's, or answer a
  second attempt after the first one was stored.
* `ForgottenOnDisable` (`gateway_reads.py` 128): a test expects no value after an
  optional read was disabled and enabled again while it ran
  (`test_coordinator_integration.py` 662). If its task was done when the value was
  disabled, and the tick not yet resumed, the value is stored all the same.
* `RangeHolds` (`write_confirmation.py` 127): "min must not exceed max"
  (`const.py` 412). A write that was cancelled is kept as unconfirmed and its value
  stands in for the register, which may not hold it; the paired level is then checked
  against the wrong value.
* `OnlyPowerLossLoses` (`cumulative_diagnostics.py` 194): the counters are flushed when
  the entry unloads, and only "A hard power loss can lose changes" (`docs/DIAGNOSTICS.md`).
  Events recorded after the flush took its snapshot, by requests that were still under
  way, are not in the file the next setup loads.
* `RemovesOnlyNamed` (`options_flow.py` 332): "Name the units the rescan no longer found
  before removing them." The confirmation matches the scan a second time; when another
  flow changed the units meanwhile, other units than the named ones are removed.

One case more was found by a proof that failed, and `AskedIsRead` leaves it out. A fan
command for 50 m3/h is sent while a quick mode of 20 m3/h runs; a read that comes before
the unit has settled stores 50 as the exact target. A second fan command is superseded
when the user ends the quick mode, and the unit stays in manual mode at 20. The next
read finds the mode and the target of the last read and an airflow command that is
still recent, so `prepare_balanced_target_readback` (`write_confirmation.py` 162–201)
carries the 50 along, and 50 is shown until `WRITE_HEALTH_RETENTION` has passed. So the
decoded levels are always those asked for, and the displayed ones are after a fan
command, or once no airflow command is recent.

## 4. Proofs

The proofs hold for every set of units, levels, presets and commands and for every
bound and time limit that meets the `ASSUME`s of the modules.

* `WritePathProofs` proves every invariant of `WritePath`, in four layers.
  * `OneOpenHolds`, `CountingHolds`, `FinalHolds`. `OutcomeInv` says that the outcomes
    are records per key, that at most one base command is open, that an unhealthy
    outcome is counted and that `issues` follows the counted flags. The second and
    third parts are needed because judging an outcome (`Confirm`) may set the flag of
    any key: only an unhealthy outcome that is counted already stays as it is. The
    lemmas state what each operator on outcomes opens and touches; reads are one lemma
    about `FinishRead`, whatever was read. `OverlayHolds` follows from it step by step.
  * `TypeHolds`. `TypeInv` adds to the types what the lock holder carries from one
    await to the next: the planned registers, the baseline of the write, and a read
    that is not published yet.
  * `InterruptedHolds`. `MarkerInv` ties the markers of the code (`uncertain`) to the
    history: the health of a group tells which read its fields come from, and once the
    marker is gone a group was read after the interruption.
  * `ConfirmedHolds`. `ConfirmedWasReported` is not inductive, because a poll that
    sends nothing judges as well. `SeenInv` says that an open write disagrees with what
    is published, so such a poll confirms nothing, and that a read still waiting for
    41121 was seen to report what it would confirm.
* `LinkProofs`, three small components of the link.
  * `TransportPolicy`: `PolicyTypeCorrect`, `QuarantineHolds`, `RecycleHolds`,
    `ShutdownHolds`. `QuarantineInv` ties the pause the code keeps to the time since the
    unit's last lost read, and says that a read waiting for its slot belongs to a unit
    whose pause is over; the slot wait and the retry after a disconnect depend on it.
    `RecycleInv` bounds the timeout counter and the quiet window by what really
    happened on the link.
  * `ModeRegisters`: `RegistersTypeCorrect`, `StagedTrackedHolds`, `WarningHolds`,
    `ForgettingHolds`, from an invariant that accounts for every register the unit holds
    while a command is under way: tracked, written, just being sent, or answered with an
    exception. `WarningHolds` (an APPLY activates nothing unwarned) and `ForgettingHolds`
    (registers are forgotten only after an APPLY) are proved only, not run.
  * `ControlSettings`: `BelievedHolds`, `RangeKept`, `ReadbackHolds`,
    `SettingsTypeCorrect`. `BelievedIsHeld` carries itself once outcomes and commands
    have their types: every step changes the register and what is believed of it alike,
    or leaves a doubt. `RangeKept` needs in addition that the check made before the
    write still stands while the write is under way (`CheckStands`).
    `SettingsTypeCorrect` rests on `NormalizeOnGrid`: `normalize_control_setting` rounds
    to a step between the limits for all limits that are whole steps apart.
* `OptionalReadProofs`: `EnabledReadSoonHolds`, `UnwantedHolds`, `TickSurvives`,
  `ReadConsistentHolds`. The first three are not inductive because a read in flight
  decides them later: the invariant adds that a read in flight of a value not asked for
  since its enabling knows of the disabling (`ReadKnowsDisabling`), that a task is
  cancelled only by a disabling or by the cancellation of the tick (`CancelHasCause`),
  and that the value is due or will be by the `finally` clause (`DueSoon`).
  `ReadConsistentHolds` rests on `CapReached`: the number of doublings at which the code
  stops counting failures is the first that reaches the refresh interval.
* `PollScheduleProofs`: `OneTickAheadHolds`, `BackoffHolds`, `WarmUpHolds`,
  `WakesHolds`, `PlanHolds`, from the types of the planning variables, from where a
  planned tick can be in each phase (`TickAhead`) and from what `_startup_turn` says of
  the job read last (`TurnTaken`). `WakesInTime` needs `WakeUpBound`: a tick is in time
  exactly if it is within the request rate or nothing is due before it. `PlanHolds`
  needs `QueueInv`: the queue holds each job that is due once, so that removing one
  place removes the job; `InOrderLists` shows that jobs due together join it once each.
* `DiagnosticsProofs`: `SavesOnTimeHolds`, `AllCountedHolds`. `Throttle` relates the
  planned save to the oldest event not saved and to the last save; `CountInv` says that
  what is stored together with what the instances still hold is the total, and that a
  retired instance with a save pending exists only after a late event.
* `RoomReadsProofs`: `CurrentHolds`, `HealthHolds`, `NoFlappingHolds`. `CurrentInv`: a
  group that is not too old had all its blocks read no longer ago than its recorded age. The code records
  one age per group and several blocks feed it, so this is where a back-off of one block
  could freeze a value on display. `QuietInv`: without faults nothing is paused but what
  the unit refuses, each group read before was read when its job ran last (age plus time
  to the next job is at most the interval), and the unit answered the last airflow job.
  `IssueInv`: the placeholders counted came in a row, over restarts too.
  `NoFlappingHolds` follows the unit over one lost job with `FlapInv`. Before a fault
  the only pauses are those of components the unit refuses, and `QuietInv` gives the
  ages. After a lost job (`LostInv`) every job misses at most one turn: age plus time to
  the next turn is at most two intervals, and at most one if that turn will be missed,
  because the unit or a component still pauses by then (`MissesTurn`). That needs the
  pauses left by the lost job to be first pauses, which are the shortest, so that before
  the fault nothing the unit delivers was in a back-off (`FirstPause`).
* `UnitControlProofs`: `ControlsAgreeHolds`, `LevelsSurviveHolds`, `OppositeKeptHolds`,
  `ImplementsUnitHolds`, for any number of commands, every percentage and every unit
  family. The invariant follows a command: the set registers hold what a command wrote
  (`Written`) and what was asked for (`AskedInv`), the unit runs what they hold once it
  has settled (`UnitInv`), a read decodes what it runs (`AskedIsRead`, `Displayed`).
  The exact target of 41121 outlives the read it came from, so `FansInv` is needed: it
  is within the tolerance of the last fan command, or that command is still open and the
  next read replaces it. What scaling and rounding to whole levels lose is one section
  of lemmas: a level survives the register it is written to, and the percentage it is
  shown as. The refinement of `VentilationUnit` is step by step: each command maps to a
  change of the base setting or of the override, settling to settling, everything else
  to a stutter.
* `ConfigEntryProofs`: `EntryConsistentHolds`, `RegistriesKeptHolds`,
  `RescanCompleteHolds`, `KeyFollowsUnitHolds`, for any number of units, flows and
  restarts. `EntryInv` is inductive on its own: which locals and clients each phase has
  (`Lives`), distinct keys and unique IDs, the order of units an older release stored
  for one address. A free key exists because finitely many units use one
  (a pigeonhole argument); Home Assistant refuses no update of a saved rescan, because a
  unit that keeps its unique ID keeps its address and no other unit is built there
  (`NeverRefused`). `RegistryInv` follows a
  unit from the rooms that setup read to its device and entities: the subentries setup
  read are still stored or gone for good (`SnapshotFollowed`, `Gone`: a new unit with an
  old key has the ID of the flow that adds it), what setup registered is still there
  (`SetupFollowed`), and what the user had before an upgrade is there under its new name
  (`UserEntities`).

Assumptions on the constants, beyond types. Powers of two (`PowersAssumption` of
`OptionalRead` and `PollSchedule`) are arithmetic the provers lack; TLC evaluates it.
`Diagnostics` needs `Delay < Interval`: with equal times TLC finds a second save planned
before the first is over; the code has 10 s and 60 s (`cumulative_diagnostics.py` 21).
`RoomReads` assumes that each group belongs to one job (`READ_GROUP_INTERVAL_SECONDS`),
that optional components feed only optional groups and never the airflow job
(`modbus_client.py` 109), that a job comes at least as often as its values grow too old
(the limit is three intervals, 30 s for the airflow) and that the airflow job comes
before a unit counts as silent (10 s and 120 s). `LostJobAssumption`, for one lost job,
adds that twice the interval is within these limits too, that the first pause of a
component (10 s) is no longer than the interval of any job (10 s at least),
that one failure is below the thresholds (3, `const.py` 121 and `coordinator.py` 119)
and that jobs which share a component (the status, read by two jobs, `modbus_client.py`
798–866) have no optional ones. `UnitControl` has maximum airflows of 97 to 100 m3/h
(`const.py` 160–186), app levels up to them and the starting states of the register map
files. `ConfigEntry` assumes of old entries what the migrations and flows of those
releases left: distinct keys, from 2.1 on distinct unique IDs and scoped entity names,
no entity under a name already replaced. `PollSchedule` assumes that there is a slowest
request rate. `None` is none of the values it is compared with, and a setup code is no
unit key. Where an argument needs induction over numbers (the doublings of a
back-off) it takes the least counterexample, a fact about sets of naturals.

Some proved properties are not run as well, because the theorem says more:
`UnwantedReadCancelled`, `WarmUpAlternates`, `LeftOversAreWarned`,
`ForgottenOnlyAfterApply`, `ReadbackNotSkipped` and the types of `TransportPolicy`,
`ModeRegisters` and `ControlSettings`.

Only model-checked: liveness (`RunEnds`, `DeadLinkRecycled`, `EnabledIsRead`,
`EveryJobRead`, `DeadUnitShown`, `Recovers`, `IssueFollowsSensor`, `EntrySettles`,
`OutcomeSettles`), which is out of the prover's reach under fairness. Every invariant
and every action property of the passing runs is proved, and so is the refinement.

## 5. Plan

1. The order of probe requests and the profile detection of a unit.
2. `PollSchedule` composed with `RoomReads`: the outcome of a job that `PollSchedule`
   takes as given produced by the blocks of the job.

## 6. Not modelled

Sensors, binary sensors, triggers, conditions, diagnostics downloads and system health
present state and keep none of their own. The texts, previews and input checks of the
flows, the requests of a probe and the detection of a profile from product IDs are left
out; a scan is modelled by what it finds. The scaling of plain sensor registers, request
statistics and logging are left out. Of the tools under `tools/` only the mock unit is
modelled; serving it over a link and the benchmarks are for developers. Wall-clock
stamps are not modelled: the code compares monotonic ages. An entry with polling turned
off has only its first tick and is not modelled.
