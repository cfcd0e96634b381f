------------------------------ MODULE RoomReads ------------------------------
(***************************************************************************)
(* One unit's read jobs: MeltemModbusClient.read_room with its back-offs,  *)
(* the read health and availability derived from it (read_health.py,       *)
(* coordinator._read_one_job, room_available), and the repair issues for   *)
(* missing sensors (missing_sensors.py).                                   *)
(*                                                                         *)
(* A component is one register block, a group the values that share a      *)
(* health record, a plan the components one job reads.  Time is counted in *)
(* flow intervals; the pause after an unanswered read ends within one.     *)
(* The scheduler (PollSchedule) runs a job before time goes on.            *)
(***************************************************************************)
EXTENDS Naturals, Sequences, FiniteSetsExt

CONSTANTS
    Plans,               \* the jobs of the unit
    Feeds,               \* per plan: the groups each of its components counts for
    JobOrder,            \* the position of each job in polling.JOB_GROUPS
    Order,               \* the position of each component in a poll
    FlowPlan,            \* the plan with refresh_airflow
    ModeGroups,          \* _MODE_GROUPS, read with the flow plan
    BridgeComponents,    \* _BRIDGE_RF_COMPONENTS: the gateway answers for the unit
    OptionalComponents,  \* _OPTIONAL_DIAGNOSTIC_COMPONENTS
    OptionalGroups,      \* OPTIONAL_DIAGNOSTIC_READ_GROUPS
    SensorComponent,     \* the component of the sensor that may be missing
    TemperatureComponent,\* the component of the temperature next to it
    Interval,            \* interval_seconds of each plan
    StaleAfter,          \* per group the limit of read_too_old
    ComponentBackoff,    \* the pauses of _component_backoff, by failure count
    ModeBackoff,         \* the pauses of _mode_backoff
    FailureThreshold,    \* READ_FAILURE_THRESHOLD
    UnavailableAfter,    \* ROOM_UNAVAILABLE_AFTER_FAILURES
    SilentAfter,         \* ROOM_SILENT_AFTER_SECONDS
    SilentInterval,      \* SILENT_ROOM_POLL_SECONDS
    IssueAfter,          \* MISSING_SENSOR_ISSUE_AFTER_READS
    MaxEvents,           \* bound on faulty jobs and changes together
    None

ModeBlock == "mode_status"
Components == UNION {DOMAIN Feeds[p] : p \in Plans}
Blocks == Components \union {ModeBlock}
PlanGroups(p) ==
    (UNION {Feeds[p][c] : c \in DOMAIN Feeds[p]}) \union (IF p = FlowPlan THEN ModeGroups ELSE {})
Groups == UNION {PlanGroups(p) : p \in Plans}
MaxAge == Max({StaleAfter[g] : g \in Groups}) + 1

\* A group belongs to one job (READ_GROUP_INTERVAL_SECONDS), and an optional
\* component feeds optional groups, never those of the airflow job.
ASSUME PlansAssumption ==
    /\ FlowPlan \in Plans /\ ModeBlock \notin Components
    /\ BridgeComponents \subseteq Components /\ OptionalComponents \subseteq Components
    /\ SensorComponent \in Components /\ TemperatureComponent \in Components
    /\ OptionalGroups \subseteq Groups
    /\ \A c, d \in Components : c # d => Order[c] # Order[d]
    /\ \A p, q \in Plans : p # q => PlanGroups(p) \intersect PlanGroups(q) = {}
    /\ \A p \in Plans : \A c \in DOMAIN Feeds[p] \intersect OptionalComponents :
          p # FlowPlan /\ Feeds[p][c] \subseteq OptionalGroups
\* A value that is read on time is not too old, nor is its unit silent.  The
\* largest limit exists, as there are finitely many groups.
ASSUME LimitsAssumption ==
    /\ \A p \in Plans : Interval[p] \in Nat \ {0}
    /\ \A g \in Groups : StaleAfter[g] \in Nat \ {0}
    /\ {FailureThreshold, UnavailableAfter, SilentAfter, SilentInterval, IssueAfter} \subseteq Nat \ {0}
    /\ MaxEvents \in Nat /\ MaxAge \in Nat
    /\ \A p \in Plans : \A g \in PlanGroups(p) : Interval[p] <= StaleAfter[g]
    /\ Interval[FlowPlan] <= SilentAfter
ASSUME BackoffAssumption ==
    {ComponentBackoff, ModeBackoff} \subseteq Seq(Nat) \ {<<>>}
\* One lost job costs each job at most one turn: the first pause of a component
\* (10 s) ends before the job of the component is due again, a value may miss
\* one turn and stay fresh, and the thresholds are above one failure.  Jobs
\* that share a component (status and filter) have no optional ones.
ASSUME LostJobAssumption ==
    /\ \A p \in Plans : ComponentBackoff[1] <= Interval[p]
    /\ \A p \in Plans : \A g \in PlanGroups(p) : 2 * Interval[p] <= StaleAfter[g]
    /\ 2 * Interval[FlowPlan] <= SilentAfter
    /\ FailureThreshold >= 2 /\ UnavailableAfter >= 2
    /\ \A p, q \in Plans : p # q /\ DOMAIN Feeds[p] \intersect OptionalComponents # {} =>
          DOMAIN Feeds[p] \intersect DOMAIN Feeds[q] = {}
ASSUME NoneAssumption ==
    /\ None \notin BOOLEAN
    /\ None \notin {"value", "placeholder", "exception", "silent", "timeout", "other"}

VARIABLES
    due,        \* per plan the time until its job is due
    health,     \* group_read_health
    pauses,     \* _component_backoff and _mode_backoff: failures and time left
    delayed,    \* read_delayed: the recovery pause of the unit
    quiet,      \* time since the unit's last answered read, or since the start
    answered,   \* seconds_since_successful_read is not None
    failures,   \* RoomRuntime.read_failures, as far as the limit
    logged,     \* RoomRuntime.unavailable_logged
    data,       \* the values of RoomState that the properties tell apart
    missing,    \* MissingSensorIssues._missing_reads, as far as the limit
    raised,     \* MissingSensorIssues._raised
    hasSensor,  \* the configured profile has the sensor (placeholder_sensors)
    registry,   \* external: the issue in Home Assistant's registry
    alive,      \* external: the unit answers at all
    refused,    \* external: the components the unit never supports
    sensor,     \* external: the sensor delivers values
    events,     \* faults and changes so far; of these lost telegrams and refusals
    since,      \* history: per block the time since its last read value
    row         \* history: consecutive placeholder readings

reads == <<due, health, pauses, delayed, quiet, answered, failures, logged, data, since>>
issues == <<missing, raised, registry, row>>
world == <<alive, refused, sensor, hasSensor>>
vars == <<reads, issues, world, events>>

NeverRead == [tried |-> FALSE, read |-> FALSE, fails |-> 0, error |-> None, age |-> 0]
NoPause == [failures |-> 0, left |-> 0]
NoData == [flow |-> FALSE, mode |-> FALSE, bridge |-> FALSE,
           temperature |-> None, humidity |-> None, absolute |-> None]

-----------------------------------------------------------------------------
(* read_health.py                                                          *)

\* read_too_old
TooOld(g, h) == h[g].age > StaleAfter[g]

\* Mutant: one failed read makes the group unavailable, as group_fresh would.
GroupAvailableFresh(g, h) == h[g].read /\ h[g].fails = 0 /\ ~TooOld(g, h)

\* group_available
GroupAvailable(g, h) == h[g].read /\ h[g].fails < FailureThreshold /\ ~TooOld(g, h)

\* _unsupported_optional_group
UnsupportedOptionalGroup(g, h) ==
    g \in OptionalGroups /\ ~h[g].read /\ h[g].tried /\ h[g].error # "timeout"

\* group_stale: TRUE, FALSE or None
GroupStale(g, h) ==
    IF ~h[g].tried \/ UnsupportedOptionalGroup(g, h) THEN None
    ELSE IF h[g].fails >= FailureThreshold THEN TRUE
    ELSE IF ~h[g].read THEN (IF h[g].error = "other" THEN TRUE ELSE None)
    ELSE TooOld(g, h)

\* ReadHealth.failed
Failed(h, error) ==
    [tried |-> TRUE, read |-> h.read, fails |-> Min({h.fails + 1, FailureThreshold}),
     error |-> error, age |-> h.age]

Succeeded == [tried |-> TRUE, read |-> TRUE, fails |-> 0, error |-> None, age |-> 0]

-----------------------------------------------------------------------------
(* What a profile reads                                                    *)

\* _due_fields and _due_reads: the components of a plan the profile has.
Due(p) == DOMAIN Feeds[p] \ (IF hasSensor THEN {} ELSE {SensorComponent})

\* The groups of the components C, as _ReadJob collects them.
GroupsOf(p, C) == UNION {Feeds[p][c] : c \in C}

\* The groups of a plan that the room supports.
Supported(p) == GroupsOf(p, Due(p)) \union (IF p = FlowPlan THEN ModeGroups ELSE {})

\* _job_read_groups
JobReadGroups(p) == IF p = FlowPlan THEN GroupsOf(p, Due(p)) ELSE Supported(p)

\* Mutant: a pause only ends with an answered read.
BackedOffForGood(c) == pauses[c].failures > 0

\* _ReadBackoff.is_active
BackedOff(c) == pauses[c].left > 0

-----------------------------------------------------------------------------
(* External: how the components of one poll are answered.  A component     *)
(* that gets no answer pauses the unit, so the later ones are not sent; a  *)
(* timeout before anything answered fails the whole poll.                  *)

Delivered == {"value", "placeholder", "invalid"}
Refusals == {"acknowledge", "exception"}

\* The answers one component may get.
AnswersOf(c) ==
    IF c \in refused THEN {"exception"}
    ELSE IF c \in BridgeComponents THEN {"value", "silent"} \union Refusals
    ELSE IF ~alive THEN {"silent"}
    ELSE (IF c = SensorComponent /\ ~sensor THEN {"placeholder"} ELSE {"value"})
         \union Refusals \union {"invalid", "silent"}

Polls(C) ==
    {f \in [C -> Delivered \union Refusals \union {"silent", "unsent"}] :
        /\ \A c \in C : f[c] \in AnswersOf(c) \union {"unsent"}
        /\ \A c \in C : f[c] = "unsent" <=>
               \E d \in C : Order[d] < Order[c] /\ f[d] = "silent"}
    \union {f \in [C -> {"silent"}] :
               \E c \in C : /\ \A d \in C : Order[c] <= Order[d]
                            /\ "silent" \in AnswersOf(c)}

\* The poll of a unit that works, or of one that is dead.
Undisturbed(C, f) ==
    \A c \in C : \/ f[c] \in {"value", "placeholder"}
                 \/ c \in refused /\ f[c] = "exception"
                 \/ ~alive /\ c \notin BridgeComponents
                 \/ f[c] = "unsent"

ModeAnswers ==
    IF alive THEN {"value", "exception", "silent"} ELSE {"silent"}

-----------------------------------------------------------------------------
(* _ReadBackoff                                                            *)

\* mark_failure: the pause counts from the start of the read.
MarkFailure(b, steps) ==
    LET n == Min({b.failures + 1, Len(steps)})
    IN  [failures |-> n, left |-> steps[n]]

\* The back-offs after _poll: an Acknowledge, or any exception of an optional
\* diagnostic, pauses the component; anything else it was asked for ends the
\* pause.
PausesAfterPoll(C, f) ==
    [b \in Blocks |->
        IF b \notin C \/ f[b] = "unsent" THEN pauses[b]
        ELSE IF \/ f[b] = "acknowledge"
                \/ f[b] = "exception" /\ b \in OptionalComponents
        THEN MarkFailure(pauses[b], ComponentBackoff)
        ELSE NoPause]

-----------------------------------------------------------------------------
(* read_room: one job's requests and what they did to each group.  job is  *)
(* what _ReadJob and ReadJobOutcome hold; mode is None when the mode block *)
(* is not asked for.                                                       *)

\* Mutant: an answer of the gateway counts as one of the unit.
UnitAnsweredByBridge(C, f) == {c \in C : f[c] \in Delivered}

\* unit_success_groups leave out what the gateway answers for the unit.
UnitAnswered(C, f) == {c \in C : f[c] \in Delivered} \ BridgeComponents

ReadJob(p, C, f, mode) ==
    LET late == {c \in C : f[c] = "silent"}
        bad == {c \in C : f[c] \in Refusals \union {"silent", "invalid"}}
        good == UnitAnswered(C, f)
        modeFailed == p = FlowPlan /\ ~BackedOff(ModeBlock) /\ (late # {} \/ mode \in {"exception", "silent"})
        modeSilent == modeFailed /\ (late # {} \/ mode = "silent")
    IN  [errors |-> GroupsOf(p, bad) \union (IF modeFailed THEN ModeGroups ELSE {}),
         timeouts |-> GroupsOf(p, late) \union (IF modeSilent THEN ModeGroups ELSE {}),
         skipped |-> GroupsOf(p, (Due(p) \ C) \union {c \in C : f[c] = "unsent"})
                     \union (IF p = FlowPlan /\ BackedOff(ModeBlock) THEN ModeGroups ELSE {}),
         attempted |-> GroupsOf(p, C) \union (IF mode # None THEN ModeGroups ELSE {}),
         values |-> GroupsOf(p, {c \in good : f[c] = "value"}),
         successes |-> GroupsOf(p, good) \union (IF mode = "value" THEN ModeGroups ELSE {}),
         answered |-> (\E c \in C : f[c] \in Delivered \union Refusals)
                      \/ mode \in {"value", "exception"},
         unit |-> good # {} \/ mode = "value",
         silent |-> late # {} \/ mode = "silent"]

\* Mutant: a group counts as read although one of its components is backed off.
RecordedIgnoringSkips(p, job) == Supported(p)

\* The groups whose health the read updates.
Recorded(p, job) == {g \in Supported(p) : g \in job.errors \/ g \notin job.skipped}

\* _updated_read_health
UpdatedReadHealth(p, job) ==
    [g \in Groups |->
        IF g \notin Recorded(p, job) THEN health[g]
        ELSE IF g \in job.errors
        THEN Failed(health[g], IF g \in job.timeouts THEN "timeout" ELSE "other")
        ELSE Succeeded]

\* A measured value is "now" when the last read of its job delivered it, else "old".
Aged(v) == IF v = None THEN None ELSE "old"

\* The absolute humidity comes from the values of this very read.
AbsoluteHumidity(t, h) == IF None \in {t, h} THEN None ELSE <<t, h>>

\* _fresh_values and apply_mode_read: what the answered components delivered.
FreshValues(p, C, f, mode) ==
    LET measured(c) == IF c \in C /\ f[c] = "value" THEN "now" ELSE None
        t == measured(TemperatureComponent)
        h == measured(SensorComponent)
        noSensor == SensorComponent \in C /\ f[SensorComponent] = "placeholder"
        climate == Due(p) \intersect {TemperatureComponent, SensorComponent} # {}
    IN  [flow |-> data.flow \/ (p = FlowPlan /\ \E c \in C : f[c] = "value"),
         mode |-> data.mode \/ mode = "value",
         bridge |-> data.bridge \/ \E c \in C \intersect BridgeComponents : f[c] = "value",
         temperature |-> IF ~climate THEN data.temperature
                         ELSE IF t # None THEN t ELSE Aged(data.temperature),
         humidity |-> IF ~climate THEN data.humidity
                      ELSE IF h # None THEN h
                      ELSE IF noSensor THEN None ELSE Aged(data.humidity),
         absolute |-> IF climate THEN AbsoluteHumidity(t, h) ELSE data.absolute]

\* RoomState.has_data
HasData(d) == d.flow \/ d.mode \/ d.bridge \/ d.temperature # None \/ d.humidity # None

-----------------------------------------------------------------------------
(* coordinator.py                                                          *)

\* job_read_failure and job_read_succeeded, and read_failures after them.
FailuresAfter(p, job) ==
    LET recorded == JobReadGroups(p) \intersect Recorded(p, job)
        failed == recorded # {} /\ recorded \subseteq job.errors
        received == job.values \intersect JobReadGroups(p) # {}
        optionalRejection == job.answered /\ Supported(p) \subseteq OptionalGroups
        succeeded == received \/ (recorded \intersect job.successes) \ job.errors # {}
    IN  IF failed
        THEN IF received THEN 0
             ELSE IF optionalRejection THEN failures ELSE Min({failures + 1, UnavailableAfter})
        ELSE IF succeeded THEN 0 ELSE failures

\* _room_unavailable_reason is not None
UnavailableReason(n, wasAnswered, q) == n >= UnavailableAfter \/ (wasAnswered /\ q > SilentAfter)

\* room_available
RoomAvailable == ~UnavailableReason(failures, answered, quiet) /\ HasData(data)

\* MeltemEntity.available for an entity of the group
Shown(g) == RoomAvailable /\ GroupAvailable(g, health)

\* _log_room_availability
LogRoomAvailability(d, n, wasAnswered, q) ==
    logged' = IF UnavailableReason(n, wasAnswered, q) THEN TRUE
              ELSE logged /\ ~HasData(d)

\* _room_silent stretches the interval of a job.
JobInterval(p) == IF quiet > SilentAfter THEN Max({Interval[p], SilentInterval}) ELSE Interval[p]

-----------------------------------------------------------------------------
(* missing_sensors.py                                                      *)

\* Mutant: a value does not reset the count of placeholders.
MissingAfterNoReset(reading) ==
    IF reading = "placeholder" THEN Min({missing + 1, IssueAfter}) ELSE missing

\* _missing_reads after one reading of the sensor.
MissingAfter(reading) ==
    CASE reading = "value" -> 0
      [] reading = "placeholder" -> Min({missing + 1, IssueAfter})
      [] OTHER -> missing

\* MissingSensorIssues.record for the reading of the sensor, if there was one.
RecordSensor(reading) ==
    /\ missing' = MissingAfter(reading)
    /\ raised' = CASE reading = "value" -> FALSE
                   [] reading = "placeholder" -> raised \/ missing' >= IssueAfter
                   [] OTHER -> raised
    /\ registry' = IF raised' = raised THEN registry ELSE IF raised' THEN "active" ELSE "none"
    /\ row' = CASE reading = "value" -> 0
                [] reading = "placeholder" -> Min({row + 1, IssueAfter})
                [] OTHER -> row

\* Mutant: an issue of an earlier run is kept but not taken over.
RestoreIssuesUntracked(fitted, reg) ==
    registry' = (IF fitted THEN reg ELSE "none") /\ raised' = FALSE /\ missing' = 0

\* MissingSensorIssues.restore for the sensor of the profile.
RestoreIssues(fitted, reg) ==
    /\ registry' = IF fitted THEN reg ELSE "none"
    /\ raised' = (fitted /\ reg = "active")
    /\ missing' = IF raised' THEN IssueAfter ELSE 0

-----------------------------------------------------------------------------
(* Jobs                                                                    *)

\* A fault is a lost telegram or a refusal of a unit that works.
Disturb(lost, faulty) ==
    /\ lost \/ faulty => events.all < MaxEvents
    /\ events' = [all |-> events.all + (IF lost \/ faulty THEN 1 ELSE 0),
                  lost |-> events.lost + (IF lost THEN 1 ELSE 0),
                  refused |-> events.refused + (IF faulty /\ ~lost THEN 1 ELSE 0)]

\* What every read job does besides the reads.
RunJob(p) ==
    /\ due[p] = 0
    /\ \A q \in Plans : due[q] = 0 => JobOrder[p] <= JobOrder[q]
    /\ due' = [due EXCEPT ![p] = JobInterval(p)]
    /\ UNCHANGED <<alive, refused, sensor, hasSensor>>

\* The unit's recovery pause: nothing is sent, every group is skipped.
SkipJob(p) ==
    /\ delayed
    /\ RunJob(p)
    /\ LogRoomAvailability(data, failures, answered, quiet)
    /\ UNCHANGED <<health, pauses, delayed, quiet, answered, failures, data, since,
                   issues, events>>

\* _read_one_job with an answered or unanswered read.
ReadOneJob(p) ==
    LET C == {c \in Due(p) : ~BackedOff(c)}
    IN  /\ ~delayed
        /\ RunJob(p)
        /\ \E f \in Polls(C) :
           \E mode \in (IF p # FlowPlan \/ BackedOff(ModeBlock) \/ \E c \in C : f[c] = "silent"
                        THEN {None} ELSE ModeAnswers) :
             LET job == ReadJob(p, C, f, mode)
             IN  /\ Disturb(alive /\ job.silent, ~Undisturbed(C, f) \/ mode = "exception")
                 /\ health' = UpdatedReadHealth(p, job)
                 /\ pauses' = [PausesAfterPoll(C, f) EXCEPT ![ModeBlock] =
                                  CASE mode = "exception" -> MarkFailure(@, ModeBackoff)
                                    [] mode = "value" -> NoPause
                                    [] OTHER -> @]
                 /\ delayed' = job.silent
                 /\ quiet' = IF job.unit THEN 0 ELSE quiet
                 /\ answered' = (answered \/ job.unit)
                 /\ data' = FreshValues(p, C, f, mode)
                 /\ failures' = FailuresAfter(p, job)
                 /\ LogRoomAvailability(data', failures', answered', quiet')
                 /\ RecordSensor(IF SensorComponent \in C THEN f[SensorComponent] ELSE None)
                 /\ since' = [b \in Blocks |->
                                 IF (b \in C /\ f[b] \in {"value", "placeholder"})
                                    \/ (b = ModeBlock /\ mode = "value")
                                 THEN 0 ELSE since[b]]

\* record_read_failures: the read raised because the link was lost.
LostJob(p) ==
    LET C == {c \in Due(p) : ~BackedOff(c)}
    IN  /\ ~delayed
        /\ C # {} \/ p = FlowPlan
        /\ RunJob(p)
        /\ Disturb(TRUE, TRUE)
        /\ health' = [g \in Groups |->
                         IF g \in Supported(p) THEN Failed(health[g], "other") ELSE health[g]]
        /\ \E cleared \in {C, {}} :
              pauses' = [b \in Blocks |-> IF b \in cleared THEN NoPause ELSE pauses[b]]
        /\ delayed' = TRUE
        /\ failures' = Min({failures + 1, UnavailableAfter})
        /\ LogRoomAvailability(data, failures', answered, quiet)
        /\ UNCHANGED <<quiet, answered, data, since, issues>>

-----------------------------------------------------------------------------
(* The world around                                                        *)

Older(n, limit) == Min({n + 1, limit})

Tick ==
    /\ \A p \in Plans : due[p] > 0
    /\ due' = [p \in Plans |-> due[p] - 1]
    /\ health' = [g \in Groups |->
                     IF health[g].read
                     THEN [health[g] EXCEPT !.age = Older(@, StaleAfter[g] + 1)] ELSE health[g]]
    /\ pauses' = [b \in Blocks |->
                     [pauses[b] EXCEPT !.left = IF @ = 0 THEN 0 ELSE @ - 1]]
    /\ delayed' = FALSE
    /\ quiet' = Older(quiet, SilentAfter + 1)
    /\ since' = [b \in Blocks |-> Older(since[b], MaxAge)]
    /\ UNCHANGED <<answered, failures, logged, data, issues, world, events>>

\* The recovery pause is shorter than a flow interval, so jobs that are due
\* meanwhile may come before or after its end.
PauseEnds ==
    /\ delayed /\ \E p \in Plans : due[p] = 0
    /\ delayed' = FALSE
    /\ UNCHANGED <<due, health, pauses, quiet, answered, failures, logged, data, since,
                   issues, world, events>>

Change ==
    /\ events.all < MaxEvents
    /\ events' = [events EXCEPT !.all = @ + 1]

\* External: the unit goes dead for good.
Dies ==
    /\ alive /\ Change
    /\ alive' = FALSE
    /\ UNCHANGED <<reads, issues, refused, sensor, hasSensor>>

\* External: the sensor fails or comes back.
SensorChanges ==
    /\ Change
    /\ sensor' = ~sensor
    /\ UNCHANGED <<reads, issues, alive, refused, hasSensor>>

\* A new client and a new coordinator start from nothing: a reload, with
\* the same or another profile, or a restart of Home Assistant, which keeps an
\* issue of the registry but does not show it.
Reload(fitted, restart) ==
    /\ Change
    /\ due' = [p \in Plans |-> 0]
    /\ health' = [g \in Groups |-> NeverRead]
    /\ pauses' = [b \in Blocks |-> NoPause]
    /\ delayed' = FALSE /\ quiet' = 0 /\ answered' = FALSE
    /\ failures' = 0 /\ logged' = FALSE
    /\ data' = NoData
    /\ since' = [b \in Blocks |-> MaxAge]
    /\ hasSensor' = fitted
    /\ RestoreIssues(fitted, IF restart /\ registry = "active" THEN "inactive" ELSE registry)
    /\ UNCHANGED <<alive, refused, sensor, row>>

Init ==
    /\ due = [p \in Plans |-> 0]
    /\ health = [g \in Groups |-> NeverRead]
    /\ pauses = [b \in Blocks |-> NoPause]
    /\ delayed = FALSE /\ quiet = 0 /\ answered = FALSE
    /\ failures = 0 /\ logged = FALSE
    /\ data = NoData
    /\ since = [b \in Blocks |-> MaxAge]
    /\ missing = 0 /\ raised = FALSE /\ registry = "none" /\ row = 0
    /\ alive = TRUE /\ refused \in {{}, OptionalComponents}
    /\ sensor \in BOOLEAN /\ hasSensor = TRUE
    /\ events = [all |-> 0, lost |-> 0, refused |-> 0]

Next ==
    \/ \E p \in Plans : SkipJob(p) \/ ReadOneJob(p) \/ LostJob(p)
    \/ Tick \/ PauseEnds \/ Dies \/ SensorChanges
    \/ \E fitted, restart \in BOOLEAN : Reload(fitted, restart)

\* Time passes, and the scheduler runs every due job (PollSchedule.EveryJobRead).
Fairness == WF_vars(Tick) /\ []<>(\A p \in Plans : due[p] > 0)

Spec == Init /\ [][Next]_vars /\ Fairness

-----------------------------------------------------------------------------
(* Properties                                                              *)

TypeOK ==
    /\ due \in [Plans -> Nat] /\ quiet \in 0..(SilentAfter + 1) /\ failures \in 0..UnavailableAfter
    /\ \A g \in Groups :
          /\ health[g] \in [tried: BOOLEAN, read: BOOLEAN, fails: 0..FailureThreshold,
                            error: {None, "timeout", "other"}, age: 0..(StaleAfter[g] + 1)]
          /\ health[g].read => health[g].tried
    /\ pauses \in [Blocks -> [failures: Nat, left: Nat]]
    /\ {delayed, answered, logged, raised, hasSensor, alive, sensor} \subseteq BOOLEAN
    /\ missing \in 0..IssueAfter /\ row \in 0..IssueAfter
    /\ registry \in {"none", "active", "inactive"}
    /\ refused \subseteq Components

\* The blocks whose values the entities of a group show.
BlocksOf(g) ==
    {c \in Components : \E p \in Plans : c \in Due(p) /\ g \in Feeds[p][c]}
    \union (IF g \in ModeGroups THEN {ModeBlock} ELSE {})

\* No entity shows a frozen value: while a group is available, every register
\* block behind it was read within the stale limit, also when one of several
\* blocks of the group is backed off and the others are read on.
AvailableIsCurrent ==
    \A g \in Groups : Shown(g) => \A b \in BlocksOf(g) : since[b] <= StaleAfter[g]

\* "One lost telegram does not flap every entity of the unit": an available
\* group of a working unit stays available over one unanswered job.
NoFlapping ==
    [][(alive' /\ events'.lost <= 1 /\ events'.refused = 0 /\ data' # NoData)
        => \A g \in Groups : Shown(g) => Shown(g)']_vars

\* A unit that went dead becomes unavailable for good, although the gateway
\* keeps answering the reads of its RF diagnostics.
DeadUnitShown == ~alive ~> [](~RoomAvailable)

\* The groups the unit can deliver.
Deliverable ==
    {g \in UNION {Supported(p) : p \in Plans} : BlocksOf(g) \intersect refused = {}}

\* Whatever failed, a unit that works again becomes available with every
\* group it can deliver, and the recovery is logged.
Recovers ==
    <>[](~alive \/ (failures = 0 /\ ~logged /\ \A g \in Deliverable : Shown(g)))

\* Without faults a diagnostic that the unit's firmware lacks neither counts
\* as a failed read of the room nor turns its data health bad.
UnsupportedIsQuiet ==
    alive /\ events.lost + events.refused = 0 =>
        failures = 0 /\ \A g \in Groups : GroupStale(g, health) # TRUE

\* The absolute humidity belongs to the temperature and humidity shown, and
\* these two were measured together.
DerivedConsistent ==
    data.absolute # None =>
        /\ data.absolute = <<data.temperature, data.humidity>>
        /\ data.temperature = data.humidity

\* The issue shown is the one the coordinator knows of, over reloads, profile
\* changes and restarts, and enough placeholders in a row justify it.
IssueJustified ==
    /\ raised <=> registry = "active"
    /\ raised => hasSensor /\ row >= IssueAfter

\* What is derived from reads agrees with them: health, diagnostics the unit
\* lacks, the absolute humidity and the issue for a missing sensor.
HealthConsistent == TypeOK /\ UnsupportedIsQuiet /\ DerivedConsistent /\ IssueJustified

\* An issue goes once the sensor reports, and comes when it stays missing.
IssueFollowsSensor ==
    <>[](alive /\ hasSensor => ((registry = "active") <=> ~sensor))
=============================================================================
