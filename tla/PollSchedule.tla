---------------------------- MODULE PollSchedule ----------------------------
(***************************************************************************)
(* coordinator.py and polling.py: when the next poll tick runs and which   *)
(* job it reads.                                                           *)
(*                                                                         *)
(* Jobs are numbered in the order of poll_jobs.  A next_due in the future  *)
(* is a timer; the jobs that are due are a queue in the order of their due *)
(* times, which is all that select_due_job looks at.  A tick is            *)
(* "polling" until it has _gateway_lock, then "reading" its job.  The      *)
(* optional values are one value here: OptionalRead has the details.       *)
(***************************************************************************)
EXTENDS Integers, Sequences, FiniteSetsExt

CONSTANTS
    Rooms,
    NJobs,            \* the number of poll jobs
    Room,             \* the unit of each job
    Interval,         \* interval_seconds of each job
    Stagger,          \* the first due time of each job, from build_jobs
    OptionalJobs,     \* the jobs with optional diagnostic groups only
    SilentInterval,   \* SILENT_ROOM_POLL_SECONDS
    UnreadRetry,      \* UNREAD_GROUP_RETRY_SECONDS
    BackoffAfter,     \* TRANSPORT_BACKOFF_AFTER_FAILURES
    BackoffStart,     \* TRANSPORT_BACKOFF_START_SECONDS
    BackoffMax,       \* TRANSPORT_BACKOFF_MAX_SECONDS
    Rates,            \* the values of _tick_seconds
    OptionalRefresh,  \* the refresh interval of an optional value
    MaxChanges,       \* bound on calls from outside: rates, consumers, readbacks
    None

Jobs == 1 .. NJobs

ASSUME JobsAssumption ==
    /\ NJobs \in Nat \ {0}
    /\ Room \in [Jobs -> Rooms]
    /\ Interval \in [Jobs -> Nat \ {0}]
    /\ Stagger \in [Jobs -> Nat]
    /\ OptionalJobs \subseteq Jobs
ASSUME TimesAssumption ==
    /\ SilentInterval \in Nat \ {0} /\ UnreadRetry \in Nat \ {0}
    /\ BackoffAfter \in Nat \ {0} /\ BackoffStart \in Nat \ {0}
    /\ BackoffMax \in Nat /\ BackoffMax >= BackoffStart
    /\ Rates \subseteq Nat \ {0} /\ (\E r \in Rates : \A s \in Rates : s <= r)
    /\ OptionalRefresh \in Nat \ {0}
    /\ MaxChanges \in Nat
ASSUME NoneAssumption == None \notin Int
\* What powers of two are, which the prover does not know.
ASSUME PowersAssumption ==
    2^0 = 1 /\ \A n \in 0 .. BackoffMax : 2^(n + 1) = 2 * 2^n

VARIABLES
    phase,        \* the tick: "idle", "polling" (_poll_running) or "reading"
    job,          \* what a reading tick reads: the job, and whether it is a
                  \* first-pass job
    timer,        \* time to the planned tick; None: no _cancel_poll_timer
    nextDelay,    \* _next_poll_delay
    due,          \* per job the time until next_due, 0 once it has passed
    queue,        \* the jobs that are due, the longest due first
    startup,      \* _startup_jobs; a set, it is emptied in job order
    startupTurn,  \* _startup_turn
    known,        \* per job "never", "refused" or "read", for never_read
    hasData,      \* the units with a state value
    silent,       \* the units that gave no answer for a long time
    failures,     \* _consecutive_transport_failures, up to the longest back-off
    backoff,      \* _backoff_seconds
    optional,     \* time until the optional value is due; None: disabled
    tickSeconds,  \* _tick_seconds
    sinceRead,    \* time since _last_read_started, up to the slowest rate
    stopped,      \* _polling_stopped or hass.is_stopping
    changes,      \* the calls from outside so far
    lastFirstPass \* history: the last job read was a first-pass job

plan == <<timer, nextDelay>>
queues == <<due, queue, startup, startupTurn>>
units == <<known, hasData, silent>>
link == <<failures, backoff>>
vars == <<phase, job, timer, nextDelay, due, queue, startup, startupTurn, known,
          hasData, silent, failures, backoff, optional, tickSeconds, sinceRead,
          stopped, changes, lastFirstPass>>

NoJob == [job |-> None, startup |-> FALSE]

Outcomes == {"read", "partial", "refused", "unanswered", "skipped"}

-----------------------------------------------------------------------------
(* polling.py                                                              *)

\* The doublings from the first back-off to the longest.
Doublings ==
    CHOOSE n \in 0 .. BackoffMax :
        /\ BackoffStart * 2^n >= BackoffMax
        /\ n > 0 => BackoffStart * 2^(n - 1) < BackoffMax

\* Counting further failures changes nothing any more.
MaxFailures == BackoffAfter + Doublings

BackoffSeconds(n) ==
    IF n < BackoffAfter THEN None
    ELSE Min({BackoffMax, BackoffStart * 2^Min({n - BackoffAfter, Doublings})})

NeverRead(j, k) == k[j] = "never"

\* The intervals a job may get; the age of the integration, which delays the
\* retry of a group that was never read, only grows and may be anything.
JobIntervals(j, never, quiet) ==
    LET base == IF never
                THEN {Min({Interval[j], Max({UnreadRetry, e})}) : e \in 0 .. Interval[j]}
                ELSE {Interval[j]}
    IN  IF Room[j] \in quiet THEN {Max({i, SilentInterval}) : i \in base} ELSE base

\* select_due_job over the jobs that are not excluded.
DueJob(excluded) ==
    LET waiting == {i \in DOMAIN queue : queue[i] \notin excluded}
    IN  IF waiting = {} THEN None ELSE queue[Min(waiting)]

\* Jobs that become due together, in the order of poll_jobs: of those with the
\* least due time min takes the first.
InOrder(jobs) ==
    [i \in 1 .. Cardinality(jobs) |->
        CHOOSE j \in jobs : Cardinality({k \in jobs : k < j}) = i - 1]

\* The delay _schedule_next_tick computes.
WakeUp(d, first, opt, rate) ==
    LET jobs == IF first # {} THEN rate ELSE Max({rate, Min({d[j] : j \in Jobs})})
    IN  IF opt = None THEN jobs ELSE Min({jobs, Max({rate, opt})})

-----------------------------------------------------------------------------
TypeOK ==
    /\ phase \in {"idle", "polling", "reading"}
    /\ job \in {NoJob} \union [job : Jobs, startup : BOOLEAN]
    /\ timer \in Nat \union {None} /\ nextDelay \in Nat
    /\ due \in [Jobs -> Nat]
    /\ queue \in Seq(Jobs)
    /\ {queue[i] : i \in 1 .. Len(queue)} = {j \in Jobs : due[j] = 0}
    /\ startup \subseteq Jobs /\ startupTurn \in BOOLEAN
    /\ known \in [Jobs -> {"never", "refused", "read"}]
    /\ hasData \subseteq Rooms /\ silent \subseteq Rooms
    /\ failures \in 0 .. MaxFailures
    /\ backoff \in Nat \union {None} /\ optional \in Nat \union {None}
    /\ tickSeconds \in Rates /\ sinceRead \in 0 .. Max(Rates)
    /\ stopped \in BOOLEAN /\ changes \in 0 .. MaxChanges
    /\ lastFirstPass \in BOOLEAN

Init ==
    /\ phase = "idle" /\ job = NoJob
    /\ timer = None /\ tickSeconds \in Rates /\ nextDelay = tickSeconds
    /\ due = Stagger
    /\ queue = InOrder({j \in Jobs : Stagger[j] = 0})
    /\ startup = Jobs /\ startupTurn = TRUE
    /\ known = [j \in Jobs |-> "never"] /\ hasData = {} /\ silent = {}
    /\ failures = 0 /\ backoff = None /\ optional = None
    /\ sinceRead = Max(Rates)
    /\ stopped = FALSE /\ changes = 0 /\ lastFirstPass = FALSE

-----------------------------------------------------------------------------
(* Planning                                                                *)

\* _async_set_next_poll_delay: a tick that waits moves at once.
SetNextPollDelay(seconds) ==
    /\ nextDelay' = seconds
    /\ timer' = IF phase = "idle" /\ timer # None THEN seconds ELSE timer

\* _schedule_next_tick called from outside a tick.
ScheduleNextTick(opt, rate) ==
    IF backoff # None THEN UNCHANGED plan
    ELSE SetNextPollDelay(WakeUp(due, startup, opt, rate))

\* Mutant: a tick that was shut down while it ran plans another one.
EndTickAlways ==
    /\ phase' = "idle" /\ job' = NoJob
    /\ timer' = nextDelay'

\* The end of async_poll: _async_schedule_poll with the delay planned last.
EndTick ==
    /\ phase' = "idle" /\ job' = NoJob
    /\ timer' = IF stopped THEN None ELSE nextDelay'

-----------------------------------------------------------------------------
(* The tick                                                                *)

\* The setup runs the first tick, the timer all others.
Poll ==
    /\ phase = "idle" /\ ~stopped
    /\ timer = 0 \/ (timer = None /\ startup = Jobs)
    /\ phase' = "polling" /\ timer' = None
    /\ UNCHANGED <<job, nextDelay, queues, units, link, optional, tickSeconds,
                   sinceRead, stopped, changes, lastFirstPass>>

\* An optional value that is due is read, which takes the read slot.
ReadOptional(allowed) ==
    IF allowed /\ optional = 0
    THEN optional' = OptionalRefresh /\ sinceRead' = 0
    ELSE UNCHANGED <<optional, sinceRead>>

\* Whether a pending first-pass job is next, rather than a job that is due.
FirstPassTurn(regular) == regular = None \/ startupTurn

\* _select_poll_job, once the rate allows a read.
Selected ==
    LET regular == DueJob(startup)
    IN  IF startup # {} /\ FirstPassTurn(regular)
        THEN [job |-> Min(startup), startup |-> TRUE]
        ELSE [job |-> regular, startup |-> FALSE]

\* A job with a new due time is not due any more.
Without(j) ==
    LET places == {i \in DOMAIN queue : queue[i] = j}
        place == Min(places)
    IN  IF places = {} THEN queue
        ELSE SubSeq(queue, 1, place - 1) \o SubSeq(queue, place + 1, Len(queue))

\* Mutant: the job keeps its due time until it was read.
MovedForwardLater(j, interval) == UNCHANGED <<due, queue>>

\* The job gets its next due time before it is read.
MovedForward(j, interval) ==
    /\ due' = [due EXCEPT ![j] = interval]
    /\ queue' = Without(j)

\* _async_update_data up to the read of its job.
StartJob ==
    \E j \in Jobs, first \in BOOLEAN :
        /\ phase = "polling" /\ sinceRead >= tickSeconds
        /\ Selected = [job |-> j, startup |-> first]
        /\ phase' = "reading" /\ job' = Selected
        /\ startup' = IF first THEN startup \ {j} ELSE startup
        /\ startupTurn' = IF startup = {} THEN startupTurn ELSE ~first
        /\ \E i \in JobIntervals(j, FALSE, silent) : MovedForward(j, i)
        /\ sinceRead' = 0
        /\ lastFirstPass' = first
        /\ UNCHANGED <<plan, units, link, optional, tickSeconds, stopped, changes>>

\* _async_update_data without a job: the rate forbids one or none is due.
NoJobDue ==
    /\ phase = "polling" /\ (sinceRead < tickSeconds \/ Selected.job = None)
    /\ ReadOptional(TRUE)
    /\ nextDelay' = IF backoff # None THEN nextDelay
                    ELSE WakeUp(due, startup, optional', tickSeconds)
    /\ EndTick
    /\ UNCHANGED <<queues, units, link, tickSeconds, stopped, changes, lastFirstPass>>

\* never_read: a refused optional diagnostic counts as read until it times out.
KnownAfter(j, outcome) ==
    IF outcome = "read" THEN "read"
    ELSE IF known[j] = "read" \/ j \notin OptionalJobs THEN known[j]
    ELSE CASE outcome = "refused" -> "refused"
           [] outcome = "unanswered" -> "never"
           [] OTHER -> known[j]

\* _on_transport_success.
LinkSuccess ==
    /\ failures' = 0
    /\ backoff' = None

\* _on_transport_failure.
LinkFailure ==
    /\ failures' = Min({failures + 1, MaxFailures})
    /\ backoff' = IF BackoffSeconds(failures') = None THEN backoff
                  ELSE BackoffSeconds(failures')

LinkAfter(outcome) ==
    \/ outcome = "unanswered" /\ LinkFailure
    \/ outcome \in {"read", "partial", "refused"} /\ LinkSuccess
    \/ outcome = "skipped" /\ UNCHANGED link

\* The delay that _apply_transport_backoff, the startup failure or
\* _schedule_next_tick left last.
DelayAfter(data) ==
    IF backoff' # None
    THEN IF backoff' # backoff THEN backoff' ELSE nextDelay
    ELSE IF data = {} THEN BackoffStart
    ELSE WakeUp(due', startup, optional', tickSeconds)

\* _async_update_data after the read of its job.
EndJob(outcome) ==
    LET j == job.job
    IN  /\ phase = "reading"
        /\ known' = [known EXCEPT ![j] = KnownAfter(j, outcome)]
        /\ IF outcome \in {"read", "partial"}
           THEN hasData' = hasData \union {Room[j]} /\ silent' = silent \ {Room[j]}
           ELSE UNCHANGED <<hasData, silent>>
        /\ ReadOptional(outcome # "unanswered")
        /\ IF job.startup \/ NeverRead(j, known')
           THEN \E i \in JobIntervals(j, NeverRead(j, known'), silent') :
                    /\ due' = [due EXCEPT ![j] = i]
                    /\ queue' = Without(j)
           ELSE UNCHANGED <<due, queue>>
        /\ LinkAfter(outcome)
        /\ nextDelay' = DelayAfter(hasData')
        /\ EndTick
        /\ UNCHANGED <<startup, startupTurn, tickSeconds, stopped, changes, lastFirstPass>>

-----------------------------------------------------------------------------
(* Calls from outside                                                      *)

\* update_request_rate.
UpdateRequestRate(rate) ==
    /\ changes < MaxChanges /\ rate # tickSeconds
    /\ tickSeconds' = rate /\ changes' = changes + 1
    /\ ScheduleNextTick(optional, rate)
    /\ UNCHANGED <<phase, job, queues, units, link, optional, sinceRead, stopped,
                   lastFirstPass>>

\* Mutant: the planned tick stays where it is.
SetOptionalEnabledQuietly ==
    /\ changes < MaxChanges /\ ~stopped
    /\ optional' = IF optional = None THEN 0 ELSE None
    /\ changes' = changes + 1
    /\ UNCHANGED <<phase, job, plan, queues, units, link, tickSeconds, sinceRead,
                   stopped, lastFirstPass>>

\* _set_optional_read_enabled for the first or the last consumer.
SetOptionalEnabled ==
    /\ changes < MaxChanges /\ ~stopped
    /\ optional' = IF optional = None THEN 0 ELSE None
    /\ changes' = changes + 1
    /\ ScheduleNextTick(optional', tickSeconds)
    /\ UNCHANGED <<phase, job, queues, units, link, tickSeconds, sinceRead, stopped,
                   lastFirstPass>>

\* _async_refresh_room_after_write: the readback of a command, which holds the
\* lock, from its read slot to its end.
Readback ==
    /\ changes < MaxChanges /\ phase # "reading" /\ sinceRead >= tickSeconds
    /\ sinceRead' = 0 /\ changes' = changes + 1
    /\ UNCHANGED <<phase, job, plan, queues, units, link, optional, tickSeconds,
                   stopped, lastFirstPass>>

\* No read of the unit succeeded for ROOM_SILENT_AFTER_SECONDS.
FallsSilent(r) ==
    /\ r \notin silent
    /\ silent' = silent \union {r}
    /\ UNCHANGED <<phase, job, plan, queues, known, hasData, link, optional,
                   tickSeconds, sinceRead, stopped, changes, lastFirstPass>>

\* async_shutdown.
Shutdown ==
    /\ ~stopped
    /\ stopped' = TRUE /\ timer' = None /\ optional' = None
    /\ UNCHANGED <<phase, job, nextDelay, queues, units, link, tickSeconds,
                   sinceRead, changes, lastFirstPass>>

Less(t) == IF t = None \/ t = 0 THEN t ELSE t - 1

\* The clock.
Tick ==
    /\ timer' = Less(timer) /\ optional' = Less(optional)
    /\ due' = [j \in Jobs |-> Less(due[j])]
    /\ queue' = queue \o InOrder({j \in Jobs : due[j] = 1})
    /\ sinceRead' = Min({sinceRead + 1, Max(Rates)})
    /\ UNCHANGED <<phase, job, nextDelay, startup, startupTurn, units, link,
                   tickSeconds, stopped, changes, lastFirstPass>>

Next ==
    \/ Poll
    \/ StartJob
    \/ NoJobDue
    \/ \E outcome \in Outcomes : EndJob(outcome)
    \/ \E rate \in Rates : UpdateRequestRate(rate)
    \/ SetOptionalEnabled
    \/ Readback
    \/ \E r \in Rooms : FallsSilent(r)
    \/ Shutdown
    \/ Tick

Spec == Init /\ [][Next]_vars

\* Timers fire, the lock is given back, the link layer ends every read and
\* time passes.
Fairness ==
    /\ WF_vars(Poll) /\ WF_vars(StartJob \/ NoJobDue)
    /\ WF_vars(\E outcome \in Outcomes : EndJob(outcome))
    /\ WF_vars(Tick)

FairSpec == Spec /\ Fairness

-----------------------------------------------------------------------------
(* Properties                                                              *)

\* Polling never dies and never runs twice: after the first tick began, a
\* tick runs or exactly one is planned, until polling stops; then none is
\* (async_poll, _async_set_next_poll_delay, async_shutdown).
OneTickAhead ==
    /\ stopped => timer = None
    /\ ~stopped /\ startup # Jobs => (timer = None <=> phase # "idle")

\* The back-off is the one of the present run of failures, and the next tick
\* is planned by it, whatever is called from outside meanwhile
\* (_on_transport_failure, _on_transport_success, _schedule_next_tick).
BackoffFollowsFailures ==
    /\ backoff = BackoffSeconds(failures)
    /\ backoff # None => nextDelay = backoff

\* Polling is always planned: the state is well formed, one tick is ahead and
\* the back-off is the one of the present failures.
PlanConsistent == TypeOK /\ OneTickAhead /\ BackoffFollowsFailures

\* Once there is data and the link answers, a waiting tick comes no later
\* than the earliest job or optional value is due, but for the request rate;
\* calls from outside and ticks without a job included (_schedule_next_tick).
WakesInTime ==
    phase = "idle" /\ timer # None /\ backoff = None /\ hasData # {}
        => timer <= WakeUp(due, startup, optional, tickSeconds)

\* While first-pass jobs are pending, two of them follow each other only if
\* no job that was read already is due (_select_poll_job).
WarmUpAlternates ==
    [][StartJob /\ lastFirstPass /\ job'.startup => DueJob(startup) = None]_vars

\* Every job is read again and again, however silent its unit or the others
\* are and whatever fails, until polling stops.
EveryJobRead ==
    \A j \in Jobs : []<>(stopped \/ (phase = "reading" /\ job.job = j))
=============================================================================
