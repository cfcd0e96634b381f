---------------------------- MODULE OptionalRead ----------------------------
(***************************************************************************)
(* gateway_reads.py: one OptionalGatewayRead, a value that is read in the  *)
(* poll tick while at least one entity needs it.                           *)
(*                                                                         *)
(* Three actors share its state on the event loop: the poll tick, which    *)
(* awaits the read; the task that performs the read; and the callbacks     *)
(* that add and remove consumers, stop polling or cancel the tick between  *)
(* two steps of the others.  A task that is done has a result, and the     *)
(* tick sees it only when it is resumed.                                   *)
(***************************************************************************)
EXTENDS Integers, FiniteSetsExt

CONSTANTS
    Consumers,       \* the entities that may need the value
    Refresh,         \* refresh_seconds
    Retry,           \* retry_seconds
    FirstDelay,      \* first_read_delay
    ClearOnDisable   \* clear_on_disable

ASSUME DelaysAssumption ==
    Refresh \in Nat \ {0} /\ Retry \in Nat \ {0} /\ FirstDelay \in Nat
ASSUME ClearAssumption == ClearOnDisable \in BOOLEAN

\* The powers of two as far as a retry delay needs them; the proofs know no
\* exponentiation.
ASSUME PowersAssumption ==
    2^0 = 1 /\ \A n \in 0 .. Refresh : 2^(n + 1) = 2 * 2^n

VARIABLES
    consumers,      \* _consumers
    tick,           \* the poll tick: "idle", "running", or "reading" this value
    task,           \* _task: "none", "running", "cancelling" or its result
    disabled,       \* _disable_generation moved since the read began
    due,            \* time until _next_due, 0 when it has passed
    failures,       \* _failures
    value,          \* _value: "none", "current", or "earlier" for one that was
                    \* requested before the last disabling
    stopped,        \* _polling_stopped or hass.is_stopping
    cancelled,      \* the tick was asked to cancel
    mustCancel,     \* ... after its task was done: it is cancelled on resuming
    ended,          \* how the last tick left this read: "none", "returned", "raised"
    attempted       \* history: a read began since the value was last enabled

vars == <<consumers, tick, task, disabled, due, failures, value, stopped,
          cancelled, mustCancel, ended, attempted>>

Enabled == consumers # {}

Results == {"value", "failed", "cancelled"}

RetrySeconds == Min({Retry, Refresh})

\* Mutant: the logarithm is rounded down.
DoublingsFloor ==
    CHOOSE n \in 0 .. Refresh :
        RetrySeconds * 2^n <= Refresh /\ RetrySeconds * 2^(n + 1) > Refresh

\* The doublings after which a retry waits the whole refresh interval.
Doublings ==
    CHOOSE n \in 0 .. Refresh :
        /\ RetrySeconds * 2^n >= Refresh
        /\ n > 0 => RetrySeconds * 2^(n - 1) < Refresh

MaxFailures == 1 + Doublings

\* The delay after the n-th failure in a row.
RetryAfter(n) == Min({Refresh, RetrySeconds * 2^(n - 1)})

TypeOK ==
    /\ consumers \subseteq Consumers
    /\ tick \in {"idle", "running", "reading"}
    /\ task \in {"none", "running", "cancelling"} \union Results
    /\ due \in 0 .. Max({Refresh, FirstDelay})
    /\ failures \in 0 .. MaxFailures
    /\ value \in {"none", "current", "earlier"}
    /\ {disabled, stopped, cancelled, mustCancel, attempted} \subseteq BOOLEAN
    /\ ended \in {"none", "returned", "raised"}
    /\ task # "none" <=> tick = "reading"

Init ==
    /\ consumers = {} /\ tick = "idle" /\ task = "none" /\ disabled = FALSE
    /\ due = 0 /\ failures = 0 /\ value = "none" /\ stopped = FALSE
    /\ cancelled = FALSE /\ mustCancel = FALSE /\ ended = "none"
    /\ attempted = FALSE

-----------------------------------------------------------------------------
(* Consumers                                                               *)

\* task.cancel(): a task that is done keeps its result.
Cancelled(t) == IF t = "running" THEN "cancelling" ELSE t

\* set_enabled(consumer, True): the first consumer plans the first read.
SetEnabled(c) ==
    /\ ~stopped /\ c \notin consumers
    /\ consumers' = consumers \union {c}
    /\ IF Enabled
       THEN UNCHANGED <<due, attempted>>
       ELSE due' = FirstDelay /\ attempted' = FALSE
    /\ UNCHANGED <<tick, task, disabled, failures, value, stopped, cancelled,
                   mustCancel, ended>>

\* Mutant: a read in flight goes on.
DisableKeepsRead ==
    /\ disabled' = (disabled \/ task # "none")
    /\ value' = IF ClearOnDisable \/ value = "none" THEN "none" ELSE "earlier"
    /\ task' = task

\* What losing the last consumer does to a value and to its read in flight.
Disable ==
    /\ disabled' = (disabled \/ task # "none")
    /\ value' = IF ClearOnDisable \/ value = "none" THEN "none" ELSE "earlier"
    /\ task' = Cancelled(task)

\* set_enabled(consumer, False).
SetDisabled(c) ==
    /\ c \in consumers
    /\ consumers' = consumers \ {c}
    /\ IF consumers' = {} THEN Disable ELSE UNCHANGED <<disabled, value, task>>
    /\ UNCHANGED <<tick, due, failures, stopped, cancelled, mustCancel, ended,
                   attempted>>

\* async_shutdown: polling stops and every consumer is removed.
Shutdown ==
    /\ ~stopped
    /\ stopped' = TRUE
    /\ consumers' = {}
    /\ IF Enabled THEN Disable ELSE UNCHANGED <<disabled, value, task>>
    /\ UNCHANGED <<tick, due, failures, cancelled, mustCancel, ended, attempted>>

\* Home Assistant stops: no tick starts, and no entry is unloaded.
StopHass ==
    /\ ~stopped
    /\ stopped' = TRUE
    /\ UNCHANGED <<consumers, tick, task, disabled, due, failures, value,
                   cancelled, mustCancel, ended, attempted>>

-----------------------------------------------------------------------------
(* The poll tick                                                           *)

\* async_poll, up to the point where it looks at this value.
StartTick ==
    /\ tick = "idle" /\ ~stopped
    /\ tick' = "running"
    /\ UNCHANGED <<consumers, task, disabled, due, failures, value, stopped,
                   cancelled, mustCancel, ended, attempted>>

\* async_read_if_due with nothing to do.
SkipRead ==
    /\ tick = "running" /\ ~(Enabled /\ due = 0)
    /\ tick' = "idle"
    /\ UNCHANGED <<consumers, task, disabled, due, failures, value, stopped,
                   cancelled, mustCancel, ended, attempted>>

\* The tick ends before the optional reads: its job met a failing link.
LinkFails ==
    /\ tick = "running"
    /\ tick' = "idle"
    /\ UNCHANGED <<consumers, task, disabled, due, failures, value, stopped,
                   cancelled, mustCancel, ended, attempted>>

\* async_read_if_due up to its await.
StartRead ==
    /\ tick = "running" /\ Enabled /\ due = 0
    /\ tick' = "reading" /\ task' = "running" /\ disabled' = FALSE
    /\ attempted' = TRUE
    /\ UNCHANGED <<consumers, due, failures, value, stopped, cancelled,
                   mustCancel, ended>>

\* The task ends by itself, or delivers the cancellation it was sent.
TaskReturns(r) ==
    /\ task = "running" /\ r \in {"value", "failed"}
    /\ task' = r
    /\ UNCHANGED <<consumers, tick, disabled, due, failures, value, stopped,
                   cancelled, mustCancel, ended, attempted>>

TaskCancelled ==
    /\ task = "cancelling"
    /\ task' = "cancelled"
    /\ UNCHANGED <<consumers, tick, disabled, due, failures, value, stopped,
                   cancelled, mustCancel, ended, attempted>>

\* The tick's task is cancelled: the unload cancels the background tasks of
\* the entry, the stop of Home Assistant all of them.  The cancellation goes
\* to the awaited task, or waits for the resumption if that task is done.
CancelTick ==
    /\ tick # "idle" /\ stopped /\ ~cancelled
    /\ cancelled' = TRUE
    /\ task' = Cancelled(task)
    /\ mustCancel' = (task \in Results)
    /\ IF tick = "running"
       THEN tick' = "idle" /\ ended' = "raised"
       ELSE UNCHANGED <<tick, ended>>
    /\ UNCHANGED <<consumers, disabled, due, failures, value, stopped, attempted>>

-----------------------------------------------------------------------------
(* The tick resumes after its await.                                       *)

\* Mutant: a disabling in between is ignored.
FinallyPlain(delay) ==
    /\ tick' = "idle" /\ task' = "none"
    /\ due' = delay

\* The finally clause: the next due time, sooner after a disabling in between.
Finally(delay) ==
    /\ tick' = "idle" /\ task' = "none"
    /\ due' = IF Enabled /\ disabled THEN FirstDelay ELSE delay

ReadValue ==
    /\ task = "value" /\ ~mustCancel
    /\ value' = IF disabled THEN "earlier" ELSE "current"
    /\ failures' = 0
    /\ ended' = "returned"
    /\ Finally(Refresh)
    /\ UNCHANGED <<consumers, disabled, stopped, cancelled, mustCancel, attempted>>

\* MeltemModbusError: the retry delay doubles up to the refresh interval.
ReadFailed ==
    /\ task = "failed" /\ ~mustCancel
    /\ failures' = Min({failures + 1, MaxFailures})
    /\ ended' = "returned"
    /\ Finally(RetryAfter(failures'))
    /\ UNCHANGED <<consumers, disabled, value, stopped, cancelled, mustCancel,
                   attempted>>

\* Mutant: the check looks at the consumers, not at the generation.
SwallowsIfUnwanted == ~Enabled

\* CancelledError: it ends here if the value was disabled since the read
\* began, and otherwise goes on to end the tick.
Swallows == disabled

ReadCancelled ==
    /\ task = "cancelled" \/ (task \in Results /\ mustCancel)
    /\ ended' = IF Swallows THEN "returned" ELSE "raised"
    /\ mustCancel' = FALSE
    /\ Finally(Refresh)
    /\ UNCHANGED <<consumers, disabled, failures, value, stopped, cancelled,
                   attempted>>

Resume == ReadValue \/ ReadFailed \/ ReadCancelled

-----------------------------------------------------------------------------
\* The clock.
Tick ==
    /\ due > 0
    /\ due' = due - 1
    /\ UNCHANGED <<consumers, tick, task, disabled, failures, value, stopped,
                   cancelled, mustCancel, ended, attempted>>

Next ==
    \/ \E c \in Consumers : SetEnabled(c) \/ SetDisabled(c)
    \/ Shutdown
    \/ StopHass
    \/ StartTick
    \/ SkipRead
    \/ LinkFails
    \/ StartRead
    \/ \E r \in {"value", "failed"} : TaskReturns(r)
    \/ TaskCancelled
    \/ CancelTick
    \/ ReadValue
    \/ ReadFailed
    \/ ReadCancelled
    \/ Tick

Spec == Init /\ [][Next]_vars

\* The event loop runs what is ready, the poll timer fires and time passes.
\* A tick that begins gets past its job, and not every one of them meets a
\* failing link.  Nothing says that a read is ever answered.
Fairness ==
    /\ WF_vars(StartTick) /\ WF_vars(SkipRead) /\ SF_vars(StartRead)
    /\ WF_vars(TaskCancelled) /\ WF_vars(Resume) /\ WF_vars(Tick)

FairSpec == Spec /\ Fairness

-----------------------------------------------------------------------------
(* Properties                                                              *)

\* A value that was enabled and not yet asked for since is due within the
\* first-read delay, also when it was enabled while the read of the earlier
\* enabling was still in flight and that read ended afterwards in any way
\* (the re-enable branch of the finally clause of async_read_if_due).
EnabledReadSoon == Enabled /\ ~attempted => due <= FirstDelay

\* Nobody needs the value: no read of it goes on, whoever removed the last
\* consumer and whatever the tick was doing (set_enabled, async_shutdown).
UnwantedReadCancelled == ~Enabled => task # "running"

\* Disabling a value never ends the poll tick that was reading it: a tick
\* leaves the read by an exception only if the tick itself was cancelled.  A
\* value that is disabled and enabled again before the cancellation arrives
\* is the hard case (the generation check of async_read_if_due).
OnlyCancelEndsTick == ended = "raised" => cancelled

\* The failure count is capped where the doubled delay reaches the refresh
\* interval, neither before (the retries would stay frequent) nor after
\* (_max_failures, computed with a rounded logarithm).
CapIsRefresh ==
    /\ failures = MaxFailures => RetryAfter(failures) = Refresh
    /\ failures \in 1 .. MaxFailures - 1 => RetryAfter(failures) < Refresh

\* The state of the read is well formed and its retry delays end at the
\* refresh interval, however reads fail and consumers change.
ReadConsistent == TypeOK /\ CapIsRefresh

\* A value that is enabled is asked for, whatever read of an earlier enabling
\* is still in flight and even if the gateway never answers that one.
EnabledIsRead ==
    (Enabled /\ ~attempted) ~> (attempted \/ ~Enabled \/ stopped)

\* What the tests of clear_on_disable say: after a value was disabled and
\* enabled again, nothing requested before is shown.
\* The code does not have it: README, "Observations".
ForgottenOnDisable == Enabled /\ ClearOnDisable => value # "earlier"
=============================================================================
