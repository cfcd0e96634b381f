-------------------------- MODULE TransportPolicy --------------------------
(***************************************************************************)
(* device/transport.py: the retry policy shared by all units on one        *)
(* gateway link.  It lets one request run at a time, spaces reads, pauses  *)
(* the reads of a unit after a read that got no answer, retries once, and  *)
(* drops the link after a run of timeouts in a quiet window.               *)
(*                                                                         *)
(* `op' is the holder of _operation_lock; _request_lock is only taken      *)
(* under it.  Callers that wait for the lock have no effect yet and are    *)
(* the choice of who gets it next.  Clocks are timers that Tick advances   *)
(* and that stop where the code cannot tell larger values apart.           *)
(***************************************************************************)
EXTENDS Integers

CONSTANTS
    Units,             \* the unit ids behind the gateway
    Recovery,          \* TRANSPORT_READ_RECOVERY_SECONDS
    DisconnectAfter,   \* TRANSPORT_DISCONNECT_AFTER_TIMEOUTS
    LinkQuiet,         \* link_quiet_seconds
    RetryDelay,        \* TRANSPORT_RETRY_DELAY_SECONDS
    Intervals,         \* the read intervals update_request_rate may set
    MaxInterval,       \* the largest of them
    NoUnit

ASSUME UnitsAssumption == NoUnit \notin Units
ASSUME RecoveryAssumption == Recovery \in Nat \ {0}
ASSUME DisconnectAssumption == DisconnectAfter \in Nat \ {0}
\* new_transport_policy: the window covers the pause after an unanswered read.
ASSUME LinkQuietAssumption == LinkQuiet \in Nat /\ LinkQuiet > Recovery
ASSUME RetryDelayAssumption == RetryDelay \in Nat
ASSUME IntervalsAssumption ==
    MaxInterval \in Nat /\ Intervals \subseteq 1 .. MaxInterval /\ Intervals # {}

VARIABLES
    op,           \* the running request: its kind, attempt and phase
    delay,        \* per unit: the rest of its recovery pause, 0 when it is over
    quarantined,  \* the units with an entry in _unanswered_reads
    timeouts,     \* _consecutive_timeouts
    quiet,        \* time since _quiet_since
    sinceRead,    \* time since _last_read_finished
    interval,     \* _read_interval
    nap,          \* the rest of the sleep before a retry
    closed,       \* _closed
    sinceLost,    \* history: per unit, time since a read of it was lost
    sinceAnswer,  \* history: time since any answer
    lost          \* history: requests without an answer since the last answer or recycle

history == <<sinceLost, sinceAnswer, lost>>
policyVars == <<op, delay, quarantined, timeouts, quiet, sinceRead, interval, nap, closed,
                sinceLost, sinceAnswer, lost>>

Phases == {"idle", "slot", "sent", "disconnecting", "pause"}
LinkRequests == [phase : Phases, unit : Units \cup {NoUnit}, read : BOOLEAN,
                 bridge : BOOLEAN, attempt : 0 .. 2]
Idle == [phase |-> "idle", unit |-> NoUnit, read |-> FALSE, bridge |-> FALSE, attempt |-> 0]

\* One more, up to a limit above which the code sees no difference.
UpTo(limit, n) == IF n < limit THEN n + 1 ELSE limit

\* The running request is sent once more.
SecondAttempt == [phase |-> "slot", unit |-> op.unit, read |-> op.read,
                  bridge |-> op.bridge, attempt |-> 2]

\* read_delayed
ReadDelayed(u) == delay[u] > 0

-----------------------------------------------------------------------------
(* A request takes the lock and waits for its slot.                        *)

\* run: a read of a paused unit, or after shutdown, is refused unsent.
Run(u, read, bridge) ==
    /\ op.phase = "idle"
    /\ read => ~closed /\ ~ReadDelayed(u)
    /\ bridge => read
    /\ op' = [phase |-> "slot", unit |-> u, read |-> read, bridge |-> bridge, attempt |-> 1]
    /\ UNCHANGED <<delay, quarantined, timeouts, quiet, sinceRead, interval, nap, closed, history>>

\* Mutant: shutdown is only checked when the request takes the lock.
SendAfterShutdown ==
    /\ op.phase = "slot"
    /\ op.read => sinceRead >= interval
    /\ op' = [op EXCEPT !.phase = "sent"]
    /\ UNCHANGED <<delay, quarantined, timeouts, quiet, sinceRead, interval, nap, closed, history>>

\* _attempt: only reads wait for a slot.
Send ==
    /\ op.phase = "slot"
    /\ op.read => sinceRead >= interval
    /\ ~closed
    /\ op' = [op EXCEPT !.phase = "sent"]
    /\ UNCHANGED <<delay, quarantined, timeouts, quiet, sinceRead, interval, nap, closed, history>>

RejectClosed ==
    /\ op.phase = "slot"
    /\ closed
    /\ op' = Idle
    /\ UNCHANGED <<delay, quarantined, timeouts, quiet, sinceRead, interval, nap, closed, history>>

-----------------------------------------------------------------------------
(* The request ends.                                                       *)

\* The finally clause of _attempt: reads are spaced from their end.
ReadFinished == sinceRead' = IF op.read THEN 0 ELSE sinceRead

\* The except clauses of _attempt that start a recovery pause.
PauseReads ==
    /\ delay' = IF op.read THEN [delay EXCEPT ![op.unit] = Recovery] ELSE delay
    /\ quarantined' = IF op.read THEN quarantined \cup {op.unit} ELSE quarantined
    /\ sinceLost' = IF op.read THEN [sinceLost EXCEPT ![op.unit] = 0] ELSE sinceLost

KeepPauses == UNCHANGED <<delay, quarantined, sinceLost>>

\* _link_answered
LinkAnswered ==
    /\ timeouts' = 0
    /\ quiet' = 0
    /\ sinceAnswer' = 0
    /\ lost' = 0

\* Mutant: a read is retried while its unit's pause runs.
RetryOrRaisePaused(paused) ==
    op' = IF op.attempt = 1 THEN SecondAttempt ELSE Idle

\* Mutant: a request is retried until it gets an answer.
RetryOrRaiseForever(paused) ==
    op' = IF op.read /\ paused THEN Idle ELSE SecondAttempt

\* run: one retry, and none of a read whose unit is paused.
RetryOrRaise(paused) ==
    op' = IF op.attempt = 1 /\ ~(op.read /\ paused)
          THEN SecondAttempt ELSE Idle

\* A valid response.  The bridge answers its RF registers itself, so they do
\* not end the quarantine of a unit.
Answered ==
    /\ op.phase = "sent"
    /\ LinkAnswered
    /\ ReadFinished
    /\ LET ends == op.read /\ ~op.bridge
       IN  /\ delay' = IF ends THEN [delay EXCEPT ![op.unit] = 0] ELSE delay
           /\ quarantined' = IF ends THEN quarantined \ {op.unit} ELSE quarantined
    /\ op' = Idle
    /\ UNCHANGED <<interval, nap, closed, sinceLost>>

\* An exception response; it is not retried.
ExceptionResponse ==
    /\ op.phase = "sent"
    /\ LinkAnswered
    /\ ReadFinished
    /\ op' = Idle
    /\ KeepPauses
    /\ UNCHANGED <<interval, nap, closed>>

\* The gateway answered for a unit behind it that did not.
GatewayTargetError ==
    /\ op.phase = "sent"
    /\ LinkAnswered
    /\ ReadFinished
    /\ RetryOrRaise(ReadDelayed(op.unit))
    /\ KeepPauses
    /\ UNCHANGED <<interval, nap, closed>>

\* Mutant: silent units recycle the link while their neighbours answer.
RecycleDueEarly(n) == n >= DisconnectAfter

\* _count_timeout: enough timeouts and no answer for the whole window.
RecycleDue(n) == n >= DisconnectAfter /\ quiet >= LinkQuiet

\* Mutant: every timeout starts the quiet window again.
NoAnswerRestartsWindow ==
    LET n == UpTo(DisconnectAfter, timeouts)
        recycle == RecycleDue(n)
    IN  /\ op.phase = "sent"
        /\ PauseReads
        /\ ReadFinished
        /\ timeouts' = IF recycle THEN 0 ELSE n
        /\ quiet' = 0
        /\ lost' = UpTo(DisconnectAfter, lost)
        /\ IF recycle THEN op' = [op EXCEPT !.phase = "disconnecting"] ELSE RetryOrRaise(TRUE)
        /\ UNCHANGED <<interval, nap, closed, sinceAnswer>>

\* A timeout or a malformed response (NO_ANSWER_ERRORS).
NoAnswer ==
    LET n == UpTo(DisconnectAfter, timeouts)
        recycle == RecycleDue(n)
    IN  /\ op.phase = "sent"
        /\ PauseReads
        /\ ReadFinished
        /\ timeouts' = IF recycle THEN 0 ELSE n
        /\ quiet' = IF recycle THEN 0 ELSE quiet
        /\ lost' = UpTo(DisconnectAfter, lost)
        /\ IF recycle THEN op' = [op EXCEPT !.phase = "disconnecting"] ELSE RetryOrRaise(TRUE)
        /\ UNCHANGED <<interval, nap, closed, sinceAnswer>>

\* unit.disconnect() returned or failed; the pause may have ended meanwhile.
Disconnected ==
    /\ op.phase = "disconnecting"
    /\ RetryOrRaise(ReadDelayed(op.unit))
    /\ lost' = 0
    /\ UNCHANGED <<delay, quarantined, timeouts, quiet, sinceRead, interval, nap, closed,
                   sinceLost, sinceAnswer>>

\* ModbusConnectionError: a write is sent again after a sleep.
LinkLost ==
    /\ op.phase = "sent"
    /\ PauseReads
    /\ ReadFinished
    /\ IF op.attempt = 1 /\ ~op.read
       THEN op' = [op EXCEPT !.phase = "pause"] /\ nap' = RetryDelay
       ELSE op' = Idle /\ nap' = nap
    /\ UNCHANGED <<timeouts, quiet, interval, closed, sinceAnswer, lost>>

PauseEnds ==
    /\ op.phase = "pause"
    /\ nap = 0
    /\ op' = SecondAttempt
    /\ UNCHANGED <<delay, quarantined, timeouts, quiet, sinceRead, interval, nap, closed, history>>

\* ClientClosedError of the link, or an error of another kind.
OtherError ==
    /\ op.phase = "sent"
    /\ ReadFinished
    /\ op' = Idle
    /\ UNCHANGED <<delay, quarantined, timeouts, quiet, interval, nap, closed, history>>

\* The caller is cancelled; only a read under way leaves a pause behind.
Cancelled ==
    /\ op.phase # "idle"
    /\ IF op.phase = "sent" THEN PauseReads /\ ReadFinished
       ELSE UNCHANGED <<delay, quarantined, sinceRead, sinceLost>>
    /\ op' = Idle
    /\ nap' = 0
    /\ lost' = IF op.phase = "disconnecting" THEN 0 ELSE lost
    /\ UNCHANGED <<timeouts, quiet, interval, closed, sinceAnswer>>

-----------------------------------------------------------------------------

Shutdown ==
    /\ ~closed
    /\ closed' = TRUE
    /\ UNCHANGED <<op, delay, quarantined, timeouts, quiet, sinceRead, interval, nap, history>>

UpdateRequestRate(i) ==
    /\ i # interval
    /\ interval' = i
    /\ UNCHANGED <<op, delay, quarantined, timeouts, quiet, sinceRead, nap, closed, history>>

\* External: one unit of the monotonic clock.
Tick ==
    /\ delay' = [u \in Units |-> IF delay[u] > 0 THEN delay[u] - 1 ELSE 0]
    /\ quiet' = UpTo(LinkQuiet, quiet)
    /\ sinceRead' = UpTo(MaxInterval, sinceRead)
    /\ nap' = IF nap > 0 THEN nap - 1 ELSE 0
    /\ sinceLost' = [u \in Units |-> UpTo(Recovery, sinceLost[u])]
    /\ sinceAnswer' = UpTo(LinkQuiet, sinceAnswer)
    /\ UNCHANGED <<op, quarantined, timeouts, interval, closed, lost>>

\* Creating the policy starts a quiet window; no read has finished yet.
PolicyInit ==
    /\ op = Idle
    /\ delay = [u \in Units |-> 0]
    /\ quarantined = {}
    /\ timeouts = 0
    /\ quiet = 0
    /\ sinceRead = MaxInterval
    /\ interval \in Intervals
    /\ nap = 0
    /\ closed = FALSE
    /\ sinceLost = [u \in Units |-> Recovery]
    /\ sinceAnswer = 0
    /\ lost = 0

RequestEnds ==
    \/ Answered \/ ExceptionResponse \/ GatewayTargetError
    \/ NoAnswer \/ LinkLost \/ OtherError

PolicyNext ==
    \/ \E u \in Units, read, bridge \in BOOLEAN : Run(u, read, bridge)
    \/ Send \/ RejectClosed
    \/ RequestEnds \/ Cancelled
    \/ Disconnected \/ PauseEnds
    \/ Shutdown
    \/ \E i \in Intervals : UpdateRequestRate(i)
    \/ Tick

PolicySpec == PolicyInit /\ [][PolicyNext]_policyVars

\* Time passes, the event loop runs what is ready, and the link layer ends
\* every request and every disconnect, if need be by its own timeout.
PolicyFairness ==
    /\ WF_policyVars(Tick)
    /\ WF_policyVars(Send) /\ WF_policyVars(RejectClosed)
    /\ WF_policyVars(RequestEnds) /\ WF_policyVars(Disconnected) /\ WF_policyVars(PauseEnds)

FairPolicySpec == PolicySpec /\ PolicyFairness

-----------------------------------------------------------------------------

\* Every counter and timer of the policy stays in its range and a request has
\* at most two attempts (run).
PolicyTypeOK ==
    /\ op \in LinkRequests
    /\ op.phase # "idle" => op.unit \in Units
    /\ delay \in [Units -> 0 .. Recovery]
    /\ quarantined \subseteq Units
    /\ timeouts \in 0 .. DisconnectAfter
    /\ quiet \in 0 .. LinkQuiet
    /\ sinceRead \in 0 .. MaxInterval
    /\ interval \in Intervals
    /\ nap \in 0 .. RetryDelay
    /\ closed \in BOOLEAN
    /\ sinceLost \in [Units -> 0 .. Recovery]
    /\ sinceAnswer \in 0 .. LinkQuiet
    /\ lost \in 0 .. DisconnectAfter

\* No read of a unit is on the wire before the recovery time has passed since
\* the unit's last read that was lost or cancelled, retries included: a late
\* answer to it cannot be taken for the answer of another read
\* (_ensure_read_allowed, the read_delayed checks of run).
QuarantineRespected ==
    op.phase = "sent" /\ op.read => sinceLost[op.unit] >= Recovery

\* The link is dropped only after enough requests without an answer since the
\* last answer or recycle, and only if no request of any unit was answered for
\* the whole quiet window: silent units do not recycle a link their neighbours
\* answer on (_link_answered, _count_timeout).
RecycleJustified ==
    op.phase = "disconnecting" => lost >= DisconnectAfter /\ sinceAnswer >= LinkQuiet

\* Once the policy is shut down no further request reaches the wire, neither
\* one that waited for its slot nor a retry.
NothingSentAfterShutdown ==
    [][closed /\ op.phase # "sent" => op'.phase # "sent"]_policyVars

\* Every request gives the lock back: the waits for slots, retries and
\* disconnects of one request end whatever the link does.
RunEnds == op.phase # "idle" ~> op.phase = "idle"

\* A link on which requests keep getting no answer, and none gets one, is
\* dropped again and again.
DeadLinkRecycled ==
    []<><<NoAnswer>>_policyVars /\ <>[][~LinkAnswered]_policyVars => []<>(op.phase = "disconnecting")
=============================================================================
