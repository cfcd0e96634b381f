----------------------------- MODULE LinkProofs -----------------------------
(***************************************************************************)
(* What goes over the gateway link, for every value of the constants: the  *)
(* transport policy that sends the requests, the mode register writes and  *)
(* the control settings.                                                   *)
(***************************************************************************)
EXTENDS TransportPolicy, ModeRegisters, ControlSettings, TLAPS

-----------------------------------------------------------------------------
(* The transport policy.  The read quarantine is respected, the link is    *)
(* recycled only when it is dead, and nothing is sent after shutdown.      *)

\* The pause of a unit covers the rest of its recovery time, and a read that
\* holds the lock has no pause to wait for.
QuarantineInv ==
    /\ \A u \in Units : sinceLost[u] + delay[u] >= Recovery
    /\ op.phase \in {"slot", "sent"} /\ op.read => delay[op.unit] = 0
    /\ op.phase = "pause" => ~op.read

\* The counters of the code never run ahead of what really happened.
RecycleInv ==
    /\ quiet <= sinceAnswer
    /\ timeouts <= lost
    /\ op.phase = "disconnecting" => timeouts = 0

PolicyInv == PolicyTypeOK /\ QuarantineInv /\ RecycleInv /\ RecycleJustified

\* A saturating timer stays in its range.
LEMMA UpToType ==
    ASSUME NEW limit \in Nat, NEW n \in 0 .. limit
    PROVE  UpTo(limit, n) \in 0 .. limit /\ UpTo(limit, n) >= n
BY DEF UpTo

\* The policy starts in its invariant: no pause, no timeout, a new window.
LEMMA InitPolicyInv == PolicyInit => PolicyInv
<1> SUFFICES ASSUME PolicyInit PROVE PolicyInv
  OBVIOUS
<1> USE UnitsAssumption, RecoveryAssumption, DisconnectAssumption, LinkQuietAssumption,
        RetryDelayAssumption, IntervalsAssumption
<1>1. PolicyTypeOK
  <2>1. op \in LinkRequests /\ (op.phase # "idle" => op.unit \in Units)
    BY DEF PolicyInit, Idle, LinkRequests, Phases
  <2>2. closed \in BOOLEAN
    BY DEF PolicyInit
  <2>3. /\ delay \in [Units -> 0 .. Recovery]
        /\ sinceLost \in [Units -> 0 .. Recovery]
    BY DEF PolicyInit
  <2>4. /\ quarantined \subseteq Units /\ interval \in Intervals
        /\ timeouts \in 0 .. DisconnectAfter /\ lost \in 0 .. DisconnectAfter
        /\ quiet \in 0 .. LinkQuiet /\ sinceAnswer \in 0 .. LinkQuiet
        /\ sinceRead \in 0 .. MaxInterval /\ nap \in 0 .. RetryDelay
    BY DEF PolicyInit
  <2> QED
    BY <2>1, <2>2, <2>3, <2>4 DEF PolicyTypeOK
<1>2. QuarantineInv
  BY DEF PolicyInit, QuarantineInv, Idle
<1>3. RecycleInv /\ RecycleJustified
  BY DEF PolicyInit, RecycleInv, RecycleJustified, Idle
<1> QED
  BY <1>1, <1>2, <1>3 DEF PolicyInv
\* A retry or the end of a request leaves a well-formed holder of the lock.
LEMMA RetryType ==
    ASSUME PolicyTypeOK, op.phase # "idle", NEW p \in BOOLEAN, RetryOrRaise(p)
    PROVE  op' \in LinkRequests /\ (op'.phase # "idle" => op'.unit \in Units)
<1>1. CASE op.attempt = 1 /\ ~(op.read /\ p)
  <2>1. op' = SecondAttempt
    BY <1>1 DEF RetryOrRaise
  <2> QED
    BY <2>1 DEF PolicyTypeOK, LinkRequests, Phases, SecondAttempt
<1>2. CASE ~(op.attempt = 1 /\ ~(op.read /\ p))
  <2>1. op' = Idle
    BY <1>2 DEF RetryOrRaise
  <2> QED
    BY <2>1 DEF Idle, LinkRequests, Phases
<1> QED
  BY <1>1, <1>2

\* Every step of the policy preserves the invariant, action by action.
LEMMA NextPolicyInv == PolicyInv /\ [PolicyNext]_policyVars => PolicyInv'
<1> SUFFICES ASSUME PolicyInv, [PolicyNext]_policyVars PROVE PolicyInv'
  OBVIOUS
<1> USE UnitsAssumption, RecoveryAssumption, DisconnectAssumption, LinkQuietAssumption,
        RetryDelayAssumption, IntervalsAssumption
<1> USE DEF PolicyInv
<1>1. ASSUME NEW u \in Units, NEW read \in BOOLEAN, NEW bridge \in BOOLEAN, Run(u, read,
     bridge)
      PROVE  PolicyInv'
  <2>1. PolicyTypeOK'
    BY <1>1 DEF Run, ReadDelayed, history, PolicyTypeOK, LinkRequests, Phases
  <2>2. QuarantineInv'
    BY <1>1 DEF Run, ReadDelayed, history, PolicyTypeOK, QuarantineInv
  <2>3. RecycleInv' /\ RecycleJustified'
    BY <1>1 DEF Run, ReadDelayed, history, PolicyTypeOK, RecycleInv,
         RecycleJustified
  <2> QED
    BY <2>1, <2>2, <2>3
<1>2. CASE Send
  <2>1. PolicyTypeOK'
    BY <1>2 DEF Send, history, PolicyTypeOK, LinkRequests, Phases
  <2>2. QuarantineInv'
    BY <1>2 DEF Send, history, PolicyTypeOK, QuarantineInv
  <2>3. RecycleInv' /\ RecycleJustified'
    BY <1>2 DEF Send, history, PolicyTypeOK, RecycleInv, RecycleJustified
  <2> QED
    BY <2>1, <2>2, <2>3
<1>3. CASE RejectClosed
  <2>1. PolicyTypeOK'
    BY <1>3 DEF RejectClosed, Idle, history, PolicyTypeOK, LinkRequests, Phases
  <2>2. QuarantineInv'
    BY <1>3 DEF RejectClosed, Idle, history, PolicyTypeOK, QuarantineInv
  <2>3. RecycleInv' /\ RecycleJustified'
    BY <1>3 DEF RejectClosed, Idle, history, PolicyTypeOK, RecycleInv,
         RecycleJustified
  <2> QED
    BY <2>1, <2>2, <2>3
<1>4. CASE Answered
  <2>1. PolicyTypeOK'
    BY <1>4 DEF Answered, LinkAnswered, ReadFinished, Idle, PolicyTypeOK,
         LinkRequests, Phases
  <2>2. QuarantineInv'
    BY <1>4 DEF Answered, LinkAnswered, ReadFinished, Idle, PolicyTypeOK,
         QuarantineInv
  <2>3. RecycleInv' /\ RecycleJustified'
    BY <1>4 DEF Answered, LinkAnswered, ReadFinished, Idle, PolicyTypeOK,
         RecycleInv, RecycleJustified
  <2> QED
    BY <2>1, <2>2, <2>3
<1>5. CASE ExceptionResponse
  <2>1. PolicyTypeOK'
    BY <1>5 DEF ExceptionResponse, LinkAnswered, ReadFinished, KeepPauses,
         Idle, PolicyTypeOK, LinkRequests, Phases
  <2>2. QuarantineInv'
    BY <1>5 DEF ExceptionResponse, LinkAnswered, ReadFinished, KeepPauses,
         Idle, PolicyTypeOK, QuarantineInv
  <2>3. RecycleInv' /\ RecycleJustified'
    BY <1>5 DEF ExceptionResponse, LinkAnswered, ReadFinished, KeepPauses,
         Idle, PolicyTypeOK, RecycleInv, RecycleJustified
  <2> QED
    BY <2>1, <2>2, <2>3
<1>6. CASE GatewayTargetError
  <2>1. op' \in LinkRequests /\ (op'.phase # "idle" => op'.unit \in Units)
    <3>1. /\ op.phase # "idle" /\ (ReadDelayed(op.unit) \in BOOLEAN)
          /\ RetryOrRaise(ReadDelayed(op.unit))
      BY <1>6 DEF GatewayTargetError, ReadDelayed
    <3> QED
      BY <3>1, RetryType
  <2>2. PolicyTypeOK'
    BY <1>6, <2>1 DEF GatewayTargetError, LinkAnswered, ReadFinished,
         KeepPauses, PolicyTypeOK
  <2>3. QuarantineInv'
    BY <1>6 DEF GatewayTargetError, LinkAnswered, ReadFinished, KeepPauses,
         RetryOrRaise, SecondAttempt, ReadDelayed, Idle, PolicyTypeOK,
         QuarantineInv
  <2>4. RecycleInv' /\ RecycleJustified'
    BY <1>6 DEF GatewayTargetError, LinkAnswered, ReadFinished, KeepPauses,
         RetryOrRaise, SecondAttempt, ReadDelayed, Idle, PolicyTypeOK,
         RecycleInv, RecycleJustified
  <2> QED
    BY <2>2, <2>3, <2>4
<1>7. CASE NoAnswer
  <2> DEFINE n == UpTo(DisconnectAfter, timeouts)
  <2>1. n \in 0 .. DisconnectAfter /\ UpTo(DisconnectAfter, lost) \in 0 .. DisconnectAfter
    BY UpToType DEF PolicyTypeOK
  <2>2. n <= UpTo(DisconnectAfter, lost)
    BY DEF PolicyTypeOK, RecycleInv, UpTo
  <2>3. op.unit \in Units /\ op.phase = "sent"
    BY <1>7 DEF NoAnswer, PolicyTypeOK
  <2>4. /\ delay' \in [Units -> 0 .. Recovery]
        /\ sinceLost' \in [Units -> 0 .. Recovery]
        /\ \A u \in Units : sinceLost'[u] + delay'[u] >= Recovery
        /\ quarantined' \subseteq Units
    BY <1>7, <2>3 DEF NoAnswer, PauseReads, PolicyTypeOK, QuarantineInv
  <2>5. /\ sinceRead' \in 0 .. MaxInterval /\ interval' = interval /\ nap' = nap
        /\ closed' = closed /\ sinceAnswer' = sinceAnswer
        /\ lost' = UpTo(DisconnectAfter, lost)
    BY <1>7 DEF NoAnswer, ReadFinished, PolicyTypeOK
  <2>6. CASE RecycleDue(n)
    <3>1. op' = [op EXCEPT !.phase = "disconnecting"] /\ timeouts' = 0 /\ quiet' = 0
      BY <1>7, <2>6 DEF NoAnswer
    <3>2. PolicyTypeOK'
      BY <2>1, <2>3, <2>4, <2>5, <3>1 DEF PolicyTypeOK, LinkRequests, Phases
    <3>3. QuarantineInv'
      BY <2>4, <3>1 DEF QuarantineInv, PolicyTypeOK, LinkRequests
    <3>4. RecycleInv' /\ RecycleJustified'
      BY <2>1, <2>2, <2>5, <2>6, <3>1 DEF RecycleInv, RecycleJustified, RecycleDue,
           PolicyTypeOK, LinkRequests
    <3> QED
      BY <3>2, <3>3, <3>4
  <2>7. CASE ~RecycleDue(n)
    <3>1. RetryOrRaise(TRUE) /\ timeouts' = n /\ quiet' = quiet
      BY <1>7, <2>7 DEF NoAnswer
    <3>2. op' \in LinkRequests /\ (op'.phase # "idle" => op'.unit \in Units)
      BY <2>3, <3>1, RetryType
    <3>3. op'.phase \in {"idle", "slot"} /\ (op'.phase = "slot" => ~op'.read)
      BY <3>1 DEF RetryOrRaise, SecondAttempt, Idle, PolicyTypeOK, LinkRequests
    <3>4. PolicyTypeOK'
      BY <2>1, <2>4, <2>5, <3>1, <3>2 DEF PolicyTypeOK
    <3>5. QuarantineInv'
      BY <2>4, <3>3 DEF QuarantineInv
    <3>6. RecycleInv' /\ RecycleJustified'
      BY <2>2, <2>5, <3>1, <3>3 DEF RecycleInv, RecycleJustified
    <3> QED
      BY <3>4, <3>5, <3>6
  <2> QED
    BY <2>6, <2>7
<1>8. CASE LinkLost
  <2>1. op.unit \in Units
    BY <1>8 DEF LinkLost, PolicyTypeOK
  <2>2. /\ op' \in LinkRequests /\ (op'.phase # "idle" => op'.unit \in Units)
        /\ op'.phase \in {"idle", "pause"} /\ (op'.phase = "pause" => ~op'.read)
        /\ nap' \in 0 .. RetryDelay
    <3>1. CASE op.attempt = 1 /\ ~op.read
      <4>1. op' = [op EXCEPT !.phase = "pause"] /\ nap' = RetryDelay
        BY <1>8, <3>1 DEF LinkLost
      <4> QED
        BY <2>1, <3>1, <4>1 DEF PolicyTypeOK, LinkRequests, Phases
    <3>2. CASE ~(op.attempt = 1 /\ ~op.read)
      <4>1. op' = Idle /\ nap' = nap
        BY <1>8, <3>2 DEF LinkLost
      <4> QED
        BY <4>1 DEF Idle, PolicyTypeOK, LinkRequests, Phases
    <3> QED
      BY <3>1, <3>2
  <2>3. /\ delay' \in [Units -> 0 .. Recovery] /\ sinceLost' \in [Units -> 0 .. Recovery]
        /\ quarantined' \subseteq Units
    BY <1>8, <2>1 DEF LinkLost, PauseReads, PolicyTypeOK
  <2>4. PolicyTypeOK'
    BY <1>8, <2>2, <2>3 DEF LinkLost, ReadFinished, PolicyTypeOK
  <2>5. QuarantineInv'
    BY <1>8, <2>1, <2>2 DEF LinkLost, PauseReads, PolicyTypeOK, QuarantineInv
  <2>6. RecycleInv' /\ RecycleJustified'
    BY <1>8, <2>2 DEF LinkLost, RecycleInv, RecycleJustified
  <2> QED
    BY <2>4, <2>5, <2>6
<1>9. CASE OtherError
  <2>1. PolicyTypeOK'
    BY <1>9 DEF OtherError, ReadFinished, Idle, history, PolicyTypeOK,
         LinkRequests, Phases
  <2>2. QuarantineInv'
    BY <1>9 DEF OtherError, ReadFinished, Idle, history, PolicyTypeOK,
         QuarantineInv
  <2>3. RecycleInv' /\ RecycleJustified'
    BY <1>9 DEF OtherError, ReadFinished, Idle, history, PolicyTypeOK,
         RecycleInv, RecycleJustified
  <2> QED
    BY <2>1, <2>2, <2>3
<1>10. CASE Cancelled
  <2>1. op.unit \in Units /\ op' = Idle /\ nap' = 0
    BY <1>10 DEF Cancelled, PolicyTypeOK
  <2>2. /\ delay' \in [Units -> 0 .. Recovery] /\ sinceLost' \in [Units -> 0 .. Recovery]
        /\ quarantined' \subseteq Units /\ sinceRead' \in 0 .. MaxInterval
        /\ lost' \in 0 .. DisconnectAfter
    BY <1>10, <2>1 DEF Cancelled, PauseReads, ReadFinished, PolicyTypeOK
  <2>3. Idle \in LinkRequests /\ Idle.phase = "idle"
    BY DEF Idle, LinkRequests, Phases
  <2>4. PolicyTypeOK'
    BY <1>10, <2>1, <2>2, <2>3 DEF Cancelled, PolicyTypeOK
  <2>5. QuarantineInv'
    BY <1>10 DEF Cancelled, PauseReads, ReadFinished, Idle, PolicyTypeOK,
         QuarantineInv
  <2>6. RecycleInv' /\ RecycleJustified'
    BY <1>10 DEF Cancelled, PauseReads, ReadFinished, Idle, PolicyTypeOK,
         RecycleInv, RecycleJustified
  <2> QED
    BY <2>4, <2>5, <2>6
<1>11. CASE Disconnected
  <2>1. op' \in LinkRequests /\ (op'.phase # "idle" => op'.unit \in Units)
    <3>1. /\ op.phase # "idle" /\ (ReadDelayed(op.unit) \in BOOLEAN)
          /\ RetryOrRaise(ReadDelayed(op.unit))
      BY <1>11 DEF Disconnected, ReadDelayed
    <3> QED
      BY <3>1, RetryType
  <2>2. PolicyTypeOK'
    BY <1>11, <2>1 DEF Disconnected, PolicyTypeOK
  <2>3. QuarantineInv'
    BY <1>11 DEF Disconnected, RetryOrRaise, SecondAttempt, ReadDelayed,
         Idle, PolicyTypeOK, QuarantineInv
  <2>4. RecycleInv' /\ RecycleJustified'
    BY <1>11 DEF Disconnected, RetryOrRaise, SecondAttempt, ReadDelayed,
         Idle, PolicyTypeOK, RecycleInv, RecycleJustified
  <2> QED
    BY <2>2, <2>3, <2>4
<1>12. CASE PauseEnds
  <2>1. PolicyTypeOK'
    BY <1>12 DEF PauseEnds, SecondAttempt, history, PolicyTypeOK, LinkRequests,
         Phases
  <2>2. QuarantineInv'
    BY <1>12 DEF PauseEnds, SecondAttempt, history, PolicyTypeOK, QuarantineInv
  <2>3. RecycleInv' /\ RecycleJustified'
    BY <1>12 DEF PauseEnds, SecondAttempt, history, PolicyTypeOK, RecycleInv,
         RecycleJustified
  <2> QED
    BY <2>1, <2>2, <2>3
<1>13. CASE Shutdown
  <2>1. PolicyTypeOK'
    BY <1>13 DEF Shutdown, history, PolicyTypeOK, LinkRequests, Phases
  <2>2. QuarantineInv'
    BY <1>13 DEF Shutdown, history, PolicyTypeOK, QuarantineInv
  <2>3. RecycleInv' /\ RecycleJustified'
    BY <1>13 DEF Shutdown, history, PolicyTypeOK, RecycleInv, RecycleJustified
  <2> QED
    BY <2>1, <2>2, <2>3
<1>14. ASSUME NEW i \in Intervals, UpdateRequestRate(i) PROVE PolicyInv'
  <2>1. PolicyTypeOK'
    BY <1>14 DEF UpdateRequestRate, history, PolicyTypeOK, LinkRequests, Phases
  <2>2. QuarantineInv'
    BY <1>14 DEF UpdateRequestRate, history, PolicyTypeOK, QuarantineInv
  <2>3. RecycleInv' /\ RecycleJustified'
    BY <1>14 DEF UpdateRequestRate, history, PolicyTypeOK, RecycleInv,
         RecycleJustified
  <2> QED
    BY <2>1, <2>2, <2>3
<1>15. CASE Tick
  <2>1. PolicyTypeOK'
    BY <1>15 DEF Tick, UpTo, history, PolicyTypeOK, LinkRequests, Phases
  <2>2. QuarantineInv'
    BY <1>15 DEF Tick, UpTo, history, PolicyTypeOK, QuarantineInv
  <2>3. RecycleInv' /\ RecycleJustified'
    BY <1>15 DEF Tick, UpTo, history, PolicyTypeOK, RecycleInv, RecycleJustified
  <2> QED
    BY <2>1, <2>2, <2>3
<1>16. CASE UNCHANGED policyVars
  BY <1>16 DEF policyVars, PolicyTypeOK, QuarantineInv, RecycleInv, RecycleJustified
<1> QED
  BY <1>1, <1>2, <1>3, <1>4, <1>5, <1>6, <1>7, <1>8, <1>9, <1>10, <1>11, <1>12, <1>13, <1>14, <1>15, <1>16
       DEF PolicyNext, RequestEnds

\* The invariant holds in every reachable state of the policy.
THEOREM PolicyInvHolds == PolicySpec => []PolicyInv
  BY InitPolicyInv, NextPolicyInv, PTL DEF PolicySpec

\* Timers, counters and the holder of the lock keep their types, and no request
\* has more than two attempts.
THEOREM PolicyTypeCorrect == PolicySpec => []PolicyTypeOK
<1>1. PolicyInv => PolicyTypeOK
  BY DEF PolicyInv
<1> QED
  BY <1>1, PolicyInvHolds, PTL

\* For all units and pauses: no read is on the wire within the recovery time of
\* a lost or cancelled read of the same unit.
THEOREM QuarantineHolds == PolicySpec => []QuarantineRespected
<1>1. PolicyInv => QuarantineRespected
  <2> SUFFICES ASSUME PolicyInv, op.phase = "sent", op.read
               PROVE  sinceLost[op.unit] >= Recovery
    BY DEF QuarantineRespected
  <2>1. op.unit \in Units /\ delay[op.unit] = 0
    BY DEF PolicyInv, PolicyTypeOK, QuarantineInv
  <2> QED
    BY <2>1, RecoveryAssumption DEF PolicyInv, PolicyTypeOK, QuarantineInv
<1> QED
  BY <1>1, PolicyInvHolds, PTL

\* For all limits: the link is recycled only after that many requests without an
\* answer and a quiet window in which no unit answered.
THEOREM RecycleHolds == PolicySpec => []RecycleJustified
<1>1. PolicyInv => RecycleJustified
  BY DEF PolicyInv
<1> QED
  BY <1>1, PolicyInvHolds, PTL

\* After shutdown() no request reaches the wire, whatever was waiting.
THEOREM ShutdownHolds == PolicySpec => NothingSentAfterShutdown
<1>1. PolicyTypeOK /\ [PolicyNext]_policyVars
      => [closed /\ op.phase # "sent" => op'.phase # "sent"]_policyVars
  <2> SUFFICES ASSUME PolicyTypeOK, PolicyNext, closed, op.phase # "sent" PROVE op'.phase # "sent"
    OBVIOUS
  <2>1. ASSUME NEW u \in Units, NEW read \in BOOLEAN, NEW bridge \in BOOLEAN, Run(u, read,
       bridge)
        PROVE  op'.phase # "sent"
    BY <2>1 DEF Run
  <2>2. CASE RejectClosed \/ Cancelled
    <3>1. op' = Idle
      BY <2>2 DEF RejectClosed, Cancelled
    <3> QED
      BY <3>1 DEF Idle
  <2>3. CASE Disconnected
    BY <2>3 DEF Disconnected, RetryOrRaise, SecondAttempt, Idle
  <2>4. CASE PauseEnds
    BY <2>4 DEF PauseEnds, SecondAttempt
  <2>5. CASE Shutdown \/ Tick \/ \E i \in Intervals : UpdateRequestRate(i)
    <3>1. op' = op
      BY <2>5 DEF Shutdown, Tick, UpdateRequestRate
    <3> QED
      BY <3>1
  <2>6. ~Send /\ ~RequestEnds
    BY DEF Send, RequestEnds, Answered, ExceptionResponse,
         GatewayTargetError, NoAnswer,
           LinkLost, OtherError
  <2> QED
    BY <2>1, <2>2, <2>3, <2>4, <2>5, <2>6 DEF PolicyNext
<1> QED
  BY <1>1, PolicyTypeCorrect, PTL DEF PolicySpec, NothingSentAfterShutdown

-----------------------------------------------------------------------------
(* The mode registers.  The client knows what the unit holds staged and    *)
(* warns before an APPLY activates it.                                     *)

\* While a command runs, what the unit holds is tracked, written by the command,
\* or the register under way; the warning names the rest of what is tracked.
StagedInv ==
    /\ command.phase = "idle" => held \subseteq tracked \cup answered
    /\ command.phase = "register" =>
          /\ held \subseteq tracked \cup written \cup answered \cup {Register}
          /\ written \subseteq Range(command.regs)
    /\ command.phase = "apply" =>
          /\ held \subseteq tracked \cup written \cup answered
          /\ written \subseteq Range(command.regs)
          /\ warned = tracked \ Range(command.regs)

RegistersInv == RegistersTypeOK /\ StagedInv

\* The register under way is one of the command and a mode register.
LEMMA RegisterType ==
    ASSUME RegistersTypeOK, command.phase # "idle"
    PROVE  /\ Register \in Range(command.regs)
           /\ Range(command.regs) \subseteq Registers
<1>1. command.regs \in Commands /\ command.next \in 1 .. Len(command.regs)
  BY DEF RegistersTypeOK
<1>2. command.regs \in Seq(STRING)
  BY <1>1, CommandsAssumption
<1>3. command.next \in DOMAIN command.regs
  BY <1>1, <1>2
<1> QED
  BY <1>1, <1>3 DEF Register, Range, Registers

\* A command that stops leaves no command and adds registers to the tracked ones.
LEMMA StopsEffect ==
    ASSUME RegistersTypeOK, NEW regs \in SUBSET Registers, Stops(regs)
    PROVE  /\ tracked' = tracked \cup written \cup regs
           /\ command' = NoCommand /\ command'.phase = "idle"
           /\ written' = {} /\ warned' = warned
           /\ RegistersTypeOK' <=> (held' \subseteq Registers /\ answered' \subseteq held')
BY DEF Stops, NoCommand, RegistersTypeOK

\* The next attempt of a request leaves the registers of the command alone.
LEMMA SentAgainEffect ==
    ASSUME RegistersTypeOK, SentAgain
    PROVE  /\ tracked' = tracked /\ written' = written /\ warned' = warned
           /\ command'.phase = command.phase /\ command'.regs = command.regs
           /\ command'.next = command.next
           /\ RegistersTypeOK' <=> (held' \subseteq Registers /\ answered' \subseteq held')
<1>1. command' = [command EXCEPT !.attempt = 2]
  BY DEF SentAgain
<1>2. command'.phase = command.phase /\ command'.regs = command.regs /\ command'.next = command.next
  BY <1>1 DEF RegistersTypeOK
<1>3. command' \in [phase : {"idle", "register", "apply"}, regs : Commands \cup {<<>>},
                next : Nat, attempt : 0 .. 2]
  BY <1>1 DEF RegistersTypeOK
<1> QED
  BY <1>2, <1>3 DEF SentAgain, RegistersTypeOK

\* Nothing is tracked and nothing is held at the start.
LEMMA InitRegistersInv == RegistersInit => RegistersInv
BY DEF RegistersInit, RegistersInv, RegistersTypeOK, StagedInv, NoCommand

\* Every step preserves the invariant, action by action.
LEMMA NextRegistersInv == RegistersInv /\ [RegistersNext]_registersVars => RegistersInv'
<1> SUFFICES ASSUME RegistersInv, [RegistersNext]_registersVars PROVE RegistersInv'
  OBVIOUS
<1>t. RegistersTypeOK /\ StagedInv
  BY DEF RegistersInv
<1>1. ASSUME NEW c \in Commands, WriteModeRegisters(c) PROVE RegistersInv'
  <2>1. command' = [phase |-> "register", regs |-> c, next |-> 1, attempt |-> 1]
    BY <1>1 DEF WriteModeRegisters
  <2>2. c \in Seq(STRING) /\ c # <<>>
    BY CommandsAssumption
  <2>3. 1 \in 1 .. Len(c)
    BY <2>2
  <2>4. RegistersTypeOK'
    BY <1>1, <1>t, <2>1, <2>3 DEF WriteModeRegisters, RegistersTypeOK
  <2>5. StagedInv'
    BY <1>1, <1>t, <2>1 DEF WriteModeRegisters, StagedInv
  <2> QED
    BY <2>4, <2>5 DEF RegistersInv
<1>2. CASE RegisterWritten
  <2>1. Register \in Range(command.regs)
       /\ Range(command.regs) \subseteq Registers
    BY <1>2, <1>t, RegisterType DEF RegisterWritten
  <2>2. /\ held' = held \cup {Register} /\ answered' = answered \ {Register}
        /\ written' = written \cup {Register} /\ tracked' = tracked
             /\ command.phase = "register"
    BY <1>2 DEF RegisterWritten
  <2>3. /\ held' \subseteq Registers /\ answered' \subseteq held'
       /\ written' \subseteq Registers
        /\ tracked' \subseteq Registers
    BY <1>t, <2>1, <2>2 DEF RegistersTypeOK
  <2>4. /\ held' \subseteq tracked' \cup written' \cup answered'
        /\ written' \subseteq Range(command.regs)
    BY <1>t, <2>1, <2>2 DEF StagedInv
  <2>5. CASE command.next < Len(command.regs)
    <3>1. command' = Request("register", command.next + 1) /\ warned' = warned
      BY <1>2, <2>5 DEF RegisterWritten
    <3>2. command'.phase = "register" /\ command'.regs = command.regs
         /\ command'.next = command.next + 1
      BY <3>1 DEF Request
    <3>3. command' \in [phase : {"idle", "register", "apply"}, regs : Commands \cup {<<>>},
                    next : Nat, attempt : 0 .. 2]
      BY <1>t, <2>2, <3>1 DEF RegistersTypeOK, Request
    <3>4. command.regs \in Commands /\ Len(command.regs) \in Nat
         /\ command.next \in 1 .. Len(command.regs)
      BY <1>t, <2>2, CommandsAssumption DEF RegistersTypeOK
    <3>5. RegistersTypeOK'
      BY <1>t, <2>3, <2>5, <3>1, <3>2, <3>3, <3>4 DEF RegistersTypeOK
    <3>6. StagedInv'
      BY <2>4, <3>2 DEF StagedInv
    <3> QED
      BY <3>5, <3>6 DEF RegistersInv
  <2>6. CASE ~(command.next < Len(command.regs))
    <3>1. command' = Request("apply", command.next)
         /\ warned' = tracked \ Range(command.regs)
      BY <1>2, <2>6 DEF RegisterWritten, LeftOver
    <3>2. command'.phase = "apply" /\ command'.regs = command.regs /\ command'.next = command.next
      BY <3>1 DEF Request
    <3>3. command' \in [phase : {"idle", "register", "apply"}, regs : Commands \cup {<<>>},
                    next : Nat, attempt : 0 .. 2]
      BY <1>t, <2>2, <3>1 DEF RegistersTypeOK, Request
    <3>4. RegistersTypeOK'
      BY <1>t, <2>2, <2>3, <3>1, <3>2, <3>3 DEF RegistersTypeOK
    <3>5. StagedInv'
      BY <2>2, <2>4, <3>1, <3>2 DEF StagedInv
    <3> QED
      BY <3>4, <3>5 DEF RegistersInv
  <2> QED
    BY <2>5, <2>6
<1>3. CASE RegisterRefused
  <2>1. Register \in Registers
    BY <1>3, <1>t, RegisterType DEF RegisterRefused
  <2>2. Stops({}) /\ held' = held /\ answered' = answered \cup (held \cap {Register})
    BY <1>3 DEF RegisterRefused
  <2>3. RegistersTypeOK'
    BY <1>t, <2>2, StopsEffect DEF RegistersTypeOK
  <2>4. StagedInv'
    BY <1>3, <1>t, <2>2, StopsEffect DEF RegisterRefused, StagedInv
  <2> QED
    BY <2>3, <2>4 DEF RegistersInv
<1>4. CASE RegisterTargetSilent
  <2>1. Register \in Registers
    BY <1>4, <1>t, RegisterType DEF RegisterTargetSilent
  <2>2. command.phase = "register" /\ (held' = held \/ held' = held \cup {Register})
    BY <1>4 DEF RegisterTargetSilent, MayBeStored
  <2>3. CASE SentAgain /\ UNCHANGED answered
    <3>1. RegistersTypeOK'
      BY <1>t, <2>1, <2>2, <2>3, SentAgainEffect DEF RegistersTypeOK
    <3>2. Register' = Register
      BY <1>t, <2>3, SentAgainEffect DEF Register
    <3>3. StagedInv'
      BY <1>t, <2>2, <2>3, <3>2, SentAgainEffect DEF StagedInv
    <3> QED
      BY <3>1, <3>3 DEF RegistersInv
  <2>4. CASE Stops({}) /\ answered' = answered \cup (held' \cap {Register})
    <3>1. RegistersTypeOK'
      BY <1>t, <2>1, <2>2, <2>4, StopsEffect DEF RegistersTypeOK
    <3>2. StagedInv'
      BY <1>t, <2>2, <2>4, StopsEffect DEF StagedInv
    <3> QED
      BY <3>1, <3>2 DEF RegistersInv
  <2> QED
    BY <1>4, <2>3, <2>4 DEF RegisterTargetSilent
<1>5. CASE RegisterUnanswered \/ RegisterInterrupted
  <2>1. Register \in Registers
    BY <1>5, <1>t, RegisterType DEF RegisterUnanswered, RegisterInterrupted
  <2>2. /\ command.phase = "register" /\ answered' = answered
        /\ held' = held \/ held' = held \cup {Register}
    BY <1>5 DEF RegisterUnanswered, RegisterInterrupted, MayBeStored
  <2>3. CASE SentAgain
    <3>1. RegistersTypeOK'
      BY <1>t, <2>1, <2>2, <2>3, SentAgainEffect DEF RegistersTypeOK
    <3>2. Register' = Register
      BY <1>t, <2>3, SentAgainEffect DEF Register
    <3>3. StagedInv'
      BY <1>t, <2>2, <2>3, <3>2, SentAgainEffect DEF StagedInv
    <3> QED
      BY <3>1, <3>3 DEF RegistersInv
  <2>4. CASE Stops({Register})
    <3>1. RegistersTypeOK'
      BY <1>t, <2>1, <2>2, <2>4, StopsEffect DEF RegistersTypeOK
    <3>2. StagedInv'
      BY <1>t, <2>1, <2>2, <2>4, StopsEffect DEF StagedInv
    <3> QED
      BY <3>1, <3>2 DEF RegistersInv
  <2> QED
    BY <1>5, <2>3, <2>4 DEF RegisterUnanswered, RegisterInterrupted
<1>6. CASE Applied
  BY <1>6, <1>t DEF Applied, RegistersInv, RegistersTypeOK, StagedInv, NoCommand
<1>7. CASE ApplyRefused
  <2>1. command.phase = "apply" /\ Stops({}) /\ held' = held /\ answered' = answered
    BY <1>7 DEF ApplyRefused
  <2>2. RegistersTypeOK'
    BY <1>t, <2>1, StopsEffect DEF RegistersTypeOK
  <2>3. StagedInv'
    BY <1>t, <2>1, StopsEffect DEF StagedInv
  <2> QED
    BY <2>2, <2>3 DEF RegistersInv
<1>8. CASE ApplyUnanswered \/ ApplyInterrupted
  <2>1. /\ command.phase = "apply"
        /\ (held' = {} /\ answered' = {}) \/ (held' = held /\ answered' = answered)
    BY <1>8 DEF ApplyUnanswered, ApplyInterrupted, MayBeApplied
  <2>2. CASE SentAgain
    <3>1. RegistersTypeOK'
      BY <1>t, <2>1, <2>2, SentAgainEffect DEF RegistersTypeOK
    <3>2. StagedInv'
      BY <1>t, <2>1, <2>2, SentAgainEffect DEF StagedInv
    <3> QED
      BY <3>1, <3>2 DEF RegistersInv
  <2>3. CASE Stops({})
    <3>1. RegistersTypeOK'
      BY <1>t, <2>1, <2>3, StopsEffect DEF RegistersTypeOK
    <3>2. StagedInv'
      BY <1>t, <2>1, <2>3, StopsEffect DEF StagedInv
    <3> QED
      BY <3>1, <3>2 DEF RegistersInv
  <2> QED
    BY <1>8, <2>2, <2>3 DEF ApplyUnanswered, ApplyInterrupted
<1>9. CASE UNCHANGED registersVars
  BY <1>9 DEF registersVars, RegistersInv, RegistersTypeOK, StagedInv, Register
<1> QED
  BY <1>1, <1>2, <1>3, <1>4, <1>5, <1>6, <1>7, <1>8, <1>9 DEF RegistersNext

\* The invariant holds in every reachable state.
THEOREM RegistersInvHolds == RegistersSpec => []RegistersInv
  BY InitRegistersInv, NextRegistersInv, PTL DEF RegistersSpec

\* For all commands: the registers and the command under way are well formed.
THEOREM RegistersTypeCorrect == RegistersSpec => []RegistersTypeOK
<1>1. RegistersInv => RegistersTypeOK
  BY DEF RegistersInv
<1> QED
  BY <1>1, RegistersInvHolds, PTL

\* For all commands: between commands the client has on record every register
\* the unit holds staged, unless its write was answered with an exception.
THEOREM StagedTrackedHolds == RegistersSpec => []StagedIsTracked
<1>1. RegistersInv => StagedIsTracked
  BY DEF RegistersInv, StagedInv, StagedIsTracked
<1> QED
  BY <1>1, RegistersInvHolds, PTL

\* For all commands: an APPLY activates no register the client did not write or
\* warn of, unless its write was answered with an exception.
THEOREM WarningHolds == RegistersSpec => []LeftOversAreWarned
<1>1. RegistersInv => LeftOversAreWarned
  BY DEF RegistersInv, StagedInv, LeftOversAreWarned
<1> QED
  BY <1>1, RegistersInvHolds, PTL

\* The client forgets staged registers only when an answered APPLY left the unit
\* with none.
THEOREM ForgettingHolds == RegistersSpec => ForgottenOnlyAfterApply
<1>1. [RegistersNext]_registersVars => [tracked \ tracked' # {} => held' = {}]_registersVars
  <2> SUFFICES ASSUME RegistersNext, tracked \ tracked' # {} PROVE held' = {}
    OBVIOUS
  <2>1. ~(tracked \subseteq tracked')
    OBVIOUS
  <2>2. ASSUME NEW regs, Stops(regs) PROVE tracked \subseteq tracked'
    BY <2>2 DEF Stops
  <2>3. SentAgain => tracked \subseteq tracked'
    BY DEF SentAgain
  <2>4. Applied
    BY <2>1, <2>2, <2>3 DEF RegistersNext, WriteModeRegisters, RegisterWritten,
       RegisterRefused, RegisterTargetSilent, RegisterUnanswered,
       RegisterInterrupted, ApplyRefused, ApplyUnanswered, ApplyInterrupted
  <2> QED
    BY <2>4 DEF Applied
<1> QED
  BY <1>1, PTL DEF RegistersSpec, ForgottenOnlyAfterApply

-----------------------------------------------------------------------------
(* The control settings.                                                   *)
(*                                                                         *)
(* BelievedIsHeld carries itself: every step that changes a register or    *)
(* what is believed of it either changes both alike or leaves a doubt.     *)
(* The range check is made before the write and its result used after, so  *)
(* WritesKeepRange needs that it still stands while the write is under way *)
(* (CheckStands): what it went by does not change under the lock.          *)

SettingWrites == [key: Settings, value: Requests, phase: {"write", "readback", "refresh"}]

\* The part of the types that the argument needs.
SettingTypes ==
    /\ unit \in [Settings -> Int]
    /\ state \in [Settings -> Int \union {None}]
    /\ conf \in [Settings -> Outcomes \union {None}]
    /\ doubt \in [Settings -> BOOLEAN]
    /\ backoff \in BOOLEAN /\ foreign \in Nat
    /\ cmd # None => cmd \in SettingWrites

\* The range check of the write under way would still pass.
CheckStands == Writing => RangeAllows(cmd.key, cmd.value)

SettingsInv == SettingTypes /\ BelievedIsHeld /\ ReadbackNotSkipped /\ CheckStands

\* The value the client writes is a number.
LEMMA NormalizeInt ==
    ASSUME NEW k \in Settings, NEW value \in Int
    PROVE  Normalize(k, value) \in Int
<1>1. Limits[k][1] \in Int /\ Limits[k][2] \in Int /\ Limits[k][3] \in Nat \ {0}
  BY LimitsAssumption
<1>2. \A a, b \in Int : Max({a, b}) \in Int /\ Min({a, b}) \in Int
  BY DEF Max, Min
<1>3. Max({Limits[k][1], Min({Limits[k][2], value})}) \in Int
  BY <1>1, <1>2
<1> QED
  BY <1>1, <1>3 DEF Normalize

\* The command whose write is under way.
LEMMA WritingTypes ==
    ASSUME SettingTypes, Writing
    PROVE  /\ cmd \in SettingWrites /\ cmd.key \in Settings /\ cmd.value \in Int
           /\ Normalize(cmd.key, cmd.value) \in Int
<1>1. cmd \in SettingWrites
  BY DEF SettingTypes, Writing
<1>2. cmd.key \in Settings /\ cmd.value \in Requests
  BY <1>1 DEF SettingWrites
<1>3. \A v \in Requests : v \in Int
  BY RequestsAssumption
<1>4. cmd.value \in Int
  BY <1>2, <1>3, Zenon
<1> QED BY <1>1, <1>2, <1>4, NormalizeInt

\* The outcome is open: its value stands in for the one read last.
Open(c) == c # None /\ c.status \in {"pending", "unconfirmed"}

\* A read closes an outcome; an attempt without a value leaves open ones open
\* and all values as they are.
LEMMA JudgedOutcome ==
    ASSUME NEW c \in Outcomes \union {None}, NEW ok \in BOOLEAN, NEW actual \in Int
    PROVE  LET j == Judged(c, ok, actual)
           IN  /\ j \in Outcomes \union {None}
               /\ ok => ~Open(j)
               /\ ~ok => (Open(j) <=> Open(c)) /\ (Open(c) => j.expected = c.expected)
  BY NoneAssumption DEF Judged, Outcomes, Open

\* The end of a readback changes no value and opens or closes nothing.
LEMMA MarkedOutcome ==
    ASSUME NEW c \in Outcomes \union {None}
    PROVE  LET m == MarkUnconfirmed(c)
           IN  /\ m \in Outcomes \union {None}
               /\ Open(m) <=> Open(c)
               /\ Open(c) => m.expected = c.expected
  BY NoneAssumption DEF MarkUnconfirmed, Outcomes, Open

\* A read of the group, by a poll or after a write: what is believed is
\* unchanged, or read from the unit.
LEMMA ReadInv ==
    ASSUME SettingsInv, NEW ok \in BOOLEAN, Read(ok),
         conf' \in [Settings -> Outcomes \union {None}],
           \A k \in Settings :
               /\ ok /\ ~backoff => ~Open(conf'[k])
               /\ ~(ok /\ ~backoff) =>
                     (Open(conf'[k]) <=> Open(conf[k]))
                     /\ (Open(conf[k]) => conf'[k].expected = conf[k].expected),
           cmd' = None
    PROVE  SettingsInv'
<1>1. SettingTypes'
  BY DEF SettingsInv, SettingTypes, Read
<1>2. BelievedIsHeld'
  <2> SUFFICES ASSUME NEW k \in Settings, ~doubt'[k] PROVE Believed(k)' = unit'[k]
    BY DEF BelievedIsHeld
  <2>1. CASE ok /\ ~backoff
    BY <2>1 DEF Read, Believed, Open
  <2>2. CASE ~(ok /\ ~backoff)
    <3>1. Believed(k) = unit[k]
      BY <2>2 DEF SettingsInv, BelievedIsHeld, Read
    <3>2. Believed(k)' = Believed(k)
      BY <2>2 DEF Read, Believed, Open
    <3> QED BY <3>1, <3>2 DEF Read
  <2> QED BY <2>1, <2>2
<1> QED BY <1>1, <1>2 DEF SettingsInv, ReadbackNotSkipped, CheckStands, Writing

\* JudgedAll meets what ReadInv asks of the outcomes.
LEMMA JudgedAllOutcomes ==
    ASSUME SettingTypes, NEW ok \in BOOLEAN, NEW k \in Settings
    PROVE  LET j == JudgedAll(ok)[k]
           IN  /\ j \in Outcomes \union {None}
               /\ ok /\ ~backoff => ~Open(j)
               /\ ~(ok /\ ~backoff) =>
                     (Open(j) <=> Open(conf[k])) /\ (Open(conf[k]) => j.expected = conf[k].expected)
<1>1. conf[k] \in Outcomes \union {None} /\ unit[k] \in Int
  BY DEF SettingTypes
<1>2. JudgedAll(ok)[k] = IF backoff THEN conf[k] ELSE Judged(conf[k], ok, unit[k])
  BY DEF JudgedAll
<1> QED BY <1>1, <1>2, JudgedOutcome

LEMMA PollInv ==
    ASSUME SettingsInv, NEW ok \in BOOLEAN, Poll(ok)
    PROVE  SettingsInv'
<1>1. conf' = JudgedAll(ok) /\ Read(ok) /\ cmd' = None
  BY DEF Poll
<1>2. conf' \in [Settings -> Outcomes \union {None}]
  BY <1>1, JudgedAllOutcomes DEF SettingsInv, JudgedAll
<1> QED BY <1>1, <1>2, JudgedAllOutcomes, ReadInv DEF SettingsInv

LEMMA ReadBackInv ==
    ASSUME SettingsInv, NEW ok \in BOOLEAN, ReadBack(ok)
    PROVE  SettingsInv'
<1>1. Read(ok) /\ cmd' = None /\ cmd.key \in Settings
  BY DEF SettingsInv, SettingTypes, SettingWrites, ReadBack
<1>2. JudgedAll(ok) \in [Settings -> Outcomes \union {None}]
  BY JudgedAllOutcomes DEF SettingsInv, JudgedAll
<1>3. \A k \in Settings :
         conf'[k] = JudgedAll(ok)[k] \/ conf'[k] = MarkUnconfirmed(JudgedAll(ok)[k])
  BY <1>1, <1>2 DEF ReadBack
<1>4. conf' \in [Settings -> Outcomes \union {None}]
  <2>1. MarkUnconfirmed(JudgedAll(ok)[cmd.key]) \in Outcomes \union {None}
    BY <1>1, <1>2, MarkedOutcome
  <2> QED BY <1>1, <1>2, <2>1 DEF ReadBack
<1>5. ASSUME NEW k \in Settings
      PROVE  /\ Open(conf'[k]) <=> Open(JudgedAll(ok)[k])
             /\ Open(JudgedAll(ok)[k]) => conf'[k].expected = JudgedAll(ok)[k].expected
  <2>1. JudgedAll(ok)[k] \in Outcomes \union {None}
    BY <1>2
  <2> QED BY <1>3, <2>1, MarkedOutcome
<1> QED BY <1>1, <1>4, <1>5, JudgedAllOutcomes, ReadInv DEF SettingsInv

\* The check that let the command through stands: it takes the lock and
\* changes nothing it went by.
LEMMA BeginInv ==
    ASSUME SettingsInv, NEW k \in Settings, NEW v \in Requests, Begin(k, v)
    PROVE  SettingsInv'
<1>1. SettingTypes'
  BY DEF SettingsInv, SettingTypes, Begin, SettingWrites
<1>2. \A s \in Settings : Believed(s)' = Believed(s)
  BY DEF Begin, Believed
<1>3. BelievedIsHeld' /\ ReadbackNotSkipped'
  BY <1>2 DEF SettingsInv, BelievedIsHeld, ReadbackNotSkipped, Begin
<1>4. CheckStands'
  <2>1. cmd'.key = k /\ cmd'.value = v /\ RangeAllows(k, v)
    BY DEF Begin
  <2> QED BY <1>2, <2>1, RangesAssumption DEF CheckStands, RangeAllows
<1> QED BY <1>1, <1>3, <1>4 DEF SettingsInv

\* An accepted write: the register and what is believed of it change alike,
\* and the readback is let through.
LEMMA WriteAcceptedInv ==
    ASSUME SettingsInv, WriteAccepted
    PROVE  SettingsInv'
<1> DEFINE value == Normalize(cmd.key, cmd.value)
<1>1. cmd \in SettingWrites /\ cmd.key \in Settings /\ value \in Int
  BY WritingTypes DEF SettingsInv, WriteAccepted
<1>2. Pending(value, "pending") \in Outcomes
  BY <1>1 DEF Pending, Outcomes
<1>3. /\ unit' = [unit EXCEPT ![cmd.key] = value]
      /\ conf' = [conf EXCEPT ![cmd.key] = Pending(value, "pending")]
  BY DEF WriteAccepted, Reaches, Accepted
<1> HIDE DEF value
<1>4. SettingTypes'
  <2>1. unit' \in [Settings -> Int]
    BY <1>1, <1>3 DEF SettingsInv, SettingTypes
  <2>2. conf' \in [Settings -> Outcomes \union {None}]
    BY <1>2, <1>3 DEF SettingsInv, SettingTypes
  <2>3. doubt' \in [Settings -> BOOLEAN] /\ cmd' \in SettingWrites
    BY <1>1 DEF SettingsInv, SettingTypes, WriteAccepted, SettingWrites
  <2> QED BY <2>1, <2>2, <2>3 DEF SettingsInv, SettingTypes, WriteAccepted, BackoffAfterWrite
<1>5. BelievedIsHeld'
  <2> SUFFICES ASSUME NEW k \in Settings, ~doubt'[k] PROVE Believed(k)' = unit'[k]
    BY DEF BelievedIsHeld
  <2>1. CASE k = cmd.key
    <3>1. conf'[k] = Pending(value, "pending") /\ unit'[k] = value
      BY <1>1, <1>3, <2>1 DEF SettingsInv, SettingTypes
    <3> QED BY <1>2, <3>1, NoneAssumption DEF Believed, Pending
  <2>2. CASE k # cmd.key
    <3>1. conf'[k] = conf[k] /\ unit'[k] = unit[k] /\ state' = state /\ ~doubt[k]
      BY <1>1, <1>3, <2>2 DEF SettingsInv, SettingTypes, WriteAccepted
    <3> QED BY <3>1 DEF SettingsInv, BelievedIsHeld, Believed
  <2> QED BY <2>1, <2>2
<1>6. ReadbackNotSkipped' /\ CheckStands'
  BY <1>1 DEF WriteAccepted, BackoffAfterWrite, ReadbackNotSkipped, CheckStands, Writing,
       SettingWrites
<1> QED BY <1>4, <1>5, <1>6 DEF SettingsInv

\* A failed or cancelled write leaves a doubt, or what was read last is still
\* what the unit holds.
LEMMA WriteStopsInv ==
    ASSUME SettingsInv, Writing, NEW reached \in BOOLEAN, Reaches(reached),
           NEW status \in {"failed", "unconfirmed"},
           conf' = [conf EXCEPT ![cmd.key] = Pending(cmd.value, status)],
           \/ doubt' = [doubt EXCEPT ![cmd.key] = TRUE]
           \/ /\ doubt' = doubt /\ status = "failed" /\ ~reached
              /\ Believed(cmd.key) = state[cmd.key],
           cmd' = None \/ cmd' = [cmd EXCEPT !.phase = "refresh"],
           UNCHANGED <<state, backoff, foreign>>
    PROVE  SettingsInv'
<1>1. /\ cmd \in SettingWrites /\ cmd.key \in Settings
      /\ cmd.value \in Int /\ Normalize(cmd.key, cmd.value) \in Int
  BY WritingTypes DEF SettingsInv
<1>2. Pending(cmd.value, status) \in Outcomes
  BY <1>1 DEF Pending, Outcomes
<1>3. SettingTypes'
  BY <1>1, <1>2 DEF SettingsInv, SettingTypes, Reaches, SettingWrites
<1>4. BelievedIsHeld'
  <2> SUFFICES ASSUME NEW k \in Settings, ~doubt'[k] PROVE Believed(k)' = unit'[k]
    BY DEF BelievedIsHeld
  <2>1. CASE k = cmd.key
    <3>1. ~doubt[k] /\ status = "failed" /\ unit' = unit /\ Believed(k) = state[k]
      BY <1>1, <2>1 DEF SettingsInv, SettingTypes, Reaches
    <3>2. conf'[k] = Pending(cmd.value, "failed")
      BY <1>1, <2>1, <3>1 DEF SettingsInv, SettingTypes
    <3>3. Believed(k)' = state[k]
      BY <3>2 DEF Believed, Pending
    <3> QED BY <3>1, <3>3 DEF SettingsInv, BelievedIsHeld
  <2>2. CASE k # cmd.key
    <3>1. conf'[k] = conf[k] /\ unit'[k] = unit[k] /\ state' = state /\ ~doubt[k]
      BY <1>1, <2>2 DEF SettingsInv, SettingTypes, Reaches
    <3> QED BY <3>1 DEF SettingsInv, BelievedIsHeld, Believed
  <2> QED BY <2>1, <2>2
<1>5. ReadbackNotSkipped' /\ CheckStands'
  BY <1>1 DEF ReadbackNotSkipped, CheckStands, Writing, SettingWrites
<1> QED BY <1>3, <1>4, <1>5 DEF SettingsInv

LEMMA WriteFailsInv ==
    ASSUME SettingsInv, NEW reached \in BOOLEAN, NEW heard \in BOOLEAN, WriteFails(reached,
         heard)
    PROVE  SettingsInv'
  BY WriteStopsInv DEF WriteFails

LEMMA WriteCancelledInv ==
    ASSUME SettingsInv, NEW reached \in BOOLEAN, WriteCancelled(reached)
    PROVE  SettingsInv'
  BY WriteStopsInv DEF WriteCancelled

\* Another client leaves a doubt about the register it changes.
LEMMA AppSetsInv ==
    ASSUME SettingsInv, NEW k \in Settings, AppSets(k)
    PROVE  SettingsInv'
<1>1. Grid(k) \subseteq Int
  BY LimitsAssumption DEF Grid
<1>2. SettingTypes'
  BY <1>1 DEF SettingsInv, SettingTypes, AppSets
<1>3. \A s \in Settings : Believed(s)' = Believed(s)
  BY DEF AppSets, Believed
<1>4. BelievedIsHeld'
  BY <1>3 DEF SettingsInv, SettingTypes, BelievedIsHeld, AppSets
<1>5. ReadbackNotSkipped' /\ CheckStands'
  BY <1>3, RangesAssumption DEF SettingsInv, ReadbackNotSkipped, CheckStands, Writing, RangeAllows,
       AppSets
<1> QED BY <1>2, <1>4, <1>5 DEF SettingsInv

\* The steps that only move the command or the backoff.
LEMMA QuietInv ==
    ASSUME SettingsInv, UNCHANGED <<unit, state, conf, doubt, foreign>>, backoff' \in BOOLEAN,
           \/ cmd' = None
           \/ cmd' = cmd /\ (backoff' = backoff \/ ~backoff')
    PROVE  SettingsInv'
<1>1. SettingTypes'
  BY DEF SettingsInv, SettingTypes
<1>2. \A s \in Settings : Believed(s)' = Believed(s)
  BY DEF Believed
<1>3. BelievedIsHeld' /\ ReadbackNotSkipped'
  BY <1>2 DEF SettingsInv, BelievedIsHeld, ReadbackNotSkipped
<1>4. CheckStands'
  BY <1>2, RangesAssumption DEF SettingsInv, CheckStands, Writing, RangeAllows
<1> QED BY <1>1, <1>3, <1>4 DEF SettingsInv

LEMMA InitInv == Init => SettingsInv
<1> SUFFICES ASSUME Init PROVE SettingsInv
  OBVIOUS
<1>1. \A k \in Settings : Grid(k) \subseteq Int
  BY LimitsAssumption DEF Grid
<1>2. SettingTypes
  BY <1>1 DEF Init, SettingTypes
<1> QED BY <1>2 DEF Init, SettingsInv, BelievedIsHeld, ReadbackNotSkipped, CheckStands, Writing

LEMMA NextInv == SettingsInv /\ [Next]_vars => SettingsInv'
<1> SUFFICES ASSUME SettingsInv, [Next]_vars PROVE SettingsInv'
  OBVIOUS
<1>1. CASE UNCHANGED vars
  BY <1>1, QuietInv DEF vars, SettingsInv, SettingTypes
<1>2. CASE ReadbackCancelled \/ BackoffEnds
  BY <1>2, QuietInv DEF ReadbackCancelled, BackoffEnds, SettingsInv, SettingTypes
<1>3. CASE WriteAccepted
  BY <1>3, WriteAcceptedInv
<1>4. CASE \E reached, heard \in BOOLEAN : WriteFails(reached, heard)
  BY <1>4, WriteFailsInv
<1>5. CASE \E reached \in BOOLEAN : WriteCancelled(reached)
  BY <1>5, WriteCancelledInv
<1>6. CASE \E ok \in BOOLEAN : ReadBack(ok) \/ Poll(ok)
  BY <1>6, ReadBackInv, PollInv
<1>7. CASE \E k \in Settings, v \in Requests : Begin(k, v)
  BY <1>7, BeginInv
<1>8. CASE \E k \in Settings : AppSets(k)
  BY <1>8, AppSetsInv
<1> QED BY <1>1, <1>2, <1>3, <1>4, <1>5, <1>6, <1>7, <1>8 DEF Next

\* For all settings, limits and requests: the invariant holds.
THEOREM InvariantHolds == Spec => []SettingsInv
  BY InitInv, NextInv, PTL DEF Spec

\* For all settings, limits and requests: the value a range check goes by is the
\* one the unit holds, unless the register is in doubt.
THEOREM BelievedHolds == Spec => []BelievedIsHeld
<1>1. SettingsInv => BelievedIsHeld
  BY DEF SettingsInv
<1> QED BY <1>1, InvariantHolds, PTL

\* The read after an accepted write is never skipped by an earlier backoff.
THEOREM ReadbackHolds == Spec => []ReadbackNotSkipped
<1>1. SettingsInv => ReadbackNotSkipped
  BY DEF SettingsInv
<1> QED BY <1>1, InvariantHolds, PTL

\* A write of a level keeps the range: it sets the register to the value that
\* was checked, and the check went by what the unit holds of the other one.
LEMMA WriteKeepsRange ==
    ASSUME SettingsInv, Next, NEW r \in Ranges, Writing, cmd.key \in {r[1], r[2]},
           unit' # unit, foreign' = foreign, \A k \in {r[1], r[2]} : ~doubt[k]
    PROVE  unit'[r[1]] <= unit'[r[2]]
<1> DEFINE value == Normalize(cmd.key, cmd.value)
           Of(s) == IF s = cmd.key THEN value ELSE Believed(s)
<1>1. r[1] \in Settings /\ r[2] \in Settings /\ value \in Int /\ unit \in [Settings -> Int]
  BY RangesAssumption, WritingTypes DEF SettingsInv, SettingTypes
<1>2. unit' = [unit EXCEPT ![cmd.key] = value]
  <2>1. \A k \in Settings : ~AppSets(k)
    BY DEF AppSets, SettingsInv, SettingTypes
  <2>2. cmd # None /\ cmd.phase = "write"
    BY DEF Writing
  <2> HIDE DEF value
  <2>3. \A reached \in BOOLEAN : Reaches(reached) => unit' = [unit EXCEPT ![cmd.key] = value]
    BY DEF Reaches, value
  <2> QED
    BY <2>1, <2>2, <2>3 DEF Next, Begin, WriteAccepted, WriteFails, WriteCancelled, ReadBack, Poll,
       Read, ReadbackCancelled, BackoffEnds
<1>3. Of(r[1]) # None /\ Of(r[2]) # None => Of(r[1]) <= Of(r[2])
  BY DEF SettingsInv, CheckStands, RangeAllows
<1> HIDE DEF value
<1>4. \A k \in {r[1], r[2]} : Of(k) = unit'[k]
  BY <1>1, <1>2 DEF SettingsInv, BelievedIsHeld
<1>5. \A k \in {r[1], r[2]} : unit'[k] \in Int
  BY <1>1, <1>2
<1> QED BY <1>3, <1>4, <1>5, NoneAssumption

\* For all settings, limits and requests: no write of a level makes a minimum
\* exceed its maximum while both registers are known.
THEOREM RangeKept == Spec => WritesKeepRange
<1>1. ASSUME SettingsInv, [Next]_vars
      PROVE  [\A r \in Ranges :
                /\ Writing /\ cmd.key \in {r[1], r[2]} /\ unit' # unit /\ foreign' = foreign
                /\ \A k \in {r[1], r[2]} : ~doubt[k]
                => unit'[r[1]] <= unit'[r[2]]]_vars
  BY <1>1, WriteKeepsRange
<1> QED BY <1>1, InvariantHolds, PTL DEF Spec, WritesKeepRange

-----------------------------------------------------------------------------
(* Values stay on the steps between the limits.                            *)

\* Division with remainder, and what it says of multiples.
LEMMA Division ==
    \A x \in Int, d \in Nat \ {0} :
        x \div d \in Int /\ (x \div d) * d <= x /\ x < (x \div d) * d + d
  BY SMTT(20)

LEMMA MultipleOf == \A q \in Int, d \in Nat \ {0} : (q * d) % d = 0
  BY SMTT(20)

LEMMA DividedBy ==
    \A x \in Int, d \in Nat \ {0} : x % d = 0 => x = (x \div d) * d
  BY SMTT(20)

LEMMA SmallerMultiple ==
    ASSUME NEW q \in Int, NEW m \in Int, NEW d \in Nat \ {0}, q * d < m * d + d
    PROVE  q <= m /\ q * d <= m * d
<1>1. q <= m
  <2> SUFFICES ASSUME q >= m + 1 PROVE FALSE
    OBVIOUS
  <2>1. q * d >= (m + 1) * d
    BY SMTT(20)
  <2> QED BY <2>1, SMTT(20)
<1>2. q * d <= m * d
  BY <1>1, SMTT(20)
<1> QED BY <1>1, <1>2

\* normalize_control_setting rounds to a step between the limits: rounding up
\* half a step beyond the largest one is not possible, because the limits are
\* whole steps apart.
LEMMA NormalizeOnGrid ==
    ASSUME NEW k \in Settings, NEW value \in Int
    PROVE  Normalize(k, value) \in Grid(k)
<1> DEFINE low == Limits[k][1]
           high == Limits[k][2]
           step == Limits[k][3]
           clamped == Max({low, Min({high, value})})
           x == clamped - low + step \div 2
           q == x \div step
           m == (high - low) \div step
<1>1. low \in Int /\ high \in Int /\ step \in Nat \ {0} /\ low <= high /\ (high - low) % step = 0
  BY LimitsAssumption
<1> HIDE DEF low, high, step
<1>2. clamped \in Int /\ low <= clamped /\ clamped <= high
  <2>1. \A a, b \in Int : /\ Max({a, b}) \in {a, b} /\ Max({a, b}) >= a /\ Max({a, b}) >= b
                          /\ Min({a, b}) \in {a, b} /\ Min({a, b}) <= a /\ Min({a, b}) <= b
    BY DEF Max, Min
  <2>2. Min({high, value}) \in Int /\ Min({high, value}) <= high
    BY <1>1, <2>1
  <2> HIDE DEF Max, Min
  <2>3. clamped \in {low, Min({high, value})} /\ clamped >= low
    BY <1>1, <2>1, <2>2
  <2> QED BY <1>1, <2>2, <2>3
<1> HIDE DEF clamped
<1>3. step \div 2 \in Int /\ 0 <= step \div 2 /\ step \div 2 < step
  BY <1>1
<1>4. x \in Int /\ 0 <= x /\ x < (high - low) + step
  BY <1>1, <1>2, <1>3
<1> HIDE DEF x
<1>5. q \in Int /\ q * step <= x /\ x < q * step + step
  BY <1>1, <1>4, Division
<1>6. m \in Int /\ high - low = m * step
  BY <1>1, Division, DividedBy
<1> HIDE DEF q, m
<1>7. 0 <= q /\ 0 * step <= q * step
  <2>1. 0 * step < q * step + step
    BY <1>1, <1>4, <1>5
  <2> QED BY <1>1, <1>5, <2>1, SmallerMultiple
<1>8. q * step <= m * step
  <2>1. q * step < m * step + step
    BY <1>1, <1>4, <1>5, <1>6
  <2> QED BY <1>1, <1>5, <1>6, <2>1, SmallerMultiple
<1> DEFINE r == q * step
<1>9. r \in Int /\ 0 <= r /\ r <= high - low /\ r % step = 0
  BY <1>1, <1>5, <1>6, <1>7, <1>8, MultipleOf
<1>10. Normalize(k, value) = low + r
  BY DEF Normalize, q, x, clamped, low, high, step
<1> HIDE DEF r
<1>11. low + r \in low..high /\ ((low + r) - low) % step = 0
  <2>1. (low + r) - low = r
    BY <1>1, <1>9
  <2> QED BY <1>1, <1>9, <2>1
<1> QED BY <1>10, <1>11 DEF Grid, low, high, step

OnGrid == \A k \in Settings : unit[k] \in Grid(k) /\ state[k] \in Grid(k) \union {None}

LEMMA NextOnGrid == SettingsInv /\ OnGrid /\ [Next]_vars => OnGrid'
<1> SUFFICES ASSUME SettingsInv, OnGrid, [Next]_vars, NEW k \in Settings
             PROVE  unit'[k] \in Grid(k) /\ state'[k] \in Grid(k) \union {None}
  BY DEF OnGrid, Grid
<1>1. unit[k] \in Grid(k) /\ state[k] \in Grid(k) \union {None} /\ unit \in [Settings -> Int]
  BY DEF OnGrid, SettingsInv, SettingTypes
<1>2. CASE UNCHANGED <<unit, state>>
  BY <1>1, <1>2
<1>3. CASE Writing /\ (\E reached \in BOOLEAN : Reaches(reached)) /\ UNCHANGED state
  <2>1. Normalize(cmd.key, cmd.value) \in Grid(cmd.key) /\ cmd.key \in Settings
    BY <1>3, WritingTypes, NormalizeOnGrid DEF SettingsInv
  <2> QED BY <1>1, <1>3, <2>1 DEF Reaches
<1>4. CASE \E ok \in BOOLEAN : Read(ok)
  BY <1>1, <1>4 DEF Read
<1>5. CASE \E s \in Settings : AppSets(s)
  BY <1>1, <1>5 DEF AppSets
<1> QED BY <1>2, <1>3, <1>4, <1>5 DEF Next, vars, Begin, WriteAccepted, WriteFails, WriteCancelled,
          ReadBack, Poll, ReadbackCancelled, BackoffEnds

\* For all settings, limits and requests: registers and values read are on the
\* steps of their settings, whatever users ask for.
THEOREM SettingsTypeCorrect == Spec => []TypeOK
<1>1. Init => OnGrid
  BY DEF Init, OnGrid
<1>2. SettingsInv /\ OnGrid => TypeOK
  <2> SUFFICES ASSUME SettingsInv, OnGrid PROVE TypeOK
    OBVIOUS
  <2>1. cmd # None => cmd.key \in Settings /\ cmd.phase \in {"write", "readback", "refresh"}
    BY DEF SettingsInv, SettingTypes, SettingWrites
  <2> QED BY <2>1 DEF SettingsInv, OnGrid, TypeOK, SettingTypes
<1> QED BY <1>1, <1>2, NextOnGrid, InvariantHolds, PTL DEF Spec
=============================================================================
