--------------------------- MODULE ModeRegisters ---------------------------
(***************************************************************************)
(* MeltemModbusClient._write_mode_registers for one unit: a command writes *)
(* its mode registers one request after the other and activates them with  *)
(* APPLY.  A command that stops half-way leaves registers staged on the    *)
(* unit; the next APPLY activates them too, so the client remembers them   *)
(* and warns.  Every request goes through TransportPolicy.run, which sends *)
(* it a second time when the first attempt got no answer.                  *)
(*                                                                         *)
(* Register values are left out: which registers are staged is what the    *)
(* client tracks.  The gateway lock admits one command at a time.          *)
(***************************************************************************)
EXTENDS Naturals, Sequences, Functions

CONSTANTS
    Commands   \* the register lists of the commands, in the order written

Registers == UNION {Range(c) : c \in Commands}

ASSUME CommandsAssumption == \A c \in Commands : c # <<>> /\ c \in Seq(STRING)

VARIABLES
    tracked,  \* _staged_mode_registers[slave]
    command,  \* the running command: its registers, the next request, the attempt
    written,  \* the local list of registers written so far
    warned,   \* the left-over registers of the warning
    held,     \* external: the registers the unit stored since its last APPLY
    answered  \* history: of these, the ones whose write ended in an exception response

registersVars == <<tracked, command, written, warned, held, answered>>

NoCommand == [phase |-> "idle", regs |-> <<>>, next |-> 0, attempt |-> 0]
Register == command.regs[command.next]

\* The command goes on to its next request.
Request(phase, next) ==
    [phase |-> phase, regs |-> command.regs, next |-> next, attempt |-> 1]

-----------------------------------------------------------------------------

\* A command takes the lock: write_level, write_unbalanced_levels,
\* write_operating_mode, write_preset_mode or clear_intensive.
WriteModeRegisters(c) ==
    /\ command.phase = "idle"
    /\ command' = [phase |-> "register", regs |-> c, next |-> 1, attempt |-> 1]
    /\ written' = {}
    /\ warned' = {}
    /\ UNCHANGED <<tracked, held, answered>>

\* Mutant: only registers with a response count as written.
StopsForgetting(regs) ==
    /\ tracked' = tracked \cup written
    /\ command' = NoCommand
    /\ written' = {}
    /\ UNCHANGED warned

\* The outer except clause: what may have been written counts as staged.
Stops(regs) ==
    /\ tracked' = tracked \cup written \cup regs
    /\ command' = NoCommand
    /\ written' = {}
    /\ UNCHANGED warned

\* TransportPolicy.run sends the request once more.
SentAgain ==
    /\ command.attempt = 1
    /\ command' = [command EXCEPT !.attempt = 2]
    /\ UNCHANGED <<tracked, written, warned>>

\* The register may have reached the unit although no answer came back.
MayBeStored == held' \in {held, held \cup {Register}}

-----------------------------------------------------------------------------
(* One register write.                                                     *)

\* The staged registers the command does not write again.
LeftOver(regs) == tracked \ Range(regs)

RegisterWritten ==
    /\ command.phase = "register"
    /\ held' = held \cup {Register}
    /\ answered' = answered \ {Register}
    /\ written' = written \cup {Register}
    /\ IF command.next < Len(command.regs)
       THEN /\ command' = Request("register", command.next + 1)
            /\ UNCHANGED warned
       ELSE /\ command' = Request("apply", command.next)
            /\ warned' = LeftOver(command.regs)
    /\ UNCHANGED tracked

\* An exception response of the unit: it did not store this write, but may
\* hold the register from an attempt whose answer was lost.
RegisterRefused ==
    /\ command.phase = "register"
    /\ Stops({})
    /\ answered' = answered \cup (held \cap {Register})
    /\ UNCHANGED held

\* The gateway answers for a unit that did not: an exception response too.
RegisterTargetSilent ==
    /\ command.phase = "register"
    /\ MayBeStored
    /\ \/ SentAgain /\ UNCHANGED answered
       \/ /\ command.attempt = 2
          /\ Stops({})
          /\ answered' = answered \cup (held' \cap {Register})

\* A timeout, a malformed answer or a lost link.
RegisterUnanswered ==
    /\ command.phase = "register"
    /\ MayBeStored
    /\ SentAgain \/ (command.attempt = 2 /\ Stops({Register}))
    /\ UNCHANGED answered

\* The caller is cancelled, or the client is shut down.
RegisterInterrupted ==
    /\ command.phase = "register"
    /\ MayBeStored
    /\ Stops({Register})
    /\ UNCHANGED answered

-----------------------------------------------------------------------------
(* APPLY.                                                                  *)

\* The unit processes APPLY, or the request did not reach it.
MayBeApplied ==
    \/ held' = {} /\ answered' = {}
    \/ UNCHANGED <<held, answered>>

Applied ==
    /\ command.phase = "apply"
    /\ held' = {}
    /\ answered' = {}
    /\ tracked' = {}
    /\ command' = NoCommand
    /\ written' = {}
    /\ UNCHANGED warned

ApplyRefused ==
    /\ command.phase = "apply"
    /\ Stops({})
    /\ UNCHANGED <<held, answered>>

\* No answer, or the gateway's answer for a silent unit: sent once more.
ApplyUnanswered ==
    /\ command.phase = "apply"
    /\ MayBeApplied
    /\ SentAgain \/ (command.attempt = 2 /\ Stops({}))

ApplyInterrupted ==
    /\ command.phase = "apply"
    /\ MayBeApplied
    /\ Stops({})

-----------------------------------------------------------------------------

\* Nothing is staged when the integration first talks to the unit.
RegistersInit ==
    /\ tracked = {}
    /\ command = NoCommand
    /\ written = {}
    /\ warned = {}
    /\ held = {}
    /\ answered = {}

RegistersNext ==
    \/ \E c \in Commands : WriteModeRegisters(c)
    \/ RegisterWritten \/ RegisterRefused \/ RegisterTargetSilent
    \/ RegisterUnanswered \/ RegisterInterrupted
    \/ Applied \/ ApplyRefused \/ ApplyUnanswered \/ ApplyInterrupted

RegistersSpec == RegistersInit /\ [][RegistersNext]_registersVars

-----------------------------------------------------------------------------

\* The tracked registers and the registers of the unit are mode registers.
RegistersTypeOK ==
    /\ tracked \subseteq Registers /\ written \subseteq Registers /\ warned \subseteq Registers
    /\ held \subseteq Registers /\ answered \subseteq held
    /\ command \in [phase : {"idle", "register", "apply"}, regs : Commands \cup {<<>>},
                    next : Nat, attempt : 0 .. 2]
    /\ command.phase # "idle" => command.regs \in Commands /\ command.next \in 1 .. Len(command.regs)

\* Between commands the client knows every register the unit still holds
\* staged, whether the write was cancelled, timed out or followed by a failing
\* APPLY, unless its write ended in an exception response.
StagedIsTracked ==
    command.phase = "idle" => held \subseteq tracked \cup answered

\* Documented: a register "whose write timed out or was cancelled counts as
\* staged" and one that was refused "holds nothing staged": between commands the
\* client knows every register the unit still holds staged.
\* The code does not have it: README, "Observations".
NothingStagedUntracked ==
    command.phase = "idle" => held \subseteq tracked

\* When APPLY is sent, every register it activates is one of the command or was
\* named in the warning, unless its write ended in an exception response.
LeftOversAreWarned ==
    command.phase = "apply" => held \subseteq Range(command.regs) \cup warned \cup answered

\* The client forgets a staged register only when the unit holds none at all.
ForgottenOnlyAfterApply ==
    [][tracked \ tracked' # {} => held' = {}]_registersVars
=============================================================================
