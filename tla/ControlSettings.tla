--------------------------- MODULE ControlSettings ---------------------------
(***************************************************************************)
(* The control settings of a unit: number entities write one register each *)
(* and a read of the whole group confirms it.  A minimum level must not    *)
(* exceed its maximum, which is checked against what was read last or, for *)
(* a write that was not read back yet, against what was written.           *)
(*                                                                         *)
(* A write takes the read health as its baseline while it holds the lock,  *)
(* so every read attempt that follows judges it; a skipped one does not.   *)
(***************************************************************************)
EXTENDS Integers, FiniteSetsExt

CONSTANTS
    Limits,      \* CONTROL_SETTING_LIMITS: minimum, maximum and step of a setting
    Ranges,      \* CONTROL_LEVEL_RANGES: pairs of a minimum and a maximum setting
    Requests,    \* the values users ask for
    MaxWrites,   \* bound on commands
    MaxForeign,  \* bound on changes by another client
    None

Settings == DOMAIN Limits

ASSUME LimitsAssumption ==
    \A k \in Settings : /\ Limits[k] \in Nat \X Nat \X (Nat \ {0}) /\ Limits[k][1] <= Limits[k][2]
                        /\ (Limits[k][2] - Limits[k][1]) % Limits[k][3] = 0
ASSUME RangesAssumption == Ranges \subseteq Settings \X Settings
ASSUME RequestsAssumption ==
    Requests \subseteq Nat /\ MaxWrites \in Nat /\ MaxForeign \in Nat

\* WriteConfirmation: the value a write should have set and what became of it
Outcomes ==
    [expected: Int, status: {"pending", "unconfirmed", "confirmed", "mismatch", "failed"}]
ASSUME NoneAssumption == None \notin Int /\ None \notin Outcomes

VARIABLES
    unit,     \* external: the registers of the unit
    state,    \* RoomState: the values read last, None before the first read
    conf,     \* WriteConfirmations: the outcome of the last write of each setting
    cmd,      \* the command that holds the gateway lock, or None
    backoff,  \* _component_backoff skips reads of the group
    doubt,    \* history: nobody knows the register since then
    writes,   \* commands so far
    foreign   \* changes by another client so far

vars == <<unit, state, conf, cmd, backoff, doubt, writes, foreign>>

Grid(k) == {v \in Limits[k][1]..Limits[k][2] : (v - Limits[k][1]) % Limits[k][3] = 0}

\* normalize_control_setting
Normalize(k, value) ==
    LET low == Limits[k][1] step == Limits[k][3]
        clamped == Max({low, Min({Limits[k][2], value})})
    IN  low + ((clamped - low + step \div 2) \div step) * step

\* Mutant: only values that were read count.
BelievedRead(k) == state[k]

\* unconfirmed_control_setting, else the value read last
Believed(k) ==
    IF conf[k] # None /\ conf[k].status \in {"pending", "unconfirmed"} THEN conf[k].expected
    ELSE state[k]

\* check_control_level_range
RangeAllows(k, value) ==
    \A r \in Ranges :
        LET of(s) == IF s = k THEN Normalize(k, value) ELSE Believed(s)
        IN  k \in {r[1], r[2]} /\ of(r[1]) # None /\ of(r[2]) # None => of(r[1]) <= of(r[2])

Pending(expected, status) == [expected |-> expected, status |-> status]

\* Mutant: the outcome expects the value that was asked for.
AcceptedAsAsked(k, value) == value

\* The confirmed_expected of an accepted write is what the client wrote.
Accepted(k, value) == Normalize(k, value)

\* Mutant: a failed read decides nothing.
JudgedByValue(c, ok, actual) ==
    IF c = None \/ c.status \in {"failed", "confirmed"} \/ ~ok THEN c
    ELSE [c EXCEPT !.status = IF actual = c.expected THEN "confirmed" ELSE "mismatch"]

\* _checked_confirmation after a read attempt
Judged(c, ok, actual) ==
    IF c = None \/ c.status \in {"failed", "confirmed"} THEN c
    ELSE [c EXCEPT !.status =
             IF ~ok THEN IF c.status = "pending" THEN "unconfirmed" ELSE c.status
             ELSE IF actual = c.expected THEN "confirmed" ELSE "mismatch"]

\* mark_unconfirmed
MarkUnconfirmed(c) ==
    IF c # None /\ c.status = "pending" THEN [c EXCEPT !.status = "unconfirmed"] ELSE c

-----------------------------------------------------------------------------

\* async_set_native_value and async_set_control_setting, once they hold the
\* lock.  Home Assistant calls no entity that is unavailable, as before a read.
Begin(k, value) ==
    /\ cmd = None /\ writes < MaxWrites /\ state[k] # None
    /\ RangeAllows(k, value)
    /\ cmd' = [key |-> k, value |-> value, phase |-> "write"]
    /\ writes' = writes + 1
    /\ UNCHANGED <<unit, state, conf, backoff, doubt, foreign>>

Writing == cmd # None /\ cmd.phase = "write"

\* The register may hold the value even if no answer came.
Reaches(reached) ==
    unit' = IF reached THEN [unit EXCEPT ![cmd.key] = Normalize(cmd.key, cmd.value)] ELSE unit

\* The write lets the readback through.
BackoffAfterWrite == FALSE

WriteAccepted ==
    /\ Writing /\ Reaches(TRUE)
    /\ conf' = [conf EXCEPT ![cmd.key] = Pending(Accepted(cmd.key, cmd.value), "pending")]
    /\ cmd' = [cmd EXCEPT !.phase = "readback"]
    /\ backoff' = BackoffAfterWrite
    /\ doubt' = [doubt EXCEPT ![cmd.key] = FALSE]
    /\ UNCHANGED <<state, writes, foreign>>

\* A Modbus exception, or no answer.  It also makes an earlier value doubtful
\* that was written and not read back.
WriteFails(reached, answered) ==
    /\ Writing /\ Reaches(reached) /\ (answered => ~reached)
    /\ conf' = [conf EXCEPT ![cmd.key] = Pending(cmd.value, "failed")]
    /\ cmd' = [cmd EXCEPT !.phase = "refresh"]
    /\ doubt' = IF answered /\ Believed(cmd.key) = state[cmd.key]
                THEN doubt ELSE [doubt EXCEPT ![cmd.key] = TRUE]
    /\ UNCHANGED <<state, backoff, writes, foreign>>

WriteCancelled(reached) ==
    /\ Writing /\ Reaches(reached)
    /\ conf' = [conf EXCEPT ![cmd.key] = Pending(cmd.value, "unconfirmed")]
    /\ cmd' = None
    /\ doubt' = [doubt EXCEPT ![cmd.key] = TRUE]
    /\ UNCHANGED <<state, backoff, writes, foreign>>

\* A read of the group: refused reads start a backoff, which skips later ones.
Read(ok) ==
    /\ state' = IF ok /\ ~backoff THEN unit ELSE state
    /\ backoff' \in IF backoff THEN {TRUE} ELSE IF ok THEN {FALSE} ELSE BOOLEAN
    /\ doubt' = IF ok /\ ~backoff THEN [k \in Settings |-> FALSE] ELSE doubt
    /\ UNCHANGED <<unit, writes, foreign>>

JudgedAll(ok) == [k \in Settings |-> IF backoff THEN conf[k] ELSE Judged(conf[k], ok, unit[k])]

\* _async_refresh_room_after_write; the lock is released.
ReadBack(ok) ==
    /\ cmd # None /\ cmd.phase # "write"
    /\ Read(ok)
    /\ conf' = IF cmd.phase = "readback"
               THEN [JudgedAll(ok) EXCEPT ![cmd.key] = MarkUnconfirmed(JudgedAll(ok)[cmd.key])]
               ELSE JudgedAll(ok)
    /\ cmd' = None

\* The command is cancelled while it waits for the readback.
ReadbackCancelled ==
    /\ cmd # None /\ cmd.phase # "write"
    /\ cmd' = None
    /\ UNCHANGED <<unit, state, conf, backoff, doubt, writes, foreign>>

\* The scheduled read of the group
Poll(ok) ==
    /\ cmd = None
    /\ Read(ok)
    /\ conf' = JudgedAll(ok)
    /\ UNCHANGED cmd

BackoffEnds ==
    /\ backoff
    /\ backoff' = FALSE
    /\ UNCHANGED <<unit, state, conf, cmd, doubt, writes, foreign>>

\* External: the app changes a setting.
AppSets(k) ==
    /\ foreign < MaxForeign
    /\ \E v \in Grid(k) : unit' = [unit EXCEPT ![k] = v]
    /\ foreign' = foreign + 1
    /\ doubt' = [doubt EXCEPT ![k] = TRUE]
    /\ UNCHANGED <<state, conf, cmd, backoff, writes>>

Init ==
    /\ unit \in {f \in [Settings -> UNION {Grid(k) : k \in Settings}] :
                    /\ \A k \in Settings : f[k] \in Grid(k)
                    /\ \A r \in Ranges : f[r[1]] <= f[r[2]]}
    /\ state = [k \in Settings |-> None] /\ conf = [k \in Settings |-> None]
    /\ cmd = None /\ backoff = FALSE /\ doubt = [k \in Settings |-> TRUE]
    /\ writes = 0 /\ foreign = 0

Next ==
    \/ \E k \in Settings, v \in Requests : Begin(k, v)
    \/ WriteAccepted
    \/ \E reached, answered \in BOOLEAN : WriteFails(reached, answered)
    \/ \E reached \in BOOLEAN : WriteCancelled(reached)
    \/ \E ok \in BOOLEAN : ReadBack(ok) \/ Poll(ok)
    \/ ReadbackCancelled \/ BackoffEnds
    \/ \E k \in Settings : AppSets(k)

\* The scheduler keeps polling, a backoff ends, and a write or a readback runs
\* into its timeout at the latest; neither need succeed.
Fairness ==
    /\ WF_vars(\E ok \in BOOLEAN : Poll(ok)) /\ WF_vars(BackoffEnds)
    /\ WF_vars(\E ok \in BOOLEAN : ReadBack(ok))
    /\ WF_vars(WriteAccepted \/ WriteFails(FALSE, FALSE))

Spec == Init /\ [][Next]_vars /\ Fairness

-----------------------------------------------------------------------------
(* Properties                                                              *)

TypeOK ==
    /\ \A k \in Settings : unit[k] \in Grid(k) /\ state[k] \in Grid(k) \union {None}
    /\ conf \in [Settings -> Outcomes \union {None}]
    /\ cmd # None => cmd.key \in Settings /\ cmd.phase \in {"write", "readback", "refresh"}
    /\ backoff \in BOOLEAN /\ doubt \in [Settings -> BOOLEAN]

\* What a range check goes by is what the unit holds, whatever writes were
\* accepted, refused or read back in between, unless a write without an
\* answer or another client left the register unknown since the last read.
BelievedIsHeld == \A k \in Settings : ~doubt[k] => Believed(k) = unit[k]

\* The read after an accepted write is never skipped by an earlier backoff.
ReadbackNotSkipped == cmd # None /\ cmd.phase = "readback" => ~backoff

\* No write of a level makes a minimum exceed its maximum while both
\* registers are known.
WritesKeepRange ==
    [][\A r \in Ranges :
        /\ Writing /\ cmd.key \in {r[1], r[2]} /\ unit' # unit /\ foreign' = foreign
        /\ \A k \in {r[1], r[2]} : ~doubt[k]
        => unit'[r[1]] <= unit'[r[2]]]_vars

\* No outcome stays pending, also when the command was cancelled before its
\* readback and no read succeeds.
OutcomeSettles ==
    \A k \in Settings :
        (conf[k] # None /\ conf[k].status = "pending")
            ~> (conf[k] # None /\ conf[k].status # "pending")

\* const.py: "Minimum and maximum airflow level of each sensor control; min
\* must not exceed max."
\* The code does not have it: README, "Observations".
RangeHolds == foreign = 0 => \A r \in Ranges : unit[r[1]] <= unit[r[2]]
=============================================================================
