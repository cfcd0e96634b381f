-------------------------- MODULE VentilationUnit --------------------------
(***************************************************************************)
(* What the integration counts on a ventilation unit for, without its      *)
(* registers: it has one base setting and an intensive override.  A        *)
(* command replaces the base setting or switches the override.  The        *)
(* override hides the base setting and leaves it alone, and some base      *)
(* settings (off and the quick modes) end it.  A command is taken over a   *)
(* while after it was given; the last one counts.  The app changes what    *)
(* the unit runs without touching what the commands set.                   *)
(***************************************************************************)
CONSTANTS
    Bases,     \* base settings
    Ending,    \* the base settings that end the override
    Override   \* what the unit runs while the override is on

VARIABLES
    wanted,    \* the base setting and the override the commands set
    running,   \* what the unit runs
    settling   \* a command was not taken over yet

vars == <<wanted, running, settling>>

Settings == [base : Bases, override : BOOLEAN]

Init == wanted \in Settings /\ settling = FALSE

SetBase ==
    /\ wanted' \in Settings
    /\ wanted'.override = (wanted.override /\ wanted'.base \notin Ending)
    /\ settling' = TRUE
    /\ UNCHANGED running

SwitchOverride(on) ==
    /\ wanted' = [wanted EXCEPT !.override = on]
    /\ settling' = TRUE
    /\ UNCHANGED running

TakesOver ==
    /\ settling
    /\ running' = IF wanted.override THEN Override ELSE wanted.base
    /\ settling' = FALSE
    /\ UNCHANGED wanted

\* A change in the app replaces a command that was not taken over yet.
AppChange == settling' = FALSE /\ UNCHANGED wanted

Next == SetBase \/ (\E on \in BOOLEAN : SwitchOverride(on)) \/ TakesOver \/ AppChange

Spec == Init /\ [][Next]_vars
=============================================================================
