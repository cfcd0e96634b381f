-------------------------- MODULE MCControlSettings --------------------------
(* One sensor control with its two levels in steps of ten, and requests off *)
(* the steps and beyond the limits.                                         *)
EXTENDS ControlSettings, TLC

MCLimits == "min_level" :> <<0, 20, 10>> @@ "max_level" :> <<10, 20, 10>>
MCRanges == {<<"min_level", "max_level">>}
=============================================================================
