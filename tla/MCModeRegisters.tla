-------------------------- MODULE MCModeRegisters --------------------------
EXTENDS ModeRegisters

\* The register lists of write_level, write_unbalanced_levels,
\* operating_mode_writes, preset_mode_writes and clear_intensive.
MCCommands ==
    {<<"preset_mode", "preset_value", "mode", "current_level">>,
     <<"mode", "current_level">>,
     <<"mode", "current_level", "extract_target_level">>,
     <<"preset_mode", "preset_value">>}
=============================================================================
