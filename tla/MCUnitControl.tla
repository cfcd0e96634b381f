--------------------------- MODULE MCUnitControl ---------------------------
EXTENDS UnitControl

\* A balanced airflow chosen in the app.
MCAppLevels == {<<20, 20>>}

\* A register map of a unit that runs an app preset of one direction.
MCRegisterMaps == {Status(MODE_UNBALANCED, 0, 205, <<0, 50>>)}
=============================================================================
