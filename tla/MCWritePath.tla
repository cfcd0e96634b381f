---------------------------- MODULE MCWritePath ----------------------------
EXTENDS WritePath

\* The unit starts in manual mode or in a quick mode.
MCAppBases == {Manual(40), Quick("low")}

\* The unit starts in manual mode; quick modes come from commands.
MCManualBase == {Manual(40)}
=============================================================================
