--------------------------- MODULE MCPollSchedule ---------------------------
EXTENDS PollSchedule

\* Two units, a frequent job for each and a rare one for the first.
MCRoom == <<"r1", "r2", "r1">>
\* At the slow rate the frequent jobs alone take every slot.
MCInterval == <<2, 2, 3>>
MCStagger == <<0, 1, 0>>
=============================================================================
