----------------------------- MODULE Diagnostics -----------------------------
(***************************************************************************)
(* The cumulative communication counters (cumulative_diagnostics.py): they *)
(* are counted in memory, saved with a throttled delay, flushed on unload  *)
(* and loaded again by the next setup.  A retired instance keeps its own   *)
(* delayed save: requests that were under way when the entry unloads are   *)
(* still recorded there.  The period start is stored with the counters     *)
(* and left out.                                                           *)
(***************************************************************************)
EXTENDS Integers, FiniteSetsExt

CONSTANTS
    Delay,       \* SAVE_DELAY_SECONDS
    Interval,    \* SAVE_INTERVAL_SECONDS
    Events,      \* the kinds of events that happen
    MaxRecords,  \* bound on recorded events
    MaxRestarts, \* bound on unloads, restarts and power losses
    MaxTime,     \* bound on the clock
    None

ASSUME DelayAssumption ==
    /\ Delay \in Nat \ {0} /\ Interval \in Nat /\ Delay < Interval
    /\ MaxRecords \in Nat /\ MaxRestarts \in Nat /\ MaxTime \in Nat

\* What each recorded event counts.
Counted == [answered |-> {"attempts"}, unanswered |-> {"attempts", "failures"},
            recycled |-> {"recycles"}, read_failed |-> {"reads"}, write_issue |-> {"writes"},
            write_confirmed |-> {}]
Counters == UNION {Counted[e] : e \in DOMAIN Counted}
ASSUME EventsAssumption == Events \subseteq DOMAIN Counted
Zero == [c \in Counters |-> 0]

VARIABLES
    now,      \* time.monotonic
    cur,      \* the instance in use: counters, last, pending and its delayed save
    retired,  \* instances of earlier setups that still have a delayed save
    flush,    \* the snapshot async_flush is writing, or None
    flight,   \* a request of the retired client is under way
    file,     \* external: the stored counters, or None
    removed,  \* the config entry was deleted
    total,    \* history: the events of the period
    late,     \* history: an event was recorded after the flush took its snapshot
    since,    \* history: the oldest event the instance has not saved
    wrote,    \* history: the last delayed save of the instance
    restarts  \* unloads, restarts and power losses so far

vars == <<now, cur, retired, flush, flight, file, removed, total, late, since, wrote, restarts>>

Instances == [counts: [Counters -> Nat], last: Nat \union {None}, pending: BOOLEAN,
              due: Nat \union {None}]
ASSUME NoneAssumption == None \notin Int /\ None \notin [Counters -> Nat] /\ None \notin Instances

Recorded == total["attempts"] + total["recycles"] + total["reads"] + total["writes"]
Count(counts, event) == [c \in Counters |-> counts[c] + (IF c \in Counted[event] THEN 1 ELSE 0)]

-----------------------------------------------------------------------------

\* Mutant: a save that was not written yet is put off by every event.
SavePendingNever(i) == FALSE

\* A save is pending, so the event will be part of it.
SavePending(i) == i.pending /\ i.last # None /\ now - i.last < Interval

SaveDelay(i) == IF i.last = None \/ now - i.last > Interval THEN Delay
                ELSE Max({Delay, (Interval + i.last) - now})

\* _schedule_save
ScheduleSave(i) ==
    IF SavePending(i) THEN i
    ELSE [i EXCEPT !.last = now + SaveDelay(i) - Delay, !.pending = TRUE,
                   !.due = now + SaveDelay(i)]

\* One of the record methods; a status without a category changes nothing.
Record(i, event) ==
    IF Counted[event] = {} THEN i
    ELSE ScheduleSave([i EXCEPT !.counts = Count(i.counts, event)])

\* Mutant: the snapshot does not end the pending save.
SavedPending(i) == [i EXCEPT !.due = None]

\* _stored_data: evaluated when the store writes.
Saved(i) == [i EXCEPT !.pending = FALSE, !.due = None]

-----------------------------------------------------------------------------

Restarting ==
    /\ restarts < MaxRestarts /\ restarts' = restarts + 1
    /\ cur' = None /\ since' = None /\ wrote' = None

\* async_create: a file that cannot be loaded, which Home Assistant sets aside,
\* starts a new period.
Load(readable) ==
    /\ cur = None /\ ~removed
    /\ LET counts == IF readable /\ file # None THEN file ELSE Zero
       IN  /\ cur' = [counts |-> counts, last |-> None, pending |-> FALSE, due |-> None]
           /\ total' = IF readable THEN total ELSE Zero
           /\ file' = IF readable THEN file ELSE None
    /\ since' = None /\ wrote' = None
    /\ UNCHANGED <<now, retired, flush, flight, removed, late, restarts>>

\* record_request, record_link_recycle, record_read_failure, record_write_issue
RecordEvent(event) ==
    /\ cur # None /\ Recorded < MaxRecords
    /\ cur' = Record(cur, event)
    /\ total' = Count(total, event)
    /\ since' = IF since = None /\ Counted[event] # {} THEN now ELSE since
    /\ late' = (late \/ (flush # None /\ Counted[event] # {}))
    /\ UNCHANGED <<now, retired, flush, flight, file, removed, wrote, restarts>>

\* A request of a retired client ends; it was sent before the client shut down.
RecordLate(i, event) ==
    /\ flight /\ Recorded < MaxRecords
    /\ retired' = (retired \ {i}) \union {Record(i, event)}
    /\ total' = Count(total, event)
    /\ flight' = FALSE /\ late' = TRUE
    /\ UNCHANGED <<now, cur, flush, file, removed, since, wrote, restarts>>

\* External: the store writes a delayed save.
DelayedSave ==
    /\ cur # None /\ cur.due = now /\ flush = None
    /\ file' = cur.counts /\ cur' = Saved(cur)
    /\ since' = None /\ wrote' = now
    /\ UNCHANGED <<now, retired, flush, flight, removed, total, late, restarts>>

RetiredSave(i) ==
    /\ i.due = now
    /\ file' = i.counts
    /\ retired' = (retired \ {i}) \union {j \in {Saved(i)} : flight}
    /\ UNCHANGED <<now, cur, flush, flight, removed, total, late, since, wrote, restarts>>

\* async_flush on unload or after a failed setup: the store cancels its delayed save.
BeginFlush ==
    /\ cur # None /\ flush = None
    /\ flush' = cur.counts /\ cur' = Saved(cur)
    /\ since' = None
    /\ UNCHANGED <<now, retired, flight, file, removed, total, late, wrote, restarts>>

\* The snapshot is written; the client shuts down, perhaps with a request sent.
EndFlush(sent) ==
    /\ flush # None /\ Restarting
    /\ file' = flush /\ flush' = None
    /\ retired' = retired \union {i \in {[cur EXCEPT !.last = now]} : sent \/ i.due # None}
    /\ flight' = sent
    /\ UNCHANGED <<now, removed, total, late>>

\* External: the final write of every store with a delayed save, in some order.
FinalWrites ==
    LET pending == {i \in retired \union ({cur} \ {None}) : i.due # None}
    IN  IF pending = {} THEN {file} ELSE {i.counts : i \in pending}

\* External: Home Assistant stops and starts again.
Stop ==
    /\ flush = None /\ Restarting
    /\ file' \in FinalWrites
    /\ retired' = {} /\ flight' = FALSE
    /\ UNCHANGED <<now, flush, removed, total, late>>

\* External: a power loss; what was not saved is gone.
Crash ==
    /\ Restarting
    /\ retired' = {} /\ flush' = None /\ flight' = FALSE
    /\ total' = IF file = None THEN Zero ELSE file
    /\ late' = FALSE
    /\ UNCHANGED <<now, file, removed>>

\* async_remove
Remove ==
    /\ cur = None /\ ~removed
    /\ removed' = TRUE /\ file' = None
    /\ UNCHANGED <<now, cur, retired, flush, flight, total, late, since, wrote, restarts>>

\* Timers fire on time; a flush takes less than a step of time.
Tick ==
    /\ now < MaxTime /\ flush = None
    /\ \A i \in retired \union ({cur} \ {None}) : i.due # now
    /\ now' = now + 1
    /\ UNCHANGED <<cur, retired, flush, flight, file, removed, total, late, since, wrote, restarts>>

Init ==
    /\ now = 0 /\ cur = None /\ retired = {} /\ flush = None /\ flight = FALSE
    /\ file = None /\ removed = FALSE /\ total = Zero /\ late = FALSE
    /\ since = None /\ wrote = None /\ restarts = 0

Next ==
    \/ \E readable \in BOOLEAN : Load(readable)
    \/ \E event \in Events : RecordEvent(event)
    \/ \E i \in retired, event \in Events : RecordLate(i, event)
    \/ DelayedSave \/ \E i \in retired : RetiredSave(i)
    \/ BeginFlush \/ \E sent \in BOOLEAN : EndFlush(sent)
    \/ Stop \/ Crash \/ Remove \/ Tick

Spec == Init /\ [][Next]_vars

-----------------------------------------------------------------------------
(* Properties                                                              *)

TypeOK ==
    /\ now \in Nat /\ cur \in Instances \union {None} /\ retired \subseteq Instances
    /\ \A i \in retired \union ({cur} \ {None}) : i.due = None \/ i.due >= now
    /\ flush \in [Counters -> Nat] \union {None} /\ file \in [Counters -> Nat] \union {None}
    /\ {flight, removed, late} \subseteq BOOLEAN /\ total \in [Counters -> Nat]
    /\ since \in Nat \union {None} /\ wrote \in Nat \union {None} /\ restarts \in Nat

\* However events and saves interleave, no event waits longer than the save
\* interval: the throttle never puts a pending save off.
SavedInTime == cur # None /\ since # None => now - since <= Interval

\* Two delayed saves of an instance are never closer than the interval
\* without the first delay, however the events come.
SavesSpaced ==
    cur # None /\ wrote # None /\ cur.due # None => cur.due - wrote >= Interval - Delay

\* The throttle neither puts a save off nor saves too often.
SavesOnTime == TypeOK /\ SavedInTime /\ SavesSpaced

\* A reload, a restart or a stop with a save still pending loses and repeats
\* no event, unless one was recorded after the flush of an unload.
AllCounted == cur # None /\ ~late => cur.counts = total

\* docs/DIAGNOSTICS.md: the counters are "flushed when the entry unloads or
\* Home Assistant stops.  A hard power loss can lose changes".
\* The code does not have it: README, "Observations".
OnlyPowerLossLoses == cur # None => cur.counts = total
=============================================================================
