------------------------- MODULE DiagnosticsProofs -------------------------
(***************************************************************************)
(* The cumulative counters for every delay shorter than its interval and   *)
(* every bound: no event waits longer than the interval, saves are spaced, *)
(* and no event is lost or repeated by a reload, a restart or a stop.      *)
(***************************************************************************)
EXTENDS Diagnostics, TLAPS

-----------------------------------------------------------------------------
(* Operators                                                               *)

\* A counted event keeps the counters typed; an event of no category changes
\* nothing.
LEMMA CountType ==
    ASSUME NEW counts \in [Counters -> Nat], NEW event
    PROVE  /\ Count(counts, event) \in [Counters -> Nat]
           /\ Counted[event] = {} => Count(counts, event) = counts
<1>1. Count(counts, event) \in [Counters -> Nat]
  BY DEF Count
<1>2. ASSUME Counted[event] = {} PROVE Count(counts, event) = counts
  <2>1. \A c \in Counters : Count(counts, event)[c] = counts[c]
    BY <1>2 DEF Count
  <2> QED BY <1>1, <2>1
<1> QED BY <1>1, <1>2

\* The zero counters are counters.
LEMMA ZeroType == Zero \in [Counters -> Nat]
BY DEF Zero

\* The fields of an instance.
LEMMA InstanceFields ==
    ASSUME NEW i \in Instances
    PROVE  /\ i.counts \in [Counters -> Nat] /\ i.last \in Nat \union {None}
           /\ i.pending \in BOOLEAN /\ i.due \in Nat \union {None} /\ i # None
BY NoneAssumption DEF Instances

\* A delay is at least SAVE_DELAY_SECONDS, and at most the interval unless a
\* save was scheduled further ahead.
LEMMA SaveDelayBounds ==
    ASSUME NEW i \in Instances, now \in Nat
    PROVE  /\ SaveDelay(i) \in Nat /\ SaveDelay(i) >= Delay
           /\ i.last = None \/ i.last <= now => SaveDelay(i) <= Interval
           /\ i.last # None => now + SaveDelay(i) >= i.last + Interval
<1>1. Delay \in Nat /\ Interval \in Nat /\ Delay < Interval
  BY DelayAssumption
<1>2. \A a, b \in Int : Max({a, b}) = IF a <= b THEN b ELSE a
  BY DEF Max
<1>3. CASE i.last = None
  BY <1>1, <1>3 DEF SaveDelay
<1>4. CASE i.last # None
  <2>1. i.last \in Nat
    BY <1>4, InstanceFields
  <2>2. CASE now - i.last > Interval
    <3>1. SaveDelay(i) = Delay
      BY <2>2 DEF SaveDelay
    <3> QED BY <1>1, <2>1, <2>2, <3>1
  <2>3. CASE ~(now - i.last > Interval)
    <3> DEFINE rest == (Interval + i.last) - now
    <3>1. SaveDelay(i) = Max({Delay, rest})
      BY <1>4, <2>3 DEF SaveDelay
    <3>2. rest \in Int
      BY <1>1, <2>1
    <3>3. SaveDelay(i) = IF Delay <= rest THEN rest ELSE Delay
      <4> HIDE DEF rest
      <4> QED BY <1>1, <1>2, <3>1, <3>2
    <3> QED BY <1>1, <1>4, <2>1, <3>3
  <2> QED BY <2>2, <2>3
<1> QED BY <1>3, <1>4

\* _schedule_save: the instance with its new save.
LEMMA ScheduledFields ==
    ASSUME NEW i \in Instances, now \in Nat, ~SavePending(i)
    PROVE  LET r == ScheduleSave(i)
           IN  /\ r \in Instances /\ r.counts = i.counts /\ r.pending = TRUE
               /\ r.due = now + SaveDelay(i) /\ r.last = r.due - Delay
<1> DEFINE d == now + SaveDelay(i)
           r == ScheduleSave(i)
<1>1. d \in Nat /\ d - Delay \in Nat
  BY SaveDelayBounds, DelayAssumption
<1>2. r = [i EXCEPT !.last = d - Delay, !.pending = TRUE, !.due = d]
  <2>1. now + (SaveDelay(i) - Delay) = d - Delay
    BY SaveDelayBounds, DelayAssumption
  <2> QED BY <2>1, Zenon DEF ScheduleSave
<1> HIDE DEF d
<1>3. r.counts = i.counts /\ r.pending = TRUE /\ r.due = d /\ r.last = d - Delay
  BY <1>2 DEF Instances
<1>4. r \in Instances
  BY <1>1, <1>2 DEF Instances
<1> QED BY <1>3, <1>4 DEF d

\* A record method counts the event and keeps a save ahead.
LEMMA RecordFields ==
    ASSUME NEW i \in Instances, now \in Nat, NEW event,
           i.due = None \/ i.due >= now
    PROVE  LET r == Record(i, event)
               c == [i EXCEPT !.counts = Count(i.counts, event)]
           IN  /\ r \in Instances /\ r.counts = Count(i.counts, event)
               /\ r.due = None \/ r.due >= now
               /\ \/ r = i /\ Counted[event] = {}
                  \/ /\ Counted[event] # {} /\ SavePending(i)
                     /\ r.last = i.last /\ r.pending = i.pending /\ r.due = i.due
                  \/ /\ Counted[event] # {} /\ ~SavePending(i)
                     /\ r.pending = TRUE /\ r.last = r.due - Delay
                     /\ r.due = now + SaveDelay(i)
<1> DEFINE r == Record(i, event)
           c == [i EXCEPT !.counts = Count(i.counts, event)]
<1>1. i.counts \in [Counters -> Nat]
  BY InstanceFields
<1>2. CASE Counted[event] = {}
  BY <1>1, <1>2, CountType DEF Record
<1>3. CASE Counted[event] # {}
  <2>1. r = ScheduleSave(c)
    BY <1>3 DEF Record
  <2>2. /\ c \in Instances /\ c.counts = Count(i.counts, event)
        /\ c.last = i.last /\ c.pending = i.pending /\ c.due = i.due
    BY <1>1, CountType DEF Instances
  <2> HIDE DEF c
  <2>3. SavePending(c) <=> SavePending(i)
    BY <2>2 DEF SavePending
  <2>4. SaveDelay(c) = SaveDelay(i)
    BY <2>2 DEF SaveDelay
  <2>5. CASE SavePending(i)
    <3>1. r = c
      BY <2>1, <2>3, <2>5 DEF ScheduleSave
    <3> QED BY <1>3, <2>2, <2>5, <3>1
  <2>6. CASE ~SavePending(i)
    <3>1. /\ r \in Instances /\ r.counts = c.counts /\ r.pending = TRUE
          /\ r.due = now + SaveDelay(c) /\ r.last = r.due - Delay
      BY <2>1, <2>2, <2>3, <2>6, ScheduledFields
    <3>2. r.due >= now
      BY <2>4, <3>1, SaveDelayBounds
    <3> HIDE DEF r
    <3> QED BY <1>3, <2>2, <2>4, <2>6, <3>1, <3>2 DEF r
  <2> QED BY <2>5, <2>6
<1> QED BY <1>2, <1>3

\* _stored_data: the save is over.
LEMMA SavedFields ==
    ASSUME NEW i \in Instances
    PROVE  /\ Saved(i) \in Instances /\ Saved(i).counts = i.counts /\ Saved(i).last = i.last
           /\ Saved(i).pending = FALSE /\ Saved(i).due = None
BY DEF Saved, Instances

-----------------------------------------------------------------------------
(* The inductive invariants                                                *)

\* A save of i that is ahead.
Ahead(i) == i.due = None \/ i.due >= now

\* The types of everything but the instances.
RestType ==
    /\ flush \in [Counters -> Nat] \union {None} /\ file \in [Counters -> Nat] \union {None}
    /\ flight \in BOOLEAN /\ removed \in BOOLEAN /\ late \in BOOLEAN
    /\ total \in [Counters -> Nat]
    /\ since \in Nat \union {None} /\ wrote \in Nat \union {None} /\ restarts \in Nat

TypeInv ==
    /\ now \in Nat /\ cur \in Instances \union {None} /\ retired \subseteq Instances
    /\ cur # None => Ahead(cur)
    /\ \A i \in retired : Ahead(i)
    /\ RestType

\* The throttle.  A save is pending exactly while an event is not saved, its
\* time is known from _last_save_scheduled_at, and it is not further ahead than
\* the interval after the oldest such event.  While async_flush writes, a save
\* may be scheduled further ahead, but the instance does not outlive the flush.
Throttle ==
    /\ cur.pending = TRUE <=> cur.due # None
    /\ since = None <=> cur.due = None
    /\ since # None => since <= now
    /\ flush # None /\ since # None => since = now
    /\ cur.due # None => cur.last = cur.due - Delay
    /\ flush = None /\ cur.due # None => cur.due <= since + Interval
    /\ flush = None /\ cur.due = None /\ cur.last # None => cur.last <= now
    /\ wrote # None => wrote <= now /\ cur.last # None /\ cur.last >= wrote - Delay
    /\ wrote # None /\ cur.due # None => cur.due - wrote >= Interval - Delay

SaveInv ==
    /\ flush # None => cur # None
    /\ cur # None => Throttle

\* What the next setup would load.
Stored == IF file = None THEN Zero ELSE file

\* Unless an event came after the snapshot of a flush, no retired instance has
\* anything to save, and what is not counted in the file is in a pending save
\* or in the snapshot.
CountInv ==
    /\ removed => cur = None
    /\ ~late =>
          /\ \A i \in retired : i.due = None
          /\ cur # None => cur.counts = total
          /\ cur # None /\ flush = None /\ cur.due = None => Stored = total
          /\ flush # None => cur.due = None /\ flush = total
          /\ cur = None /\ ~removed => Stored = total

Inv == TypeInv /\ SaveInv /\ CountInv

\* A pending save is not put off: its time has not come yet.
LEMMA PendingStays ==
    ASSUME Inv, cur # None, cur.due # None
    PROVE  SavePending(cur)
<1>1. /\ now \in Nat /\ cur.due \in Nat /\ cur.due >= now /\ cur.pending = TRUE
      /\ cur.last = cur.due - Delay
  BY InstanceFields DEF Inv, TypeInv, Ahead, SaveInv, Throttle
<1>2. Delay \in Nat /\ Interval \in Nat /\ Delay < Interval
  BY DelayAssumption
<1>3. cur.last # None
  BY InstanceFields, <1>1, <1>2, NoneAssumption DEF Inv, TypeInv
<1>4. now - cur.last < Interval
  BY <1>1, <1>2
<1> QED BY <1>1, <1>3, <1>4 DEF SavePending

\* An event is counted in the instance in use.
LEMMA RecordEventInv ==
    ASSUME Inv, NEW event, RecordEvent(event)
    PROVE  Inv'
<1> DEFINE r == Record(cur, event)
<1>1. /\ cur # None /\ cur \in Instances /\ now \in Nat /\ Ahead(cur) /\ Throttle
      /\ total \in [Counters -> Nat]
  BY DEF RecordEvent, Inv, TypeInv, RestType, SaveInv
<1>2. /\ cur' = r /\ total' = Count(total, event)
      /\ since' = IF since = None /\ Counted[event] # {} THEN now ELSE since
      /\ late' = (late \/ (flush # None /\ Counted[event] # {}))
      /\ UNCHANGED <<now, retired, flush, flight, file, removed, wrote, restarts>>
  BY DEF RecordEvent
<1>3. /\ r \in Instances /\ r.counts = Count(cur.counts, event)
      /\ r.due = None \/ r.due >= now
      /\ \/ r = cur /\ Counted[event] = {}
         \/ /\ Counted[event] # {} /\ SavePending(cur)
            /\ r.last = cur.last /\ r.pending = cur.pending /\ r.due = cur.due
         \/ /\ Counted[event] # {} /\ ~SavePending(cur)
            /\ r.pending = TRUE /\ r.last = r.due - Delay
            /\ r.due = now + SaveDelay(cur)
  BY <1>1, RecordFields DEF Ahead
<1> HIDE DEF r
<1>4. cur' # None
  BY <1>2, <1>3, NoneAssumption
<1>5. TypeInv'
  <2>1. total' \in [Counters -> Nat] /\ since' \in Nat \union {None} /\ late' \in BOOLEAN
    BY <1>1, <1>2, CountType DEF Inv, TypeInv, RestType
  <2> QED BY <1>2, <1>3, <2>1 DEF Inv, TypeInv, RestType, Ahead
<1>6. CASE Counted[event] = {}
  <2>1. cur' = cur /\ since' = since /\ total' = total /\ late' = late
    BY <1>1, <1>2, <1>3, <1>6, CountType DEF Inv, TypeInv, RestType
  <2>2. Throttle' /\ SaveInv'
    BY <1>1, <1>2, <2>1 DEF Throttle, SaveInv, Inv
  <2>3. CountInv'
    BY <1>2, <2>1 DEF Inv, CountInv, Stored
  <2> QED BY <1>5, <2>2, <2>3 DEF Inv
<1>7. CASE Counted[event] # {} /\ cur.due # None
  <2>1. SavePending(cur)
    BY <1>1, <1>7, PendingStays
  <2>2. r.last = cur.last /\ r.pending = cur.pending /\ r.due = cur.due /\ since' = since
    BY <1>1, <1>2, <1>3, <1>7, <2>1 DEF Throttle
  <2>3. Throttle'
    BY <1>1, <1>2, <2>2 DEF Throttle
  <2>4. CountInv'
    BY <1>1, <1>2, <1>3, <1>4, <1>7, <2>2 DEF Inv, CountInv, TypeInv, RestType
  <2> QED BY <1>2, <1>4, <1>5, <2>3, <2>4 DEF Inv, SaveInv
<1>8. CASE Counted[event] # {} /\ cur.due = None
  <2>1. ~SavePending(cur) /\ since = None
    BY <1>1, <1>8 DEF SavePending, Throttle
  <2>2. /\ r.pending = TRUE /\ r.last = r.due - Delay
        /\ r.due = now + SaveDelay(cur) /\ since' = now
    BY <1>2, <1>3, <1>8, <2>1
  <2>3. Delay \in Nat /\ Interval \in Nat /\ Delay < Interval
    BY DelayAssumption
  <2>4. /\ SaveDelay(cur) \in Nat /\ SaveDelay(cur) >= Delay
        /\ cur.last = None \/ cur.last <= now => SaveDelay(cur) <= Interval
        /\ cur.last # None => now + SaveDelay(cur) >= cur.last + Interval
    BY <1>1, SaveDelayBounds
  <2>5. r.due \in Nat /\ r.due # None /\ r.last \in Int /\ r.last # None
    BY <1>1, <2>2, <2>3, <2>4, NoneAssumption
  <2>6. flush = None => r.due <= now + Interval
    BY <1>1, <1>8, <2>2, <2>3, <2>4 DEF Throttle
  <2>7. ASSUME wrote # None
        PROVE  wrote <= now /\ r.last >= wrote - Delay /\ r.due - wrote >= Interval - Delay
    <3>1. wrote \in Nat /\ wrote <= now /\ cur.last \in Nat /\ cur.last >= wrote - Delay
      BY <1>1, <2>7, InstanceFields DEF Inv, TypeInv, RestType, Throttle
    <3>2. r.due >= cur.last + Interval
      BY <2>2, <2>4, <3>1, NoneAssumption
    <3> QED BY <1>1, <2>2, <2>3, <2>4, <2>5, <3>1, <3>2
  <2>8. now # None /\ now <= now
    BY <1>1, NoneAssumption
  <2>9. Throttle'
    BY <1>2, <2>2, <2>5, <2>6, <2>7, <2>8 DEF Throttle
  <2>10. CountInv'
    <3>1. late' = (late \/ flush # None)
      BY <1>2, <1>8
    <3> QED BY <1>1, <1>2, <1>3, <1>4, <2>2, <2>5, <3>1 DEF Inv, CountInv, TypeInv, RestType
  <2> QED BY <1>2, <1>4, <1>5, <2>9, <2>10 DEF Inv, SaveInv
<1> QED BY <1>6, <1>7, <1>8

\* async_create starts with what is stored, or a new period.
LEMMA LoadInv ==
    ASSUME Inv, NEW readable \in BOOLEAN, Load(readable)
    PROVE  Inv'
<1> DEFINE counts == IF readable /\ file # None THEN file ELSE Zero
           n == [counts |-> counts, last |-> None, pending |-> FALSE, due |-> None]
<1>1. /\ cur = None /\ ~removed /\ cur' = n
      /\ total' = IF readable THEN total ELSE Zero
      /\ file' = IF readable THEN file ELSE None
      /\ since' = None /\ wrote' = None
      /\ UNCHANGED <<now, retired, flush, flight, removed, late, restarts>>
  BY DEF Load
<1>2. counts \in [Counters -> Nat]
  BY ZeroType DEF Inv, TypeInv, RestType
<1>3. n \in Instances /\ n.counts = counts /\ n.last = None /\ n.pending = FALSE /\ n.due = None
  BY <1>2 DEF Instances
<1>4. flush = None
  BY <1>1 DEF Inv, SaveInv
<1>5. ~late => Stored = total
  BY <1>1 DEF Inv, CountInv
<1>6. ~late => counts = total' /\ Stored' = total'
  BY <1>1, <1>5 DEF Stored
<1> HIDE DEF n, counts
<1>7. n # None
  BY <1>3, NoneAssumption
<1>8. TypeInv'
  BY <1>1, <1>3, ZeroType DEF Inv, TypeInv, RestType, Ahead
<1>9. SaveInv'
  BY <1>1, <1>3, <1>4, <1>7 DEF SaveInv, Throttle
<1>10. CountInv'
  BY <1>1, <1>3, <1>4, <1>6, <1>7 DEF Inv, CountInv
<1> QED BY <1>8, <1>9, <1>10 DEF Inv

\* A request of a retired client ends after the flush.
LEMMA RecordLateInv ==
    ASSUME Inv, NEW i \in retired, NEW event, RecordLate(i, event)
    PROVE  Inv'
<1> DEFINE r == Record(i, event)
<1>1. i \in Instances /\ Ahead(i) /\ now \in Nat
  BY DEF Inv, TypeInv
<1>2. r \in Instances /\ (r.due = None \/ r.due >= now)
  BY <1>1, RecordFields DEF Ahead
<1> HIDE DEF r
<1>3. /\ retired' = (retired \ {i}) \union {r} /\ total' = Count(total, event)
      /\ flight' = FALSE /\ late' = TRUE
      /\ UNCHANGED <<now, cur, flush, file, removed, since, wrote, restarts>>
  BY DEF RecordLate, r
<1>4. Count(total, event) \in [Counters -> Nat]
  BY CountType DEF Inv, TypeInv, RestType
<1>5. TypeInv'
  BY <1>2, <1>3, <1>4 DEF Inv, TypeInv, RestType, Ahead
<1>6. SaveInv' /\ CountInv'
  BY <1>3 DEF Inv, SaveInv, Throttle, CountInv
<1> QED BY <1>5, <1>6 DEF Inv

\* The store writes the delayed save of the instance in use.
LEMMA DelayedSaveInv ==
    ASSUME Inv, DelayedSave
    PROVE  Inv'
<1>1. /\ cur # None /\ cur.due = now /\ flush = None
      /\ file' = cur.counts /\ cur' = Saved(cur) /\ since' = None /\ wrote' = now
      /\ UNCHANGED <<now, retired, flush, flight, removed, total, late, restarts>>
  BY DEF DelayedSave
<1>2. cur \in Instances /\ now \in Nat /\ Throttle
  BY <1>1 DEF Inv, TypeInv, SaveInv
<1>3. cur.counts \in [Counters -> Nat] /\ cur.counts # None
  BY <1>2, InstanceFields, NoneAssumption
<1>4. /\ Saved(cur) \in Instances /\ Saved(cur).counts = cur.counts
      /\ Saved(cur).last = cur.last /\ Saved(cur).pending = FALSE /\ Saved(cur).due = None
  BY <1>2, SavedFields
<1>5. cur' # None
  BY <1>1, <1>4, NoneAssumption
<1>6. now # None /\ cur.last = now - Delay /\ Delay \in Nat
  BY <1>1, <1>2, NoneAssumption, DelayAssumption DEF Throttle
<1>7. cur.last # None /\ cur.last <= now /\ cur.last >= now - Delay /\ now <= now
  BY <1>2, <1>6, NoneAssumption
<1>8. TypeInv'
  BY <1>1, <1>3, <1>4 DEF Inv, TypeInv, RestType, Ahead
<1>9. SaveInv'
  BY <1>1, <1>4, <1>5, <1>7 DEF SaveInv, Throttle
<1>10. CountInv'
  BY <1>1, <1>3, <1>4, <1>5 DEF Inv, CountInv, Stored
<1> QED BY <1>8, <1>9, <1>10 DEF Inv

\* The store of a retired instance writes its delayed save.
LEMMA RetiredSaveInv ==
    ASSUME Inv, NEW i \in retired, RetiredSave(i)
    PROVE  Inv'
<1>1. /\ i.due = now /\ file' = i.counts
      /\ retired' = (retired \ {i}) \union {j \in {Saved(i)} : flight}
      /\ UNCHANGED <<now, cur, flush, flight, removed, total, late, since, wrote, restarts>>
  BY DEF RetiredSave
<1>2. i \in Instances /\ i.counts \in [Counters -> Nat] /\ now \in Nat
  BY InstanceFields DEF Inv, TypeInv
<1>3. Saved(i) \in Instances /\ Saved(i).due = None
  BY <1>2, SavedFields
<1>4. late
  BY <1>1, <1>2, NoneAssumption DEF Inv, CountInv, TypeInv, RestType
<1>5. TypeInv'
  BY <1>1, <1>2, <1>3 DEF Inv, TypeInv, RestType, Ahead
<1>6. SaveInv' /\ CountInv'
  BY <1>1, <1>4 DEF Inv, SaveInv, Throttle, CountInv
<1> QED BY <1>5, <1>6 DEF Inv

\* async_flush takes its snapshot.
LEMMA BeginFlushInv ==
    ASSUME Inv, BeginFlush
    PROVE  Inv'
<1>1. /\ cur # None /\ flush = None /\ flush' = cur.counts /\ cur' = Saved(cur) /\ since' = None
      /\ UNCHANGED <<now, retired, flight, file, removed, total, late, wrote, restarts>>
  BY DEF BeginFlush
<1>2. cur \in Instances /\ now \in Nat /\ Throttle
  BY <1>1 DEF Inv, TypeInv, SaveInv
<1>3. cur.counts \in [Counters -> Nat] /\ cur.counts # None
  BY <1>2, InstanceFields, NoneAssumption
<1>4. /\ Saved(cur) \in Instances /\ Saved(cur).counts = cur.counts
      /\ Saved(cur).last = cur.last /\ Saved(cur).pending = FALSE /\ Saved(cur).due = None
  BY <1>2, SavedFields
<1>5. cur' # None
  BY <1>1, <1>4, NoneAssumption
<1>6. TypeInv'
  BY <1>1, <1>3, <1>4 DEF Inv, TypeInv, RestType, Ahead
<1>7. SaveInv'
  BY <1>1, <1>2, <1>3, <1>4, <1>5 DEF SaveInv, Throttle
<1>8. CountInv'
  BY <1>1, <1>3, <1>4, <1>5 DEF Inv, CountInv
<1> QED BY <1>6, <1>7, <1>8 DEF Inv

\* The snapshot is written and the instance retires.
LEMMA EndFlushInv ==
    ASSUME Inv, NEW sent \in BOOLEAN, EndFlush(sent)
    PROVE  Inv'
<1> DEFINE r == [cur EXCEPT !.last = now]
<1>1. /\ flush # None /\ restarts' = restarts + 1
      /\ cur' = None /\ since' = None /\ wrote' = None
      /\ file' = flush /\ flush' = None
      /\ retired' = retired \union {i \in {r} : sent \/ i.due # None}
      /\ flight' = sent
      /\ UNCHANGED <<now, removed, total, late>>
  BY DEF EndFlush, Restarting
<1>2. cur # None /\ cur \in Instances /\ now \in Nat /\ Ahead(cur)
  BY <1>1 DEF Inv, TypeInv, SaveInv
<1>3. r \in Instances /\ r.due = cur.due
  BY <1>2 DEF Instances
<1> HIDE DEF r
<1>4. TypeInv'
  BY <1>1, <1>2, <1>3 DEF Inv, TypeInv, RestType, Ahead
<1>5. SaveInv'
  BY <1>1 DEF SaveInv
<1>6. CountInv'
  BY <1>1, <1>2, <1>3 DEF Inv, CountInv, Stored
<1> QED BY <1>4, <1>5, <1>6 DEF Inv

\* Home Assistant stops: the stores write what is pending.
LEMMA StopInv ==
    ASSUME Inv, Stop
    PROVE  Inv'
<1> DEFINE pending == {i \in retired \union ({cur} \ {None}) : i.due # None}
<1>1. /\ flush = None /\ restarts' = restarts + 1
      /\ cur' = None /\ since' = None /\ wrote' = None
      /\ file' \in FinalWrites /\ retired' = {} /\ flight' = FALSE
      /\ UNCHANGED <<now, flush, removed, total, late>>
  BY DEF Stop, Restarting
<1>2. (pending = {} /\ file' = file) \/ (\E i \in pending : file' = i.counts)
  BY <1>1 DEF FinalWrites
<1>3. pending \subseteq Instances
  BY DEF Inv, TypeInv
<1>4. file' \in [Counters -> Nat] \union {None}
  BY <1>2, <1>3, InstanceFields DEF Inv, TypeInv, RestType
<1>5. TypeInv'
  <2>1. restarts' \in Nat
    BY <1>1 DEF Inv, TypeInv, RestType
  <2>2. flight' \in BOOLEAN
    BY <1>1, Zenon
  <2> QED BY <1>1, <1>4, <2>1, <2>2 DEF Inv, TypeInv, RestType, Ahead
<1>6. SaveInv'
  BY <1>1 DEF SaveInv
<1>7. ASSUME ~late, ~removed PROVE Stored' = total
  <2>1. \A i \in pending : i = cur /\ cur # None
    BY <1>7 DEF Inv, CountInv
  <2>2. CASE \E i \in pending : file' = i.counts
    <3>1. cur # None /\ cur \in Instances /\ file' = cur.counts
      BY <2>1, <2>2 DEF Inv, TypeInv
    <3>2. cur.counts = total /\ cur.counts # None
      BY <1>7, <3>1, InstanceFields, NoneAssumption DEF Inv, CountInv
    <3> QED BY <3>1, <3>2 DEF Stored
  <2>3. CASE pending = {} /\ file' = file
    <3>1. cur # None => cur.due = None
      BY <2>3
    <3>2. Stored = total
      BY <1>1, <1>7, <3>1 DEF Inv, CountInv
    <3> QED BY <2>3, <3>2 DEF Stored
  <2> QED BY <1>2, <2>2, <2>3
<1>8. CountInv'
  BY <1>1, <1>7 DEF CountInv
<1> QED BY <1>5, <1>6, <1>8 DEF Inv

\* A power loss leaves what is stored.
LEMMA CrashInv ==
    ASSUME Inv, Crash
    PROVE  Inv'
<1>1. /\ restarts' = restarts + 1 /\ cur' = None /\ since' = None /\ wrote' = None
      /\ retired' = {} /\ flush' = None /\ flight' = FALSE
      /\ total' = Stored /\ late' = FALSE
      /\ UNCHANGED <<now, file, removed>>
  BY DEF Crash, Restarting, Stored
<1>2. Stored \in [Counters -> Nat]
  BY ZeroType DEF Inv, TypeInv, RestType, Stored
<1>3. TypeInv'
  <2>1. restarts' \in Nat
    BY <1>1 DEF Inv, TypeInv, RestType
  <2>2. flight' \in BOOLEAN /\ late' \in BOOLEAN
    BY <1>1, Zenon
  <2> QED BY <1>1, <1>2, <2>1, <2>2 DEF Inv, TypeInv, RestType, Ahead
<1>4. SaveInv' /\ CountInv'
  BY <1>1 DEF SaveInv, CountInv, Stored
<1> QED BY <1>3, <1>4 DEF Inv

\* Time passes while no save is due and no flush is under way.
LEMMA TickInv ==
    ASSUME Inv, Tick
    PROVE  Inv'
<1>1. /\ flush = None /\ now' = now + 1
      /\ \A i \in retired \union ({cur} \ {None}) : i.due # now
      /\ UNCHANGED <<cur, retired, flush, flight, file, removed, total, late, since, wrote, restarts>>
  BY DEF Tick
<1>2. now \in Nat
  BY DEF Inv, TypeInv
<1>3. ASSUME NEW i \in Instances, Ahead(i), i.due # now
      PROVE  i.due = None \/ i.due >= now + 1
  BY <1>2, <1>3, InstanceFields DEF Ahead
<1>4. cur # None => cur \in Instances /\ Ahead(cur) /\ cur.due # now
  BY <1>1 DEF Inv, TypeInv
<1>5. \A i \in retired : i \in Instances /\ Ahead(i) /\ i.due # now
  BY <1>1 DEF Inv, TypeInv
<1>6. TypeInv'
  <2>1. cur # None => cur.due = None \/ cur.due >= now + 1
    BY <1>3, <1>4
  <2>2. \A i \in retired : i.due = None \/ i.due >= now + 1
    BY <1>3, <1>5
  <2>3. RestType'
    BY <1>1 DEF Inv, TypeInv, RestType
  <2> QED BY <1>1, <1>2, <2>1, <2>2, <2>3 DEF Inv, TypeInv, Ahead
<1>7. ASSUME cur # None PROVE Throttle'
  <2>1. Throttle
    BY <1>7 DEF Inv, SaveInv
  <2>2. since # None => since \in Nat /\ since <= now + 1
    BY <1>2, <2>1 DEF Throttle, Inv, TypeInv, RestType
  <2>3. wrote # None /\ wrote <= now => wrote <= now + 1
    BY <1>2 DEF Inv, TypeInv, RestType
  <2>4. cur.last # None /\ cur.last <= now => cur.last <= now + 1
    BY <1>2, <1>4, <1>7, InstanceFields
  <2> QED BY <1>1, <2>1, <2>2, <2>3, <2>4 DEF Throttle
<1>8. SaveInv' /\ CountInv'
  BY <1>1, <1>7 DEF Inv, SaveInv, CountInv, Stored
<1> QED BY <1>6, <1>8 DEF Inv

\* The invariant holds initially.
LEMMA InitInv == Init => Inv
<1> SUFFICES ASSUME Init PROVE Inv
  OBVIOUS
<1>1. RestType
  BY ZeroType DEF Init, RestType
<1>2. TypeInv
  BY <1>1 DEF Init, TypeInv
<1>3. SaveInv /\ CountInv
  BY DEF Init, SaveInv, CountInv, Stored
<1> QED BY <1>2, <1>3 DEF Inv

\* Every step preserves the invariant.
LEMMA NextInv == Inv /\ [Next]_vars => Inv'
<1> SUFFICES ASSUME Inv, [Next]_vars PROVE Inv'
  OBVIOUS
<1>1. CASE Remove
  BY <1>1 DEF Remove, Inv, TypeInv, RestType, Ahead, SaveInv, Throttle, CountInv
<1>2. CASE UNCHANGED vars
  BY <1>2 DEF vars, Inv, TypeInv, RestType, Ahead, SaveInv, Throttle, CountInv, Stored
<1> QED
  BY <1>1, <1>2, LoadInv, RecordEventInv, RecordLateInv, DelayedSaveInv, RetiredSaveInv,
     BeginFlushInv, EndFlushInv, StopInv, CrashInv, TickInv DEF Next

\* The invariant holds throughout every behaviour.
THEOREM Invariance == Spec => []Inv
BY InitInv, NextInv, PTL DEF Spec

-----------------------------------------------------------------------------
(* The properties                                                          *)

\* _schedule_save neither puts a save off past the interval nor saves too often.
THEOREM SavesOnTimeHolds == Spec => []SavesOnTime
<1>1. ASSUME Inv PROVE SavesOnTime
  <2>1. TypeOK
    <3>1. {flight, removed, late} \subseteq BOOLEAN
      BY <1>1 DEF Inv, TypeInv, RestType
    <3> QED BY <1>1, <3>1 DEF Inv, TypeInv, RestType, Ahead, TypeOK
  <2>2. SavedInTime
    <3> SUFFICES ASSUME cur # None, since # None PROVE now - since <= Interval
      BY DEF SavedInTime
    <3>1. now \in Nat /\ since \in Nat /\ Interval \in Nat
      BY <1>1, DelayAssumption DEF Inv, TypeInv, RestType
    <3>2. cur.due \in Nat /\ cur.due >= now
      BY <1>1, InstanceFields DEF Inv, TypeInv, Ahead, SaveInv, Throttle
    <3>3. CASE flush = None
      <4>1. cur.due <= since + Interval
        BY <1>1, <3>2, <3>3, NoneAssumption DEF Inv, SaveInv, Throttle
      <4> QED BY <3>1, <3>2, <4>1
    <3>4. CASE flush # None
      <4>1. since = now
        BY <1>1, <3>4 DEF Inv, SaveInv, Throttle
      <4> QED BY <3>1, <4>1
    <3> QED BY <3>3, <3>4
  <2>3. SavesSpaced
    BY <1>1 DEF Inv, SaveInv, Throttle, SavesSpaced
  <2> QED BY <2>1, <2>2, <2>3 DEF SavesOnTime
<1>2. Inv => SavesOnTime
  BY <1>1
<1> QED BY <1>2, Invariance, PTL

\* The counters in use are the events of the period (async_create, async_flush).
THEOREM AllCountedHolds == Spec => []AllCounted
<1>1. Inv => AllCounted
  BY DEF Inv, CountInv, AllCounted
<1> QED BY <1>1, Invariance, PTL
=============================================================================
