------------------------- MODULE OptionalReadProofs -------------------------
(***************************************************************************)
(* Safety of one optional read for every set of consumers and all delays.  *)
(*                                                                         *)
(* The three properties hang together: a value that is enabled again while *)
(* an old read is in flight, and a cancellation that reaches the tick, are *)
(* both told apart by `disabled'.  ReadKnowsDisabling and CancelHasCause   *)
(* say that it is set when it has to be.                                   *)
(***************************************************************************)
EXTENDS OptionalRead, TLAPS, WellFoundedInduction

\* The part of the types that the argument needs.
Phases ==
    /\ tick \in {"idle", "running", "reading"}
    /\ task \in {"none", "running", "cancelling", "value", "failed", "cancelled"}
    /\ task # "none" <=> tick = "reading"
    /\ disabled \in BOOLEAN

\* A read that the present consumers did not ask for knows it.
ReadKnowsDisabling == task # "none" /\ (~Enabled \/ ~attempted) => disabled

\* A cancellation comes from a disabling or from the tick's own.
CancelHasCause ==
    /\ task \in {"cancelling", "cancelled"} => disabled \/ cancelled
    /\ mustCancel => cancelled

DueSoon == Enabled /\ ~attempted => due \in 0 .. FirstDelay

Inv ==
    /\ Phases
    /\ ReadKnowsDisabling
    /\ CancelHasCause
    /\ DueSoon
    /\ UnwantedReadCancelled
    /\ OnlyCancelEndsTick

\* The initial state satisfies the invariant.
LEMMA InitInv == Init => Inv
BY DEF Init, Inv, Phases, ReadKnowsDisabling, CancelHasCause, DueSoon,
       UnwantedReadCancelled, OnlyCancelEndsTick, Enabled

\* set_enabled(consumer, True): the first consumer finds `disabled' set if a
\* read is in flight, and plans the first read.
LEMMA SetEnabledInv ==
    ASSUME Inv, NEW c \in Consumers, SetEnabled(c)
    PROVE  Inv'
<1>1. consumers' # {}
  BY DEF SetEnabled
<1>2. Phases' /\ CancelHasCause' /\ OnlyCancelEndsTick'
  BY DEF Inv, Phases, CancelHasCause, OnlyCancelEndsTick, SetEnabled
<1>3. UnwantedReadCancelled'
  BY <1>1 DEF UnwantedReadCancelled, Enabled
<1>4. CASE Enabled
  <2>1. ReadKnowsDisabling'
    BY <1>1, <1>4 DEF Inv, ReadKnowsDisabling, Enabled, SetEnabled
  <2>2. DueSoon'
    BY <1>1, <1>4 DEF Inv, DueSoon, Enabled, SetEnabled
  <2> QED BY <1>2, <1>3, <2>1, <2>2 DEF Inv
<1>5. CASE ~Enabled
  <2>1. ReadKnowsDisabling'
    BY <1>5 DEF Inv, ReadKnowsDisabling, SetEnabled
  <2>2. DueSoon'
    BY <1>5, DelaysAssumption DEF DueSoon, SetEnabled
  <2> QED BY <1>2, <1>3, <2>1, <2>2 DEF Inv
<1> QED BY <1>4, <1>5

\* The last consumer leaves: the read in flight is cancelled and knows why.
LEMMA DisableInv ==
    ASSUME Inv, Disable, consumers' = {},
           UNCHANGED <<tick, cancelled, mustCancel, ended>>
    PROVE  Inv'
<1>1. Phases'
  BY DEF Inv, Phases, Disable, Cancelled
<1>2. ReadKnowsDisabling'
  BY DEF Inv, Phases, ReadKnowsDisabling, Disable, Cancelled
<1>3. CancelHasCause'
  BY DEF Inv, Phases, CancelHasCause, Disable, Cancelled
<1>4. DueSoon'
  BY DEF DueSoon, Enabled
<1>5. UnwantedReadCancelled'
  BY DEF UnwantedReadCancelled, Disable, Cancelled
<1>6. OnlyCancelEndsTick'
  BY DEF Inv, OnlyCancelEndsTick
<1> QED BY <1>1, <1>2, <1>3, <1>4, <1>5, <1>6 DEF Inv

\* set_enabled(consumer, False).
LEMMA SetDisabledInv ==
    ASSUME Inv, NEW c \in Consumers, SetDisabled(c)
    PROVE  Inv'
<1>1. CASE consumers' = {}
  BY <1>1, DisableInv DEF SetDisabled
<1>2. CASE consumers' # {}
  <2>1. Enabled
    BY DEF SetDisabled, Enabled
  <2> QED
    BY <1>2, <2>1 DEF SetDisabled, Inv, Phases, ReadKnowsDisabling,
       CancelHasCause, DueSoon, UnwantedReadCancelled, OnlyCancelEndsTick, Enabled
<1> QED BY <1>1, <1>2

\* async_shutdown removes all consumers at once.
LEMMA ShutdownInv ==
    ASSUME Inv, Shutdown
    PROVE  Inv'
<1>1. CASE Enabled
  BY <1>1, DisableInv DEF Shutdown
<1>2. CASE ~Enabled
  BY <1>2 DEF Shutdown, Inv, Phases, ReadKnowsDisabling, CancelHasCause,
     DueSoon, UnwantedReadCancelled, OnlyCancelEndsTick, Enabled
<1> QED BY <1>1, <1>2

\* A read begins: it is what the present consumers asked for.
LEMMA StartReadInv ==
    ASSUME Inv, StartRead
    PROVE  Inv'
BY DEF StartRead, Inv, Phases, ReadKnowsDisabling, CancelHasCause, DueSoon,
       UnwantedReadCancelled, OnlyCancelEndsTick, Enabled

\* The read's task ends, by itself or cancelled.
LEMMA TaskInv ==
    ASSUME Inv, (\E r \in {"value", "failed"} : TaskReturns(r)) \/ TaskCancelled
    PROVE  Inv'
<1>1. CASE \E r \in {"value", "failed"} : TaskReturns(r)
  BY <1>1 DEF TaskReturns, Inv, Phases, ReadKnowsDisabling, CancelHasCause,
     DueSoon, UnwantedReadCancelled, OnlyCancelEndsTick, Enabled
<1>2. CASE TaskCancelled
  BY <1>2 DEF TaskCancelled, Inv, Phases, ReadKnowsDisabling, CancelHasCause,
     DueSoon, UnwantedReadCancelled, OnlyCancelEndsTick, Enabled
<1> QED BY <1>1, <1>2

\* The tick's own cancellation is the cause of what it cancels.
LEMMA CancelTickInv ==
    ASSUME Inv, CancelTick
    PROVE  Inv'
<1>1. Phases' /\ ReadKnowsDisabling'
  BY DEF CancelTick, Cancelled, Results, Inv, Phases, ReadKnowsDisabling, Enabled
<1>2. CancelHasCause' /\ OnlyCancelEndsTick'
  BY DEF CancelTick, CancelHasCause, OnlyCancelEndsTick
<1>3. DueSoon' /\ UnwantedReadCancelled'
  BY DEF CancelTick, Cancelled, Inv, DueSoon, UnwantedReadCancelled, Enabled
<1> QED BY <1>1, <1>2, <1>3 DEF Inv

\* The finally clause: with consumers that asked for nothing yet, the old
\* read knows of the disabling, so the first-read delay is used.
LEMMA FinallyDue ==
    ASSUME Inv, NEW delay, Finally(delay), task # "none",
           UNCHANGED <<consumers, disabled, attempted>>
    PROVE  DueSoon' /\ Phases' /\ ReadKnowsDisabling' /\ UnwantedReadCancelled'
<1>1. DueSoon'
  BY DelaysAssumption DEF Inv, ReadKnowsDisabling, Finally, DueSoon, Enabled
<1>2. Phases' /\ ReadKnowsDisabling' /\ UnwantedReadCancelled'
  BY DEF Inv, Phases, Finally, ReadKnowsDisabling, UnwantedReadCancelled
<1> QED BY <1>1, <1>2

\* The tick resumes: it is ended by an exception only by a cancellation that
\* has no disabling to explain it, hence its own.
LEMMA ResumeInv ==
    ASSUME Inv, Resume
    PROVE  Inv'
<1>1. CASE ReadValue
  <2>1. CancelHasCause' /\ OnlyCancelEndsTick'
    BY <1>1 DEF ReadValue, Finally, Inv, CancelHasCause, OnlyCancelEndsTick
  <2> QED BY <1>1, <2>1, FinallyDue DEF ReadValue, Inv
<1>2. CASE ReadFailed
  <2>1. CancelHasCause' /\ OnlyCancelEndsTick'
    BY <1>2 DEF ReadFailed, Finally, Inv, CancelHasCause, OnlyCancelEndsTick
  <2> QED BY <1>2, <2>1, FinallyDue DEF ReadFailed, Inv
<1>3. CASE ReadCancelled
  <2>1. task # "none"
    BY <1>3 DEF ReadCancelled, Results
  <2>2. CancelHasCause'
    BY <1>3 DEF ReadCancelled, Finally, Inv, CancelHasCause
  <2>3. OnlyCancelEndsTick'
    BY <1>3 DEF ReadCancelled, Swallows, Results, Inv, CancelHasCause, OnlyCancelEndsTick
  <2> QED BY <1>3, <2>1, <2>2, <2>3, FinallyDue DEF ReadCancelled, Inv
<1> QED BY <1>1, <1>2, <1>3 DEF Resume

\* Every step of the read preserves the invariant.
LEMMA NextInv == Inv /\ [Next]_vars => Inv'
<1> SUFFICES ASSUME Inv, [Next]_vars PROVE Inv'
  OBVIOUS
<1> USE DEF Inv, Phases, ReadKnowsDisabling, CancelHasCause, DueSoon,
            UnwantedReadCancelled, OnlyCancelEndsTick, Enabled
<1>1. CASE \E c \in Consumers : SetEnabled(c) \/ SetDisabled(c)
  BY ONLY Inv, <1>1, SetEnabledInv, SetDisabledInv
<1>2. CASE Shutdown
  BY ONLY Inv, <1>2, ShutdownInv
<1>3. CASE StopHass
  BY <1>3 DEF StopHass
<1>4. CASE StartTick
  BY <1>4 DEF StartTick
<1>5. CASE SkipRead \/ LinkFails
  BY <1>5 DEF SkipRead, LinkFails
<1>6. CASE StartRead
  BY ONLY Inv, <1>6, StartReadInv
<1>7. CASE (\E r \in {"value", "failed"} : TaskReturns(r)) \/ TaskCancelled
  BY ONLY Inv, <1>7, TaskInv
<1>8. CASE CancelTick
  BY ONLY Inv, <1>8, CancelTickInv
<1>9. CASE ReadValue \/ ReadFailed \/ ReadCancelled
  BY ONLY Inv, <1>9, ResumeInv DEF Resume
<1>10. CASE Tick
  BY <1>10, DelaysAssumption DEF Tick
<1>11. CASE UNCHANGED vars
  BY <1>11 DEF vars
<1> QED
  BY <1>1, <1>2, <1>3, <1>4, <1>5, <1>6, <1>7, <1>8, <1>9, <1>10, <1>11 DEF Next

\* The invariant holds throughout every behaviour.
THEOREM Invariance == Spec => []Inv
BY InitInv, NextInv, PTL DEF Spec

\* An enabled value is due within the first-read delay until it is asked for,
\* whatever becomes of a read of an earlier enabling (async_read_if_due).
THEOREM EnabledReadSoonHolds == Spec => []EnabledReadSoon
<1>1. Inv => EnabledReadSoon
  BY DelaysAssumption DEF Inv, DueSoon, EnabledReadSoon
<1> QED BY <1>1, Invariance, PTL

\* No read goes on that nobody needs (set_enabled, async_shutdown).
THEOREM UnwantedHolds == Spec => []UnwantedReadCancelled
<1>1. Inv => UnwantedReadCancelled
  BY DEF Inv
<1> QED BY <1>1, Invariance, PTL

\* Disabling a value never ends the poll tick that reads it (the generation
\* check of async_read_if_due).
THEOREM TickSurvives == Spec => []OnlyCancelEndsTick
<1>1. Inv => OnlyCancelEndsTick
  BY DEF Inv
<1> QED BY <1>1, Invariance, PTL

-----------------------------------------------------------------------------
(* The retry delays                                                        *)

\* The relation of the library's theorem on well-founded sets, written out.
LEMMA LessRelation == OpToRel(<, Nat) = {p \in Nat \X Nat : p[1] < p[2]}
BY Zenon DEF OpToRel

\* A set of naturals that is not empty has a least element: induction for
\* the lemmas below.
LEMMA LeastNatural ==
    ASSUME NEW S, S \subseteq Nat, S # {}
    PROVE  \E x \in S : \A y \in S : x <= y
<1> DEFINE R == {p \in Nat \X Nat : p[1] < p[2]}
<1>1. IsWellFoundedOn(R, Nat)
  BY LessRelation, NatLessThanWellFounded, Zenon
<1> HIDE DEF R
<1>2. PICK x \in S : \A y \in S : ~(<<y, x>> \in R)
  BY <1>1, WFMin
<1>3. ASSUME NEW y \in S PROVE x <= y
  <2>1. x \in Nat /\ y \in Nat
    OBVIOUS
  <2>2. y < x => <<y, x>> \in R
    BY <2>1 DEF R
  <2> QED BY <1>2, <2>1, <2>2
<1> QED BY <1>3

\* The power of two exceeds its exponent.
LEMMA PowerLarge == \A n \in 0 .. Refresh + 1 : 2^n \in Nat /\ 2^n > n
<1> DEFINE Good(n) == 2^n \in Nat /\ 2^n > n
           Bad == {n \in 0 .. Refresh + 1 : ~Good(n)}
<1>1. Refresh \in Nat
  BY DelaysAssumption
<1>2. Good(0)
  BY PowersAssumption
<1>3. ASSUME NEW n \in 0 .. Refresh, Good(n) PROVE Good(n + 1)
  <2>1. 2^(n + 1) = 2 * 2^n
    BY PowersAssumption
  <2> DEFINE p == 2^n
  <2>2. p \in Nat /\ p > n
    BY <1>3
  <2> HIDE DEF p
  <2>3. 2 * p \in Nat /\ 2 * p > n + 1
    BY <1>1, <2>2
  <2> QED BY <2>1, <2>3 DEF p
<1> HIDE DEF Good
<1>4. ASSUME Bad # {} PROVE FALSE
  <2>1. Bad \subseteq Nat
    BY <1>1
  <2>2. PICK x \in Bad : \A y \in Bad : x <= y
    BY <1>4, <2>1, LeastNatural
  <2>3. x # 0
    BY <1>2
  <2>4. x - 1 \in 0 .. Refresh /\ x - 1 \in 0 .. Refresh + 1
    BY <1>1, <2>3
  <2>5. Good(x - 1)
    BY <1>1, <2>2, <2>4
  <2>6. Good((x - 1) + 1)
    BY <1>3, <2>4, <2>5
  <2>7. (x - 1) + 1 = x
    BY <2>1
  <2> QED BY <2>6, <2>7
<1> QED BY <1>4 DEF Good

\* Powers of two grow with the exponent.
LEMMA PowerGrows ==
    \A m \in 0 .. Refresh + 1 : \A k \in 0 .. m : 2^k <= 2^m
<1> DEFINE Good(m) == \A k \in 0 .. m : 2^k <= 2^m
           Bad == {m \in 0 .. Refresh + 1 : ~Good(m)}
<1>1. Refresh \in Nat
  BY DelaysAssumption
<1>2. Good(0)
  <2>1. 2^0 \in Nat
    BY PowersAssumption
  <2> QED BY <2>1
<1>3. ASSUME NEW m \in 0 .. Refresh, Good(m) PROVE Good(m + 1)
  <2> SUFFICES ASSUME NEW k \in 0 .. m + 1 PROVE 2^k <= 2^(m + 1)
    OBVIOUS
  <2>1. 2^(m + 1) = 2 * 2^m
    BY PowersAssumption
  <2>2. 2^m \in Nat /\ 2^(m + 1) \in Nat
    BY <1>1, PowerLarge
  <2>3. CASE k = m + 1
    BY <2>2, <2>3
  <2>4. CASE k # m + 1
    <3>1. k \in 0 .. m /\ k \in 0 .. Refresh + 1
      BY <1>1, <2>4
    <3>2. 2^k <= 2^m /\ 2^k \in Nat
      BY <1>3, <3>1, PowerLarge
    <3> QED BY <2>1, <2>2, <3>2
  <2> QED BY <2>3, <2>4
<1> HIDE DEF Good
<1>4. ASSUME Bad # {} PROVE FALSE
  <2>1. Bad \subseteq Nat
    BY <1>1
  <2>2. PICK x \in Bad : \A y \in Bad : x <= y
    BY <1>4, <2>1, LeastNatural
  <2>3. x # 0
    BY <1>2
  <2>4. x - 1 \in 0 .. Refresh /\ x - 1 \in 0 .. Refresh + 1
    BY <1>1, <2>3
  <2>5. Good(x - 1)
    BY <1>1, <2>2, <2>4
  <2>6. Good((x - 1) + 1)
    BY <1>3, <2>4, <2>5
  <2>7. (x - 1) + 1 = x
    BY <2>1
  <2> QED BY <2>6, <2>7
<1> QED BY <1>4 DEF Good

\* The retry interval in use, the shorter of the two.
LEMMA RetrySecondsType == RetrySeconds \in Nat /\ RetrySeconds >= 1 /\ RetrySeconds <= Refresh
BY DelaysAssumption DEF RetrySeconds, Min

\* _max_failures: there is a first doubling that reaches the refresh interval.
LEMMA DoublingsReach ==
    /\ Doublings \in 0 .. Refresh
    /\ RetrySeconds * 2^Doublings >= Refresh
    /\ Doublings > 0 => RetrySeconds * 2^(Doublings - 1) < Refresh
<1> DEFINE Reaches(n) == RetrySeconds * 2^n >= Refresh
           S == {n \in 0 .. Refresh : Reaches(n)}
<1>1. Refresh \in Nat
  BY DelaysAssumption
<1>2. Refresh \in S
  <2> DEFINE p == 2^Refresh
  <2>1. p \in Nat /\ p > Refresh
    BY <1>1, PowerLarge
  <2> HIDE DEF p
  <2>2. RetrySeconds * p >= Refresh
    BY <1>1, <2>1, RetrySecondsType, SMTT(20)
  <2> QED BY <1>1, <2>2 DEF p
<1>3. S \subseteq Nat
  BY <1>1
<1>4. PICK n \in S : \A y \in S : n <= y
  <2> HIDE DEF S
  <2> QED BY <1>2, <1>3, LeastNatural
<1>5. ASSUME n > 0 PROVE RetrySeconds * 2^(n - 1) < Refresh
  <2>1. n - 1 \in 0 .. Refresh /\ n - 1 \in 0 .. Refresh + 1
    BY <1>1, <1>5
  <2>2. ~Reaches(n - 1)
    BY <1>1, <1>4, <2>1
  <2>3. 2^(n - 1) \in Nat
    BY <2>1, PowerLarge
  <2>4. RetrySeconds * 2^(n - 1) \in Nat
    BY <2>3, RetrySecondsType
  <2> QED BY <1>1, <2>2, <2>4
<1>6. n \in 0 .. Refresh /\ RetrySeconds * 2^n >= Refresh
  OBVIOUS
<1> HIDE DEF S, Reaches
<1> QED BY <1>5, <1>6, Zenon DEF Doublings

\* A retry never waits longer than the refresh interval.
LEMMA RetryAfterType ==
    ASSUME NEW n \in 1 .. MaxFailures
    PROVE  RetryAfter(n) \in 0 .. Refresh
<1>1. Doublings \in 0 .. Refresh /\ Refresh \in Nat
  BY DoublingsReach, DelaysAssumption
<1>2. n - 1 \in 0 .. Refresh + 1
  BY <1>1 DEF MaxFailures
<1> DEFINE d == RetrySeconds * 2^(n - 1)
<1>3. d \in Nat
  BY <1>2, PowerLarge, RetrySecondsType
<1> HIDE DEF d
<1>4. Min({Refresh, d}) \in 0 .. Refresh
  BY <1>1, <1>3 DEF Min
<1> QED BY <1>4 DEF RetryAfter, d

\* The delay grows up to the refresh interval and reaches it at the cap.
LEMMA CapReached ==
    /\ RetryAfter(MaxFailures) = Refresh
    /\ \A n \in 1 .. MaxFailures - 1 : RetryAfter(n) < Refresh
<1>1. Doublings \in 0 .. Refresh /\ Refresh \in Nat /\ MaxFailures = 1 + Doublings
  BY DoublingsReach, DelaysAssumption DEF MaxFailures
<1>2. RetryAfter(MaxFailures) = Refresh
  <2> DEFINE d == RetrySeconds * 2^Doublings
  <2>1. 2^Doublings \in Nat
    BY <1>1, PowerLarge
  <2>2. d \in Nat /\ d >= Refresh
    BY <2>1, RetrySecondsType, DoublingsReach
  <2>3. MaxFailures - 1 = Doublings
    BY <1>1
  <2> HIDE DEF d
  <2>4. Min({Refresh, d}) = Refresh
    BY <1>1, <2>2 DEF Min
  <2> QED BY <2>3, <2>4 DEF RetryAfter, d
<1>3. ASSUME NEW n \in 1 .. MaxFailures - 1 PROVE RetryAfter(n) < Refresh
  <2> DEFINE p == 2^(n - 1)
             q == 2^(Doublings - 1)
  <2>1. Doublings > 0 /\ Doublings - 1 \in 0 .. Refresh + 1 /\ n - 1 \in 0 .. Doublings - 1
    BY <1>1
  <2>2. p <= q
    BY <2>1, PowerGrows
  <2>3. p \in Nat /\ q \in Nat
    <3>1. n - 1 \in 0 .. Refresh + 1
      BY <1>1, <2>1
    <3> QED BY <2>1, <3>1, PowerLarge
  <2>4. RetrySeconds * q < Refresh
    BY <2>1, DoublingsReach
  <2> HIDE DEF p, q
  <2>5. RetrySeconds * p <= RetrySeconds * q
    BY <2>2, <2>3, RetrySecondsType, SMTT(20)
  <2>6. RetrySeconds * p \in Nat /\ RetrySeconds * q \in Nat
    BY <2>3, RetrySecondsType
  <2> DEFINE d == RetrySeconds * p
  <2>7. d \in Nat /\ d < Refresh
    BY <1>1, <2>4, <2>5, <2>6
  <2> HIDE DEF d
  <2>8. Min({Refresh, d}) < Refresh
    BY <1>1, <2>7 DEF Min
  <2> QED BY <2>8 DEF RetryAfter, p, d
<1> QED BY <1>2, <1>3

-----------------------------------------------------------------------------
(* Types                                                                   *)

\* A step that leaves the times alone keeps them; the resumption of the tick
\* sets a delay that fits.
LEMMA TimesStep ==
    ASSUME TypeOK, [Next]_vars
    PROVE  due' \in 0 .. Max({Refresh, FirstDelay}) /\ failures' \in 0 .. MaxFailures
<1> DEFINE M == Max({Refresh, FirstDelay})
<1>1. M \in Nat /\ Refresh \in 0 .. M /\ FirstDelay \in 0 .. M
  BY DelaysAssumption DEF Max
<1>2. MaxFailures \in Nat /\ 1 <= MaxFailures
  BY DoublingsReach, DelaysAssumption DEF MaxFailures
<1>3. due \in 0 .. M /\ failures \in 0 .. MaxFailures
  BY DEF TypeOK
<1> HIDE DEF M
<1>4. CASE \E c \in Consumers : SetEnabled(c)
  BY <1>1, <1>3, <1>4 DEF SetEnabled, M
<1>5. CASE ReadValue
  BY <1>1, <1>2, <1>3, <1>5 DEF ReadValue, Finally, M
<1>6. CASE ReadFailed
  <2>1. failures' = Min({failures + 1, MaxFailures})
    BY <1>6 DEF ReadFailed
  <2>2. failures' \in 1 .. MaxFailures
    BY <1>2, <1>3, <2>1 DEF Min
  <2>3. RetryAfter(failures') \in 0 .. Refresh
    BY <2>2, RetryAfterType
  <2>4. RetryAfter(failures') \in 0 .. M
    BY <1>1, <2>3, DelaysAssumption
  <2>5. due' = IF Enabled /\ disabled THEN FirstDelay ELSE RetryAfter(failures')
    BY <1>6 DEF ReadFailed, Finally
  <2> QED BY <1>1, <1>2, <2>2, <2>4, <2>5 DEF M
<1>7. CASE ReadCancelled
  BY <1>1, <1>3, <1>7 DEF ReadCancelled, Finally, M
<1>8. CASE Tick
  BY <1>1, <1>3, <1>8 DEF Tick, M
<1>9. CASE UNCHANGED <<due, failures>>
  BY <1>3, <1>9 DEF M
<1> QED
  BY <1>4, <1>5, <1>6, <1>7, <1>8, <1>9
  DEF Next, vars, SetDisabled, Shutdown, StopHass, StartTick, SkipRead, LinkFails,
      StartRead, TaskReturns, TaskCancelled, CancelTick

\* The types of everything but the times.
Words ==
    /\ consumers \subseteq Consumers
    /\ tick \in {"idle", "running", "reading"}
    /\ task \in {"none", "running", "cancelling", "value", "failed", "cancelled"}
    /\ value \in {"none", "current", "earlier"}
    /\ ended \in {"none", "returned", "raised"}
    /\ task # "none" <=> tick = "reading"

Flags ==
    /\ disabled \in BOOLEAN /\ stopped \in BOOLEAN /\ cancelled \in BOOLEAN
    /\ mustCancel \in BOOLEAN /\ attempted \in BOOLEAN

LEMMA TypeParts ==
    TypeOK <=> /\ Words /\ Flags
               /\ due \in 0 .. Max({Refresh, FirstDelay})
               /\ failures \in 0 .. MaxFailures
BY Zenon DEF TypeOK, Words, Flags, Results

\* Every step preserves these types.
LEMMA WordsStep ==
    ASSUME Words, Flags, [Next]_vars
    PROVE  Words' /\ Flags'
<1> USE DEF Words, Flags
<1>1. CASE \E c \in Consumers : SetEnabled(c)
  BY <1>1 DEF SetEnabled
<1>2. CASE \E c \in Consumers : SetDisabled(c)
  BY <1>2 DEF SetDisabled, Disable, Cancelled
<1>3. CASE Shutdown \/ StopHass
  BY <1>3 DEF Shutdown, StopHass, Disable, Cancelled
<1>4. CASE StartTick \/ SkipRead \/ LinkFails \/ StartRead
  BY <1>4 DEF StartTick, SkipRead, LinkFails, StartRead
<1>5. CASE (\E r \in {"value", "failed"} : TaskReturns(r)) \/ TaskCancelled \/ CancelTick
  <2>1. CASE (\E r \in {"value", "failed"} : TaskReturns(r)) \/ TaskCancelled
    BY <2>1 DEF TaskReturns, TaskCancelled
  <2>2. CASE CancelTick
    <3>1. mustCancel' \in BOOLEAN
      <4>1. mustCancel' = (task \in Results)
        BY <2>2 DEF CancelTick
      <4>2. (task \in Results) \in BOOLEAN
        OBVIOUS
      <4> QED BY <4>1, <4>2, Zenon
    <3> QED BY <2>2, <3>1 DEF CancelTick, Cancelled
  <2> QED BY <1>5, <2>1, <2>2
<1>6. CASE ReadValue \/ ReadFailed \/ ReadCancelled
  BY <1>6 DEF ReadValue, ReadFailed, ReadCancelled, Finally, Swallows, Results
<1>7. CASE Tick \/ UNCHANGED vars
  BY <1>7 DEF Tick, vars
<1> QED BY <1>1, <1>2, <1>3, <1>4, <1>5, <1>6, <1>7 DEF Next

\* Every step preserves the types.
LEMMA NextType == TypeOK /\ [Next]_vars => TypeOK'
<1> SUFFICES ASSUME TypeOK, [Next]_vars PROVE TypeOK'
  OBVIOUS
<1>1. Words' /\ Flags'
  BY WordsStep, TypeParts
<1>2. due' \in 0 .. Max({Refresh, FirstDelay}) /\ failures' \in 0 .. MaxFailures
  BY TimesStep
<1> QED BY <1>1, <1>2, Zenon DEF TypeOK, Words, Flags, Results

\* The state of a read stays well formed, and its retry delays grow up to the
\* refresh interval and stop there (_max_failures, async_read_if_due).
THEOREM ReadConsistentHolds == Spec => []ReadConsistent
<1>1. Init => TypeOK
  <2>1. MaxFailures \in Nat
    BY DoublingsReach, DelaysAssumption DEF MaxFailures
  <2>2. Max({Refresh, FirstDelay}) \in Nat
    BY DelaysAssumption DEF Max
  <2>3. Init => Words /\ Flags
    BY DEF Init, Words, Flags
  <2>4. Init => due \in 0 .. Max({Refresh, FirstDelay}) /\ failures \in 0 .. MaxFailures
    BY <2>1, <2>2 DEF Init
  <2> QED BY <2>3, <2>4, TypeParts
<1>2. Spec => []TypeOK
  BY <1>1, NextType, PTL DEF Spec
<1>3. TypeOK => ReadConsistent
  BY CapReached DEF TypeOK, ReadConsistent, CapIsRefresh
<1> QED BY <1>2, <1>3, PTL
=============================================================================
