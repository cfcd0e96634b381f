------------------------- MODULE PollScheduleProofs -------------------------
(***************************************************************************)
(* Poll ticks for every number of jobs and units and every time constant:  *)
(* exactly one tick is ahead, the back-off follows the failures, the first *)
(* pass alternates with jobs that are due, and a tick is never planned     *)
(* later than a job or an optional value needs it.                         *)
(***************************************************************************)
EXTENDS PollSchedule, TLAPS, WellFoundedInduction, FiniteSetTheorems, SequenceTheorems

-----------------------------------------------------------------------------
(* Minima and the delays computed from them                                *)

\* The relation of the library's theorem on well-founded sets, written out.
LEMMA LessRelation == OpToRel(<, Nat) = {p \in Nat \X Nat : p[1] < p[2]}
BY Zenon DEF OpToRel

\* A set of naturals that is not empty has a least element.
LEMMA LeastNatural ==
    ASSUME NEW S, S \subseteq Nat, S # {}
    PROVE  \E x \in S : \A y \in S : x <= y
<1> DEFINE R == {p \in Nat \X Nat : p[1] < p[2]}
<1>1. IsWellFoundedOn(R, Nat)
  BY LessRelation, NatLessThanWellFounded, Zenon
<1> HIDE DEF R
<1>2. PICK x \in S : \A y \in S : ~(<<y, x>> \in R)
  BY <1>1, WFMin
<1>3. ASSUME NEW y \in S PROVE x <= y
  <2>1. x \in Nat /\ y \in Nat
    OBVIOUS
  <2>2. y < x => <<y, x>> \in R
    BY <2>1 DEF R
  <2> QED BY <1>2, <2>1, <2>2
<1> QED BY <1>3

\* Min of a set of naturals is one of them.
LEMMA MinNatural ==
    ASSUME NEW S, S \subseteq Nat, S # {}
    PROVE  Min(S) \in S
BY LeastNatural DEF Min

\* Min and Max of two times are times.
LEMMA MinMaxOfTwo ==
    \A a, b \in Nat :
        /\ Min({a, b}) \in Nat /\ Min({a, b}) \in {a, b} /\ Min({a, b}) <= b
        /\ Max({a, b}) \in Nat /\ Max({a, b}) \in {a, b} /\ Max({a, b}) >= a /\ Max({a, b}) >= b
<1> TAKE a, b \in Nat
<1>1. a <= b \/ b <= a
  OBVIOUS
<1>2. Min({a, b}) \in {a, b} /\ Min({a, b}) <= b
  BY <1>1 DEF Min
<1>3. Max({a, b}) \in {a, b} /\ Max({a, b}) >= a /\ Max({a, b}) >= b
  BY <1>1 DEF Max
<1> QED BY <1>2, <1>3

\* The delay of _schedule_next_tick is a time.
LEMMA WakeUpType ==
    ASSUME NEW d \in [Jobs -> Nat], NEW first, NEW opt \in Nat \union {None},
           NEW rate \in Rates
    PROVE  WakeUp(d, first, opt, rate) \in Nat
<1> DEFINE m == Min({d[j] : j \in Jobs})
<1>1. m \in Nat
  <2>1. {d[j] : j \in Jobs} # {}
    <3>1. 1 \in Jobs
      BY JobsAssumption DEF Jobs
    <3> QED BY <3>1
  <2>2. {d[j] : j \in Jobs} \subseteq Nat
    OBVIOUS
  <2> QED BY <2>1, <2>2, MinNatural
<1> HIDE DEF m
<1>2. rate \in Nat
  BY TimesAssumption
<1> DEFINE jobs == IF first # {} THEN rate ELSE Max({rate, m})
<1>3. jobs \in Nat
  BY <1>1, <1>2, MinMaxOfTwo
<1> HIDE DEF jobs
<1>4. ASSUME opt \in Nat PROVE Min({jobs, Max({rate, opt})}) \in Nat
  <2>1. Max({rate, opt}) \in Nat
    BY <1>2, <1>4, MinMaxOfTwo
  <2> QED BY <1>3, <2>1, MinMaxOfTwo
<1>5. WakeUp(d, first, opt, rate) = IF opt = None THEN jobs ELSE Min({jobs, Max({rate, opt})})
  BY DEF WakeUp, jobs, m
<1> QED BY <1>3, <1>4, <1>5

\* A job's interval is a time, for silent units and unread groups too, and a
\* job that gets it is not due.
LEMMA IntervalType ==
    ASSUME NEW j \in Jobs, NEW never, NEW quiet
    PROVE  JobIntervals(j, never, quiet) \subseteq Nat \ {0}
<1> DEFINE base == IF never
                   THEN {Min({Interval[j], Max({UnreadRetry, e})}) : e \in 0 .. Interval[j]}
                   ELSE {Interval[j]}
<1>1. Interval[j] \in Nat \ {0}
  BY JobsAssumption
<1>2. UnreadRetry \in Nat \ {0} /\ SilentInterval \in Nat \ {0}
  BY TimesAssumption
<1>3. \A e \in 0 .. Interval[j] : Min({Interval[j], Max({UnreadRetry, e})}) \in Nat \ {0}
  <2> TAKE e \in 0 .. Interval[j]
  <2>1. e \in Nat
    BY <1>1
  <2>2. Max({UnreadRetry, e}) \in Nat \ {0}
    BY <1>2, <2>1, MinMaxOfTwo
  <2> QED BY <1>1, <2>2, MinMaxOfTwo
<1>4. base \subseteq Nat \ {0}
  BY <1>1, <1>3
<1>5. JobIntervals(j, never, quiet)
        = IF Room[j] \in quiet THEN {Max({i, SilentInterval}) : i \in base} ELSE base
  BY DEF JobIntervals
<1> HIDE DEF base
<1>6. \A i \in base : Max({i, SilentInterval}) \in Nat \ {0}
  BY <1>2, <1>4, MinMaxOfTwo
<1>7. {Max({i, SilentInterval}) : i \in base} \subseteq Nat \ {0}
  BY <1>6, Zenon
<1> QED BY <1>4, <1>5, <1>7, Zenon

\* Powers of two are naturals and outgrow their exponent.
LEMMA PowerLarge == \A n \in 0 .. BackoffMax + 1 : 2^n \in Nat /\ 2^n > n
<1> DEFINE Good(n) == 2^n \in Nat /\ 2^n > n
           Bad == {n \in 0 .. BackoffMax + 1 : ~Good(n)}
<1>1. BackoffMax \in Nat
  BY TimesAssumption
<1>2. Good(0)
  BY PowersAssumption
<1>3. ASSUME NEW n \in 0 .. BackoffMax, Good(n) PROVE Good(n + 1)
  <2>1. 2^(n + 1) = 2 * 2^n
    BY PowersAssumption
  <2> DEFINE p == 2^n
  <2>2. p \in Nat /\ p > n
    BY <1>3
  <2> HIDE DEF p
  <2>3. 2 * p \in Nat /\ 2 * p > n + 1
    BY <1>1, <2>2
  <2> QED BY <2>1, <2>3 DEF p
<1> HIDE DEF Good
<1>4. ASSUME Bad # {} PROVE FALSE
  <2>1. Bad \subseteq Nat
    BY <1>1
  <2>2. PICK x \in Bad : \A y \in Bad : x <= y
    BY <1>4, <2>1, LeastNatural
  <2>3. x # 0
    BY <1>2
  <2>4. x - 1 \in 0 .. BackoffMax /\ x - 1 \in 0 .. BackoffMax + 1
    BY <1>1, <2>3
  <2>5. Good(x - 1)
    BY <1>1, <2>2, <2>4
  <2>6. Good((x - 1) + 1)
    BY <1>3, <2>4, <2>5
  <2>7. (x - 1) + 1 = x
    BY <2>1
  <2> QED BY <2>6, <2>7
<1> QED BY <1>4 DEF Good

\* There is a first doubling that reaches the longest back-off.
LEMMA DoublingsReach ==
    /\ Doublings \in 0 .. BackoffMax
    /\ BackoffStart * 2^Doublings >= BackoffMax
    /\ Doublings > 0 => BackoffStart * 2^(Doublings - 1) < BackoffMax
<1> DEFINE Reaches(n) == BackoffStart * 2^n >= BackoffMax
           S == {n \in 0 .. BackoffMax : Reaches(n)}
<1>1. BackoffMax \in Nat
  BY TimesAssumption
<1>2. BackoffMax \in S
  <2> DEFINE p == 2^BackoffMax
  <2>1. p \in Nat /\ p > BackoffMax
    BY <1>1, PowerLarge
  <2> HIDE DEF p
  <2>2. BackoffStart * p >= BackoffMax
    BY <1>1, <2>1, TimesAssumption, SMTT(20)
  <2> QED BY <1>1, <2>2 DEF p
<1>3. S \subseteq Nat
  BY <1>1
<1>4. PICK n \in S : \A y \in S : n <= y
  <2> HIDE DEF S
  <2> QED BY <1>2, <1>3, LeastNatural
<1>5. ASSUME n > 0 PROVE BackoffStart * 2^(n - 1) < BackoffMax
  <2>1. n - 1 \in 0 .. BackoffMax /\ n - 1 \in 0 .. BackoffMax + 1
    BY <1>1, <1>5
  <2>2. ~Reaches(n - 1)
    BY <1>1, <1>4, <2>1
  <2>3. 2^(n - 1) \in Nat
    BY <2>1, PowerLarge
  <2>4. BackoffStart * 2^(n - 1) \in Nat
    BY <2>3, TimesAssumption
  <2> QED BY <1>1, <2>2, <2>4
<1>6. n \in 0 .. BackoffMax /\ BackoffStart * 2^n >= BackoffMax
  OBVIOUS
<1> HIDE DEF S, Reaches
<1> QED BY <1>5, <1>6, Zenon DEF Doublings

\* The failure count is capped, and from BackoffAfter on there is a back-off.
LEMMA BackoffType ==
    /\ MaxFailures \in Nat /\ BackoffAfter <= MaxFailures
    /\ \A n \in Nat : n >= BackoffAfter => BackoffSeconds(n) \in Nat
<1>1. Doublings \in Nat /\ BackoffAfter \in Nat /\ BackoffStart \in Nat /\ BackoffMax \in Nat
  BY DoublingsReach, TimesAssumption
<1>2. ASSUME NEW n \in Nat, n >= BackoffAfter PROVE BackoffSeconds(n) \in Nat
  <2> DEFINE e == Min({n - BackoffAfter, Doublings})
  <2>1. n - BackoffAfter \in Nat
    BY <1>1, <1>2
  <2>2. e \in {n - BackoffAfter, Doublings} /\ e <= Doublings
    BY <1>1, <2>1 DEF Min
  <2> HIDE DEF e
  <2>3. e \in 0 .. Doublings
    BY <1>1, <2>1, <2>2
  <2>4. 2^e \in Nat
    BY <1>1, <2>3, DoublingsReach, PowerLarge
  <2>5. BackoffStart * 2^e \in Nat
    BY <1>1, <2>4
  <2>6. Min({BackoffMax, BackoffStart * 2^e}) \in Nat
    BY <1>1, <2>5, MinMaxOfTwo
  <2>7. BackoffSeconds(n) = Min({BackoffMax, BackoffStart * 2^e})
    BY <1>1, <1>2 DEF BackoffSeconds, e
  <2> QED BY <2>6, <2>7
<1> QED BY <1>1, <1>2 DEF MaxFailures

\* Counting more failures than MaxFailures would change nothing: from there on
\* the back-off is the longest one.
LEMMA CapReached == \A n \in Nat : n >= MaxFailures => BackoffSeconds(n) = BackoffMax
<1> TAKE n \in Nat
<1> HAVE n >= MaxFailures
<1>1. Doublings \in Nat /\ BackoffAfter \in Nat /\ BackoffStart \in Nat /\ BackoffMax \in Nat
  BY DoublingsReach, TimesAssumption
<1>2. n >= BackoffAfter /\ n - BackoffAfter \in Nat /\ n - BackoffAfter >= Doublings
  BY <1>1 DEF MaxFailures
<1>3. Min({n - BackoffAfter, Doublings}) = Doublings
  BY <1>1, <1>2 DEF Min
<1> DEFINE d == BackoffStart * 2^Doublings
<1>4. d \in Nat /\ d >= BackoffMax
  <2>1. 2^Doublings \in Nat
    BY <1>1, DoublingsReach, PowerLarge
  <2> QED BY <1>1, <2>1, DoublingsReach
<1>5. BackoffSeconds(n) = Min({BackoffMax, d})
  <2>1. ~(n < BackoffAfter)
    BY <1>1, <1>2
  <2> QED BY <1>3, <2>1, Zenon DEF BackoffSeconds
<1> HIDE DEF d
<1>6. Min({BackoffMax, d}) = BackoffMax
  BY <1>1, <1>4 DEF Min
<1> QED BY <1>5, <1>6

-----------------------------------------------------------------------------
(* The inductive invariant                                                 *)

\* The types the argument needs; what the queue holds does not matter for it.
Types ==
    /\ phase \in {"idle", "polling", "reading"}
    /\ phase = "reading" => job.job \in Jobs
    /\ timer \in Nat \union {None} /\ nextDelay \in Nat
    /\ due \in [Jobs -> Nat]
    /\ optional \in Nat \union {None} /\ tickSeconds \in Rates
    /\ failures \in 0 .. MaxFailures

\* OneTickAhead with the ticks before the first job told apart by their phase.
TickAhead ==
    /\ stopped => timer = None
    /\ phase # "idle" => timer = None
    /\ ~stopped /\ phase = "idle" /\ startup # Jobs => timer # None

\* The turn of the first pass is over when one of its jobs was read.
TurnTaken == lastFirstPass => startupTurn = FALSE

Inv == Types /\ TickAhead /\ BackoffFollowsFailures /\ TurnTaken

\* The initial state satisfies the invariant.
LEMMA InitInv == Init => Inv
<1> SUFFICES ASSUME Init PROVE Inv
  OBVIOUS
<1>1. tickSeconds \in Nat
  BY TimesAssumption DEF Init
<1>2. 0 \in 0 .. MaxFailures
  BY BackoffType
<1>3. Types
  BY <1>1, <1>2, JobsAssumption DEF Init, Types
<1>4. TickAhead /\ TurnTaken
  BY DEF Init, TickAhead, TurnTaken
<1>5. BackoffFollowsFailures
  BY TimesAssumption DEF Init, BackoffFollowsFailures, BackoffSeconds
<1> QED BY <1>3, <1>4, <1>5 DEF Inv

\* A call of _schedule_next_tick from outside leaves a planned tick planned
\* and a back-off as it is.
LEMMA ScheduleInv ==
    ASSUME Inv, NEW opt \in Nat \union {None}, NEW rate \in Rates,
           ScheduleNextTick(opt, rate), optional' = opt, tickSeconds' = rate,
           UNCHANGED <<phase, job, queues, link, stopped, lastFirstPass>>
    PROVE  Inv'
<1>1. WakeUp(due, startup, opt, rate) \in Nat
  BY WakeUpType DEF Inv, Types
<1>2. Types'
  <2>1. timer' \in Nat \union {None} /\ nextDelay' \in Nat
    BY <1>1 DEF Inv, Types, ScheduleNextTick, SetNextPollDelay, plan
  <2> QED BY <2>1 DEF Inv, Types, queues, link
<1>3. (timer' = None) <=> (timer = None)
  BY <1>1, NoneAssumption DEF ScheduleNextTick, SetNextPollDelay, plan
<1>4. TickAhead' /\ TurnTaken'
  BY <1>3 DEF Inv, TickAhead, TurnTaken, queues
<1>5. BackoffFollowsFailures'
  <2>1. backoff' = backoff /\ failures' = failures
    BY DEF link
  <2>2. backoff # None => nextDelay' = nextDelay
    BY DEF ScheduleNextTick, plan
  <2> QED BY <2>1, <2>2 DEF Inv, BackoffFollowsFailures
<1> QED BY <1>2, <1>4, <1>5 DEF Inv

\* The end of a tick plans the next one, unless polling has stopped.
LEMMA EndTickAhead ==
    ASSUME EndTick, nextDelay' \in Nat, UNCHANGED stopped
    PROVE  /\ TickAhead'
           /\ timer' \in Nat \union {None} /\ phase' = "idle"
BY NoneAssumption DEF EndTick, TickAhead

\* A tick without a job.
LEMMA NoJobDueInv ==
    ASSUME Inv, NoJobDue
    PROVE  Inv'
<1>1. optional' \in Nat \union {None}
  BY TimesAssumption DEF NoJobDue, ReadOptional, Inv, Types
<1>2. WakeUp(due, startup, optional', tickSeconds) \in Nat
  BY <1>1, WakeUpType DEF Inv, Types
<1>3. nextDelay' \in Nat
  BY <1>2 DEF NoJobDue, Inv, Types
<1>4. TickAhead' /\ timer' \in Nat \union {None} /\ phase' = "idle"
  BY <1>3, EndTickAhead DEF NoJobDue
<1>5. Types'
  BY <1>1, <1>3, <1>4 DEF NoJobDue, Inv, Types, queues, link
<1>6. TurnTaken' /\ BackoffFollowsFailures'
  BY DEF NoJobDue, Inv, TurnTaken, BackoffFollowsFailures, queues, link
<1> QED BY <1>4, <1>5, <1>6 DEF Inv

\* A job is chosen and moved forward.
LEMMA StartJobInv ==
    ASSUME Inv, StartJob
    PROVE  Inv'
<1>1. PICK j \in Jobs, first \in BOOLEAN :
        /\ phase = "polling"
        /\ Selected = [job |-> j, startup |-> first]
        /\ phase' = "reading" /\ job' = Selected
        /\ startupTurn' = IF startup = {} THEN startupTurn ELSE ~first
        /\ \E i \in JobIntervals(j, FALSE, silent) : MovedForward(j, i)
        /\ lastFirstPass' = first
        /\ UNCHANGED <<plan, link, optional, tickSeconds, stopped>>
  BY DEF StartJob
<1>2. PICK i \in JobIntervals(j, FALSE, silent) : MovedForward(j, i)
  BY <1>1
<1>3. i \in Nat
  BY <1>2, IntervalType
<1>4. due' \in [Jobs -> Nat]
  BY <1>2, <1>3 DEF MovedForward, Inv, Types
<1>5. Types'
  <2>1. job'.job \in Jobs
    BY <1>1
  <2> QED BY <1>1, <1>4, <2>1 DEF Inv, Types, plan, link
<1>6. TickAhead'
  BY <1>1 DEF Inv, TickAhead, plan
<1>7. BackoffFollowsFailures'
  BY <1>1 DEF Inv, BackoffFollowsFailures, plan, link
<1>8. TurnTaken'
  <2>1. first => startup # {}
    <3>1. startup = {} => Selected.startup = FALSE
      BY DEF Selected
    <3> QED BY <1>1, <3>1
  <2> QED BY <1>1, <2>1 DEF TurnTaken
<1> QED BY <1>5, <1>6, <1>7, <1>8 DEF Inv

\* One more failure, one more success, or neither: the back-off fits.
LEMMA LinkAfterBackoff ==
    ASSUME Inv, NEW outcome \in Outcomes, LinkAfter(outcome)
    PROVE  failures' \in 0 .. MaxFailures /\ backoff' = BackoffSeconds(failures')
<1>1. CASE LinkFailure
  <2>1. failures \in 0 .. MaxFailures /\ backoff = BackoffSeconds(failures)
    BY DEF Inv, Types, BackoffFollowsFailures
  <2>2. MaxFailures \in Nat /\ BackoffAfter <= MaxFailures /\ BackoffAfter \in Nat
    BY BackoffType, TimesAssumption
  <2>3. failures' \in {failures + 1, MaxFailures} /\ failures' <= failures + 1
    BY <1>1, <2>1, <2>2 DEF LinkFailure, Min
  <2>4. failures' \in 0 .. MaxFailures
    <3>1. failures' <= MaxFailures
      BY <1>1, <2>1, <2>2 DEF LinkFailure, Min
    <3> QED BY <2>1, <2>2, <2>3, <3>1
  <2>5. CASE failures' >= BackoffAfter
    <3>1. BackoffSeconds(failures') \in Nat
      BY <2>2, <2>4, <2>5, BackoffType
    <3>2. BackoffSeconds(failures') # None
      BY <3>1, NoneAssumption
    <3> QED BY <1>1, <2>4, <3>2 DEF LinkFailure
  <2>6. CASE failures' < BackoffAfter
    <3>1. BackoffSeconds(failures') = None
      BY <2>6 DEF BackoffSeconds
    <3>2. failures < BackoffAfter
      BY <2>1, <2>2, <2>3, <2>6
    <3>3. backoff = None
      BY <2>1, <3>2 DEF BackoffSeconds
    <3> QED BY <1>1, <2>4, <3>1, <3>3 DEF LinkFailure
  <2> QED BY <2>2, <2>4, <2>5, <2>6
<1>2. CASE LinkSuccess
  <2>1. 0 \in 0 .. MaxFailures
    BY BackoffType
  <2>2. BackoffSeconds(0) = None
    BY TimesAssumption DEF BackoffSeconds
  <2> QED BY <1>2, <2>1, <2>2 DEF LinkSuccess
<1>3. CASE UNCHANGED link
  BY <1>3 DEF link, Inv, Types, BackoffFollowsFailures
<1> QED BY <1>1, <1>2, <1>3 DEF LinkAfter

\* The read of a job ends.
LEMMA EndJobInv ==
    ASSUME Inv, NEW outcome \in Outcomes, EndJob(outcome)
    PROVE  Inv'
<1> DEFINE j == job.job
<1>1. /\ j \in Jobs
      /\ ReadOptional(outcome # "unanswered")
      /\ LinkAfter(outcome)
      /\ nextDelay' = DelayAfter(hasData')
      /\ EndTick
      /\ UNCHANGED <<startup, startupTurn, tickSeconds, stopped, lastFirstPass>>
  BY DEF EndJob, Inv, Types
<1>2. optional' \in Nat \union {None}
  BY <1>1, TimesAssumption DEF ReadOptional, Inv, Types
<1>3. due' \in [Jobs -> Nat]
  <2>1. \/ due' = due
        \/ \E i \in JobIntervals(j, NeverRead(j, known'), silent') :
               due' = [due EXCEPT ![j] = i]
    BY DEF EndJob
  <2>2. JobIntervals(j, NeverRead(j, known'), silent') \subseteq Nat
    BY <1>1, IntervalType
  <2> QED BY <2>1, <2>2 DEF Inv, Types
<1>4. failures' \in 0 .. MaxFailures /\ backoff' = BackoffSeconds(failures')
  BY <1>1, LinkAfterBackoff
<1>5. backoff' # None => backoff' \in Nat
  <2>1. failures' \in Nat /\ BackoffAfter \in Nat
    BY <1>4, BackoffType, TimesAssumption
  <2>2. CASE failures' >= BackoffAfter
    BY <1>4, <2>1, <2>2, BackoffType
  <2>3. CASE failures' < BackoffAfter
    BY <1>4, <2>3 DEF BackoffSeconds
  <2> QED BY <2>1, <2>2, <2>3
<1>6. WakeUp(due', startup, optional', tickSeconds) \in Nat
  BY <1>2, <1>3, WakeUpType DEF Inv, Types
<1>7. nextDelay' \in Nat
  BY <1>1, <1>5, <1>6, TimesAssumption DEF DelayAfter, Inv, Types
<1>8. TickAhead' /\ timer' \in Nat \union {None} /\ phase' = "idle"
  BY <1>1, <1>7, EndTickAhead
<1>9. Types'
  BY <1>1, <1>2, <1>3, <1>4, <1>7, <1>8 DEF Inv, Types
<1>10. BackoffFollowsFailures'
  <2>1. backoff' # None => nextDelay' = backoff'
    BY <1>1 DEF DelayAfter, Inv, BackoffFollowsFailures
  <2> QED BY <1>4, <2>1 DEF BackoffFollowsFailures
<1>11. TurnTaken'
  BY <1>1 DEF Inv, TurnTaken
<1> QED BY <1>8, <1>9, <1>10, <1>11 DEF Inv

\* The clock keeps timers timers.
LEMMA TickInv ==
    ASSUME Inv, Tick
    PROVE  Inv'
<1>1. \A t \in Nat : Less(t) \in Nat
  BY NoneAssumption DEF Less
<1>2. Less(None) = None
  BY DEF Less
<1>3. timer' = Less(timer) /\ optional' = Less(optional) /\ due' = [j \in Jobs |-> Less(due[j])]
  BY DEF Tick
<1>4. due' \in [Jobs -> Nat]
  BY <1>1, <1>3 DEF Inv, Types
<1>5. timer' \in Nat \union {None} /\ optional' \in Nat \union {None}
  BY <1>1, <1>2, <1>3 DEF Inv, Types
<1>6. (timer' = None) <=> (timer = None)
  BY <1>1, <1>2, <1>3, NoneAssumption DEF Inv, Types
<1>7. UNCHANGED <<phase, job, nextDelay, startup, startupTurn, failures, backoff,
                  tickSeconds, stopped, lastFirstPass>>
  BY DEF Tick, link
<1>8. Types'
  BY <1>4, <1>5, <1>7 DEF Inv, Types
<1>9. TickAhead' /\ TurnTaken' /\ BackoffFollowsFailures'
  BY <1>6, <1>7 DEF Inv, TickAhead, TurnTaken, BackoffFollowsFailures
<1> QED BY <1>8, <1>9 DEF Inv

\* Every step preserves the invariant.
LEMMA NextInv == Inv /\ [Next]_vars => Inv'
<1> SUFFICES ASSUME Inv, [Next]_vars PROVE Inv'
  OBVIOUS
<1>1. CASE Poll
  BY <1>1 DEF Poll, Inv, Types, TickAhead, BackoffFollowsFailures, TurnTaken,
     queues, link
<1>2. CASE StartJob
  BY <1>2, StartJobInv
<1>3. CASE NoJobDue
  BY <1>3, NoJobDueInv
<1>4. CASE \E outcome \in Outcomes : EndJob(outcome)
  BY <1>4, EndJobInv
<1>5. CASE \E rate \in Rates : UpdateRequestRate(rate)
  <2>1. PICK rate \in Rates : UpdateRequestRate(rate)
    BY <1>5
  <2>2. optional \in Nat \union {None}
    BY DEF Inv, Types
  <2> QED BY <2>1, <2>2, ScheduleInv DEF UpdateRequestRate
<1>6. CASE SetOptionalEnabled
  <2>1. optional' \in Nat \union {None} /\ tickSeconds \in Rates
    BY <1>6 DEF SetOptionalEnabled, Inv, Types
  <2> QED BY <1>6, <2>1, ScheduleInv DEF SetOptionalEnabled
<1>7. CASE Readback
  BY <1>7 DEF Readback, Inv, Types, TickAhead, BackoffFollowsFailures, TurnTaken,
     queues, link, plan
<1>8. CASE \E r \in Rooms : FallsSilent(r)
  BY <1>8 DEF FallsSilent, Inv, Types, TickAhead, BackoffFollowsFailures,
     TurnTaken, queues, link, plan
<1>9. CASE Shutdown
  BY <1>9 DEF Shutdown, Inv, Types, TickAhead, BackoffFollowsFailures, TurnTaken,
     queues, link
<1>10. CASE Tick
  BY <1>10, TickInv
<1>11. CASE UNCHANGED vars
  BY <1>11 DEF vars, Inv, Types, TickAhead, BackoffFollowsFailures, TurnTaken
<1> QED
  BY <1>1, <1>2, <1>3, <1>4, <1>5, <1>6, <1>7, <1>8, <1>9, <1>10, <1>11 DEF Next

\* The invariant holds throughout every behaviour.
THEOREM Invariance == Spec => []Inv
BY InitInv, NextInv, PTL DEF Spec

-----------------------------------------------------------------------------
(* The properties                                                          *)

\* Polling neither dies nor doubles (async_poll, _async_set_next_poll_delay).
THEOREM OneTickAheadHolds == Spec => []OneTickAhead
<1>1. Inv => OneTickAhead
  BY DEF Inv, Types, TickAhead, OneTickAhead
<1> QED BY <1>1, Invariance, PTL

\* The back-off is that of the failures and plans the next tick
\* (_apply_transport_backoff, _on_transport_success).
THEOREM BackoffHolds == Spec => []BackoffFollowsFailures
<1>1. Inv => BackoffFollowsFailures
  BY DEF Inv
<1> QED BY <1>1, Invariance, PTL

\* First-pass jobs alternate with jobs that are due (_select_poll_job).
THEOREM WarmUpHolds == Spec => WarmUpAlternates
<1>1. ASSUME Inv, StartJob, lastFirstPass, job'.startup
      PROVE  DueJob(startup) = None
  <2>1. startupTurn = FALSE
    BY <1>1 DEF Inv, TurnTaken
  <2>2. Selected.startup
    BY <1>1 DEF StartJob
  <2>3. startup # {} /\ FirstPassTurn(DueJob(startup))
    BY <2>2 DEF Selected
  <2> QED BY <2>1, <2>3 DEF FirstPassTurn
<1>2. Inv => [StartJob /\ lastFirstPass /\ job'.startup => DueJob(startup) = None]_vars
  BY <1>1
<1> QED BY <1>2, Invariance, PTL DEF WarmUpAlternates

\* A planned tick comes no later than WakeUp says exactly if it is within the
\* request rate, or no job is due before it, and likewise for the optional value.
LEMMA WakeUpBound ==
    ASSUME NEW d \in [Jobs -> Nat], NEW first, NEW opt \in Nat \union {None},
           NEW rate \in Rates, NEW t \in Nat
    PROVE  t <= WakeUp(d, first, opt, rate) <=>
              /\ \/ t <= rate
                 \/ first = {} /\ \A j \in Jobs : t <= d[j]
              /\ opt # None => t <= rate \/ t <= opt
<1> DEFINE S == {d[j] : j \in Jobs}
           m == Min(S)
           jobs == IF first # {} THEN rate ELSE Max({rate, m})
<1>1. S \subseteq Nat /\ S # {}
  <2>1. 1 \in Jobs
    BY JobsAssumption DEF Jobs
  <2> QED BY <2>1
<1>2. m \in Nat /\ m \in S /\ \A x \in S : m <= x
  <2>1. PICK x \in S : \A y \in S : x <= y
    BY <1>1, LeastNatural
  <2> HIDE DEF S
  <2> QED BY <1>1, <2>1 DEF Min
<1>3. t <= m <=> \A j \in Jobs : t <= d[j]
  <2>1. PICK j0 \in Jobs : m = d[j0]
    BY <1>2
  <2>2. \A j \in Jobs : m <= d[j] /\ d[j] \in Nat
    BY <1>2
  <2> HIDE DEF m, S
  <2> QED BY <1>2, <2>1, <2>2
<1>4. rate \in Nat
  BY TimesAssumption
<1>5. \A a, b \in Nat : /\ Max({a, b}) = IF a <= b THEN b ELSE a
                        /\ Min({a, b}) = IF a <= b THEN a ELSE b
  BY DEF Max, Min
<1> HIDE DEF m, S
<1>6. jobs \in Nat /\ (t <= jobs <=> \/ t <= rate
                                     \/ first = {} /\ \A j \in Jobs : t <= d[j])
  BY <1>2, <1>3, <1>4, <1>5
<1>7. WakeUp(d, first, opt, rate) = IF opt = None THEN jobs ELSE Min({jobs, Max({rate, opt})})
  BY DEF WakeUp, jobs, m, S
<1> HIDE DEF jobs
<1>8. CASE opt = None
  BY <1>6, <1>7, <1>8
<1>9. CASE opt # None
  <2> DEFINE late == Max({rate, opt})
  <2>1. late \in Nat /\ (t <= late <=> t <= rate \/ t <= opt)
    BY <1>4, <1>5, <1>9
  <2>2. WakeUp(d, first, opt, rate) = Min({jobs, late})
    BY <1>7, <1>9
  <2> HIDE DEF late
  <2>3. t <= Min({jobs, late}) <=> t <= jobs /\ t <= late
    <3>1. Min({jobs, late}) = IF jobs <= late THEN jobs ELSE late
      BY <1>5, <1>6, <2>1
    <3>2. jobs \in Nat
      BY <1>6
    <3> QED BY <2>1, <3>1, <3>2
  <2> QED BY <1>6, <1>9, <2>1, <2>2, <2>3
<1> QED BY <1>8, <1>9

\* The clock moves a planned tick and what it is planned for alike.
LEMMA TickWakes ==
    ASSUME Inv, WakesInTime, Tick
    PROVE  WakesInTime'
<1> SUFFICES ASSUME phase' = "idle", timer' # None, backoff' = None, hasData' # {}
             PROVE  timer' <= WakeUp(due', startup', optional', tickSeconds')
  BY DEF WakesInTime
<1>1. /\ timer' = Less(timer) /\ optional' = Less(optional)
      /\ due' = [j \in Jobs |-> Less(due[j])]
      /\ UNCHANGED <<phase, startup, tickSeconds, backoff, hasData>>
  BY DEF Tick, link, units
<1>2. /\ timer \in Nat \union {None} /\ optional \in Nat \union {None}
      /\ due \in [Jobs -> Nat] /\ tickSeconds \in Rates
  BY DEF Inv, Types
<1>3. \A x \in Nat : Less(x) \in Nat /\ Less(x) <= x
  BY NoneAssumption DEF Less
<1>4. \A x, y \in Nat : x <= y => Less(x) <= Less(y)
  BY NoneAssumption DEF Less
<1>5. timer \in Nat /\ timer # None
  BY <1>1, <1>2 DEF Less
<1>6. timer <= WakeUp(due, startup, optional, tickSeconds)
  BY <1>1, <1>5 DEF WakesInTime
<1>7. /\ timer <= tickSeconds \/ (startup = {} /\ \A j \in Jobs : timer <= due[j])
      /\ optional # None => timer <= tickSeconds \/ timer <= optional
  BY <1>2, <1>5, <1>6, WakeUpBound
<1>8. tickSeconds \in Nat
  BY <1>2, TimesAssumption
<1>9. optional' \in Nat \union {None} /\ due' \in [Jobs -> Nat] /\ timer' \in Nat
  BY <1>1, <1>2, <1>3, <1>5 DEF Less
<1>10. timer <= tickSeconds => timer' <= tickSeconds
  BY <1>1, <1>3, <1>5, <1>8
<1>11. (\A j \in Jobs : timer <= due[j]) => \A j \in Jobs : timer' <= due'[j]
  BY <1>1, <1>2, <1>4, <1>5
<1>12. optional' # None => optional # None /\ (timer <= optional => timer' <= optional')
  BY <1>1, <1>2, <1>4, <1>5 DEF Less
<1>13. timer' <= WakeUp(due', startup, optional', tickSeconds)
  BY <1>2, <1>7, <1>9, <1>10, <1>11, <1>12, WakeUpBound
<1> QED BY <1>1, <1>13

\* Every step keeps the wake-up.
LEMMA NextWakes == Inv /\ WakesInTime /\ [Next]_vars => WakesInTime'
<1> SUFFICES ASSUME Inv, WakesInTime, [Next]_vars PROVE WakesInTime'
  OBVIOUS
<1>1. ASSUME NEW opt \in Nat \union {None}, NEW rate \in Rates, ScheduleNextTick(opt, rate),
             optional' = opt, tickSeconds' = rate, UNCHANGED <<phase, queues, link>>
      PROVE  WakesInTime'
  <2>1. WakeUp(due, startup, opt, rate) \in Nat
    BY <1>1, WakeUpType DEF Inv, Types
  <2>2. CASE backoff # None
    BY <1>1, <2>2 DEF WakesInTime, link
  <2>3. CASE backoff = None
    BY <1>1, <2>1, <2>3 DEF WakesInTime, ScheduleNextTick, SetNextPollDelay, queues
  <2> QED BY <2>2, <2>3
<1>2. CASE Poll \/ StartJob \/ Shutdown
  BY <1>2 DEF Poll, StartJob, Shutdown, WakesInTime
<1>3. CASE NoJobDue
  <2>1. optional' \in Nat \union {None} /\ due \in [Jobs -> Nat] /\ tickSeconds \in Rates
    BY <1>3, TimesAssumption DEF NoJobDue, ReadOptional, Inv, Types
  <2>2. WakeUp(due, startup, optional', tickSeconds) \in Nat
    BY <2>1, WakeUpType
  <2>3. UNCHANGED <<due, startup, backoff, tickSeconds>>
    BY <1>3 DEF NoJobDue, queues, link
  <2> QED BY <1>3, <2>2, <2>3 DEF NoJobDue, EndTick, WakesInTime
<1>4. ASSUME NEW outcome \in Outcomes, EndJob(outcome) PROVE WakesInTime'
  <2>1. /\ optional' \in Nat \union {None} /\ due' \in [Jobs -> Nat] /\ tickSeconds \in Rates
        /\ UNCHANGED <<startup, tickSeconds>>
    <3>1. Types'
      BY <1>4, EndJobInv DEF Inv
    <3> QED BY <1>4, <3>1 DEF Types, EndJob, Inv
  <2>2. WakeUp(due', startup, optional', tickSeconds) \in Nat
    BY <2>1, WakeUpType
  <2>3. backoff' = None /\ hasData' # {} => nextDelay' = WakeUp(due', startup, optional', tickSeconds)
    BY <1>4 DEF EndJob, DelayAfter
  <2> QED BY <1>4, <2>1, <2>2, <2>3 DEF EndJob, EndTick, WakesInTime
<1>5. ASSUME NEW rate \in Rates, UpdateRequestRate(rate) PROVE WakesInTime'
  <2>1. optional \in Nat \union {None}
    BY DEF Inv, Types
  <2> QED BY <1>1, <1>5, <2>1 DEF UpdateRequestRate
<1>6. CASE SetOptionalEnabled
  <2>1. optional' \in Nat \union {None} /\ tickSeconds \in Rates
    BY <1>6 DEF SetOptionalEnabled, Inv, Types
  <2> QED BY <1>1, <1>6, <2>1 DEF SetOptionalEnabled
<1>7. CASE Tick
  BY <1>7, TickWakes
<1>8. CASE Readback \/ (\E r \in Rooms : FallsSilent(r)) \/ UNCHANGED vars
  BY <1>8 DEF Readback, FallsSilent, vars, WakesInTime, plan, queues, link, units
<1> QED BY <1>2, <1>3, <1>4, <1>5, <1>6, <1>7, <1>8 DEF Next

\* A tick is never planned too late (_schedule_next_tick, update_request_rate,
\* _set_optional_read_enabled).
THEOREM WakesHolds == Spec => []WakesInTime
<1>1. Init => WakesInTime
  BY DEF Init, WakesInTime
<1> QED BY <1>1, NextWakes, Invariance, PTL DEF Spec

-----------------------------------------------------------------------------
(* The queue of jobs that are due                                          *)

\* InOrder lists every job of the set once: the number of smaller jobs tells
\* them apart, and there are as many such numbers as jobs.
LEMMA InOrderLists ==
    ASSUME NEW S \in SUBSET Jobs
    PROVE  /\ InOrder(S) \in Seq(S)
           /\ \A j \in S : \E i \in 1 .. Len(InOrder(S)) : InOrder(S)[i] = j
           /\ \A a, b \in 1 .. Len(InOrder(S)) : InOrder(S)[a] = InOrder(S)[b] => a = b
<1> DEFINE Below(j) == {k \in S : k < j}
           n == Cardinality(S)
           rank == [j \in S |-> Cardinality(Below(j)) + 1]
<1>1. IsFiniteSet(S) /\ n \in Nat /\ S \subseteq Int
  <2>1. IsFiniteSet(Jobs)
    BY JobsAssumption, FS_Interval DEF Jobs
  <2>2. IsFiniteSet(S)
    BY <2>1, FS_Subset
  <2> QED BY <2>2, FS_CardinalityType, JobsAssumption DEF Jobs
<1>2. ASSUME NEW j \in S
      PROVE  IsFiniteSet(Below(j)) /\ Cardinality(Below(j)) \in Nat /\ Cardinality(Below(j)) < n
  <2>1. Below(j) \in SUBSET S /\ j \notin Below(j)
    BY <1>1
  <2>2. IsFiniteSet(Below(j)) /\ Cardinality(Below(j)) <= n /\ (n = Cardinality(Below(j)) => S = Below(j))
    BY <1>1, <2>1, FS_Subset
  <2>3. Cardinality(Below(j)) \in Nat
    BY <2>2, FS_CardinalityType
  <2> HIDE DEF Below, n
  <2> QED BY <1>1, <2>1, <2>2, <2>3
<1>3. ASSUME NEW j \in S, NEW k \in S, j < k
      PROVE  Cardinality(Below(j)) < Cardinality(Below(k))
  <2>1. Below(j) \in SUBSET Below(k) /\ j \in Below(k) /\ j \notin Below(j)
    <3>1. j \in Int /\ k \in Int /\ \A x \in S : x \in Int
      BY <1>1
    <3>2. \A x \in S : x < j => x < k
      BY <1>3, <3>1
    <3>3. ~(j < j)
      BY <3>1
    <3> QED BY <1>3, <3>2, <3>3
  <2>2. /\ Cardinality(Below(j)) <= Cardinality(Below(k))
        /\ Cardinality(Below(k)) = Cardinality(Below(j)) => Below(k) = Below(j)
    BY <1>2, <2>1, FS_Subset
  <2> HIDE DEF Below
  <2> QED BY <1>2, <2>1, <2>2
<1>4. rank \in [S -> 1 .. n]
  <2> HIDE DEF Below, n
  <2>1. \A j \in S : Cardinality(Below(j)) + 1 \in 1 .. n
    BY <1>1, <1>2
  <2> QED BY <2>1
<1>5. \A j, k \in S : rank[j] = rank[k] => j = k
  <2>1. SUFFICES ASSUME NEW j \in S, NEW k \in S, rank[j] = rank[k], j # k
                 PROVE  FALSE
    OBVIOUS
  <2>2. Cardinality(Below(j)) = Cardinality(Below(k))
    <3> HIDE DEF Below
    <3> QED BY <1>2, <2>1
  <2>3. j < k \/ k < j
    BY <1>1, <2>1
  <2> HIDE DEF Below, rank
  <2> QED BY <1>2, <1>3, <2>2, <2>3
<1>6. rank \in Injection(S, 1 .. n)
  <2> HIDE DEF rank, n
  <2> QED BY <1>4, <1>5 DEF Injection, IsInjective
<1>7. rank \in Surjection(S, 1 .. n)
  <2> HIDE DEF rank, n
  <2>1. IsFiniteSet(1 .. n) /\ Cardinality(1 .. n) = n
    BY <1>1, FS_Interval
  <2> QED BY <1>6, <2>1, FS_Injection DEF n
<1>8. InOrder(S) = [i \in 1 .. n |-> CHOOSE j \in S : Cardinality(Below(j)) = i - 1]
  BY DEF InOrder
<1>9. ASSUME NEW i \in 1 .. n
      PROVE  InOrder(S)[i] \in S /\ rank[InOrder(S)[i]] = i
  <2>1. PICK j \in S : rank[j] = i
    BY <1>7, <1>9 DEF Surjection
  <2> HIDE DEF Below, n
  <2>2. Cardinality(Below(j)) = i - 1
    BY <1>1, <1>2, <2>1
  <2>3. InOrder(S)[i] \in S /\ Cardinality(Below(InOrder(S)[i])) = i - 1
    BY <1>8, <2>2
  <2> QED BY <1>1, <2>3
<1> HIDE DEF Below, n, rank
<1>10. InOrder(S) \in Seq(S) /\ Len(InOrder(S)) = n
  <2>1. InOrder(S) \in [1 .. n -> S]
    BY <1>8, <1>9
  <2> QED BY <1>1, <2>1
<1>11. \A j \in S : rank[j] \in 1 .. n /\ InOrder(S)[rank[j]] = j
  BY <1>4, <1>5, <1>9
<1> QED BY <1>9, <1>10, <1>11

\* The queue holds each job that is due, once.
QueueHolds(q, d) ==
    /\ q \in Seq(Jobs)
    /\ \A i \in 1 .. Len(q) : d[q[i]] = 0
    /\ \A j \in Jobs : d[j] = 0 => \E i \in 1 .. Len(q) : q[i] = j
    /\ \A a, b \in 1 .. Len(q) : q[a] = q[b] => a = b

\* A job with a new due time leaves the queue, the others stay.
LEMMA WithoutHolds ==
    ASSUME QueueHolds(queue, due), NEW j \in Jobs, NEW d \in [Jobs -> Nat], d[j] # 0,
           \A k \in Jobs : k # j => d[k] = due[k]
    PROVE  QueueHolds(Without(j), d)
<1> DEFINE places == {i \in DOMAIN queue : queue[i] = j}
           place == Min(places)
           n == Len(queue)
<1>1. queue \in Seq(Jobs) /\ n \in Nat /\ DOMAIN queue = 1 .. n
  BY DEF QueueHolds
<1>2. CASE places = {}
  <2>1. Without(j) = queue
    BY <1>2 DEF Without
  <2>2. \A i \in 1 .. n : queue[i] # j /\ queue[i] \in Jobs
    BY <1>1, <1>2
  <2> QED BY <2>1, <2>2 DEF QueueHolds
<1>3. CASE places # {}
  <2>1. PICK p \in 1 .. n : queue[p] = j
    BY <1>1, <1>3
  <2>2. places = {p}
    BY <1>1, <2>1 DEF QueueHolds
  <2>3. place = p
    BY <1>1, <2>2 DEF Min
  <2> DEFINE front == SubSeq(queue, 1, p - 1)
             back == SubSeq(queue, p + 1, n)
  <2>4. Without(j) = front \o back
    BY <1>3, <2>3 DEF Without
  <2>5. \A i \in 1 .. n : queue[i] \in Jobs
    BY <1>1
  <2>6. /\ front \in Seq(Jobs) /\ Len(front) = p - 1
        /\ \A i \in 1 .. p - 1 : front[i] = queue[i]
    <3> HIDE DEF n
    <3>1. /\ front \in Seq(Jobs) /\ Len(front) = IF 1 <= p - 1 THEN p - 1 - 1 + 1 ELSE 0
          /\ \A i \in 1 .. p - 1 - 1 + 1 : front[i] = queue[1 + i - 1]
      BY <1>1, <2>1, <2>5, SubSeqProperties
    <3> QED BY <1>1, <3>1
  <2>7. /\ back \in Seq(Jobs) /\ Len(back) = n - p
        /\ \A i \in 1 .. n - p : back[i] = queue[p + i]
    <3> HIDE DEF n
    <3>1. /\ back \in Seq(Jobs) /\ Len(back) = IF p + 1 <= n THEN n - (p + 1) + 1 ELSE 0
          /\ \A i \in 1 .. n - (p + 1) + 1 : back[i] = queue[p + 1 + i - 1]
      BY <1>1, <2>1, <2>5, SubSeqProperties
    <3> HIDE DEF back
    <3> QED BY <1>1, <3>1
  <2> HIDE DEF front, back, n
  <2>8. /\ Without(j) \in Seq(Jobs) /\ Len(Without(j)) = n - 1
        /\ \A i \in 1 .. n - 1 : Without(j)[i] = IF i < p THEN queue[i] ELSE queue[i + 1]
    <3>1. /\ front \o back \in Seq(Jobs) /\ Len(front \o back) = p - 1 + (n - p)
          /\ \A i \in 1 .. p - 1 + (n - p) : (front \o back)[i] =
                 IF i <= p - 1 THEN front[i] ELSE back[i - (p - 1)]
      <4>1. /\ front \o back \in Seq(Jobs) /\ Len(front \o back) = Len(front) + Len(back)
            /\ \A i \in 1 .. Len(front) + Len(back) : (front \o back)[i] =
                   IF i <= Len(front) THEN front[i] ELSE back[i - Len(front)]
        BY <2>6, <2>7, ConcatProperties
      <4> QED BY <2>6, <2>7, <4>1, Zenon
    <3>2. ASSUME NEW i \in 1 .. n - 1
          PROVE  (front \o back)[i] = IF i < p THEN queue[i] ELSE queue[i + 1]
      <4>1. CASE i < p
        BY <1>1, <2>6, <3>1, <4>1
      <4>2. CASE ~(i < p)
        <5>1. i - (p - 1) \in 1 .. n - p /\ p + (i - (p - 1)) = i + 1
          BY <1>1, <4>2
        <5>2. back[i - (p - 1)] = queue[i + 1]
          BY <2>7, <5>1
        <5> QED BY <1>1, <3>1, <4>2, <5>2
      <4> QED BY <4>1, <4>2
    <3> QED BY <1>1, <2>4, <3>1, <3>2
  <2> DEFINE w == Without(j)
             At(i) == IF i < p THEN i ELSE i + 1
  <2>9. /\ w \in Seq(Jobs) /\ Len(w) = n - 1
        /\ \A i \in 1 .. n - 1 : w[i] = queue[At(i)] /\ At(i) \in 1 .. n /\ At(i) # p
    BY <1>1, <2>8
  <2>10. \A a, b \in 1 .. n - 1 : At(a) = At(b) => a = b
    BY <1>1
  <2>11. \A i \in 1 .. n : i # p => \E a \in 1 .. n - 1 : At(a) = i
    <3>1. SUFFICES ASSUME NEW i \in 1 .. n, i # p PROVE \E a \in 1 .. n - 1 : At(a) = i
      OBVIOUS
    <3>2. CASE i < p
      <4>1. i \in 1 .. n - 1 /\ At(i) = i
        BY <1>1, <3>2
      <4> QED BY <4>1
    <3>3. CASE i > p
      <4>1. i - 1 \in 1 .. n - 1 /\ At(i - 1) = i
        BY <1>1, <3>3
      <4> QED BY <4>1
    <3> QED BY <1>1, <3>1, <3>2, <3>3
  <2> HIDE DEF w, At
  <2>12. \A i \in 1 .. n : i # p => queue[i] # j /\ queue[i] \in Jobs
    BY <2>1, <2>5 DEF QueueHolds, n
  <2>13. \A i \in 1 .. n - 1 : d[w[i]] = 0
    <3>1. \A i \in 1 .. n : i # p => d[queue[i]] = due[queue[i]] /\ due[queue[i]] = 0
      BY <2>12 DEF QueueHolds, n
    <3> QED BY <2>9, <3>1
  <2>14. \A k \in Jobs : d[k] = 0 => \E i \in 1 .. n - 1 : w[i] = k
    <3>1. SUFFICES ASSUME NEW k \in Jobs, d[k] = 0 PROVE \E i \in 1 .. n - 1 : w[i] = k
      OBVIOUS
    <3>2. k # j /\ due[k] = 0
      BY <3>1
    <3>3. PICK i \in 1 .. n : queue[i] = k
      BY <3>2 DEF QueueHolds, n
    <3>4. i # p
      BY <2>1, <3>2, <3>3
    <3> QED BY <2>9, <2>11, <3>3, <3>4
  <2>15. \A a, b \in 1 .. n - 1 : w[a] = w[b] => a = b
    <3>1. \A a, b \in 1 .. n : queue[a] = queue[b] => a = b
      BY DEF QueueHolds, n
    <3> QED BY <2>9, <2>10, <3>1
  <2>16. QueueHolds(w, d)
    BY <2>9, <2>13, <2>14, <2>15 DEF QueueHolds
  <2> QED BY <2>16 DEF w
<1> QED BY <1>2, <1>3

\* The jobs that become due join the queue at its end.
LEMMA JoinHolds ==
    ASSUME NEW q, NEW S \in SUBSET Jobs, NEW d, NEW e \in [Jobs -> Nat], QueueHolds(q, d),
           \A j \in Jobs : e[j] = 0 <=> d[j] = 0 \/ j \in S,
           \A j \in S : d[j] # 0
    PROVE  QueueHolds(q \o InOrder(S), e)
<1> DEFINE s == InOrder(S)
           r == q \o s
           n == Len(q)
           m == Len(s)
<1>1. q \in Seq(Jobs) /\ s \in Seq(Jobs) /\ n \in Nat /\ m \in Nat /\ \A i \in 1 .. m : s[i] \in S
  <2>1. s \in Seq(S)
    BY InOrderLists
  <2> HIDE DEF s
  <2> QED BY <2>1 DEF QueueHolds
<1>2. /\ \A j \in S : \E i \in 1 .. m : s[i] = j
      /\ \A a, b \in 1 .. m : s[a] = s[b] => a = b
  BY InOrderLists
<1>3. /\ \A i \in 1 .. n : d[q[i]] = 0 /\ q[i] \in Jobs
      /\ \A j \in Jobs : d[j] = 0 => \E i \in 1 .. n : q[i] = j
      /\ \A a, b \in 1 .. n : q[a] = q[b] => a = b
  BY DEF QueueHolds
<1> HIDE DEF s
<1>4. r \in Seq(Jobs) /\ Len(r) = n + m
  BY <1>1, ConcatProperties
<1>5. \A i \in 1 .. n : r[i] = q[i]
  BY <1>1, ConcatProperties
<1>6. \A i \in 1 .. n + m : i > n => i - n \in 1 .. m /\ r[i] = s[i - n]
  BY <1>1, ConcatProperties
<1>7. \A i \in 1 .. m : n + i \in 1 .. n + m /\ r[n + i] = s[i]
  BY <1>1, ConcatProperties
<1> HIDE DEF r, n, m
<1>8. \A i \in 1 .. n + m : e[r[i]] = 0
  <2>1. \A i \in 1 .. n + m : i \in 1 .. n \/ i > n
    BY <1>1
  <2> QED BY <1>1, <1>3, <1>5, <1>6, <2>1
<1>9. \A j \in Jobs : e[j] = 0 => \E i \in 1 .. n + m : r[i] = j
  <2>1. \A i \in 1 .. n : i \in 1 .. n + m
    BY <1>1
  <2> QED BY <1>2, <1>3, <1>5, <1>7, <2>1
<1>10. \A a, b \in 1 .. n + m : r[a] = r[b] => a = b
  <2>1. SUFFICES ASSUME NEW a \in 1 .. n + m, NEW b \in 1 .. n + m, r[a] = r[b] PROVE a = b
    OBVIOUS
  <2>2. \A i \in 1 .. n : d[r[i]] = 0
    BY <1>3, <1>5
  <2>3. \A i \in 1 .. n + m : i > n => d[r[i]] # 0
    BY <1>1, <1>6
  <2>4. CASE a \in 1 .. n /\ b \in 1 .. n
    BY <1>3, <1>5, <2>1, <2>4
  <2>5. CASE a > n /\ b > n
    <3>1. a - n = b - n
      BY <1>2, <1>6, <2>1, <2>5
    <3> QED BY <1>1, <3>1
  <2>6. CASE a \in 1 .. n /\ b > n
    BY <2>1, <2>6, <2>2, <2>3
  <2>7. CASE a > n /\ b \in 1 .. n
    BY <2>1, <2>7, <2>2, <2>3
  <2> QED BY <1>1, <2>4, <2>5, <2>6, <2>7
<1>11. QueueHolds(r, e)
  BY <1>4, <1>8, <1>9, <1>10 DEF QueueHolds
<1> QED BY <1>11 DEF r, s

QueueInv == QueueHolds(queue, due)

\* The jobs that are due when polling starts.
LEMMA InitQueue == Init => QueueInv
<1> SUFFICES ASSUME Init PROVE QueueInv
  OBVIOUS
<1> DEFINE S == {j \in Jobs : Stagger[j] = 0}
<1>1. queue = InOrder(S) /\ due = Stagger /\ S \in SUBSET Jobs
  BY DEF Init
<1>2. /\ queue \in Seq(S)
      /\ \A j \in S : \E i \in 1 .. Len(queue) : queue[i] = j
      /\ \A a, b \in 1 .. Len(queue) : queue[a] = queue[b] => a = b
  <2> HIDE DEF S
  <2> QED BY <1>1, InOrderLists
<1>3. queue \in Seq(Jobs) /\ \A i \in 1 .. Len(queue) : queue[i] \in S
  <2>1. S \subseteq Jobs
    OBVIOUS
  <2> HIDE DEF S
  <2> QED BY <1>2, <2>1
<1> QED BY <1>1, <1>2, <1>3 DEF QueueInv, QueueHolds

\* A job moves forward.
LEMMA MovedQueue ==
    ASSUME Inv, QueueInv, NEW j \in Jobs, NEW i \in Nat \ {0},
           due' = [due EXCEPT ![j] = i], queue' = Without(j)
    PROVE  QueueInv'
<1>1. due' \in [Jobs -> Nat] /\ due'[j] # 0 /\ \A k \in Jobs : k # j => due'[k] = due[k]
  BY DEF Inv, Types
<1>2. QueueHolds(Without(j), due')
  BY <1>1, WithoutHolds DEF QueueInv
<1> QED BY <1>2 DEF QueueInv

\* Every step keeps the queue that of the jobs that are due.
LEMMA NextQueue == Inv /\ QueueInv /\ [Next]_vars => QueueInv'
<1> SUFFICES ASSUME Inv, QueueInv, [Next]_vars PROVE QueueInv'
  OBVIOUS
<1>1. CASE StartJob
  <2>1. PICK j \in Jobs : \E i \in JobIntervals(j, FALSE, silent) : MovedForward(j, i)
    BY <1>1 DEF StartJob
  <2>2. PICK i \in Nat \ {0} : MovedForward(j, i)
    BY <2>1, IntervalType
  <2> QED BY <2>2, MovedQueue DEF MovedForward
<1>2. CASE \E outcome \in Outcomes : EndJob(outcome)
  <2> DEFINE j == job.job
  <2>1. j \in Jobs
    BY <1>2 DEF EndJob, Inv, Types
  <2>2. \/ UNCHANGED <<due, queue>>
        \/ \E i \in JobIntervals(j, NeverRead(j, known'), silent') :
               due' = [due EXCEPT ![j] = i] /\ queue' = Without(j)
    BY <1>2 DEF EndJob
  <2> HIDE DEF j
  <2>3. CASE UNCHANGED <<due, queue>>
    BY <2>3 DEF QueueInv
  <2>4. CASE \E i \in JobIntervals(j, NeverRead(j, known'), silent') :
                 due' = [due EXCEPT ![j] = i] /\ queue' = Without(j)
    <3>1. PICK i \in Nat \ {0} : due' = [due EXCEPT ![j] = i] /\ queue' = Without(j)
      BY <2>1, <2>4, IntervalType
    <3> QED BY <2>1, <3>1, MovedQueue
  <2> QED BY <2>2, <2>3, <2>4
<1>3. CASE Tick
  <2> DEFINE S == {j \in Jobs : due[j] = 1}
  <2>1. due' = [j \in Jobs |-> Less(due[j])] /\ queue' = queue \o InOrder(S)
    BY <1>3 DEF Tick
  <2>2. \A t \in Nat : Less(t) = IF t = 0 THEN 0 ELSE t - 1
    BY NoneAssumption DEF Less
  <2>3. due' \in [Jobs -> Nat] /\ \A j \in Jobs : due'[j] = 0 <=> due[j] = 0 \/ j \in S
    <3>1. due \in [Jobs -> Nat]
      BY DEF Inv, Types
    <3>2. \A j \in Jobs : due'[j] = IF due[j] = 0 THEN 0 ELSE due[j] - 1
      BY <2>1, <2>2, <3>1
    <3>3. \A j \in Jobs : due'[j] \in Nat /\ (due'[j] = 0 <=> due[j] = 0 \/ due[j] = 1)
      BY <3>1, <3>2
    <3>4. due' \in [Jobs -> Nat]
      BY <2>1, <3>3
    <3> QED BY <3>3, <3>4
  <2>4. S \in SUBSET Jobs /\ \A j \in S : due[j] # 0
    OBVIOUS
  <2> HIDE DEF S
  <2>5. QueueHolds(queue \o InOrder(S), due')
    BY <2>3, <2>4, JoinHolds DEF QueueInv
  <2> QED BY <2>1, <2>5 DEF QueueInv
<1>4. CASE UNCHANGED queues
  BY <1>4 DEF queues, QueueInv
<1>5. ASSUME ~StartJob, ~Tick, ~(\E outcome \in Outcomes : EndJob(outcome))
      PROVE  UNCHANGED queues
  BY <1>5 DEF Next, vars, queues, Poll, NoJobDue, UpdateRequestRate, SetOptionalEnabled,
     Readback, FallsSilent, Shutdown
<1> QED BY <1>1, <1>2, <1>3, <1>4, <1>5

-----------------------------------------------------------------------------
(* The types                                                               *)

\* What TypeOK says of the variables that Inv leaves out.
StateTypes ==
    /\ job \in {NoJob} \union [job : Jobs, startup : BOOLEAN]
    /\ startup \subseteq Jobs /\ startupTurn \in BOOLEAN
    /\ known \in [Jobs -> {"never", "refused", "read"}]
    /\ hasData \subseteq Rooms /\ silent \subseteq Rooms
    /\ sinceRead \in 0 .. Max(Rates)
    /\ stopped \in BOOLEAN /\ changes \in 0 .. MaxChanges
    /\ lastFirstPass \in BOOLEAN

\* There is a slowest rate.
LEMMA SlowestRate == Max(Rates) \in Nat
<1>1. \E r \in Rates : \A s \in Rates : s <= r
  BY TimesAssumption
<1>2. \E r \in Rates : \A s \in Rates : r >= s
  BY <1>1, TimesAssumption
<1>3. Max(Rates) \in Rates
  BY <1>2 DEF Max
<1> QED BY <1>3, TimesAssumption

\* An optional read only resets the time since the last read.
LEMMA ReadOptionalType ==
    ASSUME NEW allowed, ReadOptional(allowed), sinceRead \in 0 .. Max(Rates)
    PROVE  sinceRead' \in 0 .. Max(Rates)
BY SlowestRate DEF ReadOptional

\* The initial state is well formed.
LEMMA InitTypes == Init => StateTypes
<1> SUFFICES ASSUME Init PROVE StateTypes
  OBVIOUS
<1>1. sinceRead \in 0 .. Max(Rates) /\ changes \in 0 .. MaxChanges
  BY SlowestRate, TimesAssumption DEF Init
<1>2. startupTurn \in BOOLEAN /\ stopped \in BOOLEAN /\ lastFirstPass \in BOOLEAN
  BY Zenon DEF Init
<1> QED BY <1>1, <1>2 DEF Init, StateTypes

\* What is known of a job stays one of three.
LEMMA KnownType ==
    ASSUME known \in [Jobs -> {"never", "refused", "read"}], NEW j \in Jobs, NEW outcome
    PROVE  KnownAfter(j, outcome) \in {"never", "refused", "read"}
BY DEF KnownAfter

\* Every step leaves the state well formed.
LEMMA NextTypes == Inv /\ StateTypes /\ [Next]_vars => StateTypes'
<1> SUFFICES ASSUME Inv, StateTypes, [Next]_vars PROVE StateTypes'
  OBVIOUS
<1>1. Max(Rates) \in Nat /\ MaxChanges \in Nat
  BY SlowestRate, TimesAssumption
<1>2. CASE Poll
  BY <1>2 DEF Poll, StateTypes, queues, units
<1>3. CASE StartJob
  <2>1. PICK j \in Jobs, first \in BOOLEAN :
          /\ Selected = [job |-> j, startup |-> first] /\ job' = Selected
          /\ startup' = IF first THEN startup \ {j} ELSE startup
          /\ startupTurn' = IF startup = {} THEN startupTurn ELSE ~first
          /\ sinceRead' = 0 /\ lastFirstPass' = first
          /\ UNCHANGED <<units, stopped, changes>>
    BY <1>3 DEF StartJob
  <2>2. job' \in [job : Jobs, startup : BOOLEAN]
    BY <2>1
  <2>3. startupTurn' \in BOOLEAN /\ lastFirstPass' \in BOOLEAN
    BY <2>1, Zenon DEF StateTypes
  <2>4. sinceRead' \in 0 .. Max(Rates)
    BY <1>1, <2>1
  <2> QED BY <2>1, <2>2, <2>3, <2>4 DEF StateTypes, units
<1>4. CASE NoJobDue
  <2>1. sinceRead' \in 0 .. Max(Rates)
    BY <1>4, ReadOptionalType DEF NoJobDue, StateTypes
  <2> QED BY <1>4, <2>1 DEF NoJobDue, EndTick, StateTypes, queues, units
<1>5. CASE \E outcome \in Outcomes : EndJob(outcome)
  <2> DEFINE j == job.job
  <2>1. PICK outcome \in Outcomes : EndJob(outcome)
    BY <1>5
  <2>2. j \in Jobs
    BY <2>1 DEF EndJob, Inv, Types
  <2>3. /\ known' = [known EXCEPT ![j] = KnownAfter(j, outcome)]
        /\ \/ hasData' = hasData \union {Room[j]} /\ silent' = silent \ {Room[j]}
           \/ UNCHANGED <<hasData, silent>>
        /\ job' = NoJob
        /\ UNCHANGED <<startup, startupTurn, stopped, changes, lastFirstPass>>
    BY <2>1 DEF EndJob, EndTick
  <2>4. sinceRead' \in 0 .. Max(Rates)
    BY <2>1, ReadOptionalType DEF EndJob, StateTypes
  <2>5. known' \in [Jobs -> {"never", "refused", "read"}]
    BY <2>2, <2>3, KnownType DEF StateTypes
  <2>6. Room[j] \in Rooms
    BY <2>2, JobsAssumption
  <2> HIDE DEF j
  <2> QED BY <2>3, <2>4, <2>5, <2>6 DEF StateTypes
<1>6. CASE \E rate \in Rates : UpdateRequestRate(rate)
  BY <1>1, <1>6 DEF UpdateRequestRate, StateTypes, queues, units
<1>7. CASE SetOptionalEnabled
  BY <1>1, <1>7 DEF SetOptionalEnabled, StateTypes, queues, units
<1>8. CASE Readback
  BY <1>1, <1>8 DEF Readback, StateTypes, queues, units
<1>9. CASE \E r \in Rooms : FallsSilent(r)
  BY <1>9 DEF FallsSilent, StateTypes, queues
<1>10. CASE Shutdown
  BY <1>10 DEF Shutdown, StateTypes, queues, units
<1>11. CASE Tick
  <2>1. sinceRead + 1 \in Nat
    BY <1>1 DEF StateTypes
  <2>2. Min({sinceRead + 1, Max(Rates)}) \in 0 .. Max(Rates)
    BY <1>1, <2>1, MinMaxOfTwo
  <2> QED BY <1>11, <2>2 DEF Tick, StateTypes, units
<1>12. CASE UNCHANGED vars
  BY <1>12 DEF vars, StateTypes
<1> QED
  BY <1>2, <1>3, <1>4, <1>5, <1>6, <1>7, <1>8, <1>9, <1>10, <1>11, <1>12 DEF Next

\* The queue holds exactly the jobs that are due, and every variable keeps its
\* type (select_due_job, build_jobs).
LEMMA TypesTogether == Inv /\ QueueInv /\ StateTypes => TypeOK
<1> SUFFICES ASSUME Inv, QueueInv, StateTypes PROVE TypeOK
  OBVIOUS
<1>1. queue \in Seq(Jobs) /\ {queue[i] : i \in 1 .. Len(queue)} = {j \in Jobs : due[j] = 0}
  BY DEF QueueInv, QueueHolds
<1>2. backoff \in Nat \union {None}
  <2>1. backoff = BackoffSeconds(failures) /\ failures \in Nat /\ BackoffAfter \in Nat
    BY BackoffType, TimesAssumption DEF Inv, Types, BackoffFollowsFailures
  <2>2. CASE failures >= BackoffAfter
    BY <2>1, <2>2, BackoffType
  <2>3. CASE failures < BackoffAfter
    BY <2>1, <2>3 DEF BackoffSeconds
  <2> QED BY <2>1, <2>2, <2>3
<1> QED BY <1>1, <1>2 DEF Inv, Types, StateTypes, TypeOK

\* Polling is always planned: the queue holds exactly the jobs that are due,
\* one tick is ahead and the back-off is the one of the present failures
\* (_async_update_data, _schedule_next_tick, _apply_transport_backoff).
THEOREM PlanHolds == Spec => []PlanConsistent
<1>1. Spec => []QueueInv
  BY InitQueue, NextQueue, Invariance, PTL DEF Spec
<1>2. Spec => []StateTypes
  BY InitTypes, NextTypes, Invariance, PTL DEF Spec
<1>3. Inv /\ QueueInv /\ StateTypes /\ OneTickAhead => PlanConsistent
  BY TypesTogether DEF PlanConsistent, Inv
<1> QED BY <1>1, <1>2, <1>3, Invariance, OneTickAheadHolds, PTL
=============================================================================
