--------------------------- MODULE RoomReadsProofs ---------------------------
(***************************************************************************)
(* The read jobs of a unit, for every set of jobs, components, groups and  *)
(* limits: no group shows a frozen value, what is derived from reads       *)
(* agrees with them, and one lost job turns no available group             *)
(* unavailable.                                                            *)
(***************************************************************************)
EXTENDS RoomReads, TLAPS

-----------------------------------------------------------------------------
(* The inductive invariant                                                 *)

\* The types of the health records, and what TypeOK leaves out: the counters
\* of the bounds, the history, and which components the unit refuses.
TypeInv ==
    /\ TypeOK
    /\ health \in [Groups -> [tried: BOOLEAN, read: BOOLEAN, fails: Nat,
                              error: {None, "timeout", "other"}, age: Nat]]
    /\ since \in [Blocks -> Nat]
    /\ events \in [all: Nat, lost: Nat, refused: Nat]
    /\ refused \subseteq OptionalComponents

\* The placeholders the coordinator counted came in a row, over restarts too.
IssueInv == IssueJustified /\ missing <= row

\* A group that is not too old was recorded by a read of all its blocks.
CurrentInv ==
    \A g \in Groups :
        health[g].read /\ health[g].age <= StaleAfter[g] =>
            \A b \in BlocksOf(g) : since[b] <= health[g].age

NoFault == alive /\ events.lost = 0 /\ events.refused = 0

\* Without faults a read group is one of the profile, none of its components
\* is refused and it was read when its job ran last; any other group that was
\* tried is an optional one.
GroupQuiet(p, g) ==
    /\ health[g].read =>
          /\ health[g].fails = 0
          /\ health[g].age + due[p] <= Interval[p]
          /\ g \in Supported(p)
          /\ \A c \in Due(p) : g \in Feeds[p][c] => c \notin refused
    /\ ~health[g].read /\ health[g].tried => g \in OptionalGroups /\ health[g].error # "timeout"

\* Without faults nothing is paused but what the unit refuses, and the unit
\* answered when the airflow job ran last.
QuietInv ==
    NoFault =>
        /\ ~delayed /\ failures = 0
        /\ \A b \in Blocks : b \notin refused => pauses[b].left = 0
        /\ quiet + due[FlowPlan] <= Interval[FlowPlan]
        /\ \A p \in Plans : \A g \in PlanGroups(p) : GroupQuiet(p, g)

Inv == TypeInv /\ IssueInv /\ DerivedConsistent /\ CurrentInv /\ QuietInv

\* Before a fault no pause of a component the unit has was ever prolonged.
FirstPause == NoFault => \A b \in Blocks : b \notin refused => pauses[b].failures = 0

\* The next turn of the job will be missed, in part or as a whole: the unit
\* pauses, or one of its components does for longer than the job waits.
MissesTurn(p) ==
    \/ delayed /\ due[p] = 0
    \/ \E c \in DOMAIN Feeds[p] : c \notin refused /\ pauses[c].left > due[p]

\* A job misses one turn at most: what it read last is two intervals old at
\* its next turn, and one if that turn will be the missed one.
OnTime(age, p) ==
    /\ age + due[p] <= 2 * Interval[p]
    /\ MissesTurn(p) => age + due[p] <= Interval[p]

OneLost == alive /\ events.lost = 1 /\ events.refused = 0

GroupOnTime(p, g) ==
    health[g].read =>
        /\ health[g].fails <= 1
        /\ OnTime(health[g].age, p)
        /\ g \in Supported(p)
        /\ \A c \in Due(p) : g \in Feeds[p][c] => c \notin refused

\* After one lost job the pauses are first ones and the mode block has none; a
\* job with optional components waits at least as long as its pauses.
ShortPauses ==
    /\ pauses[ModeBlock].left = 0
    /\ \A c \in Components : c \notin refused => pauses[c].left <= ComponentBackoff[1]
    /\ \A p \in Plans : DOMAIN Feeds[p] \intersect OptionalComponents # {} =>
          \A c \in DOMAIN Feeds[p] : c \notin refused => pauses[c].left <= due[p]

LostInv ==
    OneLost =>
        /\ failures <= 1 /\ ShortPauses /\ OnTime(quiet, FlowPlan)
        /\ \A p \in Plans : \A g \in PlanGroups(p) : GroupOnTime(p, g)

FlapInv == FirstPause /\ LostInv

-----------------------------------------------------------------------------
(* Operators                                                               *)

\* Min of two integers.
LEMMA MinOfTwo == \A a, b \in Int : Min({a, b}) = IF a <= b THEN a ELSE b
BY DEF Min

\* None is no answer, no error and no truth value.
LEMMA NoneDiffers ==
    /\ None # "value" /\ None # "exception" /\ None # "silent" /\ None # "placeholder"
    /\ None # "timeout" /\ None # "other" /\ None # TRUE
BY NoneAssumption

\* What the assumptions say of the limits.
LEMMA LimitTypes ==
    /\ FailureThreshold \in Nat \ {0} /\ UnavailableAfter \in Nat \ {0} /\ SilentAfter \in Nat \ {0}
    /\ SilentInterval \in Nat \ {0} /\ IssueAfter \in Nat \ {0}
    /\ MaxAge \in Nat /\ FlowPlan \in Plans
    /\ \A p \in Plans : Interval[p] \in Nat \ {0}
    /\ \A g \in Groups : StaleAfter[g] \in Nat \ {0}
BY LimitsAssumption, PlansAssumption

\* What a group of a plan, of its profile and of a set of components is.
LEMMA GroupMembers ==
    ASSUME NEW p, NEW g, NEW C
    PROVE  /\ g \in GroupsOf(p, C) <=> \E c \in C : g \in Feeds[p][c]
           /\ g \in PlanGroups(p) <=>
                 (\E c \in DOMAIN Feeds[p] : g \in Feeds[p][c]) \/ (p = FlowPlan /\ g \in ModeGroups)
           /\ g \in Supported(p) <=>
                 (\E c \in Due(p) : g \in Feeds[p][c]) \/ (p = FlowPlan /\ g \in ModeGroups)
<1>1. \A D : g \in GroupsOf(p, D) <=> \E c \in D : g \in Feeds[p][c]
  BY DEF GroupsOf
<1>2. g \in (IF p = FlowPlan THEN ModeGroups ELSE {}) <=> p = FlowPlan /\ g \in ModeGroups
  OBVIOUS
<1>3. PlanGroups(p) = GroupsOf(p, DOMAIN Feeds[p]) \union (IF p = FlowPlan THEN ModeGroups ELSE {})
  BY DEF PlanGroups, GroupsOf
<1>4. Supported(p) = GroupsOf(p, Due(p)) \union (IF p = FlowPlan THEN ModeGroups ELSE {})
  BY DEF Supported
<1>5. g \in PlanGroups(p) <=>
          (g \in GroupsOf(p, DOMAIN Feeds[p])) \/ (g \in (IF p = FlowPlan THEN ModeGroups ELSE {}))
  BY <1>3
<1>6. g \in Supported(p) <=>
          (g \in GroupsOf(p, Due(p))) \/ (g \in (IF p = FlowPlan THEN ModeGroups ELSE {}))
  BY <1>4
<1> QED BY <1>1, <1>2, <1>5, <1>6

\* The groups of a plan are groups, and those the profile has are of the plan.
LEMMA PlanGroupsType ==
    ASSUME NEW p \in Plans
    PROVE  /\ PlanGroups(p) \subseteq Groups /\ Supported(p) \subseteq PlanGroups(p)
           /\ Due(p) \subseteq DOMAIN Feeds[p] /\ Due(p) \subseteq Components
           /\ JobReadGroups(p) \subseteq Supported(p)
<1>1. PlanGroups(p) \subseteq Groups
  BY DEF Groups
<1>2. Due(p) \subseteq DOMAIN Feeds[p] /\ Due(p) \subseteq Components
  BY DEF Due, Components
<1>3. Supported(p) \subseteq PlanGroups(p)
  BY <1>2, GroupMembers
<1>4. JobReadGroups(p) \subseteq Supported(p)
  BY DEF JobReadGroups, Supported
<1> QED BY <1>1, <1>2, <1>3, <1>4

\* The blocks of a group are blocks; those that are not the mode block belong
\* to a component of the one plan that reads the group.
LEMMA BlocksOfGroup ==
    ASSUME NEW p \in Plans, NEW g \in PlanGroups(p), NEW b \in BlocksOf(g)
    PROVE  /\ b \in Blocks
           /\ (b \in Due(p) /\ g \in Feeds[p][b]) \/ (b = ModeBlock /\ g \in ModeGroups /\ p = FlowPlan)
<1>1. b \in Blocks
  BY DEF BlocksOf, Blocks
<1>2. CASE \E q \in Plans : b \in Due(q) /\ g \in Feeds[q][b]
  <2>1. PICK q \in Plans : b \in Due(q) /\ g \in Feeds[q][b]
    BY <1>2
  <2>2. g \in PlanGroups(q)
    BY <2>1, PlanGroupsType, GroupMembers
  <2>3. q = p
    BY <2>2, PlansAssumption
  <2> QED BY <1>1, <2>1, <2>3
<1>3. CASE b = ModeBlock /\ g \in ModeGroups
  <2>1. g \in PlanGroups(FlowPlan)
    BY <1>3, GroupMembers
  <2>2. FlowPlan \in Plans
    BY PlansAssumption
  <2>3. p = FlowPlan
    BY <2>1, <2>2, PlansAssumption
  <2> QED BY <1>1, <1>3, <2>3
<1> QED BY <1>2, <1>3 DEF BlocksOf

\* The fields of a health record, of a failed one and of a read one.
LEMMA HealthFields ==
    ASSUME TypeInv, NEW g \in Groups
    PROVE  /\ health[g].tried \in BOOLEAN /\ health[g].read \in BOOLEAN
           /\ health[g].fails \in 0 .. FailureThreshold
           /\ health[g].error \in {None, "timeout", "other"}
           /\ health[g].age \in 0 .. (StaleAfter[g] + 1)
           /\ health[g].read => health[g].tried
BY DEF TypeInv, TypeOK

\* ReadHealth.failed keeps the last read and its age.
LEMMA FailedFields ==
    ASSUME TypeInv, NEW g \in Groups, NEW e \in {"timeout", "other"}
    PROVE  LET r == Failed(health[g], e)
           IN  /\ r.tried = TRUE /\ r.read = health[g].read /\ r.fails \in 0 .. FailureThreshold
               /\ r.error = e /\ r.age = health[g].age
               /\ r \in [tried: BOOLEAN, read: BOOLEAN, fails: 0 .. FailureThreshold,
                         error: {None, "timeout", "other"}, age: 0 .. (StaleAfter[g] + 1)]
               /\ r \in [tried: BOOLEAN, read: BOOLEAN, fails: Nat,
                         error: {None, "timeout", "other"}, age: Nat]
<1> DEFINE r == Failed(health[g], e)
           n == Min({health[g].fails + 1, FailureThreshold})
<1>1. /\ health[g].read \in BOOLEAN /\ health[g].fails \in 0 .. FailureThreshold
      /\ health[g].age \in 0 .. (StaleAfter[g] + 1)
  BY HealthFields
<1>2. FailureThreshold \in Nat \ {0} /\ StaleAfter[g] \in Nat
  BY LimitTypes
<1>3. health[g].fails + 1 \in Int /\ FailureThreshold \in Int
  BY <1>1, <1>2
<1>4. n = IF health[g].fails + 1 <= FailureThreshold THEN health[g].fails + 1 ELSE FailureThreshold
  BY <1>3, MinOfTwo
<1>5. n \in 0 .. FailureThreshold
  BY <1>1, <1>2, <1>4
<1>6. r = [tried |-> TRUE, read |-> health[g].read, fails |-> n, error |-> e, age |-> health[g].age]
  BY DEF Failed
<1> HIDE DEF n, r
<1>7. n \in Nat /\ health[g].age \in Nat
  BY <1>1, <1>2, <1>5
<1>8. r \in [tried: BOOLEAN, read: BOOLEAN, fails: 0 .. FailureThreshold,
             error: {None, "timeout", "other"}, age: 0 .. (StaleAfter[g] + 1)]
  BY <1>1, <1>5, <1>6
<1>9. r \in [tried: BOOLEAN, read: BOOLEAN, fails: Nat, error: {None, "timeout", "other"}, age: Nat]
  BY <1>1, <1>6, <1>7
<1>10. r.tried = TRUE /\ r.read = health[g].read /\ r.fails = n /\ r.error = e /\ r.age = health[g].age
  BY <1>6
<1> QED BY <1>5, <1>8, <1>9, <1>10 DEF r

-----------------------------------------------------------------------------
(* One job                                                                 *)

\* What ReadOneJob chooses: the components that are not backed off, how they
\* are answered, and the answer of the mode block if it is asked for.
Reads(p, C, f, mode) ==
    /\ p \in Plans
    /\ C = {c \in Due(p) : ~BackedOff(c)}
    /\ f \in Polls(C)
    /\ mode \in (IF p # FlowPlan \/ BackedOff(ModeBlock) \/ \E c \in C : f[c] = "silent"
                 THEN {None} ELSE ModeAnswers)

\* A component that was not sent comes after a silent one; if none is silent,
\* each got one of its answers.
LEMMA PollAnswers ==
    ASSUME NEW C, NEW f \in Polls(C)
    PROVE  /\ \A c \in C : f[c] \in {"value", "placeholder", "invalid", "acknowledge", "exception",
                                     "silent", "unsent"}
           /\ \A c \in C : f[c] = "unsent" => \E d \in C : f[d] = "silent"
           /\ (\A c \in C : f[c] # "silent") => \A c \in C : f[c] \in AnswersOf(c)
<1>1. CASE /\ f \in [C -> Delivered \union Refusals \union {"silent", "unsent"}]
           /\ \A c \in C : f[c] \in AnswersOf(c) \union {"unsent"}
           /\ \A c \in C : f[c] = "unsent" <=> \E d \in C : Order[d] < Order[c] /\ f[d] = "silent"
  BY <1>1 DEF Delivered, Refusals
<1>2. CASE /\ f \in [C -> {"silent"}]
           /\ \E c \in C : (\A d \in C : Order[c] <= Order[d]) /\ "silent" \in AnswersOf(c)
  BY <1>2
<1> QED BY <1>1, <1>2 DEF Polls

\* The mode block is asked for, with one of its answers, only by the airflow
\* job and when no component was silent.
LEMMA ModeAnswered ==
    ASSUME NEW p, NEW C, NEW f, NEW mode, Reads(p, C, f, mode)
    PROVE  \/ /\ mode = None
              /\ p # FlowPlan \/ BackedOff(ModeBlock) \/ \E c \in C : f[c] = "silent"
           \/ /\ mode \in {"value", "exception", "silent"} /\ p = FlowPlan /\ ~BackedOff(ModeBlock)
              /\ \A c \in C : f[c] # "silent"
BY DEF Reads, ModeAnswers

\* The parts of a job by groups and answers.
LEMMA JobParts ==
    ASSUME NEW p, NEW C, NEW f, NEW mode, NEW g
    PROVE  LET job == ReadJob(p, C, f, mode)
               late == \E c \in C : f[c] = "silent"
               modeFailed == p = FlowPlan /\ ~BackedOff(ModeBlock) /\ (late \/ mode \in {"exception", "silent"})
           IN  /\ g \in job.errors <=>
                    \/ \E c \in C : /\ f[c] \in {"acknowledge", "exception", "silent", "invalid"}
                                    /\ g \in Feeds[p][c]
                    \/ modeFailed /\ g \in ModeGroups
               /\ g \in job.timeouts => late \/ mode = "silent"
               /\ g \in job.skipped <=>
                    \/ \E c \in Due(p) \ C : g \in Feeds[p][c]
                    \/ \E c \in C : f[c] = "unsent" /\ g \in Feeds[p][c]
                    \/ p = FlowPlan /\ BackedOff(ModeBlock) /\ g \in ModeGroups
               /\ job.silent <=> late \/ mode = "silent"
               /\ job.answered <=> \/ \E c \in C : f[c] \in {"value", "placeholder", "invalid",
                                                             "acknowledge", "exception"}
                                   \/ mode \in {"value", "exception"}
               /\ mode = "value" => job.unit
               /\ job.unit \in BOOLEAN /\ job.silent \in BOOLEAN
<1> DEFINE job == ReadJob(p, C, f, mode)
           lateSet == {c \in C : f[c] = "silent"}
           late == \E c \in C : f[c] = "silent"
           bad == {c \in C : f[c] \in Refusals \union {"silent", "invalid"}}
           good == UnitAnswered(C, f)
           modeFailed == p = FlowPlan /\ ~BackedOff(ModeBlock) /\ (late \/ mode \in {"exception", "silent"})
           modeSilent == modeFailed /\ (late \/ mode = "silent")
           gone == (Due(p) \ C) \union {c \in C : f[c] = "unsent"}
<1>1. lateSet # {} <=> late
  OBVIOUS
<1>2. /\ job.errors = GroupsOf(p, bad) \union (IF modeFailed THEN ModeGroups ELSE {})
      /\ job.timeouts = GroupsOf(p, lateSet) \union (IF modeSilent THEN ModeGroups ELSE {})
      /\ job.skipped = GroupsOf(p, gone)
                       \union (IF p = FlowPlan /\ BackedOff(ModeBlock) THEN ModeGroups ELSE {})
      /\ job.answered = ((\E c \in C : f[c] \in Delivered \union Refusals)
                         \/ mode \in {"value", "exception"})
      /\ job.unit = (good # {} \/ mode = "value")
      /\ job.silent = (lateSet # {} \/ mode = "silent")
  BY <1>1 DEF ReadJob
<1> HIDE DEF job
<1>3. g \in job.errors <=> g \in GroupsOf(p, bad) \/ (modeFailed /\ g \in ModeGroups)
  BY <1>2
<1>4. g \in GroupsOf(p, bad) <=>
          \E c \in C : f[c] \in {"acknowledge", "exception", "silent", "invalid"} /\ g \in Feeds[p][c]
  BY GroupMembers DEF Refusals
<1>5. g \in job.timeouts => late \/ mode = "silent"
  <2>1. g \in job.timeouts => g \in GroupsOf(p, lateSet) \/ modeSilent
    BY <1>2
  <2>2. g \in GroupsOf(p, lateSet) => late
    BY GroupMembers
  <2> QED BY <2>1, <2>2
<1>6. g \in job.skipped <=> g \in GroupsOf(p, gone)
                             \/ (p = FlowPlan /\ BackedOff(ModeBlock) /\ g \in ModeGroups)
  BY <1>2
<1>7. g \in GroupsOf(p, gone) <=> \/ \E c \in Due(p) \ C : g \in Feeds[p][c]
                                  \/ \E c \in C : f[c] = "unsent" /\ g \in Feeds[p][c]
  <2>1. g \in GroupsOf(p, gone) <=> \E c \in gone : g \in Feeds[p][c]
    BY GroupMembers
  <2> QED BY <2>1
<1>8. job.answered <=> \/ \E c \in C : f[c] \in {"value", "placeholder", "invalid",
                                                 "acknowledge", "exception"}
                       \/ mode \in {"value", "exception"}
  BY <1>2 DEF Delivered, Refusals
<1>9. /\ job.silent <=> late \/ mode = "silent"
      /\ mode = "value" => job.unit
      /\ job.unit \in BOOLEAN /\ job.silent \in BOOLEAN
  BY <1>1, <1>2
<1> QED BY <1>3, <1>4, <1>5, <1>6, <1>7, <1>8, <1>9 DEF job

\* A group that a job records without an error had every block of it read.
LEMMA RecordedRead ==
    ASSUME NEW p, NEW C, NEW f, NEW mode, Reads(p, C, f, mode),
           NEW g \in Recorded(p, ReadJob(p, C, f, mode)), g \notin ReadJob(p, C, f, mode).errors
    PROVE  /\ \A c \in Due(p) : g \in Feeds[p][c] => c \in C /\ f[c] \in {"value", "placeholder"}
           /\ \A b \in BlocksOf(g) : \/ b \in C /\ f[b] \in {"value", "placeholder"}
                                     \/ b = ModeBlock /\ mode = "value"
<1> DEFINE job == ReadJob(p, C, f, mode)
<1>1. p \in Plans /\ C \subseteq Due(p) /\ f \in Polls(C)
  BY DEF Reads
<1>2. g \in Supported(p) /\ g \notin job.errors /\ g \notin job.skipped
  BY DEF Recorded
<1>3. ASSUME NEW c \in Due(p), g \in Feeds[p][c]
      PROVE  c \in C /\ f[c] \in {"value", "placeholder"}
  <2>1. c \in C
    BY <1>2, <1>3, JobParts
  <2>2. f[c] \notin {"acknowledge", "exception", "silent", "invalid"}
    BY <1>2, <1>3, <2>1, JobParts
  <2>3. f[c] # "unsent"
    BY <1>2, <1>3, <2>1, JobParts
  <2>4. f[c] \in {"value", "placeholder", "invalid", "acknowledge", "exception", "silent", "unsent"}
    BY <1>1, <2>1, PollAnswers
  <2> QED BY <2>1, <2>2, <2>3, <2>4
<1>4. ASSUME NEW b \in BlocksOf(g)
      PROVE  (b \in C /\ f[b] \in {"value", "placeholder"}) \/ (b = ModeBlock /\ mode = "value")
  <2>1. g \in PlanGroups(p)
    BY <1>1, <1>2, PlanGroupsType
  <2>2. (b \in Due(p) /\ g \in Feeds[p][b]) \/ (b = ModeBlock /\ g \in ModeGroups /\ p = FlowPlan)
    BY <1>1, <2>1, BlocksOfGroup
  <2>3. CASE b \in Due(p) /\ g \in Feeds[p][b]
    BY <1>3, <2>3
  <2>4. CASE b = ModeBlock /\ g \in ModeGroups /\ p = FlowPlan
    <3>1. ~BackedOff(ModeBlock)
      BY <1>2, <2>4, JobParts
    <3>2. ~(\E c \in C : f[c] = "silent") /\ mode \notin {"exception", "silent"}
      BY <1>2, <2>4, <3>1, JobParts
    <3> QED BY <2>4, <3>1, <3>2, ModeAnswered
  <2> QED BY <2>2, <2>3, <2>4
<1> QED BY <1>3, <1>4

\* _updated_read_health, group by group.
LEMMA HealthAfter ==
    ASSUME NEW p, NEW job, health' = UpdatedReadHealth(p, job)
    PROVE  /\ DOMAIN health' = Groups
           /\ \A g \in Groups :
                 /\ g \notin Recorded(p, job) => health'[g] = health[g]
                 /\ g \in Recorded(p, job) /\ g \in job.errors =>
                       health'[g] = Failed(health[g], IF g \in job.timeouts THEN "timeout" ELSE "other")
                 /\ g \in Recorded(p, job) /\ g \notin job.errors => health'[g] = Succeeded
BY DEF UpdatedReadHealth

\* The conjuncts of the types about health records.
HealthTypes ==
    /\ \A g \in Groups :
          /\ health[g] \in [tried: BOOLEAN, read: BOOLEAN, fails: 0..FailureThreshold,
                            error: {None, "timeout", "other"}, age: 0..(StaleAfter[g] + 1)]
          /\ health[g].read => health[g].tried
    /\ health \in [Groups -> [tried: BOOLEAN, read: BOOLEAN, fails: Nat,
                              error: {None, "timeout", "other"}, age: Nat]]

\* The record of a read group has its types.
LEMMA SucceededFields ==
    ASSUME NEW g \in Groups
    PROVE  /\ Succeeded.tried = TRUE /\ Succeeded.read = TRUE /\ Succeeded.fails = 0
           /\ Succeeded.error = None /\ Succeeded.age = 0
           /\ Succeeded \in [tried: BOOLEAN, read: BOOLEAN, fails: 0 .. FailureThreshold,
                             error: {None, "timeout", "other"}, age: 0 .. (StaleAfter[g] + 1)]
           /\ Succeeded \in [tried: BOOLEAN, read: BOOLEAN, fails: Nat,
                             error: {None, "timeout", "other"}, age: Nat]
<1>1. 0 \in 0 .. FailureThreshold /\ 0 \in 0 .. (StaleAfter[g] + 1) /\ 0 \in Nat
  BY LimitTypes
<1>2. Succeeded = [tried |-> TRUE, read |-> TRUE, fails |-> 0, error |-> None, age |-> 0]
  BY DEF Succeeded
<1> QED BY <1>1, <1>2

\* Records that stay, fail or are read keep the types of the health.
LEMMA HealthTyped ==
    ASSUME TypeInv, DOMAIN health' = Groups, health' = [g \in Groups |-> health'[g]],
           \A g \in Groups : \/ health'[g] = health[g] \/ health'[g] = Succeeded
                             \/ \E e \in {"timeout", "other"} : health'[g] = Failed(health[g], e)
    PROVE  HealthTypes'
<1>1. ASSUME NEW g \in Groups
      PROVE  /\ health'[g] \in [tried: BOOLEAN, read: BOOLEAN, fails: 0..FailureThreshold,
                                error: {None, "timeout", "other"}, age: 0..(StaleAfter[g] + 1)]
             /\ health'[g] \in [tried: BOOLEAN, read: BOOLEAN, fails: Nat,
                                error: {None, "timeout", "other"}, age: Nat]
             /\ health'[g].read => health'[g].tried
  <2>1. CASE health'[g] = health[g]
    <3>1. health[g] \in [tried: BOOLEAN, read: BOOLEAN, fails: 0..FailureThreshold,
                         error: {None, "timeout", "other"}, age: 0..(StaleAfter[g] + 1)]
      BY DEF TypeInv, TypeOK
    <3>2. health[g] \in [tried: BOOLEAN, read: BOOLEAN, fails: Nat,
                         error: {None, "timeout", "other"}, age: Nat]
      BY DEF TypeInv
    <3>3. health[g].read => health[g].tried
      BY HealthFields
    <3> QED BY <2>1, <3>1, <3>2, <3>3, Zenon
  <2>2. CASE health'[g] = Succeeded
    BY <2>2, SucceededFields
  <2>3. ASSUME NEW e \in {"timeout", "other"}, health'[g] = Failed(health[g], e)
        PROVE  /\ health'[g] \in [tried: BOOLEAN, read: BOOLEAN, fails: 0..FailureThreshold,
                                  error: {None, "timeout", "other"}, age: 0..(StaleAfter[g] + 1)]
               /\ health'[g] \in [tried: BOOLEAN, read: BOOLEAN, fails: Nat,
                                  error: {None, "timeout", "other"}, age: Nat]
               /\ health'[g].read => health'[g].tried
    <3> DEFINE r == Failed(health[g], e)
    <3>1. r \in [tried: BOOLEAN, read: BOOLEAN, fails: 0..FailureThreshold,
                 error: {None, "timeout", "other"}, age: 0..(StaleAfter[g] + 1)]
      BY FailedFields
    <3>2. r \in [tried: BOOLEAN, read: BOOLEAN, fails: Nat,
                 error: {None, "timeout", "other"}, age: Nat]
      BY FailedFields
    <3>3. r.tried
      BY FailedFields
    <3>4. health'[g] = r
      BY <2>3
    <3> HIDE DEF r
    <3> QED BY <3>1, <3>2, <3>3, <3>4, Zenon
  <2> QED BY <2>1, <2>2, <2>3
<1> QED BY <1>1 DEF HealthTypes

\* What a job leaves of a group's blocks and record keeps CurrentInv: a read
\* sets the time of all its blocks back, anything else lets them be.
LEMMA CurrentKept ==
    ASSUME TypeInv, CurrentInv, hasSensor' = hasSensor,
           \A b \in Blocks : since'[b] = since[b] \/ since'[b] = 0,
           \A g \in Groups :
              \/ health'[g].read = health[g].read /\ health'[g].age = health[g].age
              \/ health'[g].age = 0 /\ \A b \in BlocksOf(g) : since'[b] = 0
    PROVE  CurrentInv'
<1>1. \A g \in Groups : BlocksOf(g)' = BlocksOf(g) /\ BlocksOf(g) \subseteq Blocks
  BY DEF BlocksOf, Due, Blocks
<1>2. \A b \in Blocks : since[b] \in Nat
  BY DEF TypeInv
<1> SUFFICES ASSUME NEW g \in Groups, health'[g].read, health'[g].age <= StaleAfter[g],
                    NEW b \in BlocksOf(g)
             PROVE  since'[b] <= health'[g].age
  BY <1>1 DEF CurrentInv
<1>3. b \in Blocks /\ health[g].age \in Nat
  BY <1>1 DEF TypeInv
<1>4. CASE health'[g].read = health[g].read /\ health'[g].age = health[g].age
  BY <1>2, <1>3, <1>4 DEF CurrentInv
<1>5. CASE health'[g].age = 0 /\ since'[b] = 0
  BY <1>5
<1> QED BY <1>4, <1>5

-----------------------------------------------------------------------------
(* The parts of every job                                                  *)

\* The job is due again after its interval, stretched only for a silent unit.
LEMMA RunJobEffect ==
    ASSUME TypeInv, NEW p \in Plans, RunJob(p)
    PROVE  /\ due' \in [Plans -> Nat]
           /\ quiet <= SilentAfter => due'[p] = Interval[p]
           /\ \A q \in Plans : q # p => due'[q] = due[q]
           /\ due[p] = 0
           /\ alive' = alive /\ refused' = refused /\ sensor' = sensor /\ hasSensor' = hasSensor
<1>1. due \in [Plans -> Nat] /\ quiet \in Nat
  BY LimitTypes DEF TypeInv, TypeOK
<1>2. Interval[p] \in Nat /\ SilentInterval \in Nat
  BY LimitTypes
<1>3. Max({Interval[p], SilentInterval}) \in Nat
  BY <1>2 DEF Max
<1>4. JobInterval(p) \in Nat /\ (quiet <= SilentAfter => JobInterval(p) = Interval[p])
  BY <1>1, <1>2, <1>3, LimitTypes DEF JobInterval
<1>5. due' = [due EXCEPT ![p] = JobInterval(p)] /\ due[p] = 0
  BY DEF RunJob
<1> QED BY <1>1, <1>4, <1>5 DEF RunJob

\* A fault is counted, and without a count there was none.
LEMMA DisturbEffect ==
    ASSUME TypeInv, NEW lost \in BOOLEAN, NEW faulty \in BOOLEAN, Disturb(lost, faulty)
    PROVE  /\ events' \in [all: Nat, lost: Nat, refused: Nat]
           /\ events'.lost = 0 /\ events'.refused = 0 =>
                 events.lost = 0 /\ events.refused = 0 /\ ~lost /\ ~faulty
<1> DEFINE a == IF lost \/ faulty THEN 1 ELSE 0
           l == IF lost THEN 1 ELSE 0
           r == IF faulty /\ ~lost THEN 1 ELSE 0
<1>1. events.all \in Nat /\ events.lost \in Nat /\ events.refused \in Nat
  BY DEF TypeInv
<1>2. events' = [all |-> events.all + a, lost |-> events.lost + l, refused |-> events.refused + r]
  BY DEF Disturb
<1>3. a \in Nat /\ l \in Nat /\ r \in Nat
  OBVIOUS
<1>4. l = 0 /\ r = 0 => ~lost /\ ~faulty
  OBVIOUS
<1> HIDE DEF a, l, r
<1>5. events'.lost = events.lost + l /\ events'.refused = events.refused + r
  BY <1>2
<1>6. events.all + a \in Nat /\ events.lost + l \in Nat /\ events.refused + r \in Nat
  BY <1>1, <1>3
<1>7. events' \in [all: Nat, lost: Nat, refused: Nat]
  BY <1>2, <1>6
<1>8. events'.lost = 0 /\ events'.refused = 0 => events.lost = 0 /\ events.refused = 0 /\ l = 0 /\ r = 0
  <2>1. \A x, y \in Nat : x + y = 0 => x = 0 /\ y = 0
    OBVIOUS
  <2> QED BY <1>1, <1>3, <1>5, <2>1
<1> QED BY <1>4, <1>7, <1>8

\* MissingSensorIssues.record: a notice needs placeholders in a row of a
\* sensor that the profile has.
LEMMA RecordKeepsIssues ==
    ASSUME TypeInv, IssueInv, NEW reading, RecordSensor(reading),
           reading = "placeholder" => hasSensor, hasSensor' = hasSensor
    PROVE  /\ IssueInv' /\ missing' \in 0 .. IssueAfter /\ row' \in 0 .. IssueAfter
           /\ raised' \in BOOLEAN /\ registry' \in {"none", "active", "inactive"}
<1>1. /\ missing \in 0 .. IssueAfter /\ row \in 0 .. IssueAfter /\ missing <= row
      /\ IssueAfter \in Nat \ {0}
  BY LimitTypes DEF TypeInv, TypeOK, IssueInv
<1>2. /\ raised \in BOOLEAN /\ hasSensor \in BOOLEAN
      /\ registry \in {"none", "active", "inactive"} /\ (raised <=> registry = "active")
      /\ raised => hasSensor /\ row >= IssueAfter
  BY DEF TypeInv, TypeOK, IssueInv, IssueJustified
<1>3. CASE reading = "value"
  <2>1. missing' = 0 /\ raised' = FALSE /\ row' = 0
    BY <1>3 DEF RecordSensor, MissingAfter
  <2>2. registry' = IF raised = FALSE THEN registry ELSE "none"
    BY <1>3, <2>1 DEF RecordSensor
  <2>3. registry' # "active" /\ registry' \in {"none", "active", "inactive"}
    BY <1>2, <2>2
  <2>4. missing' \in 0 .. IssueAfter /\ row' \in 0 .. IssueAfter /\ missing' <= row'
    BY <1>1, <2>1
  <2>5. ~raised' /\ raised' \in BOOLEAN
    BY <2>1
  <2> QED BY <2>3, <2>4, <2>5 DEF IssueInv, IssueJustified
<1>4. CASE reading = "placeholder"
  <2> DEFINE m == Min({missing + 1, IssueAfter})
             n == Min({row + 1, IssueAfter})
  <2>1. missing' = m /\ row' = n /\ raised' = (raised \/ missing' >= IssueAfter)
    BY <1>4 DEF RecordSensor, MissingAfter
  <2>2. missing + 1 \in Int /\ row + 1 \in Int /\ IssueAfter \in Int
    BY <1>1
  <2>3. /\ m = (IF missing + 1 <= IssueAfter THEN missing + 1 ELSE IssueAfter)
        /\ n = (IF row + 1 <= IssueAfter THEN row + 1 ELSE IssueAfter)
    BY <2>2, MinOfTwo
  <2> HIDE DEF m, n
  <2>4. /\ missing' \in 0 .. IssueAfter /\ row' \in 0 .. IssueAfter /\ missing' <= row'
        /\ missing' >= IssueAfter => row' >= IssueAfter
        /\ row >= IssueAfter => row' >= IssueAfter
    BY <1>1, <2>1, <2>3
  <2>5. registry' = IF raised' = raised THEN registry ELSE IF raised' THEN "active" ELSE "none"
    BY DEF RecordSensor
  <2>6. raised' \in BOOLEAN /\ (raised => raised') /\ (raised' => raised \/ missing' >= IssueAfter)
    BY <1>2, <2>1
  <2>7. registry' \in {"none", "active", "inactive"} /\ (raised' <=> registry' = "active")
    BY <1>2, <2>5, <2>6
  <2>8. raised' => hasSensor' /\ row' >= IssueAfter
    BY <1>2, <1>4, <2>4, <2>6
  <2> QED BY <2>4, <2>6, <2>7, <2>8 DEF IssueInv, IssueJustified
<1>5. CASE reading # "value" /\ reading # "placeholder"
  <2>1. missing' = missing /\ raised' = raised /\ row' = row
    BY <1>5 DEF RecordSensor, MissingAfter
  <2>2. registry' = registry
    BY <2>1 DEF RecordSensor
  <2> QED BY <1>1, <1>2, <2>1, <2>2 DEF IssueInv, IssueJustified
<1> QED BY <1>3, <1>4, <1>5

\* _fresh_values: the absolute humidity is that of the two values just read.
LEMMA FreshKeepsDerived ==
    ASSUME DerivedConsistent, NEW p, NEW C, NEW f, NEW mode, data' = FreshValues(p, C, f, mode)
    PROVE  DerivedConsistent'
<1> DEFINE t == IF TemperatureComponent \in C /\ f[TemperatureComponent] = "value" THEN "now" ELSE None
           h == IF SensorComponent \in C /\ f[SensorComponent] = "value" THEN "now" ELSE None
           climate == Due(p) \intersect {TemperatureComponent, SensorComponent} # {}
<1>1. CASE climate
  <2>1. data'.absolute = IF None \in {t, h} THEN None ELSE <<t, h>>
    BY <1>1 DEF FreshValues, AbsoluteHumidity
  <2>2. t # None => data'.temperature = t
    BY <1>1 DEF FreshValues
  <2>3. h # None => data'.humidity = h
    BY <1>1 DEF FreshValues
  <2>4. t \in {"now", None} /\ h \in {"now", None}
    OBVIOUS
  <2> HIDE DEF t, h
  <2>5. data'.absolute # None => t # None /\ h # None /\ data'.absolute = <<t, h>>
    BY <2>1
  <2>6. data'.absolute # None => data'.temperature = "now" /\ data'.humidity = "now"
                                 /\ data'.absolute = <<"now", "now">>
    BY <2>2, <2>3, <2>4, <2>5
  <2> QED BY <2>6 DEF DerivedConsistent
<1>2. CASE ~climate
  <2>1. /\ data'.absolute = data.absolute /\ data'.temperature = data.temperature
        /\ data'.humidity = data.humidity
    BY <1>2 DEF FreshValues
  <2> QED BY <2>1 DEF DerivedConsistent
<1> QED BY <1>1, <1>2

\* mark_failure keeps the types of a pause.
LEMMA MarkFailureType ==
    ASSUME NEW b \in [failures: Nat, left: Nat], NEW steps,
           steps = ComponentBackoff \/ steps = ModeBackoff
    PROVE  MarkFailure(b, steps) \in [failures: Nat, left: Nat]
<1> DEFINE n == Min({b.failures + 1, Len(steps)})
<1>1. steps \in Seq(Nat) /\ steps # <<>>
  BY BackoffAssumption
<1>2. Len(steps) \in Nat \ {0} /\ b.failures + 1 \in Nat \ {0}
  BY <1>1
<1>3. n = IF b.failures + 1 <= Len(steps) THEN b.failures + 1 ELSE Len(steps)
  BY <1>2, MinOfTwo
<1> HIDE DEF n
<1>4. n \in 1 .. Len(steps)
  BY <1>2, <1>3
<1>5. steps[n] \in Nat /\ n \in Nat
  BY <1>1, <1>2, <1>4
<1> QED BY <1>5 DEF MarkFailure, n

\* The back-offs after a read, as ReadOneJob has them.
PausesAfter(C, f, mode) ==
    [PausesAfterPoll(C, f) EXCEPT ![ModeBlock] =
        CASE mode = "exception" -> MarkFailure(@, ModeBackoff)
          [] mode = "value" -> NoPause
          [] OTHER -> @]

\* The back-offs after a read: typed, ended by a value, untouched where nothing
\* was asked.
LEMMA PausesAfterRead ==
    ASSUME TypeInv, NEW p, NEW C, NEW f, NEW mode, Reads(p, C, f, mode),
           pauses' = PausesAfter(C, f, mode)
    PROVE  /\ pauses' \in [Blocks -> [failures: Nat, left: Nat]]
           /\ \A b \in C : f[b] \in {"value", "placeholder"} => pauses'[b].left = 0
           /\ \A b \in Components \ C : pauses'[b] = pauses[b]
           /\ mode = "value" => pauses'[ModeBlock].left = 0
           /\ mode = None => pauses'[ModeBlock] = pauses[ModeBlock]
<1> DEFINE P == PausesAfterPoll(C, f)
           m == CASE mode = "exception" -> MarkFailure(P[ModeBlock], ModeBackoff)
                  [] mode = "value" -> NoPause
                  [] OTHER -> P[ModeBlock]
<1>1. pauses \in [Blocks -> [failures: Nat, left: Nat]]
  BY DEF TypeInv, TypeOK
<1>2. C \subseteq Components /\ ModeBlock \notin Components /\ ModeBlock \in Blocks /\ Components \subseteq Blocks
  BY PlanGroupsType, PlansAssumption DEF Reads, Blocks
<1>3. NoPause \in [failures: Nat, left: Nat] /\ NoPause.left = 0
  BY DEF NoPause
<1>4. ASSUME NEW b \in Blocks PROVE P[b] \in [failures: Nat, left: Nat]
  <2>1. pauses[b] \in [failures: Nat, left: Nat]
    BY <1>1
  <2>2. MarkFailure(pauses[b], ComponentBackoff) \in [failures: Nat, left: Nat]
    BY <2>1, MarkFailureType
  <2>3. \/ P[b] = pauses[b] \/ P[b] = MarkFailure(pauses[b], ComponentBackoff) \/ P[b] = NoPause
    BY DEF PausesAfterPoll
  <2> QED BY <1>3, <2>1, <2>2, <2>3, Zenon
<1>5. /\ P = [b \in Blocks |-> P[b]]
      /\ \A b \in C : f[b] \in {"value", "placeholder"} => P[b] = NoPause
      /\ \A b \in Blocks \ C : P[b] = pauses[b]
  BY <1>2 DEF PausesAfterPoll
<1> HIDE DEF P
<1>6. pauses' = [P EXCEPT ![ModeBlock] = m]
  BY DEF P, PausesAfter
<1>7. m \in [failures: Nat, left: Nat]
  <2>1. P[ModeBlock] \in [failures: Nat, left: Nat]
    BY <1>2, <1>4
  <2>2. MarkFailure(P[ModeBlock], ModeBackoff) \in [failures: Nat, left: Nat]
    BY <2>1, MarkFailureType
  <2>3. m = MarkFailure(P[ModeBlock], ModeBackoff) \/ m = NoPause \/ m = P[ModeBlock]
    OBVIOUS
  <2> QED BY <1>3, <2>1, <2>2, <2>3, Zenon
<1>8. (mode = "value" => m = NoPause) /\ (mode = None => m = P[ModeBlock])
  BY NoneDiffers
<1> HIDE DEF m
<1>9. pauses' = [b \in Blocks |-> IF b = ModeBlock THEN m ELSE P[b]]
  BY <1>5, <1>6
<1>10. pauses' \in [Blocks -> [failures: Nat, left: Nat]]
  <2>1. \A b \in Blocks : (IF b = ModeBlock THEN m ELSE P[b]) \in [failures: Nat, left: Nat]
    BY <1>4, <1>7, Zenon
  <2> QED BY <1>9, <2>1, Zenon
<1>11. pauses'[ModeBlock] = m /\ \A b \in Components : pauses'[b] = P[b]
  BY <1>2, <1>9
<1>12. \A b \in C : f[b] \in {"value", "placeholder"} => pauses'[b].left = 0
  BY <1>2, <1>3, <1>5, <1>11
<1>13. \A b \in Components \ C : pauses'[b] = pauses[b]
  BY <1>2, <1>5, <1>11
<1>14. mode = "value" => pauses'[ModeBlock].left = 0
  BY <1>3, <1>8, <1>11
<1>15. mode = None => pauses'[ModeBlock] = pauses[ModeBlock]
  BY <1>2, <1>5, <1>8, <1>11
<1> QED BY <1>10, <1>12, <1>13, <1>14, <1>15

\* One more failure stays within the limit.
LEMMA OneMoreFailure ==
    ASSUME TypeInv
    PROVE  Min({failures + 1, UnavailableAfter}) \in 0 .. UnavailableAfter
<1>1. failures \in 0 .. UnavailableAfter /\ UnavailableAfter \in Nat
  BY LimitTypes DEF TypeInv, TypeOK
<1>2. failures + 1 \in Int /\ UnavailableAfter \in Int
  BY <1>1
<1>3. Min({failures + 1, UnavailableAfter}) =
         IF failures + 1 <= UnavailableAfter THEN failures + 1 ELSE UnavailableAfter
  BY <1>2, MinOfTwo
<1> QED BY <1>1, <1>3

\* read_failures after a job stay within the limit.
LEMMA FailuresType ==
    ASSUME TypeInv, NEW p, NEW job
    PROVE  FailuresAfter(p, job) \in 0 .. UnavailableAfter
<1> DEFINE n == Min({failures + 1, UnavailableAfter})
<1>1. failures \in 0 .. UnavailableAfter /\ 0 \in 0 .. UnavailableAfter
  BY LimitTypes DEF TypeInv, TypeOK
<1>2. n \in 0 .. UnavailableAfter
  BY OneMoreFailure
<1>3. FailuresAfter(p, job) \in {0, failures, n}
  BY DEF FailuresAfter
<1> HIDE DEF n
<1> QED BY <1>1, <1>2, <1>3

\* _log_room_availability keeps the flag Boolean.
LEMMA LoggedType ==
    ASSUME TypeInv, NEW d, NEW n, NEW a, NEW q, LogRoomAvailability(d, n, a, q)
    PROVE  logged' \in BOOLEAN
BY DEF TypeInv, TypeOK, LogRoomAvailability

-----------------------------------------------------------------------------
(* A job without a fault                                                   *)

\* A read of a unit that works, in which no fault is counted.
Clean(p, C, f, mode) ==
    /\ Reads(p, C, f, mode)
    /\ alive /\ pauses[ModeBlock].left = 0
    /\ ~ReadJob(p, C, f, mode).silent
    /\ Undisturbed(C, f) /\ mode # "exception"

\* Nothing of the job is paused but what the unit refuses.
PausesQuiet(p) == \A b \in Due(p) : b \notin refused => pauses[b].left = 0

Faultless(p, C, f, mode) == Clean(p, C, f, mode) /\ PausesQuiet(p)

\* Then every component is answered with a value or refused for good.
LEMMA CleanAnswers ==
    ASSUME TypeInv, NEW p, NEW C, NEW f, NEW mode, Clean(p, C, f, mode)
    PROVE  /\ \A c \in C : \/ c \notin refused /\ f[c] \in {"value", "placeholder"}
                           \/ c \in refused /\ f[c] = "exception"
           /\ p = FlowPlan => mode = "value" /\ \A c \in Due(p) : c \notin refused
           /\ p # FlowPlan => mode = None
<1>1. /\ p \in Plans /\ C = {c \in Due(p) : ~BackedOff(c)} /\ f \in Polls(C)
      /\ Reads(p, C, f, mode)
  BY DEF Clean, Reads
<1>2. refused \subseteq OptionalComponents /\ alive /\ Undisturbed(C, f) /\ pauses[ModeBlock].left = 0
  BY DEF TypeInv, Clean
<1>3. ~(\E c \in C : f[c] = "silent") /\ mode # "silent" /\ mode # "exception"
  <2>1. ~ReadJob(p, C, f, mode).silent /\ mode # "exception"
    BY DEF Clean
  <2> QED BY <2>1, JobParts
<1>4. ASSUME NEW c \in C
      PROVE  \/ c \notin refused /\ f[c] \in {"value", "placeholder"}
             \/ c \in refused /\ f[c] = "exception"
  <2>1. f[c] \in AnswersOf(c)
    BY <1>1, <1>3, <1>4, PollAnswers
  <2>2. CASE c \in refused
    BY <2>1, <2>2 DEF AnswersOf
  <2>3. CASE c \notin refused
    <3>1. f[c] # "unsent"
      BY <1>1, <1>3, <1>4, PollAnswers
    <3>2. f[c] \in {"value", "placeholder"} \/ ~alive \/ f[c] = "unsent"
      BY <1>2, <1>4, <2>3 DEF Undisturbed
    <3> QED BY <1>2, <2>3, <3>1, <3>2
  <2> QED BY <2>2, <2>3
<1>5. ASSUME p = FlowPlan PROVE mode = "value" /\ \A c \in Due(p) : c \notin refused
  <2>1. ~BackedOff(ModeBlock)
    BY <1>2 DEF BackedOff
  <2>2. mode \in {"value", "exception", "silent"}
    BY <1>1, <1>3, <1>5, <2>1, ModeAnswered
  <2>3. \A c \in Due(p) : c \notin OptionalComponents
    BY <1>1, <1>5, PlanGroupsType, PlansAssumption
  <2> QED BY <1>2, <1>3, <2>2, <2>3
<1>6. ASSUME p # FlowPlan PROVE mode = None
  BY <1>1, <1>6, ModeAnswered
<1> QED BY <1>4, <1>5, <1>6

\* Errors then come from refused components, and the skipped groups from
\* those that are backed off.
LEMMA CleanJob ==
    ASSUME TypeInv, NEW p, NEW C, NEW f, NEW mode, Clean(p, C, f, mode), NEW g
    PROVE  LET job == ReadJob(p, C, f, mode)
           IN  /\ g \in job.errors <=> \E c \in C : c \in refused /\ g \in Feeds[p][c]
               /\ g \notin job.timeouts
               /\ g \in job.skipped <=> \E c \in Due(p) \ C : g \in Feeds[p][c]
<1> DEFINE job == ReadJob(p, C, f, mode)
<1>1. /\ \A c \in C : \/ c \notin refused /\ f[c] \in {"value", "placeholder"}
                      \/ c \in refused /\ f[c] = "exception"
      /\ mode = "value" \/ mode = None
      /\ p = FlowPlan => mode = "value"
  BY CleanAnswers
<1>2. mode \notin {"exception", "silent"} /\ ~\E c \in C : f[c] \in {"silent", "unsent"}
  BY <1>1, NoneDiffers
<1>3. g \in job.errors <=> \E c \in C : c \in refused /\ g \in Feeds[p][c]
  <2>1. g \in job.errors <=>
          \E c \in C : f[c] \in {"acknowledge", "exception", "silent", "invalid"} /\ g \in Feeds[p][c]
    BY <1>2, JobParts
  <2>2. \A c \in C : f[c] \in {"acknowledge", "exception", "silent", "invalid"} <=> c \in refused
    BY <1>1
  <2> QED BY <2>1, <2>2
<1>4. g \notin job.timeouts
  BY <1>2, JobParts
<1>5. ~BackedOff(ModeBlock)
  BY DEF Clean, BackedOff
<1>6. g \in job.skipped <=> \E c \in Due(p) \ C : g \in Feeds[p][c]
  BY <1>2, <1>5, JobParts
<1> QED BY <1>3, <1>4, <1>6

\* With nothing else paused, every component the unit has is read.
LEMMA FaultlessAnswers ==
    ASSUME TypeInv, NEW p, NEW C, NEW f, NEW mode, Faultless(p, C, f, mode)
    PROVE  /\ \A c \in C : \/ c \notin refused /\ f[c] \in {"value", "placeholder"}
                           \/ c \in refused /\ f[c] = "exception"
           /\ \A c \in Due(p) : c \notin refused => c \in C
           /\ p = FlowPlan => mode = "value" /\ \A c \in Due(p) : c \notin refused
           /\ p # FlowPlan => mode = None
<1>1. Clean(p, C, f, mode) /\ PausesQuiet(p)
  BY DEF Faultless
<1>2. C = {c \in Due(p) : ~BackedOff(c)}
  BY <1>1 DEF Clean, Reads
<1>3. \A c \in Due(p) : c \notin refused => c \in C
  BY <1>1, <1>2 DEF PausesQuiet, BackedOff
<1> QED BY <1>1, <1>3, CleanAnswers

\* The errors of such a job are those of refused components, the skipped
\* groups those of refused components that are backed off.
LEMMA FaultlessJob ==
    ASSUME TypeInv, NEW p, NEW C, NEW f, NEW mode, Faultless(p, C, f, mode), NEW g
    PROVE  LET job == ReadJob(p, C, f, mode)
           IN  /\ g \in job.errors <=> \E c \in C : c \in refused /\ g \in Feeds[p][c]
               /\ g \notin job.timeouts
               /\ g \in job.skipped <=> \E c \in Due(p) \ C : c \in refused /\ g \in Feeds[p][c]
               /\ g \in job.errors \union job.skipped => g \in OptionalGroups /\ p # FlowPlan
<1> DEFINE job == ReadJob(p, C, f, mode)
<1>1. p \in Plans /\ C \subseteq Due(p) /\ Due(p) \subseteq DOMAIN Feeds[p] /\ refused \subseteq OptionalComponents
  BY PlanGroupsType DEF Faultless, Clean, Reads, TypeInv
<1>2. \A c \in Due(p) : c \notin refused => c \in C
  BY FaultlessAnswers
<1>3. /\ g \in job.errors <=> \E c \in C : c \in refused /\ g \in Feeds[p][c]
      /\ g \notin job.timeouts
      /\ g \in job.skipped <=> \E c \in Due(p) \ C : g \in Feeds[p][c]
  <2>1. Clean(p, C, f, mode)
    BY DEF Faultless
  <2> QED BY <2>1, CleanJob
<1>4. g \in job.skipped <=> \E c \in Due(p) \ C : c \in refused /\ g \in Feeds[p][c]
  BY <1>2, <1>3
<1>5. ASSUME g \in job.errors \union job.skipped PROVE g \in OptionalGroups /\ p # FlowPlan
  <2>1. PICK c \in Due(p) : c \in refused /\ g \in Feeds[p][c]
    BY <1>1, <1>3, <1>4, <1>5
  <2>2. c \in DOMAIN Feeds[p] \intersect OptionalComponents
    BY <1>1, <2>1
  <2> QED BY <1>1, <2>1, <2>2, PlansAssumption
<1> QED BY <1>3, <1>4, <1>5

\* It counts no failed read of the room: if all recorded groups failed, the
\* unit refused diagnostics and the job has no others.
LEMMA FaultlessFailures ==
    ASSUME TypeInv, NEW p, NEW C, NEW f, NEW mode, Faultless(p, C, f, mode)
    PROVE  FailuresAfter(p, ReadJob(p, C, f, mode)) \in {0, failures}
<1> DEFINE job == ReadJob(p, C, f, mode)
           recorded == JobReadGroups(p) \intersect Recorded(p, job)
           failed == recorded # {} /\ recorded \subseteq job.errors
<1>1. p \in Plans /\ C \subseteq Due(p)
  BY DEF Faultless, Clean, Reads
<1>2. ASSUME failed PROVE job.answered /\ Supported(p) \subseteq OptionalGroups
  <2>1. PICK g \in recorded : g \in job.errors
    BY <1>2
  <2>2. PICK c \in C : c \in refused /\ g \in Feeds[p][c]
    BY <2>1, FaultlessJob
  <2>3. f[c] = "exception" /\ p # FlowPlan
    BY <2>1, <2>2, FaultlessAnswers, FaultlessJob
  <2>4. job.answered
    <3>1. \E d \in C : f[d] \in {"value", "placeholder", "invalid", "acknowledge", "exception"}
      BY <2>3
    <3> QED BY <3>1, JobParts
  <2>5. JobReadGroups(p) = Supported(p)
    BY <2>3 DEF JobReadGroups
  <2>6. ASSUME NEW h \in Supported(p) PROVE h \in OptionalGroups
    <3>1. CASE h \in job.errors \/ h \in job.skipped
      BY <3>1, FaultlessJob
    <3>2. CASE h \notin job.errors /\ h \notin job.skipped
      <4>1. h \in Recorded(p, job)
        BY <3>2 DEF Recorded
      <4>2. h \in recorded
        BY <2>5, <4>1
      <4> QED BY <1>2, <3>2, <4>2
    <3> QED BY <3>1, <3>2
  <2> QED BY <2>4, <2>6
<1>3. CASE failed
  <2>1. job.answered /\ Supported(p) \subseteq OptionalGroups
    BY <1>2, <1>3
  <2> HIDE DEF job
  <2>2. FailuresAfter(p, job) \in {0, failures}
    BY <1>3, <2>1 DEF FailuresAfter
  <2> QED BY <2>2 DEF job
<1>4. CASE ~failed
  <2> HIDE DEF job
  <2>1. FailuresAfter(p, job) \in {0, failures}
    BY <1>4 DEF FailuresAfter
  <2> QED BY <2>1 DEF job
<1> QED BY <1>3, <1>4

\* The records of every group after such a job.
LEMMA FaultlessGroups ==
    ASSUME TypeInv, NEW p, NEW C, NEW f, NEW mode, Faultless(p, C, f, mode), RunJob(p),
           health' = UpdatedReadHealth(p, ReadJob(p, C, f, mode)), quiet <= SilentAfter,
           \A q \in Plans : \A g \in PlanGroups(q) : GroupQuiet(q, g)
    PROVE  \A q \in Plans : \A g \in PlanGroups(q) : GroupQuiet(q, g)'
<1> DEFINE job == ReadJob(p, C, f, mode)
<1>1. p \in Plans /\ C \subseteq Due(p) /\ Reads(p, C, f, mode)
  BY DEF Faultless, Clean, Reads
<1>2. /\ due' \in [Plans -> Nat] /\ due'[p] = Interval[p] /\ hasSensor' = hasSensor /\ refused' = refused
      /\ \A q \in Plans : q # p => due'[q] = due[q]
  BY <1>1, RunJobEffect
<1>3. \A q : Due(q)' = Due(q) /\ Supported(q)' = Supported(q)
  BY <1>2 DEF Due, Supported, GroupsOf
<1> SUFFICES ASSUME NEW q \in Plans, NEW g \in PlanGroups(q) PROVE GroupQuiet(q, g)'
  OBVIOUS
<1>4. g \in Groups /\ GroupQuiet(q, g)
  BY PlanGroupsType
<1>5. ASSUME health'[g] = health[g], due'[q] = due[q] PROVE GroupQuiet(q, g)'
  BY <1>2, <1>3, <1>4, <1>5 DEF GroupQuiet
<1>6. CASE q # p
  <2>1. g \notin PlanGroups(p)
    BY <1>1, <1>6, PlansAssumption
  <2>2. g \notin Recorded(p, job)
    BY <1>1, <2>1, PlanGroupsType DEF Recorded
  <2>3. health'[g] = health[g]
    BY <1>4, <2>2, HealthAfter
  <2> QED BY <1>2, <1>5, <1>6, <2>3
<1>7. CASE q = p /\ g \in Recorded(p, job) /\ g \in job.errors
  <2>1. PICK c \in C : c \in refused /\ g \in Feeds[p][c]
    BY <1>7, FaultlessJob
  <2>2. ~health[g].read
    BY <1>1, <1>4, <1>7, <2>1 DEF GroupQuiet
  <2>3. g \notin job.timeouts /\ g \in OptionalGroups
    BY <1>7, FaultlessJob
  <2>4. health'[g] = Failed(health[g], "other")
    BY <1>4, <1>7, <2>3, HealthAfter
  <2>5. ~health'[g].read /\ health'[g].error = "other"
    BY <1>4, <2>2, <2>4, FailedFields
  <2> QED BY <2>3, <2>5 DEF GroupQuiet
<1>8. CASE q = p /\ g \in Recorded(p, job) /\ g \notin job.errors
  <2>1. health'[g] = Succeeded
    BY <1>4, <1>8, HealthAfter
  <2>2. health'[g].read /\ health'[g].fails = 0 /\ health'[g].age = 0
    BY <1>4, <2>1, SucceededFields
  <2>3. g \in Supported(p)
    BY <1>8 DEF Recorded
  <2>4. \A c \in Due(p) : g \in Feeds[p][c] => c \notin refused
    BY <1>1, <1>8, RecordedRead, FaultlessAnswers
  <2>5. Interval[p] \in Nat
    BY <1>1, LimitTypes
  <2>6. health'[g].age + due'[q] <= Interval[q]
    BY <1>2, <1>8, <2>2, <2>5
  <2> QED BY <1>2, <1>3, <1>8, <2>2, <2>3, <2>4, <2>6 DEF GroupQuiet
<1>9. CASE q = p /\ g \notin Recorded(p, job)
  <2>1. health'[g] = health[g]
    BY <1>4, <1>9, HealthAfter
  <2>2. ~health[g].read
    <3>1. SUFFICES ASSUME health[g].read PROVE FALSE
      OBVIOUS
    <3>2. g \in Supported(p) /\ \A c \in Due(p) : g \in Feeds[p][c] => c \notin refused
      BY <1>4, <1>9, <3>1 DEF GroupQuiet
    <3>3. g \in job.skipped
      BY <1>9, <3>2 DEF Recorded
    <3> QED BY <3>2, <3>3, FaultlessJob
  <2> QED BY <1>4, <2>1, <2>2 DEF GroupQuiet
<1> QED BY <1>6, <1>7, <1>8, <1>9

\* A counted fault ends the promise; without one the read was faultless and
\* QuietInv holds after it.
LEMMA ReadKeepsQuiet ==
    ASSUME Inv, NEW p, NEW C, NEW f, NEW mode, Reads(p, C, f, mode), RunJob(p), ~delayed,
           Disturb(alive /\ ReadJob(p, C, f, mode).silent, ~Undisturbed(C, f) \/ mode = "exception"),
           health' = UpdatedReadHealth(p, ReadJob(p, C, f, mode)),
           pauses' = PausesAfter(C, f, mode),
           delayed' = ReadJob(p, C, f, mode).silent,
           quiet' = (IF ReadJob(p, C, f, mode).unit THEN 0 ELSE quiet),
           failures' = FailuresAfter(p, ReadJob(p, C, f, mode))
    PROVE  QuietInv'
<1> DEFINE job == ReadJob(p, C, f, mode)
           faulty == ~Undisturbed(C, f) \/ mode = "exception"
<1>0. TypeInv /\ QuietInv /\ p \in Plans
  BY DEF Inv, Reads
<1> SUFFICES ASSUME NoFault'
             PROVE  (/\ ~delayed /\ failures = 0
                     /\ \A b \in Blocks : b \notin refused => pauses[b].left = 0
                     /\ quiet + due[FlowPlan] <= Interval[FlowPlan]
                     /\ \A q \in Plans : \A g \in PlanGroups(q) : GroupQuiet(q, g))'
  BY DEF QuietInv
<1>1. /\ alive' = alive /\ refused' = refused /\ hasSensor' = hasSensor /\ due[p] = 0
      /\ due' \in [Plans -> Nat] /\ \A q \in Plans : q # p => due'[q] = due[q]
      /\ quiet <= SilentAfter => due'[p] = Interval[p]
  BY <1>0, RunJobEffect
<1>2. job.silent \in BOOLEAN /\ job.unit \in BOOLEAN /\ (mode = "value" => job.unit)
  BY JobParts
<1>3. NoFault /\ ~(alive /\ job.silent) /\ ~faulty
  <2>1. events'.lost = 0 /\ events'.refused = 0 /\ alive
    BY <1>1 DEF NoFault
  <2>2. (alive /\ job.silent) \in BOOLEAN /\ faulty \in BOOLEAN
    BY <2>1, <1>2
  <2>3. Disturb(alive /\ job.silent, faulty)
    OBVIOUS
  <2> HIDE DEF job, faulty
  <2>4. events.lost = 0 /\ events.refused = 0 /\ ~(alive /\ job.silent) /\ ~faulty
    BY <1>0, <2>1, <2>2, <2>3, DisturbEffect
  <2> QED BY <2>1, <2>4 DEF NoFault
<1>4. /\ failures = 0 /\ quiet + due[FlowPlan] <= Interval[FlowPlan]
      /\ \A b \in Blocks : b \notin refused => pauses[b].left = 0
      /\ \A q \in Plans : \A g \in PlanGroups(q) : GroupQuiet(q, g)
  BY <1>0, <1>3 DEF QuietInv
<1>5. ~job.silent /\ Undisturbed(C, f) /\ mode # "exception" /\ alive
  BY <1>3 DEF NoFault
<1>6. Faultless(p, C, f, mode)
  <2>1. Due(p) \subseteq Blocks /\ ModeBlock \in Blocks /\ ModeBlock \notin refused
    BY <1>0, PlanGroupsType, PlansAssumption DEF Blocks, TypeInv
  <2> QED BY <1>4, <1>5, <2>1 DEF Faultless, Clean, PausesQuiet
<1>7. quiet \in Nat /\ due[FlowPlan] \in Nat /\ Interval[FlowPlan] \in Nat /\ Interval[FlowPlan] <= SilentAfter
      /\ SilentAfter \in Nat
  BY <1>0, LimitTypes, LimitsAssumption DEF TypeInv, TypeOK
<1>8. quiet <= SilentAfter
  BY <1>4, <1>7
<1>9. ~delayed' /\ failures' = 0
  BY <1>0, <1>4, <1>5, <1>6, FaultlessFailures
<1>10. \A q \in Plans : \A g \in PlanGroups(q) : GroupQuiet(q, g)'
  BY <1>0, <1>4, <1>6, <1>8, FaultlessGroups
<1>11. quiet' + due'[FlowPlan] <= Interval[FlowPlan]
  <2>1. CASE p = FlowPlan
    <3>1. mode = "value"
      BY <1>0, <1>6, <2>1, FaultlessAnswers
    <3>2. quiet' = 0 /\ due'[FlowPlan] = Interval[FlowPlan]
      BY <1>1, <1>2, <1>8, <2>1, <3>1
    <3> QED BY <1>7, <3>2
  <2>2. CASE p # FlowPlan
    <3>1. due'[FlowPlan] = due[FlowPlan]
      BY <1>1, <2>2, LimitTypes
    <3>2. quiet' = 0 \/ quiet' = quiet
      OBVIOUS
    <3> QED BY <1>4, <1>7, <3>1, <3>2
  <2> QED BY <2>1, <2>2
<1>p. /\ \A b \in C : f[b] \in {"value", "placeholder"} => pauses'[b].left = 0
      /\ \A b \in Components \ C : pauses'[b] = pauses[b]
      /\ mode = "value" => pauses'[ModeBlock].left = 0
      /\ mode = None => pauses'[ModeBlock] = pauses[ModeBlock]
  BY <1>0, PausesAfterRead
<1>12. ASSUME NEW b \in Blocks, b \notin refused PROVE pauses'[b].left = 0
  <2>1. pauses[b].left = 0
    BY <1>4, <1>12
  <2>2. CASE b \in C
    <3>1. f[b] \in {"value", "placeholder"}
      BY <1>0, <1>6, <1>12, <2>2, FaultlessAnswers
    <3> QED BY <1>p, <2>2, <3>1
  <2>3. CASE b \in Components \ C
    BY <1>p, <2>1, <2>3
  <2>4. CASE b = ModeBlock
    <3>1. mode = "value" \/ mode = None
      BY <1>0, <1>6, FaultlessAnswers
    <3> QED BY <1>p, <2>1, <2>4, <3>1
  <2> QED BY <2>2, <2>3, <2>4 DEF Blocks
<1> QED BY <1>1, <1>9, <1>10, <1>11, <1>12

-----------------------------------------------------------------------------
(* Every step preserves the invariant                                      *)

\* The type invariant after a step, from its parts.
LEMMA TypesTogether ==
    ASSUME HealthTypes', due' \in [Plans -> Nat], quiet' \in 0 .. (SilentAfter + 1),
           failures' \in 0 .. UnavailableAfter, pauses' \in [Blocks -> [failures: Nat, left: Nat]],
           delayed' \in BOOLEAN, answered' \in BOOLEAN, logged' \in BOOLEAN, raised' \in BOOLEAN,
           hasSensor' \in BOOLEAN, alive' \in BOOLEAN, sensor' \in BOOLEAN,
           missing' \in 0 .. IssueAfter, row' \in 0 .. IssueAfter,
           registry' \in {"none", "active", "inactive"}, refused' \subseteq OptionalComponents,
           since' \in [Blocks -> Nat], events' \in [all: Nat, lost: Nat, refused: Nat]
    PROVE  TypeInv'
<1>1. {delayed', answered', logged', raised', hasSensor', alive', sensor'} \subseteq BOOLEAN
  BY Zenon
<1>2. refused' \subseteq Components
  BY PlansAssumption
<1>3. /\ \A g \in Groups :
          /\ health'[g] \in [tried: BOOLEAN, read: BOOLEAN, fails: 0..FailureThreshold,
                            error: {None, "timeout", "other"}, age: 0..(StaleAfter[g] + 1)]
          /\ health'[g].read => health'[g].tried
      /\ health' \in [Groups -> [tried: BOOLEAN, read: BOOLEAN, fails: Nat,
                                 error: {None, "timeout", "other"}, age: Nat]]
  BY DEF HealthTypes
<1> QED BY <1>1, <1>2, <1>3, Zenon DEF TypeInv, TypeOK

\* The types of the variables, one by one.
LEMMA TypesApart ==
    ASSUME TypeInv
    PROVE  /\ HealthTypes /\ due \in [Plans -> Nat] /\ quiet \in 0 .. (SilentAfter + 1)
           /\ failures \in 0 .. UnavailableAfter /\ pauses \in [Blocks -> [failures: Nat, left: Nat]]
           /\ delayed \in BOOLEAN /\ answered \in BOOLEAN /\ logged \in BOOLEAN /\ raised \in BOOLEAN
           /\ hasSensor \in BOOLEAN /\ alive \in BOOLEAN /\ sensor \in BOOLEAN
           /\ missing \in 0 .. IssueAfter /\ row \in 0 .. IssueAfter
           /\ registry \in {"none", "active", "inactive"} /\ refused \subseteq OptionalComponents
           /\ since \in [Blocks -> Nat] /\ events \in [all: Nat, lost: Nat, refused: Nat]
BY Zenon DEF TypeInv, TypeOK, HealthTypes

\* Nothing was read, nothing is paused and nothing is raised at the start.
LEMMA InitInv == Init => Inv
<1> SUFFICES ASSUME Init PROVE Inv
  OBVIOUS
<1>1. \A g \in Groups : health[g] = NeverRead
  BY DEF Init
<1>2. NeverRead.read = FALSE /\ NeverRead.tried = FALSE
  BY DEF NeverRead
<1>3. HealthTypes
  <2>1. 0 \in 0 .. FailureThreshold /\ \A g \in Groups : 0 \in 0 .. (StaleAfter[g] + 1)
    BY LimitTypes
  <2>2. NeverRead = [tried |-> FALSE, read |-> FALSE, fails |-> 0, error |-> None, age |-> 0]
    BY DEF NeverRead
  <2>3. \A g \in Groups : NeverRead \in [tried: BOOLEAN, read: BOOLEAN, fails: 0..FailureThreshold,
                            error: {None, "timeout", "other"}, age: 0..(StaleAfter[g] + 1)]
    BY <2>1, <2>2
  <2>4. NeverRead \in [tried: BOOLEAN, read: BOOLEAN, fails: Nat,
                       error: {None, "timeout", "other"}, age: Nat]
    BY <2>2
  <2>5. health = [g \in Groups |-> NeverRead]
    BY DEF Init
  <2> HIDE DEF NeverRead
  <2> QED BY <1>1, <1>2, <2>3, <2>4, <2>5 DEF HealthTypes
<1>4. NoPause \in [failures: Nat, left: Nat] /\ NoPause.left = 0
  BY DEF NoPause
<1>5. TypeInv
  <2>1. /\ due \in [Plans -> Nat] /\ quiet = 0 /\ failures = 0 /\ missing = 0 /\ row = 0
        /\ registry = "none" /\ since \in [Blocks -> Nat]
    BY LimitTypes DEF Init
  <2>2. pauses \in [Blocks -> [failures: Nat, left: Nat]]
    BY <1>4 DEF Init
  <2>3. quiet \in 0 .. (SilentAfter + 1) /\ failures \in 0 .. UnavailableAfter
        /\ missing \in 0 .. IssueAfter /\ row \in 0 .. IssueAfter
    BY <2>1, LimitTypes
  <2>4. {delayed, answered, logged, raised, hasSensor, alive, sensor} \subseteq BOOLEAN
    BY DEF Init
  <2>5. refused \subseteq OptionalComponents /\ refused \subseteq Components
    BY PlansAssumption DEF Init
  <2>6. events \in [all: Nat, lost: Nat, refused: Nat]
    BY DEF Init
  <2> QED BY <1>3, <2>1, <2>2, <2>3, <2>4, <2>5, <2>6, Zenon DEF TypeInv, TypeOK, HealthTypes
<1>6. IssueInv
  BY DEF Init, IssueInv, IssueJustified
<1>7. DerivedConsistent
  BY DEF Init, DerivedConsistent, NoData
<1>8. CurrentInv
  BY <1>1, <1>2 DEF CurrentInv
<1>9. QuietInv
  <2>1. \A p \in Plans : \A g \in PlanGroups(p) : GroupQuiet(p, g)
    BY <1>1, <1>2, PlanGroupsType DEF GroupQuiet
  <2>2. quiet = 0 /\ due[FlowPlan] = 0 /\ Interval[FlowPlan] \in Nat
    BY LimitTypes DEF Init
  <2>3. ~delayed /\ failures = 0 /\ \A b \in Blocks : pauses[b].left = 0
    BY <1>4 DEF Init
  <2> QED BY <2>1, <2>2, <2>3 DEF QuietInv
<1> QED BY <1>5, <1>6, <1>7, <1>8, <1>9 DEF Inv

\* What a read with these answers changes, as ReadOneJob has it.
Does(p, C, f, mode) ==
    LET job == ReadJob(p, C, f, mode)
    IN  /\ Disturb(alive /\ job.silent, ~Undisturbed(C, f) \/ mode = "exception")
        /\ health' = UpdatedReadHealth(p, job)
        /\ pauses' = PausesAfter(C, f, mode)
        /\ delayed' = job.silent
        /\ quiet' = (IF job.unit THEN 0 ELSE quiet)
        /\ answered' = (answered \/ job.unit)
        /\ data' = FreshValues(p, C, f, mode)
        /\ failures' = FailuresAfter(p, job)
        /\ LogRoomAvailability(data', failures', answered', quiet')
        /\ RecordSensor(IF SensorComponent \in C THEN f[SensorComponent] ELSE None)
        /\ since' = [b \in Blocks |->
                        IF (b \in C /\ f[b] \in {"value", "placeholder"})
                           \/ (b = ModeBlock /\ mode = "value")
                        THEN 0 ELSE since[b]]

\* _read_one_job, with any answers.
LEMMA ReadOneJobInv ==
    ASSUME Inv, NEW p \in Plans, ReadOneJob(p)
    PROVE  Inv'
<1> DEFINE C == {c \in Due(p) : ~BackedOff(c)}
<1>0. PICK f \in Polls(C) : \E mode \in (IF p # FlowPlan \/ BackedOff(ModeBlock)
                                           \/ \E c \in C : f[c] = "silent"
                                        THEN {None} ELSE ModeAnswers) : Does(p, C, f, mode)
  BY DEF ReadOneJob, PausesAfter, Does
<1>1. PICK mode \in (IF p # FlowPlan \/ BackedOff(ModeBlock) \/ \E c \in C : f[c] = "silent"
                     THEN {None} ELSE ModeAnswers) :
         Does(p, C, f, mode)
  BY <1>0
<1>a. LET job == ReadJob(p, C, f, mode)
      IN  /\ Disturb(alive /\ job.silent, ~Undisturbed(C, f) \/ mode = "exception")
          /\ health' = UpdatedReadHealth(p, job)
          /\ pauses' = PausesAfter(C, f, mode)
          /\ delayed' = job.silent
          /\ quiet' = (IF job.unit THEN 0 ELSE quiet)
          /\ answered' = (answered \/ job.unit)
          /\ data' = FreshValues(p, C, f, mode)
          /\ failures' = FailuresAfter(p, job)
          /\ LogRoomAvailability(data', failures', answered', quiet')
          /\ RecordSensor(IF SensorComponent \in C THEN f[SensorComponent] ELSE None)
          /\ since' = [b \in Blocks |->
                             IF (b \in C /\ f[b] \in {"value", "placeholder"})
                                \/ (b = ModeBlock /\ mode = "value")
                             THEN 0 ELSE since[b]]
  BY <1>1 DEF Does
<1>2. Reads(p, C, f, mode) /\ RunJob(p) /\ ~delayed
  BY <1>1 DEF Reads, ReadOneJob
<1> DEFINE job == ReadJob(p, C, f, mode)
           reading == IF SensorComponent \in C THEN f[SensorComponent] ELSE None
<1>3. TypeInv /\ IssueInv /\ DerivedConsistent /\ CurrentInv /\ QuietInv
  BY DEF Inv
<1>4. /\ due' \in [Plans -> Nat] /\ alive' = alive /\ refused' = refused /\ sensor' = sensor
      /\ hasSensor' = hasSensor
  BY <1>2, <1>3, RunJobEffect
<1>5. job.silent \in BOOLEAN /\ job.unit \in BOOLEAN
  BY JobParts
<1>6. reading = "placeholder" => hasSensor
  <2>1. reading = "placeholder" => SensorComponent \in Due(p)
    BY NoneDiffers
  <2> QED BY <2>1 DEF Due
<1>7. \A g \in Groups : \/ health'[g] = health[g] \/ health'[g] = Succeeded
                        \/ \E e \in {"timeout", "other"} : health'[g] = Failed(health[g], e)
  <2>1. health' = UpdatedReadHealth(p, job)
    BY <1>a
  <2> HIDE DEF job
  <2> QED BY <2>1, HealthAfter
<1>8. HealthTypes'
  <2>1. health' = UpdatedReadHealth(p, job)
    BY <1>a
  <2> HIDE DEF job
  <2>2. DOMAIN health' = Groups /\ health' = [g \in Groups |-> health'[g]]
    BY <2>1 DEF UpdatedReadHealth
  <2> QED BY <1>3, <1>7, <2>2, HealthTyped
<1>9. IssueInv' /\ missing' \in 0 .. IssueAfter /\ row' \in 0 .. IssueAfter
      /\ raised' \in BOOLEAN /\ registry' \in {"none", "active", "inactive"}
  <2>1. RecordSensor(reading)
    BY <1>a
  <2> HIDE DEF reading
  <2> QED BY <1>3, <1>4, <1>6, <2>1, RecordKeepsIssues
<1>10. TypeInv'
  <2>1. quiet' \in 0 .. (SilentAfter + 1) /\ failures' \in 0 .. UnavailableAfter
    <3>1. quiet \in 0 .. (SilentAfter + 1) /\ 0 \in 0 .. (SilentAfter + 1)
      BY <1>3, TypesApart, LimitTypes
    <3>2. quiet' = 0 \/ quiet' = quiet
      BY <1>a
    <3> QED BY <1>a, <1>3, <3>1, <3>2, FailuresType
  <2>2. pauses' \in [Blocks -> [failures: Nat, left: Nat]]
    BY <1>a, <1>2, <1>3, PausesAfterRead
  <2>3. delayed' \in BOOLEAN /\ answered' \in BOOLEAN
    BY <1>a, <1>5
  <2>4. logged' \in BOOLEAN
    BY <1>a, <1>3, LoggedType
  <2>5. since' \in [Blocks -> Nat]
    <3>1. since \in [Blocks -> Nat]
      BY <1>3, TypesApart
    <3> QED BY <1>a, <3>1
  <2>6. events' \in [all: Nat, lost: Nat, refused: Nat]
    <3> DEFINE lost == alive /\ job.silent
               faulty == ~Undisturbed(C, f) \/ mode = "exception"
    <3>1. lost \in BOOLEAN /\ faulty \in BOOLEAN
      OBVIOUS
    <3>2. Disturb(lost, faulty)
      BY <1>a
    <3> HIDE DEF lost, faulty
    <3> QED BY <1>3, <3>1, <3>2, DisturbEffect
  <2>7. hasSensor' \in BOOLEAN /\ alive' \in BOOLEAN /\ sensor' \in BOOLEAN
        /\ refused' \subseteq OptionalComponents
    BY <1>3, <1>4, TypesApart, Zenon
  <2> QED BY <1>4, <1>8, <1>9, <2>1, <2>2, <2>3, <2>4, <2>5, <2>6, <2>7, TypesTogether, Zenon
<1>11. DerivedConsistent'
  BY <1>a, <1>3, FreshKeepsDerived
<1>12. CurrentInv'
  <2>1. \A b \in Blocks : since'[b] = since[b] \/ since'[b] = 0
    BY <1>a
  <2>2. ASSUME NEW g \in Groups
        PROVE  \/ health'[g].read = health[g].read /\ health'[g].age = health[g].age
               \/ health'[g].age = 0 /\ \A b \in BlocksOf(g) : since'[b] = 0
    <3>1. CASE g \notin Recorded(p, job) \/ g \in job.errors
      <4>1. \/ health'[g] = health[g]
            \/ \E e \in {"timeout", "other"} : health'[g] = Failed(health[g], e)
        <5>1. health' = UpdatedReadHealth(p, job)
          BY <1>a
        <5> HIDE DEF job
        <5> QED BY <3>1, <5>1, HealthAfter
      <4>2. \A e \in {"timeout", "other"} :
              /\ Failed(health[g], e).read = health[g].read
              /\ Failed(health[g], e).age = health[g].age
        BY <1>3, FailedFields
      <4>3. CASE health'[g] = health[g]
        BY <4>3
      <4>4. CASE \E e \in {"timeout", "other"} : health'[g] = Failed(health[g], e)
        BY <4>2, <4>4
      <4> QED BY <4>1, <4>3, <4>4
    <3>2. CASE g \in Recorded(p, job) /\ g \notin job.errors
      <4>1. health'[g] = Succeeded
        BY <1>a, <3>2, HealthAfter
      <4>2. health'[g].age = 0
        BY <4>1, SucceededFields
      <4>3. \A b \in BlocksOf(g) : \/ b \in C /\ f[b] \in {"value", "placeholder"}
                                   \/ b = ModeBlock /\ mode = "value"
        BY <1>2, <3>2, RecordedRead
      <4>4. BlocksOf(g) \subseteq Blocks
        BY DEF BlocksOf, Blocks
      <4>5. \A b \in BlocksOf(g) : since'[b] = 0
        BY <1>a, <4>3, <4>4
      <4> QED BY <4>2, <4>5
    <3> QED BY <3>1, <3>2
  <2> QED BY <1>3, <1>4, <2>1, <2>2, CurrentKept
<1>13. QuietInv'
  BY <1>a, <1>2, ReadKeepsQuiet
<1> QED BY <1>9, <1>10, <1>11, <1>12, <1>13 DEF Inv

\* A job that the pause of the unit leaves out.
LEMMA SkipJobInv ==
    ASSUME Inv, NEW p \in Plans, SkipJob(p)
    PROVE  Inv'
<1>1. TypeInv /\ IssueInv /\ DerivedConsistent /\ CurrentInv /\ QuietInv
  BY DEF Inv
<1>2. /\ delayed /\ RunJob(p) /\ LogRoomAvailability(data, failures, answered, quiet)
      /\ health' = health /\ pauses' = pauses /\ delayed' = delayed /\ quiet' = quiet
      /\ answered' = answered /\ failures' = failures /\ data' = data /\ since' = since
      /\ missing' = missing /\ raised' = raised /\ registry' = registry /\ row' = row
      /\ events' = events
  BY DEF SkipJob, issues
<1>3. /\ due' \in [Plans -> Nat] /\ alive' = alive /\ refused' = refused /\ sensor' = sensor
      /\ hasSensor' = hasSensor
  BY <1>1, <1>2, RunJobEffect
<1>4. logged' \in BOOLEAN
  BY <1>1, <1>2, LoggedType
<1>5. TypeInv'
  <2>1. HealthTypes'
    BY <1>1, <1>2, TypesApart DEF HealthTypes
  <2> QED BY <1>1, <1>2, <1>3, <1>4, <2>1, TypesApart, TypesTogether, Zenon
<1>6. IssueInv' /\ DerivedConsistent'
  BY <1>1, <1>2, <1>3 DEF IssueInv, IssueJustified, DerivedConsistent
<1>7. CurrentInv'
  BY <1>1, <1>2, <1>3, CurrentKept
<1>8. QuietInv'
  BY <1>1, <1>2, <1>3 DEF QuietInv, NoFault
<1> QED BY <1>5, <1>6, <1>7, <1>8 DEF Inv

\* record_read_failures: a job that the link lost.
LEMMA LostJobInv ==
    ASSUME Inv, NEW p \in Plans, LostJob(p)
    PROVE  Inv'
<1> DEFINE C == {c \in Due(p) : ~BackedOff(c)}
<1>1. TypeInv /\ IssueInv /\ DerivedConsistent /\ CurrentInv /\ QuietInv
  BY DEF Inv
<1>2. /\ RunJob(p) /\ Disturb(TRUE, TRUE) /\ delayed' = TRUE
      /\ health' = [g \in Groups |-> IF g \in Supported(p) THEN Failed(health[g], "other") ELSE health[g]]
      /\ failures' = Min({failures + 1, UnavailableAfter})
      /\ LogRoomAvailability(data, failures', answered, quiet)
      /\ quiet' = quiet /\ answered' = answered /\ data' = data /\ since' = since
      /\ missing' = missing /\ raised' = raised /\ registry' = registry /\ row' = row
  BY DEF LostJob, issues
<1>3. /\ due' \in [Plans -> Nat] /\ alive' = alive /\ refused' = refused /\ sensor' = sensor
      /\ hasSensor' = hasSensor
  BY <1>1, <1>2, RunJobEffect
<1>4. \A g \in Groups : health'[g] = health[g] \/ health'[g] = Failed(health[g], "other")
  BY <1>2
<1>5. HealthTypes'
  <2>1. DOMAIN health' = Groups /\ health' = [g \in Groups |-> health'[g]]
    BY <1>2
  <2> QED BY <1>1, <1>4, <2>1, HealthTyped
<1>6. pauses' \in [Blocks -> [failures: Nat, left: Nat]]
  <2>1. PICK cleared \in {C, {}} :
            pauses' = [b \in Blocks |-> IF b \in cleared THEN NoPause ELSE pauses[b]]
    BY DEF LostJob
  <2>2. NoPause \in [failures: Nat, left: Nat] /\ pauses \in [Blocks -> [failures: Nat, left: Nat]]
    BY <1>1, TypesApart DEF NoPause
  <2> QED BY <2>1, <2>2
<1>7. /\ events' \in [all: Nat, lost: Nat, refused: Nat]
      /\ ~(events'.lost = 0 /\ events'.refused = 0)
  BY <1>1, <1>2, DisturbEffect
<1>8. failures' \in 0 .. UnavailableAfter /\ logged' \in BOOLEAN
  BY <1>1, <1>2, OneMoreFailure, LoggedType
<1>9. TypeInv'
  <2>1. delayed' \in BOOLEAN
    BY <1>2
  <2> QED BY <1>1, <1>2, <1>3, <1>5, <1>6, <1>7, <1>8, <2>1, TypesApart, TypesTogether, Zenon
<1>10. IssueInv' /\ DerivedConsistent'
  BY <1>1, <1>2, <1>3 DEF IssueInv, IssueJustified, DerivedConsistent
<1>11. CurrentInv'
  <2>1. \A g \in Groups : health'[g].read = health[g].read /\ health'[g].age = health[g].age
    BY <1>1, <1>4, FailedFields
  <2> QED BY <1>1, <1>2, <1>3, <2>1, CurrentKept
<1>12. QuietInv'
  BY <1>7 DEF QuietInv, NoFault
<1> QED BY <1>9, <1>10, <1>11, <1>12 DEF Inv

\* One more step of time, up to a limit.
LEMMA OlderType ==
    ASSUME NEW n \in Nat, NEW limit \in Nat
    PROVE  /\ Older(n, limit) \in 0 .. limit /\ Older(n, limit) <= n + 1
           /\ Older(n, limit) < limit => Older(n, limit) = n + 1
<1>1. n + 1 \in Int /\ limit \in Int
  OBVIOUS
<1>2. Older(n, limit) = IF n + 1 <= limit THEN n + 1 ELSE limit
  BY <1>1, MinOfTwo DEF Older
<1> QED BY <1>2

\* A record grows older by one, as far as it matters, if it was ever read.
LEMMA AgedFields ==
    ASSUME TypeInv, NEW g \in Groups
    PROVE  LET r == IF health[g].read
                    THEN [health[g] EXCEPT !.age = Older(@, StaleAfter[g] + 1)] ELSE health[g]
           IN  /\ r.tried = health[g].tried /\ r.read = health[g].read /\ r.fails = health[g].fails
               /\ r.error = health[g].error
               /\ r.age \in 0 .. (StaleAfter[g] + 1) /\ r.age <= health[g].age + 1
               /\ r.read /\ r.age <= StaleAfter[g] => r.age = health[g].age + 1
               /\ r \in [tried: BOOLEAN, read: BOOLEAN, fails: 0 .. FailureThreshold,
                         error: {None, "timeout", "other"}, age: 0 .. (StaleAfter[g] + 1)]
               /\ r \in [tried: BOOLEAN, read: BOOLEAN, fails: Nat,
                         error: {None, "timeout", "other"}, age: Nat]
<1> DEFINE h == health[g]
           a == IF h.read THEN Older(h.age, StaleAfter[g] + 1) ELSE h.age
           r == IF h.read THEN [h EXCEPT !.age = Older(@, StaleAfter[g] + 1)] ELSE h
<1>1. StaleAfter[g] \in Nat /\ StaleAfter[g] + 1 \in Nat /\ FailureThreshold \in Nat
  BY LimitTypes
<1>2. /\ h.tried \in BOOLEAN /\ h.read \in BOOLEAN /\ h.fails \in 0 .. FailureThreshold
      /\ h.error \in {None, "timeout", "other"} /\ h.age \in 0 .. (StaleAfter[g] + 1)
  BY HealthFields
<1>3. h = [tried |-> h.tried, read |-> h.read, fails |-> h.fails, error |-> h.error, age |-> h.age]
  BY DEF TypeInv
<1>4. h.age \in Nat /\ h.fails \in Nat
  BY <1>1, <1>2
<1> HIDE DEF h
<1>5. r = [tried |-> h.tried, read |-> h.read, fails |-> h.fails, error |-> h.error, age |-> a]
  BY <1>3
<1>6. /\ a \in 0 .. (StaleAfter[g] + 1) /\ a <= h.age + 1
      /\ h.read /\ a <= StaleAfter[g] => a = h.age + 1
  <2>1. CASE h.read
    <3>1. a = Older(h.age, StaleAfter[g] + 1)
      BY <2>1
    <3> HIDE DEF a
    <3>2. /\ a \in 0 .. (StaleAfter[g] + 1) /\ a <= h.age + 1
          /\ a < StaleAfter[g] + 1 => a = h.age + 1
      BY <1>1, <1>4, <3>1, OlderType
    <3> QED BY <1>1, <3>2
  <2>2. CASE ~h.read
    BY <1>1, <1>2, <2>2
  <2> QED BY <2>1, <2>2
<1> HIDE DEF a, r
<1>7. a \in Nat
  BY <1>1, <1>6
<1>8. /\ r.tried = h.tried /\ r.read = h.read /\ r.fails = h.fails /\ r.error = h.error /\ r.age = a
  BY <1>5
<1>9. r \in [tried: BOOLEAN, read: BOOLEAN, fails: 0 .. FailureThreshold,
             error: {None, "timeout", "other"}, age: 0 .. (StaleAfter[g] + 1)]
  BY <1>2, <1>5, <1>6
<1>10. r \in [tried: BOOLEAN, read: BOOLEAN, fails: Nat, error: {None, "timeout", "other"}, age: Nat]
  BY <1>2, <1>4, <1>5, <1>7
<1> QED BY <1>6, <1>8, <1>9, <1>10 DEF r, h

\* Time goes on by one step for jobs, records, pauses and blocks alike.
LEMMA TickInv ==
    ASSUME Inv, Tick
    PROVE  Inv'
<1>1. TypeInv /\ IssueInv /\ DerivedConsistent /\ CurrentInv /\ QuietInv
  BY DEF Inv
<1>2. /\ \A p \in Plans : due[p] > 0
      /\ due' = [p \in Plans |-> due[p] - 1]
      /\ health' = [g \in Groups |->
                       IF health[g].read
                       THEN [health[g] EXCEPT !.age = Older(@, StaleAfter[g] + 1)] ELSE health[g]]
      /\ pauses' = [b \in Blocks |-> [pauses[b] EXCEPT !.left = IF @ = 0 THEN 0 ELSE @ - 1]]
      /\ delayed' = FALSE /\ quiet' = Older(quiet, SilentAfter + 1)
      /\ since' = [b \in Blocks |-> Older(since[b], MaxAge)]
      /\ answered' = answered /\ failures' = failures /\ logged' = logged /\ data' = data
      /\ missing' = missing /\ raised' = raised /\ registry' = registry /\ row' = row
      /\ alive' = alive /\ refused' = refused /\ sensor' = sensor /\ hasSensor' = hasSensor
      /\ events' = events
  BY DEF Tick, issues, world
<1>3. due \in [Plans -> Nat] /\ \A p \in Plans : due'[p] = due[p] - 1 /\ due'[p] \in Nat
  BY <1>1, <1>2, TypesApart
<1>4. ASSUME NEW g \in Groups
      PROVE  /\ health'[g].tried = health[g].tried /\ health'[g].read = health[g].read
             /\ health'[g].fails = health[g].fails /\ health'[g].error = health[g].error
             /\ health'[g].age \in Nat /\ health'[g].age <= health[g].age + 1
             /\ health'[g].read /\ health'[g].age <= StaleAfter[g] => health'[g].age = health[g].age + 1
             /\ health'[g] \in [tried: BOOLEAN, read: BOOLEAN, fails: 0 .. FailureThreshold,
                                error: {None, "timeout", "other"}, age: 0 .. (StaleAfter[g] + 1)]
             /\ health'[g] \in [tried: BOOLEAN, read: BOOLEAN, fails: Nat,
                                error: {None, "timeout", "other"}, age: Nat]
  <2> DEFINE r == IF health[g].read
                  THEN [health[g] EXCEPT !.age = Older(@, StaleAfter[g] + 1)] ELSE health[g]
  <2>1. health'[g] = r
    BY <1>2
  <2>2. /\ r.tried = health[g].tried /\ r.read = health[g].read /\ r.fails = health[g].fails
        /\ r.error = health[g].error /\ r.age \in 0 .. (StaleAfter[g] + 1)
        /\ r.age <= health[g].age + 1
        /\ r.read /\ r.age <= StaleAfter[g] => r.age = health[g].age + 1
        /\ r \in [tried: BOOLEAN, read: BOOLEAN, fails: 0 .. FailureThreshold,
                  error: {None, "timeout", "other"}, age: 0 .. (StaleAfter[g] + 1)]
        /\ r \in [tried: BOOLEAN, read: BOOLEAN, fails: Nat,
                  error: {None, "timeout", "other"}, age: Nat]
    BY <1>1, AgedFields
  <2> HIDE DEF r
  <2>3. r.age \in Nat
    BY <2>2, LimitTypes
  <2> QED BY <2>1, <2>2, <2>3, Zenon
<1>5. HealthTypes'
  <2>1. \A g \in Groups : health[g].read => health[g].tried
    BY <1>1, HealthFields
  <2>2. \A g \in Groups : health'[g].read => health'[g].tried
    BY <1>4, <2>1
  <2>3. health' = [g \in Groups |-> health'[g]]
    BY <1>2
  <2> QED BY <1>4, <2>2, <2>3, Zenon DEF HealthTypes
<1>6. pauses' \in [Blocks -> [failures: Nat, left: Nat]] /\ \A b \in Blocks : pauses[b].left = 0 => pauses'[b].left = 0
  <2>1. pauses \in [Blocks -> [failures: Nat, left: Nat]]
    BY <1>1, TypesApart
  <2>2. ASSUME NEW b \in Blocks
        PROVE  /\ pauses'[b] \in [failures: Nat, left: Nat]
               /\ pauses[b].left = 0 => pauses'[b].left = 0
    <3> DEFINE l == IF pauses[b].left = 0 THEN 0 ELSE pauses[b].left - 1
    <3>1. pauses[b] \in [failures: Nat, left: Nat]
      BY <2>1
    <3>2. l \in Nat /\ (pauses[b].left = 0 => l = 0) /\ pauses[b].failures \in Nat
      BY <3>1
    <3>3. pauses'[b] = [failures |-> pauses[b].failures, left |-> l]
      BY <1>2, <3>1
    <3> HIDE DEF l
    <3> QED BY <3>2, <3>3
  <2>3. pauses' = [b \in Blocks |-> pauses'[b]]
    BY <1>2
  <2> QED BY <2>2, <2>3
<1>7. /\ quiet \in Nat /\ quiet' \in 0 .. (SilentAfter + 1) /\ quiet' <= quiet + 1
  <2>1. quiet \in Nat /\ SilentAfter + 1 \in Nat
    BY <1>1, TypesApart, LimitTypes
  <2> QED BY <1>2, <2>1, OlderType
<1>8. since' \in [Blocks -> Nat] /\ \A b \in Blocks : since[b] \in Nat /\ since'[b] \in Nat /\ since'[b] <= since[b] + 1
  <2>1. since \in [Blocks -> Nat] /\ MaxAge \in Nat
    BY <1>1, TypesApart, LimitTypes
  <2>2. ASSUME NEW b \in Blocks
        PROVE  since[b] \in Nat /\ since'[b] \in Nat /\ since'[b] <= since[b] + 1
    <3>1. since[b] \in Nat /\ since'[b] = Older(since[b], MaxAge)
      BY <1>2, <2>1
    <3> DEFINE o == Older(since[b], MaxAge)
    <3>2. o \in 0 .. MaxAge /\ o <= since[b] + 1
      BY <2>1, <3>1, OlderType
    <3>3. since'[b] = o
      BY <3>1
    <3> HIDE DEF o
    <3> QED BY <2>1, <3>1, <3>2, <3>3
  <2> QED BY <1>2, <2>2
<1>9. TypeInv'
  <2>1. delayed' \in BOOLEAN /\ due' \in [Plans -> Nat]
    BY <1>2, <1>3
  <2> QED BY <1>1, <1>2, <1>5, <1>6, <1>7, <1>8, <2>1, TypesApart, TypesTogether, Zenon
<1>10. IssueInv' /\ DerivedConsistent'
  BY <1>1, <1>2 DEF IssueInv, IssueJustified, DerivedConsistent
<1>11. CurrentInv'
  <2>1. \A g \in Groups : BlocksOf(g)' = BlocksOf(g) /\ BlocksOf(g) \subseteq Blocks
    BY <1>2 DEF BlocksOf, Due, Blocks
  <2> SUFFICES ASSUME NEW g \in Groups, health'[g].read, health'[g].age <= StaleAfter[g],
                      NEW b \in BlocksOf(g)
               PROVE  since'[b] <= health'[g].age
    BY <2>1 DEF CurrentInv
  <2>2. health'[g].age = health[g].age + 1 /\ health[g].read
    BY <1>4
  <2>3. health[g].age \in Nat /\ StaleAfter[g] \in Nat
    BY <1>1, HealthFields, LimitTypes
  <2>4. since[b] <= health[g].age
    BY <1>1, <2>2, <2>3 DEF CurrentInv
  <2>5. b \in Blocks
    BY <2>1
  <2> QED BY <1>8, <2>2, <2>3, <2>4, <2>5
<1>12. QuietInv'
  <2> SUFFICES ASSUME NoFault' PROVE QuietInv'
    BY DEF QuietInv
  <2>1. NoFault
    BY <1>2 DEF NoFault
  <2>2. /\ failures = 0 /\ quiet + due[FlowPlan] <= Interval[FlowPlan]
        /\ \A b \in Blocks : b \notin refused => pauses[b].left = 0
        /\ \A p \in Plans : \A g \in PlanGroups(p) : GroupQuiet(p, g)
    BY <1>1, <2>1 DEF QuietInv
  <2>3. quiet' + due'[FlowPlan] <= Interval[FlowPlan]
    <3>1. /\ FlowPlan \in Plans /\ Interval[FlowPlan] \in Nat /\ due[FlowPlan] \in Nat
          /\ due'[FlowPlan] = due[FlowPlan] - 1 /\ quiet' \in Nat
      BY <1>3, <1>7, LimitTypes
    <3> QED BY <1>7, <2>2, <3>1
  <2>4. \A p : Supported(p)' = Supported(p) /\ Due(p)' = Due(p)
    BY <1>2 DEF Due, Supported, GroupsOf
  <2>5. ASSUME NEW p \in Plans, NEW g \in PlanGroups(p) PROVE GroupQuiet(p, g)'
    <3>1. g \in Groups /\ GroupQuiet(p, g)
      BY <2>2, PlanGroupsType
    <3>2. /\ health'[g].tried = health[g].tried /\ health'[g].read = health[g].read
          /\ health'[g].fails = health[g].fails /\ health'[g].error = health[g].error
          /\ health'[g].age \in Nat /\ health'[g].age <= health[g].age + 1
      BY <1>4, <3>1
    <3>3. /\ health[g].age \in Nat /\ due[p] \in Nat /\ due'[p] = due[p] - 1 /\ due'[p] \in Nat
          /\ Interval[p] \in Nat
      BY <1>1, <1>3, <3>1, HealthFields, LimitTypes
    <3>4. health[g].age + due[p] <= Interval[p] => health'[g].age + due'[p] <= Interval[p]
      BY <3>2, <3>3
    <3> QED BY <1>2, <2>4, <3>1, <3>2, <3>4 DEF GroupQuiet
  <2> QED BY <1>2, <1>6, <2>2, <2>3, <2>5 DEF QuietInv
<1> QED BY <1>9, <1>10, <1>11, <1>12 DEF Inv

\* The pause ends, the unit dies or its sensor changes: reads and notices stay.
LEMMA OthersInv ==
    ASSUME Inv, PauseEnds \/ Dies \/ SensorChanges \/ UNCHANGED vars
    PROVE  Inv'
<1>1. TypeInv /\ IssueInv /\ DerivedConsistent /\ CurrentInv /\ QuietInv
  BY DEF Inv
<1>2. /\ due' = due /\ health' = health /\ pauses' = pauses /\ quiet' = quiet /\ answered' = answered
      /\ failures' = failures /\ logged' = logged /\ data' = data /\ since' = since
      /\ missing' = missing /\ raised' = raised /\ registry' = registry /\ row' = row
      /\ refused' = refused /\ hasSensor' = hasSensor
  BY DEF PauseEnds, Dies, SensorChanges, vars, reads, issues, world
<1>3. delayed' = FALSE \/ delayed' = delayed
  BY DEF PauseEnds, Dies, SensorChanges, vars, reads
<1>4. (alive' = FALSE \/ alive' = alive) /\ (sensor' = ~sensor \/ sensor' = sensor)
  BY DEF PauseEnds, Dies, SensorChanges, vars, world
<1>5. events' \in [all: Nat, lost: Nat, refused: Nat] /\ events'.lost = events.lost
      /\ events'.refused = events.refused
  <2>1. events \in [all: Nat, lost: Nat, refused: Nat]
    BY <1>1, TypesApart
  <2>2. events' = events \/ events' = [events EXCEPT !.all = @ + 1]
    BY DEF PauseEnds, Dies, SensorChanges, Change, vars
  <2> QED BY <2>1, <2>2
<1>6. TypeInv'
  <2>1. delayed' \in BOOLEAN /\ alive' \in BOOLEAN /\ sensor' \in BOOLEAN
    BY <1>1, <1>3, <1>4, TypesApart, Zenon
  <2>2. HealthTypes'
    BY <1>1, <1>2, TypesApart DEF HealthTypes
  <2> QED BY <1>1, <1>2, <1>5, <2>1, <2>2, TypesApart, TypesTogether, Zenon
<1>7. IssueInv' /\ DerivedConsistent'
  BY <1>1, <1>2 DEF IssueInv, IssueJustified, DerivedConsistent
<1>8. CurrentInv'
  BY <1>1, <1>2, CurrentKept
<1>9. QuietInv'
  <2> SUFFICES ASSUME NoFault' PROVE QuietInv'
    BY DEF QuietInv
  <2>1. NoFault
    BY <1>4, <1>5 DEF NoFault
  <2>2. \A p : Supported(p)' = Supported(p) /\ Due(p)' = Due(p)
    BY <1>2 DEF Due, Supported, GroupsOf
  <2>3. \A p \in Plans : \A g \in PlanGroups(p) : GroupQuiet(p, g)' <=> GroupQuiet(p, g)
    BY <1>2, <2>2 DEF GroupQuiet
  <2> QED BY <1>1, <1>2, <1>3, <2>1, <2>3 DEF QuietInv
<1> QED BY <1>6, <1>7, <1>8, <1>9 DEF Inv

\* A reload starts from nothing; a notice stays with the coordinator that takes
\* it over, and only for a sensor of the profile.
LEMMA ReloadInv ==
    ASSUME Inv, NEW fitted \in BOOLEAN, NEW restart \in BOOLEAN, Reload(fitted, restart)
    PROVE  Inv'
<1> DEFINE reg == IF restart /\ registry = "active" THEN "inactive" ELSE registry
<1>1. TypeInv /\ IssueInv
  BY DEF Inv
<1>2. /\ due' = [p \in Plans |-> 0] /\ health' = [g \in Groups |-> NeverRead]
      /\ pauses' = [b \in Blocks |-> NoPause] /\ delayed' = FALSE /\ quiet' = 0
      /\ answered' = FALSE /\ failures' = 0 /\ logged' = FALSE /\ data' = NoData
      /\ since' = [b \in Blocks |-> MaxAge] /\ hasSensor' = fitted
      /\ alive' = alive /\ refused' = refused /\ sensor' = sensor /\ row' = row
      /\ events' = [events EXCEPT !.all = @ + 1]
  BY DEF Reload, Change
<1>3. /\ registry' = (IF fitted THEN reg ELSE "none")
      /\ raised' = (fitted /\ reg = "active")
      /\ missing' = (IF raised' THEN IssueAfter ELSE 0)
  BY DEF Reload, RestoreIssues
<1>4. NeverRead = [tried |-> FALSE, read |-> FALSE, fails |-> 0, error |-> None, age |-> 0]
      /\ NeverRead.read = FALSE /\ NeverRead.tried = FALSE
  BY DEF NeverRead
<1>5. HealthTypes'
  <2>1. 0 \in 0 .. FailureThreshold /\ \A g \in Groups : 0 \in 0 .. (StaleAfter[g] + 1)
    BY LimitTypes
  <2>2. \A g \in Groups : NeverRead \in [tried: BOOLEAN, read: BOOLEAN, fails: 0..FailureThreshold,
                            error: {None, "timeout", "other"}, age: 0..(StaleAfter[g] + 1)]
    BY <1>4, <2>1
  <2>3. NeverRead \in [tried: BOOLEAN, read: BOOLEAN, fails: Nat,
                       error: {None, "timeout", "other"}, age: Nat]
    BY <1>4
  <2> HIDE DEF NeverRead
  <2> QED BY <1>2, <1>4, <2>2, <2>3 DEF HealthTypes
<1>6. NoPause \in [failures: Nat, left: Nat] /\ NoPause.left = 0
  BY DEF NoPause
<1>7. raised' \in BOOLEAN /\ registry' \in {"none", "active", "inactive"}
      /\ (raised' <=> registry' = "active") /\ (raised' => fitted /\ raised)
  <2>1. registry \in {"none", "active", "inactive"} /\ (raised <=> registry = "active")
    BY <1>1, TypesApart DEF IssueInv, IssueJustified
  <2>2. reg \in {"none", "active", "inactive"} /\ (reg = "active" => registry = "active")
    BY <2>1
  <2> HIDE DEF reg
  <2>3. raised' \in BOOLEAN /\ (raised' <=> fitted /\ reg = "active")
    BY <1>3
  <2> QED BY <1>3, <2>1, <2>2, <2>3
<1>8. /\ missing' \in 0 .. IssueAfter /\ row' \in 0 .. IssueAfter /\ missing' <= row'
      /\ raised' => row' >= IssueAfter
  <2>1. row \in 0 .. IssueAfter /\ IssueAfter \in Nat /\ (raised => row >= IssueAfter)
    BY <1>1, TypesApart, LimitTypes DEF IssueInv, IssueJustified
  <2>2. CASE raised'
    <3>1. missing' = IssueAfter /\ row >= IssueAfter
      BY <1>3, <1>7, <2>1, <2>2
    <3> QED BY <1>2, <2>1, <3>1
  <2>3. CASE ~raised'
    <3>1. missing' = 0
      BY <1>3, <2>3
    <3> QED BY <1>2, <2>1, <2>3, <3>1
  <2> QED BY <2>2, <2>3
<1>9. IssueInv'
  BY <1>2, <1>7, <1>8 DEF IssueInv, IssueJustified
<1>10. events' \in [all: Nat, lost: Nat, refused: Nat]
  <2>1. events \in [all: Nat, lost: Nat, refused: Nat]
    BY <1>1, TypesApart
  <2> QED BY <1>2, <2>1
<1>11. TypeInv'
  <2>1. due' \in [Plans -> Nat] /\ since' \in [Blocks -> Nat]
    BY <1>2, LimitTypes
  <2>2. pauses' \in [Blocks -> [failures: Nat, left: Nat]]
    BY <1>2, <1>6
  <2>3. quiet' \in 0 .. (SilentAfter + 1) /\ failures' \in 0 .. UnavailableAfter
    BY <1>2, LimitTypes
  <2>4. delayed' \in BOOLEAN /\ answered' \in BOOLEAN /\ logged' \in BOOLEAN /\ hasSensor' \in BOOLEAN
    BY <1>2
  <2> QED BY <1>1, <1>2, <1>5, <1>7, <1>8, <1>10, <2>1, <2>2, <2>3, <2>4, TypesApart, TypesTogether,
             Zenon
<1>12. DerivedConsistent'
  BY <1>2 DEF DerivedConsistent, NoData
<1>13. \A g \in Groups : ~health'[g].read /\ ~health'[g].tried
  BY <1>2, <1>4
<1>14. CurrentInv'
  BY <1>13 DEF CurrentInv
<1>15. QuietInv'
  <2>1. \A p \in Plans : \A g \in PlanGroups(p) : GroupQuiet(p, g)'
    BY <1>13, PlanGroupsType DEF GroupQuiet
  <2>2. quiet' = 0 /\ due'[FlowPlan] = 0 /\ Interval[FlowPlan] \in Nat
    BY <1>2, LimitTypes
  <2>3. ~delayed' /\ failures' = 0 /\ \A b \in Blocks : pauses'[b].left = 0
    BY <1>2, <1>6
  <2> QED BY <2>1, <2>2, <2>3 DEF QuietInv
<1> QED BY <1>9, <1>11, <1>12, <1>14, <1>15 DEF Inv

\* Every step preserves the invariant, action by action.
LEMMA NextInv == Inv /\ [Next]_vars => Inv'
<1> SUFFICES ASSUME Inv, [Next]_vars PROVE Inv'
  OBVIOUS
<1>1. ASSUME NEW p \in Plans, SkipJob(p) PROVE Inv'
  BY <1>1, SkipJobInv
<1>2. ASSUME NEW p \in Plans, ReadOneJob(p) PROVE Inv'
  BY <1>2, ReadOneJobInv
<1>3. ASSUME NEW p \in Plans, LostJob(p) PROVE Inv'
  BY <1>3, LostJobInv
<1>4. CASE Tick
  BY <1>4, TickInv
<1>5. CASE PauseEnds \/ Dies \/ SensorChanges \/ UNCHANGED vars
  BY <1>5, OthersInv
<1>6. ASSUME NEW fitted \in BOOLEAN, NEW restart \in BOOLEAN, Reload(fitted, restart) PROVE Inv'
  BY <1>6, ReloadInv
<1> QED BY <1>1, <1>2, <1>3, <1>4, <1>5, <1>6 DEF Next

\* A group that is shown as available is not too old.
LEMMA InvCurrent == Inv => AvailableIsCurrent
<1> SUFFICES ASSUME Inv, NEW g \in Groups, Shown(g), NEW b \in BlocksOf(g)
             PROVE  since[b] <= StaleAfter[g]
  BY DEF AvailableIsCurrent
<1>1. TypeInv /\ CurrentInv
  BY DEF Inv
<1>2. health[g].read /\ ~(health[g].age > StaleAfter[g])
  BY DEF Shown, GroupAvailable, TooOld
<1>3. health[g].age \in Nat /\ StaleAfter[g] \in Nat /\ b \in Blocks
  BY <1>1, HealthFields, LimitTypes DEF BlocksOf, Blocks
<1>4. since[b] \in Nat
  BY <1>1, <1>3, TypesApart
<1>5. since[b] <= health[g].age
  BY <1>1, <1>2, <1>3 DEF CurrentInv
<1> QED BY <1>2, <1>3, <1>4, <1>5

\* Without faults every group is fresh, never tried, or one the unit lacks.
LEMMA InvQuiet == Inv => UnsupportedIsQuiet
<1> SUFFICES ASSUME Inv, alive, events.lost + events.refused = 0
             PROVE  failures = 0 /\ \A g \in Groups : GroupStale(g, health) # TRUE
  BY DEF UnsupportedIsQuiet
<1>1. TypeInv /\ QuietInv
  BY DEF Inv
<1>2. NoFault
  <2>1. events.lost \in Nat /\ events.refused \in Nat
    BY <1>1, TypesApart
  <2>2. \A x, y \in Nat : x + y = 0 => x = 0 /\ y = 0
    OBVIOUS
  <2> QED BY <2>1, <2>2 DEF NoFault
<1>3. failures = 0 /\ \A p \in Plans : \A g \in PlanGroups(p) : GroupQuiet(p, g)
  BY <1>1, <1>2 DEF QuietInv
<1>4. ASSUME NEW g \in Groups PROVE GroupStale(g, health) # TRUE
  <2>1. PICK p \in Plans : g \in PlanGroups(p)
    BY DEF Groups
  <2>2. GroupQuiet(p, g)
    BY <1>3, <2>1
  <2>3. CASE ~health[g].tried \/ UnsupportedOptionalGroup(g, health)
    BY <2>3, NoneDiffers DEF GroupStale
  <2>4. CASE health[g].tried /\ ~UnsupportedOptionalGroup(g, health)
    <3>1. health[g].read
      BY <2>2, <2>4 DEF GroupQuiet, UnsupportedOptionalGroup
    <3>2. /\ health[g].fails = 0 /\ health[g].age + due[p] <= Interval[p]
      BY <2>2, <3>1 DEF GroupQuiet
    <3>3. /\ health[g].age \in Nat /\ due[p] \in Nat /\ Interval[p] \in Nat /\ StaleAfter[g] \in Nat
          /\ Interval[p] <= StaleAfter[g] /\ FailureThreshold \in Nat \ {0}
      BY <1>1, <2>1, HealthFields, TypesApart, LimitTypes, LimitsAssumption
    <3>4. ~TooOld(g, health)
      BY <3>2, <3>3 DEF TooOld
    <3>5. ~(health[g].fails >= FailureThreshold)
      BY <3>2, <3>3
    <3>6. GroupStale(g, health) = TooOld(g, health)
      BY <2>4, <3>1, <3>5 DEF GroupStale
    <3> QED BY <3>4, <3>6
  <2> QED BY <2>3, <2>4
<1> QED BY <1>3, <1>4

-----------------------------------------------------------------------------
(* Theorems                                                                *)

\* The invariant holds in every reachable state, whatever jobs, groups, faults,
\* reloads and restarts there are.
THEOREM Invariance == Spec => []Inv
BY InitInv, NextInv, PTL DEF Spec

\* AvailableIsCurrent: no entity shows a frozen value (group_available and the
\* skipped blocks of read_room), for every plan of reads and every limit.
THEOREM CurrentHolds == Spec => []AvailableIsCurrent
<1>1. Inv => AvailableIsCurrent
  BY InvCurrent
<1> QED BY Invariance, <1>1, PTL

\* HealthConsistent: the types, diagnostics the unit lacks stay quiet, the
\* absolute humidity belongs to the values shown and the notice for a missing
\* sensor is justified (read_health.py, missing_sensors.py).
THEOREM HealthHolds == Spec => []HealthConsistent
<1>1. Inv => HealthConsistent
  <2>1. Inv => TypeOK /\ DerivedConsistent /\ IssueJustified
    BY DEF Inv, TypeInv, IssueInv
  <2> QED BY <2>1, InvQuiet DEF HealthConsistent
<1> QED BY Invariance, <1>1, PTL
-----------------------------------------------------------------------------
(* One lost job                                                            *)

\* What the assumptions say of the first pause, the intervals and the limits.
LEMMA LostLimits ==
    /\ ComponentBackoff[1] \in Nat
    /\ \A p \in Plans : ComponentBackoff[1] <= Interval[p]
    /\ \A p \in Plans : \A g \in PlanGroups(p) : 2 * Interval[p] <= StaleAfter[g]
    /\ 2 * Interval[FlowPlan] <= SilentAfter
    /\ FailureThreshold >= 2 /\ UnavailableAfter >= 2
<1>1. ComponentBackoff \in Seq(Nat) /\ ComponentBackoff # <<>>
  BY BackoffAssumption
<1>2. ComponentBackoff[1] \in Nat
  BY <1>1
<1> QED BY <1>2, LostJobAssumption

\* A job is silent if a component or the mode block is.
LEMMA SilentJob ==
    ASSUME NEW p, NEW C, NEW f, NEW mode, ReadJob(p, C, f, mode).silent
    PROVE  (\E c \in C : f[c] = "silent") \/ mode = "silent"
<1>1. ReadJob(p, C, f, mode).silent = ({c \in C : f[c] = "silent"} # {} \/ mode = "silent")
  BY DEF ReadJob
<1> QED BY <1>1

\* After one fault there was one job without an answer, and any other read
\* was undisturbed.
LEMMA OneDisturbance ==
    ASSUME TypeInv, NEW lost \in BOOLEAN, NEW faulty \in BOOLEAN, Disturb(lost, faulty),
           events'.lost = 1, events'.refused = 0
    PROVE  /\ events.refused = 0
           /\ \/ events.lost = 0 /\ lost
              \/ events.lost = 1 /\ ~lost /\ ~faulty
<1> DEFINE l == IF lost THEN 1 ELSE 0
           r == IF faulty /\ ~lost THEN 1 ELSE 0
<1>1. events.lost \in Nat /\ events.refused \in Nat
  BY DEF TypeInv
<1>2. events'.lost = events.lost + l /\ events'.refused = events.refused + r
  BY DEF Disturb
<1>3. l \in {0, 1} /\ r \in {0, 1} /\ (l = 1 => lost) /\ (l = 0 => ~lost)
      /\ (l = 0 /\ r = 0 => ~faulty)
  OBVIOUS
<1> HIDE DEF l, r
<1>4. events.refused = 0 /\ r = 0
  BY <1>1, <1>2, <1>3
<1>5. (events.lost = 0 /\ l = 1) \/ (events.lost = 1 /\ l = 0)
  BY <1>1, <1>2, <1>3
<1> QED BY <1>3, <1>4, <1>5

\* A component that delivers a value is none the unit refuses.
LEMMA DeliversIsSupported ==
    ASSUME NEW C, NEW f \in Polls(C), NEW c \in C, f[c] \in {"value", "placeholder"}
    PROVE  c \notin refused
<1>1. CASE \A d \in C : f[d] \in AnswersOf(d) \union {"unsent"}
  BY <1>1 DEF AnswersOf
<1>2. CASE f \in [C -> {"silent"}]
  BY <1>2
<1> QED BY <1>1, <1>2 DEF Polls

\* The first failed read of a group counts as one.
LEMMA FailedOnce ==
    ASSUME NEW h, h.fails = 0, NEW e
    PROVE  Failed(h, e).fails = 1
<1>1. Min({0 + 1, FailureThreshold}) = 1
  <2>1. 0 + 1 \in Int /\ FailureThreshold \in Int /\ FailureThreshold >= 2
    BY LimitTypes, LostLimits
  <2> QED BY <2>1, MinOfTwo
<1>2. Failed(h, e).fails = Min({0 + 1, FailureThreshold})
  BY DEF Failed
<1> QED BY <1>1, <1>2

\* The first pause of a component is the shortest.
LEMMA MarkFirst ==
    ASSUME NEW b, b.failures = 0
    PROVE  MarkFailure(b, ComponentBackoff).left = ComponentBackoff[1]
<1>1. ComponentBackoff \in Seq(Nat) /\ ComponentBackoff # <<>>
  BY BackoffAssumption
<1>2. Len(ComponentBackoff) \in Nat \ {0}
  BY <1>1
<1>3. Min({0 + 1, Len(ComponentBackoff)}) = 1
  <2>1. 0 + 1 \in Int /\ Len(ComponentBackoff) \in Int
    BY <1>2
  <2> QED BY <1>2, <2>1, MinOfTwo
<1>4. MarkFailure(b, ComponentBackoff).left = ComponentBackoff[Min({0 + 1, Len(ComponentBackoff)})]
  BY DEF MarkFailure
<1> QED BY <1>3, <1>4

\* What a read does to the pause of each block.
LEMMA PauseKinds ==
    ASSUME TypeInv, NEW p, NEW C, NEW f, NEW mode, Reads(p, C, f, mode),
           pauses' = PausesAfter(C, f, mode)
    PROVE  /\ \A b \in Components :
                 \/ pauses'[b] = pauses[b] \/ pauses'[b] = NoPause
                 \/ /\ b \in C /\ f[b] \notin {"value", "placeholder"}
                    /\ pauses'[b] = MarkFailure(pauses[b], ComponentBackoff)
           /\ \A b \in Components \ C : pauses'[b] = pauses[b]
           /\ mode # "exception" => pauses'[ModeBlock] = pauses[ModeBlock] \/ pauses'[ModeBlock] = NoPause
<1> DEFINE P == PausesAfterPoll(C, f)
           m == CASE mode = "exception" -> MarkFailure(P[ModeBlock], ModeBackoff)
                  [] mode = "value" -> NoPause
                  [] OTHER -> P[ModeBlock]
<1>1. C \subseteq Components /\ ModeBlock \notin Components /\ ModeBlock \in Blocks /\ Components \subseteq Blocks
  BY PlanGroupsType, PlansAssumption DEF Reads, Blocks
<1>2. ASSUME NEW b \in Blocks
      PROVE  /\ \/ P[b] = pauses[b] \/ P[b] = NoPause
                \/ /\ b \in C /\ f[b] \notin {"value", "placeholder"}
                   /\ P[b] = MarkFailure(pauses[b], ComponentBackoff)
             /\ b \notin C => P[b] = pauses[b]
  BY DEF PausesAfterPoll
<1>3. P = [b \in Blocks |-> P[b]]
  BY DEF PausesAfterPoll
<1> HIDE DEF P
<1>4. pauses' = [P EXCEPT ![ModeBlock] = m]
  BY DEF P, PausesAfter
<1>5. mode # "exception" => m = NoPause \/ m = P[ModeBlock]
  OBVIOUS
<1> HIDE DEF m
<1>6. pauses' = [b \in Blocks |-> IF b = ModeBlock THEN m ELSE P[b]]
  BY <1>3, <1>4
<1>7. pauses'[ModeBlock] = m /\ \A b \in Components : pauses'[b] = P[b]
  BY <1>1, <1>6
<1>8. P[ModeBlock] = pauses[ModeBlock]
  BY <1>1, <1>2
<1>9. \A b \in Components :
         \/ pauses'[b] = pauses[b] \/ pauses'[b] = NoPause
         \/ /\ b \in C /\ f[b] \notin {"value", "placeholder"}
            /\ pauses'[b] = MarkFailure(pauses[b], ComponentBackoff)
  BY <1>1, <1>2, <1>7
<1>10. \A b \in Components \ C : pauses'[b] = pauses[b]
  BY <1>1, <1>2, <1>7
<1> QED BY <1>5, <1>7, <1>8, <1>9, <1>10

\* The fields of a pause that ended.
LEMMA NoPauseFields == NoPause.left = 0 /\ NoPause.failures = 0
BY DEF NoPause

\* An undisturbed read counts no failure of the room, though a component may
\* be paused: only a job without optional components has such a pause.
LEMMA CleanFailures ==
    ASSUME TypeInv, NEW p, NEW C, NEW f, NEW mode, Clean(p, C, f, mode),
           DOMAIN Feeds[p] \intersect OptionalComponents # {} =>
               \A c \in DOMAIN Feeds[p] : c \notin refused => pauses[c].left = 0
    PROVE  FailuresAfter(p, ReadJob(p, C, f, mode)) \in {0, failures}
<1> DEFINE job == ReadJob(p, C, f, mode)
<1>1. p \in Plans /\ C \subseteq Due(p) /\ Due(p) \subseteq DOMAIN Feeds[p] /\ refused \subseteq OptionalComponents
  BY PlanGroupsType DEF Clean, Reads, TypeInv
<1>2. CASE \E c \in C : c \in refused
  <2>1. DOMAIN Feeds[p] \intersect OptionalComponents # {}
    BY <1>1, <1>2
  <2>2. PausesQuiet(p)
    BY <1>1, <2>1 DEF PausesQuiet
  <2>3. Faultless(p, C, f, mode)
    BY <2>2 DEF Faultless
  <2> QED BY <2>3, FaultlessFailures
<1>3. CASE ~\E c \in C : c \in refused
  <2>1. \A g : g \notin job.errors
    BY <1>3, CleanJob
  <2> HIDE DEF job
  <2>2. FailuresAfter(p, job) \in {0, failures}
    BY <2>1 DEF FailuresAfter
  <2> QED BY <2>2 DEF job
<1> QED BY <1>2, <1>3

\* After its turn a job waits longer than any first pause.
LEMMA RunMissesNone ==
    ASSUME NEW p \in Plans, due'[p] = Interval[p],
           pauses' \in [Blocks -> [failures: Nat, left: Nat]],
           \A c \in Components : c \notin refused' => pauses'[c].left <= ComponentBackoff[1]
    PROVE  ~MissesTurn(p)'
<1>1. Interval[p] \in Nat \ {0} /\ ComponentBackoff[1] \in Nat /\ ComponentBackoff[1] <= Interval[p]
  BY LimitTypes, LostLimits
<1>2. ASSUME NEW c \in DOMAIN Feeds[p], c \notin refused' PROVE ~(pauses'[c].left > due'[p])
  <2>1. c \in Components /\ c \in Blocks
    BY DEF Components, Blocks
  <2>2. pauses'[c].left \in Nat /\ pauses'[c].left <= ComponentBackoff[1]
    BY <1>2, <2>1
  <2> QED BY <1>1, <2>2
<1>3. due'[p] # 0
  BY <1>1
<1> QED BY <1>2, <1>3 DEF MissesTurn

\* The lost job itself: every job was on time before it, its own values wait
\* for one more interval and the others miss their next turn at most.
LEMMA FaultStep ==
    ASSUME Inv, NoFault, TypeInv', NEW p \in Plans, RunJob(p),
           quiet' = 0 \/ quiet' = quiet, failures' <= 1,
           pauses'[ModeBlock].left = 0,
           \A c \in Components : c \notin refused => pauses'[c].left <= ComponentBackoff[1],
           \A c \in Components \ DOMAIN Feeds[p] : c \notin refused => pauses'[c].left = 0,
           \A g \in Groups :
              \/ health'[g] = health[g]
              \/ \E e \in {"timeout", "other"} : health'[g] = Failed(health[g], e)
              \/ /\ health'[g] = Succeeded /\ g \in Supported(p)
                 /\ \A c \in Due(p) : g \in Feeds[p][c] => c \notin refused
    PROVE  LostInv'
<1>1. TypeInv /\ QuietInv
  BY DEF Inv
<1>2. /\ quiet + due[FlowPlan] <= Interval[FlowPlan]
      /\ \A q \in Plans : \A g \in PlanGroups(q) : GroupQuiet(q, g)
  BY <1>1 DEF QuietInv
<1>3. /\ quiet \in Nat /\ quiet' \in Nat /\ FlowPlan \in Plans /\ SilentAfter \in Nat
      /\ \A q \in Plans : due[q] \in Nat /\ due'[q] \in Nat /\ Interval[q] \in Nat \ {0}
      /\ pauses' \in [Blocks -> [failures: Nat, left: Nat]]
  <2>1. due \in [Plans -> Nat] /\ quiet \in 0 .. (SilentAfter + 1)
    BY <1>1, TypesApart
  <2>2. /\ due' \in [Plans -> Nat] /\ quiet' \in 0 .. (SilentAfter + 1)
        /\ pauses' \in [Blocks -> [failures: Nat, left: Nat]]
    BY DEF TypeInv, TypeOK
  <2> QED BY <2>1, <2>2, LimitTypes
<1>4. quiet <= SilentAfter
  BY <1>2, <1>3, LimitsAssumption
<1>5. /\ due'[p] = Interval[p] /\ due[p] = 0 /\ refused' = refused /\ hasSensor' = hasSensor
      /\ \A q \in Plans : q # p => due'[q] = due[q]
  BY <1>1, <1>4, RunJobEffect
<1>6. ~MissesTurn(p)'
  BY <1>3, <1>5, RunMissesNone
<1>7. ASSUME NEW q \in Plans, NEW n \in Nat, NEW m \in Nat, n + due[q] <= Interval[q], m <= n
      PROVE  /\ m + due'[q] <= 2 * Interval[q]
             /\ MissesTurn(q)' => m + due'[q] <= Interval[q]
  <2>1. CASE q = p
    BY <1>3, <1>5, <1>6, <1>7, <2>1
  <2>2. CASE q # p
    <3>1. due'[q] = due[q]
      BY <1>5, <2>2
    <3> QED BY <1>3, <1>7, <3>1
  <2> QED BY <2>1, <2>2
<1>8. OnTime(quiet, FlowPlan)'
  BY <1>2, <1>3, <1>7 DEF OnTime
<1>9. ShortPauses'
  <2>1. ASSUME NEW q \in Plans, DOMAIN Feeds[q] \intersect OptionalComponents # {},
               NEW c \in DOMAIN Feeds[q], c \notin refused
        PROVE  pauses'[c].left <= due'[q]
    <3>1. c \in Components /\ c \in Blocks
      BY DEF Components, Blocks
    <3>2. pauses'[c].left \in Nat
      BY <1>3, <3>1
    <3>3. CASE q = p
      <4>1. ComponentBackoff[1] <= Interval[q] /\ ComponentBackoff[1] \in Nat
        BY LostLimits
      <4>2. pauses'[c].left <= ComponentBackoff[1]
        BY <2>1, <3>1
      <4> QED BY <1>3, <1>5, <3>2, <3>3, <4>1, <4>2
    <3>4. CASE q # p
      <4>1. c \notin DOMAIN Feeds[p]
        BY <2>1, <3>4, LostJobAssumption
      <4>2. pauses'[c].left = 0
        BY <2>1, <3>1, <4>1
      <4> QED BY <1>3, <4>2
    <3> QED BY <3>3, <3>4
  <2> QED BY <1>5, <2>1 DEF ShortPauses
<1>10. \A q : Due(q)' = Due(q) /\ Supported(q)' = Supported(q)
  BY <1>5 DEF Due, Supported, GroupsOf
<1>11. ASSUME NEW q \in Plans, NEW g \in PlanGroups(q), health'[g].read
       PROVE  /\ health'[g].fails <= 1
              /\ OnTime(health[g].age, q)'
              /\ g \in Supported(q)
              /\ \A c \in Due(q) : g \in Feeds[q][c] => c \notin refused
  <2>1. g \in Groups /\ GroupQuiet(q, g)
    BY <1>2, PlanGroupsType
  <2>2. health[g].age \in Nat /\ health[g].read \in BOOLEAN
    BY <1>1, <2>1, HealthFields, LimitTypes
  <2>3. CASE health'[g] = health[g] \/ \E e \in {"timeout", "other"} : health'[g] = Failed(health[g], e)
    <3>1. health'[g].read = health[g].read /\ health'[g].age = health[g].age
      <4>1. \A e \in {"timeout", "other"} :
              /\ Failed(health[g], e).read = health[g].read
              /\ Failed(health[g], e).age = health[g].age
        BY <1>1, <2>1, FailedFields
      <4>2. CASE health'[g] = health[g]
        BY <4>2
      <4>3. CASE \E e \in {"timeout", "other"} : health'[g] = Failed(health[g], e)
        BY <4>1, <4>3
      <4> QED BY <2>3, <4>2, <4>3
    <3>2. /\ health[g].fails = 0 /\ health[g].age + due[q] <= Interval[q] /\ g \in Supported(q)
          /\ \A c \in Due(q) : g \in Feeds[q][c] => c \notin refused
      BY <1>11, <2>1, <3>1 DEF GroupQuiet
    <3>3. health'[g].fails <= 1
      <4>1. health'[g].fails = 0 \/ health'[g].fails = 1
        BY <2>3, <3>2, FailedOnce
      <4> QED BY <4>1
    <3>4. OnTime(health[g].age, q)'
      BY <1>7, <2>2, <3>1, <3>2 DEF OnTime
    <3> QED BY <3>2, <3>3, <3>4
  <2>4. CASE /\ health'[g] = Succeeded /\ g \in Supported(p)
             /\ \A c \in Due(p) : g \in Feeds[p][c] => c \notin refused
    <3>1. q = p
      BY <2>4, PlanGroupsType, PlansAssumption
    <3>2. health'[g].fails = 0 /\ health'[g].age = 0
      BY <2>1, <2>4, SucceededFields
    <3>3. OnTime(health[g].age, q)'
      BY <1>3, <1>5, <1>6, <3>1, <3>2 DEF OnTime
    <3> QED BY <2>4, <3>1, <3>2, <3>3
  <2> QED BY <2>1, <2>3, <2>4
<1>12. \A q \in Plans : \A g \in PlanGroups(q) : GroupOnTime(q, g)'
  BY <1>5, <1>10, <1>11 DEF GroupOnTime
<1> QED BY <1>8, <1>9, <1>12 DEF LostInv

\* An undisturbed read after the lost job: what it reads is new, and a value
\* that a pause leaves out had not missed a turn yet.
LEMMA CleanStep ==
    ASSUME Inv, OneLost, LostInv, TypeInv', NEW p, NEW C, NEW f, NEW mode,
           Reads(p, C, f, mode), RunJob(p), ~delayed,
           ~ReadJob(p, C, f, mode).silent, Undisturbed(C, f), mode # "exception",
           health' = UpdatedReadHealth(p, ReadJob(p, C, f, mode)),
           pauses' = PausesAfter(C, f, mode),
           delayed' = ReadJob(p, C, f, mode).silent,
           quiet' = (IF ReadJob(p, C, f, mode).unit THEN 0 ELSE quiet),
           failures' = FailuresAfter(p, ReadJob(p, C, f, mode))
    PROVE  LostInv'
<1> DEFINE job == ReadJob(p, C, f, mode)
<1>1. TypeInv /\ p \in Plans /\ alive /\ C = {c \in Due(p) : ~BackedOff(c)} /\ f \in Polls(C)
  BY DEF Inv, OneLost, Reads
<1>2. /\ failures <= 1 /\ ShortPauses /\ OnTime(quiet, FlowPlan)
      /\ \A q \in Plans : \A g \in PlanGroups(q) : GroupOnTime(q, g)
  BY DEF LostInv
<1>3. /\ quiet \in Nat /\ quiet' \in Nat /\ FlowPlan \in Plans /\ SilentAfter \in Nat
      /\ \A q \in Plans : due[q] \in Nat /\ due'[q] \in Nat /\ Interval[q] \in Nat \ {0}
      /\ pauses' \in [Blocks -> [failures: Nat, left: Nat]]
      /\ pauses \in [Blocks -> [failures: Nat, left: Nat]]
      /\ failures \in Nat
  <2>1. /\ due \in [Plans -> Nat] /\ quiet \in 0 .. (SilentAfter + 1)
        /\ pauses \in [Blocks -> [failures: Nat, left: Nat]] /\ failures \in 0 .. UnavailableAfter
    BY <1>1, TypesApart
  <2>2. /\ due' \in [Plans -> Nat] /\ quiet' \in 0 .. (SilentAfter + 1)
        /\ pauses' \in [Blocks -> [failures: Nat, left: Nat]]
    BY DEF TypeInv, TypeOK
  <2> QED BY <2>1, <2>2, LimitTypes
<1>4. quiet <= SilentAfter
  <2>1. quiet + due[FlowPlan] <= 2 * Interval[FlowPlan]
    BY <1>2 DEF OnTime
  <2>2. 2 * Interval[FlowPlan] <= SilentAfter
    BY LostLimits
  <2> QED BY <1>3, <2>1, <2>2
<1>5. /\ due'[p] = Interval[p] /\ due[p] = 0 /\ refused' = refused /\ hasSensor' = hasSensor
      /\ \A q \in Plans : q # p => due'[q] = due[q]
  BY <1>1, <1>4, RunJobEffect
<1>6. /\ pauses[ModeBlock].left = 0
      /\ \A c \in Components : c \notin refused => pauses[c].left <= ComponentBackoff[1]
      /\ \A q \in Plans : DOMAIN Feeds[q] \intersect OptionalComponents # {} =>
            \A c \in DOMAIN Feeds[q] : c \notin refused => pauses[c].left <= due[q]
  BY <1>2 DEF ShortPauses
<1>7. Clean(p, C, f, mode)
  BY <1>1, <1>6 DEF Clean
<1>8. \A c \in C : c \notin refused => f[c] \in {"value", "placeholder"}
  BY <1>1, <1>7, CleanAnswers
<1>9. ASSUME NEW c \in Components, c \notin refused
      PROVE  /\ pauses'[c].left <= pauses[c].left /\ pauses[c].left \in Nat /\ pauses'[c].left \in Nat
             /\ pauses'[c].left <= ComponentBackoff[1]
  <2>1. c \in Blocks
    BY DEF Blocks
  <2>2. pauses'[c] = pauses[c] \/ pauses'[c] = NoPause
    BY <1>1, <1>8, <1>9, PauseKinds
  <2>3. pauses[c].left \in Nat /\ pauses'[c].left \in Nat
    BY <1>3, <2>1
  <2>4. pauses'[c].left <= pauses[c].left
    BY <2>2, <2>3, NoPauseFields
  <2>5. pauses[c].left <= ComponentBackoff[1] /\ ComponentBackoff[1] \in Nat
    BY <1>6, <1>9, LostLimits
  <2> QED BY <2>3, <2>4, <2>5
<1>10. pauses'[ModeBlock].left = 0
  BY <1>1, <1>6, PauseKinds, NoPauseFields
<1>11. ~MissesTurn(p)'
  <2>1. \A c \in Components : c \notin refused' => pauses'[c].left <= ComponentBackoff[1]
    BY <1>5, <1>9
  <2> QED BY <1>1, <1>3, <1>5, <2>1, RunMissesNone
<1>12. ASSUME NEW q \in Plans, q # p, MissesTurn(q)' PROVE MissesTurn(q)
  <2>1. ~delayed' /\ due'[q] = due[q]
    BY <1>5, <1>12
  <2>2. PICK c \in DOMAIN Feeds[q] : c \notin refused /\ pauses'[c].left > due'[q]
    BY <1>5, <1>12, <2>1 DEF MissesTurn
  <2>3. c \in Components
    BY DEF Components
  <2>4. /\ pauses'[c].left <= pauses[c].left /\ pauses[c].left \in Nat /\ pauses'[c].left \in Nat
        /\ due[q] \in Nat
    BY <1>3, <1>9, <2>2, <2>3
  <2>5. pauses[c].left > due[q]
    BY <2>1, <2>2, <2>4
  <2> QED BY <2>2, <2>5 DEF MissesTurn
<1>13. ASSUME NEW q \in Plans, q # p, NEW n \in Nat, OnTime(n, q)
       PROVE  /\ n + due'[q] <= 2 * Interval[q]
              /\ MissesTurn(q)' => n + due'[q] <= Interval[q]
  <2>1. due'[q] = due[q]
    BY <1>5, <1>13
  <2>2. n + due[q] <= 2 * Interval[q] /\ (MissesTurn(q) => n + due[q] <= Interval[q])
    BY <1>13 DEF OnTime
  <2> QED BY <1>12, <1>13, <2>1, <2>2
<1>14. OnTime(quiet, FlowPlan)'
  <2>1. CASE p = FlowPlan
    <3>1. mode = "value"
      BY <1>1, <1>7, <2>1, CleanAnswers
    <3>2. job.unit
      BY <3>1, JobParts
    <3>3. quiet' = 0
      BY <3>2
    <3> QED BY <1>3, <1>5, <1>11, <2>1, <3>3 DEF OnTime
  <2>2. CASE p # FlowPlan
    <3>1. /\ quiet + due'[FlowPlan] <= 2 * Interval[FlowPlan]
          /\ MissesTurn(FlowPlan)' => quiet + due'[FlowPlan] <= Interval[FlowPlan]
      BY <1>2, <1>3, <1>13, <2>2
    <3>2. quiet' = 0 \/ quiet' = quiet
      OBVIOUS
    <3>3. quiet' <= quiet
      BY <1>3, <3>2
    <3>4. /\ quiet' + due'[FlowPlan] <= 2 * Interval[FlowPlan]
          /\ MissesTurn(FlowPlan)' => quiet' + due'[FlowPlan] <= Interval[FlowPlan]
      BY <1>3, <3>1, <3>3
    <3> QED BY <3>4 DEF OnTime
  <2> QED BY <2>1, <2>2
<1>15. ShortPauses'
  <2>1. ASSUME NEW q \in Plans, DOMAIN Feeds[q] \intersect OptionalComponents # {},
               NEW c \in DOMAIN Feeds[q], c \notin refused
        PROVE  pauses'[c].left <= due'[q]
    <3>1. c \in Components
      BY DEF Components
    <3>2. /\ pauses'[c].left <= pauses[c].left /\ pauses[c].left \in Nat /\ pauses'[c].left \in Nat
          /\ pauses'[c].left <= ComponentBackoff[1]
      BY <1>9, <2>1, <3>1
    <3>3. pauses[c].left <= due[q]
      BY <1>6, <2>1
    <3>4. CASE q = p
      BY <1>3, <1>5, <3>2, <3>3, <3>4
    <3>5. CASE q # p
      <4>1. due'[q] = due[q]
        BY <1>5, <3>5
      <4> QED BY <1>3, <3>2, <3>3, <4>1
    <3> QED BY <3>4, <3>5
  <2> QED BY <1>5, <1>9, <1>10, <2>1 DEF ShortPauses
<1>16. failures' <= 1
  <2>1. DOMAIN Feeds[p] \intersect OptionalComponents # {} =>
            \A c \in DOMAIN Feeds[p] : c \notin refused => pauses[c].left = 0
    <3> SUFFICES ASSUME DOMAIN Feeds[p] \intersect OptionalComponents # {},
                        NEW c \in DOMAIN Feeds[p], c \notin refused
                 PROVE  pauses[c].left = 0
      OBVIOUS
    <3>1. c \in Components
      BY <1>1 DEF Components
    <3>2. pauses[c].left \in Nat
      BY <1>9, <3>1
    <3>3. pauses[c].left <= due[p]
      BY <1>1, <1>6
    <3> QED BY <1>5, <3>2, <3>3
  <2>2. failures' \in {0, failures}
    BY <1>1, <1>7, <2>1, CleanFailures
  <2> QED BY <1>2, <1>3, <2>2
<1>17. \A q : Due(q)' = Due(q) /\ Supported(q)' = Supported(q)
  BY <1>5 DEF Due, Supported, GroupsOf
<1>18. ASSUME NEW q \in Plans, NEW g \in PlanGroups(q), health'[g].read
       PROVE  /\ health'[g].fails <= 1
              /\ OnTime(health[g].age, q)'
              /\ g \in Supported(q)
              /\ \A c \in Due(q) : g \in Feeds[q][c] => c \notin refused
  <2>1. g \in Groups /\ GroupOnTime(q, g)
    BY <1>2, PlanGroupsType
  <2>2. health[g].age \in Nat /\ health[g].read \in BOOLEAN
    BY <1>1, <2>1, HealthFields, LimitTypes
  <2>3. ASSUME health'[g].read = health[g].read
        PROVE  /\ health[g].fails <= 1 /\ OnTime(health[g].age, q) /\ g \in Supported(q)
               /\ \A c \in Due(q) : g \in Feeds[q][c] => c \notin refused
    BY <1>18, <2>1, <2>3 DEF GroupOnTime
  <2>4. CASE q # p
    <3>1. g \notin PlanGroups(p)
      BY <1>1, <2>4, PlansAssumption
    <3>2. g \notin Recorded(p, job)
      BY <1>1, <3>1, PlanGroupsType DEF Recorded
    <3>3. health'[g] = health[g]
      BY <2>1, <3>2, HealthAfter
    <3>4. OnTime(health[g].age, q)'
      BY <1>13, <2>2, <2>3, <2>4, <3>3 DEF OnTime
    <3> QED BY <2>3, <3>3, <3>4
  <2>5. CASE q = p /\ g \in Recorded(p, job) /\ g \in job.errors
    <3>1. PICK c \in C : c \in refused /\ g \in Feeds[p][c]
      BY <1>1, <1>7, <2>5, CleanJob
    <3>2. health'[g] = Failed(health[g], "timeout") \/ health'[g] = Failed(health[g], "other")
      BY <2>1, <2>5, HealthAfter
    <3>3. health'[g].read = health[g].read
      BY <1>1, <2>1, <3>2, FailedFields
    <3> QED BY <1>1, <2>3, <2>5, <3>1, <3>3
  <2>6. CASE q = p /\ g \in Recorded(p, job) /\ g \notin job.errors
    <3>1. health'[g] = Succeeded
      BY <2>1, <2>6, HealthAfter
    <3>2. health'[g].fails = 0 /\ health'[g].age = 0
      BY <2>1, <3>1, SucceededFields
    <3>3. g \in Supported(p)
      BY <2>6 DEF Recorded
    <3>4. \A c \in Due(p) : g \in Feeds[p][c] => c \notin refused
      BY <1>1, <2>6, RecordedRead, DeliversIsSupported
    <3>5. OnTime(health[g].age, q)'
      BY <1>3, <1>5, <1>11, <2>6, <3>2 DEF OnTime
    <3> QED BY <2>6, <3>2, <3>3, <3>4, <3>5
  <2>7. CASE q = p /\ g \notin Recorded(p, job)
    <3>1. health'[g] = health[g]
      BY <2>1, <2>7, HealthAfter
    <3>2. /\ health[g].fails <= 1 /\ OnTime(health[g].age, p) /\ g \in Supported(p)
          /\ \A c \in Due(p) : g \in Feeds[p][c] => c \notin refused
      BY <2>3, <2>7, <3>1
    <3>3. g \in job.skipped
      BY <2>7, <3>2 DEF Recorded
    <3>4. PICK c \in Due(p) \ C : g \in Feeds[p][c]
      BY <1>1, <1>7, <3>3, CleanJob
    <3>5. c \notin refused /\ c \in DOMAIN Feeds[p] /\ pauses[c].left > 0
      BY <1>1, <3>2, <3>4, PlanGroupsType DEF BackedOff
    <3>6. MissesTurn(p)
      BY <1>5, <3>5 DEF MissesTurn
    <3>7. health[g].age + due[p] <= Interval[p]
      BY <3>2, <3>6 DEF OnTime
    <3>8. health'[g].age + due'[q] <= 2 * Interval[q]
      BY <1>1, <1>3, <1>5, <2>2, <2>7, <3>1, <3>7
    <3>9. OnTime(health[g].age, q)'
      BY <1>11, <2>7, <3>8 DEF OnTime
    <3> QED BY <2>7, <3>1, <3>2, <3>9
  <2> QED BY <2>4, <2>5, <2>6, <2>7
<1>19. \A q \in Plans : \A g \in PlanGroups(q) : GroupOnTime(q, g)'
  BY <1>5, <1>17, <1>18 DEF GroupOnTime
<1> QED BY <1>14, <1>15, <1>16, <1>19 DEF LostInv

\* _read_one_job, with any answers.
LEMMA ReadOneJobFlap ==
    ASSUME Inv, FlapInv, TypeInv', NEW p \in Plans, ReadOneJob(p)
    PROVE  FlapInv'
<1> DEFINE C == {c \in Due(p) : ~BackedOff(c)}
<1>0. PICK f \in Polls(C) : \E mode \in (IF p # FlowPlan \/ BackedOff(ModeBlock)
                                           \/ \E c \in C : f[c] = "silent"
                                        THEN {None} ELSE ModeAnswers) : Does(p, C, f, mode)
  BY DEF ReadOneJob, PausesAfter, Does
<1>1. PICK mode \in (IF p # FlowPlan \/ BackedOff(ModeBlock) \/ \E c \in C : f[c] = "silent"
                     THEN {None} ELSE ModeAnswers) :
         Does(p, C, f, mode)
  BY <1>0
<1> DEFINE job == ReadJob(p, C, f, mode)
           lost == alive /\ job.silent
           faulty == ~Undisturbed(C, f) \/ mode = "exception"
<1>2. Reads(p, C, f, mode) /\ RunJob(p) /\ ~delayed
  BY <1>1 DEF Reads, ReadOneJob
<1>3. /\ Disturb(lost, faulty)
      /\ health' = UpdatedReadHealth(p, job)
      /\ pauses' = PausesAfter(C, f, mode)
      /\ delayed' = job.silent
      /\ quiet' = (IF job.unit THEN 0 ELSE quiet)
      /\ failures' = FailuresAfter(p, job)
  BY <1>1 DEF Does
<1>4. TypeInv /\ QuietInv /\ FirstPause /\ LostInv
  BY DEF Inv, FlapInv
<1>5. alive' = alive /\ refused' = refused /\ hasSensor' = hasSensor
  BY <1>2, <1>4, RunJobEffect
<1>6. job.silent \in BOOLEAN /\ job.unit \in BOOLEAN /\ lost \in BOOLEAN /\ faulty \in BOOLEAN
  BY JobParts
<1>7. C \subseteq Components /\ C \subseteq DOMAIN Feeds[p] /\ ModeBlock \in Blocks
      /\ ModeBlock \notin refused /\ Blocks = Components \union {ModeBlock} /\ f \in Polls(C)
  BY <1>4, PlanGroupsType, PlansAssumption DEF Blocks, TypeInv
<1>8. /\ \A b \in Components :
            \/ pauses'[b] = pauses[b] \/ pauses'[b] = NoPause
            \/ /\ b \in C /\ f[b] \notin {"value", "placeholder"}
               /\ pauses'[b] = MarkFailure(pauses[b], ComponentBackoff)
      /\ \A b \in Components \ C : pauses'[b] = pauses[b]
      /\ mode # "exception" => pauses'[ModeBlock] = pauses[ModeBlock] \/ pauses'[ModeBlock] = NoPause
  BY <1>2, <1>3, <1>4, PauseKinds
<1>9. ASSUME NoFault', NEW b \in Blocks, b \notin refused PROVE pauses'[b].failures = 0
  <2>1. NoFault /\ ~lost /\ ~faulty
    <3>1. events'.lost = 0 /\ events'.refused = 0 /\ alive
      BY <1>5, <1>9 DEF NoFault
    <3>2. Disturb(lost, faulty)
      BY <1>3
    <3> HIDE DEF lost, faulty
    <3>3. events.lost = 0 /\ events.refused = 0 /\ ~lost /\ ~faulty
      BY <1>4, <1>6, <3>1, <3>2, DisturbEffect
    <3> QED BY <3>1, <3>3 DEF NoFault
  <2>2. pauses[b].failures = 0 /\ \A d \in Blocks : d \notin refused => pauses[d].left = 0
    BY <1>4, <1>9, <2>1 DEF FirstPause, QuietInv
  <2>3. Clean(p, C, f, mode)
    <3>1. alive /\ ~job.silent /\ Undisturbed(C, f) /\ mode # "exception"
      BY <2>1 DEF NoFault
    <3> QED BY <1>2, <1>7, <2>2, <3>1 DEF Clean
  <2>4. b \in C => f[b] \in {"value", "placeholder"}
    BY <1>4, <1>9, <2>3, CleanAnswers
  <2>5. pauses'[b] = pauses[b] \/ pauses'[b] = NoPause
    BY <1>7, <1>8, <2>1, <2>4
  <2> QED BY <2>2, <2>5, NoPauseFields
<1>10. FirstPause'
  BY <1>5, <1>9 DEF FirstPause
<1>11. ASSUME OneLost' PROVE LostInv'
  <2>1. /\ alive /\ events.refused = 0
        /\ \/ events.lost = 0 /\ lost
           \/ events.lost = 1 /\ ~lost /\ ~faulty
    <3>1. events'.lost = 1 /\ events'.refused = 0 /\ alive
      BY <1>5, <1>11 DEF OneLost
    <3>2. Disturb(lost, faulty)
      BY <1>3
    <3> HIDE DEF lost, faulty
    <3> QED BY <1>4, <1>6, <3>1, <3>2, OneDisturbance
  <2>2. CASE events.lost = 1 /\ ~lost /\ ~faulty
    <3>1. OneLost /\ ~job.silent /\ Undisturbed(C, f) /\ mode # "exception"
      BY <2>1, <2>2 DEF OneLost
    <3> HIDE DEF C
    <3> QED BY <1>2, <1>3, <1>4, <3>1, CleanStep
  <2>3. CASE events.lost = 0 /\ lost
    <3>1. NoFault /\ job.silent
      BY <2>1, <2>3 DEF NoFault
    <3>2. /\ failures = 0
          /\ \A b \in Blocks : b \notin refused => pauses[b].left = 0 /\ pauses[b].failures = 0
      BY <1>4, <3>1 DEF FirstPause, QuietInv
    <3>3. mode # "exception"
      <4>1. (\E c \in C : f[c] = "silent") \/ mode = "silent"
        BY <3>1, SilentJob
      <4>2. \/ mode = None
            \/ mode \in {"value", "exception", "silent"} /\ \A c \in C : f[c] # "silent"
        BY <1>2, ModeAnswered
      <4> QED BY <4>1, <4>2, NoneDiffers
    <3>4. pauses'[ModeBlock].left = 0
      BY <1>7, <1>8, <3>2, <3>3, NoPauseFields
    <3>5. ASSUME NEW c \in Components, c \notin refused PROVE pauses'[c].left <= ComponentBackoff[1]
      <4>1. pauses[c].left = 0 /\ pauses[c].failures = 0 /\ ComponentBackoff[1] \in Nat
        BY <1>7, <3>2, <3>5, LostLimits
      <4>2. pauses'[c].left = 0 \/ pauses'[c].left = ComponentBackoff[1]
        BY <1>8, <4>1, NoPauseFields, MarkFirst
      <4> QED BY <4>1, <4>2
    <3>6. \A c \in Components \ DOMAIN Feeds[p] : c \notin refused => pauses'[c].left = 0
      BY <1>7, <1>8, <3>2
    <3>7. failures' <= 1
      <4>1. FailuresAfter(p, job) \in {0, failures, Min({failures + 1, UnavailableAfter})}
        <5> HIDE DEF job
        <5> QED BY DEF FailuresAfter
      <4>2. Min({failures + 1, UnavailableAfter}) = 1
        <5>1. 0 + 1 \in Int /\ UnavailableAfter \in Int /\ UnavailableAfter >= 2
          BY LimitTypes, LostLimits
        <5>2. Min({0 + 1, UnavailableAfter}) = 1
          BY <5>1, MinOfTwo
        <5> QED BY <3>2, <5>2
      <4>3. failures' = 0 \/ failures' = 1
        BY <1>3, <3>2, <4>1, <4>2
      <4> QED BY <4>3
    <3>8. ASSUME NEW g \in Groups
          PROVE  \/ health'[g] = health[g]
                 \/ \E e \in {"timeout", "other"} : health'[g] = Failed(health[g], e)
                 \/ /\ health'[g] = Succeeded /\ g \in Supported(p)
                    /\ \A c \in Due(p) : g \in Feeds[p][c] => c \notin refused
      <4>1. CASE g \notin Recorded(p, job)
        BY <1>3, <4>1, HealthAfter
      <4>2. CASE g \in Recorded(p, job) /\ g \in job.errors
        BY <1>3, <4>2, HealthAfter
      <4>3. CASE g \in Recorded(p, job) /\ g \notin job.errors
        <5>1. health'[g] = Succeeded
          BY <1>3, <4>3, HealthAfter
        <5>2. g \in Supported(p)
          BY <4>3 DEF Recorded
        <5>3. \A c \in Due(p) : g \in Feeds[p][c] => c \in C /\ f[c] \in {"value", "placeholder"}
          BY <1>2, <4>3, RecordedRead
        <5>4. \A c \in C : f[c] \in {"value", "placeholder"} => c \notin refused
          BY <1>7, DeliversIsSupported
        <5> QED BY <5>1, <5>2, <5>3, <5>4
      <4> QED BY <4>1, <4>2, <4>3
    <3>9. quiet' = 0 \/ quiet' = quiet
      BY <1>3
    <3> QED BY <1>2, <3>1, <3>4, <3>5, <3>6, <3>7, <3>8, <3>9, FaultStep
  <2> QED BY <2>1, <2>2, <2>3
<1> QED BY <1>10, <1>11 DEF FlapInv, LostInv

\* A job that the pause of the unit leaves out misses this turn and no other.
LEMMA SkipJobFlap ==
    ASSUME Inv, FlapInv, TypeInv', NEW p \in Plans, SkipJob(p)
    PROVE  FlapInv'
<1>1. TypeInv /\ QuietInv /\ FirstPause /\ LostInv
  BY DEF Inv, FlapInv
<1>2. /\ delayed /\ RunJob(p) /\ health' = health /\ pauses' = pauses /\ delayed' = delayed
      /\ quiet' = quiet /\ failures' = failures /\ events' = events
  BY DEF SkipJob
<1>3. /\ alive' = alive /\ refused' = refused /\ hasSensor' = hasSensor /\ due[p] = 0
      /\ \A q \in Plans : q # p => due'[q] = due[q]
      /\ quiet <= SilentAfter => due'[p] = Interval[p]
  BY <1>1, <1>2, RunJobEffect
<1>4. FirstPause'
  BY <1>1, <1>2, <1>3 DEF FirstPause, NoFault
<1>5. ASSUME OneLost'
      PROVE  /\ failures' <= 1 /\ ShortPauses' /\ OnTime(quiet, FlowPlan)'
             /\ \A q \in Plans : \A g \in PlanGroups(q) : GroupOnTime(q, g)'
  <2>1. OneLost
    BY <1>2, <1>3, <1>5 DEF OneLost
  <2>2. /\ failures <= 1 /\ ShortPauses /\ OnTime(quiet, FlowPlan)
        /\ \A q \in Plans : \A g \in PlanGroups(q) : GroupOnTime(q, g)
    BY <1>1, <2>1 DEF LostInv
  <2>3. /\ quiet \in Nat /\ FlowPlan \in Plans /\ SilentAfter \in Nat
        /\ \A q \in Plans : due[q] \in Nat /\ due'[q] \in Nat /\ Interval[q] \in Nat \ {0}
        /\ pauses \in [Blocks -> [failures: Nat, left: Nat]]
    <3>1. /\ due \in [Plans -> Nat] /\ quiet \in 0 .. (SilentAfter + 1)
          /\ pauses \in [Blocks -> [failures: Nat, left: Nat]]
      BY <1>1, TypesApart
    <3>2. due' \in [Plans -> Nat]
      BY DEF TypeInv, TypeOK
    <3> QED BY <3>1, <3>2, LimitTypes
  <2>4. due'[p] = Interval[p]
    <3>1. quiet + due[FlowPlan] <= 2 * Interval[FlowPlan]
      BY <2>2 DEF OnTime
    <3>2. 2 * Interval[FlowPlan] <= SilentAfter
      BY LostLimits
    <3> QED BY <1>3, <2>3, <3>1, <3>2
  <2>5. /\ pauses[ModeBlock].left = 0
        /\ \A c \in Components : c \notin refused => pauses[c].left <= ComponentBackoff[1]
        /\ \A q \in Plans : DOMAIN Feeds[q] \intersect OptionalComponents # {} =>
              \A c \in DOMAIN Feeds[q] : c \notin refused => pauses[c].left <= due[q]
    BY <2>2 DEF ShortPauses
  <2>6. ~MissesTurn(p)'
    BY <1>2, <1>3, <2>3, <2>4, <2>5, RunMissesNone
  <2>7. MissesTurn(p)
    BY <1>2, <1>3 DEF MissesTurn
  <2>8. ASSUME NEW q \in Plans, NEW n \in Nat, OnTime(n, q)
        PROVE  /\ n + due'[q] <= 2 * Interval[q]
               /\ MissesTurn(q)' => n + due'[q] <= Interval[q]
    <3>1. CASE q = p
      <4>1. n + due[p] <= Interval[p]
        BY <2>7, <2>8, <3>1 DEF OnTime
      <4> QED BY <1>3, <2>3, <2>4, <2>6, <3>1, <4>1
    <3>2. CASE q # p
      <4>1. due'[q] = due[q]
        BY <1>3, <3>2
      <4>2. MissesTurn(q)' <=> MissesTurn(q)
        BY <1>2, <1>3, <4>1 DEF MissesTurn
      <4> QED BY <2>8, <4>1, <4>2 DEF OnTime
    <3> QED BY <3>1, <3>2
  <2>9. OnTime(quiet, FlowPlan)'
    BY <1>2, <2>2, <2>3, <2>8 DEF OnTime
  <2>10. ShortPauses'
    <3>1. ASSUME NEW q \in Plans, DOMAIN Feeds[q] \intersect OptionalComponents # {},
                 NEW c \in DOMAIN Feeds[q], c \notin refused
          PROVE  pauses[c].left <= due'[q]
      <4>1. pauses[c].left <= due[q]
        BY <2>5, <3>1
      <4>2. c \in Blocks
        BY DEF Components, Blocks
      <4>3. pauses[c].left \in Nat
        BY <2>3, <4>2
      <4>4. CASE q = p
        BY <1>3, <2>3, <2>4, <4>1, <4>3, <4>4
      <4>5. CASE q # p
        BY <1>3, <4>1, <4>5
      <4> QED BY <4>4, <4>5
    <3> QED BY <1>2, <1>3, <2>5, <3>1 DEF ShortPauses
  <2>11. \A q : Due(q)' = Due(q) /\ Supported(q)' = Supported(q)
    BY <1>3 DEF Due, Supported, GroupsOf
  <2>12. ASSUME NEW q \in Plans, NEW g \in PlanGroups(q) PROVE GroupOnTime(q, g)'
    <3>1. g \in Groups /\ GroupOnTime(q, g)
      BY <2>2, PlanGroupsType
    <3>2. health[g].age \in Nat
      BY <1>1, <3>1, HealthFields, LimitTypes
    <3>3. OnTime(health[g].age, q) => OnTime(health[g].age, q)'
      BY <1>2, <2>8, <3>2 DEF OnTime
    <3> QED BY <1>2, <1>3, <2>11, <3>1, <3>3 DEF GroupOnTime
  <2> QED BY <1>2, <2>2, <2>9, <2>10, <2>12
<1> QED BY <1>4, <1>5 DEF FlapInv, LostInv

\* record_read_failures: a job that the link lost.
LEMMA LostJobFlap ==
    ASSUME Inv, FlapInv, TypeInv', NEW p \in Plans, LostJob(p)
    PROVE  FlapInv'
<1> DEFINE C == {c \in Due(p) : ~BackedOff(c)}
<1>1. TypeInv /\ QuietInv
  BY DEF Inv
<1>2. /\ RunJob(p) /\ Disturb(TRUE, TRUE) /\ quiet' = quiet
      /\ health' = [g \in Groups |-> IF g \in Supported(p) THEN Failed(health[g], "other") ELSE health[g]]
      /\ failures' = Min({failures + 1, UnavailableAfter})
  BY DEF LostJob
<1>3. alive' = alive /\ refused' = refused
  BY <1>1, <1>2, RunJobEffect
<1>4. ~NoFault'
  <2>1. ~(events'.lost = 0 /\ events'.refused = 0)
    BY <1>1, <1>2, DisturbEffect
  <2> QED BY <2>1 DEF NoFault
<1>5. ASSUME OneLost' PROVE LostInv'
  <2>1. NoFault
    <3>1. events'.lost = 1 /\ events'.refused = 0 /\ alive
      BY <1>3, <1>5 DEF OneLost
    <3>2. events.refused = 0 /\ events.lost = 0
      BY <1>1, <1>2, <3>1, OneDisturbance
    <3> QED BY <3>1, <3>2 DEF NoFault
  <2>2. failures = 0 /\ \A b \in Blocks : b \notin refused => pauses[b].left = 0
    BY <1>1, <2>1 DEF QuietInv
  <2>3. failures' <= 1
    <3>1. 0 + 1 \in Int /\ UnavailableAfter \in Int /\ UnavailableAfter >= 2
      BY LimitTypes, LostLimits
    <3>2. Min({0 + 1, UnavailableAfter}) = 1
      BY <3>1, MinOfTwo
    <3> QED BY <1>2, <2>2, <3>2
  <2>4. ASSUME NEW b \in Blocks, b \notin refused PROVE pauses'[b].left = 0
    <3>1. PICK cleared \in {C, {}} :
              pauses' = [d \in Blocks |-> IF d \in cleared THEN NoPause ELSE pauses[d]]
      BY DEF LostJob
    <3>2. pauses'[b] = NoPause \/ pauses'[b] = pauses[b]
      BY <3>1
    <3> QED BY <2>2, <2>4, <3>2, NoPauseFields
  <2>5. ModeBlock \in Blocks /\ ModeBlock \notin refused /\ Components \subseteq Blocks
    BY <1>1, PlansAssumption DEF Blocks, TypeInv
  <2>6. pauses'[ModeBlock].left = 0
    BY <2>4, <2>5
  <2>7. \A c \in Components : c \notin refused => pauses'[c].left <= ComponentBackoff[1]
    <3>1. ComponentBackoff[1] \in Nat
      BY LostLimits
    <3> QED BY <2>4, <2>5, <3>1
  <2>8. \A c \in Components \ DOMAIN Feeds[p] : c \notin refused => pauses'[c].left = 0
    BY <2>4, <2>5
  <2>9. \A g \in Groups : \/ health'[g] = health[g]
                          \/ \E e \in {"timeout", "other"} : health'[g] = Failed(health[g], e)
    BY <1>2
  <2> QED BY <1>2, <2>1, <2>3, <2>6, <2>7, <2>8, <2>9, FaultStep
<1> QED BY <1>4, <1>5 DEF FlapInv, FirstPause, LostInv

\* Time brings a job nearer as fast as its values grow old and pauses end.
LEMMA TickFlap ==
    ASSUME Inv, FlapInv, TypeInv', Tick
    PROVE  FlapInv'
<1>1. TypeInv /\ FirstPause /\ LostInv
  BY DEF Inv, FlapInv
<1>2. /\ \A p \in Plans : due[p] > 0
      /\ due' = [p \in Plans |-> due[p] - 1]
      /\ health' = [g \in Groups |->
                       IF health[g].read
                       THEN [health[g] EXCEPT !.age = Older(@, StaleAfter[g] + 1)] ELSE health[g]]
      /\ pauses' = [b \in Blocks |-> [pauses[b] EXCEPT !.left = IF @ = 0 THEN 0 ELSE @ - 1]]
      /\ delayed' = FALSE /\ quiet' = Older(quiet, SilentAfter + 1)
      /\ failures' = failures /\ events' = events
      /\ alive' = alive /\ refused' = refused /\ hasSensor' = hasSensor
  BY DEF Tick, world
<1>3. ASSUME NEW p \in Plans
      PROVE  /\ due[p] \in Nat /\ due'[p] = due[p] - 1 /\ due'[p] \in Nat
             /\ Interval[p] \in Nat \ {0}
  <2>1. due \in [Plans -> Nat]
    BY <1>1, TypesApart
  <2> QED BY <1>2, <2>1, LimitTypes
<1>4. ASSUME NEW b \in Blocks
      PROVE  /\ pauses[b].left \in Nat /\ pauses'[b].left \in Nat
             /\ pauses'[b].left = IF pauses[b].left = 0 THEN 0 ELSE pauses[b].left - 1
             /\ pauses'[b].failures = pauses[b].failures
  <2> DEFINE l == IF pauses[b].left = 0 THEN 0 ELSE pauses[b].left - 1
  <2>1. pauses[b] \in [failures: Nat, left: Nat]
    BY <1>1, TypesApart
  <2>2. l \in Nat /\ pauses[b].left \in Nat
    BY <2>1
  <2>3. pauses'[b] = [failures |-> pauses[b].failures, left |-> l]
    BY <1>2, <2>1
  <2>4. pauses'[b].left = l /\ pauses'[b].failures = pauses[b].failures
    BY <2>3
  <2> QED BY <2>2, <2>4
<1>5. FirstPause'
  BY <1>1, <1>2, <1>4 DEF FirstPause, NoFault
<1>6. ASSUME OneLost'
      PROVE  /\ failures' <= 1 /\ ShortPauses' /\ OnTime(quiet, FlowPlan)'
             /\ \A q \in Plans : \A g \in PlanGroups(q) : GroupOnTime(q, g)'
  <2>1. OneLost
    BY <1>2, <1>6 DEF OneLost
  <2>2. /\ failures <= 1 /\ ShortPauses /\ OnTime(quiet, FlowPlan)
        /\ \A q \in Plans : \A g \in PlanGroups(q) : GroupOnTime(q, g)
    BY <1>1, <2>1 DEF LostInv
  <2>3. ASSUME NEW q \in Plans, MissesTurn(q)' PROVE MissesTurn(q)
    <3>1. PICK c \in DOMAIN Feeds[q] : c \notin refused /\ pauses'[c].left > due'[q]
      BY <1>2, <2>3 DEF MissesTurn
    <3>2. c \in Blocks
      BY DEF Components, Blocks
    <3>3. pauses[c].left > due[q]
      BY <1>3, <1>4, <3>1, <3>2
    <3> QED BY <3>1, <3>3 DEF MissesTurn
  <2>4. ASSUME NEW q \in Plans, NEW n \in Nat, NEW m \in Nat, m <= n + 1, OnTime(n, q)
        PROVE  /\ m + due'[q] <= 2 * Interval[q]
               /\ MissesTurn(q)' => m + due'[q] <= Interval[q]
    <3>1. n + due[q] <= 2 * Interval[q] /\ (MissesTurn(q) => n + due[q] <= Interval[q])
      BY <2>4 DEF OnTime
    <3>2. m + due'[q] <= n + due[q]
      BY <1>3, <2>4
    <3> QED BY <1>3, <2>3, <2>4, <3>1, <3>2
  <2>5. OnTime(quiet, FlowPlan)'
    <3>1. quiet \in Nat /\ SilentAfter + 1 \in Nat /\ FlowPlan \in Plans
      BY <1>1, TypesApart, LimitTypes
    <3> DEFINE o == Older(quiet, SilentAfter + 1)
    <3>2. o \in 0 .. (SilentAfter + 1) /\ o <= quiet + 1
      BY <3>1, OlderType
    <3>3. quiet' = o
      BY <1>2
    <3> HIDE DEF o
    <3>4. /\ quiet' + due'[FlowPlan] <= 2 * Interval[FlowPlan]
          /\ MissesTurn(FlowPlan)' => quiet' + due'[FlowPlan] <= Interval[FlowPlan]
      <4>1. o \in Nat
        BY <3>1, <3>2
      <4> QED BY <2>2, <2>4, <3>1, <3>2, <3>3, <4>1
    <3> QED BY <3>4 DEF OnTime
  <2>6. ShortPauses'
    <3>1. /\ pauses[ModeBlock].left = 0
          /\ \A c \in Components : c \notin refused => pauses[c].left <= ComponentBackoff[1]
          /\ \A q \in Plans : DOMAIN Feeds[q] \intersect OptionalComponents # {} =>
                \A c \in DOMAIN Feeds[q] : c \notin refused => pauses[c].left <= due[q]
      BY <2>2 DEF ShortPauses
    <3>2. pauses'[ModeBlock].left = 0
      BY <1>4, <3>1 DEF Blocks
    <3>3. \A c \in Components : c \notin refused => pauses'[c].left <= ComponentBackoff[1]
      <4> SUFFICES ASSUME NEW c \in Components, c \notin refused
                   PROVE  pauses'[c].left <= ComponentBackoff[1]
        OBVIOUS
      <4>1. c \in Blocks /\ ComponentBackoff[1] \in Nat /\ pauses[c].left <= ComponentBackoff[1]
        BY <3>1, LostLimits DEF Blocks
      <4> QED BY <1>4, <4>1
    <3>4. ASSUME NEW q \in Plans, DOMAIN Feeds[q] \intersect OptionalComponents # {},
                 NEW c \in DOMAIN Feeds[q], c \notin refused
          PROVE  pauses'[c].left <= due'[q]
      <4>1. c \in Blocks
        BY DEF Components, Blocks
      <4>2. pauses[c].left <= due[q]
        BY <3>1, <3>4
      <4> QED BY <1>3, <1>4, <4>1, <4>2
    <3> QED BY <1>2, <3>2, <3>3, <3>4 DEF ShortPauses
  <2>7. \A q : Due(q)' = Due(q) /\ Supported(q)' = Supported(q)
    BY <1>2 DEF Due, Supported, GroupsOf
  <2>8. ASSUME NEW q \in Plans, NEW g \in PlanGroups(q) PROVE GroupOnTime(q, g)'
    <3>1. g \in Groups /\ GroupOnTime(q, g)
      BY <2>2, PlanGroupsType
    <3> DEFINE r == IF health[g].read
                    THEN [health[g] EXCEPT !.age = Older(@, StaleAfter[g] + 1)] ELSE health[g]
    <3>2. health'[g] = r
      BY <1>2, <3>1
    <3>3. /\ r.read = health[g].read /\ r.fails = health[g].fails
          /\ r.age \in 0 .. (StaleAfter[g] + 1) /\ r.age <= health[g].age + 1
      BY <1>1, <3>1, AgedFields
    <3>4. StaleAfter[g] \in Nat /\ health[g].age \in Nat
      BY <1>1, <3>1, HealthFields, LimitTypes
    <3> HIDE DEF r
    <3>5. /\ health'[g].read = health[g].read /\ health'[g].fails = health[g].fails
          /\ health'[g].age \in Nat /\ health'[g].age <= health[g].age + 1
      BY <3>2, <3>3, <3>4
    <3>6. OnTime(health[g].age, q) => OnTime(health[g].age, q)'
      BY <2>4, <3>4, <3>5 DEF OnTime
    <3> QED BY <1>2, <2>7, <3>1, <3>5, <3>6 DEF GroupOnTime
  <2> QED BY <1>2, <2>2, <2>5, <2>6, <2>8
<1> QED BY <1>5, <1>6 DEF FlapInv, LostInv

\* The pause ends, the unit dies or its sensor changes.
LEMMA OthersFlap ==
    ASSUME Inv, FlapInv, PauseEnds \/ Dies \/ SensorChanges \/ UNCHANGED vars
    PROVE  FlapInv'
<1>1. TypeInv /\ FirstPause /\ LostInv
  BY DEF Inv, FlapInv
<1>2. /\ due' = due /\ health' = health /\ pauses' = pauses /\ quiet' = quiet
      /\ failures' = failures /\ refused' = refused /\ hasSensor' = hasSensor
  BY DEF PauseEnds, Dies, SensorChanges, vars, reads, world
<1>3. (delayed' = FALSE \/ delayed' = delayed) /\ (alive' = FALSE \/ alive' = alive)
  BY DEF PauseEnds, Dies, SensorChanges, vars, reads, world
<1>4. events'.lost = events.lost /\ events'.refused = events.refused
  <2>1. events \in [all: Nat, lost: Nat, refused: Nat]
    BY <1>1, TypesApart
  <2>2. events' = events \/ events' = [events EXCEPT !.all = @ + 1]
    BY DEF PauseEnds, Dies, SensorChanges, Change, vars
  <2> QED BY <2>1, <2>2
<1>5. (NoFault' => NoFault) /\ (OneLost' => OneLost)
  BY <1>3, <1>4 DEF NoFault, OneLost
<1>6. FirstPause'
  BY <1>1, <1>2, <1>5 DEF FirstPause
<1>7. \A q : Due(q)' = Due(q) /\ Supported(q)' = Supported(q)
  BY <1>2 DEF Due, Supported, GroupsOf
<1>8. \A q \in Plans : MissesTurn(q)' => MissesTurn(q)
  BY <1>2, <1>3 DEF MissesTurn
<1>9. \A q \in Plans : \A g \in PlanGroups(q) : GroupOnTime(q, g) => GroupOnTime(q, g)'
  BY <1>2, <1>7, <1>8 DEF GroupOnTime, OnTime
<1>10. OnTime(quiet, FlowPlan) => OnTime(quiet, FlowPlan)'
  BY <1>2, <1>8, LimitTypes DEF OnTime
<1>11. ShortPauses => ShortPauses'
  BY <1>2 DEF ShortPauses
<1>12. LostInv'
  BY <1>1, <1>2, <1>5, <1>9, <1>10, <1>11 DEF LostInv
<1> QED BY <1>6, <1>12 DEF FlapInv

\* A reload starts from nothing.
LEMMA ReloadFlap ==
    ASSUME NEW fitted \in BOOLEAN, NEW restart \in BOOLEAN, Reload(fitted, restart)
    PROVE  FlapInv'
<1>1. /\ due' = [p \in Plans |-> 0] /\ health' = [g \in Groups |-> NeverRead]
      /\ pauses' = [b \in Blocks |-> NoPause] /\ delayed' = FALSE /\ quiet' = 0 /\ failures' = 0
  BY DEF Reload
<1>2. \A b \in Blocks : pauses'[b].left = 0 /\ pauses'[b].failures = 0
  BY <1>1, NoPauseFields
<1>3. \A g \in Groups : ~health'[g].read
  BY <1>1 DEF NeverRead
<1>4. FirstPause'
  BY <1>2 DEF FirstPause
<1>5. \A p \in Plans : \A g \in PlanGroups(p) : GroupOnTime(p, g)'
  BY <1>3, PlanGroupsType DEF GroupOnTime
<1>6. OnTime(quiet, FlowPlan)'
  <2>1. due'[FlowPlan] = 0 /\ Interval[FlowPlan] \in Nat
    BY <1>1, LimitTypes
  <2> QED BY <1>1, <2>1 DEF OnTime
<1>7. ShortPauses'
  <2>1. ModeBlock \in Blocks /\ Components \subseteq Blocks /\ ComponentBackoff[1] \in Nat
    BY LostLimits DEF Blocks
  <2>2. \A p \in Plans : DOMAIN Feeds[p] \subseteq Components /\ due'[p] = 0
    BY <1>1 DEF Components
  <2> QED BY <1>2, <2>1, <2>2 DEF ShortPauses
<1> QED BY <1>1, <1>4, <1>5, <1>6, <1>7 DEF FlapInv, LostInv

\* Nothing was lost or paused at the start.
LEMMA InitFlap == Init => FlapInv
<1> SUFFICES ASSUME Init PROVE FlapInv
  OBVIOUS
<1>1. \A b \in Blocks : pauses[b].failures = 0
  BY NoPauseFields DEF Init
<1>2. events.lost = 0
  BY DEF Init
<1> QED BY <1>1, <1>2 DEF FlapInv, FirstPause, LostInv, OneLost

\* Every step preserves it, action by action.
LEMMA NextFlap == Inv /\ FlapInv /\ [Next]_vars => FlapInv'
<1> SUFFICES ASSUME Inv, FlapInv, [Next]_vars PROVE FlapInv'
  OBVIOUS
<1>0. TypeInv'
  BY NextInv DEF Inv
<1>1. ASSUME NEW p \in Plans, SkipJob(p) PROVE FlapInv'
  BY <1>0, <1>1, SkipJobFlap
<1>2. ASSUME NEW p \in Plans, ReadOneJob(p) PROVE FlapInv'
  BY <1>0, <1>2, ReadOneJobFlap
<1>3. ASSUME NEW p \in Plans, LostJob(p) PROVE FlapInv'
  BY <1>0, <1>3, LostJobFlap
<1>4. CASE Tick
  BY <1>0, <1>4, TickFlap
<1>5. CASE PauseEnds \/ Dies \/ SensorChanges \/ UNCHANGED vars
  BY <1>5, OthersFlap
<1>6. ASSUME NEW fitted \in BOOLEAN, NEW restart \in BOOLEAN, Reload(fitted, restart) PROVE FlapInv'
  BY <1>6, ReloadFlap
<1> QED BY <1>1, <1>2, <1>3, <1>4, <1>5, <1>6 DEF Next

\* At most one job was lost, and nothing else went wrong.
FewFaults == alive /\ events.lost <= 1 /\ events.refused = 0

\* The limits of _room_unavailable_reason and group_available are kept.
WithinLimits ==
    /\ failures < UnavailableAfter /\ ~(quiet > SilentAfter)
    /\ \A g \in Groups : health[g].read =>
          health[g].fails < FailureThreshold /\ ~TooOld(g, health)

\* After a step with one lost job at most, the unit answers and what was read
\* is fresh.
LEMMA FlapLimits == Inv /\ FlapInv /\ FewFaults => WithinLimits
<1> SUFFICES ASSUME Inv, FlapInv, alive, events.lost <= 1, events.refused = 0
    PROVE  /\ failures < UnavailableAfter /\ ~(quiet > SilentAfter)
           /\ \A g \in Groups : health[g].read =>
                 health[g].fails < FailureThreshold /\ ~TooOld(g, health)
  BY DEF FewFaults, WithinLimits
<1>1. TypeInv /\ QuietInv /\ LostInv
  BY DEF Inv, FlapInv
<1>2. events.lost = 0 \/ events.lost = 1
  <2>1. events.lost \in Nat
    BY <1>1, TypesApart
  <2> QED BY <2>1
<1>3. NoFault \/ OneLost
  BY <1>2 DEF NoFault, OneLost
<1>4. /\ \A p \in Plans : due[p] \in Nat /\ Interval[p] \in Nat
      /\ quiet \in Nat /\ failures \in Nat /\ FlowPlan \in Plans /\ SilentAfter \in Nat
      /\ UnavailableAfter \in Nat /\ FailureThreshold \in Nat
  <2>1. /\ due \in [Plans -> Nat] /\ quiet \in 0 .. (SilentAfter + 1)
        /\ failures \in 0 .. UnavailableAfter
    BY <1>1, TypesApart
  <2> QED BY <2>1, LimitTypes
<1>5. failures <= 1 /\ quiet + due[FlowPlan] <= 2 * Interval[FlowPlan]
  <2>1. CASE NoFault
    <3>1. failures = 0 /\ quiet + due[FlowPlan] <= Interval[FlowPlan]
      BY <1>1, <2>1 DEF QuietInv
    <3> QED BY <1>4, <3>1
  <2>2. CASE OneLost
    BY <1>1, <2>2 DEF LostInv, OnTime
  <2> QED BY <1>3, <2>1, <2>2
<1>6. failures < UnavailableAfter /\ ~(quiet > SilentAfter)
  <2>1. 2 * Interval[FlowPlan] <= SilentAfter /\ UnavailableAfter >= 2
    BY LostLimits
  <2> QED BY <1>4, <1>5, <2>1
<1>7. ASSUME NEW g \in Groups, health[g].read
      PROVE  health[g].fails < FailureThreshold /\ ~TooOld(g, health)
  <2>1. PICK p \in Plans : g \in PlanGroups(p)
    BY DEF Groups
  <2>2. /\ health[g].fails \in Nat /\ health[g].age \in Nat /\ StaleAfter[g] \in Nat
        /\ 2 * Interval[p] <= StaleAfter[g] /\ FailureThreshold >= 2
    BY <1>1, <2>1, HealthFields, LimitTypes, LostLimits
  <2>3. health[g].fails <= 1 /\ health[g].age + due[p] <= 2 * Interval[p]
    <3>1. CASE NoFault
      <4>1. GroupQuiet(p, g)
        BY <1>1, <2>1, <3>1 DEF QuietInv
      <4>2. health[g].fails = 0 /\ health[g].age + due[p] <= Interval[p]
        BY <1>7, <4>1 DEF GroupQuiet
      <4> QED BY <1>4, <2>2, <4>2
    <3>2. CASE OneLost
      BY <1>1, <1>7, <2>1, <3>2 DEF LostInv, GroupOnTime, OnTime
    <3> QED BY <1>3, <3>1, <3>2
  <2>4. ~(health[g].age > StaleAfter[g]) /\ health[g].fails < FailureThreshold
    BY <1>4, <2>2, <2>3
  <2> QED BY <2>4 DEF TooOld
<1> QED BY <1>6, <1>7

\* A read keeps the data of the unit, unless a placeholder took the only value.
LEMMA DataKept ==
    ASSUME NEW p, NEW C, NEW f, NEW mode, data' = FreshValues(p, C, f, mode), HasData(data),
           data' # NoData
    PROVE  HasData(data)'
<1> DEFINE t == IF TemperatureComponent \in C /\ f[TemperatureComponent] = "value" THEN "now" ELSE None
           h == IF SensorComponent \in C /\ f[SensorComponent] = "value" THEN "now" ELSE None
           noSensor == SensorComponent \in C /\ f[SensorComponent] = "placeholder"
           climate == Due(p) \intersect {TemperatureComponent, SensorComponent} # {}
           fl == data.flow \/ (p = FlowPlan /\ \E c \in C : f[c] = "value")
           md == data.mode \/ mode = "value"
           br == data.bridge \/ \E c \in C \intersect BridgeComponents : f[c] = "value"
           te == IF ~climate THEN data.temperature
                 ELSE IF t # None THEN t ELSE Aged(data.temperature)
           hu == IF ~climate THEN data.humidity
                 ELSE IF h # None THEN h
                 ELSE IF noSensor THEN None ELSE Aged(data.humidity)
           ab == IF climate THEN AbsoluteHumidity(t, h) ELSE data.absolute
<1>1. data' = [flow |-> fl, mode |-> md, bridge |-> br, temperature |-> te, humidity |-> hu,
               absolute |-> ab]
  BY DEF FreshValues
<1>2. SUFFICES ASSUME ~fl, ~md, ~br, te = None, hu = None PROVE data' = NoData
  <2>1. /\ data'.flow = fl /\ data'.mode = md /\ data'.bridge = br /\ data'.temperature = te
        /\ data'.humidity = hu
    BY <1>1
  <2> HIDE DEF fl, md, br, te, hu, ab
  <2> QED BY <1>2, <2>1 DEF HasData
<1>3. climate
  <2> SUFFICES ASSUME ~climate PROVE FALSE
    OBVIOUS
  <2>1. data.temperature = None /\ data.humidity = None
    BY <1>2
  <2>2. ~data.flow /\ ~data.mode /\ ~data.bridge
    BY <1>2
  <2> QED BY <2>1, <2>2 DEF HasData
<1>4. t = None
  BY <1>2, <1>3
<1>5. ab = None
  BY <1>3, <1>4 DEF AbsoluteHumidity
<1>6. fl = FALSE /\ md = FALSE /\ br = FALSE
  BY <1>2
<1> HIDE DEF fl, md, br, te, hu, ab
<1> QED BY <1>1, <1>2, <1>5, <1>6 DEF NoData

\* A step keeps what was ever read, and the data, unless it starts anew.
LEMMA StepKeeps ==
    ASSUME Inv, [Next]_vars, data' # NoData
    PROVE  /\ \A g \in Groups : health[g].read => health'[g].read
           /\ HasData(data) => HasData(data)'
<1>1. TypeInv
  BY DEF Inv
<1>2. ASSUME NEW p \in Plans, SkipJob(p)
      PROVE  health' = health /\ data' = data
  BY <1>2 DEF SkipJob
<1>3. ASSUME NEW p \in Plans, LostJob(p)
      PROVE  data' = data /\ \A g \in Groups : health[g].read => health'[g].read
  <2>1. data' = data
    BY <1>3 DEF LostJob
  <2>2. \A g \in Groups : health'[g] = health[g] \/ health'[g] = Failed(health[g], "other")
    BY <1>3 DEF LostJob
  <2>3. \A g \in Groups : Failed(health[g], "other").read = health[g].read
    BY <1>1, FailedFields
  <2> QED BY <2>1, <2>2, <2>3
<1>4. ASSUME NEW p \in Plans, ReadOneJob(p)
      PROVE  /\ \A g \in Groups : health[g].read => health'[g].read
             /\ HasData(data) => HasData(data)'
  <2> DEFINE C == {c \in Due(p) : ~BackedOff(c)}
  <2>0. PICK f \in Polls(C) : \E mode \in (IF p # FlowPlan \/ BackedOff(ModeBlock)
                                             \/ \E c \in C : f[c] = "silent"
                                          THEN {None} ELSE ModeAnswers) : Does(p, C, f, mode)
    BY <1>4 DEF ReadOneJob, PausesAfter, Does
  <2>1. PICK mode : Does(p, C, f, mode)
    BY <2>0
  <2>2. health' = UpdatedReadHealth(p, ReadJob(p, C, f, mode)) /\ data' = FreshValues(p, C, f, mode)
    BY <2>1 DEF Does
  <2>3. ASSUME NEW g \in Groups, health[g].read PROVE health'[g].read
    <3> DEFINE job == ReadJob(p, C, f, mode)
    <3>1. health' = UpdatedReadHealth(p, job)
      BY <2>2
    <3> HIDE DEF job
    <3>2. \/ health'[g] = health[g] \/ health'[g] = Succeeded
          \/ health'[g] = Failed(health[g], "timeout") \/ health'[g] = Failed(health[g], "other")
      BY <3>1, HealthAfter
    <3>3. /\ Failed(health[g], "timeout").read = health[g].read
          /\ Failed(health[g], "other").read = health[g].read
      BY <1>1, FailedFields
    <3>4. Succeeded.read = TRUE
      BY SucceededFields
    <3> QED BY <2>3, <3>2, <3>3, <3>4
  <2>4. HasData(data) => HasData(data)'
    <3> HIDE DEF C
    <3> QED BY <2>2, DataKept
  <2> QED BY <2>3, <2>4
<1>5. ASSUME Tick PROVE data' = data /\ \A g \in Groups : health[g].read => health'[g].read
  <2>1. data' = data /\ \A g \in Groups : health'[g] =
            IF health[g].read THEN [health[g] EXCEPT !.age = Older(@, StaleAfter[g] + 1)] ELSE health[g]
    BY <1>5 DEF Tick
  <2>2. \A g \in Groups : health'[g].read = health[g].read
    BY <1>1, <2>1, AgedFields
  <2> QED BY <2>1, <2>2
<1>6. ASSUME PauseEnds \/ Dies \/ SensorChanges \/ UNCHANGED vars PROVE health' = health /\ data' = data
  BY <1>6 DEF PauseEnds, Dies, SensorChanges, vars, reads
<1>7. ASSUME NEW fitted \in BOOLEAN, NEW restart \in BOOLEAN, Reload(fitted, restart) PROVE FALSE
  BY <1>7 DEF Reload
<1>8. ASSUME data' = data PROVE HasData(data) => HasData(data)'
  BY <1>8 DEF HasData
<1> QED BY <1>2, <1>3, <1>4, <1>5, <1>6, <1>7, <1>8 DEF Next

\* One lost telegram does not flap: an available group stays available.
LEMMA StepShows ==
    ASSUME Inv, FlapInv, Inv', FlapInv', [Next]_vars, alive', events'.lost <= 1,
           events'.refused = 0, data' # NoData, NEW g \in Groups, Shown(g)
    PROVE  Shown(g)'
<1>1. health[g].read /\ HasData(data)
  BY DEF Shown, GroupAvailable, RoomAvailable
<1>2. health'[g].read /\ HasData(data)'
  BY <1>1, StepKeeps
<1>3. /\ failures' < UnavailableAfter /\ ~(quiet' > SilentAfter)
      /\ health'[g].fails < FailureThreshold /\ ~TooOld(g, health')
  <2>1. (Inv /\ FlapInv /\ FewFaults => WithinLimits)'
    BY FlapLimits, PTL
  <2>2. FewFaults'
    BY DEF FewFaults
  <2>3. WithinLimits'
    BY <2>1, <2>2
  <2> QED BY <1>2, <2>3 DEF WithinLimits
<1>4. ~UnavailableReason(failures', answered', quiet')
  <2>1. TypeInv'
    BY DEF Inv
  <2>2. failures' \in Nat /\ UnavailableAfter \in Nat
    BY <2>1, LimitTypes DEF TypeInv, TypeOK
  <2>3. ~(failures' >= UnavailableAfter)
    BY <1>3, <2>2
  <2> QED BY <1>3, <2>3 DEF UnavailableReason
<1>5. GroupAvailable(g, health')
  BY <1>2, <1>3 DEF GroupAvailable
<1> QED BY <1>2, <1>4, <1>5 DEF Shown, RoomAvailable

\* NoFlapping: a value missed once is still within its limits (group_available,
\* _room_unavailable_reason), whichever job is lost and whatever is due while
\* the unit pauses.
THEOREM NoFlappingHolds == Spec => NoFlapping
<1>1. Init => Inv /\ FlapInv
  BY InitInv, InitFlap
<1>2. Inv /\ FlapInv /\ [Next]_vars => Inv' /\ FlapInv'
  BY NextInv, NextFlap
<1>3. Inv /\ FlapInv /\ [Next]_vars =>
          ((alive' /\ events'.lost <= 1 /\ events'.refused = 0 /\ data' # NoData)
            => \A g \in Groups : Shown(g) => Shown(g)')
  BY <1>2, StepShows
<1> QED BY <1>1, <1>2, <1>3, PTL DEF Spec, NoFlapping
=============================================================================
