-------------------------- MODULE WritePathProofs --------------------------
(***************************************************************************)
(* For every set of levels, presets and commands and every bound:          *)
(*   - outcomes: at most one airflow, operating-mode or quick-mode command *)
(*     is open, an issue is counted exactly once per unhealthy command,    *)
(*     and a final outcome stays until a new command under its key;        *)
(*   - display: a pending value belongs to a command that is still backed; *)
(*   - types: every field has its type, so no command is built from an     *)
(*     unknown level;                                                      *)
(*   - interruptions: after one, no command is built on cached levels      *)
(*     until a group was read;                                             *)
(*   - confirmation: a confirmed write was reported after the write.       *)
(*                                                                         *)
(* The outcomes change in four ways only: a command completes, a read      *)
(* judges them, a command passes a time limit, or nothing happens to them. *)
(* The lemmas say what each of the operators behind these ways does; the   *)
(* theorems follow with one step per action.                               *)
(***************************************************************************)
EXTENDS WritePath, TLAPS

\* The outcomes are a record per write key, and an unhealthy one is counted.
Shape(c) ==
    /\ c = [k \in Keys |-> c[k]]
    /\ \A k \in Keys :
          /\ c[k] = [status |-> c[k].status, expected |-> c[k].expected,
                     baseline |-> c[k].baseline, counted |-> c[k].counted, age |-> c[k].age]
          /\ c[k].counted \in BOOLEAN
          /\ c[k].status \in UnhealthyStatuses => c[k].counted = TRUE

\* The base commands that a later read can still judge.
Open(c) == {k \in BaseModeWrites : c[k].status \in ConfirmableStatuses}

\* Judging the outcomes c gives c2: nothing is opened, final outcomes stay and
\* a counted issue stays counted.
Judgement(c, c2) ==
    /\ Shape(c2)
    /\ Open(c2) \subseteq Open(c)
    /\ \A k \in Keys : c[k].status \in FinalStatuses => c2[k] = c[k]
    /\ \A k \in Keys : c[k].counted = TRUE => c2[k].counted = TRUE

\* Recording a command opens its key and touches no other.
LEMMA RecordPendingOpens ==
    ASSUME NEW c, Shape(c), NEW key, NEW expected, NEW baseline
    PROVE  LET r == RecordPending(c, key, expected, baseline)
           IN  /\ Shape(r)
               /\ Open(r) \subseteq Open(c) \cup {key}
               /\ \A k \in Keys \ {key} : r[k] = c[k]
<1> DEFINE n == [status |-> "pending", expected |-> expected, baseline |-> baseline,
                 counted |-> FALSE, age |-> "new"]
           r == RecordPending(c, key, expected, baseline)
<1>1. r = [k \in Keys |-> IF k = key THEN n ELSE c[k]]
  BY DEF RecordPending, Shape
<1>2. Shape(r)
  <2>1. r = [k \in Keys |-> r[k]]
    BY <1>1
  <2>2. CASE key \in Keys
    <3>1. /\ r[key] = n
          /\ n.counted = FALSE
          /\ n.status = "pending"
          /\ n = [status |-> n.status, expected |-> n.expected, baseline |-> n.baseline,
                  counted |-> n.counted, age |-> n.age]
      BY <1>1, <2>2
    <3> HIDE DEF n
    <3> QED
      BY <1>1, <2>1, <3>1 DEF Shape, UnhealthyStatuses
  <2>3. CASE key \notin Keys
    <3>1. r = c
      BY <1>1, <2>3 DEF Shape
    <3> QED
      BY <3>1
  <2> QED
    BY <2>2, <2>3
<1>3. \A k \in Keys \ {key} : r[k] = c[k]
  BY <1>1
<1> QED
  BY <1>2, <1>3 DEF Open, Keys

\* A status set by hand changes the outcome of its key only.
LEMMA SetStatusOpens ==
    ASSUME NEW c, Shape(c), NEW key, NEW status
    PROVE  LET r == SetStatus(c, key, status)
           IN  /\ Shape(r)
               /\ key \in Keys => r[key].status = status
               /\ \A k \in Keys \ {key} : r[k] = c[k]
               /\ \A k \in Keys : c[k].counted = TRUE => r[k].counted = TRUE
BY DEF SetStatus, Judged, Shape

\* Marking a pending command unconfirmed leaves the open commands as they are.
LEMMA MarkUnconfirmedOpens ==
    ASSUME NEW c, Shape(c), NEW key
    PROVE  LET r == MarkUnconfirmed(c, key)
           IN  /\ Judgement(c, r)
               /\ \A k \in Keys \ {key} : r[k] = c[k]
<1>1. CASE c[key].status = "pending"
  <2>1. MarkUnconfirmed(c, key) = SetStatus(c, key, "unconfirmed")
    BY <1>1 DEF MarkUnconfirmed
  <2> DEFINE r == SetStatus(c, key, "unconfirmed")
  <2>2. /\ Shape(r)
        /\ key \in Keys => r[key].status = "unconfirmed"
        /\ \A k \in Keys \ {key} : r[k] = c[k]
        /\ \A k \in Keys : c[k].counted = TRUE => r[k].counted = TRUE
    BY SetStatusOpens
  <2>3. Open(r) \subseteq Open(c)
    BY <1>1, <2>2 DEF Open, Keys, ConfirmableStatuses
  <2>4. \A k \in Keys : c[k].status \in FinalStatuses => r[k] = c[k]
    BY <1>1, <2>2 DEF FinalStatuses
  <2> QED
    BY <2>1, <2>2, <2>3, <2>4 DEF Judgement
<1>2. CASE c[key].status # "pending"
  BY <1>2 DEF MarkUnconfirmed, Judgement
<1> QED
  BY <1>1, <1>2

\* Superseding leaves at most the new command open and touches no final outcome.
LEMMA SupersedeOpens ==
    ASSUME Shape(conf), NEW key
    PROVE  LET r == Supersede(conf, key)
           IN  /\ Shape(r)
               /\ key \in BaseModeWrites => Open(r) \subseteq {key}
               /\ key \notin BaseModeWrites => Open(r) = Open(conf)
               /\ \A k \in Keys : conf[k].status \in FinalStatuses => r[k] = conf[k]
               /\ \A k \in Keys : r[k].counted = conf[k].counted
<1>1. ASSUME NEW k \in Keys, k \in Superseded(key)
      PROVE  [conf[k] EXCEPT !.status = "superseded"]
               = [status |-> "superseded", expected |-> conf[k].expected,
                  baseline |-> conf[k].baseline, counted |-> conf[k].counted,
                  age |-> conf[k].age]
  BY DEF Shape
<1>2. /\ Shape(Supersede(conf, key))
      /\ \A k \in Keys : Supersede(conf, key)[k].status
           = IF k \in Superseded(key) THEN "superseded" ELSE conf[k].status
      /\ \A k \in Keys : Supersede(conf, key)[k].counted = conf[k].counted
      /\ \A k \in Keys \ Superseded(key) : Supersede(conf, key)[k] = conf[k]
  BY <1>1 DEF Supersede, Shape, UnhealthyStatuses
<1> QED
  BY <1>2 DEF Superseded, Open, Keys, BaseModeWrites, ConfirmableStatuses, FinalStatuses

\* confirm() is a judgement.
LEMMA ConfirmOpens ==
    ASSUME NEW c, Shape(c), NEW d, NEW h
    PROVE  Judgement(c, Confirm(c, d, h))
<1> DEFINE r == Confirm(c, d, h)
           status(k) == CheckedStatus(k, c[k], d, h)
<1>1. ASSUME NEW k \in Keys
      PROVE  /\ r[k].status = status(k)
             /\ r[k].counted \in BOOLEAN
             /\ c[k].counted = TRUE => r[k].counted = TRUE
             /\ status(k) \in UnhealthyStatuses => r[k].counted = TRUE
             /\ r[k] = [status |-> r[k].status, expected |-> r[k].expected,
                        baseline |-> r[k].baseline, counted |-> r[k].counted, age |-> r[k].age]
  BY DEF Confirm, CheckedConfirmation, Judged, Shape
<1>2. Shape(r)
  BY <1>1 DEF Confirm, Shape
<1>3. ASSUME NEW k \in Keys, c[k].status \notin ConfirmableStatuses
      PROVE  status(k) = c[k].status
  BY <1>3 DEF CheckedStatus
<1>4. ASSUME NEW k \in Keys, c[k].status \in FinalStatuses
      PROVE  r[k] = c[k]
  <2>1. status(k) = c[k].status /\ c[k].status # "pending"
    BY <1>3, <1>4 DEF FinalStatuses, ConfirmableStatuses
  <2>2. r[k] = [status |-> c[k].status, expected |-> c[k].expected,
                baseline |-> c[k].baseline,
                counted |-> c[k].counted \/ c[k].status \in UnhealthyStatuses,
                age |-> c[k].age]
    BY <2>1 DEF Confirm, CheckedConfirmation, Judged
  <2>3. (c[k].counted \/ c[k].status \in UnhealthyStatuses) = c[k].counted
    BY DEF Shape
  <2> QED
    BY <2>2, <2>3 DEF Shape
<1>5. Open(r) \subseteq Open(c)
  BY <1>1, <1>3 DEF Open, Keys
<1> QED
  BY <1>1, <1>2, <1>4, <1>5 DEF Judgement

-----------------------------------------------------------------------------

\* The inductive invariant: besides the two properties, the shape of the
\* outcomes and that `issues' follows the counted flags.
OutcomeInv ==
    /\ Shape(conf)
    /\ \A j, k \in Open(conf) : j = k
    /\ issues = [k \in Keys |-> IF conf[k].counted = TRUE THEN 1 ELSE 0]

\* What a step does to the final outcomes.
FinalStay == \A k \in Keys : conf[k].status \in FinalStatuses /\ conf'[k] # conf[k]
                               => op.phase = "sending" /\ op.key = k

\* The invariant and FinalStay after a step that leaves the outcomes alone.
LEMMA UntouchedKeeps ==
    ASSUME OutcomeInv, UNCHANGED <<conf, issues>>
    PROVE  OutcomeInv' /\ FinalStay
BY DEF OutcomeInv, FinalStay, Shape, Open

\* The invariant and FinalStay after a judgement (FinishRead).
LEMMA JudgementKeeps ==
    ASSUME OutcomeInv, NEW c, Judgement(conf, c), conf' = c,
           issues' = CountIssues(issues, conf, c)
    PROVE  OutcomeInv' /\ FinalStay
<1>1. Shape(c) /\ \A j, k \in Open(c) : j = k
  BY DEF OutcomeInv, Judgement
<1>2. ASSUME NEW k \in Keys
      PROVE  issues'[k] = IF c[k].counted = TRUE THEN 1 ELSE 0
  <2>1. conf[k].counted \in BOOLEAN /\ c[k].counted \in BOOLEAN
    BY <1>1 DEF OutcomeInv, Shape
  <2>2. issues[k] = IF conf[k].counted = TRUE THEN 1 ELSE 0
    BY DEF OutcomeInv
  <2>3. issues'[k] = issues[k] + (IF c[k].counted /\ ~conf[k].counted THEN 1 ELSE 0)
    BY DEF CountIssues
  <2>4. conf[k].counted = TRUE => c[k].counted = TRUE
    BY DEF Judgement
  <2> QED
    BY <2>1, <2>2, <2>3, <2>4
<1>3. issues' = [k \in Keys |-> IF c[k].counted = TRUE THEN 1 ELSE 0]
  BY <1>2 DEF CountIssues
<1>4. Shape(conf') /\ \A j, k \in Open(conf') : j = k
  BY <1>1
<1>5. OutcomeInv'
  BY <1>3, <1>4 DEF OutcomeInv, Shape, Open
<1> QED
  BY <1>5 DEF FinalStay, Judgement

\* The invariant and FinalStay after a command completed with the outcomes c.
LEMMA CompletionKeeps ==
    ASSUME OutcomeInv, op.phase = "sending", NEW c, NewOutcome(c), Shape(c),
           \A j, k \in Open(c) : j = k,
           \A k \in Keys \ {op.key} : /\ c[k].counted = conf[k].counted
                                      /\ conf[k].status \in FinalStatuses => c[k] = conf[k]
    PROVE  OutcomeInv' /\ FinalStay
<1>1. conf' = c
  BY DEF NewOutcome
<1>2. issues' = [k \in Keys |-> IF c[k].counted = TRUE THEN 1 ELSE 0]
  <2>1. /\ issues = [k \in Keys |-> IF conf[k].counted = TRUE THEN 1 ELSE 0]
        /\ issues' = [issues EXCEPT ![op.key] = IF c[op.key].counted THEN 1 ELSE 0]
    BY DEF OutcomeInv, NewOutcome
  <2>2. \A k \in Keys : c[k].counted \in BOOLEAN
    BY DEF Shape
  <2> QED
    BY <2>1, <2>2
<1>3. Shape(conf') /\ \A j, k \in Open(conf') : j = k
  BY <1>1
<1>4. OutcomeInv'
  BY <1>1, <1>2, <1>3 DEF OutcomeInv, Shape, Open
<1> QED
  BY <1>1, <1>4 DEF FinalStay

-----------------------------------------------------------------------------

\* A command that was accepted, or cancelled on the way, closes the others.
LEMMA SupersedingOpens ==
    ASSUME OutcomeInv, NEW key, NEW value, NEW baseline
    PROVE  LET r == RecordPending(Supersede(conf, key), key, value, baseline)
           IN  /\ Shape(r)
               /\ \A j, k \in Open(r) : j = k
               /\ \A k \in Keys \ {key} :
                     /\ r[k].counted = conf[k].counted
                     /\ conf[k].status \in FinalStatuses => r[k] = conf[k]
<1> DEFINE s == Supersede(conf, key)
           r == RecordPending(s, key, value, baseline)
<1>1. /\ Shape(s)
      /\ key \in BaseModeWrites => Open(s) \subseteq {key}
      /\ key \notin BaseModeWrites => Open(s) = Open(conf)
      /\ \A k \in Keys : conf[k].status \in FinalStatuses => s[k] = conf[k]
      /\ \A k \in Keys : s[k].counted = conf[k].counted
  BY SupersedeOpens DEF OutcomeInv
<1> HIDE DEF s
<1>2. /\ Shape(r)
      /\ Open(r) \subseteq Open(s) \cup {key}
      /\ \A k \in Keys \ {key} : r[k] = s[k]
  BY <1>1, RecordPendingOpens
<1>3. Open(r) \subseteq BaseModeWrites /\ \A j, k \in Open(conf) : j = k
  BY DEF Open, OutcomeInv
<1> HIDE DEF r
<1>4. /\ Shape(r)
      /\ \A j, k \in Open(r) : j = k
      /\ \A k \in Keys \ {key} :
            /\ r[k].counted = conf[k].counted
            /\ conf[k].status \in FinalStatuses => r[k] = conf[k]
  BY <1>1, <1>2, <1>3
<1> QED
  BY <1>4 DEF r, s

\* Every completed command keeps the invariant.
LEMMA CompletionStep ==
    ASSUME OutcomeInv, WriteAccepted \/ WriteFailed \/ WriteCancelled
    PROVE  OutcomeInv' /\ FinalStay
<1> DEFINE p == RecordPending(Supersede(conf, op.key), op.key, op.value, op.baseline)
<1>1. /\ Shape(p)
      /\ \A j, k \in Open(p) : j = k
      /\ \A k \in Keys \ {op.key} :
            /\ p[k].counted = conf[k].counted
            /\ conf[k].status \in FinalStatuses => p[k] = conf[k]
  BY SupersedingOpens
<1>2. CASE WriteAccepted
  <2>1. op.phase = "sending" /\ NewOutcome(p)
    BY <1>2 DEF WriteAccepted
  <2> HIDE DEF p
  <2> QED
    BY <1>1, <2>1, CompletionKeeps
<1>3. CASE WriteFailed
  <2> DEFINE q == RecordPending(conf, op.key, op.value, op.baseline)
             r == SetStatus(q, op.key, "failed")
  <2>1. op.phase = "sending" /\ NewOutcome(r)
    BY <1>3 DEF WriteFailed
  <2>2. /\ Shape(q)
        /\ Open(q) \subseteq Open(conf) \cup {op.key}
        /\ \A k \in Keys \ {op.key} : q[k] = conf[k]
    BY RecordPendingOpens DEF OutcomeInv
  <2> HIDE DEF q
  <2>3. Shape(q)
    BY <2>2
  <2>4. /\ Shape(r)
        /\ op.key \in Keys => r[op.key].status = "failed"
        /\ \A k \in Keys \ {op.key} : r[k] = q[k]
        /\ \A k \in Keys : q[k].counted = TRUE => r[k].counted = TRUE
    BY <2>3, SetStatusOpens
  <2> HIDE DEF r
  <2>5. Open(r) \subseteq Open(conf)
    BY <2>2, <2>4 DEF Open, Keys, ConfirmableStatuses
  <2>6. \A j, k \in Open(r) : j = k
    BY <2>5 DEF OutcomeInv
  <2> QED
    BY <2>1, <2>2, <2>4, <2>6, CompletionKeeps
<1>4. CASE WriteCancelled
  <2> DEFINE r == MarkUnconfirmed(p, op.key)
  <2>1. op.phase = "sending" /\ NewOutcome(r)
    BY <1>4 DEF WriteCancelled
  <2> HIDE DEF p
  <2>2. Judgement(p, r) /\ \A k \in Keys \ {op.key} : r[k] = p[k]
    BY <1>1, MarkUnconfirmedOpens
  <2> HIDE DEF r
  <2>3. Shape(r) /\ \A j, k \in Open(r) : j = k
    BY <1>1, <2>2 DEF Judgement
  <2> QED
    BY <1>1, <2>1, <2>2, <2>3, CompletionKeeps
<1> QED
  BY <1>2, <1>3, <1>4

\* The end of every read keeps the invariant.
LEMMA FinishReadStep ==
    ASSUME OutcomeInv, NEW kind, NEW key, NEW clearPreset, NEW d, NEW h, NEW sn, NEW pv,
           FinishRead(kind, key, clearPreset, d, h, sn, pv)
    PROVE  OutcomeInv' /\ FinalStay
<1> DEFINE judged == Confirm(conf, d, h)
           final == IF kind = "accepted" THEN MarkUnconfirmed(judged, key) ELSE judged
<1>1. conf' = final /\ issues' = CountIssues(issues, conf, final)
  BY DEF FinishRead
<1>2. Judgement(conf, judged)
  BY ConfirmOpens DEF OutcomeInv
<1> HIDE DEF judged
<1>3. Judgement(judged, MarkUnconfirmed(judged, key))
  BY <1>2, MarkUnconfirmedOpens DEF Judgement
<1>4. Judgement(conf, final)
  BY <1>2, <1>3 DEF Judgement
<1> HIDE DEF final
<1> QED
  BY <1>1, <1>4, JudgementKeeps

\* A read of the room keeps the invariant, whether it ends here or goes on to
\* register 41121.
LEMMA RoomReadStep ==
    ASSUME OutcomeInv, NEW kind, NEW key, NEW clearPreset, RoomRead(kind, key, clearPreset)
    PROVE  OutcomeInv' /\ FinalStay
<1>1. CASE \E r \in Outcomes(kind), flow \in MeasuredFlows :
              ReadRoom(kind, key, clearPreset, r, flow)
  <2>1. PICK r \in Outcomes(kind), flow \in MeasuredFlows :
              ReadRoom(kind, key, clearPreset, r, flow)
    BY <1>1
  <2>2. \/ UNCHANGED <<conf, issues>>
        \/ \E d, h, sn, pv : FinishRead(kind, key, clearPreset, d, h, sn, pv)
    BY <2>1, Zenon DEF ReadRoom
  <2> QED
    BY <2>2, UntouchedKeeps, FinishReadStep
<1>2. CASE RoomReadLost(kind, key, clearPreset)
  BY <1>2, FinishReadStep DEF RoomReadLost
<1>3. CASE RoomReadDelayed(kind, key, clearPreset)
  BY <1>3, FinishReadStep DEF RoomReadDelayed
<1> QED
  BY <1>1, <1>2, <1>3 DEF RoomRead

-----------------------------------------------------------------------------

\* A command changes no outcome before its requests end.
LEMMA CommandStep ==
    ASSUME Command
    PROVE  UNCHANGED <<conf, issues>>
<1> USE DEF history
<1>1. ASSUME NEW level, AsyncSetLevel(level)
      PROVE  UNCHANGED <<conf, issues>>
  BY <1>1 DEF AsyncSetLevel
<1>2. ASSUME NEW s, NEW e, AsyncSetUnbalancedLevels(s, e)
      PROVE  UNCHANGED <<conf, issues>>
  BY <1>2 DEF AsyncSetUnbalancedLevels
<1>3. ASSUME NEW direction, NEW level, AsyncSetDirectionLevel(direction, level)
      PROVE  UNCHANGED <<conf, issues>>
  BY <1>3 DEF AsyncSetDirectionLevel
<1>4. ASSUME NEW mode, AsyncSetOperationMode(mode)
      PROVE  UNCHANGED <<conf, issues>>
  BY <1>4 DEF AsyncSetOperationMode
<1>5. CASE AsyncSetInactive
  BY <1>5 DEF AsyncSetInactive
<1>6. ASSUME NEW preset, AsyncSetPresetMode(preset)
      PROVE  UNCHANGED <<conf, issues>>
  BY <1>6 DEF AsyncSetPresetMode
<1>7. CASE AsyncClearPresetMode
  BY <1>7 DEF AsyncClearPresetMode
<1>8. ASSUME NEW on, AsyncSetIntensive(on)
      PROVE  UNCHANGED <<conf, issues>>
  BY <1>8 DEF AsyncSetIntensive
<1> QED
  BY <1>1, <1>2, <1>3, <1>4, <1>5, <1>6, <1>7, <1>8, Zenon DEF Command

\* A time limit changes the age of one outcome that is not final.
LEMMA AgeingStep ==
    ASSUME OutcomeInv, NEW key \in Keys, ConfirmationAges(key)
    PROVE  OutcomeInv' /\ FinalStay
<1> DEFINE a == IF conf[key].status = "pending" /\ conf[key].age = "new" THEN "late" ELSE "old"
<1>1. /\ conf' = [conf EXCEPT ![key].age = a]
      /\ issues' = issues
      /\ conf[key].status \in ConfirmableStatuses
  BY DEF ConfirmationAges, history
<1> HIDE DEF a
<1>2. [conf[key] EXCEPT !.age = a]
        = [status |-> conf[key].status, expected |-> conf[key].expected,
           baseline |-> conf[key].baseline, counted |-> conf[key].counted, age |-> a]
  BY DEF OutcomeInv, Shape
<1>3. conf' = [k \in Keys |->
                 IF k # key THEN conf[k]
                 ELSE [status |-> conf[key].status, expected |-> conf[key].expected,
                       baseline |-> conf[key].baseline, counted |-> conf[key].counted,
                       age |-> a]]
  BY <1>1, <1>2 DEF OutcomeInv, Shape
<1>4. Shape(conf')
  BY <1>3 DEF OutcomeInv, Shape
<1>5. \A k \in Keys : conf'[k].status = conf[k].status /\ conf'[k].counted = conf[k].counted
  BY <1>3
<1>6. Open(conf') = Open(conf)
  BY <1>5 DEF Open, Keys
<1>7. issues' = [k \in Keys |-> IF conf'[k].counted = TRUE THEN 1 ELSE 0]
  BY <1>1, <1>5 DEF OutcomeInv
<1>8. OutcomeInv'
  <2>1. \A j, k \in Open(conf') : j = k
    BY <1>6 DEF OutcomeInv
  <2> QED
    BY <1>4, <1>7, <2>1 DEF OutcomeInv, Shape, Open
<1>9. FinalStay
  BY <1>1, <1>3 DEF FinalStay, FinalStatuses, ConfirmableStatuses
<1> QED
  BY <1>8, <1>9

\* Every step keeps the invariant and the final outcomes.
LEMMA NextStep ==
    ASSUME OutcomeInv, [Next]_vars
    PROVE  OutcomeInv' /\ FinalStay
<1>1. CASE Command
  BY <1>1, CommandStep, UntouchedKeeps
<1>2. CASE WriteAccepted \/ WriteFailed \/ WriteCancelled
  BY <1>2, CompletionStep
<1>3. CASE Poll
  BY <1>3, RoomReadStep DEF Poll
<1>4. CASE RefreshRoomAfterWrite
  BY <1>4, RoomReadStep DEF RefreshRoomAfterWrite
<1>5. ASSUME NEW answered \in BOOLEAN, ReadBalancedTarget(answered)
      PROVE  OutcomeInv' /\ FinalStay
  BY <1>5, FinishReadStep DEF ReadBalancedTarget
<1>6. ASSUME NEW key \in Keys, ConfirmationAges(key)
      PROVE  OutcomeInv' /\ FinalStay
  BY <1>6, AgeingStep
<1>7. CASE UNCHANGED <<conf, issues>>
  BY <1>7, UntouchedKeeps
<1>8. CASE ReadCancelled \/ LevelsQueried \/ AppChanges \/ UNCHANGED vars
  BY <1>7, <1>8 DEF ReadCancelled, LevelsQueried, AppChanges, vars, history
<1>9. ASSUME NEW key, OverlayExpires(key)
      PROVE  OutcomeInv' /\ FinalStay
  BY <1>7, <1>9 DEF OverlayExpires, history
<1>10. ASSUME NEW g, GroupAges(g)
      PROVE  OutcomeInv' /\ FinalStay
  BY <1>7, <1>10 DEF GroupAges, history
<1> QED
  BY <1>1, <1>2, <1>3, <1>4, <1>5, <1>6, <1>8, <1>9, <1>10 DEF Next

\* No command has been given in the initial state.
LEMMA InitHolds ==
    ASSUME Init
    PROVE  OutcomeInv
<1>1. conf = [k \in Keys |-> NoConfirmation] /\ issues = [k \in Keys |-> 0]
  BY DEF Init
<1>2. /\ NoConfirmation.status = "none"
      /\ NoConfirmation.counted = FALSE
      /\ NoConfirmation = [status |-> NoConfirmation.status,
                           expected |-> NoConfirmation.expected,
                           baseline |-> NoConfirmation.baseline,
                           counted |-> NoConfirmation.counted, age |-> NoConfirmation.age]
  BY DEF NoConfirmation
<1>3. Shape(conf)
  BY <1>1, <1>2 DEF Shape, UnhealthyStatuses
<1>4. Open(conf) = {}
  BY <1>1, <1>2 DEF Open, Keys, ConfirmableStatuses
<1> QED
  BY <1>1, <1>2, <1>3, <1>4 DEF OutcomeInv

\* The inductive invariant holds in every reachable state.
THEOREM OutcomesHold == Spec => []OutcomeInv
<1>1. Init => OutcomeInv
  BY InitHolds
<1>2. OutcomeInv /\ [Next]_vars => OutcomeInv'
  BY NextStep
<1> QED
  BY <1>1, <1>2, PTL DEF Spec

\* WriteConfirmations.supersede: at most one base command is ever open, for
\* every number of commands and reads.
THEOREM OneOpenHolds == Spec => []OneOpenBaseWrite
<1>1. OutcomeInv => OneOpenBaseWrite
  BY DEF OutcomeInv, OneOpenBaseWrite, Open
<1> QED
  BY <1>1, OutcomesHold, PTL

\* WriteConfirmations.set_status and confirm(): one command never counts two
\* issues, and no unhealthy outcome goes uncounted.
THEOREM CountingHolds == Spec => []IssueCountedOnce
<1>1. OutcomeInv => IssueCountedOnce
  BY DEF OutcomeInv, IssueCountedOnce, Shape
<1> QED
  BY <1>1, OutcomesHold, PTL

\* A failed, confirmed or superseded outcome is never judged again: only a new
\* command under its key replaces it.
THEOREM FinalHolds == Spec => FinalOutcomesStay
<1>1. OutcomeInv /\ [Next]_vars => [FinalStay]_vars
  BY NextStep
<1>2. [FinalStay]_vars =>
        [\A k \in Keys : conf[k].status \in FinalStatuses /\ conf'[k] # conf[k]
                           => op.phase = "sending" /\ op.key = k]_vars
  BY DEF FinalStay
<1> QED
  BY <1>1, <1>2, OutcomesHold, PTL DEF Spec, FinalOutcomesStay

-----------------------------------------------------------------------------
(* Pending values on display                                               *)

\* From the outcomes c to c2, the outcomes behind the values on display stay
\* what backs them.
StillBacked(c, c2) ==
    \A k \in OverlayKeys :
        c[k].status \in ConfirmableStatuses \cup {"confirmed"} =>
            /\ c2[k].expected = c[k].expected
            /\ c2[k].status \in ConfirmableStatuses \cup {"confirmed"}

\* Values that stay on display stay backed.
LEMMA DisplayKeeps ==
    ASSUME OverlayBacked, NEW keys, overlay' = ClearOverlays(keys),
           StillBacked(conf, conf')
    PROVE  OverlayBacked'
BY DEF OverlayBacked, ClearOverlays, StillBacked

\* Judging a command that is open or confirmed leaves it one of the two.
LEMMA JudgedBacked ==
    ASSUME OutcomeInv, NEW d, NEW h, NEW key
    PROVE  /\ StillBacked(conf, Confirm(conf, d, h))
           /\ StillBacked(conf, MarkUnconfirmed(Confirm(conf, d, h), key))
<1> DEFINE c == Confirm(conf, d, h)
           B == ConfirmableStatuses \cup {"confirmed"}
<1>1. ASSUME NEW k \in Keys, conf[k].status \in B
      PROVE  c[k].expected = conf[k].expected /\ c[k].status \in B
  <2>1. CheckedStatus(k, conf[k], d, h) \in B
    BY <1>1 DEF CheckedStatus, ConfirmableStatuses
  <2> QED BY <2>1 DEF Confirm, CheckedConfirmation, Judged
<1>2. \A k \in OverlayKeys : k \in Keys
  BY DEF OverlayKeys, Keys, BaseModeWrites
<1>3. StillBacked(conf, c)
  BY <1>1, <1>2 DEF StillBacked
<1> HIDE DEF c
<1>4. StillBacked(c, MarkUnconfirmed(c, key))
  <2>1. CASE c[key].status = "pending"
    BY <1>2, <2>1 DEF MarkUnconfirmed, SetStatus, Judged, StillBacked, ConfirmableStatuses
  <2>2. CASE c[key].status # "pending"
    BY <2>2 DEF MarkUnconfirmed, StillBacked
  <2> QED BY <2>1, <2>2
<1>5. StillBacked(conf, MarkUnconfirmed(c, key))
  BY <1>3, <1>4 DEF StillBacked
<1> QED BY <1>3, <1>5 DEF c

\* A read takes values off display only.
LEMMA FinishReadBacked ==
    ASSUME OutcomeInv, OverlayBacked,
           NEW kind, NEW key, NEW clearPreset, NEW d, NEW h, NEW sn, NEW pv,
           FinishRead(kind, key, clearPreset, d, h, sn, pv)
    PROVE  OverlayBacked'
<1>1. StillBacked(conf, conf')
  BY JudgedBacked DEF FinishRead
<1>2. \E keys : overlay' = ClearOverlays(keys)
  BY DEF FinishRead
<1> QED BY <1>1, <1>2, DisplayKeeps

\* A read of the room, by a poll or after a command, keeps the display backed.
LEMMA RoomReadBacked ==
    ASSUME OutcomeInv, OverlayBacked, NEW kind, NEW key, NEW clearPreset,
           RoomRead(kind, key, clearPreset)
    PROVE  OverlayBacked'
<1>1. CASE \E r \in Outcomes(kind), flow \in MeasuredFlows :
              ReadRoom(kind, key, clearPreset, r, flow)
  <2>1. PICK r \in Outcomes(kind), flow \in MeasuredFlows :
              ReadRoom(kind, key, clearPreset, r, flow)
    BY <1>1
  <2>2. \/ UNCHANGED <<conf, overlay>>
        \/ \E d, h, sn, pv : FinishRead(kind, key, clearPreset, d, h, sn, pv)
    BY <2>1, Zenon DEF ReadRoom
  <2>3. CASE UNCHANGED <<conf, overlay>>
    BY <2>3 DEF OverlayBacked
  <2> QED
    BY <2>2, <2>3, FinishReadBacked
<1>2. CASE RoomReadLost(kind, key, clearPreset)
  BY <1>2, FinishReadBacked DEF RoomReadLost
<1>3. CASE RoomReadDelayed(kind, key, clearPreset)
  BY <1>3, FinishReadBacked DEF RoomReadDelayed
<1> QED
  BY <1>1, <1>2, <1>3 DEF RoomRead

\* A command takes values off display before its requests are sent.
LEMMA CommandDisplay ==
    ASSUME Command
    PROVE  UNCHANGED overlay \/ \E keys : overlay' = ClearOverlays(keys)
<1> DEFINE G == UNCHANGED overlay \/ \E keys : overlay' = ClearOverlays(keys)
<1>1. ASSUME NEW level, AsyncSetLevel(level) PROVE G
  BY <1>1 DEF AsyncSetLevel, SetLevels
<1>2. ASSUME NEW s, NEW e, AsyncSetUnbalancedLevels(s, e) PROVE G
  BY <1>2 DEF AsyncSetUnbalancedLevels, SetLevels
<1>3. ASSUME NEW direction, NEW level, AsyncSetDirectionLevel(direction, level) PROVE G
  BY <1>3 DEF AsyncSetDirectionLevel, SetLevels
<1>0. ASSUME NEW mode, NEW clear, SetOperationModeLocked(mode, clear) PROVE G
  <2>1. \E keys : overlay' = ClearOverlays(keys)
    BY <1>0, Zenon DEF SetOperationModeLocked
  <2> QED BY <2>1
<1>4. ASSUME NEW mode, AsyncSetOperationMode(mode) PROVE G
  BY <1>0, <1>4 DEF AsyncSetOperationMode
<1>5. ASSUME AsyncSetInactive PROVE G
  BY <1>0, <1>5 DEF AsyncSetInactive
<1>6. ASSUME NEW preset, AsyncSetPresetMode(preset) PROVE G
  BY <1>6 DEF AsyncSetPresetMode
<1>7. ASSUME AsyncClearPresetMode PROVE G
  BY <1>0, <1>7 DEF AsyncClearPresetMode
<1>8. ASSUME NEW on, AsyncSetIntensive(on) PROVE G
  BY <1>8 DEF AsyncSetIntensive
<1> HIDE DEF G
<1>9. G
  BY <1>1, <1>2, <1>3, <1>4, <1>5, <1>6, <1>7, <1>8, Zenon DEF Command
<1> QED BY <1>9 DEF G

\* An accepted command shows its own value and takes those of the commands
\* it supersedes off display; a failed one takes its own off, a cancelled
\* one all.
LEMMA CompletionBacked ==
    ASSUME OutcomeInv, OverlayBacked, WriteAccepted \/ WriteFailed \/ WriteCancelled
    PROVE  OverlayBacked'
<1> DEFINE s == Supersede(conf, op.key)
           n == [status |-> "pending", expected |-> op.value, baseline |-> op.baseline,
                 counted |-> FALSE, age |-> "new"]
<1>1. \A k \in OverlayKeys : k \in Keys
  BY DEF OverlayKeys, Keys, BaseModeWrites
<1>2. CASE WriteAccepted
  <2>1. conf' = RecordPending(s, op.key, op.value, op.baseline)
    BY <1>2 DEF WriteAccepted, NewOutcome
  <2>2. s = [k \in Keys |-> s[k]]
    BY DEF Supersede
  <2>3. \A k \in Keys : conf'[k] = IF k = op.key THEN n ELSE s[k]
    BY <2>1, <2>2 DEF RecordPending
  <2>4. \A k \in Keys \ Superseded(op.key) : s[k] = conf[k]
    BY DEF Supersede
  <2>5. n.status = "pending" /\ n.expected = op.value
    OBVIOUS
  <2> HIDE DEF s, n
  <2>6. \A k \in OverlayKeys :
           overlay'[k] = IF k = op.key THEN OverlayOf(op.value)
                         ELSE IF k \in Superseded(op.key) THEN None ELSE overlay[k]
    BY <1>2 DEF WriteAccepted, ClearOverlays
  <2>7. OverlayOf(op.value).value = op.value
    BY DEF OverlayOf
  <2> SUFFICES ASSUME NEW k \in OverlayKeys, overlay'[k] # None
               PROVE  /\ overlay'[k].value = conf'[k].expected
                      /\ conf'[k].status \in ConfirmableStatuses \cup {"confirmed"}
    BY DEF OverlayBacked
  <2>8. CASE k = op.key
    BY <1>1, <2>3, <2>5, <2>6, <2>7, <2>8 DEF ConfirmableStatuses
  <2>9. CASE k # op.key
    BY <1>1, <2>3, <2>4, <2>6, <2>9 DEF OverlayBacked
  <2> QED BY <2>8, <2>9
<1>3. CASE WriteFailed
  <2> DEFINE q == RecordPending(conf, op.key, op.value, op.baseline)
             r == SetStatus(q, op.key, "failed")
  <2>1. conf' = r /\ overlay' = ClearOverlays({op.key})
    BY <1>3 DEF WriteFailed, NewOutcome
  <2>2. /\ Shape(q)
        /\ \A k \in Keys \ {op.key} : q[k] = conf[k]
    BY RecordPendingOpens DEF OutcomeInv
  <2> HIDE DEF q
  <2>3. Shape(q)
    BY <2>2
  <2>4. /\ Shape(r)
        /\ op.key \in Keys => r[op.key].status = "failed"
        /\ \A k \in Keys \ {op.key} : r[k] = q[k]
        /\ \A k \in Keys : q[k].counted = TRUE => r[k].counted = TRUE
    BY <2>3, SetStatusOpens
  <2> HIDE DEF r
  <2> QED BY <1>1, <2>1, <2>2, <2>4 DEF OverlayBacked, ClearOverlays
<1>4. CASE WriteCancelled
  BY <1>4 DEF WriteCancelled, OverlayBacked, ClearOverlays
<1> QED BY <1>2, <1>3, <1>4

\* Every step keeps the values on display backed.
LEMMA NextBacked ==
    ASSUME OutcomeInv, OverlayBacked, [Next]_vars
    PROVE  OverlayBacked'
<1>1. CASE Command
  <2>1. StillBacked(conf, conf') /\ conf' = conf
    BY <1>1, CommandStep DEF StillBacked
  <2> QED BY <1>1, <2>1, CommandDisplay, DisplayKeeps DEF OverlayBacked
<1>2. CASE WriteAccepted \/ WriteFailed \/ WriteCancelled
  BY <1>2, CompletionBacked
<1>3. CASE Poll \/ RefreshRoomAfterWrite
  BY <1>3, RoomReadBacked DEF Poll, RefreshRoomAfterWrite
<1>4. ASSUME NEW answered \in BOOLEAN, ReadBalancedTarget(answered)
      PROVE  OverlayBacked'
  BY <1>4, FinishReadBacked DEF ReadBalancedTarget
<1>5. ASSUME NEW key \in Keys, ConfirmationAges(key)
      PROVE  OverlayBacked'
  <2> DEFINE a == IF conf[key].status = "pending" /\ conf[key].age = "new" THEN "late" ELSE "old"
  <2>1. conf' = [conf EXCEPT ![key].age = a] /\ overlay' = overlay
    BY <1>5 DEF ConfirmationAges
  <2> HIDE DEF a
  <2>2. \A k \in Keys : conf'[k].status = conf[k].status /\ conf'[k].expected = conf[k].expected
    BY <2>1 DEF OutcomeInv, Shape
  <2>3. \A k \in OverlayKeys : k \in Keys
    BY DEF OverlayKeys, Keys, BaseModeWrites
  <2> QED BY <2>1, <2>2, <2>3 DEF OverlayBacked
<1>6. ASSUME NEW key, OverlayExpires(key)
      PROVE  OverlayBacked'
  <2>1. overlay' = ClearOverlays({key}) /\ conf' = conf
    BY <1>6 DEF OverlayExpires
  <2> QED BY <2>1 DEF OverlayBacked, ClearOverlays
<1>7. CASE UNCHANGED <<conf, overlay>>
  BY <1>7 DEF OverlayBacked
<1>8. CASE ReadCancelled \/ LevelsQueried \/ AppChanges \/ UNCHANGED vars
  BY <1>7, <1>8 DEF ReadCancelled, LevelsQueried, AppChanges, vars
<1>9. ASSUME NEW g, GroupAges(g)
      PROVE  OverlayBacked'
  BY <1>7, <1>9 DEF GroupAges
<1> QED
  BY <1>1, <1>2, <1>3, <1>4, <1>5, <1>6, <1>8, <1>9 DEF Next

\* A pending value on display is the one the last command under its key asked
\* for, and that command was accepted and neither failed nor was superseded
\* (_async_write_with_confirmation_locked, OptimisticOverlay).
THEOREM OverlayHolds == Spec => []OverlayBacked
<1>1. Init => OverlayBacked
  BY DEF Init, OverlayBacked
<1>2. OutcomeInv /\ OverlayBacked /\ [Next]_vars => OverlayBacked'
  BY NextBacked
<1> QED
  BY <1>1, <1>2, OutcomesHold, PTL DEF Spec

-----------------------------------------------------------------------------
(* Types                                                                   *)

OpFields == {"phase", "key", "value", "base", "intensive", "baseline", "readBack",
             "clearPreset", "direction", "fallback", "derived", "src", "kind",
             "data", "health", "seen", "prov"}

\* The lock holder: its record, what a command sends, that a read is left to
\* judge it, and the read that a poll has not published yet.
OpType ==
    /\ DOMAIN op = OpFields
    /\ op.phase \in {"idle", "sending", "settling", "target"}
    /\ op.phase = "sending" =>
          /\ op.key \in Keys
          /\ op.base \in Bases \cup {None} /\ op.intensive \in BOOLEAN \cup {None}
          /\ op.baseline = health["mode"].at
          /\ op.key = "airflow_levels" => op.value \in Pairs
    /\ op.phase \in {"sending", "settling"} => reads < MaxReads
    /\ op.phase = "target" => op.data \in RoomStates /\ op.health \in Health

ConfType(c) ==
    \A k \in Keys : /\ c[k].status \in Statuses \cup {"none"}
                    /\ c[k].baseline \in Stamps
                    /\ c[k].counted \in BOOLEAN
                    /\ c[k].age \in {"new", "late", "old"}

OverlayType ==
    /\ \A k \in OverlayKeys :
          overlay[k] = None \/ (overlay[k].flow \in Stamps /\ overlay[k].mode \in Stamps)
    /\ overlay["airflow_levels"] = None \/ overlay["airflow_levels"].value \in Pairs

MarkerType ==
    /\ uncertain \in Markers \cup {None}
    /\ fallback \in Stamps \cup {None}

CountType == reads \in Stamps /\ writes \in 0 .. MaxWrites /\ changes \in 0 .. MaxChanges

TypeInv ==
    /\ unit \in UnitStates /\ data \in RoomStates /\ health \in Health
    /\ ConfType(conf) /\ OverlayType /\ MarkerType /\ OpType /\ CountType

\* The invariant is the type invariant and more.
LEMMA TypeInvImplies == TypeInv => TypeOK
BY DEF TypeInv, TypeOK, ConfType, OverlayType, MarkerType, OpType, CountType, Markers

\* The numbers of the reads are natural numbers, and the first read has one.
LEMMA StampsType == Stamps \subseteq Nat /\ 0 \in Stamps /\ 1 \in Stamps
BY BoundsAssumption DEF Stamps

\* A pair is two levels.
LEMMA PairParts ==
    /\ \A p \in Pairs : p[1] \in Level0 /\ p[2] \in Level0
    /\ \A a, b \in Level0 : <<a, b>> \in Pairs
    /\ 0 \in Level0 /\ None \notin Level0 /\ None \notin Pairs
BY NoneAssumption DEF Pairs, Level0

\* The sides of a pair are levels, and a balanced airflow is a pair.
LEMMA SidesType ==
    ASSUME NEW p \in Pairs \cup {None}
    PROVE  /\ Supply(p) \in Level0 \cup {None} /\ Extract(p) \in Level0 \cup {None}
           /\ p # None => Supply(p) \in Level0 /\ Extract(p) \in Level0
           /\ DeriveBalancedAirflow(p) \in Pairs \cup {None}
BY PairParts DEF Supply, Extract, DeriveBalancedAirflow

\* The first known of two values has their type.
LEMMA FirstKnownType ==
    ASSUME NEW S, NEW a \in S \cup {None}, NEW b \in S \cup {None}
    PROVE  /\ FirstKnown(a, b) \in S \cup {None}
           /\ None \notin S /\ (a # None \/ b # None) => FirstKnown(a, b) \in S
BY DEF FirstKnown

\* The base settings of the commands.
LEMMA BasesType ==
    /\ Off \in Bases /\ Sensor \in Bases
    /\ \A l \in Level0 : Manual(l) \in Bases
    /\ \A s, e \in Level0 : Unbalanced(s, e) \in Bases
    /\ \A p \in Presets : Quick(p) \in Bases
<1>1. {"off", "manual", "unbalanced", "sensor"} = Modes
  BY DEF Modes
<1>2. Off \in Bases /\ Sensor \in Bases
  BY <1>1, PairParts DEF Off, Sensor, Bases
<1>3. \A l \in Level0 : Manual(l) \in Bases
  BY <1>1, PairParts DEF Manual, Bases
<1>4. \A s, e \in Level0 : Unbalanced(s, e) \in Bases
  BY <1>1, PairParts DEF Unbalanced, Bases
<1>5. \A p \in Presets : Quick(p) \in Bases
  BY <1>1 DEF Quick, Bases
<1> QED BY <1>2, <1>3, <1>4, <1>5

\* Register 41121 holds a level or a code that is no airflow.
LEMMA SetRegisterType == \A b \in Bases : SetRegister(b) \in Level0 \cup {None}
<1> TAKE b \in Bases
<1>1. b.levels \in Pairs \cup {None}
  BY DEF Bases
<1> QED BY <1>1, SidesType DEF SetRegister

\* What a mode status block leaves in the room state.
LEMMA ModeReadFields ==
    ASSUME NEW d \in RoomStates, NEW u \in UnitStates
    PROVE  LET r == ApplyModeRead(d, u)
           IN  /\ r \in RoomStates
               /\ u.intensive => r.intensive = TRUE
               /\ ~u.intensive =>
                    /\ r.mode = u.base.mode /\ r.preset = u.base.preset
                    /\ r.intensive = FALSE /\ r.readback = None
                    /\ u.base.mode = "unbalanced" => r.target = u.base.levels
<1> DEFINE r == ApplyModeRead(d, u)
<1>1. u # None /\ u.intensive \in BOOLEAN /\ u.base \in Bases
  BY NoneAssumption DEF UnitStates
<1>2. /\ u.base.mode \in Modes /\ u.base.preset \in Presets \cup AppPresets \cup {None}
      /\ u.base.levels \in Pairs \cup {None}
  BY <1>1 DEF Bases
<1>3. CASE u.intensive
  <2>1. r = [d EXCEPT !.intensive = TRUE]
    BY <1>1, <1>3 DEF ApplyModeRead
  <2> QED BY <1>3, <2>1 DEF RoomStates
<1>4. CASE ~u.intensive
  <2> DEFINE t == IF u.base.mode = "unbalanced" THEN u.base.levels
                  ELSE FirstKnown(u.base.levels, DeriveBalancedAirflow(d.flow))
  <2>1. t \in Pairs \cup {None}
    <3>1. d.flow \in Pairs \cup {None}
      BY DEF RoomStates
    <3>2. DeriveBalancedAirflow(d.flow) \in Pairs \cup {None}
      BY <3>1, SidesType
    <3> QED BY <1>2, <3>2, FirstKnownType
  <2>2. r = [d EXCEPT !.mode = u.base.mode, !.preset = u.base.preset, !.intensive = FALSE,
                      !.readback = None, !.target = t]
    BY <1>1, <1>4 DEF ApplyModeRead
  <2> HIDE DEF t
  <2>3. /\ r.mode = u.base.mode /\ r.preset = u.base.preset
        /\ r.intensive = FALSE /\ r.readback = None /\ r.target = t
    BY <2>2 DEF RoomStates
  <2>4. r \in RoomStates
    BY <1>2, <2>1, <2>2 DEF RoomStates
  <2> QED BY <1>4, <2>3, <2>4 DEF t
<1> QED BY <1>1, <1>3, <1>4

\* A room state whose mode block was not read.
LEMMA NoModeReadType ==
    ASSUME NEW d \in RoomStates
    PROVE  ApplyModeRead(d, None) \in RoomStates
<1> DEFINE r == ApplyModeRead(d, None)
           t == IF d.mode = "unbalanced" THEN d.target
                ELSE FirstKnown(None, DeriveBalancedAirflow(d.flow))
<1>1. d.flow \in Pairs \cup {None} /\ d.target \in Pairs \cup {None}
  BY DEF RoomStates
<1>2. DeriveBalancedAirflow(d.flow) \in Pairs \cup {None}
  BY <1>1, SidesType
<1>3. t \in Pairs \cup {None}
  BY <1>1, <1>2 DEF FirstKnown
<1>4. r = [d EXCEPT !.mode = d.mode, !.preset = d.preset, !.intensive = d.intensive,
                    !.readback = None, !.target = t]
  BY DEF ApplyModeRead
<1> HIDE DEF t
<1> QED BY <1>3, <1>4 DEF RoomStates

\* The levels reported are a pair or unknown.
LEMMA ReportedLevelsType ==
    ASSUME NEW d \in RoomStates, NEW h
    PROVE  ReportedLevels(d, h) \in Pairs \cup {None}
<1>1. /\ d.flow \in Pairs \cup {None} /\ d.target \in Pairs \cup {None}
      /\ d.readback \in Level0 \cup {None}
  BY DEF RoomStates
<1>2. ASSUME NEW fresh PROVE TargetLevels(d, fresh) \in Pairs \cup {None}
  <2> DEFINE measured == IF fresh THEN d.flow ELSE None
             common == IF d.readback # None THEN <<d.readback, d.readback>>
                       ELSE IF d.preset \in Presets /\ ~fresh THEN None ELSE d.target
  <2>1. measured \in Pairs \cup {None} /\ common \in Pairs \cup {None}
    BY <1>1, PairParts
  <2>2. TargetLevels(d, fresh) =
          CASE d.mode = "off" -> <<0, 0>>
            [] d.mode = "unbalanced" -> FirstKnown(d.target, measured)
            [] d.mode = "sensor" -> measured
            [] OTHER -> FirstKnown(common, measured)
    BY DEF TargetLevels
  <2> HIDE DEF measured, common
  <2>3. FirstKnown(d.target, measured) \in Pairs \cup {None}
    BY <1>1, <2>1, FirstKnownType
  <2>4. FirstKnown(common, measured) \in Pairs \cup {None}
    BY <2>1, FirstKnownType
  <2> QED BY <2>1, <2>2, <2>3, <2>4, PairParts
<1> QED BY <1>1, <1>2 DEF ReportedLevels

\* ... and so are the levels a command starts from.
LEMMA EffectiveLevelsType ==
    ASSUME TypeInv
    PROVE  EffectiveLevels \in Pairs \cup {None}
BY ReportedLevelsType DEF EffectiveLevels, TypeInv, OverlayType

\* The levels a mode command is built from are known when its guard holds.
LEMMA ModeLevelsType ==
    ASSUME TypeInv
    PROVE  /\ BalancedLevel \in Level0 \cup {None}
           /\ BalancedLevel # None => ExtractLevel \in Level0
<1> DEFINE e == EffectiveLevels
<1>1. e \in Pairs \cup {None} /\ data.target \in Pairs \cup {None} /\ data.flow \in Pairs \cup {None}
  BY EffectiveLevelsType DEF TypeInv, RoomStates
<1> HIDE DEF e
<1>2. /\ Supply(e) \in Level0 \cup {None} /\ Extract(e) \in Level0 \cup {None}
      /\ Supply(data.target) \in Level0 \cup {None} /\ Extract(data.target) \in Level0 \cup {None}
      /\ Supply(data.flow) \in Level0 \cup {None} /\ Extract(data.flow) \in Level0 \cup {None}
  BY <1>1, SidesType
<1>3. BalancedLevel \in Level0 \cup {None}
  BY <1>2 DEF BalancedLevel, FirstKnown, e
<1>4. None \notin Level0
  BY PairParts
<1> QED BY <1>2, <1>3, <1>4 DEF ExtractLevel, FirstKnown, e

\* A planned directional write is a pair: an unknown opposite level is never
\* part of it.
LEMMA PlanType ==
    ASSUME TypeInv, NEW levels \in Pairs \cup {None}, NEW direction, NEW level \in Level0
    PROVE  PlanDirectionWrite(levels, direction, level) \in Pairs
<1>1. OtherLevel(levels, direction) \in Level0 \cup {None}
  BY SidesType DEF OtherLevel
<1> QED BY <1>1, PairParts DEF PlanDirectionWrite

\* What a command that begins to send has in common with every other.
Sent(o) ==
    /\ DOMAIN o = OpFields
    /\ o.phase = "sending" /\ o.key \in Keys
    /\ o.base \in Bases \cup {None} /\ o.intensive \in BOOLEAN \cup {None}
    /\ o.baseline = health["mode"].at
    /\ o.key = "airflow_levels" => o.value \in Pairs

\* A command under a write key begins to send.
LEMMA SendingSent ==
    ASSUME NEW key \in Keys, NEW value, NEW base \in Bases \cup {None},
           NEW intensive \in BOOLEAN \cup {None}, NEW readBack,
           key = "airflow_levels" => value \in Pairs
    PROVE  LET o == Sending(key, value, base, intensive, readBack)
           IN  /\ Sent(o)
               /\ o.derived = FALSE /\ o.key = key
<1> DEFINE o == Sending(key, value, base, intensive, readBack)
<1>1. DOMAIN o = OpFields
  BY DEF Sending, Idle, OpFields
<1>2. /\ o.phase = "sending" /\ o.key = key /\ o.value = value /\ o.base = base
      /\ o.intensive = intensive /\ o.baseline = health["mode"].at /\ o.derived = FALSE
  BY DEF Sending, Idle
<1> HIDE DEF o
<1> QED BY <1>1, <1>2 DEF Sent, o

\* A command for a pair of levels begins to send.
LEMMA SendingLevelsSent ==
    ASSUME NEW pair \in Pairs
    PROVE  Sent(SendingLevels(pair)) /\ SendingLevels(pair).derived = FALSE
<1> DEFINE b == IF pair = <<0, 0>> THEN Off
                ELSE IF pair[1] = pair[2] THEN Manual(pair[1]) ELSE Unbalanced(pair[1], pair[2])
           i == IF pair = <<0, 0>> THEN FALSE ELSE None
<1>1. b \in Bases \cup {None} /\ i \in BOOLEAN \cup {None}
  BY BasesType, PairParts
<1>2. SendingLevels(pair) = Sending("airflow_levels", pair, b, i, FALSE)
  BY DEF SendingLevels
<1>3. "airflow_levels" \in Keys
  BY DEF Keys, BaseModeWrites
<1> HIDE DEF b, i
<1>4. /\ Sent(Sending("airflow_levels", pair, b, i, FALSE))
      /\ Sending("airflow_levels", pair, b, i, FALSE).derived = FALSE
  BY <1>1, <1>3, SendingSent
<1> QED BY <1>2, <1>4

\* A directional command is a level command with notes for the outcome.
LEMMA DirectionSent ==
    ASSUME NEW pair \in Pairs, NEW f, NEW v, NEW s
    PROVE  Sent([SendingLevels(pair) EXCEPT !.direction = TRUE, !.fallback = f,
                                            !.derived = v, !.src = s])
<1> DEFINE o == SendingLevels(pair)
<1>1. Sent(o)
  BY SendingLevelsSent
<1> HIDE DEF o
<1>2. Sent([o EXCEPT !.direction = TRUE, !.fallback = f, !.derived = v, !.src = s])
  BY <1>1 DEF Sent, OpFields
<1> QED BY <1>2 DEF o

\* _async_set_operation_mode_locked.
LEMMA ModeSent ==
    ASSUME TypeInv, NEW mode \in Modes, NEW clear, SetOperationModeLocked(mode, clear)
    PROVE  Sent(op')
<1> DEFINE b == CASE mode = "off" -> Off
                  [] mode = "manual" -> Manual(BalancedLevel)
                  [] mode = "unbalanced" -> Unbalanced(BalancedLevel, ExtractLevel)
                  [] mode = "sensor" -> Sensor
           i == IF mode = "off" THEN FALSE ELSE None
           o == Sending("operation_mode", mode, b, i, TRUE)
<1>1. mode \in {"manual", "unbalanced"} => BalancedLevel # None
  BY DEF SetOperationModeLocked
<1>2. b \in Bases \cup {None}
  <2>1. CASE mode \in {"manual", "unbalanced"}
    BY <1>1, <2>1, ModeLevelsType, BasesType
  <2>2. CASE mode \notin {"manual", "unbalanced"}
    BY <2>2, BasesType DEF Modes
  <2> QED BY <2>1, <2>2
<1>3. i \in BOOLEAN \cup {None} /\ "operation_mode" \in Keys
  BY DEF Keys, BaseModeWrites
<1>4. \E c, v, s : op' = [o EXCEPT !.clearPreset = c, !.derived = v, !.src = s]
  BY DEF SetOperationModeLocked
<1> HIDE DEF b, i
<1>5. Sent(o)
  BY <1>2, <1>3, SendingSent
<1> HIDE DEF o
<1> QED BY <1>4, <1>5 DEF Sent, OpFields

\* What every command does: it begins to send, unless there is no quick mode
\* to clear, and one that builds on cached levels has no marker to respect.
Begins ==
    /\ \E command : Locked(command)
    /\ Sent(op') /\ writes' = writes + 1
    /\ \/ op'.derived = FALSE /\ uncertain' = uncertain
       \/ ~FlowWriteUncertain /\ uncertain' = None

\* Every command begins to send or leaves the lock alone, and touches no outcome.
LEMMA CommandBegins ==
    ASSUME TypeInv, Command
    PROVE  /\ UNCHANGED <<unit, data, health, conf, fallback, reads, changes, history>>
           /\ Begins \/ UNCHANGED <<op, uncertain, writes>>
<1> DEFINE Rest == UNCHANGED <<unit, data, health, conf, fallback, reads, changes, history>>
           Goal == Rest /\ (Begins \/ UNCHANGED <<op, uncertain, writes>>)
<1>1. ASSUME NEW level \in Level0, AsyncSetLevel(level) PROVE Goal
  <2>1. <<level, level>> \in Pairs
    BY PairParts
  <2>2. Sent(op') /\ op'.derived = FALSE
    BY <1>1, <2>1, SendingLevelsSent DEF AsyncSetLevel, SetLevels
  <2> QED BY <1>1, <2>2 DEF AsyncSetLevel, Begins
<1>2. ASSUME NEW s \in Level0, NEW e \in Level0, AsyncSetUnbalancedLevels(s, e) PROVE Goal
  <2>1. <<s, e>> \in Pairs
    BY PairParts
  <2>2. Sent(op') /\ op'.derived = FALSE
    BY <1>2, <2>1, SendingLevelsSent DEF AsyncSetUnbalancedLevels, SetLevels
  <2> QED BY <1>2, <2>2 DEF AsyncSetUnbalancedLevels, Begins
<1>3. ASSUME NEW direction, NEW level \in Level0, AsyncSetDirectionLevel(direction, level)
      PROVE Goal
  <2> DEFINE planned == PlanDirectionWrite(EffectiveLevels, direction, level)
  <2>1. planned \in Pairs
    BY EffectiveLevelsType, PlanType
  <2>2. PICK f, v, s : op' = [SendingLevels(planned) EXCEPT !.direction = TRUE, !.fallback = f,
                                            !.derived = v, !.src = s]
    BY <1>3 DEF AsyncSetDirectionLevel, SetLevels
  <2> HIDE DEF planned
  <2>3. Sent(op')
    BY <2>1, <2>2, DirectionSent
  <2> QED BY <1>3, <2>3 DEF AsyncSetDirectionLevel, Begins
<1>4. ASSUME NEW mode \in Modes, AsyncSetOperationMode(mode) PROVE Goal
  <2>1. Sent(op')
    BY <1>4, ModeSent DEF AsyncSetOperationMode
  <2> QED BY <1>4, <2>1 DEF AsyncSetOperationMode, SetOperationModeLocked, Begins
<1>5. ASSUME AsyncSetInactive PROVE Goal
  <2>1. "manual" \in Modes
    BY DEF Modes
  <2>2. Sent(op')
    BY <1>5, <2>1, ModeSent DEF AsyncSetInactive
  <2> QED BY <1>5, <2>2 DEF AsyncSetInactive, SetOperationModeLocked, Begins
<1>6. ASSUME NEW preset \in Presets, AsyncSetPresetMode(preset) PROVE Goal
  <2> DEFINE o == Sending("preset_mode", preset, Quick(preset), FALSE, TRUE)
  <2>0. "preset_mode" \in Keys /\ Quick(preset) \in Bases \cup {None} /\ FALSE \in BOOLEAN \cup {None}
    BY BasesType DEF Keys, BaseModeWrites
  <2>1. Sent(o)
    BY <2>0, SendingSent
  <2>3. o.derived = FALSE
    BY DEF Sending, Idle
  <2>2. op' = o
    BY <1>6 DEF AsyncSetPresetMode
  <2> HIDE DEF o
  <2> QED BY <1>6, <2>1, <2>2, <2>3 DEF AsyncSetPresetMode, Begins
<1>7. ASSUME AsyncClearPresetMode PROVE Goal
  <2>1. CASE EffectivePreset = None
    BY <1>7, <2>1 DEF AsyncClearPresetMode
  <2>2. CASE EffectivePreset # None
    <3> DEFINE mode == IF EffectivePreset \in AppPresets THEN "unbalanced" ELSE "manual"
    <3>1. mode \in Modes
      BY DEF Modes
    <3>2. SetOperationModeLocked(mode, TRUE)
      BY <1>7, <2>2 DEF AsyncClearPresetMode
    <3> HIDE DEF mode
    <3>3. Sent(op')
      BY <3>1, <3>2, ModeSent
    <3> QED BY <1>7, <3>2, <3>3 DEF AsyncClearPresetMode, SetOperationModeLocked, Begins
  <2> QED BY <2>1, <2>2
<1>8. ASSUME NEW on \in BOOLEAN, AsyncSetIntensive(on) PROVE Goal
  <2> DEFINE o == Sending("intensive", on, None, on, TRUE)
  <2>0. "intensive" \in Keys /\ None \in Bases \cup {None} /\ on \in BOOLEAN \cup {None}
    BY DEF Keys
  <2>1. Sent(o)
    BY <2>0, SendingSent
  <2>3. o.derived = FALSE
    BY DEF Sending, Idle
  <2>2. op' = o
    BY <1>8 DEF AsyncSetIntensive
  <2> HIDE DEF o
  <2> QED BY <1>8, <2>1, <2>2, <2>3 DEF AsyncSetIntensive, Begins
<1> HIDE DEF Goal
<1>9. Goal
  BY <1>1, <1>2, <1>3, <1>4, <1>5, <1>6, <1>7, <1>8, Zenon DEF Command
<1> QED BY <1>9 DEF Goal

\* A command keeps the types.
LEMMA CommandType ==
    ASSUME TypeInv, Command
    PROVE  TypeInv'
<1>1. UNCHANGED overlay \/ \E keys : overlay' = ClearOverlays(keys)
  BY CommandDisplay
<1>2. UNCHANGED <<unit, data, health, conf, fallback, reads, changes>>
  BY CommandBegins
<1>3. OverlayType'
  <2>1. "airflow_levels" \in OverlayKeys
    BY DEF OverlayKeys
  <2> QED BY <1>1, <2>1 DEF TypeInv, OverlayType, ClearOverlays
<1>4. CASE Begins
  <2>1. OpType'
    BY <1>2, <1>4 DEF Begins, Sent, OpType, Locked
  <2>2. CountType'
    BY <1>2, <1>4, BoundsAssumption DEF Begins, TypeInv, CountType, Locked
  <2>3. MarkerType'
    BY <1>2, <1>4 DEF Begins, TypeInv, MarkerType
  <2> QED BY <1>2, <1>3, <2>1, <2>2, <2>3 DEF TypeInv, ConfType
<1>5. CASE UNCHANGED <<op, uncertain, writes>>
  BY <1>2, <1>3, <1>5 DEF TypeInv, OpType, CountType, MarkerType, ConfType
<1> QED BY <1>4, <1>5, CommandBegins

\* What a write may do to the unit.
LEMMA WrittenUnit ==
    ASSUME TypeInv, op.phase = "sending"
    PROVE  Applied(unit, op) \in UnitStates /\ Staged(unit, op) \in UnitStates
<1>1. /\ unit.base \in Bases /\ unit.intensive \in BOOLEAN /\ unit.set \in Level0 \cup {None}
      /\ unit \in UnitStates
      /\ op.base \in Bases \cup {None} /\ op.intensive \in BOOLEAN \cup {None}
  BY DEF TypeInv, OpType, UnitStates
<1> DEFINE b == FirstKnown(op.base, unit.base)
           i == FirstKnown(op.intensive, unit.intensive)
           s == IF op.base = None THEN unit.set ELSE SetRegister(op.base)
<1>2. b \in Bases /\ i \in BOOLEAN
  BY <1>1 DEF FirstKnown
<1>3. s \in Level0 \cup {None}
  BY <1>1, SetRegisterType
<1>4. Applied(unit, op) = [base |-> b, intensive |-> i, set |-> s]
  BY DEF Applied
<1> HIDE DEF b, i, s
<1>5. Applied(unit, op).set = s
  BY <1>4
<1>6. Staged(unit, op) = [unit EXCEPT !.set = s]
  BY <1>5 DEF Staged
<1> QED BY <1>1, <1>2, <1>3, <1>4, <1>6 DEF UnitStates

\* The outcome of a completed command is a typed outcome.
LEMMA CompletionConf ==
    ASSUME OutcomeInv, TypeInv, WriteAccepted \/ WriteFailed \/ WriteCancelled
    PROVE  ConfType(conf')
<1>1. op.baseline \in Stamps
  BY DEF WriteAccepted, WriteFailed, WriteCancelled, TypeInv, OpType, Health, Groups
<1> DEFINE n == [status |-> "pending", expected |-> op.value, baseline |-> op.baseline,
                 counted |-> FALSE, age |-> "new"]
<1>2. ASSUME NEW c, c = [k \in Keys |-> c[k]], ConfType(c)
      PROVE  LET p == RecordPending(c, op.key, op.value, op.baseline)
             IN  p = [k \in Keys |-> p[k]] /\ ConfType(p)
  <2> DEFINE p == RecordPending(c, op.key, op.value, op.baseline)
  <2>1. p = [k \in Keys |-> IF k = op.key THEN n ELSE c[k]]
    BY <1>2 DEF RecordPending
  <2>2. /\ n.status = "pending" /\ n.baseline = op.baseline
        /\ n.counted = FALSE /\ n.age = "new"
    OBVIOUS
  <2> HIDE DEF n, p
  <2>3. ConfType(p)
    BY <1>1, <1>2, <2>1, <2>2 DEF ConfType, Statuses, ConfirmableStatuses
  <2> QED BY <2>1, <2>3 DEF p
<1>3. ASSUME NEW c, ConfType(c), NEW key, NEW status \in Statuses
      PROVE  ConfType(SetStatus(c, key, status))
  BY <1>3 DEF ConfType, SetStatus, Judged
<1>4. conf = [k \in Keys |-> conf[k]] /\ ConfType(conf)
  BY DEF OutcomeInv, Shape, TypeInv
<1> DEFINE s == Supersede(conf, op.key)
<1>5. s = [k \in Keys |-> s[k]] /\ ConfType(s)
  <2>1. \A k \in Keys : s[k] = conf[k] \/ s[k] = [conf[k] EXCEPT !.status = "superseded"]
    BY DEF Supersede
  <2>2. s = [k \in Keys |-> s[k]]
    BY DEF Supersede
  <2> HIDE DEF s
  <2> QED BY <1>4, <2>1, <2>2 DEF ConfType, OutcomeInv, Shape, Statuses, FinalStatuses
<1> HIDE DEF s, n
<1> DEFINE p == RecordPending(s, op.key, op.value, op.baseline)
           q == RecordPending(conf, op.key, op.value, op.baseline)
<1>6. ConfType(p) /\ ConfType(q)
  BY <1>2, <1>4, <1>5
<1>7. \/ conf' = p
      \/ conf' = SetStatus(q, op.key, "failed")
      \/ conf' = MarkUnconfirmed(p, op.key)
  BY DEF WriteAccepted, WriteFailed, WriteCancelled, NewOutcome, s
<1>8. "failed" \in Statuses /\ "unconfirmed" \in Statuses
  BY DEF Statuses, FinalStatuses, ConfirmableStatuses
<1> HIDE DEF p, q
<1>9. ConfType(SetStatus(q, op.key, "failed")) /\ ConfType(SetStatus(p, op.key, "unconfirmed"))
  BY <1>3, <1>6, <1>8
<1>10. MarkUnconfirmed(p, op.key) = p \/ MarkUnconfirmed(p, op.key) = SetStatus(p, op.key, "unconfirmed")
  BY DEF MarkUnconfirmed
<1> QED BY <1>6, <1>7, <1>9, <1>10

\* The requests of a command end.
LEMMA CompletionType ==
    ASSUME OutcomeInv, TypeInv, WriteAccepted \/ WriteFailed \/ WriteCancelled
    PROVE  TypeInv'
<1>1. op.phase = "sending"
  BY DEF WriteAccepted, WriteFailed, WriteCancelled
<1>2. unit' \in UnitStates
  BY <1>1, WrittenUnit DEF WriteAccepted, WriteFailed, WriteCancelled, TypeInv
<1>3. ConfType(conf')
  BY CompletionConf
<1>4. health["flow"].at \in Stamps /\ health["mode"].at \in Stamps
  BY DEF TypeInv, Health, Groups
<1>5. OverlayType'
  <2>1. "airflow_levels" \in OverlayKeys
    BY DEF OverlayKeys
  <2>2. CASE WriteAccepted
    <3>1. \A k \in OverlayKeys : \/ overlay'[k] = overlay[k] \/ overlay'[k] = None
                                 \/ k = op.key /\ overlay'[k] = OverlayOf(op.value)
      BY <2>2 DEF WriteAccepted, ClearOverlays
    <3>2. /\ OverlayOf(op.value).value = op.value
          /\ OverlayOf(op.value).flow \in Stamps /\ OverlayOf(op.value).mode \in Stamps
      BY <1>4 DEF OverlayOf
    <3>3. op.key = "airflow_levels" => op.value \in Pairs
      BY <1>1 DEF TypeInv, OpType
    <3> QED BY <2>1, <3>1, <3>2, <3>3 DEF TypeInv, OverlayType
  <2>3. CASE WriteFailed \/ WriteCancelled
    BY <2>1, <2>3 DEF WriteFailed, WriteCancelled, ClearOverlays, TypeInv, OverlayType
  <2> QED BY <2>2, <2>3
<1>6. MarkerType'
  <2>1. op.baseline \in Stamps
    BY <1>1, <1>4 DEF TypeInv, OpType
  <2> QED
    BY <1>4, <2>1 DEF WriteAccepted, WriteFailed, WriteCancelled, TypeInv, MarkerType, Markers
<1>7. OpType'
  <2>1. \A kind : /\ DOMAIN Settling(kind) = OpFields /\ Settling(kind).phase = "settling"
                  /\ Settling(kind).derived = FALSE
    BY DEF Settling, Idle, OpFields
  <2>2. DOMAIN Idle = OpFields /\ Idle.phase = "idle"
    BY DEF Idle, OpFields
  <2>3. op' = Idle \/ \E kind : op' = Settling(kind)
    BY DEF WriteAccepted, WriteFailed, WriteCancelled
  <2>4. reads' = reads /\ reads < MaxReads
    BY <1>1 DEF WriteAccepted, WriteFailed, WriteCancelled, TypeInv, OpType
  <2> HIDE DEF Settling, Idle
  <2> QED BY <2>1, <2>2, <2>3, <2>4 DEF OpType
<1>8. data' \in RoomStates /\ health' \in Health /\ CountType'
  BY DEF WriteAccepted, WriteFailed, WriteCancelled, TypeInv, CountType
<1> QED BY <1>2, <1>3, <1>5, <1>6, <1>7, <1>8 DEF TypeInv, ConfType

\* The judgement of a read keeps the outcomes typed.
LEMMA JudgedConf ==
    ASSUME ConfType(conf), NEW d, NEW h, NEW key
    PROVE  ConfType(Confirm(conf, d, h)) /\ ConfType(MarkUnconfirmed(Confirm(conf, d, h), key))
<1> DEFINE c == Confirm(conf, d, h)
<1>1. ASSUME NEW k \in Keys
      PROVE  /\ c[k].status \in Statuses \cup {"none"} /\ c[k].baseline = conf[k].baseline
             /\ c[k].counted \in BOOLEAN /\ c[k].age = conf[k].age
  <2>1. CheckedStatus(k, conf[k], d, h) \in Statuses \cup {"none"}
    BY DEF ConfType, CheckedStatus, Statuses, ConfirmableStatuses, FinalStatuses
  <2> QED BY <2>1 DEF Confirm, CheckedConfirmation, Judged
<1>2. ConfType(c)
  BY <1>1 DEF ConfType
<1> HIDE DEF c
<1>3. ConfType(MarkUnconfirmed(c, key))
  BY <1>2 DEF ConfType, MarkUnconfirmed, SetStatus, Judged, Statuses, ConfirmableStatuses
<1> QED BY <1>2, <1>3 DEF c

\* A read is published.
LEMMA FinishReadType ==
    ASSUME TypeInv, NEW kind, NEW key, NEW clearPreset, NEW d \in RoomStates, NEW h \in Health,
           NEW sn, NEW pv, FinishRead(kind, key, clearPreset, d, h, sn, pv),
           reads' \in Stamps, UNCHANGED <<unit, uncertain, writes, changes>>
    PROVE  TypeInv'
<1>1. ConfType(conf')
  BY JudgedConf DEF FinishRead, TypeInv
<1>2. OverlayType'
  <2>1. "airflow_levels" \in OverlayKeys
    BY DEF OverlayKeys
  <2>2. \E keys : overlay' = ClearOverlays(keys)
    BY DEF FinishRead
  <2> QED BY <2>1, <2>2 DEF TypeInv, OverlayType, ClearOverlays
<1>3. OpType'
  <2>1. DOMAIN Idle = OpFields /\ Idle.phase = "idle"
    BY DEF Idle, OpFields
  <2>2. op' = Idle
    BY DEF FinishRead
  <2> QED BY <2>1, <2>2 DEF OpType
<1>4. MarkerType' /\ CountType' /\ data' \in RoomStates /\ health' \in Health
  BY DEF FinishRead, TypeInv, MarkerType, CountType
<1> QED BY <1>1, <1>2, <1>3, <1>4 DEF TypeInv, ConfType

\* What one read of the room can find.
LEMMA MeasuredType ==
    ASSUME TypeInv
    PROVE  MeasuredFlows \subseteq Pairs
<1>1. unit.base.levels \in Pairs \cup {None}
  BY DEF TypeInv, UnitStates, Bases
<1> QED BY <1>1, PairParts DEF MeasuredFlows

\* The state of a read is a room state.
LEMMA ReadStateType ==
    ASSUME TypeInv, NEW r, NEW flow \in MeasuredFlows
    PROVE  ReadStateAfter(r, flow) \in RoomStates
<1> DEFINE d == IF r["flow"] = "ok" THEN [data EXCEPT !.flow = flow] ELSE data
<1>1. d \in RoomStates
  BY MeasuredType DEF TypeInv, RoomStates
<1>2. ReadStateAfter(r, flow) = ApplyModeRead(d, IF r["mode"] = "ok" THEN unit ELSE None)
  BY DEF ReadStateAfter
<1> HIDE DEF d
<1>3. unit \in UnitStates
  BY DEF TypeInv
<1>4. ApplyModeRead(d, unit) \in RoomStates
  BY <1>1, <1>3, ModeReadFields
<1>5. ApplyModeRead(d, None) \in RoomStates
  BY <1>1, NoModeReadType
<1> QED BY <1>2, <1>4, <1>5

\* The health of a read is numbered within the bound.
LEMMA ReadHealthType ==
    ASSUME TypeInv, NEW r, reads + 1 \in Stamps
    PROVE  ReadHealthAfter(r) \in Health
BY DEF ReadHealthAfter, TypeInv, Health

\* A read of the room ends here or goes on to register 41121.
LEMMA ReadRoomType ==
    ASSUME TypeInv, NEW kind, NEW key, NEW clearPreset, NEW r, NEW flow \in MeasuredFlows,
           ReadRoom(kind, key, clearPreset, r, flow), reads < MaxReads,
           UNCHANGED <<unit, uncertain, writes, changes>>
    PROVE  TypeInv'
<1> DEFINE h == ReadHealthAfter(r)
           d == ReadStateAfter(r, flow)
           exact == ExactTargetApplies(d, h) /\ (kind = "poll" => r["flow"] = "ok")
<1>1. reads + 1 \in Stamps /\ reads' = reads + 1
  BY BoundsAssumption DEF TypeInv, CountType, Stamps, ReadRoom
<1>2. h \in Health /\ d \in RoomStates
  BY <1>1, ReadHealthType, ReadStateType
<1>3. \/ /\ op' = [op EXCEPT !.phase = "target", !.kind = kind, !.data = d, !.health = h,
                             !.seen = SeenAfter(r), !.prov = ProvenanceAfter(r)]
         /\ UNCHANGED <<data, health, conf, overlay, fallback>>
      \/ \E carried \in (IF exact THEN CarriedReadbacks(d, h) ELSE {d.readback}) :
            FinishRead(kind, key, clearPreset, [d EXCEPT !.readback = carried], h,
                       SeenAfter(r), ProvenanceAfter(r))
  BY DEF ReadRoom
<1> HIDE DEF h, d, exact
<1>4. ASSUME op' = [op EXCEPT !.phase = "target", !.kind = kind, !.data = d, !.health = h,
                              !.seen = SeenAfter(r), !.prov = ProvenanceAfter(r)],
             UNCHANGED <<data, health, conf, overlay, fallback>>
      PROVE  TypeInv'
  <2>1. DOMAIN op' = OpFields /\ op'.phase = "target" /\ op'.data = d /\ op'.health = h
    BY <1>4 DEF TypeInv, OpType, OpFields
  <2>2. OpType'
    BY <1>2, <2>1 DEF OpType
  <2> QED
    BY <1>1, <1>4, <2>2 DEF TypeInv, ConfType, OverlayType, MarkerType, CountType
<1>5. ASSUME NEW carried \in (IF exact THEN CarriedReadbacks(d, h) ELSE {d.readback}),
             FinishRead(kind, key, clearPreset, [d EXCEPT !.readback = carried], h,
                        SeenAfter(r), ProvenanceAfter(r))
      PROVE  TypeInv'
  <2>1. data.readback \in Level0 \cup {None} /\ d.readback \in Level0 \cup {None}
    BY <1>2 DEF TypeInv, RoomStates
  <2>2. carried \in Level0 \cup {None}
    BY <2>1 DEF CarriedReadbacks
  <2>3. [d EXCEPT !.readback = carried] \in RoomStates
    BY <1>2, <2>2 DEF RoomStates
  <2> QED BY <1>1, <1>2, <1>5, <2>3, FinishReadType
<1> QED BY <1>3, <1>4, <1>5

\* Every read of the room keeps the types.
LEMMA RoomReadType ==
    ASSUME TypeInv, NEW kind, NEW key, NEW clearPreset, RoomRead(kind, key, clearPreset),
           reads < MaxReads, UNCHANGED <<unit, uncertain, writes, changes>>
    PROVE  TypeInv'
<1>1. reads + 1 \in Stamps /\ reads \in Stamps
  BY BoundsAssumption DEF TypeInv, CountType, Stamps
<1>2. data \in RoomStates /\ health \in Health
  BY DEF TypeInv
<1>3. CASE RoomReadLost(kind, key, clearPreset)
  <2>1. ReadHealthAfter([g \in Groups |-> "error"]) \in Health
    BY <1>1, ReadHealthType
  <2> QED BY <1>1, <1>2, <1>3, <2>1, FinishReadType DEF RoomReadLost
<1>4. CASE RoomReadDelayed(kind, key, clearPreset)
  BY <1>1, <1>2, <1>4, FinishReadType DEF RoomReadDelayed
<1> QED BY <1>3, <1>4, ReadRoomType DEF RoomRead

\* Every step keeps the types.
LEMMA NextTypes ==
    ASSUME OutcomeInv, TypeInv, [Next]_vars
    PROVE  TypeInv'
<1>1. CASE Command
  BY <1>1, CommandType
<1>2. CASE WriteAccepted \/ WriteFailed \/ WriteCancelled
  BY <1>2, CompletionType
<1>3. CASE Poll
  BY <1>3, RoomReadType DEF Poll
<1>4. CASE RefreshRoomAfterWrite
  <2>1. reads < MaxReads
    BY <1>4 DEF RefreshRoomAfterWrite, TypeInv, OpType
  <2> QED BY <1>4, <2>1, RoomReadType DEF RefreshRoomAfterWrite
<1>5. ASSUME NEW answered \in BOOLEAN, ReadBalancedTarget(answered)
      PROVE  TypeInv'
  <2> DEFINE target == IF answered THEN unit.set ELSE None
             d == [op.data EXCEPT !.readback = target]
  <2>1. op.data \in RoomStates /\ op.health \in Health /\ reads' \in Stamps
    BY <1>5 DEF ReadBalancedTarget, TypeInv, OpType, CountType
  <2>2. target \in Level0 \cup {None}
    BY DEF TypeInv, UnitStates
  <2>3. d \in RoomStates
    BY <2>1, <2>2 DEF RoomStates
  <2>4. \E sn : FinishRead(op.kind, op.key, op.clearPreset, d, op.health, sn, op.prov)
    BY <1>5 DEF ReadBalancedTarget
  <2> HIDE DEF d, target
  <2> QED BY <1>5, <2>1, <2>3, <2>4, FinishReadType DEF ReadBalancedTarget
<1>6. ASSUME NEW key \in Keys, ConfirmationAges(key)
      PROVE  TypeInv'
  <2> DEFINE a == IF conf[key].status = "pending" /\ conf[key].age = "new" THEN "late" ELSE "old"
  <2>1. conf' = [conf EXCEPT ![key].age = a]
    BY <1>6 DEF ConfirmationAges
  <2>2. a \in {"new", "late", "old"}
    OBVIOUS
  <2> HIDE DEF a
  <2>3. ConfType(conf')
    BY <2>1, <2>2 DEF OutcomeInv, Shape, TypeInv, ConfType
  <2> QED
    BY <1>6, <2>3
    DEF ConfirmationAges, TypeInv, ConfType, OverlayType, MarkerType, OpType, CountType
<1>7. ASSUME NEW key, OverlayExpires(key)
      PROVE  TypeInv'
  <2>1. OverlayType'
    <3>1. "airflow_levels" \in OverlayKeys
      BY DEF OverlayKeys
    <3> QED BY <1>7, <3>1 DEF OverlayExpires, ClearOverlays, TypeInv, OverlayType
  <2> QED BY <1>7, <2>1 DEF OverlayExpires, TypeInv, ConfType, MarkerType, OpType, CountType
<1>8. ASSUME NEW g \in Groups, GroupAges(g)
      PROVE  TypeInv'
  <2>1. health' \in Health /\ health'["mode"].at = health["mode"].at
    BY <1>8 DEF GroupAges, TypeInv, Health, Groups
  <2> QED
    BY <1>8, <2>1 DEF GroupAges, TypeInv, ConfType, OverlayType, MarkerType, OpType, CountType
<1>9. CASE ReadCancelled
  <2>1. DOMAIN Idle = OpFields /\ Idle.phase = "idle"
    BY DEF Idle, OpFields
  <2>2. OpType'
    BY <1>9, <2>1 DEF ReadCancelled, OpType
  <2> QED BY <1>9, <2>2 DEF ReadCancelled, TypeInv, ConfType, OverlayType, MarkerType, CountType
<1>10. CASE LevelsQueried
  BY <1>10 DEF LevelsQueried, TypeInv, ConfType, OverlayType, MarkerType, OpType, CountType
<1>11. CASE AppChanges
  <2>1. unit' \in UnitStates
    <3>1. CASE \E b \in AppBases \ {unit.base} :
                 unit' = [base |-> b, intensive |-> unit.intensive, set |-> SetRegister(b)]
      BY <3>1, AppBasesAssumption, SetRegisterType DEF TypeInv, UnitStates
    <3>2. CASE unit' = [unit EXCEPT !.intensive = ~@]
      BY <3>2 DEF TypeInv, UnitStates
    <3> QED BY <1>11, <3>1, <3>2 DEF AppChanges
  <2>2. changes' \in 0 .. MaxChanges
    BY <1>11, BoundsAssumption DEF AppChanges, TypeInv, CountType
  <2> QED
    BY <1>11, <2>1, <2>2
    DEF AppChanges, TypeInv, ConfType, OverlayType, MarkerType, OpType, CountType
<1>12. CASE UNCHANGED vars
  BY <1>12 DEF vars, TypeInv, ConfType, OverlayType, MarkerType, OpType, CountType
<1> QED
  BY <1>1, <1>2, <1>3, <1>4, <1>5, <1>6, <1>7, <1>8, <1>9, <1>10, <1>11, <1>12 DEF Next

\* The types hold initially.
LEMMA InitTypes ==
    ASSUME Init
    PROVE  TypeInv
<1>1. unit \in UnitStates
  <2>1. PICK b \in AppBases : unit = [base |-> b, intensive |-> FALSE, set |-> SetRegister(b)]
    BY DEF Init
  <2>2. b \in Bases /\ SetRegister(b) \in Level0 \cup {None}
    BY AppBasesAssumption, SetRegisterType
  <2> QED BY <2>1, <2>2 DEF UnitStates
<1>2. PICK known \in BOOLEAN, flow \in MeasuredFlows :
          /\ health = [g \in Groups |-> IF known THEN InitialRead ELSE NeverRead]
          /\ data = IF known THEN ApplyModeRead([EmptyRoomState EXCEPT !.flow = flow], unit)
                    ELSE EmptyRoomState
  BY DEF Init
<1>3. InitialRead \in [at : Stamps, ok : BOOLEAN, old : BOOLEAN]
      /\ NeverRead \in [at : Stamps, ok : BOOLEAN, old : BOOLEAN]
  BY StampsType DEF InitialRead, NeverRead
<1>4. health \in Health
  BY <1>2, <1>3 DEF Health
<1>5. flow \in Pairs
  <2>1. unit.base.levels \in Pairs \cup {None}
    BY <1>1 DEF UnitStates, Bases
  <2> QED BY <2>1, PairParts DEF MeasuredFlows
<1>6. EmptyRoomState \in RoomStates
  BY DEF EmptyRoomState, RoomStates
<1>7. [EmptyRoomState EXCEPT !.flow = flow] \in RoomStates
  BY <1>5, <1>6 DEF RoomStates
<1>8. data \in RoomStates
  BY <1>1, <1>2, <1>6, <1>7, ModeReadFields
<1>9. ConfType(conf)
  <2>1. \A k \in Keys : conf[k] = NoConfirmation
    BY DEF Init
  <2>2. /\ NoConfirmation.status = "none" /\ NoConfirmation.baseline = 0
        /\ NoConfirmation.counted = FALSE /\ NoConfirmation.age = "new"
    BY DEF NoConfirmation
  <2> QED BY <2>1, <2>2, StampsType DEF ConfType
<1>10. OverlayType /\ MarkerType /\ CountType
  BY StampsType, BoundsAssumption DEF Init, OverlayType, MarkerType, CountType, OverlayKeys
<1>11. OpType
  <2>1. DOMAIN Idle = OpFields /\ Idle.phase = "idle"
    BY DEF Idle, OpFields
  <2> QED BY <2>1 DEF Init, OpType
<1> QED BY <1>1, <1>4, <1>8, <1>9, <1>10, <1>11 DEF TypeInv

\* The types, what a command sends and the read that is left to judge it hold
\* in every state of the coordinator (_gateway_lock).
THEOREM TypesHold == Spec => []TypeInv
<1>1. Init => TypeInv
  BY InitTypes
<1>2. OutcomeInv /\ TypeInv /\ [Next]_vars => TypeInv'
  BY NextTypes
<1> QED
  BY <1>1, <1>2, OutcomesHold, PTL DEF Spec

\* Every field of the room's state holds a value of its declared type, so no
\* command is built from an unknown level (plan_direction_write,
\* _async_set_operation_mode_locked).
THEOREM TypeHolds == Spec => []TypeOK
  BY TypesHold, TypeInvImplies, PTL

-----------------------------------------------------------------------------
(* Interrupted writes                                                      *)

\* The read h, with fields traced to the reads pv, is no older than what is
\* published; n is the last read.
NoOlder(h, pv, n) ==
    \A g \in Groups :
        /\ pv[g] \in 0 .. n /\ prov[g] <= pv[g] /\ h[g].at \in 0 .. n
        /\ h[g].ok /\ h[g].at # 0 => pv[g] = h[g].at
        /\ h[g].at = health[g].at \/ h[g].at > marks.interrupted

\* A group was read successfully after the last interrupted write.
ReadAfterwards ==
    \/ marks.interrupted = 0
    \/ prov.mode > marks.interrupted
    \/ prov.flow > marks.interrupted

\* The inductive invariant.  The health of a group tells which read its fields
\* come from; a marker names the reads before the interruption, and without a
\* marker a later read is known.
MarkerInv ==
    /\ DOMAIN marks = {"accepted", "interrupted"} /\ marks.interrupted \in 0 .. reads
    /\ NoOlder(health, prov, reads)
    /\ uncertain # None => \A g \in Groups : \/ health[g].at = uncertain[g]
                                             \/ health[g].at > marks.interrupted
    /\ uncertain = None => ReadAfterwards
    /\ op.derived => op.phase = "sending" /\ uncertain = None
    /\ op.phase = "target" => NoOlder(op.health, op.prov, reads)

\* Nobody holds the lock.
LEMMA IdleFields == Idle.phase = "idle" /\ Idle.derived = FALSE /\ DOMAIN Idle = OpFields
BY DEF Idle, OpFields

\* _levels_reported_since: a marker that a read has resolved leaves a group
\* that was read after the interruption.
LEMMA ResolvedByRead ==
    ASSUME TypeInv, MarkerInv, ~FlowWriteUncertain
    PROVE  ReadAfterwards
<1>1. CASE uncertain = None
  BY <1>1 DEF MarkerInv
<1>2. CASE uncertain # None
  <2>1. PICK g \in Groups : GroupFresh(health, g) /\ health[g].at # uncertain[g]
    BY <1>2 DEF FlowWriteUncertain, LevelsReportedSince, ReadSince, Groups
  <2>2. health[g].at > marks.interrupted
    BY <1>2, <2>1 DEF MarkerInv
  <2>3. prov[g] = health[g].at
    BY <2>1 DEF GroupFresh, MarkerInv, NoOlder
  <2>4. prov[g] > marks.interrupted
    BY <2>2, <2>3
  <2> QED BY <2>4 DEF ReadAfterwards, Groups
<1> QED BY <1>1, <1>2

\* A command that builds on cached levels finds no unresolved marker.
LEMMA CommandMarks ==
    ASSUME TypeInv, MarkerInv, Command
    PROVE  MarkerInv'
<1>1. UNCHANGED <<health, reads, prov, marks>>
  BY CommandBegins DEF history
<1>2. CASE Begins
  <2>1. op'.phase = "sending"
    BY <1>2 DEF Begins, Sent
  <2>2. CASE op'.derived = FALSE /\ uncertain' = uncertain
    BY <1>1, <2>1, <2>2 DEF MarkerInv, NoOlder, ReadAfterwards
  <2>3. CASE ~FlowWriteUncertain /\ uncertain' = None
    <3>1. ReadAfterwards
      BY <2>3, ResolvedByRead
    <3> QED BY <1>1, <2>1, <2>3, <3>1 DEF MarkerInv, NoOlder, ReadAfterwards
  <2> QED BY <1>2, <2>2, <2>3 DEF Begins
<1>3. CASE UNCHANGED <<op, uncertain, writes>>
  BY <1>1, <1>3 DEF MarkerInv, NoOlder, ReadAfterwards
<1> QED BY <1>2, <1>3, CommandBegins

\* The requests of a command end; an interruption leaves a marker.
LEMMA CompletionMarks ==
    ASSUME TypeInv, MarkerInv, WriteAccepted \/ WriteFailed \/ WriteCancelled
    PROVE  MarkerInv'
<1>1. UNCHANGED <<health, reads, prov>>
  BY DEF WriteAccepted, WriteFailed, WriteCancelled
<1>2. \A kind : Settling(kind).derived = FALSE /\ Settling(kind).phase = "settling"
  BY DEF Settling, Idle
<1>3. op'.derived = FALSE /\ op'.phase # "target"
  <2>1. op' = Idle \/ \E kind : op' = Settling(kind)
    BY DEF WriteAccepted, WriteFailed, WriteCancelled
  <2> QED BY <1>2, <2>1, IdleFields
<1>4. CASE WriteAccepted \/ WriteFailed
  <2>1. /\ marks'.interrupted = marks.interrupted
        /\ DOMAIN marks' = {"accepted", "interrupted"}
    BY <1>4 DEF WriteAccepted, WriteFailed, MarkerInv
  <2>2. uncertain' = uncertain
    BY <1>4 DEF WriteAccepted, WriteFailed
  <2> QED BY <1>1, <1>3, <2>1, <2>2 DEF MarkerInv, NoOlder, ReadAfterwards
<1>5. CASE WriteCancelled
  <2>1. /\ marks'.interrupted = reads
        /\ DOMAIN marks' = {"accepted", "interrupted"}
    BY <1>5 DEF WriteCancelled, MarkerInv
  <2>2. uncertain' = [mode |-> op.baseline, flow |-> health["flow"].at]
        /\ op.baseline = health["mode"].at
    BY <1>5 DEF WriteCancelled, TypeInv, OpType
  <2>3. health["flow"].at \in Stamps /\ health["mode"].at \in Stamps
    BY DEF TypeInv, Health, Groups
  <2>4. uncertain' # None
    <3>1. uncertain' \in Markers
      BY <2>2, <2>3 DEF Markers
    <3> QED BY <3>1, NoneAssumption
  <2>5. \A g \in Groups : health[g].at = uncertain'[g]
    BY <2>2 DEF Groups
  <2>6. reads \in 0 .. reads
    BY DEF TypeInv, CountType, Stamps
  <2>7. NoOlder(health, prov, reads)'
    BY <1>1 DEF MarkerInv, NoOlder
  <2> QED BY <1>1, <1>3, <2>1, <2>4, <2>5, <2>6, <2>7 DEF MarkerInv
<1> QED BY <1>4, <1>5

\* A read that is no older is published.
LEMMA FinishReadMarks ==
    ASSUME TypeInv, MarkerInv, NEW kind, NEW key, NEW clearPreset, NEW d, NEW h, NEW sn, NEW pv,
           FinishRead(kind, key, clearPreset, d, h, sn, pv),
           reads' = reads \/ reads' = reads + 1, NoOlder(h, pv, reads'),
           UNCHANGED <<uncertain, marks>>
    PROVE  MarkerInv'
<1>1. health' = h /\ prov' = pv /\ op' = Idle
  BY DEF FinishRead
<1>2. reads \in Nat /\ marks.interrupted \in 0 .. reads'
  BY DEF TypeInv, CountType, Stamps, MarkerInv
<1>3. NoOlder(health, prov, reads)'
  BY <1>1 DEF NoOlder
<1>4. \A g \in Groups : prov[g] \in Nat /\ pv[g] \in Nat /\ prov[g] <= pv[g]
  BY <1>2 DEF MarkerInv, NoOlder
<1>5. uncertain' = None => ReadAfterwards'
  <2>1. prov.mode <= pv.mode /\ prov.flow <= pv.flow /\ prov.mode \in Nat /\ pv.mode \in Nat
        /\ prov.flow \in Nat /\ pv.flow \in Nat
    BY <1>4 DEF Groups
  <2> QED BY <1>1, <1>2, <2>1 DEF MarkerInv, ReadAfterwards
<1>6. uncertain' # None => \A g \in Groups : \/ health'[g].at = uncertain'[g]
                                             \/ health'[g].at > marks'.interrupted
  BY <1>1 DEF MarkerInv, NoOlder
<1> QED BY <1>1, <1>2, <1>3, <1>5, <1>6, IdleFields DEF MarkerInv

\* A read of the room is newer than what is published.
LEMMA RoomReadMarks ==
    ASSUME TypeInv, MarkerInv, NEW kind, NEW key, NEW clearPreset,
           RoomRead(kind, key, clearPreset), UNCHANGED <<uncertain, marks>>, ~op.derived
    PROVE  MarkerInv'
<1>1. reads \in Nat /\ marks.interrupted \in 0 .. reads
  BY DEF TypeInv, CountType, Stamps, MarkerInv
<1>2. NoOlder(health, prov, reads)
  BY DEF MarkerInv
<1>3. ASSUME NEW r PROVE NoOlder(ReadHealthAfter(r), ProvenanceAfter(r), reads + 1)
             \/ \E g \in Groups : r[g] = "skip" /\ health[g].ok
  <2> DEFINE h == ReadHealthAfter(r)
             pv == ProvenanceAfter(r)
  <2>1. ASSUME NEW g \in Groups, r[g] = "skip" => ~health[g].ok
        PROVE  /\ pv[g] \in 0 .. reads + 1 /\ prov[g] <= pv[g] /\ h[g].at \in 0 .. reads + 1
               /\ h[g].ok /\ h[g].at # 0 => pv[g] = h[g].at
               /\ h[g].at = health[g].at \/ h[g].at > marks.interrupted
    <3>1. /\ prov[g] \in 0 .. reads /\ health[g].at \in 0 .. reads
          /\ health[g].ok /\ health[g].at # 0 => prov[g] = health[g].at
      BY <1>2 DEF NoOlder
    <3>2. pv[g] = IF r[g] = "ok" THEN reads + 1 ELSE prov[g]
      BY DEF ProvenanceAfter, Groups
    <3>3. h[g] = IF r[g] = "skip" THEN health[g]
                 ELSE [at |-> reads + 1, ok |-> r[g] = "ok", old |-> FALSE]
      BY DEF ReadHealthAfter
    <3> HIDE DEF h, pv
    <3>4. CASE r[g] = "skip"
      BY <1>1, <2>1, <3>1, <3>2, <3>3, <3>4
    <3>5. CASE r[g] # "skip"
      <4>1. h[g].at = reads + 1 /\ h[g].ok = (r[g] = "ok")
        BY <3>3, <3>5
      <4>2. h[g].at \in 0 .. reads + 1 /\ h[g].at > marks.interrupted
        BY <1>1, <4>1
      <4>3. CASE r[g] = "ok"
        <5>1. pv[g] = reads + 1
          BY <3>2, <4>3
        <5> QED BY <1>1, <3>1, <4>1, <4>2, <5>1
      <4>4. CASE r[g] # "ok"
        <5>1. pv[g] = prov[g]
          BY <3>2, <4>4
        <5>2. ~h[g].ok
          BY <4>1, <4>4
        <5>3. prov[g] \in 0 .. reads + 1 /\ prov[g] <= prov[g]
          BY <1>1, <3>1
        <5> QED BY <4>2, <5>1, <5>2, <5>3
      <4> QED BY <4>3, <4>4
    <3> QED BY <3>4, <3>5
  <2> HIDE DEF h, pv
  <2>2. (\A g \in Groups : r[g] = "skip" => ~health[g].ok) => NoOlder(h, pv, reads + 1)
    BY <2>1 DEF NoOlder
  <2> QED BY <2>2 DEF h, pv
<1>4. CASE RoomReadLost(kind, key, clearPreset)
  <2> DEFINE r == [g \in Groups |-> "error"]
  <2>1. NoOlder(ReadHealthAfter(r), prov, reads + 1)
    <3>1. ASSUME NEW g \in Groups
          PROVE  ReadHealthAfter(r)[g].at = reads + 1 /\ ReadHealthAfter(r)[g].ok = FALSE
      BY DEF ReadHealthAfter
    <3>2. \A g \in Groups : prov[g] \in 0 .. reads
      BY <1>2 DEF NoOlder
    <3>3. /\ reads + 1 \in 0 .. reads + 1 /\ reads + 1 > marks.interrupted
          /\ \A g \in Groups : prov[g] \in 0 .. reads + 1 /\ prov[g] <= prov[g]
      BY <1>1, <3>2
    <3> HIDE DEF r
    <3> QED BY <3>1, <3>3 DEF NoOlder
  <2>2. reads' = reads + 1
        /\ FinishRead(kind, key, clearPreset, data, ReadHealthAfter(r), seen, prov)
    BY <1>4 DEF RoomReadLost
  <2> HIDE DEF r
  <2> QED BY <2>1, <2>2, FinishReadMarks
<1>5. CASE RoomReadDelayed(kind, key, clearPreset)
  BY <1>2, <1>5, FinishReadMarks DEF RoomReadDelayed
<1>6. ASSUME NEW r \in Outcomes(kind), NEW flow \in MeasuredFlows,
             ReadRoom(kind, key, clearPreset, r, flow)
      PROVE  MarkerInv'
  <2> DEFINE h == ReadHealthAfter(r)
             pv == ProvenanceAfter(r)
  <2>1. \A g \in Groups : r[g] = "skip" => ~health[g].ok
    BY DEF Outcomes
  <2>2. NoOlder(h, pv, reads + 1) /\ reads' = reads + 1
    BY <1>3, <1>6, <2>1 DEF ReadRoom
  <2>3. \/ /\ \E dd, ss : op' = [op EXCEPT !.phase = "target", !.kind = kind, !.data = dd,
                                           !.health = h, !.seen = ss, !.prov = pv]
           /\ UNCHANGED <<health, prov>>
        \/ \E dd, ss : FinishRead(kind, key, clearPreset, dd, h, ss, pv)
    BY <1>6 DEF ReadRoom
  <2> HIDE DEF h, pv
  <2>4. CASE \E dd, ss : FinishRead(kind, key, clearPreset, dd, h, ss, pv)
    BY <2>2, <2>4, FinishReadMarks
  <2>5. ASSUME NEW dd, NEW ss,
               op' = [op EXCEPT !.phase = "target", !.kind = kind, !.data = dd,
                                !.health = h, !.seen = ss, !.prov = pv],
               UNCHANGED <<health, prov>>
        PROVE  MarkerInv'
    <3>1. op'.phase = "target" /\ op'.derived = op.derived /\ op'.health = h /\ op'.prov = pv
      BY <2>5 DEF TypeInv, OpType, OpFields
    <3>2. NoOlder(op.health, op.prov, reads)'
      BY <2>2, <2>5, <3>1 DEF NoOlder
    <3>3. NoOlder(health, prov, reads)'
      BY <1>1, <1>2, <2>2, <2>5 DEF NoOlder
    <3> QED BY <1>1, <2>2, <2>5, <3>1, <3>2, <3>3 DEF MarkerInv, ReadAfterwards
  <2> QED BY <2>3, <2>4, <2>5
<1> QED BY <1>4, <1>5, <1>6 DEF RoomRead

\* Every step keeps the markers.
LEMMA NextMarks ==
    ASSUME TypeInv, MarkerInv, [Next]_vars
    PROVE  MarkerInv'
<1> DEFINE Rest == UNCHANGED <<health, op, uncertain, reads, prov, marks>>
<1>1. CASE Command
  BY <1>1, CommandMarks
<1>2. CASE WriteAccepted \/ WriteFailed \/ WriteCancelled
  BY <1>2, CompletionMarks
<1>3. CASE Poll \/ RefreshRoomAfterWrite
  <2>1. ~op.derived
    BY <1>3 DEF Poll, RefreshRoomAfterWrite, MarkerInv
  <2> QED BY <1>3, <2>1, RoomReadMarks DEF Poll, RefreshRoomAfterWrite
<1>4. ASSUME NEW answered \in BOOLEAN, ReadBalancedTarget(answered)
      PROVE  MarkerInv'
  <2>1. NoOlder(op.health, op.prov, reads)
    BY <1>4 DEF ReadBalancedTarget, MarkerInv
  <2>2. \E dd, ss : FinishRead(op.kind, op.key, op.clearPreset, dd, op.health, ss, op.prov)
    BY <1>4 DEF ReadBalancedTarget
  <2> QED BY <1>4, <2>1, <2>2, FinishReadMarks DEF ReadBalancedTarget
<1>5. CASE ReadCancelled
  <2>1. op' = Idle /\ UNCHANGED <<health, uncertain, reads, prov, marks>>
    BY <1>5 DEF ReadCancelled, history
  <2> QED BY <2>1, IdleFields DEF MarkerInv, NoOlder, ReadAfterwards
<1>6. ASSUME NEW g \in Groups, GroupAges(g)
      PROVE  MarkerInv'
  <2>1. \A i \in Groups : health'[i].at = health[i].at /\ health'[i].ok = health[i].ok
    BY <1>6 DEF GroupAges, TypeInv, Health
  <2> QED BY <1>6, <2>1 DEF GroupAges, history, MarkerInv, NoOlder, ReadAfterwards
<1>7. CASE LevelsQueried
  <2>1. ReadAfterwards
    BY <1>7, ResolvedByRead DEF LevelsQueried
  <2> QED BY <1>7, <2>1 DEF LevelsQueried, history, MarkerInv, NoOlder, ReadAfterwards
<1>8. CASE Rest
  BY <1>8 DEF MarkerInv, NoOlder, ReadAfterwards
<1>9. CASE AppChanges \/ UNCHANGED vars
  BY <1>8, <1>9 DEF AppChanges, vars, history
<1>10. ASSUME NEW key, OverlayExpires(key) \/ ConfirmationAges(key)
      PROVE  MarkerInv'
  BY <1>8, <1>10 DEF OverlayExpires, ConfirmationAges, history
<1> QED
  BY <1>1, <1>2, <1>3, <1>4, <1>5, <1>6, <1>7, <1>9, <1>10 DEF Next

\* The markers hold initially.
LEMMA InitMarks ==
    ASSUME Init
    PROVE  MarkerInv
<1>1. /\ marks = [accepted |-> 0, interrupted |-> 0] /\ op = Idle
      /\ reads = 1 /\ uncertain = None
  BY DEF Init
<1>2. PICK known \in BOOLEAN :
          /\ health = [g \in Groups |-> IF known THEN InitialRead ELSE NeverRead]
          /\ prov = IF known THEN [flow |-> 1, mode |-> 1, target |-> 1]
                    ELSE [flow |-> 0, mode |-> 0, target |-> 0]
  BY DEF Init
<1>3. \A g \in Groups : /\ prov[g] = IF known THEN 1 ELSE 0
                        /\ health[g].at = IF known THEN 1 ELSE 0
  BY <1>2 DEF Groups, InitialRead, NeverRead
<1>4. NoOlder(health, prov, reads)
  BY <1>1, <1>3 DEF NoOlder
<1> QED BY <1>1, <1>4, IdleFields DEF MarkerInv, ReadAfterwards

\* A marker names reads from before the interruption, and without one a later
\* read is known (_flow_write_uncertain).
THEOREM MarkersHold == Spec => []MarkerInv
<1>1. Init => MarkerInv
  BY InitMarks
<1>2. TypeInv /\ MarkerInv /\ [Next]_vars => MarkerInv'
  BY NextMarks
<1> QED
  BY <1>1, <1>2, TypesHold, PTL DEF Spec

\* After an interrupted write no command is built on cached levels until a
\* group was read successfully (_flow_write_uncertain, _levels_reported_since).
THEOREM InterruptedHolds == Spec => []InterruptedRefused
<1>1. MarkerInv => InterruptedRefused
  BY DEF MarkerInv, ReadAfterwards, InterruptedRefused
<1> QED
  BY <1>1, MarkersHold, PTL

-----------------------------------------------------------------------------
(* Confirmed writes                                                        *)

Judgeable(k) == conf[k].status \in ConfirmableStatuses

\* A read made after the write, not hidden by an intensive status, holds the
\* expected value: the case in which _checked_confirmation confirms.
Agrees(k, c, d, h) ==
    /\ ~Unread(h, c) /\ h["mode"].ok
    /\ ~(k \in WritesHiddenByIntensive /\ d.intensive = TRUE)
    /\ ReadbackValue(d, k) # None /\ ReadbackValue(d, k) = c.expected

\* The inductive invariant.  An open write disagrees with what is published, so
\* a poll that sends nothing confirms nothing; and a read that still waits for
\* register 41121 has been seen to report whatever it would confirm.
SeenInv ==
    /\ seen \in [Keys -> BOOLEAN]
    /\ \A k \in Keys : Judgeable(k) => ~Agrees(k, conf[k], data, health)
    /\ ConfirmedWasReported
    /\ op.phase = "target" =>
          /\ op.seen \in [Keys -> BOOLEAN] /\ \A k \in Keys : seen[k] => op.seen[k]
          /\ op.data.mode \in {"manual", "off"}
          /\ \A k \in {"operation_mode", "intensive"} :
                Judgeable(k) /\ Agrees(k, conf[k], op.data, op.health) => op.seen[k]

\* What the judgement of one write does.
LEMMA JudgedFields ==
    ASSUME NEW d, NEW h, NEW k \in Keys, NEW key, NEW c,
           c = Confirm(conf, d, h) \/ c = MarkUnconfirmed(Confirm(conf, d, h), key)
    PROVE  /\ c[k].expected = conf[k].expected /\ c[k].baseline = conf[k].baseline
           /\ c[k].age = conf[k].age
           /\ c[k].status \in ConfirmableStatuses => Judgeable(k) /\ ~Agrees(k, conf[k], d, h)
           /\ c[k].status = "confirmed" => \/ conf[k].status = "confirmed"
                                           \/ Judgeable(k) /\ Agrees(k, conf[k], d, h)
<1> DEFINE j == Confirm(conf, d, h)
           st == CheckedStatus(k, conf[k], d, h)
<1>1. /\ j[k].status = st /\ j[k].expected = conf[k].expected
      /\ j[k].baseline = conf[k].baseline /\ j[k].age = conf[k].age
  BY DEF Confirm, CheckedConfirmation, Judged
<1>2. /\ st \in ConfirmableStatuses => Judgeable(k) /\ ~Agrees(k, conf[k], d, h)
      /\ st = "confirmed" => conf[k].status = "confirmed" \/ (Judgeable(k) /\ Agrees(k, conf[k], d, h))
  <2>1. CASE ~Judgeable(k)
    <3>1. st = conf[k].status
      BY <2>1 DEF CheckedStatus, Judgeable
    <3> QED BY <2>1, <3>1 DEF Judgeable
  <2>2. CASE Judgeable(k) /\ Agrees(k, conf[k], d, h)
    <3>1. st = "confirmed"
      BY <2>2 DEF CheckedStatus, Judgeable, Agrees
    <3> QED BY <2>2, <3>1 DEF ConfirmableStatuses
  <2>3. CASE Judgeable(k) /\ ~Agrees(k, conf[k], d, h)
    <3>1. st # "confirmed"
      BY <2>3 DEF CheckedStatus, Judgeable, Agrees, ConfirmableStatuses
    <3> HIDE DEF st
    <3> QED BY <2>3, <3>1
  <2> QED BY <2>1, <2>2, <2>3
<1> HIDE DEF j, st
<1>3. \/ c[k] = j[k]
      \/ /\ j[k].status = "pending"
         /\ c[k].status = "unconfirmed" /\ c[k].expected = j[k].expected
         /\ c[k].baseline = j[k].baseline /\ c[k].age = j[k].age
  <2>1. c = j \/ c = MarkUnconfirmed(j, key)
    BY DEF j
  <2> QED BY <2>1 DEF MarkUnconfirmed, SetStatus, Judged
<1>4. "pending" \in ConfirmableStatuses /\ "unconfirmed" \in ConfirmableStatuses
  BY DEF ConfirmableStatuses
<1>5. CASE c[k] = j[k]
  BY <1>1, <1>2, <1>5
<1>6. CASE c[k] # j[k]
  BY <1>1, <1>2, <1>3, <1>4, <1>6
<1> QED BY <1>5, <1>6

\* A read is published that has been seen to report what it confirms.
LEMMA FinishReadSeen ==
    ASSUME SeenInv, NEW kind, NEW key, NEW clearPreset, NEW d, NEW h,
           NEW sn \in [Keys -> BOOLEAN], NEW pv,
           FinishRead(kind, key, clearPreset, d, h, sn, pv),
           \A k \in Keys : seen[k] => sn[k],
           \A k \in Keys \ {"preset_mode"} :
              Judgeable(k) /\ conf[k].age # "old" /\ Agrees(k, conf[k], d, h) => sn[k]
    PROVE  SeenInv'
<1>1. /\ data' = d /\ health' = h /\ seen' = sn /\ op' = Idle
      /\ conf' = Confirm(conf, d, h) \/ conf' = MarkUnconfirmed(Confirm(conf, d, h), key)
  BY DEF FinishRead
<1> DEFINE c == conf'
<1>0. ASSUME NEW k \in Keys
      PROVE  /\ c[k].expected = conf[k].expected /\ c[k].baseline = conf[k].baseline
             /\ c[k].age = conf[k].age
             /\ c[k].status \in ConfirmableStatuses => Judgeable(k) /\ ~Agrees(k, conf[k], d, h)
             /\ c[k].status = "confirmed" => \/ conf[k].status = "confirmed"
                                             \/ Judgeable(k) /\ Agrees(k, conf[k], d, h)
  <2>1. c = Confirm(conf, d, h) \/ c = MarkUnconfirmed(Confirm(conf, d, h), key)
    BY <1>1
  <2> HIDE DEF c
  <2> QED BY <2>1, JudgedFields
<1>2. ASSUME NEW k \in Keys PROVE Judgeable(k)' => ~Agrees(k, conf'[k], d, h)
  BY <1>0 DEF Judgeable, Agrees, Unread
<1>3. ASSUME NEW k \in Keys \ {"preset_mode"},
             conf'[k].status = "confirmed", conf'[k].age # "old"
      PROVE  sn[k]
  <2>1. /\ conf[k].age # "old"
        /\ conf[k].status = "confirmed" \/ (Judgeable(k) /\ Agrees(k, conf[k], d, h))
    BY <1>0, <1>3
  <2> QED BY <2>1 DEF SeenInv, ConfirmedWasReported
<1>4. ConfirmedWasReported'
  BY <1>1, <1>3 DEF ConfirmedWasReported
<1>5. \A k \in Keys : Judgeable(k)' => ~Agrees(k, conf[k], data, health)'
  BY <1>1, <1>2 DEF Agrees, Unread, ReadbackValue
<1> QED BY <1>1, <1>4, <1>5, IdleFields DEF SeenInv

\* A command ends: its outcome is new, unread and not confirmed.
LEMMA CompletionSeen ==
    ASSUME OutcomeInv, TypeInv, SeenInv, WriteAccepted \/ WriteFailed \/ WriteCancelled
    PROVE  SeenInv'
<1>1. /\ op.phase = "sending" /\ op.key \in Keys /\ op.baseline = health["mode"].at
      /\ UNCHANGED <<data, health>>
  BY DEF WriteAccepted, WriteFailed, WriteCancelled, TypeInv, OpType
<1>2. seen' = [seen EXCEPT ![op.key] = FALSE]
  BY DEF WriteAccepted, WriteFailed, WriteCancelled, NewOutcome
<1>3. op'.phase # "target"
  <2>1. \A kind : Settling(kind).phase = "settling"
    BY DEF Settling, Idle
  <2>2. op' = Idle \/ \E kind : op' = Settling(kind)
    BY DEF WriteAccepted, WriteFailed, WriteCancelled
  <2> QED BY <2>1, <2>2, IdleFields
<1> DEFINE n == [status |-> "pending", expected |-> op.value, baseline |-> op.baseline,
                 counted |-> FALSE, age |-> "new"]
           Fine(c) == /\ c[op.key].baseline = op.baseline /\ c[op.key].status # "confirmed"
                      /\ \A k \in Keys \ {op.key} :
                            c[k] = conf[k] \/ c[k].status = "superseded"
<1>4. ASSUME NEW c, c = [k \in Keys |-> c[k]],
             \A k \in Keys : c[k] = conf[k] \/ c[k].status = "superseded"
      PROVE  /\ Fine(RecordPending(c, op.key, op.value, op.baseline))
             /\ RecordPending(c, op.key, op.value, op.baseline)[op.key] = n
  BY <1>1, <1>4 DEF RecordPending
<1>5. ASSUME NEW c, Fine(c), NEW status, status # "confirmed"
      PROVE  Fine(SetStatus(c, op.key, status))
  BY <1>1, <1>5 DEF SetStatus, Judged
<1> DEFINE s == Supersede(conf, op.key)
           p == RecordPending(s, op.key, op.value, op.baseline)
           q == RecordPending(conf, op.key, op.value, op.baseline)
<1>6. /\ s = [k \in Keys |-> s[k]]
      /\ \A k \in Keys : s[k] = conf[k] \/ s[k].status = "superseded"
  <2>1. \A k \in Keys : s[k] = conf[k] \/ s[k] = [conf[k] EXCEPT !.status = "superseded"]
    BY DEF Supersede
  <2>2. s = [k \in Keys |-> s[k]]
    BY DEF Supersede
  <2> HIDE DEF s
  <2> QED BY <2>1, <2>2 DEF OutcomeInv, Shape
<1>7. conf = [k \in Keys |-> conf[k]]
  BY DEF OutcomeInv, Shape
<1>8. \/ conf' = p
      \/ conf' = SetStatus(q, op.key, "failed")
      \/ conf' = MarkUnconfirmed(p, op.key)
  BY DEF WriteAccepted, WriteFailed, WriteCancelled, NewOutcome
<1> HIDE DEF s, n, Fine
<1>9. Fine(p) /\ Fine(q)
  BY <1>4, <1>6, <1>7
<1> HIDE DEF p, q
<1>10. Fine(SetStatus(q, op.key, "failed")) /\ Fine(SetStatus(p, op.key, "unconfirmed"))
  BY <1>5, <1>9
<1>11. Fine(conf')
  BY <1>8, <1>9, <1>10 DEF MarkUnconfirmed
<1>12. ASSUME NEW k \in Keys, Judgeable(k)'
       PROVE  ~Agrees(k, conf'[k], data, health)
  <2>1. CASE k = op.key
    BY <1>1, <1>11, <2>1 DEF Fine, Agrees, Unread
  <2>2. CASE k # op.key
    <3>1. conf'[k] = conf[k]
      BY <1>11, <1>12, <2>2 DEF Fine, Judgeable, ConfirmableStatuses
    <3> QED BY <1>12, <3>1 DEF Judgeable, SeenInv
  <2> QED BY <2>1, <2>2
<1>13. ConfirmedWasReported'
  BY <1>1, <1>2, <1>11 DEF Fine, SeenInv, ConfirmedWasReported
<1>14. \A k \in Keys : Judgeable(k)' => ~Agrees(k, conf[k], data, health)'
  BY <1>1, <1>12 DEF Agrees, Unread, ReadbackValue
<1> QED BY <1>1, <1>2, <1>3, <1>13, <1>14 DEF SeenInv

\* What a read notes for the history.
LEMMA SeenAfterType ==
    ASSUME SeenInv, NEW r
    PROVE  /\ SeenAfter(r) \in [Keys -> BOOLEAN]
           /\ \A k \in Keys : seen[k] => SeenAfter(r)[k]
           /\ \A k \in Keys : /\ r["mode"] = "ok" /\ conf[k].status # "none"
                              /\ BlockReports(k) # None /\ BlockReports(k) = conf[k].expected
                              => SeenAfter(r)[k]
BY DEF SeenInv, SeenAfter

\* A read whose mode block failed or was skipped confirms nothing.
LEMMA FailedReadAgrees ==
    ASSUME NEW r, NEW kind, r \in Outcomes(kind), r["mode"] # "ok", NEW k, NEW c, NEW d
    PROVE  ~Agrees(k, c, d, ReadHealthAfter(r))
<1>1. r["mode"] = "skip" => ~health["mode"].ok
  BY DEF Outcomes, Groups
<1>2. ~ReadHealthAfter(r)["mode"].ok
  <2>1. CASE r["mode"] = "skip"
    BY <1>1, <2>1 DEF ReadHealthAfter, Groups
  <2>2. CASE r["mode"] # "skip"
    <3>1. ReadHealthAfter(r)["mode"].ok = (r["mode"] = "ok")
      BY <2>2 DEF ReadHealthAfter, Groups
    <3> QED BY <3>1
  <2> QED BY <2>1, <2>2
<1> QED BY <1>2 DEF Agrees

\* The state of a read whose mode block was answered.
LEMMA AnsweredRead ==
    ASSUME TypeInv, NEW r, r["mode"] = "ok", NEW flow \in MeasuredFlows
    PROVE  LET d == ReadStateAfter(r, flow)
           IN  /\ d \in RoomStates
               /\ unit.intensive => d.intensive = TRUE
               /\ ~unit.intensive =>
                    /\ d.mode = unit.base.mode
                    /\ d.intensive = FALSE /\ d.readback = None
                    /\ unit.base.mode = "unbalanced" => d.target = unit.base.levels
<1> DEFINE e == IF r["flow"] = "ok" THEN [data EXCEPT !.flow = flow] ELSE data
<1>1. e \in RoomStates
  BY MeasuredType DEF TypeInv, RoomStates
<1>2. ReadStateAfter(r, flow) = ApplyModeRead(e, unit)
  BY DEF ReadStateAfter
<1>3. unit \in UnitStates
  BY DEF TypeInv
<1> HIDE DEF e
<1>4. LET r2 == ApplyModeRead(e, unit)
      IN  /\ r2 \in RoomStates
          /\ unit.intensive => r2.intensive = TRUE
          /\ ~unit.intensive =>
               /\ r2.mode = unit.base.mode /\ r2.preset = unit.base.preset
               /\ r2.intensive = FALSE /\ r2.readback = None
               /\ unit.base.mode = "unbalanced" => r2.target = unit.base.levels
  BY <1>1, <1>3, ModeReadFields
<1> QED BY <1>2, <1>4

\* An answered mode block has been seen to report what it confirms of the
\* operating mode and of the intensive mode, whatever readback is carried along.
LEMMA ReadReports ==
    ASSUME TypeInv, SeenInv, NEW kind, NEW r, r \in Outcomes(kind), NEW flow \in MeasuredFlows,
           NEW readback, NEW k \in {"operation_mode", "intensive"}, Judgeable(k),
           Agrees(k, conf[k], [ReadStateAfter(r, flow) EXCEPT !.readback = readback],
                  ReadHealthAfter(r))
    PROVE  SeenAfter(r)[k]
<1> DEFINE d == ReadStateAfter(r, flow)
           x == [d EXCEPT !.readback = readback]
<1>1. r["mode"] = "ok"
  BY FailedReadAgrees
<1>2. /\ d \in RoomStates /\ unit.intensive \in BOOLEAN
      /\ unit.intensive => d.intensive = TRUE
      /\ ~unit.intensive => d.mode = unit.base.mode /\ d.intensive = FALSE
  BY <1>1, AnsweredRead DEF TypeInv, UnitStates
<1> HIDE DEF d
<1>3. x.mode = d.mode /\ x.intensive = d.intensive
  BY <1>2 DEF RoomStates
<1>4. /\ ~(k \in WritesHiddenByIntensive /\ x.intensive = TRUE)
      /\ ReadbackValue(x, k) # None /\ ReadbackValue(x, k) = conf[k].expected
  BY DEF Agrees, d
<1> HIDE DEF x
<1>5. BlockReports(k) = ReadbackValue(x, k)
  <2>1. CASE k = "intensive"
    BY <1>2, <1>3, <2>1 DEF BlockReports, ReadbackValue
  <2>2. CASE k = "operation_mode"
    BY <1>2, <1>3, <1>4, <2>2 DEF BlockReports, ReadbackValue, WritesHiddenByIntensive
  <2> QED BY <2>1, <2>2
<1>6. conf[k].status # "none" /\ k \in Keys
  BY DEF Judgeable, ConfirmableStatuses, Keys, BaseModeWrites
<1> QED BY <1>1, <1>4, <1>5, <1>6, SeenAfterType

\* A read that does not go on to register 41121 confirms an airflow write only
\* from the levels the mode block reported.
LEMMA ReadReportsLevels ==
    ASSUME TypeInv, SeenInv, NEW kind, NEW r, r \in Outcomes(kind), NEW flow \in MeasuredFlows,
           NEW carried,
           LET h == ReadHealthAfter(r)
               d == ReadStateAfter(r, flow)
               exact == ExactTargetApplies(d, h) /\ (kind = "poll" => r["flow"] = "ok")
           IN  /\ ~(exact /\ NeedsConfirmation("airflow_levels"))
               /\ ~exact => carried = d.readback,
           Judgeable("airflow_levels"), conf["airflow_levels"].age # "old",
           Agrees("airflow_levels", conf["airflow_levels"],
                  [ReadStateAfter(r, flow) EXCEPT !.readback = carried], ReadHealthAfter(r))
    PROVE  SeenAfter(r)["airflow_levels"]
<1> DEFINE h == ReadHealthAfter(r)
           d == ReadStateAfter(r, flow)
           exact == ExactTargetApplies(d, h) /\ (kind = "poll" => r["flow"] = "ok")
           x == [d EXCEPT !.readback = carried]
           k == "airflow_levels"
<1>1. r["mode"] = "ok"
  BY FailedReadAgrees
<1>2. /\ d \in RoomStates /\ unit.intensive \in BOOLEAN
      /\ unit.intensive => d.intensive = TRUE
      /\ ~unit.intensive => /\ d.mode = unit.base.mode
                            /\ d.intensive = FALSE /\ d.readback = None
                            /\ unit.base.mode = "unbalanced" => d.target = unit.base.levels
  BY <1>1, AnsweredRead DEF TypeInv, UnitStates
<1>3. ~exact /\ carried = d.readback
  BY DEF NeedsConfirmation, Judgeable
<1> HIDE DEF d, exact
<1>4. /\ x.mode = d.mode /\ x.intensive = d.intensive /\ x.target = d.target
      /\ x.readback = carried
  BY <1>2 DEF RoomStates
<1>5. /\ ~(k \in WritesHiddenByIntensive /\ x.intensive = TRUE)
      /\ ReadbackValue(x, k) # None /\ ReadbackValue(x, k) = conf[k].expected
  BY DEF Agrees, d
<1> HIDE DEF x
<1>6. ~unit.intensive
  BY <1>2, <1>4, <1>5 DEF WritesHiddenByIntensive
<1>7. /\ ReadbackValue(x, k) = d.target /\ d.mode = "unbalanced"
  BY <1>2, <1>3, <1>4, <1>5, <1>6 DEF ReadbackValue
<1>8. BlockReports(k) = ReadbackValue(x, k)
  BY <1>2, <1>6, <1>7 DEF BlockReports
<1>9. conf[k].status # "none" /\ k \in Keys
  BY DEF Judgeable, ConfirmableStatuses, Keys, BaseModeWrites
<1> QED BY <1>1, <1>5, <1>8, <1>9, SeenAfterType

\* One read of the room.
LEMMA ReadRoomSeen ==
    ASSUME TypeInv, SeenInv, NEW kind, NEW key, NEW clearPreset, NEW r \in Outcomes(kind),
           NEW flow \in MeasuredFlows, ReadRoom(kind, key, clearPreset, r, flow)
    PROVE  SeenInv'
<1> DEFINE h == ReadHealthAfter(r)
           d == ReadStateAfter(r, flow)
           s == SeenAfter(r)
           exact == ExactTargetApplies(d, h) /\ (kind = "poll" => r["flow"] = "ok")
           wait == exact /\ NeedsConfirmation("airflow_levels")
<1>1. s \in [Keys -> BOOLEAN] /\ \A k \in Keys : seen[k] => s[k]
  BY SeenAfterType
<1>2. \/ /\ wait
         /\ op' = [op EXCEPT !.phase = "target", !.kind = kind, !.data = d, !.health = h,
                             !.seen = s, !.prov = ProvenanceAfter(r)]
         /\ UNCHANGED <<data, health, conf, seen>>
      \/ /\ ~wait
         /\ \E carried \in (IF exact THEN CarriedReadbacks(d, h) ELSE {d.readback}) :
               FinishRead(kind, key, clearPreset, [d EXCEPT !.readback = carried], h,
                          s, ProvenanceAfter(r))
  BY DEF ReadRoom
<1>3. ASSUME wait,
             op' = [op EXCEPT !.phase = "target", !.kind = kind, !.data = d, !.health = h,
                              !.seen = s, !.prov = ProvenanceAfter(r)],
             UNCHANGED <<data, health, conf, seen>>
      PROVE  SeenInv'
  <2>1. d.mode \in {"manual", "off"}
    BY <1>3 DEF ExactTargetApplies
  <2>2. d \in RoomStates /\ d = [d EXCEPT !.readback = d.readback]
    <3>1. d \in RoomStates
      BY ReadStateType
    <3> HIDE DEF d
    <3> QED BY <3>1 DEF RoomStates
  <2>3. ASSUME NEW k \in {"operation_mode", "intensive"}, Judgeable(k), Agrees(k, conf[k], d, h)
        PROVE  s[k]
    BY <2>2, <2>3, ReadReports
  <2> HIDE DEF d, h, s, wait
  <2>4. op'.phase = "target" /\ op'.data = d /\ op'.health = h /\ op'.seen = s
    BY <1>3 DEF TypeInv, OpType, OpFields
  <2>5. \A k \in Keys : Judgeable(k)' <=> Judgeable(k)
    BY <1>3 DEF Judgeable
  <2>6. \A k \in {"operation_mode", "intensive"} :
           Agrees(k, conf[k], op.data, op.health)' => Agrees(k, conf[k], d, h)
    BY <1>3, <2>4 DEF Agrees, Unread, ReadbackValue
  <2>7. \A k : Agrees(k, conf[k], data, health)' <=> Agrees(k, conf[k], data, health)
    BY <1>3 DEF Agrees, Unread, ReadbackValue
  <2>8. ConfirmedWasReported' /\ seen' = seen
    BY <1>3 DEF SeenInv, ConfirmedWasReported
  <2>9. \A k \in {"operation_mode", "intensive"} : k \in Keys
    BY DEF Keys, BaseModeWrites
  <2> QED BY <1>1, <2>1, <2>3, <2>4, <2>5, <2>6, <2>7, <2>8, <2>9 DEF SeenInv
<1>4. ASSUME ~wait, NEW carried \in (IF exact THEN CarriedReadbacks(d, h) ELSE {d.readback}),
             FinishRead(kind, key, clearPreset, [d EXCEPT !.readback = carried], h,
                        s, ProvenanceAfter(r))
      PROVE  SeenInv'
  <2>2. ~exact => carried = d.readback
    BY <1>4
  <2>3. ASSUME NEW k \in Keys \ {"preset_mode"}, Judgeable(k), conf[k].age # "old",
               Agrees(k, conf[k], [d EXCEPT !.readback = carried], h)
        PROVE  s[k]
    <3>1. CASE k = "airflow_levels"
      BY <1>4, <2>2, <2>3, <3>1, ReadReportsLevels
    <3>2. CASE k \in {"operation_mode", "intensive"}
      BY <2>3, <3>2, ReadReports
    <3> QED BY <3>1, <3>2 DEF Keys, BaseModeWrites
  <2> HIDE DEF d, h, s, exact, wait
  <2> QED BY <1>1, <1>4, <2>3, FinishReadSeen
<1> HIDE DEF d, h, s, exact, wait
<1> QED BY <1>2, <1>3, <1>4

\* A read of the room, by a poll or after a command.
LEMMA RoomReadSeen ==
    ASSUME TypeInv, SeenInv, NEW kind, NEW key, NEW clearPreset,
           RoomRead(kind, key, clearPreset)
    PROVE  SeenInv'
<1>1. seen \in [Keys -> BOOLEAN]
  BY DEF SeenInv
<1>2. CASE RoomReadLost(kind, key, clearPreset)
  <2> DEFINE h == ReadHealthAfter([g \in Groups |-> "error"])
  <2>1. ~h["mode"].ok
    BY DEF ReadHealthAfter, Groups
  <2>2. FinishRead(kind, key, clearPreset, data, h, seen, prov)
    BY <1>2 DEF RoomReadLost
  <2> HIDE DEF h
  <2>3. \A k : ~Agrees(k, conf[k], data, h)
    BY <2>1 DEF Agrees
  <2> QED BY <1>1, <2>2, <2>3, FinishReadSeen
<1>3. CASE RoomReadDelayed(kind, key, clearPreset)
  <2>1. FinishRead(kind, key, clearPreset, data, health, seen, prov)
    BY <1>3 DEF RoomReadDelayed
  <2>2. \A k \in Keys : Judgeable(k) => ~Agrees(k, conf[k], data, health)
    BY DEF SeenInv
  <2> QED BY <1>1, <2>1, <2>2, FinishReadSeen
<1> QED BY <1>2, <1>3, ReadRoomSeen DEF RoomRead

\* Register 41121 is read for a balanced airflow write.
LEMMA BalancedTargetSeen ==
    ASSUME TypeInv, SeenInv, NEW answered, ReadBalancedTarget(answered)
    PROVE  SeenInv'
<1> DEFINE target == IF answered THEN unit.set ELSE None
           matches == target # None /\ conf["airflow_levels"].expected = <<target, target>>
           d == [op.data EXCEPT !.readback = target]
           s == [op.seen EXCEPT !["airflow_levels"] = @ \/ matches]
<1>1. /\ op.phase = "target"
      /\ FinishRead(op.kind, op.key, op.clearPreset, d, op.health, s, op.prov)
  BY DEF ReadBalancedTarget
<1>2. /\ op.data \in RoomStates /\ op.seen \in [Keys -> BOOLEAN]
      /\ op.data.mode \in {"manual", "off"}
      /\ \A k \in Keys : seen[k] => op.seen[k]
      /\ \A k \in {"operation_mode", "intensive"} :
            Judgeable(k) /\ Agrees(k, conf[k], op.data, op.health) => op.seen[k]
  BY <1>1 DEF TypeInv, OpType, SeenInv
<1>3. /\ d.mode = op.data.mode /\ d.intensive = op.data.intensive
      /\ d.readback = target
  BY <1>2 DEF RoomStates
<1> HIDE DEF target, matches, d
<1>4. matches \in BOOLEAN
  BY DEF matches
<1>5. /\ s \in [Keys -> BOOLEAN]
      /\ \A k \in Keys : op.seen[k] => s[k]
      /\ matches => s["airflow_levels"]
  <2>1. "airflow_levels" \in Keys
    BY DEF Keys, BaseModeWrites
  <2>2. s = [k \in Keys |-> IF k = "airflow_levels" THEN op.seen[k] \/ matches ELSE op.seen[k]]
    BY <1>2
  <2> HIDE DEF s
  <2> QED BY <1>2, <1>4, <2>1, <2>2
<1> HIDE DEF s
<1>6. ASSUME NEW k \in Keys \ {"preset_mode"}, Judgeable(k), Agrees(k, conf[k], d, op.health)
      PROVE  s[k]
  <2>1. CASE k = "airflow_levels"
    <3>1. ReadbackValue(d, k) # None /\ ReadbackValue(d, k) = conf[k].expected
      BY <1>6 DEF Agrees
    <3>2. ReadbackValue(d, k) = IF target = None THEN None ELSE <<target, target>>
      BY <1>2, <1>3, <2>1 DEF ReadbackValue
    <3>3. matches
      BY <2>1, <3>1, <3>2 DEF matches
    <3> QED BY <1>5, <2>1, <3>3
  <2>2. CASE k \in {"operation_mode", "intensive"}
    <3>1. ReadbackValue(d, k) = ReadbackValue(op.data, k)
      BY <1>3, <2>2 DEF ReadbackValue
    <3>2. Agrees(k, conf[k], op.data, op.health)
      BY <1>3, <1>6, <3>1 DEF Agrees
    <3> QED BY <1>2, <1>5, <1>6, <2>2, <3>2
  <2> QED BY <2>1, <2>2 DEF Keys, BaseModeWrites
<1> QED BY <1>1, <1>2, <1>5, <1>6, FinishReadSeen

\* Every step keeps the invariant.
LEMMA NextSeen ==
    ASSUME OutcomeInv, TypeInv, SeenInv, [Next]_vars
    PROVE  SeenInv'
<1>0. ASSUME UNCHANGED seen, UNCHANGED data, UNCHANGED op \/ op'.phase # "target",
             \A k \in Keys : /\ conf'[k].status = conf[k].status
                             /\ conf'[k].expected = conf[k].expected
                             /\ conf'[k].baseline = conf[k].baseline
                             /\ conf[k].status = "confirmed" => conf'[k].age = conf[k].age,
             /\ health'["mode"].at = health["mode"].at
             /\ health'["mode"].ok = health["mode"].ok
      PROVE  SeenInv'
  <2>1. \A k \in Keys : Judgeable(k)' <=> Judgeable(k)
    BY <1>0 DEF Judgeable
  <2>2. \A k \in Keys : Agrees(k, conf[k], data, health)' => Agrees(k, conf[k], data, health)
    BY <1>0 DEF Agrees, Unread, ReadbackValue
  <2>3. ConfirmedWasReported'
    BY <1>0 DEF SeenInv, ConfirmedWasReported
  <2>4. CASE op'.phase # "target"
    BY <1>0, <2>1, <2>2, <2>3, <2>4 DEF SeenInv
  <2>5. CASE UNCHANGED op
    <3>1. \A k \in Keys : Agrees(k, conf[k], op.data, op.health)'
                             => Agrees(k, conf[k], op.data, op.health)
      BY <1>0, <2>5 DEF Agrees, Unread, ReadbackValue
    <3>2. {"operation_mode", "intensive"} \subseteq Keys
      BY DEF Keys, BaseModeWrites
    <3> QED BY <1>0, <2>1, <2>2, <2>3, <2>5, <3>1, <3>2 DEF SeenInv
  <2> QED BY <1>0, <2>4, <2>5
<1>1. CASE Command
  <2>1. UNCHANGED <<data, health, conf, seen>> /\ (Begins \/ UNCHANGED op)
    BY <1>1, CommandBegins DEF history
  <2>2. op'.phase # "target" \/ UNCHANGED op
    BY <2>1 DEF Begins, Sent
  <2> QED BY <1>0, <2>1, <2>2
<1>2. CASE WriteAccepted \/ WriteFailed \/ WriteCancelled
  BY <1>2, CompletionSeen
<1>3. CASE Poll \/ RefreshRoomAfterWrite
  BY <1>3, RoomReadSeen DEF Poll, RefreshRoomAfterWrite
<1>4. ASSUME NEW answered \in BOOLEAN, ReadBalancedTarget(answered)
      PROVE  SeenInv'
  BY <1>4, BalancedTargetSeen
<1>5. CASE ReadCancelled
  BY <1>0, <1>5, IdleFields DEF ReadCancelled, history
<1>6. ASSUME NEW g \in Groups, GroupAges(g)
      PROVE  SeenInv'
  <2>1. health'["mode"].at = health["mode"].at /\ health'["mode"].ok = health["mode"].ok
    BY <1>6 DEF GroupAges, TypeInv, Health, Groups
  <2> QED BY <1>0, <1>6, <2>1 DEF GroupAges, history
<1>7. ASSUME NEW key \in Keys, ConfirmationAges(key)
      PROVE  SeenInv'
  <2>1. PICK a : conf' = [conf EXCEPT ![key].age = a]
    BY <1>7 DEF ConfirmationAges
  <2>2. conf[key].status # "confirmed"
    BY <1>7 DEF ConfirmationAges, ConfirmableStatuses
  <2>3. \A k \in Keys : /\ conf'[k].status = conf[k].status
                        /\ conf'[k].expected = conf[k].expected
                        /\ conf'[k].baseline = conf[k].baseline
                        /\ conf[k].status = "confirmed" => conf'[k].age = conf[k].age
    BY <2>1, <2>2 DEF OutcomeInv, Shape
  <2> QED BY <1>0, <1>7, <2>3 DEF ConfirmationAges, history
<1>8. ASSUME NEW key, OverlayExpires(key)
      PROVE  SeenInv'
  BY <1>0, <1>8 DEF OverlayExpires, history
<1>9. CASE LevelsQueried \/ AppChanges \/ UNCHANGED vars
  BY <1>0, <1>9 DEF LevelsQueried, AppChanges, vars, history
<1> QED
  BY <1>1, <1>2, <1>3, <1>4, <1>5, <1>6, <1>7, <1>8, <1>9 DEF Next

\* No write is open initially.
LEMMA InitSeen ==
    ASSUME Init
    PROVE  SeenInv
<1>1. \A k \in Keys : conf[k].status = "none"
  BY DEF Init, NoConfirmation
<1>2. seen \in [Keys -> BOOLEAN] /\ op = Idle
  BY DEF Init
<1> QED
  BY <1>1, <1>2, IdleFields DEF SeenInv, ConfirmedWasReported, Judgeable, ConfirmableStatuses

\* An open write disagrees with what is published, and a read was seen to
\* report what it confirms (confirm, _read_balanced_target_if_pending).
THEOREM SeenHold == Spec => []SeenInv
<1>1. Init => SeenInv
  BY InitSeen
<1>2. OutcomeInv /\ TypeInv /\ SeenInv /\ [Next]_vars => SeenInv'
  BY NextSeen
<1> QED
  BY <1>1, <1>2, OutcomesHold, TypesHold, PTL DEF Spec

\* A confirmed write was reported by the unit in a read made after the write
\* (_checked_confirmation, WriteConfirmation.baseline).
THEOREM ConfirmedHolds == Spec => []ConfirmedWasReported
<1>1. SeenInv => ConfirmedWasReported
  BY DEF SeenInv
<1> QED
  BY <1>1, SeenHold, PTL
=============================================================================
