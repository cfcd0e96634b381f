----------------------------- MODULE WritePath -----------------------------
(***************************************************************************)
(* The write path of one ventilation unit: the coordinator's commands, the *)
(* outcome kept for every command (WriteConfirmations), the values shown   *)
(* while a command is pending (OptimisticOverlay), and the airflow reads   *)
(* that judge both.                                                        *)
(*                                                                         *)
(* One lock, _gateway_lock, serialises commands and polls, so `op' is the  *)
(* lock holder.  The coordinator awaits while it holds the lock: overlay   *)
(* timers, the app or keypad of the unit, ageing and cancellation of the   *)
(* caller interleave with every phase of an operation.                     *)
(*                                                                         *)
(* Abstractions.  The health of a read group is identified by the number   *)
(* of the read that recorded it: every recorded read has a new number, so  *)
(* "health == baseline" is equality of numbers.  The groups flow_control   *)
(* and intensive are recorded by the same request and always together, so  *)
(* they are one group, "mode".  Airflow levels are further apart than      *)
(* LEVEL_CONFIRM_TOLERANCE, so levels_reached is equality.  The other      *)
(* units of the gateway have data, so a failing unit is not a failing      *)
(* startup.                                                                *)
(***************************************************************************)
EXTENDS Integers

CONSTANTS
    Levels,       \* the non-zero airflow levels a fan can be set to
    Presets,      \* the quick modes a command can select: low, medium, high
    AppPresets,   \* the one-way quick modes only the app selects
    AppBases,     \* the base settings the app or the keypad may choose
    Commands,     \* the commands users give in this instance
    None,         \* Python's None
    MaxReads,     \* bound on recorded room reads
    MaxWrites,    \* bound on commands
    MaxChanges    \* bound on changes made at the unit

AllCommands == {"level", "unbalanced", "direction", "mode", "inactive",
                "preset", "clear_preset", "intensive"}
Level0 == Levels \cup {0}
Pairs == Level0 \X Level0
Modes == {"off", "manual", "unbalanced", "sensor"}
Bases == [mode : Modes, preset : Presets \cup AppPresets \cup {None},
          levels : Pairs \cup {None}]
UnitStates == [base : Bases, intensive : BOOLEAN, set : Level0 \cup {None}]
Stamps == 0 .. MaxReads
Markers == [mode : Stamps, flow : Stamps]

ASSUME LevelsAssumption ==
    /\ Levels \subseteq Nat \ {0}
    /\ \A a, b \in Levels : a # b => (a - b > 2 \/ b - a > 2)
ASSUME NoneAssumption ==
    /\ None \notin Pairs \cup Level0 \cup Presets \cup AppPresets \cup Modes \cup BOOLEAN
    /\ None \notin Bases \cup UnitStates \cup Markers
ASSUME CommandsAssumption == Commands \subseteq AllCommands
ASSUME PresetsAssumption == Presets \cap AppPresets = {}
ASSUME AppBasesAssumption == AppBases \subseteq Bases
ASSUME BoundsAssumption == MaxReads \in Nat \ {0} /\ MaxWrites \in Nat /\ MaxChanges \in Nat

VARIABLES
    unit,       \* external: what the unit runs, and its set register 41121
    data,       \* RoomState: the mode and airflow fields of the last reads
    health,     \* RoomState.group_read_health of the groups flow and mode
    conf,       \* WriteConfirmations.by_room[room]: the last outcome per write key
    overlay,    \* the pending values on display, per write key that has an overlay
    uncertain,  \* RoomRuntime.uncertain_flow
    fallback,   \* RoomRuntime.level_fallback: the mode health it was made at
    op,         \* the holder of _gateway_lock and where it is
    reads, writes, changes,  \* counters of the bounds; reads numbers the reads
    seen,       \* history: the unit reported the expected value after the write
    issues,     \* history: issues counted for the current write of a key
    prov,       \* history: the read the mode, target and flow fields came from
    marks       \* history: the read before the last accepted / interrupted write

history == <<seen, issues, prov, marks>>
vars == <<unit, data, health, conf, overlay, uncertain, fallback, op,
          reads, writes, changes, seen, issues, prov, marks>>

-----------------------------------------------------------------------------
(* The unit's base settings and what its registers report.                 *)

Off == [mode |-> "off", preset |-> None, levels |-> <<0, 0>>]
Manual(l) == [mode |-> "manual", preset |-> None, levels |-> <<l, l>>]
Unbalanced(s, e) == [mode |-> "unbalanced", preset |-> None, levels |-> <<s, e>>]
Sensor == [mode |-> "sensor", preset |-> None, levels |-> None]
Quick(p) == [mode |-> "manual", preset |-> p, levels |-> None]

Supply(pair) == IF pair = None THEN None ELSE pair[1]
Extract(pair) == IF pair = None THEN None ELSE pair[2]
FirstKnown(a, b) == IF a # None THEN a ELSE b

\* What register 41121 holds for a base setting: an airflow, or a quick-mode
\* or sensor code, which is no airflow.
SetRegister(base) == Supply(base.levels)

\* A command that reaches the unit completely.
Applied(u, o) ==
    [base |-> FirstKnown(o.base, u.base),
     intensive |-> FirstKnown(o.intensive, u.intensive),
     set |-> IF o.base = None THEN u.set ELSE SetRegister(o.base)]

\* A command interrupted before its APPLY: the set register is written only.
Staged(u, o) == [u EXCEPT !.set = Applied(u, o).set]

\* Measured airflow lags behind every change and jitters, so a read may return
\* any balanced airflow or the airflow the base setting asks for.
MeasuredFlows == {<<l, l>> : l \in Level0}
                 \cup (IF unit.base.levels = None THEN {} ELSE {unit.base.levels})

-----------------------------------------------------------------------------
(* Write keys and statuses.                                                *)

BaseModeWrites == {"airflow_levels", "operation_mode", "preset_mode"}
Keys == BaseModeWrites \cup {"intensive"}
OverlayKeys == {"airflow_levels", "preset_mode", "intensive"}
WritesHiddenByIntensive == {"airflow_levels", "operation_mode"}
FinalStatuses == {"failed", "confirmed", "superseded"}
ConfirmableStatuses == {"pending", "unconfirmed", "mismatch", "unverifiable"}
UnhealthyStatuses == {"unconfirmed", "mismatch", "failed"}
Statuses == FinalStatuses \cup ConfirmableStatuses

Groups == {"flow", "mode"}
NeverRead == [at |-> 0, ok |-> FALSE, old |-> FALSE]
NoConfirmation == [status |-> "none", expected |-> None, baseline |-> 0,
                   counted |-> FALSE, age |-> "new"]
Idle == [phase |-> "idle", key |-> None, value |-> None, base |-> None,
         intensive |-> None, baseline |-> 0, readBack |-> FALSE,
         clearPreset |-> FALSE, direction |-> FALSE, fallback |-> FALSE,
         derived |-> FALSE, src |-> 0, kind |-> "none",
         data |-> None, health |-> None, seen |-> None, prov |-> None]
EmptyRoomState == [mode |-> None, preset |-> None, intensive |-> None,
                   target |-> None, readback |-> None, flow |-> None]

-----------------------------------------------------------------------------
(* read_health: freshness of a group.                                      *)

GroupFresh(h, g) == h[g].at # 0 /\ h[g].ok /\ ~h[g].old
ReadSince(h, g, baseline) == GroupFresh(h, g) /\ h[g].at # baseline
ModeReadSince(h, baseline) == h["mode"].at # 0 /\ h["mode"].ok /\ h["mode"].at # baseline

\* Mutant: a fresh read from before the interruption counts.
LevelsReportedBefore(h, base) == GroupFresh(h, "mode") \/ GroupFresh(h, "flow")

LevelsReportedSince(h, base) ==
    \/ ReadSince(h, "mode", base.mode)
    \/ ~GroupFresh(h, "mode") /\ ReadSince(h, "flow", base.flow)

FlowWriteUncertain == uncertain # None /\ ~LevelsReportedSince(health, uncertain)

-----------------------------------------------------------------------------
(* levels and mode_codec: the pair a unit reports and where it comes from. *)

DeriveBalancedAirflow(flow) ==
    IF flow # None /\ Supply(flow) = Extract(flow) THEN flow ELSE None

\* The mode status block, or None when it was not read.
ApplyModeRead(d, block) ==
    IF block # None /\ block.intensive
    THEN [d EXCEPT !.intensive = TRUE]
    ELSE LET mode == IF block = None THEN d.mode ELSE block.base.mode
             known == IF block # None THEN block.base.levels
                      ELSE IF mode = "unbalanced" THEN d.target ELSE None
         IN  [d EXCEPT !.mode = mode,
                       !.preset = IF block = None THEN @ ELSE block.base.preset,
                       !.intensive = IF block = None THEN @ ELSE FALSE,
                       !.readback = None,
                       !.target = IF mode = "unbalanced" THEN known
                                  ELSE FirstKnown(known, DeriveBalancedAirflow(d.flow))]

TargetLevels(d, airflowFresh) ==
    LET measured == IF airflowFresh THEN d.flow ELSE None
        common == IF d.readback # None THEN <<d.readback, d.readback>>
                  ELSE IF d.preset \in Presets /\ ~airflowFresh THEN None ELSE d.target
    IN  CASE d.mode = "off" -> <<0, 0>>
          [] d.mode = "unbalanced" -> FirstKnown(d.target, measured)
          [] d.mode = "sensor" -> measured
          [] OTHER -> FirstKnown(common, measured)

ModeReported(d, h) == GroupFresh(h, "mode") /\ d.mode # None

ReportedLevels(d, h) ==
    IF ModeReported(d, h) THEN TargetLevels(d, GroupFresh(h, "flow"))
    ELSE IF GroupFresh(h, "flow") THEN d.flow ELSE None

\* History: the read the reported pair came from.
ReportedFrom(d, h) ==
    IF ModeReported(d, h) /\ d.mode # "sensor" /\ d.target # None
    THEN prov.target ELSE prov.flow

EffectiveLevels ==
    IF FlowWriteUncertain THEN None
    ELSE IF overlay["airflow_levels"] # None THEN overlay["airflow_levels"].value
    ELSE ReportedLevels(data, health)

\* A pending value is newer than every read.
EffectiveFrom ==
    IF overlay["airflow_levels"] # None THEN reads + 1 ELSE ReportedFrom(data, health)

BalancedLevel == FirstKnown(Supply(EffectiveLevels), FirstKnown(Supply(data.target), Supply(data.flow)))
ExtractLevel ==
    FirstKnown(Extract(EffectiveLevels),
               FirstKnown(IF data.mode = "unbalanced" THEN Extract(data.target) ELSE None,
                          FirstKnown(Extract(data.flow), BalancedLevel)))
ModeWriteFrom == IF EffectiveLevels # None THEN EffectiveFrom
                 ELSE IF data.target # None THEN prov.target ELSE prov.flow

\* The mode a directional write starts from: a pending pair overrides the cache.
StartingMode(levels) ==
    IF overlay["airflow_levels"] = None THEN data.mode
    ELSE IF levels = <<0, 0>> THEN "off"
    ELSE IF levels[1] = levels[2] THEN "manual" ELSE "unbalanced"

OtherLevel(levels, direction) ==
    IF direction = "supply" THEN Extract(levels) ELSE Supply(levels)

\* Mutant: an unknown opposite level is sent as it is.
PlanDirectionWriteUnknown(levels, direction, level) ==
    LET other == OtherLevel(levels, direction)
    IN  IF other = level THEN <<level, level>>
        ELSE IF direction = "supply" THEN <<level, other>> ELSE <<other, level>>

PlanDirectionWrite(levels, direction, level) ==
    LET other == OtherLevel(levels, direction)
        mode == StartingMode(levels)
        both == \/ other = None \/ other = level \/ mode = "off"
                \/ level > 0 /\ mode = "sensor"
    IN  IF both THEN <<level, level>>
        ELSE IF direction = "supply" THEN <<level, other>> ELSE <<other, level>>

-----------------------------------------------------------------------------
(* WriteConfirmations.                                                     *)

RecordPending(c, key, expected, baseline) ==
    [c EXCEPT ![key] = [status |-> "pending", expected |-> expected, baseline |-> baseline,
                        counted |-> FALSE, age |-> "new"]]

Superseded(key) ==
    {k \in BaseModeWrites \ {key} : key \in BaseModeWrites /\ conf[k].status \in ConfirmableStatuses}

\* Mutant: earlier commands of the other kinds stay open.
SupersedeNothing(c, key) == c

Supersede(c, key) ==
    [k \in Keys |-> IF k \in Superseded(key) THEN [c[k] EXCEPT !.status = "superseded"] ELSE c[k]]

\* An outcome with a new status; an issue is counted once per write.
Judged(c, status, issue) ==
    [status |-> status, expected |-> c.expected, baseline |-> c.baseline,
     counted |-> c.counted \/ issue, age |-> c.age]

SetStatus(c, key, status) ==
    [k \in Keys |-> IF k = key THEN Judged(c[k], status, status \in UnhealthyStatuses) ELSE c[k]]

MarkUnconfirmed(c, key) ==
    IF c[key].status = "pending" THEN SetStatus(c, key, "unconfirmed") ELSE c

\* on_issue calls made while c turns into c2; a new write starts at zero.
CountIssues(n, c, c2) ==
    [k \in Keys |-> n[k] + (IF c2[k].counted /\ ~c[k].counted THEN 1 ELSE 0)]

NeedsConfirmation(key) ==
    conf[key].status \in ConfirmableStatuses /\ conf[key].age # "old"

ReadbackValue(d, key) ==
    CASE key = "airflow_levels" ->
           IF d.mode \in {"manual", "off"}
           THEN IF d.readback = None THEN None ELSE <<d.readback, d.readback>>
           ELSE IF d.mode = "unbalanced" THEN d.target ELSE None
      [] key = "operation_mode" -> d.mode
      [] key = "preset_mode" -> d.preset
      [] key = "intensive" -> d.intensive

\* Mutant: the baseline of the write is ignored.
UnreadEver(h, c) == h["mode"].at = 0

\* No read was recorded since the write.
Unread(h, c) == h["mode"].at = 0 \/ h["mode"].at = c.baseline

\* Mutant: a superseded or failed write is judged again.
CheckedStatusReopened(key, c, d, h) ==
    IF c.status \in {"none", "confirmed"} \/ Unread(h, c) \/ ~h["mode"].ok THEN c.status
    ELSE IF ReadbackValue(d, key) = None THEN c.status
    ELSE IF ReadbackValue(d, key) = c.expected THEN "confirmed" ELSE "mismatch"

CheckedStatus(key, c, d, h) ==
    IF c.status \notin ConfirmableStatuses \/ Unread(h, c) THEN c.status
    ELSE IF ~h["mode"].ok THEN (IF c.status = "pending" THEN "unconfirmed" ELSE c.status)
    ELSE IF key \in WritesHiddenByIntensive /\ d.intensive = TRUE THEN "unverifiable"
    ELSE IF ReadbackValue(d, key) = None THEN c.status
    ELSE IF ReadbackValue(d, key) = c.expected THEN "confirmed" ELSE "mismatch"

\* Mutant: a mismatch found by a poll is not counted.
CheckedConfirmationUncounted(key, c, d, h) ==
    [c EXCEPT !.status = CheckedStatus(key, c, d, h)]

\* confirm(): judge every outcome; a write that stays pending past the timeout
\* is counted as an issue without changing its stored status.
CheckedConfirmation(key, c, d, h) ==
    LET status == CheckedStatus(key, c, d, h)
        late == c.status = "pending" /\ status = "pending" /\ c.age # "new"
    IN  Judged(c, status, late \/ status \in UnhealthyStatuses)

Confirm(c, d, h) == [k \in Keys |-> CheckedConfirmation(k, c[k], d, h)]

-----------------------------------------------------------------------------
(* OptimisticOverlay.                                                      *)

ClearOverlays(keys) == [k \in OverlayKeys |-> IF k \in keys THEN None ELSE overlay[k]]

OverlayOf(value) == [value |-> value, flow |-> health["flow"].at, mode |-> health["mode"].at]

ReadSinceSet(key, h) ==
    \/ ReadSince(h, "mode", overlay[key].mode)
    \/ key = "airflow_levels" /\ ReadSince(h, "flow", overlay[key].flow)

Reported(key, d, h) ==
    CASE key = "airflow_levels" -> ReportedLevels(d, h)
      [] key = "preset_mode" -> d.preset
      [] key = "intensive" -> d.intensive

\* The overlays a read settles: the reported value matches the pending one.
Settled(d, h) ==
    {k \in OverlayKeys : /\ overlay[k] # None
                         /\ ReadSinceSet(k, h)
                         /\ Reported(k, d, h) # None
                         /\ Reported(k, d, h) = overlay[k].value}

-----------------------------------------------------------------------------
(* Commands: from the lock to the first request.                           *)

\* The user gives a command and it gets the lock; reads are left to judge it.
Locked(command) ==
    command \in Commands /\ op.phase = "idle" /\ reads < MaxReads /\ writes < MaxWrites

Sending(key, value, base, intensive, readBack) ==
    [Idle EXCEPT !.phase = "sending", !.key = key, !.value = value, !.base = base,
                 !.intensive = intensive, !.readBack = readBack,
                 !.baseline = health["mode"].at]

SendingLevels(pair) ==
    Sending("airflow_levels", pair,
            IF pair = <<0, 0>> THEN Off
            ELSE IF pair[1] = pair[2] THEN Manual(pair[1]) ELSE Unbalanced(pair[1], pair[2]),
            IF pair = <<0, 0>> THEN FALSE ELSE None, FALSE)

LevelsClear(pair) == {"preset_mode"} \cup (IF pair = <<0, 0>> THEN {"intensive"} ELSE {})

SetLevels(pair, o) ==
    /\ op' = o
    /\ overlay' = ClearOverlays(LevelsClear(pair))

AsyncSetLevel(level) ==
    /\ Locked("level")
    /\ SetLevels(<<level, level>>, SendingLevels(<<level, level>>))
    /\ writes' = writes + 1
    /\ UNCHANGED <<unit, data, health, conf, uncertain, fallback, reads, changes, history>>

AsyncSetUnbalancedLevels(s, e) ==
    /\ Locked("unbalanced")
    /\ s # e
    /\ SetLevels(<<s, e>>, SendingLevels(<<s, e>>))
    /\ writes' = writes + 1
    /\ UNCHANGED <<unit, data, health, conf, uncertain, fallback, reads, changes, history>>

AsyncSetDirectionLevel(direction, level) ==
    LET levels == EffectiveLevels
        other == OtherLevel(levels, direction)
        planned == PlanDirectionWrite(levels, direction, level)
    IN  /\ Locked("direction")
        /\ ~FlowWriteUncertain
        /\ other # None \/ level # 0
        /\ SetLevels(planned,
                     [SendingLevels(planned) EXCEPT
                        !.direction = TRUE,
                        !.fallback = other = None \/ StartingMode(levels) = None,
                        !.derived = other # None,
                        !.src = EffectiveFrom])
        /\ uncertain' = None
        /\ writes' = writes + 1
        /\ UNCHANGED <<unit, data, health, conf, fallback, reads, changes, history>>

\* _async_set_operation_mode_locked; mode is not "inactive" here.
SetOperationModeLocked(mode, clearPreset) ==
    /\ ~FlowWriteUncertain
    /\ mode \in {"manual", "unbalanced"} => BalancedLevel # None
    /\ overlay' = ClearOverlays({"airflow_levels"} \cup IF mode = "off" THEN {"intensive"} ELSE {})
    /\ op' = [Sending("operation_mode", mode,
                      CASE mode = "off" -> Off
                        [] mode = "manual" -> Manual(BalancedLevel)
                        [] mode = "unbalanced" -> Unbalanced(BalancedLevel, ExtractLevel)
                        [] mode = "sensor" -> Sensor,
                      IF mode = "off" THEN FALSE ELSE None, TRUE)
              EXCEPT !.clearPreset = clearPreset,
                     !.derived = mode \in {"manual", "unbalanced"},
                     !.src = ModeWriteFrom]
    /\ uncertain' = None
    /\ writes' = writes + 1

AsyncSetOperationMode(mode) ==
    /\ Locked("mode")
    /\ SetOperationModeLocked(mode, FALSE)
    /\ UNCHANGED <<unit, data, health, conf, fallback, reads, changes, history>>

\* "inactive" is a no-op when a fresh read already reports a direct mode.
AsyncSetInactive ==
    /\ Locked("inactive")
    /\ ~(data.mode \in {"off", "manual", "unbalanced"} /\ GroupFresh(health, "mode"))
    /\ SetOperationModeLocked("manual", FALSE)
    /\ UNCHANGED <<unit, data, health, conf, fallback, reads, changes, history>>

AsyncSetPresetMode(preset) ==
    /\ Locked("preset")
    /\ overlay' = ClearOverlays({"airflow_levels"})
    /\ op' = Sending("preset_mode", preset, Quick(preset), FALSE, TRUE)
    /\ writes' = writes + 1
    /\ UNCHANGED <<unit, data, health, conf, uncertain, fallback, reads, changes, history>>

EffectivePreset ==
    IF overlay["preset_mode"] # None THEN overlay["preset_mode"].value ELSE data.preset

AsyncClearPresetMode ==
    /\ Locked("clear_preset")
    /\ IF EffectivePreset = None
       THEN /\ overlay' = ClearOverlays({"preset_mode"})
            /\ UNCHANGED <<op, uncertain, writes>>
       ELSE SetOperationModeLocked(
              IF EffectivePreset \in AppPresets THEN "unbalanced" ELSE "manual", TRUE)
    /\ UNCHANGED <<unit, data, health, conf, fallback, reads, changes, history>>

\* async_activate_intensive and async_deactivate_intensive.
AsyncSetIntensive(on) ==
    /\ Locked("intensive")
    /\ op' = Sending("intensive", on, None, on, TRUE)
    /\ writes' = writes + 1
    /\ UNCHANGED <<unit, data, health, conf, overlay, uncertain, fallback, reads, changes, history>>

-----------------------------------------------------------------------------
(* Outcomes of the request sequence (_async_write_with_confirmation_locked). *)

\* The request sequence ended; the unit settles before it is read back.
Settling(kind) ==
    [Idle EXCEPT !.phase = "settling", !.kind = kind, !.key = op.key,
                 !.clearPreset = op.clearPreset]

\* History of a new outcome for op.key.
NewOutcome(c2) ==
    /\ conf' = c2
    /\ seen' = [seen EXCEPT ![op.key] = FALSE]
    /\ issues' = [issues EXCEPT ![op.key] = IF c2[op.key].counted THEN 1 ELSE 0]

\* The transport accepted the write; the unit may still not take it over.
WriteAccepted ==
    LET cleared == ClearOverlays(Superseded(op.key))
    IN  /\ op.phase = "sending"
        /\ unit' \in {unit, Applied(unit, op)}
        /\ NewOutcome(RecordPending(Supersede(conf, op.key), op.key, op.value, op.baseline))
        /\ overlay' = [k \in OverlayKeys |-> IF k = op.key THEN OverlayOf(op.value) ELSE cleared[k]]
        /\ fallback' = IF ~op.direction THEN fallback
                       ELSE IF op.fallback THEN health["mode"].at ELSE None
        /\ marks' = IF op.key \in {"operation_mode", "preset_mode"} THEN [marks EXCEPT !.accepted = reads] ELSE marks
        /\ op' = IF op.readBack THEN Settling("accepted") ELSE Idle
        /\ UNCHANGED <<data, health, uncertain, reads, writes, changes, prov>>

\* Mutant: the earlier pending value stays on display.
WriteFailedKeepsOverlay ==
    /\ op.phase = "sending"
    /\ unit' \in {unit, Staged(unit, op), Applied(unit, op)}
    /\ NewOutcome(SetStatus(RecordPending(conf, op.key, op.value, op.baseline), op.key, "failed"))
    /\ op' = Settling("failed")
    /\ UNCHANGED <<data, health, overlay, uncertain, fallback, reads, writes, changes, prov, marks>>

\* A Modbus or Home Assistant error: the write may have had any effect.
WriteFailed ==
    /\ op.phase = "sending"
    /\ unit' \in {unit, Staged(unit, op), Applied(unit, op)}
    /\ NewOutcome(SetStatus(RecordPending(conf, op.key, op.value, op.baseline), op.key, "failed"))
    /\ overlay' = ClearOverlays({op.key})
    /\ op' = Settling("failed")
    /\ UNCHANGED <<data, health, uncertain, fallback, reads, writes, changes, prov, marks>>

\* The caller is cancelled while the requests are under way.
WriteCancelled ==
    /\ op.phase = "sending"
    /\ unit' \in {unit, Staged(unit, op), Applied(unit, op)}
    /\ uncertain' = [mode |-> op.baseline, flow |-> health["flow"].at]
    /\ overlay' = ClearOverlays(OverlayKeys)
    /\ NewOutcome(MarkUnconfirmed(
                    RecordPending(Supersede(conf, op.key), op.key, op.value, op.baseline), op.key))
    /\ marks' = [marks EXCEPT !.interrupted = reads]
    /\ op' = Idle
    /\ UNCHANGED <<data, health, fallback, reads, writes, changes, prov>>

-----------------------------------------------------------------------------
(* Room reads: by a poll, or once after a command.                         *)

\* What one airflow read can record.  A refused group is skipped only while it
\* is backed off, which needs an earlier error; an accepted write ends the
\* back-off of the mode block.
Outcomes(kind) ==
    {r \in [Groups -> {"ok", "error", "skip"}] :
        /\ \A g \in Groups : r[g] = "skip" => health[g].at # 0 /\ ~health[g].ok
        /\ kind = "accepted" => r["mode"] # "skip"}

ReadHealthAfter(r) ==
    [g \in Groups |-> IF r[g] = "skip" THEN health[g]
                      ELSE [at |-> reads + 1, ok |-> r[g] = "ok", old |-> FALSE]]

ReadStateAfter(r, flow) ==
    ApplyModeRead(IF r["flow"] = "ok" THEN [data EXCEPT !.flow = flow] ELSE data,
                  IF r["mode"] = "ok" THEN unit ELSE None)

\* History: the read the fields come from after this read.
ProvenanceAfter(r) ==
    LET flow == IF r["flow"] = "ok" THEN reads + 1 ELSE prov.flow
        mode == IF r["mode"] = "ok" THEN reads + 1 ELSE prov.mode
        kept == \/ r["mode"] = "ok" /\ unit.intensive
                \/ r["mode"] # "ok" /\ data.mode = "unbalanced"
    IN  [flow |-> flow, mode |-> mode,
         target |-> IF kept THEN prov.target
                    ELSE IF r["mode"] = "ok" /\ unit.base.levels # None THEN reads + 1 ELSE flow]

\* What the unit itself reports in a mode block.
BlockReports(key) ==
    CASE key = "intensive" -> unit.intensive
      [] key = "operation_mode" -> IF unit.intensive THEN None ELSE unit.base.mode
      [] key = "preset_mode" -> IF unit.intensive THEN None ELSE unit.base.preset
      [] key = "airflow_levels" ->
           IF unit.intensive \/ unit.base.mode # "unbalanced" THEN None ELSE unit.base.levels

SeenAfter(r) ==
    [k \in Keys |-> \/ seen[k]
                    \/ r["mode"] = "ok" /\ conf[k].status # "none"
                       /\ BlockReports(k) # None /\ BlockReports(k) = conf[k].expected]

\* prepare_balanced_target_readback applies to a fresh manual or off status.
ExactTargetApplies(d, h) ==
    GroupFresh(h, "mode") /\ d.intensive # TRUE /\ d.mode \in {"manual", "off"}

\* An earlier exact readback is carried along while the status does not change,
\* unless measured airflow shows that the unit left it.
CarriedReadbacks(d, h) ==
    LET kept == data.readback
        same == d.mode = data.mode /\ d.preset = None /\ d.target = data.target
        left == /\ GroupFresh(h, "flow") /\ d.flow # None
                /\ d.flow # <<kept, kept>> /\ d.flow = d.target
    IN  IF kept = None \/ ~same THEN {None} ELSE IF left THEN {kept, None} ELSE {kept}

\* Judge the writes, settle the overlays, publish the state, end the operation.
FinishRead(kind, key, clearPreset, d, h, sn, pv) ==
    LET judged == Confirm(conf, d, h)
        final == IF kind = "accepted" THEN MarkUnconfirmed(judged, key) ELSE judged
        clear == IF kind = "accepted" /\ clearPreset THEN {"preset_mode"} ELSE {}
    IN  /\ conf' = final
        /\ issues' = CountIssues(issues, conf, final)
        /\ overlay' = ClearOverlays(Settled(d, h) \cup clear)
        /\ fallback' = IF fallback # None /\ ModeReadSince(h, fallback) THEN None ELSE fallback
        /\ data' = d
        /\ health' = h
        /\ seen' = sn
        /\ prov' = pv
        /\ op' = Idle

\* Read the room and, if a balanced write can still be confirmed, go on to read
\* register 41121 while the unit may change.  A poll does so only when its
\* primary group was read.
ReadRoom(kind, key, clearPreset, r, flow) ==
    LET h == ReadHealthAfter(r)
        d == ReadStateAfter(r, flow)
        exact == ExactTargetApplies(d, h) /\ (kind = "poll" => r["flow"] = "ok")
    IN  /\ r \in Outcomes(kind)
        /\ reads' = reads + 1
        /\ IF exact /\ NeedsConfirmation("airflow_levels")
           THEN /\ op' = [op EXCEPT !.phase = "target", !.kind = kind, !.data = d, !.health = h,
                                     !.seen = SeenAfter(r), !.prov = ProvenanceAfter(r)]
                /\ UNCHANGED <<data, health, conf, overlay, fallback, seen, issues, prov>>
           ELSE \E carried \in (IF exact THEN CarriedReadbacks(d, h) ELSE {d.readback}) :
                   FinishRead(kind, key, clearPreset, [d EXCEPT !.readback = carried], h,
                              SeenAfter(r), ProvenanceAfter(r))

\* The read raised (lost connection): both groups are recorded as failed.
RoomReadLost(kind, key, clearPreset) ==
    /\ reads' = reads + 1
    /\ FinishRead(kind, key, clearPreset, data, ReadHealthAfter([g \in Groups |-> "error"]),
                  seen, prov)

\* The unit's reads are paused after an unanswered request: nothing is sent.
RoomReadDelayed(kind, key, clearPreset) ==
    /\ FinishRead(kind, key, clearPreset, data, health, seen, prov)
    /\ UNCHANGED reads

RoomRead(kind, key, clearPreset) ==
    \/ \E r \in Outcomes(kind), flow \in MeasuredFlows : ReadRoom(kind, key, clearPreset, r, flow)
    \/ RoomReadLost(kind, key, clearPreset)
    \/ RoomReadDelayed(kind, key, clearPreset)

Poll ==
    /\ op.phase = "idle"
    /\ reads < MaxReads
    /\ RoomRead("poll", None, FALSE)
    /\ UNCHANGED <<unit, uncertain, writes, changes, marks>>

\* _async_refresh_room_after_write
RefreshRoomAfterWrite ==
    /\ op.phase = "settling"
    /\ RoomRead(op.kind, op.key, op.clearPreset)
    /\ UNCHANGED <<unit, uncertain, writes, changes, marks>>

\* _read_balanced_target_if_pending: the exact set register, a code that is no
\* airflow, or an error.
ReadBalancedTarget(answered) ==
    LET target == IF answered THEN unit.set ELSE None
        matches == target # None /\ conf["airflow_levels"].expected = <<target, target>>
    IN  /\ op.phase = "target"
        /\ FinishRead(op.kind, op.key, op.clearPreset,
                      [op.data EXCEPT !.readback = target], op.health,
                      [op.seen EXCEPT !["airflow_levels"] = @ \/ matches], op.prov)
        /\ UNCHANGED <<unit, uncertain, reads, writes, changes, marks>>

\* The caller of a command, or a poll on unload, is cancelled during a read.
ReadCancelled ==
    /\ op.phase \in {"settling", "target"}
    /\ op' = Idle
    /\ UNCHANGED <<unit, data, health, conf, overlay, uncertain, fallback,
                   reads, writes, changes, history>>

-----------------------------------------------------------------------------
(* What happens whoever holds the lock.                                    *)

\* OptimisticOverlay._expire
OverlayExpires(key) ==
    /\ overlay[key] # None
    /\ overlay' = ClearOverlays({key})
    /\ UNCHANGED <<unit, data, health, conf, uncertain, fallback, op,
                   reads, writes, changes, history>>

\* read_too_old: the last read of a group passes its stale limit.
GroupAges(g) ==
    /\ GroupFresh(health, g)
    /\ health' = [health EXCEPT ![g].old = TRUE]
    /\ UNCHANGED <<unit, data, conf, overlay, uncertain, fallback, op,
                   reads, writes, changes, history>>

\* A write passes WRITE_CONFIRMATION_TIMEOUT_SECONDS, which only a pending one
\* notices, then WRITE_HEALTH_RETENTION_SECONDS, which only needs_confirmation
\* of an airflow write notices.
ConfirmationAges(key) ==
    LET late == conf[key].status = "pending" /\ conf[key].age = "new"
    IN  /\ conf[key].status \in ConfirmableStatuses
        /\ conf[key].age # "old"
        /\ late \/ key = "airflow_levels"
        /\ conf' = [conf EXCEPT ![key].age = IF late THEN "late" ELSE "old"]
        /\ UNCHANGED <<unit, data, health, overlay, uncertain, fallback, op,
                       reads, writes, changes, history>>

\* An entity asks for the levels: _flow_write_uncertain drops a marker that a
\* read has resolved.
LevelsQueried ==
    /\ uncertain # None
    /\ ~FlowWriteUncertain
    /\ uncertain' = None
    /\ UNCHANGED <<unit, data, health, conf, overlay, fallback, op,
                   reads, writes, changes, history>>

\* External: the app or the keypad changes the unit.
AppChanges ==
    /\ changes < MaxChanges
    /\ \/ \E b \in AppBases \ {unit.base} :
             unit' = [base |-> b, intensive |-> unit.intensive, set |-> SetRegister(b)]
       \/ unit' = [unit EXCEPT !.intensive = ~@]
    /\ changes' = changes + 1
    /\ UNCHANGED <<data, health, conf, overlay, uncertain, fallback, op, reads, writes, history>>

-----------------------------------------------------------------------------

InitialRead == [at |-> 1, ok |-> TRUE, old |-> FALSE]

\* The unit has been read once, or never answered yet.
Init ==
    /\ unit \in {[base |-> b, intensive |-> FALSE, set |-> SetRegister(b)] : b \in AppBases}
    /\ \E known \in BOOLEAN, flow \in MeasuredFlows :
          /\ health = [g \in Groups |-> IF known THEN InitialRead ELSE NeverRead]
          /\ data = IF known THEN ApplyModeRead([EmptyRoomState EXCEPT !.flow = flow], unit)
                    ELSE EmptyRoomState
          /\ prov = IF known THEN [flow |-> 1, mode |-> 1, target |-> 1]
                    ELSE [flow |-> 0, mode |-> 0, target |-> 0]
    /\ conf = [k \in Keys |-> NoConfirmation]
    /\ overlay = [k \in OverlayKeys |-> None]
    /\ uncertain = None
    /\ fallback = None
    /\ op = Idle
    /\ reads = 1 /\ writes = 0 /\ changes = 0
    /\ seen = [k \in Keys |-> FALSE]
    /\ issues = [k \in Keys |-> 0]
    /\ marks = [accepted |-> 0, interrupted |-> 0]

Command ==
    \/ \E level \in Level0 : AsyncSetLevel(level)
    \/ \E s, e \in Level0 : AsyncSetUnbalancedLevels(s, e)
    \/ \E direction \in {"supply", "extract"}, level \in Level0 :
          AsyncSetDirectionLevel(direction, level)
    \/ \E mode \in Modes : AsyncSetOperationMode(mode)
    \/ AsyncSetInactive
    \/ \E preset \in Presets : AsyncSetPresetMode(preset)
    \/ AsyncClearPresetMode
    \/ \E on \in BOOLEAN : AsyncSetIntensive(on)

Next ==
    \/ Command
    \/ WriteAccepted \/ WriteFailed \/ WriteCancelled
    \/ Poll \/ RefreshRoomAfterWrite \/ ReadCancelled
    \/ \E answered \in BOOLEAN : ReadBalancedTarget(answered)
    \/ \E key \in OverlayKeys : OverlayExpires(key)
    \/ \E g \in Groups : GroupAges(g)
    \/ \E key \in Keys : ConfirmationAges(key)
    \/ LevelsQueried
    \/ AppChanges

Spec == Init /\ [][Next]_vars

-----------------------------------------------------------------------------
(* Properties.                                                             *)

Health == [Groups -> [at : Stamps, ok : BOOLEAN, old : BOOLEAN]]
RoomStates == [mode : Modes \cup {None}, preset : Presets \cup AppPresets \cup {None},
               intensive : BOOLEAN \cup {None}, target : Pairs \cup {None},
               readback : Level0 \cup {None}, flow : Pairs \cup {None}]

\* Every field of RoomState, ReadHealth, WriteConfirmation, OptimisticOverlay
\* and RoomRuntime holds a value of its declared type.
TypeOK ==
    /\ unit \in UnitStates
    /\ data \in RoomStates
    /\ health \in Health
    /\ \A k \in Keys : /\ conf[k].status \in Statuses \cup {"none"}
                       /\ conf[k].baseline \in Stamps
                       /\ conf[k].counted \in BOOLEAN
                       /\ conf[k].age \in {"new", "late", "old"}
    /\ \A k \in OverlayKeys : overlay[k] = None \/ [flow |-> overlay[k].flow, mode |-> overlay[k].mode] \in Markers
    /\ uncertain \in Markers \cup {None}
    /\ fallback \in Stamps \cup {None}
    /\ op.phase \in {"idle", "sending", "settling", "target"}
    /\ reads \in Stamps /\ writes \in 0 .. MaxWrites /\ changes \in 0 .. MaxChanges

\* A write counts as confirmed only if the unit itself reported the expected
\* value in a read made after the write, never because a value cached from
\* before it happened to match (WriteConfirmation.baseline, _checked_confirmation).
\* Stated for every write but the two cases of the next two properties.
ConfirmedWasReported ==
    \A k \in Keys \ {"preset_mode"} :
        conf[k].status = "confirmed" /\ conf[k].age # "old" => seen[k]

\* Documented: "Cached values from before the write cannot confirm it."  Stated
\* for airflow writes, which _checked_confirmation also judges after the
\* retention has ended and 41121 is no longer read for them.
\* The code does not have it: README, "Observations".
CachedTargetNeverConfirms ==
    conf["airflow_levels"].status = "confirmed" => seen["airflow_levels"]

\* Documented: "Cached values from before the write cannot confirm it."  Stated
\* for quick-mode writes, which _checked_confirmation also judges while an
\* intensive status hides the base mode.
\* The code does not have it: README, "Observations".
CachedPresetNeverConfirms ==
    conf["preset_mode"].status = "confirmed" => seen["preset_mode"]

\* At most one airflow, operating-mode or quick-mode command is still open for
\* judgement: an accepted or interrupted one finishes the others (supersede).
OneOpenBaseWrite ==
    \A j, k \in BaseModeWrites :
        conf[j].status \in ConfirmableStatuses /\ conf[k].status \in ConfirmableStatuses => j = k

\* A pending value on display is the expected value of the last command under
\* its key, and that command was accepted: it has neither failed nor been
\* superseded by a later one (the clears around _async_write_with_confirmation_locked).
OverlayBacked ==
    \A k \in OverlayKeys : overlay[k] # None =>
        /\ overlay[k].value = conf[k].expected
        /\ conf[k].status \in ConfirmableStatuses \cup {"confirmed"}

\* After an interrupted flow write no command built on cached levels is sent
\* until the mode or the airflow group was read successfully.
InterruptedRefused ==
    op.derived => \/ marks.interrupted = 0
                  \/ prov.mode > marks.interrupted
                  \/ prov.flow > marks.interrupted

\* Documented: "After an interrupted airflow change, dependent changes wait until
\* the unit reports its state again": the levels a dependent command is built on
\* come from a read after the interruption (_levels_reported_since).
\* The code does not have it: README, "Observations".
InterruptedLevelsNotReused ==
    op.derived => op.src > marks.interrupted

\* async_set_direction_level: "every command builds on the latest accepted
\* state".  Stated after an accepted mode or quick-mode command, whose levels no
\* overlay holds: the kept level is a pending one or was read after that command.
\* The code does not have it: README, "Observations".
BuildsOnLatestAccepted ==
    op.derived /\ op.direction => op.src > marks.accepted

\* One command counts at most one issue, and an unhealthy outcome has been counted.
IssueCountedOnce ==
    \A k \in Keys : /\ issues[k] <= 1
                    /\ conf[k].status \in UnhealthyStatuses => issues[k] = 1

\* A final outcome changes only when a new command under its key completes.
FinalOutcomesStay ==
    [][\A k \in Keys : conf[k].status \in FinalStatuses /\ conf'[k] # conf[k]
                         => op.phase = "sending" /\ op.key = k]_vars
=============================================================================
