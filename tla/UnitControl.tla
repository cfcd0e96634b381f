---------------------------- MODULE UnitControl ----------------------------
(***************************************************************************)
(* The values behind the controls of one unit: the percentages of its two  *)
(* fans, the quick modes, the sensor modes and intensive ventilation, the  *)
(* register values they are written as (mode_codec, levels), the unit that *)
(* turns registers into airflow and a status (the mock unit of the tools), *)
(* and the status decoded back into what the entities show.                *)
(*                                                                         *)
(* Commands are accepted and applied in one step: WritePath and            *)
(* ModeRegisters have their failures.  The unit takes a command over a     *)
(* settle time later, in a step of its own.  A read answers the airflow,   *)
(* and the mode status unless it fails; the readback after a command is    *)
(* such a read.                                                            *)
(***************************************************************************)
EXTENDS Integers, FiniteSetsExt

CONSTANTS
    MaxAirflows,    \* profile_max_airflow of the unit families
    Percentages,    \* what users set a fan to
    QuickModes,     \* the quick modes users and the app select
    Options,        \* the sensor modes the select entity offers for the profile
    AppLevels,      \* the supply and extract airflows chosen in the app
    RegisterMaps,   \* the status and airflow of register map files a unit starts from
    None,           \* Python's None
    MaxCommands,    \* bound on commands
    MaxChanges      \* bound on changes made in the app and gateway reboots

\* PROFILE_METADATA: 97 for the family M-WRG-S, 100 for M-WRG-II.
ASSUME AirflowsAssumption == MaxAirflows \subseteq 97 .. 100
ASSUME PercentagesAssumption == Percentages \subseteq 0 .. 100
ASSUME QuickModesAssumption == QuickModes \subseteq {"low", "medium", "high"}
ASSUME BoundsAssumption == MaxCommands \in Nat /\ MaxChanges \in Nat
ASSUME AppLevelsAssumption == \A m \in MaxAirflows : AppLevels \subseteq (0 .. m) \X (0 .. m)

VARIABLES
    max,        \* profile_max_airflow of the configured profile
    set,        \* the unit's set registers 41120..41124
    readable,   \* 41121 was written in this gateway session
    status,     \* the unit's status registers 41100..41102
    flow,       \* its measured supply and extract airflow
    pending,    \* what the unit takes over when it settles
    data,       \* RoomState: the decoded mode and airflow fields
    fresh,      \* group_fresh of the groups flow and flow_control
    conf,       \* the outcome of the last airflow command
    converged,  \* the unit is in _balanced_flow_converged
    overlay,    \* the pending values on display
    lastOn,     \* _last_on_percentage of each fan
    commands, changes,  \* counters of the bounds
    asked,      \* history: what the commands since the last app change ask for
    current     \* history: a read saw the unit since it changed or the command aged

bounds == <<commands, changes>>
unitVars == <<set, readable, status, flow, pending>>
clientVars == <<data, fresh, conf, converged, overlay, lastOn>>
vars == <<max, unitVars, clientVars, bounds, asked, current>>

-----------------------------------------------------------------------------
(* const: modes, codes and limits.                                         *)

MODE_OFF == 1
MODE_SENSOR_CONTROL == 2
MODE_MANUAL == 3
MODE_UNBALANCED == 4
PRESET_MODE_TO_RAW_CODE == [low |-> 228, medium |-> 229, high |-> 230, intensive |-> 227]
INTENSIVE == PRESET_MODE_TO_RAW_CODE["intensive"]
SENSOR_MODE_TO_RAW_VALUE == [humidity_control |-> 112, co2_control |-> 144, automatic |-> 16]
SensorModes == DOMAIN SENSOR_MODE_TO_RAW_VALUE
ASSUME OptionsAssumption == Options \subseteq SensorModes
DirectModes == {"off", "manual", "unbalanced"}
Fans == {"supply", "extract"}
Overlays == {"levels", "preset", "intensive"}
ASSUME NoneAssumption ==
    /\ None \notin Int \cup BOOLEAN \cup DirectModes \cup SensorModes
    /\ None \notin DOMAIN PRESET_MODE_TO_RAW_CODE \cup {"extract_only", "supply_only"}
    /\ None \notin (Int \X Int) \cup (Int \X Int \X Int)
    /\ None \notin [status : Int \X Int \X Int, flow : {None} \cup (Int \X Int)]
LEVEL_CONFIRM_TOLERANCE == 2

\* The key whose value is v, or None.
KeyOf(table, v) ==
    IF \E k \in DOMAIN table : table[k] = v THEN CHOOSE k \in DOMAIN table : table[k] = v ELSE None

\* MODE_STATUS_SENSOR_MODE_TO_RAW_VALUE
StatusSensorValue(v) ==
    CASE v \in {48, 80} -> SENSOR_MODE_TO_RAW_VALUE["automatic"]
      [] v \in {144, 176, 208} -> SENSOR_MODE_TO_RAW_VALUE["co2_control"]
      [] OTHER -> v

-----------------------------------------------------------------------------
(* Rounding and scaling.                                                   *)

Abs(n) == IF n < 0 THEN -n ELSE n

\* Python's round(a / b): halves go to the even neighbour.
Round(a, b) ==
    LET q == a \div b
        r == a % b
    IN  IF 2 * r < b THEN q ELSE IF 2 * r > b THEN q + 1 ELSE q + (q % 2)

ScaleAirflowToRaw(level) == Min({200, Round(level * 200, max)})
ScaleRawLevelToAirflow(raw) == Round(raw * max, 200)

FanPercentage(level) ==
    CASE level = None -> None
      [] level = 0 -> 0
      [] OTHER -> Min({100, (level * 100) \div max})

\* Mutant: the percentage is rounded down.
FanLevelDown(percentage) == (percentage * max) \div 100

\* math.ceil(percentage_to_ranged_value(...))
FanLevel(percentage) == (percentage * max + 99) \div 100

-----------------------------------------------------------------------------
(* The unit: what it makes of its set registers (_mock_model).             *)

QUICK_MODE_AIRFLOW == [low |-> 20, medium |-> 30, high |-> 60, intensive |-> 80]

QuickAirflow(mode) == Min({QUICK_MODE_AIRFLOW[mode], max})

Airflow(raw) ==
    IF raw \in 0 .. 200 THEN ScaleRawLevelToAirflow(raw) ELSE Min({(raw - 200) * 10, max})

\* _status: a flow of None leaves the measured airflow as it is.
Status(mode, supply, extract, airflow) ==
    [status |-> <<mode, supply, extract>>, flow |-> airflow]

QuickStatus(mode) ==
    LET code == PRESET_MODE_TO_RAW_CODE[mode]
    IN  Status(MODE_MANUAL, code, code, <<QuickAirflow(mode), QuickAirflow(mode)>>)

\* A register map is that of a unit that runs an app preset of one direction.
ASSUME RegisterMapsAssumption ==
    \A start \in RegisterMaps : \E n \in 1 .. 10 :
        /\ \A m \in MaxAirflows : 10 * n <= m
        /\ start \in {Status(MODE_UNBALANCED, 0, 200 + n, <<0, 10 * n>>),
                      Status(MODE_UNBALANCED, 200 + n, 0, <<10 * n, 0>>)}

\* The sensor-control subcodes are the written values with bit 32 set.
SensorStatus(value) == IF (value \div 32) % 2 = 1 THEN value ELSE value + 32

ModeUpdates(r) ==
    LET quick == KeyOf(PRESET_MODE_TO_RAW_CODE, r.current_level)
        level == r.current_level
    IN  IF r.preset_mode = MODE_MANUAL /\ r.preset_value = INTENSIVE THEN QuickStatus("intensive")
        ELSE CASE r.mode = MODE_SENSOR_CONTROL ->
                    Status(r.mode, SensorStatus(level), SensorStatus(level), None)
               [] r.mode = MODE_OFF -> Status(r.mode, level, level, <<0, 0>>)
               [] r.mode = MODE_UNBALANCED ->
                    Status(r.mode, level, r.extract_target_level,
                           <<Airflow(level), Airflow(r.extract_target_level)>>)
               [] OTHER -> IF quick # None THEN QuickStatus(quick)
                           ELSE Status(r.mode, level, level, <<Airflow(level), Airflow(level)>>)

\* The set registers after some of them are written.
SetAfter(writes) == [r \in DOMAIN set |-> IF r \in DOMAIN writes THEN writes[r] ELSE set[r]]

\* The writes of a command and the APPLY that commits them.
Commit(writes) ==
    /\ set' = SetAfter(writes)
    /\ readable' = (readable \/ "current_level" \in DOMAIN writes)
    /\ pending' = ModeUpdates(set')
    /\ UNCHANGED <<status, flow>>

TakesOver(updates) ==
    /\ status' = updates.status
    /\ flow' = IF updates.flow = None THEN flow ELSE updates.flow
    /\ pending' = None

-----------------------------------------------------------------------------
(* mode_codec: the register writes of a command.                           *)

CLEAR_INTENSIVE == [preset_mode |-> 0, preset_value |-> 0]
OffWrites == [preset_mode |-> 0, preset_value |-> 0, mode |-> MODE_OFF, current_level |-> 0]
ManualWrites(raw) == [mode |-> MODE_MANUAL, current_level |-> raw]
UnbalancedWrites(s, e) ==
    [mode |-> MODE_UNBALANCED, current_level |-> ScaleAirflowToRaw(s),
     extract_target_level |-> ScaleAirflowToRaw(e)]

\* Mutant: intensive ventilation keeps running.
LevelWritesKeepIntensive(pair) ==
    IF pair = <<0, 0>> THEN [mode |-> MODE_OFF, current_level |-> 0]
    ELSE IF pair[1] = pair[2] THEN ManualWrites(ScaleAirflowToRaw(pair[1]))
    ELSE UnbalancedWrites(pair[1], pair[2])

\* write_level for a balanced level, else write_unbalanced_levels
LevelWrites(pair) ==
    IF pair = <<0, 0>> THEN OffWrites
    ELSE IF pair[1] = pair[2] THEN ManualWrites(ScaleAirflowToRaw(pair[1]))
    ELSE UnbalancedWrites(pair[1], pair[2])

OperatingModeWrites(mode, balanced, extract) ==
    CASE mode = "manual" -> ManualWrites(ScaleAirflowToRaw(balanced))
      [] mode = "unbalanced" -> UnbalancedWrites(balanced, extract)
      [] mode \in SensorModes ->
           [mode |-> MODE_SENSOR_CONTROL, current_level |-> SENSOR_MODE_TO_RAW_VALUE[mode]]

\* Mutant: a quick mode leaves intensive ventilation running.
PresetModeWritesKeepIntensive(preset) ==
    IF preset = "intensive"
    THEN [preset_mode |-> MODE_MANUAL, preset_value |-> INTENSIVE]
    ELSE [mode |-> MODE_MANUAL, current_level |-> PRESET_MODE_TO_RAW_CODE[preset]]

PresetModeWrites(preset) ==
    IF preset = "intensive"
    THEN [preset_mode |-> MODE_MANUAL, preset_value |-> INTENSIVE]
    ELSE [preset_mode |-> 0, preset_value |-> 0, mode |-> MODE_MANUAL,
          current_level |-> PRESET_MODE_TO_RAW_CODE[preset]]

-----------------------------------------------------------------------------
(* mode_codec: decoding the status.                                        *)

DecodeTargetLevel(raw) ==
    IF raw \in 0 .. 200 THEN ScaleRawLevelToAirflow(raw)
    ELSE IF (raw - 200) * 10 <= max THEN (raw - 200) * 10 ELSE None

DecodeOperationMode(m, v) ==
    CASE m = MODE_SENSOR_CONTROL -> KeyOf(SENSOR_MODE_TO_RAW_VALUE, StatusSensorValue(v))
      [] m = MODE_OFF -> "off"
      [] m = MODE_MANUAL -> "manual"
      [] m = MODE_UNBALANCED -> "unbalanced"
      [] OTHER -> None

DecodePresetMode(b) ==
    CASE b[1] = MODE_UNBALANCED /\ b[2] = 0 /\ b[3] > 200 -> "extract_only"
      [] b[1] = MODE_UNBALANCED /\ b[3] = 0 /\ b[2] > 200 -> "supply_only"
      [] b[1] = MODE_MANUAL -> KeyOf(PRESET_MODE_TO_RAW_CODE, b[2])
      [] OTHER -> None

ReportsIntensive(b) ==
    (b[1] = MODE_MANUAL /\ b[2] = INTENSIVE) \/ (b[1] = 0 /\ b[2] = 0)

DeriveBalancedAirflow(f) ==
    IF Abs(f[1] - f[2]) <= 1 THEN Round(f[1] + f[2], 2) ELSE None

\* A status block, or None when its read failed; d holds the new airflow.
ApplyModeRead(d, b) ==
    LET mode == IF b = None THEN d.mode ELSE DecodeOperationMode(b[1], b[2])
        direct == IF b = None \/ mode \notin {"off", "manual"} THEN None ELSE DecodeTargetLevel(b[2])
        target == IF mode = "unbalanced"
                  THEN IF b = None THEN d.target ELSE DecodeTargetLevel(b[2])
                  ELSE IF direct # None THEN direct ELSE DeriveBalancedAirflow(d.flow)
        extract == IF mode # "unbalanced" THEN None
                   ELSE IF b = None THEN d.extract ELSE DecodeTargetLevel(b[3])
    IN  IF b # None /\ ReportsIntensive(b) THEN [d EXCEPT !.intensive = TRUE]
        ELSE [mode |-> mode, target |-> target, extract |-> extract, readback |-> None,
              preset |-> IF b = None THEN d.preset ELSE DecodePresetMode(b),
              intensive |-> IF b = None THEN d.intensive ELSE FALSE,
              flow |-> d.flow]

-----------------------------------------------------------------------------
(* levels: the supply and extract pair behind the fans.                    *)

FirstKnown(a, b) == IF a # None THEN a ELSE b

LevelsReached(pair, expected) ==
    \A i \in 1 .. 2 : pair[i] # None /\ Abs(pair[i] - expected[i]) <= LEVEL_CONFIRM_TOLERANCE

LevelsBalanced(a, b) == a = b \/ (a > 0 /\ b > 0 /\ Abs(a - b) <= 1)

\* target_levels; airflow is the measured pair, or unknown when it is not to be used.
TargetLevels(d, airflow) ==
    LET hidden == d.preset \in DOMAIN PRESET_MODE_TO_RAW_CODE /\ airflow = <<None, None>>
        common == FirstKnown(d.readback, IF hidden THEN None ELSE d.target)
    IN  CASE d.mode = "off" -> <<0, 0>>
          [] d.mode = "unbalanced" ->
               <<FirstKnown(d.target, airflow[1]), FirstKnown(d.extract, airflow[2])>>
          [] d.mode \in SensorModes -> airflow
          [] OTHER -> IF common # None THEN <<common, common>>
                      ELSE <<FirstKnown(airflow[1], airflow[2]), FirstKnown(airflow[2], airflow[1])>>

TargetsKnown(d, f) == "mode" \in f /\ d.mode # None

\* reported_levels
ReportedLevels(d, f) ==
    LET airflow == IF "flow" \in f THEN d.flow ELSE <<None, None>>
    IN  IF TargetsKnown(d, f) THEN TargetLevels(d, airflow) ELSE airflow

ReportedSource(d, f) ==
    IF TargetsKnown(d, f) /\ ReportedLevels(d, f) = TargetLevels(d, <<None, None>>)
    THEN "target" ELSE "measured"

\* coordinator.effective_levels
EffectiveLevels(d, f, o) == IF o.levels # None THEN o.levels ELSE ReportedLevels(d, f)

Own(pair, fan) == IF fan = "supply" THEN pair[1] ELSE pair[2]
Opposite(pair, fan) == IF fan = "supply" THEN pair[2] ELSE pair[1]

\* Mutant: the two directions are swapped.
PairOfSwapped(own, other, fan) == IF fan = "supply" THEN <<other, own>> ELSE <<own, other>>

PairOf(own, other, fan) == IF fan = "supply" THEN <<own, other>> ELSE <<other, own>>

LevelMode(pair) ==
    IF pair = <<0, 0>> THEN "off"
    ELSE IF LevelsBalanced(pair[1], pair[2]) THEN "manual" ELSE "unbalanced"

\* The mode a fan command starts from.
StartingMode == IF overlay.levels # None THEN LevelMode(overlay.levels) ELSE data.mode

Levels == EffectiveLevels(data, fresh, overlay)

\* Measured airflow jitters around one balanced target.
PlannedOther(fan) ==
    IF /\ overlay.levels = None /\ ReportedSource(data, fresh) = "measured"
       /\ Levels[1] # None /\ Levels[2] # None
       /\ Abs(Levels[1] - Levels[2]) <= LEVEL_CONFIRM_TOLERANCE
    THEN Round(Levels[1] + Levels[2], 2) ELSE Opposite(Levels, fan)

PlanDirectionWrite(fan, level) ==
    LET other == PlannedOther(fan)
    IN  IF \/ other = None
           \/ LevelsBalanced(level, other)
           \/ StartingMode = "off"
           \/ level > 0 /\ StartingMode \in SensorModes
        THEN <<level, level>> ELSE PairOf(level, other, fan)

\* mode_write_levels
BalancedLevel == FirstKnown(Levels[1], FirstKnown(data.target, FirstKnown(data.flow[1], data.flow[2])))
ExtractLevel ==
    FirstKnown(Levels[2], FirstKnown(data.extract, FirstKnown(data.flow[2], BalancedLevel)))

-----------------------------------------------------------------------------
(* Commands of the entities.                                               *)

\* The listeners of a change: each running fan remembers its percentage.
Published ==
    lastOn' = [fan \in Fans |->
        LET shown == FanPercentage(Own(EffectiveLevels(data', fresh', overlay'), fan))
        IN  IF shown \notin {None, 0} THEN shown ELSE lastOn[fan]]

Shows(changed) == overlay' = [o \in Overlays |-> IF o \in DOMAIN changed THEN changed[o] ELSE overlay[o]]

\* A later command for the base mode supersedes an open airflow command.
Superseded == conf' = [conf EXCEPT !.open = FALSE]

\* History: what the commands ask for; `fans' tells that a fan set the levels.
Asks(mode, levels, fans, preset, intensive) ==
    asked' = [mode |-> mode, levels |-> levels, fans |-> fans, preset |-> preset,
              intensive |-> intensive]

Command(writes) ==
    /\ commands < MaxCommands
    /\ UNCHANGED <<max, changes, data, fresh>>
    /\ Commit(writes)
    /\ Published
    /\ commands' = commands + 1
    /\ current' = FALSE

SetLevels(pair) ==
    /\ Shows(IF pair = <<0, 0>> THEN [levels |-> pair, preset |-> None, intensive |-> None]
             ELSE [levels |-> pair, preset |-> None])
    /\ conf' = [expected |-> pair, open |-> TRUE, recent |-> TRUE]
    /\ converged' = FALSE
    /\ Asks(IF pair[1] = pair[2] THEN LevelMode(pair) ELSE "unbalanced", pair, TRUE, None,
            IF pair = <<0, 0>> THEN FALSE ELSE asked.intensive)
    /\ Command(LevelWrites(pair))

\* async_set_percentage; stopping one fan needs the level of the other.
SetPercentage(fan, percentage) ==
    /\ percentage = 0 => PlannedOther(fan) # None
    /\ SetLevels(PlanDirectionWrite(fan, FanLevel(percentage)))

DEFAULT_TURN_ON_PERCENTAGE == 50

\* async_turn_on without a percentage; it does nothing for a running fan.
TurnOn(fan) ==
    /\ FanPercentage(Own(Levels, fan)) \in {None, 0}
    /\ SetPercentage(fan, IF lastOn[fan] = None THEN DEFAULT_TURN_ON_PERCENTAGE ELSE lastOn[fan])

SetOperationMode(mode) ==
    /\ mode \in {"manual", "unbalanced"} => BalancedLevel # None
    /\ Shows([levels |-> None, preset |-> None])
    /\ Superseded
    /\ Asks(mode, CASE mode = "manual" -> <<BalancedLevel, BalancedLevel>>
                    [] mode = "unbalanced" -> <<BalancedLevel, ExtractLevel>>
                    [] OTHER -> None, FALSE, None, asked.intensive)
    /\ UNCHANGED converged
    /\ Command(OperatingModeWrites(mode, BalancedLevel, ExtractLevel))

\* "inactive" does nothing when a fresh status reports a direct mode.
SelectOperationMode(option) ==
    /\ option = "inactive" => ~(data.mode \in DirectModes /\ "mode" \in fresh)
    /\ SetOperationMode(IF option = "inactive" THEN "manual" ELSE option)

SelectPreset(preset) ==
    /\ Shows([levels |-> None, preset |-> preset])
    /\ Superseded
    /\ Asks("manual", None, FALSE, preset, FALSE)
    /\ UNCHANGED converged
    /\ Command(PresetModeWrites(preset))

\* async_clear_preset_mode; without a quick mode nothing is sent.
ClearPreset ==
    LET preset == FirstKnown(overlay.preset, data.preset)
    IN  /\ preset # None
        /\ SetOperationMode(IF preset \in {"extract_only", "supply_only"} THEN "unbalanced" ELSE "manual")

SwitchIntensive(on) ==
    /\ Shows([intensive |-> on])
    /\ Asks(asked.mode, asked.levels, asked.fans, asked.preset, on)
    /\ UNCHANGED <<conf, converged>>
    /\ Command(IF on THEN PresetModeWrites("intensive") ELSE CLEAR_INTENSIVE)

-----------------------------------------------------------------------------
(* Reads.                                                                  *)

\* _balanced_readback_superseded_by_flow
SupersededByFlow(d, readback, recent) ==
    /\ d.target # None
    /\ ~LevelsReached(d.flow, <<readback, readback>>)
    /\ LevelsReached(d.flow, <<d.target, d.target>>)
    /\ ~recent \/ LevelsReached(data.flow, <<readback, readback>>)

FlowReachedReadback(d, readback) ==
    LevelsReached(d.flow, <<readback, readback>>) \/ LevelsReached(data.flow, <<readback, readback>>)

\* An exact target stays while nothing shows that the unit left it.
Carries(d, conv) ==
    /\ data.readback # None
    /\ d.mode = data.mode /\ d.preset = None /\ d.target = data.target
    /\ ~SupersededByFlow(d, data.readback, conf.recent /\ ~conv)

\* read_balanced_target_readback: refused, no airflow, or the exact target.
SetTarget ==
    IF readable /\ set.current_level \in 0 .. 200
    THEN ScaleRawLevelToAirflow(set.current_level) ELSE None

\* _checked_confirmation of the airflow command; ok: the status was read.
Confirmed(d, ok) ==
    /\ ok /\ d.intensive # TRUE
    /\ IF d.mode \in {"manual", "off"}
       THEN d.readback # None /\ LevelsReached(<<d.readback, d.readback>>, conf.expected)
       ELSE d.mode = "unbalanced" /\ LevelsReached(<<d.target, d.extract>>, conf.expected)

\* Judge the command, settle the overlays, publish the state.
Finish(d, ok) ==
    /\ data' = d
    /\ conf' = [conf EXCEPT !.open = @ /\ ~Confirmed(d, ok)]
    /\ overlay' =
         [levels |-> IF overlay.levels # None /\ LevelsReached(ReportedLevels(d, fresh'), overlay.levels)
                     THEN None ELSE overlay.levels,
          preset |-> IF ok /\ overlay.preset = d.preset THEN None ELSE overlay.preset,
          intensive |-> IF ok /\ overlay.intensive = d.intensive THEN None ELSE overlay.intensive]
    /\ Published

\* read_room and _read_balanced_target_if_pending
ReadRoom(ok) ==
    LET d == ApplyModeRead([data EXCEPT !.flow = flow], IF ok THEN status ELSE None)
        exact == ok /\ d.intensive # TRUE /\ d.mode \in {"manual", "off"}
        conv == converged \/ (data.readback # None /\ FlowReachedReadback(d, data.readback))
    IN  /\ UNCHANGED <<max, unitVars, bounds, asked>>
        /\ current' = (ok /\ pending = None)
        /\ fresh' = IF ok THEN {"flow", "mode"} ELSE {"flow"}
        /\ IF exact /\ conf.open /\ conf.recent
           THEN Finish([d EXCEPT !.readback = SetTarget], ok) /\ UNCHANGED converged
           ELSE IF exact
           THEN /\ Finish(IF Carries(d, conv) THEN [d EXCEPT !.readback = data.readback] ELSE d, ok)
                /\ converged' = (conv /\ Carries(d, conv))
           ELSE Finish(d, ok) /\ UNCHANGED converged

-----------------------------------------------------------------------------
(* Time, the app and the gateway.                                          *)

\* OptimisticOverlay._expire
OverlayExpires(o) ==
    /\ overlay[o] # None
    /\ overlay' = [overlay EXCEPT ![o] = None]
    /\ UNCHANGED <<max, unitVars, data, fresh, conf, converged, bounds, asked, current>>
    /\ Published

\* The airflow command passes WRITE_HEALTH_RETENTION_SECONDS.
CommandAges ==
    /\ conf.recent
    /\ conf' = [conf EXCEPT !.recent = FALSE]
    /\ current' = FALSE
    /\ UNCHANGED <<max, unitVars, data, fresh, converged, overlay, lastOn, bounds, asked>>

Settle ==
    /\ pending # None
    /\ TakesOver(pending)
    /\ current' = FALSE
    /\ UNCHANGED <<max, set, readable, clientVars, bounds, asked>>

\* What the app can set: off, intensive, a quick mode or airflow levels.
AppUpdates ==
    {Status(MODE_OFF, 0, 0, <<0, 0>>), Status(0, 0, 0, <<QuickAirflow("intensive"), QuickAirflow("intensive")>>)}
    \cup {QuickStatus(mode) : mode \in QuickModes}
    \cup {LET s == Round(pair[1] * 200, max)
              e == Round(pair[2] * 200, max)
          IN  Status(IF s = e THEN MODE_MANUAL ELSE MODE_UNBALANCED, s, e, pair) : pair \in AppLevels}

NothingAsked == [mode |-> None, levels |-> None, fans |-> FALSE, preset |-> None, intensive |-> None]

AppChange ==
    /\ changes < MaxChanges
    /\ \E updates \in AppUpdates : TakesOver(updates)
    /\ changes' = changes + 1
    /\ asked' = NothingAsked
    /\ current' = FALSE
    /\ UNCHANGED <<max, set, readable, clientVars, commands>>

\* The gateway restarts: units settle, and 41121 is locked until written again.
Reboot ==
    /\ changes < MaxChanges
    /\ IF pending # None THEN TakesOver(pending) ELSE UNCHANGED <<status, flow, pending>>
    /\ readable' = FALSE
    /\ changes' = changes + 1
    /\ current' = FALSE
    /\ UNCHANGED <<max, set, clientVars, commands, asked>>

-----------------------------------------------------------------------------

\* unit_registers: the unit starts from its factory setting or a register map.
Init ==
    /\ max \in MaxAirflows
    /\ \E start \in RegisterMaps \cup {Status(MODE_MANUAL, 80, 80, <<40, 40>>)} :
          status = start.status /\ flow = start.flow
    /\ set = [mode |-> MODE_MANUAL, current_level |-> 80, extract_target_level |-> 80,
              preset_mode |-> 0, preset_value |-> 0]
    /\ readable = FALSE
    /\ pending = None
    /\ data = [mode |-> None, target |-> None, extract |-> None, readback |-> None,
               preset |-> None, intensive |-> None, flow |-> <<None, None>>]
    /\ fresh = {}
    /\ conf = [expected |-> <<0, 0>>, open |-> FALSE, recent |-> FALSE]
    /\ converged = FALSE
    /\ overlay = [o \in Overlays |-> None]
    /\ lastOn = [fan \in Fans |-> None]
    /\ commands = 0 /\ changes = 0
    /\ asked = NothingAsked
    /\ current = FALSE

Next ==
    \/ \E fan \in Fans, p \in Percentages : SetPercentage(fan, p)
    \/ \E fan \in Fans : TurnOn(fan)
    \/ \E option \in Options \cup {"inactive"} : SelectOperationMode(option)
    \/ \E preset \in QuickModes : SelectPreset(preset)
    \/ ClearPreset
    \/ \E on \in BOOLEAN : SwitchIntensive(on)
    \/ \E ok \in BOOLEAN : ReadRoom(ok)
    \/ \E o \in Overlays : OverlayExpires(o)
    \/ CommandAges \/ Settle \/ AppChange \/ Reboot

Spec == Init /\ [][Next]_vars

-----------------------------------------------------------------------------
(* Properties.                                                             *)

Airflows == 0 .. max
OrNone(S) == S \cup {None}

\* Every register, decoded field and percentage stays in its range: raw levels
\* fit the register, levels the unit family, percentages the fan entity.
TypeOK ==
    /\ set.current_level \in 0 .. 230 /\ set.extract_target_level \in 0 .. 200
    /\ data.target \in OrNone(Airflows) /\ data.extract \in OrNone(Airflows)
    /\ data.readback \in OrNone(Airflows)
    /\ data.mode \in OrNone(DirectModes \cup SensorModes)
    /\ overlay.levels \in OrNone(Airflows \X Airflows)
    /\ overlay.preset \in OrNone(QuickModes)
    /\ lastOn \in [Fans -> OrNone(1 .. 100)]
    /\ conf.expected \in Airflows \X Airflows

\* For every level of the family: a level read back from the register it was
\* written to is that level, so a balanced write can be confirmed and measured
\* airflow equals it; and a fan turned off and on again by the percentage it
\* showed returns to the level it ran at (percentage, async_set_percentage,
\* scale_airflow_to_raw, scale_raw_level_to_airflow).  The family of a unit never
\* changes, so it is enough to look before the first command.
LevelsSurvive ==
    commands = 0 => \A level \in 1 .. max :
        /\ ScaleRawLevelToAirflow(ScaleAirflowToRaw(level)) = level
        /\ FanLevel(FanPercentage(level)) = level

AskedRuns(a) ==
    IF a.intensive THEN status = QuickStatus("intensive").status
    ELSE /\ a.preset # None => status = QuickStatus(a.preset).status
         /\ a.levels # None => flow = a.levels
         /\ a.mode \in SensorModes => status[1] = MODE_SENSOR_CONTROL

\* Once the unit settled, it runs what the last commands asked for, in whatever
\* order they came and whatever it had staged before: an off command stops it
\* although intensive ventilation was running, ending intensive ventilation
\* brings back the last base setting, and a quick mode replaces both.
AskedIsRun == pending = None /\ asked.intensive # None => AskedRuns(asked)

\* A read after the unit settled decodes what the last commands asked for: the
\* mode, the quick mode and the levels, unless intensive ventilation hides them
\* (apply_mode_read as the inverse of the write functions and the unit).  The
\* levels of a fan command are also the ones on display, whatever exact target is
\* carried along from earlier commands; those of a mode command are once an
\* earlier airflow command is no longer recent (README, "Observations").
AskedIsRead ==
    current /\ asked.intensive # None =>
        /\ data.intensive = asked.intensive
        /\ ~asked.intensive /\ asked.mode # None =>
              /\ data.mode = asked.mode
              /\ data.preset = asked.preset
              /\ asked.levels # None =>
                    /\ TargetLevels([data EXCEPT !.readback = None], data.flow) = asked.levels
                    /\ asked.fans \/ ~conf.recent =>
                          LevelsReached(ReportedLevels(data, fresh), asked.levels)

\* Setting one fan keeps the other one where it is shown, within the tolerance of
\* measured airflow, unless the unit was off or leaves a sensor mode.
OppositeKept ==
    [][commands' > commands /\ overlay'.levels # None =>
       \A fan \in Fans, p \in Percentages :
         SetPercentage(fan, p) /\ Opposite(Levels, fan) # None
         /\ StartingMode # "off" /\ (p > 0 => StartingMode \notin SensorModes)
         => Abs(Opposite(overlay'.levels, fan) - Opposite(Levels, fan)) <= LEVEL_CONFIRM_TOLERANCE]_vars

\* The base setting is what the set registers run without the override.
Unit == INSTANCE VentilationUnit WITH
    Bases <- (1 .. 4) \X (0 .. 255) \X (0 .. 255),
    Ending <- {<<MODE_OFF, 0, 0>>} \cup
              {<<MODE_MANUAL, c, c>> : c \in {PRESET_MODE_TO_RAW_CODE[q] : q \in QuickModes}},
    Override <- <<MODE_MANUAL, INTENSIVE, INTENSIVE>>,
    wanted <- [base |-> ModeUpdates(SetAfter(CLEAR_INTENSIVE)).status,
               override |-> ModeUpdates(set) = QuickStatus("intensive")],
    running <- status,
    settling <- pending # None

\* The register writes of every command make the unit behave as WritePath has
\* it: one base setting under an intensive override that leaves it alone, which
\* off and the quick modes end and no other command does.
ImplementsUnit == Unit!Spec

\* The first read after the unit settled and the timers ended shows what the
\* unit runs, whatever was pending, carried along or hidden before: the
\* intensive switch, the quick mode and, while intensive does not hide them, the
\* levels of both fans.  A change made in the app does not stay hidden behind
\* the exact target of an earlier command (_balanced_readback_superseded_by_flow).
DisplayCatchesUp ==
    current /\ ~conf.recent /\ (\A o \in Overlays : overlay[o] = None) =>
        /\ data.intensive = ReportsIntensive(status)
        /\ ~data.intensive =>
              /\ data.preset = DecodePresetMode(status)
              /\ LevelsReached(Levels, flow)

\* Controls, unit and display agree: the unit runs what was asked, a read
\* decodes it, and the display catches up with whatever the unit runs.
ControlsAgree == TypeOK /\ AskedIsRun /\ AskedIsRead /\ DisplayCatchesUp
=============================================================================
