------------------------- MODULE UnitControlProofs -------------------------
(***************************************************************************)
(* Proofs about UnitControl: what the controls ask for, what the unit runs *)
(* and what the entities show agree for every unit family, and the         *)
(* register writes implement VentilationUnit.                              *)
(*                                                                         *)
(* The invariant follows a command: the set registers hold what was asked  *)
(* (Written, AskedInv), the unit runs what they hold once it settled       *)
(* (UnitInv), a read decodes what it runs (AskedIsRead, Displayed).  The   *)
(* exact target needs FansInv: it is that of the last fan command, or the  *)
(* command is still open and the next read replaces it.                    *)
(***************************************************************************)
EXTENDS UnitControl, TLAPS

-----------------------------------------------------------------------------
(* The inductive invariant.                                                *)

Registers ==
    [mode : 1 .. 4, current_level : 0 .. 230, extract_target_level : 0 .. 200,
     preset_mode : {0, MODE_MANUAL}, preset_value : {0, INTENSIVE}]

\* Set registers that hold what one of the commands wrote.
Written(r) ==
    /\ r \in Registers
    /\ r.preset_mode = MODE_MANUAL <=> r.preset_value = INTENSIVE
    /\ r.mode = MODE_OFF => r.current_level = 0
    /\ r.mode = MODE_SENSOR_CONTROL => r.current_level \in {16, 112, 144}
    /\ r.mode = MODE_MANUAL => r.current_level \in 0 .. 200 \cup {228, 229, 230}
    /\ r.mode = MODE_UNBALANCED => r.current_level \in 0 .. 200

\* What the unit reports in each of its modes, and the airflow that goes with it.
SensorCodes == {48, 112, 176}

RunsIntensive(s) == s \in {<<MODE_MANUAL, INTENSIVE, INTENSIVE>>, <<0, 0, 0>>}
RunsOff(s, f) == s = <<MODE_OFF, 0, 0>> /\ f = <<0, 0>>
RunsSensor(s) == \E v \in SensorCodes : s = <<MODE_SENSOR_CONTROL, v, v>>
RunsQuick(s, f) == \E c \in 228 .. 230 : s = <<MODE_MANUAL, c, c>> /\ f[1] = f[2]
RunsManual(s, f) ==
    \E l \in 0 .. 200 :
        /\ s = <<MODE_MANUAL, l, l>>
        /\ f[1] = f[2] /\ Abs(f[1] - ScaleRawLevelToAirflow(l)) <= LEVEL_CONFIRM_TOLERANCE
RunsUnbalanced(s, f) ==
    \E l, e \in 0 .. 200 :
        /\ s = <<MODE_UNBALANCED, l, e>>
        /\ f = <<ScaleRawLevelToAirflow(l), ScaleRawLevelToAirflow(e)>>
RunsOneWay(s, f) ==
    \E n \in 1 .. 10 :
        \/ s = <<MODE_UNBALANCED, 0, 200 + n>> /\ f = <<0, 10 * n>>
        \/ s = <<MODE_UNBALANCED, 200 + n, 0>> /\ f = <<10 * n, 0>>

Running(s, f) ==
    /\ f \in Airflows \X Airflows
    /\ \/ RunsIntensive(s) \/ RunsOff(s, f) \/ RunsSensor(s) \/ RunsQuick(s, f)
       \/ RunsManual(s, f) \/ RunsUnbalanced(s, f) \/ RunsOneWay(s, f)

\* The unit runs something it can run, and what it takes over is what was set last.
UnitInv ==
    /\ Running(status, flow)
    /\ pending # None => pending = ModeUpdates(set)
    /\ asked # NothingAsked /\ pending = None =>
          /\ status = ModeUpdates(set).status
          /\ ModeUpdates(set).flow # None => flow = ModeUpdates(set).flow

\* The base setting asked for is the one in the set registers.
AskedBase(a, r) ==
    \/ a.mode = None /\ a.preset = None /\ a.levels = None /\ ~a.fans
    \/ /\ a.mode = "manual" /\ a.preset \in QuickModes /\ a.levels = None /\ ~a.fans
       /\ r.mode = MODE_MANUAL /\ r.current_level = PRESET_MODE_TO_RAW_CODE[a.preset]
    \/ /\ a.mode \in SensorModes /\ a.preset = None /\ a.levels = None /\ ~a.fans
       /\ r.mode = MODE_SENSOR_CONTROL /\ r.current_level = SENSOR_MODE_TO_RAW_VALUE[a.mode]
    \/ /\ a.preset = None /\ a.levels \in Airflows \X Airflows
       /\ \/ a.mode = "off" /\ a.levels = <<0, 0>> /\ r.mode = MODE_OFF
          \/ /\ a.mode = "manual" /\ a.levels[1] = a.levels[2]
             /\ r.mode = MODE_MANUAL /\ r.current_level = ScaleAirflowToRaw(a.levels[1])
          \/ /\ a.mode = "unbalanced" /\ r.mode = MODE_UNBALANCED
             /\ r.current_level = ScaleAirflowToRaw(a.levels[1])
             /\ r.extract_target_level = ScaleAirflowToRaw(a.levels[2])

\* What was asked for is what the set registers hold.
AskedInv ==
    /\ asked.intensive \in {None, TRUE, FALSE} /\ asked.fans \in BOOLEAN
    /\ asked.intensive = TRUE => set.preset_mode = MODE_MANUAL
    /\ asked.intensive = FALSE => set.preset_mode = 0
    /\ AskedBase(asked, set)

\* The exact target on display is that of the fan command it confirmed.
FansInv ==
    asked.fans =>
        /\ asked.levels = conf.expected
        /\ conf.open \/ data.readback = None
           \/ LevelsReached(<<data.readback, data.readback>>, conf.expected)

\* DisplayCatchesUp whatever is pending on display.
Displayed ==
    current /\ ~conf.recent =>
        /\ data.intensive = ReportsIntensive(status)
        /\ ~data.intensive =>
              /\ data.preset = DecodePresetMode(status)
              /\ LevelsReached(ReportedLevels(data, fresh), flow)

AllModes == DirectModes \cup SensorModes
AllPresets == {"low", "medium", "high", "intensive", "extract_only", "supply_only"}

DataType(d) ==
    /\ d \in [mode : OrNone(AllModes), target : OrNone(Airflows), extract : OrNone(Airflows),
              readback : OrNone(Airflows), preset : OrNone(AllPresets),
              intensive : OrNone(BOOLEAN), flow : {<<None, None>>} \cup (Airflows \X Airflows)]

Types ==
    /\ max \in MaxAirflows /\ readable \in BOOLEAN /\ converged \in BOOLEAN
    /\ DataType(data) /\ fresh \subseteq {"flow", "mode"}
    /\ conf \in [expected : Airflows \X Airflows, open : BOOLEAN, recent : BOOLEAN]
    /\ overlay \in [levels : OrNone(Airflows \X Airflows), preset : OrNone(QuickModes),
                    intensive : OrNone(BOOLEAN)]
    /\ lastOn \in [Fans -> OrNone(1 .. 100)]
    /\ commands \in Nat /\ changes \in Nat /\ current \in BOOLEAN

Inv ==
    /\ Types /\ Written(set) /\ UnitInv /\ AskedInv /\ FansInv
    /\ AskedIsRead /\ Displayed
-----------------------------------------------------------------------------
(* Rounding and scaling.                                                   *)

LEMMA MinOf ==
    ASSUME NEW a \in Int, NEW b \in Int
    PROVE  Min({a, b}) = IF a <= b THEN a ELSE b
BY DEF Min

\* Rounding misses by half a step at most.
LEMMA RoundNear ==
    ASSUME NEW a \in Nat, NEW b \in Nat \ {0}
    PROVE  /\ Round(a, b) \in Nat
           /\ 2 * (b * Round(a, b)) <= 2 * a + b
           /\ 2 * a <= 2 * (b * Round(a, b)) + b
<1> DEFINE q == a \div b
           r == a % b
<1>1. q \in Nat /\ r \in 0 .. (b - 1) /\ a = b * q + r
  OBVIOUS
<1>2. q % 2 \in {0, 1}
  BY <1>1
<1>3. Round(a, b) = IF 2 * r < b THEN q ELSE IF 2 * r > b THEN q + 1 ELSE q + (q % 2)
  BY DEF Round
<1>4. b * (q + 1) = b * q + b /\ b * q \in Nat
  BY <1>1
<1> HIDE DEF q, r
<1>5. CASE Round(a, b) = q
  BY <1>1, <1>3, <1>4, <1>5, <1>2
<1>6. CASE Round(a, b) = q + 1
  BY <1>1, <1>3, <1>4, <1>6, <1>2
<1> QED
  BY <1>1, <1>2, <1>3, <1>5, <1>6

LEMMA Family ==
    ASSUME max \in MaxAirflows
    PROVE  max \in Nat \ {0} /\ max >= 97 /\ max <= 100
BY AirflowsAssumption

LEMMA Products ==
    ASSUME NEW a \in Nat, NEW b \in Nat, NEW c \in Nat, a <= b
    PROVE  c * a <= c * b /\ c * a \in Nat /\ c * b \in Nat
OBVIOUS

\* A level is written as a raw level and read back as itself.
LEMMA LevelBack ==
    ASSUME max \in MaxAirflows, NEW level \in 0 .. max
    PROVE  /\ ScaleAirflowToRaw(level) \in 0 .. 200
           /\ ScaleRawLevelToAirflow(ScaleAirflowToRaw(level)) = level
           /\ ScaleAirflowToRaw(level) = Round(level * 200, max)
<1> DEFINE raw == Round(level * 200, max)
           back == Round(raw * max, 200)
<1>1. max \in Nat \ {0} /\ max <= 100 /\ level \in Nat /\ level <= max
  BY Family
<1>2. /\ raw \in Nat
      /\ 2 * (max * raw) <= 2 * (level * 200) + max
      /\ 2 * (level * 200) <= 2 * (max * raw) + max
  <2>1. level * 200 \in Nat
    BY <1>1
  <2> QED
    BY <1>1, <2>1, RoundNear
<1> HIDE DEF raw
<1>3. raw <= 200
  <2> SUFFICES ASSUME 201 <= raw PROVE FALSE
    BY <1>2
  <2>1. max * 201 <= max * raw
    BY <1>1, <1>2, Products
  <2> QED
    BY <1>1, <1>2, <2>1
<1>4. /\ raw * max \in Nat /\ raw * max = max * raw
      /\ back \in Nat
      /\ 2 * (200 * back) <= 2 * (raw * max) + 200
      /\ 2 * (raw * max) <= 2 * (200 * back) + 200
  <2>1. raw * max \in Nat /\ raw * max = max * raw
    BY <1>1, <1>2
  <2> QED
    BY <2>1, RoundNear
<1> HIDE DEF back
<1>5. back = level
  BY <1>1, <1>2, <1>4
<1>6. ScaleAirflowToRaw(level) = raw
  BY <1>2, <1>3, MinOf DEF ScaleAirflowToRaw, raw
<1> QED
  BY <1>2, <1>3, <1>5, <1>6 DEF ScaleRawLevelToAirflow, raw, back

\* A raw level is an airflow of the family.
LEMMA RawRange ==
    ASSUME max \in MaxAirflows, NEW raw \in 0 .. 200
    PROVE  ScaleRawLevelToAirflow(raw) \in 0 .. max
<1> DEFINE back == Round(raw * max, 200)
<1>1. max \in Nat \ {0} /\ max <= 100 /\ raw \in Nat
  BY Family
<1>2. raw * max \in Nat /\ raw * max <= 200 * max
  BY <1>1, Products
<1>3. back \in Nat /\ 2 * (200 * back) <= 2 * (raw * max) + 200
  <2>1. 200 \in Nat \ {0}
    OBVIOUS
  <2> QED
    BY <1>2, <2>1, RoundNear
<1> HIDE DEF back
<1>4. back <= max
  BY <1>1, <1>2, <1>3
<1> QED
  BY <1>3, <1>4 DEF ScaleRawLevelToAirflow, back

\* A running fan shows a percentage from 1 to 100 that sets it to its level again.
LEMMA PercentageBack ==
    ASSUME max \in MaxAirflows, NEW level \in 1 .. max, level # None
    PROVE  /\ FanPercentage(level) \in 1 .. 100
           /\ FanLevel(FanPercentage(level)) = level
<1> DEFINE p == (level * 100) \div max
           s == (p * max + 99) \div 100
<1>1. max \in Nat \ {0} /\ max <= 100 /\ level \in Nat /\ 1 <= level /\ level <= max
  BY Family
<1>2. /\ p \in Nat /\ max * p \in Nat
      /\ max * p <= level * 100
      /\ level * 100 < max * p + max
  <2>1. p \in Nat /\ level * 100 \in Nat /\ (level * 100) % max \in 0 .. (max - 1)
        /\ level * 100 = max * p + ((level * 100) % max)
    BY <1>1
  <2>2. max * p \in Nat
    BY <1>1, <2>1
  <2> HIDE DEF p
  <2> QED
    BY <1>1, <2>1, <2>2
<1> HIDE DEF p
<1>3. p <= 100
  <2> SUFFICES ASSUME 101 <= p PROVE FALSE
    BY <1>2
  <2>1. max * 101 <= max * p
    BY <1>1, <1>2, Products
  <2> QED
    BY <1>1, <1>2, <2>1
<1>4. 1 <= p
  <2> SUFFICES ASSUME p = 0 PROVE FALSE
    BY <1>2
  <2> QED
    BY <1>1, <1>2
<1>5. p * max = max * p
  BY <1>1, <1>2
<1>6. s = level
  <2>1. s \in Nat /\ 100 * s <= p * max + 99 /\ p * max + 99 < 100 * s + 100
    BY <1>2, <1>5
  <2> HIDE DEF s
  <2> QED
    BY <1>1, <1>2, <1>5, <2>1
<1>7. FanPercentage(level) = p
  BY <1>1, <1>2, <1>3, MinOf DEF FanPercentage, p
<1> QED
  BY <1>2, <1>3, <1>4, <1>6, <1>7 DEF FanLevel, s

\* A percentage sets a fan to a level of the family, and to none only for 0.
LEMMA LevelOfPercentage ==
    ASSUME max \in MaxAirflows, NEW p \in 0 .. 100
    PROVE  FanLevel(p) \in 0 .. max /\ (FanLevel(p) = 0 <=> p = 0)
<1>1. max \in Nat \ {0} /\ p \in Nat
  BY Family
<1>2. p * max \in Nat /\ p * max <= 100 * max
  BY <1>1, Products
<1>3. p # 0 => p * max >= 1
  BY <1>1
<1>4. p = 0 => p * max = 0
  BY <1>1
<1> DEFINE x == p * max
<1>5. x \in Nat /\ x <= 100 * max /\ (p # 0 => x >= 1) /\ (p = 0 => x = 0)
  BY <1>2, <1>3, <1>4
<1> HIDE DEF x
<1>6. (x + 99) \div 100 \in 0 .. max /\ ((x + 99) \div 100 = 0 <=> x = 0)
  BY <1>1, <1>5
<1> QED
  BY <1>1, <1>5, <1>6 DEF FanLevel, x

\* For every unit family up to 100 m3/h: a level read back from the register it was
\* written to is that level, and a fan set to the percentage it shows runs at the
\* level it ran at.
THEOREM LevelsSurviveHolds == Spec => []LevelsSurvive
<1> DEFINE MaxInv == max \in MaxAirflows
<1>1. Init => MaxInv
  BY DEF Init
<1>2. MaxInv /\ [Next]_vars => MaxInv'
  <2> SUFFICES ASSUME MaxInv, [Next]_vars PROVE max' = max
    OBVIOUS
  <2>1. \A w : Command(w) => max' = max
    BY DEF Command
  <2> QED
    BY <2>1 DEF Next, vars, SetPercentage, TurnOn, SelectOperationMode, SelectPreset, ClearPreset,
       SwitchIntensive, SetOperationMode, SetLevels, ReadRoom, OverlayExpires, CommandAges, Settle,
       AppChange, Reboot
<1>3. MaxInv => LevelsSurvive
  <2> SUFFICES ASSUME MaxInv, NEW level \in 1 .. max
               PROVE  /\ ScaleRawLevelToAirflow(ScaleAirflowToRaw(level)) = level
                      /\ FanLevel(FanPercentage(level)) = level
    BY DEF LevelsSurvive
  <2>1. max \in Nat /\ level \in 0 .. max /\ level \in Int
    BY Family
  <2>2. level # None
    BY <2>1, NoneAssumption
  <2> QED
    BY <2>1, <2>2, LevelBack, PercentageBack
<1> QED
  BY <1>1, <1>2, <1>3, PTL DEF Spec
-----------------------------------------------------------------------------
(* Tables and the unit.                                                    *)

LEMMA KeyFound ==
    ASSUME NEW table, NEW k \in DOMAIN table,
           \A j \in DOMAIN table : table[j] = table[k] => j = k
    PROVE  KeyOf(table, table[k]) = k
BY DEF KeyOf

LEMMA NoKey ==
    ASSUME NEW table, NEW v, \A j \in DOMAIN table : table[j] # v
    PROVE  KeyOf(table, v) = None
BY DEF KeyOf

\* The quick mode of each code, and none for the codes of levels.
LEMMA PresetKeys ==
    LET key(v) == KeyOf(PRESET_MODE_TO_RAW_CODE, v)
    IN  /\ \A preset \in {"low", "medium", "high"} :
              /\ PRESET_MODE_TO_RAW_CODE[preset] \in 228 .. 230
              /\ key(PRESET_MODE_TO_RAW_CODE[preset]) = preset
        /\ \A c \in 228 .. 230 :
              /\ key(c) \in {"low", "medium", "high"}
              /\ PRESET_MODE_TO_RAW_CODE[key(c)] = c
        /\ \A v \in 0 .. 200 : key(v) = None
        /\ PRESET_MODE_TO_RAW_CODE["intensive"] = 227
<1> DEFINE t == PRESET_MODE_TO_RAW_CODE
<1>1. /\ DOMAIN t = {"low", "medium", "high", "intensive"}
      /\ t["low"] = 228 /\ t["medium"] = 229 /\ t["high"] = 230 /\ t["intensive"] = 227
  BY DEF PRESET_MODE_TO_RAW_CODE
<1> HIDE DEF t
<1>2. KeyOf(t, t["low"]) = "low" /\ KeyOf(t, t["medium"]) = "medium" /\ KeyOf(t, t["high"]) = "high"
  BY <1>1, KeyFound
<1>3. \A v \in 0 .. 200 : KeyOf(t, v) = None
  BY <1>1, NoKey
<1>4. \A c \in 228 .. 230 : c = 228 \/ c = 229 \/ c = 230
  OBVIOUS
<1> QED
  BY <1>1, <1>2, <1>3, <1>4 DEF t

\* The sensor mode of each value written.
LEMMA SensorKeys ==
    LET key(v) == KeyOf(SENSOR_MODE_TO_RAW_VALUE, v)
    IN  /\ \A mode \in SensorModes :
              /\ SENSOR_MODE_TO_RAW_VALUE[mode] \in {16, 112, 144}
              /\ key(SENSOR_MODE_TO_RAW_VALUE[mode]) = mode
        /\ \A v \in {16, 112, 144} : key(v) \in SensorModes
        /\ SENSOR_MODE_TO_RAW_VALUE["automatic"] = 16
        /\ SENSOR_MODE_TO_RAW_VALUE["co2_control"] = 144
        /\ SensorModes = {"humidity_control", "co2_control", "automatic"}
<1> DEFINE t == SENSOR_MODE_TO_RAW_VALUE
<1>1. /\ DOMAIN t = {"humidity_control", "co2_control", "automatic"}
      /\ t["humidity_control"] = 112 /\ t["co2_control"] = 144 /\ t["automatic"] = 16
  BY DEF SENSOR_MODE_TO_RAW_VALUE
<1> HIDE DEF t
<1>2. /\ KeyOf(t, t["humidity_control"]) = "humidity_control"
      /\ KeyOf(t, t["co2_control"]) = "co2_control" /\ KeyOf(t, t["automatic"]) = "automatic"
  BY <1>1, KeyFound
<1>3. SensorModes = DOMAIN t
  BY DEF SensorModes, t
<1> QED
  BY <1>1, <1>2, <1>3 DEF t

LEMMA QuickRange ==
    ASSUME max \in MaxAirflows, NEW mode \in {"low", "medium", "high", "intensive"}
    PROVE  QuickAirflow(mode) \in 0 .. max
<1>1. max \in Nat /\ max >= 97
  BY Family
<1>2. QUICK_MODE_AIRFLOW[mode] \in 20 .. 80
  BY DEF QUICK_MODE_AIRFLOW
<1> QED
  BY <1>1, <1>2, MinOf DEF QuickAirflow

LEMMA Constants ==
    /\ MODE_OFF = 1 /\ MODE_SENSOR_CONTROL = 2 /\ MODE_MANUAL = 3 /\ MODE_UNBALANCED = 4
    /\ INTENSIVE = 227 /\ LEVEL_CONFIRM_TOLERANCE = 2
BY PresetKeys DEF MODE_OFF, MODE_SENSOR_CONTROL, MODE_MANUAL, MODE_UNBALANCED, INTENSIVE,
   LEVEL_CONFIRM_TOLERANCE

\* A sensor status decodes to the value that was written.
LEMMA SensorStatuses ==
    ASSUME NEW v \in {16, 112, 144}
    PROVE  SensorStatus(v) \in SensorCodes /\ StatusSensorValue(SensorStatus(v)) = v
<1>1. (16 \div 32) % 2 = 0 /\ (112 \div 32) % 2 = 1 /\ (144 \div 32) % 2 = 0
  OBVIOUS
<1>2. SensorStatus(16) = 48 /\ SensorStatus(112) = 112 /\ SensorStatus(144) = 176
  BY <1>1 DEF SensorStatus
<1>3. StatusSensorValue(48) = 16 /\ StatusSensorValue(112) = 112 /\ StatusSensorValue(176) = 144
  BY SensorKeys DEF StatusSensorValue
<1> QED
  BY <1>2, <1>3 DEF SensorCodes

LEMMA StatusSensorValues ==
    ASSUME NEW v \in SensorCodes
    PROVE  StatusSensorValue(v) \in {16, 112, 144}
BY SensorKeys DEF StatusSensorValue, SensorCodes

-----------------------------------------------------------------------------
(* What the unit makes of set registers that the commands wrote.           *)

LEMMA UpdatesIntensive ==
    ASSUME NEW r, Written(r), r.preset_mode = MODE_MANUAL
    PROVE  ModeUpdates(r) = [status |-> <<3, 227, 227>>,
                             flow |-> <<QuickAirflow("intensive"), QuickAirflow("intensive")>>]
<1>1. r.preset_value = INTENSIVE
  BY DEF Written
<1> QED
  BY <1>1, PresetKeys, Constants DEF ModeUpdates, QuickStatus, Status

LEMMA UpdatesBase ==
    ASSUME NEW r, Written(r), r.preset_mode = 0
    PROVE  ~(r.preset_mode = MODE_MANUAL /\ r.preset_value = INTENSIVE)
BY Constants

LEMMA UpdatesOff ==
    ASSUME NEW r, Written(r), r.preset_mode = 0, r.mode = MODE_OFF
    PROVE  ModeUpdates(r) = [status |-> <<1, 0, 0>>, flow |-> <<0, 0>>]
<1>1. r.current_level = 0
  BY DEF Written
<1> QED
  BY <1>1, UpdatesBase, Constants DEF ModeUpdates, Status

LEMMA UpdatesSensor ==
    ASSUME NEW r, Written(r), r.preset_mode = 0, r.mode = MODE_SENSOR_CONTROL
    PROVE  ModeUpdates(r) =
             [status |-> <<2, SensorStatus(r.current_level), SensorStatus(r.current_level)>>, flow |-> None]
BY UpdatesBase, Constants DEF ModeUpdates, Status

LEMMA UpdatesUnbalanced ==
    ASSUME NEW r, Written(r), r.preset_mode = 0, r.mode = MODE_UNBALANCED
    PROVE  ModeUpdates(r) =
             [status |-> <<4, r.current_level, r.extract_target_level>>,
              flow |-> <<ScaleRawLevelToAirflow(r.current_level),
                         ScaleRawLevelToAirflow(r.extract_target_level)>>]
<1>1. r.current_level \in 0 .. 200 /\ r.extract_target_level \in 0 .. 200
  BY DEF Written, Registers
<1> QED
  BY <1>1, UpdatesBase, Constants DEF ModeUpdates, Status, Airflow

LEMMA UpdatesQuick ==
    ASSUME NEW r, Written(r), r.preset_mode = 0, r.mode = MODE_MANUAL,
           r.current_level \in 228 .. 230
    PROVE  LET quick == KeyOf(PRESET_MODE_TO_RAW_CODE, r.current_level)
           IN  ModeUpdates(r) = [status |-> <<3, r.current_level, r.current_level>>,
                                 flow |-> <<QuickAirflow(quick), QuickAirflow(quick)>>]
<1> DEFINE quick == KeyOf(PRESET_MODE_TO_RAW_CODE, r.current_level)
<1>1. quick \in {"low", "medium", "high"} /\ PRESET_MODE_TO_RAW_CODE[quick] = r.current_level
  BY PresetKeys
<1>2. quick # None
  BY <1>1, NoneAssumption DEF PRESET_MODE_TO_RAW_CODE
<1>3. ModeUpdates(r) = QuickStatus(quick)
  BY <1>2, UpdatesBase, Constants DEF ModeUpdates
<1> QED
  BY <1>1, <1>3, Constants DEF QuickStatus, Status

LEMMA UpdatesManual ==
    ASSUME NEW r, Written(r), r.preset_mode = 0, r.mode = MODE_MANUAL,
           r.current_level \in 0 .. 200
    PROVE  ModeUpdates(r) = [status |-> <<3, r.current_level, r.current_level>>,
                             flow |-> <<ScaleRawLevelToAirflow(r.current_level),
                                        ScaleRawLevelToAirflow(r.current_level)>>]
<1>1. KeyOf(PRESET_MODE_TO_RAW_CODE, r.current_level) = None
  BY PresetKeys
<1> QED
  BY <1>1, UpdatesBase, Constants DEF ModeUpdates, Status, Airflow

\* The modes the commands write, one by one.
LEMMA WrittenKinds ==
    ASSUME NEW r, Written(r)
    PROVE  \/ r.preset_mode = MODE_MANUAL
           \/ /\ r.preset_mode = 0
              /\ \/ r.mode = MODE_OFF
                 \/ r.mode = MODE_SENSOR_CONTROL /\ r.current_level \in {16, 112, 144}
                 \/ r.mode = MODE_UNBALANCED
                 \/ r.mode = MODE_MANUAL /\ r.current_level \in 0 .. 200
                 \/ r.mode = MODE_MANUAL /\ r.current_level \in 228 .. 230
<1>1. r.mode \in 1 .. 4 /\ r.preset_mode \in {0, MODE_MANUAL}
  BY DEF Written, Registers
<1>2. r.mode = 1 \/ r.mode = 2 \/ r.mode = 3 \/ r.mode = 4
  BY <1>1
<1>3. /\ r.mode = MODE_SENSOR_CONTROL => r.current_level \in {16, 112, 144}
      /\ r.mode = MODE_MANUAL => r.current_level \in 0 .. 200 \cup {228, 229, 230}
  BY DEF Written
<1>4. {228, 229, 230} = 228 .. 230
  OBVIOUS
<1> QED
  BY <1>1, <1>2, <1>3, <1>4, Constants

LEMMA UpdatesAreSomething ==
    ASSUME max \in MaxAirflows, NEW r, Written(r)
    PROVE  ModeUpdates(r) # None
<1>1. max \in Nat
  BY Family
<1>2. /\ r.current_level \in 0 .. 230 /\ r.extract_target_level \in 0 .. 200
      /\ r.mode = MODE_UNBALANCED => r.current_level \in 0 .. 200
  BY DEF Written, Registers
<1>3. CASE r.preset_mode = MODE_MANUAL
  <2>1. QuickAirflow("intensive") \in 0 .. max
    BY QuickRange
  <2>2. ModeUpdates(r) \in [status : Int \X Int \X Int, flow : {None} \cup (Int \X Int)]
    BY <1>1, <1>3, <2>1, UpdatesIntensive
  <2> QED
    BY <2>2, NoneAssumption
<1>4. CASE r.preset_mode = 0 /\ r.mode = MODE_OFF
  <2>1. ModeUpdates(r) \in [status : Int \X Int \X Int, flow : {None} \cup (Int \X Int)]
    BY <1>4, UpdatesOff
  <2> QED
    BY <2>1, NoneAssumption
<1>5. CASE r.preset_mode = 0 /\ r.mode = MODE_SENSOR_CONTROL /\ r.current_level \in {16, 112, 144}
  <2>1. SensorStatus(r.current_level) \in Int
    BY <1>5, SensorStatuses DEF SensorCodes
  <2>2. ModeUpdates(r) \in [status : Int \X Int \X Int, flow : {None} \cup (Int \X Int)]
    BY <1>5, <2>1, UpdatesSensor
  <2> QED
    BY <2>2, NoneAssumption
<1>6. CASE r.preset_mode = 0 /\ r.mode = MODE_UNBALANCED
  <2>1. ScaleRawLevelToAirflow(r.current_level) \in 0 .. max
        /\ ScaleRawLevelToAirflow(r.extract_target_level) \in 0 .. max
    BY <1>2, <1>6, RawRange
  <2>2. ModeUpdates(r) \in [status : Int \X Int \X Int, flow : {None} \cup (Int \X Int)]
    BY <1>1, <1>2, <1>6, <2>1, UpdatesUnbalanced
  <2> QED
    BY <2>2, NoneAssumption
<1>7. CASE r.preset_mode = 0 /\ r.mode = MODE_MANUAL /\ r.current_level \in 0 .. 200
  <2>1. ScaleRawLevelToAirflow(r.current_level) \in 0 .. max
    BY <1>7, RawRange
  <2>2. ModeUpdates(r) \in [status : Int \X Int \X Int, flow : {None} \cup (Int \X Int)]
    BY <1>1, <1>2, <1>7, <2>1, UpdatesManual
  <2> QED
    BY <2>2, NoneAssumption
<1>8. CASE r.preset_mode = 0 /\ r.mode = MODE_MANUAL /\ r.current_level \in 228 .. 230
  <2> DEFINE quick == KeyOf(PRESET_MODE_TO_RAW_CODE, r.current_level)
  <2>1. quick \in {"low", "medium", "high"}
    BY <1>8, PresetKeys
  <2>2. QuickAirflow(quick) \in 0 .. max
    BY <2>1, QuickRange
  <2>3. ModeUpdates(r) \in [status : Int \X Int \X Int, flow : {None} \cup (Int \X Int)]
    BY <1>1, <1>2, <1>8, <2>2, UpdatesQuick
  <2> QED
    BY <2>3, NoneAssumption
<1> QED
  BY <1>3, <1>4, <1>5, <1>6, <1>7, <1>8, WrittenKinds

\* What the unit takes over is something it can run.
LEMMA UpdatesRun ==
    ASSUME max \in MaxAirflows, NEW r, Written(r), NEW f \in Airflows \X Airflows
    PROVE  Running(ModeUpdates(r).status, IF ModeUpdates(r).flow = None THEN f ELSE ModeUpdates(r).flow)
<1> DEFINE u == ModeUpdates(r)
           g == IF u.flow = None THEN f ELSE u.flow
<1>1. max \in Nat /\ Airflows = 0 .. max /\ 0 \in Airflows
  BY Family DEF Airflows
<1>2. /\ r.current_level \in 0 .. 230 /\ r.extract_target_level \in 0 .. 200
      /\ r.mode = MODE_UNBALANCED => r.current_level \in 0 .. 200
  BY DEF Written, Registers
<1>3. \A p \in Airflows \X Airflows : p # None
  <2> SUFFICES ASSUME NEW p \in Airflows \X Airflows PROVE p # None
    OBVIOUS
  <2>1. p \in Int \X Int
    BY <1>1
  <2> QED
    BY <2>1, NoneAssumption
<1>4. CASE r.preset_mode = MODE_MANUAL
  <2>1. <<QuickAirflow("intensive"), QuickAirflow("intensive")>> \in Airflows \X Airflows
    BY <1>1, QuickRange
  <2>2. u.status = <<MODE_MANUAL, INTENSIVE, INTENSIVE>> /\ g \in Airflows \X Airflows
    BY <1>3, <1>4, <2>1, UpdatesIntensive, Constants
  <2> QED
    BY <2>2 DEF Running, RunsIntensive
<1>5. CASE r.preset_mode = 0 /\ r.mode = MODE_OFF
  <2>1. <<0, 0>> \in Airflows \X Airflows
    BY <1>1
  <2>2. u.status = <<MODE_OFF, 0, 0>> /\ g = <<0, 0>>
    BY <1>3, <1>5, <2>1, UpdatesOff, Constants
  <2> QED
    BY <2>1, <2>2 DEF Running, RunsOff
<1>6. CASE r.preset_mode = 0 /\ r.mode = MODE_SENSOR_CONTROL /\ r.current_level \in {16, 112, 144}
  <2>1. SensorStatus(r.current_level) \in SensorCodes
    BY <1>6, SensorStatuses
  <2>2. /\ u.status = <<MODE_SENSOR_CONTROL, SensorStatus(r.current_level), SensorStatus(r.current_level)>>
        /\ g = f
    BY <1>6, UpdatesSensor, Constants
  <2> HIDE DEF u, g
  <2>3. RunsSensor(u.status)
    BY <2>1, <2>2 DEF RunsSensor
  <2>4. Running(u.status, g)
    BY <2>2, <2>3 DEF Running
  <2> QED
    BY <2>4 DEF u, g
<1>7. CASE r.preset_mode = 0 /\ r.mode = MODE_UNBALANCED
  <2> DEFINE p == <<ScaleRawLevelToAirflow(r.current_level),
                    ScaleRawLevelToAirflow(r.extract_target_level)>>
  <2>1. p \in Airflows \X Airflows
    <3>1. r.current_level \in 0 .. 200 /\ r.extract_target_level \in 0 .. 200
      BY <1>2, <1>7
    <3>2. /\ ScaleRawLevelToAirflow(r.current_level) \in Airflows
          /\ ScaleRawLevelToAirflow(r.extract_target_level) \in Airflows
      BY <1>1, <3>1, RawRange
    <3> QED
      BY <3>2
  <2>2. u.status = <<MODE_UNBALANCED, r.current_level, r.extract_target_level>> /\ g = p
    <3> HIDE DEF p
    <3>1. MODE_UNBALANCED = 4
      BY Constants
    <3>2. u = [status |-> <<4, r.current_level, r.extract_target_level>>, flow |-> p]
      BY <1>7, UpdatesUnbalanced DEF p
    <3>3. p # None
      BY <1>3, <2>1
    <3> HIDE DEF u
    <3> QED
      BY <3>1, <3>2, <3>3
  <2> HIDE DEF u, g
  <2>3. RunsUnbalanced(u.status, g)
    BY <1>2, <1>7, <2>2 DEF RunsUnbalanced
  <2>4. Running(u.status, g)
    BY <2>1, <2>2, <2>3 DEF Running
  <2> QED
    BY <2>4 DEF u, g
<1>8. CASE r.preset_mode = 0 /\ r.mode = MODE_MANUAL /\ r.current_level \in 0 .. 200
  <2> DEFINE a == ScaleRawLevelToAirflow(r.current_level)
  <2>1. <<a, a>> \in Airflows \X Airflows /\ a \in Int
    <3>1. a \in 0 .. max
      BY <1>8, RawRange
    <3> HIDE DEF a
    <3> QED
      BY <1>1, <3>1
  <2>2. u.status = <<MODE_MANUAL, r.current_level, r.current_level>> /\ g = <<a, a>>
    BY <1>3, <1>8, <2>1, UpdatesManual, Constants
  <2>3. g[1] = g[2] /\ Abs(g[1] - a) <= LEVEL_CONFIRM_TOLERANCE
    BY <2>1, <2>2, Constants DEF Abs
  <2> HIDE DEF u, g
  <2>4. Running(u.status, g)
    BY <1>8, <2>1, <2>2, <2>3 DEF Running, RunsManual
  <2> QED
    BY <2>4 DEF u, g
<1>9. CASE r.preset_mode = 0 /\ r.mode = MODE_MANUAL /\ r.current_level \in 228 .. 230
  <2> DEFINE quick == KeyOf(PRESET_MODE_TO_RAW_CODE, r.current_level)
             a == QuickAirflow(quick)
  <2>1. quick \in {"low", "medium", "high"}
    BY <1>9, PresetKeys
  <2>2. <<a, a>> \in Airflows \X Airflows
    BY <1>1, <2>1, QuickRange
  <2>3. u.status = <<MODE_MANUAL, r.current_level, r.current_level>> /\ g = <<a, a>>
    BY <1>3, <1>9, <2>2, UpdatesQuick, Constants
  <2> HIDE DEF u, g, a
  <2>4. g[1] = g[2]
    BY <2>3
  <2>5. Running(u.status, g)
    BY <1>9, <2>2, <2>3, <2>4 DEF Running, RunsQuick
  <2> QED
    BY <2>5 DEF u, g
<1> QED
  BY <1>4, <1>5, <1>6, <1>7, <1>8, <1>9, WrittenKinds

-----------------------------------------------------------------------------
(* Decoding what the unit reports.                                         *)

LEMMA BlocksAreSomething ==
    ASSUME NEW b \in Int \X Int \X Int
    PROVE  b # None
BY NoneAssumption

LEMMA RawDecodes ==
    ASSUME max \in MaxAirflows, NEW l \in 0 .. 200
    PROVE  DecodeTargetLevel(l) = ScaleRawLevelToAirflow(l) /\ DecodeTargetLevel(l) # None
<1>1. max \in Nat /\ ScaleRawLevelToAirflow(l) \in 0 .. max
  BY Family, RawRange
<1> QED
  BY <1>1, NoneAssumption DEF DecodeTargetLevel

LEMMA CodeDecodes ==
    ASSUME max \in MaxAirflows, NEW c \in 228 .. 230
    PROVE  DecodeTargetLevel(c) = None
<1>1. max \in Nat /\ max <= 100
  BY Family
<1> QED
  BY <1>1 DEF DecodeTargetLevel

LEMMA ReadsIntensive ==
    ASSUME NEW d, NEW b, RunsIntensive(b)
    PROVE  ReportsIntensive(b) /\ ApplyModeRead(d, b) = [d EXCEPT !.intensive = TRUE]
<1>0. b \in {<<3, 227, 227>>, <<0, 0, 0>>}
  BY Constants DEF RunsIntensive
<1>1. b # None
  BY <1>0, BlocksAreSomething
<1>2. ReportsIntensive(b)
  BY <1>0, Constants DEF ReportsIntensive
<1> QED
  BY <1>1, <1>2 DEF ApplyModeRead

LEMMA ReadsOff ==
    ASSUME max \in MaxAirflows, NEW d
    PROVE  /\ ~ReportsIntensive(<<1, 0, 0>>) /\ DecodePresetMode(<<1, 0, 0>>) = None
           /\ ApplyModeRead(d, <<1, 0, 0>>) =
                [mode |-> "off", target |-> ScaleRawLevelToAirflow(0), extract |-> None,
                 readback |-> None, preset |-> None, intensive |-> FALSE, flow |-> d.flow]
<1> DEFINE b == <<1, 0, 0>>
<1>1. b # None /\ b[1] = 1 /\ b[2] = 0 /\ b[3] = 0
  BY BlocksAreSomething
<1> HIDE DEF b
<1>2. ~ReportsIntensive(b)
  BY <1>1, Constants DEF ReportsIntensive
<1>3. DecodeOperationMode(b[1], b[2]) = "off"
  BY <1>1, Constants DEF DecodeOperationMode
<1>4. DecodePresetMode(b) = None
  BY <1>1, Constants DEF DecodePresetMode
<1>5. DecodeTargetLevel(b[2]) = ScaleRawLevelToAirflow(0) /\ DecodeTargetLevel(b[2]) # None
  BY <1>1, RawDecodes
<1> QED
  BY <1>1, <1>2, <1>3, <1>4, <1>5 DEF ApplyModeRead, b

LEMMA ReadsSensor ==
    ASSUME NEW d, NEW v \in SensorCodes
    PROVE  /\ ~ReportsIntensive(<<2, v, v>>) /\ DecodePresetMode(<<2, v, v>>) = None
           /\ ApplyModeRead(d, <<2, v, v>>) =
                [mode |-> KeyOf(SENSOR_MODE_TO_RAW_VALUE, StatusSensorValue(v)),
                 target |-> DeriveBalancedAirflow(d.flow), extract |-> None,
                 readback |-> None, preset |-> None, intensive |-> FALSE, flow |-> d.flow]
           /\ ApplyModeRead(d, <<2, v, v>>).mode \in SensorModes
<1> DEFINE b == <<2, v, v>>
           mode == KeyOf(SENSOR_MODE_TO_RAW_VALUE, StatusSensorValue(v))
<1>1. b # None /\ b[1] = 2 /\ b[2] = v /\ b[3] = v
  BY BlocksAreSomething DEF SensorCodes
<1> HIDE DEF b
<1>2. ~ReportsIntensive(b)
  BY <1>1, Constants DEF ReportsIntensive
<1>3. DecodeOperationMode(b[1], b[2]) = mode
  BY <1>1, Constants DEF DecodeOperationMode
<1>4. DecodePresetMode(b) = None
  BY <1>1, Constants DEF DecodePresetMode
<1>5. mode \in SensorModes
  BY StatusSensorValues, SensorKeys
<1>6. mode \notin {"off", "manual", "unbalanced"}
  BY <1>5, SensorKeys
<1> HIDE DEF mode
<1>7. ApplyModeRead(d, b) =
                [mode |-> mode, target |-> DeriveBalancedAirflow(d.flow), extract |-> None,
                 readback |-> None, preset |-> None, intensive |-> FALSE, flow |-> d.flow]
  BY <1>1, <1>2, <1>3, <1>4, <1>6 DEF ApplyModeRead
<1> QED
  BY <1>2, <1>4, <1>5, <1>7 DEF b, mode

LEMMA ReadsQuick ==
    ASSUME max \in MaxAirflows, NEW d, NEW c \in 228 .. 230
    PROVE  LET quick == KeyOf(PRESET_MODE_TO_RAW_CODE, c)
           IN  /\ ~ReportsIntensive(<<3, c, c>>) /\ DecodePresetMode(<<3, c, c>>) = quick
               /\ ApplyModeRead(d, <<3, c, c>>) =
                    [mode |-> "manual", target |-> DeriveBalancedAirflow(d.flow), extract |-> None,
                     readback |-> None, preset |-> quick, intensive |-> FALSE, flow |-> d.flow]
<1> DEFINE b == <<3, c, c>>
           quick == KeyOf(PRESET_MODE_TO_RAW_CODE, c)
<1>1. b # None /\ b[1] = 3 /\ b[2] = c /\ b[3] = c
  BY BlocksAreSomething
<1> HIDE DEF b
<1>2. ~ReportsIntensive(b)
  BY <1>1, Constants DEF ReportsIntensive
<1>3. DecodeOperationMode(b[1], b[2]) = "manual"
  BY <1>1, Constants DEF DecodeOperationMode
<1>4. DecodePresetMode(b) = quick
  BY <1>1, Constants DEF DecodePresetMode
<1>5. DecodeTargetLevel(b[2]) = None
  BY <1>1, CodeDecodes
<1> HIDE DEF quick
<1>6. ApplyModeRead(d, b) =
        [mode |-> "manual", target |-> DeriveBalancedAirflow(d.flow), extract |-> None,
         readback |-> None, preset |-> quick, intensive |-> FALSE, flow |-> d.flow]
  BY <1>1, <1>2, <1>3, <1>4, <1>5 DEF ApplyModeRead
<1> QED
  BY <1>2, <1>4, <1>6 DEF b, quick

LEMMA ReadsManual ==
    ASSUME max \in MaxAirflows, NEW d, NEW l \in 0 .. 200
    PROVE  /\ ~ReportsIntensive(<<3, l, l>>) /\ DecodePresetMode(<<3, l, l>>) = None
           /\ ApplyModeRead(d, <<3, l, l>>) =
                [mode |-> "manual", target |-> ScaleRawLevelToAirflow(l), extract |-> None,
                 readback |-> None, preset |-> None, intensive |-> FALSE, flow |-> d.flow]
<1> DEFINE b == <<3, l, l>>
<1>1. b # None /\ b[1] = 3 /\ b[2] = l /\ b[3] = l
  BY BlocksAreSomething
<1> HIDE DEF b
<1>2. ~ReportsIntensive(b)
  BY <1>1, Constants DEF ReportsIntensive
<1>3. DecodeOperationMode(b[1], b[2]) = "manual"
  BY <1>1, Constants DEF DecodeOperationMode
<1>4. DecodePresetMode(b) = None
  <2>1. KeyOf(PRESET_MODE_TO_RAW_CODE, l) = None
    BY PresetKeys
  <2> QED
    BY <1>1, <2>1, Constants DEF DecodePresetMode
<1>5. DecodeTargetLevel(b[2]) = ScaleRawLevelToAirflow(l) /\ DecodeTargetLevel(b[2]) # None
  BY <1>1, RawDecodes
<1>6. ApplyModeRead(d, b) =
        [mode |-> "manual", target |-> ScaleRawLevelToAirflow(l), extract |-> None,
         readback |-> None, preset |-> None, intensive |-> FALSE, flow |-> d.flow]
  BY <1>1, <1>2, <1>3, <1>4, <1>5 DEF ApplyModeRead
<1> QED
  BY <1>2, <1>4, <1>6 DEF b

\* A level or an app preset of one direction is decoded for each fan.
LEMMA ReadsUnbalanced ==
    ASSUME max \in MaxAirflows, NEW d, NEW l \in Nat, NEW e \in Nat
    PROVE  /\ ~ReportsIntensive(<<4, l, e>>)
           /\ ApplyModeRead(d, <<4, l, e>>) =
                [mode |-> "unbalanced", target |-> DecodeTargetLevel(l), extract |-> DecodeTargetLevel(e),
                 readback |-> None, preset |-> DecodePresetMode(<<4, l, e>>), intensive |-> FALSE,
                 flow |-> d.flow]
<1> DEFINE b == <<4, l, e>>
<1>1. b # None /\ b[1] = 4 /\ b[2] = l /\ b[3] = e
  BY BlocksAreSomething
<1> HIDE DEF b
<1>2. ~ReportsIntensive(b)
  BY <1>1, Constants DEF ReportsIntensive
<1>3. DecodeOperationMode(b[1], b[2]) = "unbalanced"
  BY <1>1, Constants DEF DecodeOperationMode
<1>4. ApplyModeRead(d, b) =
        [mode |-> "unbalanced", target |-> DecodeTargetLevel(l), extract |-> DecodeTargetLevel(e),
         readback |-> None, preset |-> DecodePresetMode(b), intensive |-> FALSE, flow |-> d.flow]
  BY <1>1, <1>2, <1>3 DEF ApplyModeRead
<1> QED
  BY <1>2, <1>4 DEF b

LEMMA LevelsPreset ==
    ASSUME NEW l \in 0 .. 200, NEW e \in 0 .. 200
    PROVE  DecodePresetMode(<<4, l, e>>) = None
BY Constants DEF DecodePresetMode

LEMMA OneWayPresets ==
    ASSUME NEW n \in 1 .. 10
    PROVE  /\ DecodePresetMode(<<4, 0, 200 + n>>) = "extract_only"
           /\ DecodePresetMode(<<4, 200 + n, 0>>) = "supply_only"
BY Constants DEF DecodePresetMode

LEMMA OneWayLevels ==
    ASSUME max \in MaxAirflows, NEW n \in 1 .. 10, 10 * n <= max
    PROVE  DecodeTargetLevel(200 + n) = 10 * n /\ DecodeTargetLevel(0) = 0
<1>1. max \in Nat
  BY Family
<1>2. DecodeTargetLevel(200 + n) = 10 * n
  BY <1>1 DEF DecodeTargetLevel
<1>3. Round(0, 200) = 0
  BY DEF Round
<1> QED
  BY <1>1, <1>2, <1>3 DEF DecodeTargetLevel, ScaleRawLevelToAirflow

-----------------------------------------------------------------------------
(* Levels behind the fans.                                                 *)

Pairs == OrNone(Airflows) \X OrNone(Airflows)

\* The family of a unit is fixed, and so is everything scaled by it.
LEMMA Frozen ==
    ASSUME max' = max
    PROVE  /\ Airflows' = Airflows
           /\ \A level : ScaleAirflowToRaw(level)' = ScaleAirflowToRaw(level)
           /\ \A raw : ScaleRawLevelToAirflow(raw)' = ScaleRawLevelToAirflow(raw)
           /\ \A mode : QuickAirflow(mode)' = QuickAirflow(mode)
           /\ \A raw : Airflow(raw)' = Airflow(raw)
           /\ \A mode : QuickStatus(mode)' = QuickStatus(mode)
<1>1. Airflows' = Airflows
  BY DEF Airflows
<1>2. \A level : ScaleAirflowToRaw(level)' = ScaleAirflowToRaw(level)
  BY DEF ScaleAirflowToRaw
<1>3. \A raw : ScaleRawLevelToAirflow(raw)' = ScaleRawLevelToAirflow(raw)
  BY DEF ScaleRawLevelToAirflow
<1>4. \A mode : QuickAirflow(mode)' = QuickAirflow(mode)
  BY DEF QuickAirflow
<1>5. \A raw : Airflow(raw)' = Airflow(raw)
  BY <1>3 DEF Airflow
<1>6. \A mode : QuickStatus(mode)' = QuickStatus(mode)
  BY <1>4 DEF QuickStatus
<1> QED
  BY <1>1, <1>2, <1>3, <1>4, <1>5, <1>6

LEMMA UpdatesFrozen ==
    ASSUME max' = max
    PROVE  \A r : ModeUpdates(r)' = ModeUpdates(r)
<1> SUFFICES ASSUME NEW r PROVE ModeUpdates(r)' = ModeUpdates(r)
  OBVIOUS
<1>1. \A mode : QuickStatus(mode)' = QuickStatus(mode)
  BY Frozen
<1>2. \A raw : Airflow(raw)' = Airflow(raw)
  BY Frozen
<1> QED
  BY <1>1, <1>2 DEF ModeUpdates

LEMMA RunningFrozen ==
    ASSUME max' = max
    PROVE  \A s, f : Running(s, f)' <=> Running(s, f)
<1> SUFFICES ASSUME NEW s, NEW f PROVE Running(s, f)' <=> Running(s, f)
  OBVIOUS
<1>1. Airflows' = Airflows
  BY Frozen
<1>2. \A raw : ScaleRawLevelToAirflow(raw)' = ScaleRawLevelToAirflow(raw)
  BY Frozen
<1>3. RunsManual(s, f)' <=> RunsManual(s, f)
  BY <1>2 DEF RunsManual
<1>4. RunsUnbalanced(s, f)' <=> RunsUnbalanced(s, f)
  BY <1>2 DEF RunsUnbalanced
<1>5. /\ RunsIntensive(s)' <=> RunsIntensive(s)
      /\ RunsOff(s, f)' <=> RunsOff(s, f)
      /\ RunsSensor(s)' <=> RunsSensor(s)
      /\ RunsQuick(s, f)' <=> RunsQuick(s, f)
      /\ RunsOneWay(s, f)' <=> RunsOneWay(s, f)
  OBVIOUS
<1> QED
  BY <1>1, <1>3, <1>4, <1>5 DEF Running

LEMMA AirflowType ==
    ASSUME max \in MaxAirflows
    PROVE  /\ Airflows = 0 .. max /\ max \in Nat
           /\ \A a \in Airflows : a \in Nat /\ a <= max /\ a # None
           /\ \A p \in Airflows \X Airflows : p # None /\ p[1] \in Airflows /\ p[2] \in Airflows
<1>1. Airflows = 0 .. max /\ max \in Nat
  BY Family DEF Airflows
<1>2. \A p \in Airflows \X Airflows : p \in Int \X Int
  BY <1>1
<1>3. \A a \in Airflows : a \in Nat /\ a <= max /\ a \in Int
  BY <1>1
<1> QED
  BY <1>1, <1>2, <1>3, NoneAssumption

\* The mean of two levels, rounded to even.
LEMMA MeanNear ==
    ASSUME NEW a \in Nat, NEW b \in Nat
    PROVE  /\ Round(a + b, 2) \in Nat
           /\ 2 * Round(a + b, 2) <= a + b + 1
           /\ a + b <= 2 * Round(a + b, 2) + 1
<1>1. a + b \in Nat /\ 2 \in Nat \ {0}
  OBVIOUS
<1>2. /\ Round(a + b, 2) \in Nat
      /\ 2 * (2 * Round(a + b, 2)) <= 2 * (a + b) + 2
      /\ 2 * (a + b) <= 2 * (2 * Round(a + b, 2)) + 2
  BY <1>1, RoundNear
<1> QED
  BY <1>2

LEMMA MeanRange ==
    ASSUME max \in MaxAirflows, NEW a \in Airflows, NEW b \in Airflows
    PROVE  Round(a + b, 2) \in Airflows
<1>1. a \in Nat /\ b \in Nat /\ a <= max /\ b <= max /\ max \in Nat /\ Airflows = 0 .. max
  BY AirflowType
<1> DEFINE m == Round(a + b, 2)
<1>2. m \in Nat /\ 2 * m <= a + b + 1
  BY <1>1, MeanNear
<1> HIDE DEF m
<1>3. m \in 0 .. max
  BY <1>1, <1>2
<1> QED
  BY <1>1, <1>3 DEF m

LEMMA DerivedRange ==
    ASSUME max \in MaxAirflows, NEW f \in Airflows \X Airflows
    PROVE  /\ DeriveBalancedAirflow(f) \in OrNone(Airflows)
           /\ f[1] = f[2] => DeriveBalancedAirflow(f) = f[1]
<1>1. f[1] \in Airflows /\ f[2] \in Airflows /\ f[1] \in Nat /\ f[2] \in Nat
  BY AirflowType
<1>2. Round(f[1] + f[2], 2) \in Airflows
  BY <1>1, MeanRange
<1>3. f[1] = f[2] => Round(f[1] + f[2], 2) = f[1] /\ Abs(f[1] - f[2]) <= 1
  <2>1. /\ Round(f[1] + f[2], 2) \in Nat
        /\ 2 * Round(f[1] + f[2], 2) <= f[1] + f[2] + 1
        /\ f[1] + f[2] <= 2 * Round(f[1] + f[2], 2) + 1
    BY <1>1, MeanNear
  <2> DEFINE m == Round(f[1] + f[2], 2)
  <2>2. f[1] = f[2] => m = f[1]
    <3> HIDE DEF m
    <3>1. m \in Nat /\ 2 * m <= f[1] + f[2] + 1 /\ f[1] + f[2] <= 2 * m + 1
      BY <2>1 DEF m
    <3> QED
      BY <1>1, <3>1
  <2>3. f[1] = f[2] => Abs(f[1] - f[2]) <= 1
    BY <1>1 DEF Abs
  <2> QED
    BY <2>2, <2>3
<1> QED
  BY <1>2, <1>3 DEF DeriveBalancedAirflow, OrNone

LEMMA TargetLevelsType ==
    ASSUME max \in MaxAirflows, NEW d, DataType(d), NEW airflow \in Pairs
    PROVE  TargetLevels(d, airflow) \in Pairs
<1>1. /\ d.target \in OrNone(Airflows) /\ d.extract \in OrNone(Airflows)
      /\ d.readback \in OrNone(Airflows)
  BY DEF DataType
<1>2. 0 \in OrNone(Airflows) /\ None \in OrNone(Airflows)
  BY AirflowType DEF OrNone
<1>3. airflow[1] \in OrNone(Airflows) /\ airflow[2] \in OrNone(Airflows)
  BY DEF Pairs
<1> QED
  BY <1>1, <1>2, <1>3 DEF TargetLevels, FirstKnown, Pairs

LEMMA ReportedType ==
    ASSUME max \in MaxAirflows, NEW d, DataType(d), NEW f
    PROVE  ReportedLevels(d, f) \in Pairs
<1> DEFINE airflow == IF "flow" \in f THEN d.flow ELSE <<None, None>>
<1>1. airflow \in Pairs
  <2>1. d.flow \in {<<None, None>>} \cup (Airflows \X Airflows)
    BY DEF DataType
  <2>2. <<None, None>> \in Pairs
    BY DEF Pairs, OrNone
  <2>3. \A p \in Airflows \X Airflows : p \in Pairs
    BY DEF Pairs, OrNone
  <2> QED
    BY <2>1, <2>2, <2>3
<1> HIDE DEF airflow
<1>2. TargetLevels(d, airflow) \in Pairs
  BY <1>1, TargetLevelsType
<1> QED
  BY <1>1, <1>2 DEF ReportedLevels, airflow

LEMMA EffectiveType ==
    ASSUME max \in MaxAirflows, NEW d, DataType(d), NEW f, NEW o,
           o.levels \in OrNone(Airflows \X Airflows)
    PROVE  EffectiveLevels(d, f, o) \in Pairs
<1>1. \A p \in Airflows \X Airflows : p \in Pairs
  BY DEF Pairs, OrNone
<1> QED
  BY <1>1, ReportedType DEF EffectiveLevels, OrNone

LEMMA PublishedType ==
    ASSUME max \in MaxAirflows, DataType(data'), overlay'.levels \in OrNone(Airflows \X Airflows),
           lastOn \in [Fans -> OrNone(1 .. 100)], Published
    PROVE  lastOn' \in [Fans -> OrNone(1 .. 100)]
<1> DEFINE now == EffectiveLevels(data', fresh', overlay')
<1>1. now \in Pairs
  BY EffectiveType
<1> HIDE DEF now
<1>2. SUFFICES ASSUME NEW fan \in Fans
               PROVE  LET shown == FanPercentage(Own(now, fan))
                      IN  (IF shown \notin {None, 0} THEN shown ELSE lastOn[fan]) \in OrNone(1 .. 100)
  BY DEF Published, now
<1>3. Own(now, fan) \in OrNone(Airflows)
  BY <1>1 DEF Own, Pairs
<1>4. CASE Own(now, fan) = None
  BY <1>4 DEF FanPercentage
<1>5. CASE Own(now, fan) \in Airflows /\ Own(now, fan) = 0
  <2>1. 0 # None
    BY NoneAssumption
  <2> QED
    BY <1>5, <2>1 DEF FanPercentage
<1>6. CASE Own(now, fan) \in Airflows /\ Own(now, fan) # 0
  <2>1. Own(now, fan) \in 1 .. max /\ Own(now, fan) # None
    BY <1>6, AirflowType
  <2>2. FanPercentage(Own(now, fan)) \in 1 .. 100
    BY <2>1, PercentageBack
  <2> QED
    BY <2>2 DEF OrNone
<1> QED
  BY <1>3, <1>4, <1>5, <1>6 DEF OrNone

LEMMA LevelsType ==
    ASSUME Types
    PROVE  /\ Levels \in Pairs /\ Levels[1] \in OrNone(Airflows) /\ Levels[2] \in OrNone(Airflows)
           /\ \A fan : Opposite(Levels, fan) \in OrNone(Airflows) /\ Own(Levels, fan) \in OrNone(Airflows)
<1>1. max \in MaxAirflows /\ DataType(data) /\ overlay.levels \in OrNone(Airflows \X Airflows)
  BY DEF Types
<1>2. Levels \in Pairs
  BY <1>1, EffectiveType DEF Levels
<1> QED
  BY <1>2 DEF Pairs, Opposite, Own

LEMMA PlannedType ==
    ASSUME Types, NEW fan
    PROVE  PlannedOther(fan) \in OrNone(Airflows)
<1>1. max \in MaxAirflows
  BY DEF Types
<1>2. /\ Levels[1] \in OrNone(Airflows) /\ Levels[2] \in OrNone(Airflows)
      /\ Opposite(Levels, fan) \in OrNone(Airflows)
  BY LevelsType
<1>3. Levels[1] # None /\ Levels[2] # None => Round(Levels[1] + Levels[2], 2) \in Airflows
  BY <1>1, <1>2, MeanRange DEF OrNone
<1> QED
  BY <1>2, <1>3 DEF PlannedOther, OrNone

LEMMA PlanType ==
    ASSUME Types, NEW fan, NEW level \in Airflows
    PROVE  PlanDirectionWrite(fan, level) \in Airflows \X Airflows
<1>1. PlannedOther(fan) = None \/ PlannedOther(fan) \in Airflows
  BY PlannedType DEF OrNone
<1>2. \A other \in Airflows : PairOf(level, other, fan) \in Airflows \X Airflows
  BY DEF PairOf
<1> QED
  BY <1>1, <1>2 DEF PlanDirectionWrite

LEMMA ModeLevelsType ==
    ASSUME Types
    PROVE  /\ BalancedLevel \in OrNone(Airflows) /\ ExtractLevel \in OrNone(Airflows)
           /\ BalancedLevel # None => BalancedLevel \in Airflows /\ ExtractLevel \in Airflows
<1>1. data.target \in OrNone(Airflows) /\ data.extract \in OrNone(Airflows)
  BY DEF Types, DataType
<1>2. data.flow \in {<<None, None>>} \cup (Airflows \X Airflows)
  BY DEF Types, DataType
<1>3. data.flow[1] \in OrNone(Airflows) /\ data.flow[2] \in OrNone(Airflows)
  <2>1. CASE data.flow = <<None, None>>
    BY <2>1 DEF OrNone
  <2>2. CASE data.flow \in Airflows \X Airflows
    BY <2>2 DEF OrNone
  <2> QED
    BY <1>2, <2>1, <2>2
<1>4. Levels[1] \in OrNone(Airflows) /\ Levels[2] \in OrNone(Airflows)
  BY LevelsType
<1>5. BalancedLevel \in OrNone(Airflows)
  BY <1>1, <1>3, <1>4 DEF BalancedLevel, FirstKnown
<1>6. ExtractLevel \in OrNone(Airflows) /\ (BalancedLevel # None => ExtractLevel # None)
  BY <1>1, <1>3, <1>4, <1>5 DEF ExtractLevel, FirstKnown
<1> QED
  BY <1>5, <1>6 DEF OrNone

-----------------------------------------------------------------------------
(* Commands.                                                               *)

OverlayType ==
    [levels : OrNone(Airflows \X Airflows), preset : OrNone(QuickModes), intensive : OrNone(BOOLEAN)]

LEMMA CommitSets ==
    ASSUME Written(set), NEW writes, Commit(writes)
    PROVE  LET now(x) == IF x \in DOMAIN writes THEN writes[x] ELSE set[x]
           IN  set' = [mode |-> now("mode"), current_level |-> now("current_level"),
                       extract_target_level |-> now("extract_target_level"),
                       preset_mode |-> now("preset_mode"), preset_value |-> now("preset_value")]
<1>1. DOMAIN set = {"mode", "current_level", "extract_target_level", "preset_mode", "preset_value"}
  BY DEF Written, Registers
<1> QED
  BY <1>1 DEF Commit, SetAfter

LEMMA SetsOff ==
    ASSUME Written(set), Commit(OffWrites)
    PROVE  set' = [mode |-> MODE_OFF, current_level |-> 0,
                   extract_target_level |-> set.extract_target_level,
                   preset_mode |-> 0, preset_value |-> 0]
BY CommitSets DEF OffWrites

LEMMA SetsManual ==
    ASSUME Written(set), NEW raw, Commit(ManualWrites(raw))
    PROVE  set' = [mode |-> MODE_MANUAL, current_level |-> raw,
                   extract_target_level |-> set.extract_target_level,
                   preset_mode |-> set.preset_mode, preset_value |-> set.preset_value]
BY CommitSets DEF ManualWrites

LEMMA SetsUnbalanced ==
    ASSUME Written(set), NEW s, NEW e, Commit(UnbalancedWrites(s, e))
    PROVE  set' = [mode |-> MODE_UNBALANCED, current_level |-> ScaleAirflowToRaw(s),
                   extract_target_level |-> ScaleAirflowToRaw(e),
                   preset_mode |-> set.preset_mode, preset_value |-> set.preset_value]
BY CommitSets DEF UnbalancedWrites

LEMMA SetsSensor ==
    ASSUME Written(set), NEW v, Commit([mode |-> MODE_SENSOR_CONTROL, current_level |-> v])
    PROVE  set' = [mode |-> MODE_SENSOR_CONTROL, current_level |-> v,
                   extract_target_level |-> set.extract_target_level,
                   preset_mode |-> set.preset_mode, preset_value |-> set.preset_value]
BY CommitSets

LEMMA SetsQuick ==
    ASSUME Written(set), NEW preset \in {"low", "medium", "high"}, Commit(PresetModeWrites(preset))
    PROVE  set' = [mode |-> MODE_MANUAL, current_level |-> PRESET_MODE_TO_RAW_CODE[preset],
                   extract_target_level |-> set.extract_target_level,
                   preset_mode |-> 0, preset_value |-> 0]
<1>1. PresetModeWrites(preset) =
        [preset_mode |-> 0, preset_value |-> 0, mode |-> MODE_MANUAL,
         current_level |-> PRESET_MODE_TO_RAW_CODE[preset]]
  BY DEF PresetModeWrites
<1> QED
  BY <1>1, CommitSets

LEMMA SetsIntensive ==
    ASSUME Written(set), NEW on \in BOOLEAN,
           Commit(IF on THEN PresetModeWrites("intensive") ELSE CLEAR_INTENSIVE)
    PROVE  set' = [mode |-> set.mode, current_level |-> set.current_level,
                   extract_target_level |-> set.extract_target_level,
                   preset_mode |-> IF on THEN MODE_MANUAL ELSE 0,
                   preset_value |-> IF on THEN INTENSIVE ELSE 0]
<1>1. CASE on
  <2>1. Commit([preset_mode |-> MODE_MANUAL, preset_value |-> INTENSIVE])
    BY <1>1 DEF PresetModeWrites
  <2> QED
    BY <1>1, <2>1, CommitSets
<1>2. CASE ~on
  <2>1. Commit([preset_mode |-> 0, preset_value |-> 0])
    BY <1>2 DEF CLEAR_INTENSIVE
  <2> QED
    BY <1>2, <2>1, CommitSets
<1> QED
  BY <1>1, <1>2

LEMMA ShowsType ==
    ASSUME overlay \in OverlayType, NEW changed, Shows(changed),
           "levels" \in DOMAIN changed => changed.levels \in OrNone(Airflows \X Airflows),
           "preset" \in DOMAIN changed => changed.preset \in OrNone(QuickModes),
           "intensive" \in DOMAIN changed => changed.intensive \in OrNone(BOOLEAN)
    PROVE  overlay' \in OverlayType
<1> DEFINE now(o) == IF o \in DOMAIN changed THEN changed[o] ELSE overlay[o]
<1>1. overlay' = [levels |-> now("levels"), preset |-> now("preset"), intensive |-> now("intensive")]
  BY DEF Shows, Overlays
<1>2. /\ now("levels") \in OrNone(Airflows \X Airflows) /\ now("preset") \in OrNone(QuickModes)
      /\ now("intensive") \in OrNone(BOOLEAN)
  BY DEF OverlayType
<1> HIDE DEF now
<1> QED
  BY <1>1, <1>2 DEF OverlayType

ConfType == [expected : Airflows \X Airflows, open : BOOLEAN, recent : BOOLEAN]

\* The parts of the invariant that a command keeps whatever it asks for.
LEMMA CommandKeeps ==
    ASSUME Inv, NEW writes, Command(writes), Written(set'),
           overlay' \in OverlayType, conf' \in ConfType, converged' \in BOOLEAN
    PROVE  Types' /\ Written(set)' /\ UnitInv' /\ AskedIsRead' /\ Displayed'
<1> USE DEF Command
<1>1. max' = max /\ max \in MaxAirflows
  BY DEF Inv, Types
<1>2. Airflows' = Airflows
  BY <1>1, Frozen
<1>3. Types'
  <2>1. DataType(data')
    BY DEF Inv, Types
  <2>2. DataType(data)'
    BY <1>2, <2>1 DEF DataType
  <2>3. lastOn' \in [Fans -> OrNone(1 .. 100)]
    <3>1. overlay'.levels \in OrNone(Airflows \X Airflows)
      BY DEF OverlayType
    <3>2. lastOn \in [Fans -> OrNone(1 .. 100)] /\ Published
      BY DEF Inv, Types
    <3> QED
      BY <1>1, <2>1, <3>1, <3>2, PublishedType
  <2>4. readable' \in BOOLEAN
    BY DEF Commit, Inv, Types
  <2>5. commands' \in Nat /\ changes' \in Nat /\ current' \in BOOLEAN /\ fresh' \subseteq {"flow", "mode"}
    <3>1. commands' = commands + 1 /\ changes' = changes /\ current' = FALSE /\ fresh' = fresh
      OBVIOUS
    <3>2. commands \in Nat /\ changes \in Nat /\ fresh \subseteq {"flow", "mode"}
      BY DEF Inv, Types
    <3>3. commands' \in Nat /\ changes' \in Nat
      BY ONLY <3>1, <3>2
    <3>4. fresh' \subseteq {"flow", "mode"}
      BY ONLY <3>1, <3>2
    <3> QED
      BY ONLY <3>1, <3>3, <3>4
  <2>6. (conf \in ConfType)' /\ (overlay \in OverlayType)'
    BY <1>2 DEF ConfType, OverlayType
  <2> QED
    BY <1>1, <2>2, <2>3, <2>4, <2>5, <2>6 DEF Types, ConfType, OverlayType
<1>4. Written(set)'
  OBVIOUS
<1>5. UnitInv'
  <2>1. pending' = ModeUpdates(set') /\ status' = status /\ flow' = flow
    BY DEF Commit
  <2>2. ModeUpdates(set)' = pending'
    BY <1>1, <2>1, UpdatesFrozen
  <2>3. pending' # None
    BY <1>1, <2>1, UpdatesAreSomething
  <2>4. Running(status', flow')
    BY <2>1 DEF Inv, UnitInv
  <2>5. Running(status, flow)'
    BY <1>1, <2>4, RunningFrozen
  <2> QED
    BY <2>2, <2>3, <2>5 DEF UnitInv
<1>6. ~current'
  OBVIOUS
<1> QED
  BY <1>3, <1>4, <1>5, <1>6 DEF AskedIsRead, Displayed

\* A step that keeps the base registers keeps the base setting asked for.
LEMMA AskedBaseKept ==
    ASSUME max' = max, AskedBase(asked, set),
           asked'.mode = asked.mode, asked'.preset = asked.preset, asked'.levels = asked.levels,
           asked'.fans = asked.fans, set'.mode = set.mode, set'.current_level = set.current_level,
           set'.extract_target_level = set.extract_target_level
    PROVE  AskedBase(asked, set)'
<1>1. Airflows' = Airflows /\ \A level : ScaleAirflowToRaw(level)' = ScaleAirflowToRaw(level)
  BY Frozen
<1>2. AskedBase(asked', set')
  BY DEF AskedBase
<1> QED
  BY <1>1, <1>2 DEF AskedBase

LEMMA AskedBaseNow ==
    ASSUME max' = max, AskedBase(asked', set')
    PROVE  AskedBase(asked, set)'
<1>1. Airflows' = Airflows /\ \A level : ScaleAirflowToRaw(level)' = ScaleAirflowToRaw(level)
  BY Frozen
<1> QED
  BY <1>1 DEF AskedBase

LEMMA SetLevelsStep ==
    ASSUME Inv, NEW pair \in Airflows \X Airflows, SetLevels(pair)
    PROVE  Inv'
<1> USE DEF SetLevels
<1>1. max \in MaxAirflows /\ max' = max /\ Written(set) /\ Commit(LevelWrites(pair))
      /\ overlay \in OverlayType /\ AskedInv
  BY DEF Inv, Types, Command, OverlayType
<1>2. /\ pair[1] \in 0 .. max /\ pair[2] \in 0 .. max /\ pair = <<pair[1], pair[2]>>
      /\ pair[1] \in Nat /\ pair[2] \in Nat
      /\ ScaleAirflowToRaw(pair[1]) \in 0 .. 200 /\ ScaleAirflowToRaw(pair[2]) \in 0 .. 200
  <2>1. pair[1] \in 0 .. max /\ pair[2] \in 0 .. max /\ pair = <<pair[1], pair[2]>>
        /\ pair[1] \in Nat /\ pair[2] \in Nat
    BY <1>1, AirflowType
  <2> QED
    BY <1>1, <2>1, LevelBack
<1>3. /\ set.preset_mode \in {0, MODE_MANUAL} /\ set.preset_value \in {0, INTENSIVE}
      /\ set.preset_mode = MODE_MANUAL <=> set.preset_value = INTENSIVE
      /\ set.extract_target_level \in 0 .. 200
  BY <1>1 DEF Written, Registers
<1>4. asked' = [mode |-> IF pair[1] = pair[2] THEN LevelMode(pair) ELSE "unbalanced",
                levels |-> pair, fans |-> TRUE, preset |-> None,
                intensive |-> IF pair = <<0, 0>> THEN FALSE ELSE asked.intensive]
  BY DEF Asks
<1>5. Written(set') /\ AskedInv'
  <2>1. CASE pair = <<0, 0>>
    <3>1. set' = [mode |-> MODE_OFF, current_level |-> 0,
                   extract_target_level |-> set.extract_target_level,
                   preset_mode |-> 0, preset_value |-> 0]
      BY <1>1, <2>1, SetsOff DEF LevelWrites
    <3>2. Written(set')
      BY <1>3, <3>1, Constants DEF Written, Registers
    <3>3. asked'.mode = "off" /\ asked'.levels = <<0, 0>> /\ asked'.fans = TRUE
          /\ asked'.preset = None /\ asked'.intensive = FALSE
      BY <1>4, <2>1 DEF LevelMode
    <3>4. AskedBase(asked', set')
      BY <2>1, <3>1, <3>3 DEF AskedBase
    <3> QED
      BY <1>1, <3>1, <3>2, <3>3, <3>4, AskedBaseNow, Constants DEF AskedInv
  <2>2. CASE pair # <<0, 0>> /\ pair[1] = pair[2]
    <3>1. set' = [mode |-> MODE_MANUAL, current_level |-> ScaleAirflowToRaw(pair[1]),
                  extract_target_level |-> set.extract_target_level,
                  preset_mode |-> set.preset_mode, preset_value |-> set.preset_value]
      BY <1>1, <2>2, SetsManual DEF LevelWrites
    <3>2. Written(set')
      BY <1>2, <1>3, <3>1, Constants DEF Written, Registers
    <3>3. asked'.mode = "manual" /\ asked'.levels = pair /\ asked'.fans = TRUE
          /\ asked'.preset = None /\ asked'.intensive = asked.intensive
      BY <1>4, <2>2 DEF LevelMode, LevelsBalanced
    <3>4. AskedBase(asked', set')
      BY <2>2, <3>1, <3>3 DEF AskedBase
    <3>5. set'.preset_mode = set.preset_mode
      BY <3>1
    <3> QED
      BY <1>1, <3>2, <3>3, <3>4, <3>5, AskedBaseNow DEF AskedInv
  <2>3. CASE pair # <<0, 0>> /\ pair[1] # pair[2]
    <3>1. set' = [mode |-> MODE_UNBALANCED, current_level |-> ScaleAirflowToRaw(pair[1]),
                  extract_target_level |-> ScaleAirflowToRaw(pair[2]),
                  preset_mode |-> set.preset_mode, preset_value |-> set.preset_value]
      BY <1>1, <2>3, SetsUnbalanced DEF LevelWrites
    <3>2. Written(set')
      BY <1>2, <1>3, <3>1, Constants DEF Written, Registers
    <3>3. asked'.mode = "unbalanced" /\ asked'.levels = pair /\ asked'.fans = TRUE
          /\ asked'.preset = None /\ asked'.intensive = asked.intensive
      BY <1>4, <2>3
    <3>4. AskedBase(asked', set')
      BY <2>3, <3>1, <3>3 DEF AskedBase
    <3>5. set'.preset_mode = set.preset_mode
      BY <3>1
    <3> QED
      BY <1>1, <3>2, <3>3, <3>4, <3>5, AskedBaseNow DEF AskedInv
  <2> QED
    BY <2>1, <2>2, <2>3
<1>6. overlay' \in OverlayType
  <2>1. pair \in OrNone(Airflows \X Airflows) /\ None \in OrNone(QuickModes) /\ None \in OrNone(BOOLEAN)
    BY DEF OrNone
  <2>2. CASE pair = <<0, 0>>
    <3>1. Shows([levels |-> pair, preset |-> None, intensive |-> None])
      BY <2>2
    <3> QED
      BY <1>1, <2>1, <3>1, ShowsType
  <2>3. CASE pair # <<0, 0>>
    <3>1. Shows([levels |-> pair, preset |-> None])
      BY <2>3
    <3> QED
      BY <1>1, <2>1, <3>1, ShowsType
  <2> QED
    BY <2>2, <2>3
<1>7. conf' = [expected |-> pair, open |-> TRUE, recent |-> TRUE] /\ converged' = FALSE
  OBVIOUS
<1>8. conf' \in ConfType
  BY <1>7 DEF ConfType
<1>9. FansInv'
  BY <1>4, <1>7 DEF FansInv
<1>10. Types' /\ Written(set)' /\ UnitInv' /\ AskedIsRead' /\ Displayed'
  BY <1>5, <1>6, <1>7, <1>8, CommandKeeps
<1> QED
  BY <1>5, <1>9, <1>10 DEF Inv

LEMMA SetPercentageStep ==
    ASSUME Inv, NEW fan \in Fans, NEW p \in 0 .. 100, SetPercentage(fan, p)
    PROVE  Inv'
<1>1. Types /\ max \in MaxAirflows
  BY DEF Inv, Types
<1>2. FanLevel(p) \in Airflows
  BY <1>1, LevelOfPercentage, AirflowType
<1>3. PlanDirectionWrite(fan, FanLevel(p)) \in Airflows \X Airflows
  BY <1>1, <1>2, PlanType
<1> QED
  BY <1>3, SetLevelsStep DEF SetPercentage

LEMMA TurnOnStep ==
    ASSUME Inv, NEW fan \in Fans, TurnOn(fan)
    PROVE  Inv'
<1>1. (IF lastOn[fan] = None THEN DEFAULT_TURN_ON_PERCENTAGE ELSE lastOn[fan]) \in 0 .. 100
  BY DEF Inv, Types, OrNone, DEFAULT_TURN_ON_PERCENTAGE
<1> QED
  BY <1>1, SetPercentageStep DEF TurnOn

LEMMA SetOperationModeStep ==
    ASSUME Inv, NEW mode \in {"manual", "unbalanced"} \cup SensorModes, SetOperationMode(mode)
    PROVE  Inv'
<1> USE DEF SetOperationMode
<1>1. /\ max \in MaxAirflows /\ max' = max /\ Written(set) /\ overlay \in OverlayType /\ AskedInv
      /\ Commit(OperatingModeWrites(mode, BalancedLevel, ExtractLevel))
      /\ conf \in ConfType /\ converged \in BOOLEAN /\ Types
  BY DEF Inv, Types, Command, OverlayType, ConfType
<1>2. /\ set.preset_mode \in {0, MODE_MANUAL} /\ set.preset_value \in {0, INTENSIVE}
      /\ set.preset_mode = MODE_MANUAL <=> set.preset_value = INTENSIVE
      /\ set.extract_target_level \in 0 .. 200
  BY <1>1 DEF Written, Registers
<1>3. mode \in {"manual", "unbalanced"} =>
        /\ BalancedLevel \in Airflows /\ ExtractLevel \in Airflows
        /\ BalancedLevel \in 0 .. max /\ ExtractLevel \in 0 .. max
        /\ ScaleAirflowToRaw(BalancedLevel) \in 0 .. 200 /\ ScaleAirflowToRaw(ExtractLevel) \in 0 .. 200
  <2> SUFFICES ASSUME mode \in {"manual", "unbalanced"}
               PROVE  /\ BalancedLevel \in Airflows /\ ExtractLevel \in Airflows
                      /\ BalancedLevel \in 0 .. max /\ ExtractLevel \in 0 .. max
                      /\ ScaleAirflowToRaw(BalancedLevel) \in 0 .. 200
                      /\ ScaleAirflowToRaw(ExtractLevel) \in 0 .. 200
    OBVIOUS
  <2>1. BalancedLevel # None
    OBVIOUS
  <2>2. BalancedLevel \in Airflows /\ ExtractLevel \in Airflows
    BY <1>1, <2>1, ModeLevelsType
  <2>3. BalancedLevel \in 0 .. max /\ ExtractLevel \in 0 .. max
    BY <1>1, <2>2, AirflowType
  <2> QED
    BY <1>1, <2>2, <2>3, LevelBack
<1>4. asked' = [mode |-> mode,
                levels |-> CASE mode = "manual" -> <<BalancedLevel, BalancedLevel>>
                             [] mode = "unbalanced" -> <<BalancedLevel, ExtractLevel>>
                             [] OTHER -> None,
                fans |-> FALSE, preset |-> None, intensive |-> asked.intensive]
  BY DEF Asks
<1>5. Written(set') /\ AskedInv'
  <2>1. CASE mode = "manual"
    <3>1. set' = [mode |-> MODE_MANUAL, current_level |-> ScaleAirflowToRaw(BalancedLevel),
                  extract_target_level |-> set.extract_target_level,
                  preset_mode |-> set.preset_mode, preset_value |-> set.preset_value]
      <4>1. OperatingModeWrites(mode, BalancedLevel, ExtractLevel)
              = ManualWrites(ScaleAirflowToRaw(BalancedLevel))
        BY <2>1, SensorKeys DEF OperatingModeWrites
      <4> QED
        BY <1>1, <4>1, SetsManual
    <3>2. Written(set')
      BY <1>2, <1>3, <2>1, <3>1, Constants DEF Written, Registers
    <3>3. /\ asked'.mode = "manual" /\ asked'.levels = <<BalancedLevel, BalancedLevel>>
          /\ asked'.fans = FALSE /\ asked'.preset = None /\ asked'.intensive = asked.intensive
      BY <1>4, <2>1
    <3>4. asked'.levels \in Airflows \X Airflows /\ asked'.levels[1] = BalancedLevel
          /\ asked'.levels[2] = BalancedLevel
      BY <1>3, <2>1, <3>3
    <3>5. AskedBase(asked', set')
      BY <3>1, <3>3, <3>4 DEF AskedBase
    <3>6. set'.preset_mode = set.preset_mode
      BY <3>1
    <3> QED
      BY <1>1, <3>2, <3>3, <3>5, <3>6, AskedBaseNow DEF AskedInv
  <2>2. CASE mode = "unbalanced"
    <3>1. set' = [mode |-> MODE_UNBALANCED, current_level |-> ScaleAirflowToRaw(BalancedLevel),
                  extract_target_level |-> ScaleAirflowToRaw(ExtractLevel),
                  preset_mode |-> set.preset_mode, preset_value |-> set.preset_value]
      <4>1. OperatingModeWrites(mode, BalancedLevel, ExtractLevel)
              = UnbalancedWrites(BalancedLevel, ExtractLevel)
        BY <2>2, SensorKeys DEF OperatingModeWrites
      <4> QED
        BY <1>1, <4>1, SetsUnbalanced
    <3>2. Written(set')
      BY <1>2, <1>3, <2>2, <3>1, Constants DEF Written, Registers
    <3>3. /\ asked'.mode = "unbalanced" /\ asked'.levels = <<BalancedLevel, ExtractLevel>>
          /\ asked'.fans = FALSE /\ asked'.preset = None /\ asked'.intensive = asked.intensive
      BY <1>4, <2>2
    <3>4. asked'.levels \in Airflows \X Airflows /\ asked'.levels[1] = BalancedLevel
          /\ asked'.levels[2] = ExtractLevel
      BY <1>3, <2>2, <3>3
    <3>5. AskedBase(asked', set')
      BY <3>1, <3>3, <3>4 DEF AskedBase
    <3>6. set'.preset_mode = set.preset_mode
      BY <3>1
    <3> QED
      BY <1>1, <3>2, <3>3, <3>5, <3>6, AskedBaseNow DEF AskedInv
  <2>3. CASE mode \in SensorModes
    <3>1. mode \notin {"manual", "unbalanced"} /\ SENSOR_MODE_TO_RAW_VALUE[mode] \in {16, 112, 144}
      BY <2>3, SensorKeys
    <3>2. set' = [mode |-> MODE_SENSOR_CONTROL, current_level |-> SENSOR_MODE_TO_RAW_VALUE[mode],
                  extract_target_level |-> set.extract_target_level,
                  preset_mode |-> set.preset_mode, preset_value |-> set.preset_value]
      <4>1. OperatingModeWrites(mode, BalancedLevel, ExtractLevel)
              = [mode |-> MODE_SENSOR_CONTROL, current_level |-> SENSOR_MODE_TO_RAW_VALUE[mode]]
        BY <2>3, <3>1 DEF OperatingModeWrites
      <4> QED
        BY <1>1, <4>1, SetsSensor
    <3>3. Written(set')
      BY <1>2, <3>1, <3>2, Constants DEF Written, Registers
    <3>4. /\ asked'.mode = mode /\ asked'.levels = None
          /\ asked'.fans = FALSE /\ asked'.preset = None /\ asked'.intensive = asked.intensive
      BY <1>4, <3>1
    <3>5. AskedBase(asked', set')
      BY <2>3, <3>2, <3>4 DEF AskedBase
    <3>6. set'.preset_mode = set.preset_mode
      BY <3>2
    <3> QED
      BY <1>1, <3>3, <3>4, <3>5, <3>6, AskedBaseNow DEF AskedInv
  <2> QED
    BY <2>1, <2>2, <2>3
<1>6. overlay' \in OverlayType
  <2>1. /\ None \in OrNone(Airflows \X Airflows) /\ None \in OrNone(QuickModes)
        /\ Shows([levels |-> None, preset |-> None])
    BY DEF OrNone
  <2> QED
    BY <1>1, <2>1, ShowsType
<1>7. conf' \in ConfType /\ converged' = converged
  BY <1>1 DEF Superseded, ConfType
<1>8. FansInv'
  BY <1>4 DEF FansInv
<1>9. Types' /\ Written(set)' /\ UnitInv' /\ AskedIsRead' /\ Displayed'
  BY <1>1, <1>5, <1>6, <1>7, CommandKeeps
<1> QED
  BY <1>5, <1>8, <1>9 DEF Inv

LEMMA SelectOperationModeStep ==
    ASSUME Inv, NEW option \in Options \cup {"inactive"}, SelectOperationMode(option)
    PROVE  Inv'
<1>1. (IF option = "inactive" THEN "manual" ELSE option) \in {"manual", "unbalanced"} \cup SensorModes
  BY OptionsAssumption
<1> QED
  BY <1>1, SetOperationModeStep DEF SelectOperationMode

LEMMA ClearPresetStep ==
    ASSUME Inv, ClearPreset
    PROVE  Inv'
BY SetOperationModeStep DEF ClearPreset

LEMMA SelectPresetStep ==
    ASSUME Inv, NEW preset \in QuickModes, SelectPreset(preset)
    PROVE  Inv'
<1> USE DEF SelectPreset
<1>1. /\ max \in MaxAirflows /\ max' = max /\ Written(set) /\ overlay \in OverlayType /\ AskedInv
      /\ Commit(PresetModeWrites(preset)) /\ preset \in {"low", "medium", "high"}
      /\ conf \in ConfType /\ converged \in BOOLEAN /\ Types
  BY QuickModesAssumption DEF Inv, Types, Command, OverlayType, ConfType
<1>2. set.extract_target_level \in 0 .. 200
  BY <1>1 DEF Written, Registers
<1>3. asked' = [mode |-> "manual", levels |-> None, fans |-> FALSE, preset |-> preset,
                intensive |-> FALSE]
  BY DEF Asks
<1>4. set' = [mode |-> MODE_MANUAL, current_level |-> PRESET_MODE_TO_RAW_CODE[preset],
              extract_target_level |-> set.extract_target_level,
              preset_mode |-> 0, preset_value |-> 0]
  BY <1>1, SetsQuick
<1>5. PRESET_MODE_TO_RAW_CODE[preset] \in 228 .. 230
  BY <1>1, PresetKeys
<1>6. Written(set')
  BY <1>2, <1>4, <1>5, Constants DEF Written, Registers
<1>7. AskedInv'
  <2>1. AskedBase(asked', set')
    BY <1>3, <1>4 DEF AskedBase
  <2>2. asked'.intensive = FALSE /\ asked'.fans = FALSE /\ set'.preset_mode = 0
    BY <1>3, <1>4
  <2> QED
    BY <1>1, <2>1, <2>2, AskedBaseNow DEF AskedInv
<1>8. overlay' \in OverlayType
  <2>1. /\ None \in OrNone(Airflows \X Airflows) /\ preset \in OrNone(QuickModes)
        /\ Shows([levels |-> None, preset |-> preset])
    BY DEF OrNone
  <2> QED
    BY <1>1, <2>1, ShowsType
<1>9. conf' \in ConfType /\ converged' = converged
  BY <1>1 DEF Superseded, ConfType
<1>10. FansInv'
  BY <1>3 DEF FansInv
<1>11. Types' /\ Written(set)' /\ UnitInv' /\ AskedIsRead' /\ Displayed'
  BY <1>1, <1>6, <1>8, <1>9, CommandKeeps
<1> QED
  BY <1>7, <1>10, <1>11 DEF Inv

LEMMA SwitchIntensiveStep ==
    ASSUME Inv, NEW on \in BOOLEAN, SwitchIntensive(on)
    PROVE  Inv'
<1> USE DEF SwitchIntensive
<1>1. /\ max \in MaxAirflows /\ max' = max /\ Written(set) /\ overlay \in OverlayType /\ AskedInv
      /\ Commit(IF on THEN PresetModeWrites("intensive") ELSE CLEAR_INTENSIVE)
      /\ conf \in ConfType /\ converged \in BOOLEAN /\ FansInv /\ data' = data
  BY DEF Inv, Types, Command, OverlayType, ConfType
<1>2. asked' = [mode |-> asked.mode, levels |-> asked.levels, fans |-> asked.fans,
                preset |-> asked.preset, intensive |-> on]
  BY DEF Asks
<1>3. set' = [mode |-> set.mode, current_level |-> set.current_level,
                   extract_target_level |-> set.extract_target_level,
                   preset_mode |-> IF on THEN MODE_MANUAL ELSE 0,
                   preset_value |-> IF on THEN INTENSIVE ELSE 0]
  BY <1>1, SetsIntensive
<1>4. Written(set')
  BY <1>1, <1>3, Constants DEF Written, Registers
<1>5. AskedInv'
  <2>1. AskedBase(asked, set)'
    BY <1>1, <1>2, <1>3, AskedBaseKept DEF AskedInv
  <2>2. asked'.intensive = on /\ asked'.fans = asked.fans
        /\ (set'.preset_mode = IF on THEN MODE_MANUAL ELSE 0)
    BY <1>2, <1>3
  <2> QED
    BY <1>1, <2>1, <2>2 DEF AskedInv
<1>6. overlay' \in OverlayType
  <2>1. on \in OrNone(BOOLEAN) /\ Shows([intensive |-> on])
    BY DEF OrNone
  <2> QED
    BY <1>1, <2>1, ShowsType
<1>7. conf' = conf /\ converged' = converged
  OBVIOUS
<1>8. FansInv'
  BY <1>1, <1>2, <1>7 DEF FansInv, LevelsReached
<1>9. Types' /\ Written(set)' /\ UnitInv' /\ AskedIsRead' /\ Displayed'
  BY <1>1, <1>4, <1>6, <1>7, CommandKeeps
<1> QED
  BY <1>5, <1>8, <1>9 DEF Inv

-----------------------------------------------------------------------------
(* Time, the unit, the app and the gateway.                                *)

LEMMA OverlayExpiresStep ==
    ASSUME Inv, NEW o \in Overlays, OverlayExpires(o)
    PROVE  Inv'
<1> USE DEF OverlayExpires
<1>1. /\ max' = max /\ max \in MaxAirflows /\ overlay \in OverlayType /\ data' = data /\ DataType(data)
      /\ UNCHANGED <<set, readable, status, flow, pending, fresh, conf, converged, commands, changes,
                     asked, current>>
  BY DEF Inv, Types, OverlayType, unitVars, bounds
<1>2. overlay' \in OverlayType
  <2>1. o = "levels" \/ o = "preset" \/ o = "intensive"
    BY DEF Overlays
  <2>2. overlay' = [overlay EXCEPT ![o] = None]
    OBVIOUS
  <2> QED
    BY <1>1, <2>1, <2>2 DEF OverlayType, OrNone
<1>3. lastOn' \in [Fans -> OrNone(1 .. 100)]
  <2>1. overlay'.levels \in OrNone(Airflows \X Airflows)
    BY <1>2 DEF OverlayType
  <2>2. DataType(data') /\ Published /\ lastOn \in [Fans -> OrNone(1 .. 100)]
    BY <1>1 DEF Inv, Types
  <2> QED
    BY <1>1, <2>1, <2>2, PublishedType
<1>4. Types'
  BY <1>1, <1>2, <1>3 DEF Inv, Types, DataType, OverlayType, Airflows
<1>5. UnitInv'
  <2>1. ModeUpdates(set)' = ModeUpdates(set)
    BY <1>1, UpdatesFrozen
  <2>2. Running(status, flow)'
    BY <1>1, RunningFrozen DEF Inv, UnitInv
  <2> QED
    BY <1>1, <2>1, <2>2 DEF Inv, UnitInv
<1>6. AskedInv'
  <2>1. AskedBase(asked, set)'
    BY <1>1, AskedBaseKept DEF Inv, AskedInv
  <2> QED
    BY <1>1, <2>1 DEF Inv, AskedInv
<1>7. FansInv'
  BY <1>1 DEF Inv, FansInv, LevelsReached
<1>8. AskedIsRead' /\ Displayed'
  BY <1>1 DEF Inv, AskedIsRead, Displayed
<1> QED
  BY <1>1, <1>4, <1>5, <1>6, <1>7, <1>8 DEF Inv

LEMMA CommandAgesStep ==
    ASSUME Inv, CommandAges
    PROVE  Inv'
<1> USE DEF CommandAges
<1>1. /\ max' = max /\ max \in MaxAirflows /\ conf \in ConfType
      /\ conf' = [conf EXCEPT !.recent = FALSE] /\ current' = FALSE
      /\ UNCHANGED <<set, readable, status, flow, pending, data, fresh, converged, overlay, lastOn,
                     commands, changes, asked>>
  BY DEF Inv, Types, ConfType, unitVars, bounds
<1>2. conf' \in ConfType /\ conf'.open = conf.open /\ conf'.expected = conf.expected
  BY <1>1 DEF ConfType
<1>3. Types'
  BY <1>1, <1>2 DEF Inv, Types, DataType, ConfType, Airflows
<1>4. UnitInv'
  <2>1. ModeUpdates(set)' = ModeUpdates(set)
    BY <1>1, UpdatesFrozen
  <2>2. Running(status, flow)'
    BY <1>1, RunningFrozen DEF Inv, UnitInv
  <2> QED
    BY <1>1, <2>1, <2>2 DEF Inv, UnitInv
<1>5. AskedInv'
  <2>1. AskedBase(asked, set)'
    BY <1>1, AskedBaseKept DEF Inv, AskedInv
  <2> QED
    BY <1>1, <2>1 DEF Inv, AskedInv
<1>6. FansInv'
  BY <1>1, <1>2 DEF Inv, FansInv, LevelsReached
<1>7. AskedIsRead' /\ Displayed'
  BY <1>1 DEF AskedIsRead, Displayed
<1> QED
  BY <1>1, <1>3, <1>4, <1>5, <1>6, <1>7 DEF Inv

\* A step of the unit or the app changes what it runs and nothing the client knows.
LEMMA UnitStep ==
    ASSUME Inv, max' = max, current' = FALSE, readable' \in BOOLEAN, changes' \in Nat,
           UNCHANGED <<set, clientVars, commands>>, AskedInv', FansInv', UnitInv'
    PROVE  Inv'
<1>1. UNCHANGED <<data, fresh, conf, converged, overlay, lastOn>>
  BY DEF clientVars
<1>2. Types'
  BY <1>1 DEF Inv, Types, DataType, Airflows
<1>3. Written(set)'
  BY DEF Inv
<1> QED
  BY <1>2, <1>3 DEF Inv, AskedIsRead, Displayed

\* What the unit takes over, on its own or before the gateway restarts.
LEMMA TakeoverKeeps ==
    ASSUME Inv, max' = max, set' = set, asked' = asked, conf' = conf, data' = data,
           \/ pending # None /\ TakesOver(pending)
           \/ pending = None /\ UNCHANGED <<status, flow, pending>>
    PROVE  AskedInv' /\ FansInv' /\ UnitInv'
<1>1. AskedInv'
  <2>1. AskedBase(asked, set)'
    BY AskedBaseKept DEF Inv, AskedInv
  <2> QED
    BY <2>1 DEF Inv, AskedInv
<1>2. FansInv'
  BY DEF Inv, FansInv, LevelsReached
<1>3. UnitInv'
  <2>1. ModeUpdates(set)' = ModeUpdates(set)
    BY UpdatesFrozen
  <2>2. CASE pending = None /\ UNCHANGED <<status, flow, pending>>
    <3>1. Running(status, flow)'
      BY <2>2, RunningFrozen DEF Inv, UnitInv
    <3> QED
      BY <2>1, <2>2, <3>1 DEF Inv, UnitInv
  <2>3. CASE pending # None /\ TakesOver(pending)
    <3>1. pending = ModeUpdates(set)
      BY <2>3 DEF Inv, UnitInv
    <3>2. /\ status' = ModeUpdates(set).status /\ pending' = None
          /\ flow' = IF ModeUpdates(set).flow = None THEN flow ELSE ModeUpdates(set).flow
      BY <2>3, <3>1 DEF TakesOver
    <3>3. flow \in Airflows \X Airflows /\ max \in MaxAirflows /\ Written(set)
      BY DEF Inv, UnitInv, Running, Types
    <3>4. Running(status', flow')
      BY <3>2, <3>3, UpdatesRun
    <3>5. Running(status, flow)'
      BY <3>4, RunningFrozen
    <3> QED
      BY <2>1, <3>2, <3>5 DEF UnitInv
  <2> QED
    BY <2>2, <2>3
<1> QED
  BY <1>1, <1>2, <1>3

LEMMA SettleStep ==
    ASSUME Inv, Settle
    PROVE  Inv'
<1> USE DEF Settle
<1>1. /\ max' = max /\ current' = FALSE /\ UNCHANGED <<set, clientVars, commands>>
      /\ asked' = asked /\ conf' = conf /\ data' = data /\ readable' = readable /\ changes' = changes
  BY DEF clientVars, bounds
<1>2. readable \in BOOLEAN /\ changes \in Nat
  BY DEF Inv, Types
<1>3. AskedInv' /\ FansInv' /\ UnitInv'
  BY <1>1, TakeoverKeeps
<1> QED
  BY <1>1, <1>2, <1>3, UnitStep

LEMMA RebootStep ==
    ASSUME Inv, Reboot
    PROVE  Inv'
<1> USE DEF Reboot
<1>1. /\ max' = max /\ current' = FALSE /\ UNCHANGED <<set, clientVars, commands>>
      /\ asked' = asked /\ conf' = conf /\ data' = data /\ readable' = FALSE
  BY DEF clientVars
<1>2. changes' \in Nat
  BY DEF Inv, Types
<1>3. AskedInv' /\ FansInv' /\ UnitInv'
  BY <1>1, TakeoverKeeps
<1> QED
  BY <1>1, <1>2, <1>3, UnitStep

LEMMA NothingAskedFields ==
    /\ NothingAsked.mode = None /\ NothingAsked.preset = None /\ NothingAsked.levels = None
    /\ NothingAsked.fans = FALSE /\ NothingAsked.intensive = None
BY DEF NothingAsked

\* A level chosen in the app is one the unit runs.
LEMMA AppRuns ==
    ASSUME max \in MaxAirflows, NEW u \in AppUpdates
    PROVE  Running(u.status, u.flow) /\ u.flow # None
<1>1. Airflows = 0 .. max /\ max \in Nat /\ 0 \in Airflows
  BY AirflowType
<1>2. CASE u = Status(MODE_OFF, 0, 0, <<0, 0>>)
  <2>1. u.status = <<MODE_OFF, 0, 0>> /\ u.flow = <<0, 0>> /\ <<0, 0>> \in Airflows \X Airflows
    BY <1>1, <1>2 DEF Status
  <2> QED
    BY <2>1, AirflowType DEF Running, RunsOff
<1>3. CASE u = Status(0, 0, 0, <<QuickAirflow("intensive"), QuickAirflow("intensive")>>)
  <2>1. u.status = <<0, 0, 0>> /\ u.flow = <<QuickAirflow("intensive"), QuickAirflow("intensive")>>
    BY <1>3 DEF Status
  <2>2. u.flow \in Airflows \X Airflows
    BY <1>1, <2>1, QuickRange
  <2> QED
    BY <2>1, <2>2, AirflowType DEF Running, RunsIntensive
<1>4. ASSUME NEW mode \in QuickModes, u = QuickStatus(mode)
      PROVE  Running(u.status, u.flow) /\ u.flow # None
  <2>1. mode \in {"low", "medium", "high"} /\ PRESET_MODE_TO_RAW_CODE[mode] \in 228 .. 230
    BY QuickModesAssumption, PresetKeys
  <2> DEFINE c == PRESET_MODE_TO_RAW_CODE[mode]
             a == QuickAirflow(mode)
  <2>2. u.status = <<MODE_MANUAL, c, c>> /\ u.flow = <<a, a>>
    BY <1>4 DEF QuickStatus, Status
  <2>3. a \in Airflows
    BY <1>1, <2>1, QuickRange
  <2>4. u.flow \in Airflows \X Airflows /\ u.flow[1] = u.flow[2]
    BY <2>2, <2>3
  <2>5. c \in 228 .. 230
    BY <2>1
  <2> HIDE DEF c, a
  <2> QED
    BY <2>2, <2>4, <2>5, AirflowType DEF Running, RunsQuick
<1>5. ASSUME NEW pair \in AppLevels,
             u = LET s == Round(pair[1] * 200, max)
                     e == Round(pair[2] * 200, max)
                 IN  Status(IF s = e THEN MODE_MANUAL ELSE MODE_UNBALANCED, s, e, pair)
      PROVE  Running(u.status, u.flow) /\ u.flow # None
  <2> DEFINE s == Round(pair[1] * 200, max)
             e == Round(pair[2] * 200, max)
  <2>1. pair \in Airflows \X Airflows
    BY <1>1, AppLevelsAssumption
  <2>2. pair[1] \in 0 .. max /\ pair[2] \in 0 .. max /\ pair = <<pair[1], pair[2]>>
    BY <1>1, <2>1
  <2>3. /\ s \in 0 .. 200 /\ ScaleRawLevelToAirflow(s) = pair[1]
        /\ e \in 0 .. 200 /\ ScaleRawLevelToAirflow(e) = pair[2]
    BY <2>2, LevelBack
  <2>4. u.status = <<IF s = e THEN MODE_MANUAL ELSE MODE_UNBALANCED, s, e>> /\ u.flow = pair
    BY <1>5 DEF Status
  <2> HIDE DEF s, e
  <2>5. CASE s = e
    <3>1. pair[1] = pair[2] /\ Abs(pair[1] - ScaleRawLevelToAirflow(s)) <= LEVEL_CONFIRM_TOLERANCE
      BY <1>1, <2>2, <2>3, <2>5, Constants DEF Abs
    <3>2. u.status = <<MODE_MANUAL, s, s>>
      BY <2>4, <2>5
    <3> QED
      BY <2>1, <2>3, <2>4, <3>1, <3>2, AirflowType DEF Running, RunsManual
  <2>6. CASE s # e
    <3>1. u.status = <<MODE_UNBALANCED, s, e>>
      BY <2>4, <2>6
    <3> QED
      BY <2>1, <2>2, <2>3, <2>4, <3>1, AirflowType DEF Running, RunsUnbalanced
  <2> QED
    BY <2>5, <2>6
<1> QED
  BY <1>2, <1>3, <1>4, <1>5 DEF AppUpdates

LEMMA AppChangeStep ==
    ASSUME Inv, AppChange
    PROVE  Inv'
<1> USE DEF AppChange
<1>1. /\ max' = max /\ current' = FALSE /\ UNCHANGED <<set, clientVars, commands>>
      /\ asked' = NothingAsked /\ readable' = readable /\ max \in MaxAirflows
  BY DEF Inv, Types
<1>2. changes' \in Nat
  BY DEF Inv, Types
<1>3. readable' \in BOOLEAN
  BY <1>1 DEF Inv, Types
<1>4. AskedInv'
  <2>1. AskedBase(asked', set')
    BY <1>1, NothingAskedFields DEF AskedBase
  <2> QED
    BY <1>1, <2>1, NothingAskedFields, AskedBaseNow, NoneAssumption DEF AskedInv
<1>5. FansInv'
  BY <1>1, NothingAskedFields DEF FansInv
<1>6. UnitInv'
  <2>1. PICK u \in AppUpdates : TakesOver(u)
    OBVIOUS
  <2>2. Running(u.status, u.flow) /\ u.flow # None
    BY <1>1, AppRuns
  <2>3. status' = u.status /\ flow' = u.flow /\ pending' = None
    BY <2>1, <2>2 DEF TakesOver
  <2>4. Running(status, flow)'
    BY <1>1, <2>2, <2>3, RunningFrozen
  <2> QED
    BY <1>1, <2>3, <2>4 DEF UnitInv
<1> QED
  BY <1>1, <1>2, <1>3, <1>4, <1>5, <1>6, UnitStep

\* The factory setting of the unit runs at its airflow within the tolerance.
LEMMA FactoryAirflow ==
    ASSUME max \in MaxAirflows
    PROVE  ScaleRawLevelToAirflow(80) \in 38 .. 41
<1> DEFINE n == 80 * max
           a == Round(n, 200)
<1>1. max \in 97 .. 100
  BY AirflowsAssumption
<1>2. n \in Nat /\ n >= 7760 /\ n <= 8000 /\ 200 \in Nat \ {0}
  BY <1>1
<1> HIDE DEF n
<1>3. a \in Nat /\ 2 * (200 * a) <= 2 * n + 200 /\ 2 * n <= 2 * (200 * a) + 200
  BY <1>2, RoundNear
<1> HIDE DEF a
<1>4. a \in 38 .. 41
  BY <1>2, <1>3
<1> QED
  BY <1>4 DEF a, n, ScaleRawLevelToAirflow

LEMMA InitInv == Init => Inv
<1> SUFFICES ASSUME Init PROVE Inv
  OBVIOUS
<1> USE DEF Init
<1>1. max \in MaxAirflows /\ Airflows = 0 .. max /\ max \in Nat /\ max >= 97 /\ max <= 100 /\ 0 \in Airflows
  BY AirflowType, Family
<1>2. Types
  <2>1. DataType(data)
    BY DEF DataType, OrNone
  <2>2. conf \in [expected : Airflows \X Airflows, open : BOOLEAN, recent : BOOLEAN]
    BY <1>1
  <2>3. overlay = [levels |-> None, preset |-> None, intensive |-> None]
    BY DEF Overlays
  <2>4. overlay \in [levels : OrNone(Airflows \X Airflows), preset : OrNone(QuickModes),
                     intensive : OrNone(BOOLEAN)]
    BY <2>3 DEF OrNone
  <2>5. lastOn \in [Fans -> OrNone(1 .. 100)]
    BY DEF OrNone
  <2> QED
    BY <1>1, <2>1, <2>2, <2>4, <2>5 DEF Types
<1>3. Written(set)
  BY Constants DEF Written, Registers
<1>4. asked = NothingAsked /\ pending = None /\ current = FALSE
  OBVIOUS
<1>5. Running(status, flow)
  <2>1. PICK start \in RegisterMaps \cup {Status(MODE_MANUAL, 80, 80, <<40, 40>>)} :
          status = start.status /\ flow = start.flow
    OBVIOUS
  <2>2. CASE start \in RegisterMaps
    <3>1. PICK n \in 1 .. 10 :
            /\ \A m \in MaxAirflows : 10 * n <= m
            /\ start \in {Status(MODE_UNBALANCED, 0, 200 + n, <<0, 10 * n>>),
                          Status(MODE_UNBALANCED, 200 + n, 0, <<10 * n, 0>>)}
      BY <2>2, RegisterMapsAssumption
    <3>2. \/ status = <<MODE_UNBALANCED, 0, 200 + n>> /\ flow = <<0, 10 * n>>
          \/ status = <<MODE_UNBALANCED, 200 + n, 0>> /\ flow = <<10 * n, 0>>
      BY <2>1, <3>1 DEF Status
    <3>3. 10 * n \in Airflows
      BY <1>1, <3>1
    <3>4. flow \in Airflows \X Airflows
      BY <1>1, <3>2, <3>3
    <3> QED
      BY <3>2, <3>4 DEF Running, RunsOneWay
  <2>3. CASE start = Status(MODE_MANUAL, 80, 80, <<40, 40>>)
    <3>1. status = <<MODE_MANUAL, 80, 80>> /\ flow = <<40, 40>>
      BY <2>1, <2>3 DEF Status
    <3>2. flow \in Airflows \X Airflows /\ flow[1] = 40 /\ flow[2] = 40
      BY <1>1, <3>1
    <3>3. ScaleRawLevelToAirflow(80) \in 38 .. 41
      BY <1>1, FactoryAirflow
    <3>5. Abs(flow[1] - ScaleRawLevelToAirflow(80)) <= LEVEL_CONFIRM_TOLERANCE
      BY <3>2, <3>3, Constants DEF Abs
    <3> QED
      <4>1. 80 \in 0 .. 200
        OBVIOUS
      <4>2. RunsManual(status, flow)
        BY <3>1, <3>2, <3>5, <4>1 DEF RunsManual
      <4> QED
        BY <3>2, <4>2 DEF Running
  <2> QED
    BY <2>1, <2>2, <2>3
<1>6. UnitInv
  BY <1>4, <1>5 DEF UnitInv
<1>7. AskedInv
  <2>1. AskedBase(asked, set)
    BY <1>4, NothingAskedFields DEF AskedBase
  <2> QED
    BY <1>4, <2>1, NothingAskedFields, NoneAssumption DEF AskedInv
<1>8. FansInv
  BY <1>4, NothingAskedFields DEF FansInv
<1> QED
  BY <1>2, <1>3, <1>4, <1>6, <1>7, <1>8 DEF Inv, AskedIsRead, Displayed

-----------------------------------------------------------------------------
(* Reads.                                                                  *)

\* What a decoded status and the airflow read with it have in common.
Shown(d, f) ==
    \/ d.mode = "off" /\ f = <<0, 0>>
    \/ d.mode \in SensorModes
    \/ d.mode = "unbalanced" /\ d.target = f[1] /\ d.extract = f[2]
    \/ /\ d.mode = "manual" /\ f[1] = f[2] /\ d.target \in Airflows
       /\ Abs(f[1] - d.target) <= LEVEL_CONFIRM_TOLERANCE

\* The state d after a read of the status s with the airflow f, from the state d0.
Decoded(d, d0, s, f) ==
    /\ DataType(d) /\ d.flow = f
    /\ ReportsIntensive(s) => d.intensive = TRUE /\ d.readback = d0.readback
    /\ ~ReportsIntensive(s) =>
          /\ d.intensive = FALSE /\ d.readback = None
          /\ d.preset = DecodePresetMode(s) /\ Shown(d, f)

LEMMA ModesAreSomething ==
    \A mode \in AllModes : mode # None
BY NoneAssumption DEF AllModes

LEMMA ReadStatus ==
    ASSUME max \in MaxAirflows, NEW s, NEW f, Running(s, f), NEW d0, DataType(d0), d0.flow = f
    PROVE  Decoded(ApplyModeRead(d0, s), d0, s, f)
<1> DEFINE d == ApplyModeRead(d0, s)
<1>1. /\ Airflows = 0 .. max /\ max \in Nat
      /\ f \in Airflows \X Airflows /\ f = <<f[1], f[2]>> /\ f[1] \in Airflows /\ f[2] \in Airflows
      /\ f[1] \in Nat /\ f[2] \in Nat
  <2>1. f \in Airflows \X Airflows
    BY DEF Running
  <2>2. Airflows = 0 .. max /\ max \in Nat
    BY AirflowType
  <2>3. f = <<f[1], f[2]>> /\ f[1] \in Airflows /\ f[2] \in Airflows
    BY <2>1
  <2> QED
    BY <2>1, <2>2, <2>3
<1>2. \A mode \in AllModes, t \in OrNone(Airflows), e \in OrNone(Airflows), p \in OrNone(AllPresets) :
        DataType([mode |-> mode, target |-> t, extract |-> e, readback |-> None, preset |-> p,
                  intensive |-> FALSE, flow |-> f])
  BY <1>1 DEF DataType, OrNone
<1>3. None \in OrNone(Airflows) /\ None \in OrNone(AllPresets)
  BY DEF OrNone
<1>4. /\ "off" \in AllModes /\ "manual" \in AllModes /\ "unbalanced" \in AllModes
      /\ \A mode \in SensorModes : mode \in AllModes
  BY DEF AllModes, DirectModes
<1>5. DeriveBalancedAirflow(f) \in OrNone(Airflows)
  BY <1>1, DerivedRange
<1>6. \A a \in Airflows : a \in OrNone(Airflows)
  BY DEF OrNone
<1>7. CASE RunsIntensive(s)
  <2>1. ReportsIntensive(s) /\ d = [d0 EXCEPT !.intensive = TRUE]
    BY <1>7, ReadsIntensive, Zenon
  <2>2. DataType([d0 EXCEPT !.intensive = TRUE])
    BY DEF DataType, OrNone
  <2>3. /\ [d0 EXCEPT !.intensive = TRUE].flow = f
        /\ [d0 EXCEPT !.intensive = TRUE].intensive = TRUE
        /\ [d0 EXCEPT !.intensive = TRUE].readback = d0.readback
    BY DEF DataType
  <2> HIDE DEF d
  <2>4. DataType(d) /\ d.flow = f /\ d.intensive = TRUE /\ d.readback = d0.readback
    BY <2>1, <2>2, <2>3
  <2> QED
    BY <2>1, <2>4 DEF d, Decoded
<1>8. CASE RunsOff(s, f)
  <2> USE DEF RunsOff
  <2>1. ScaleRawLevelToAirflow(0) \in OrNone(Airflows)
    <3>1. 0 \in 0 .. 200
      OBVIOUS
    <3>2. ScaleRawLevelToAirflow(0) \in 0 .. max
      BY <3>1, RawRange
    <3> QED
      BY <1>1, <1>6, <3>2
  <2>2. /\ ~ReportsIntensive(s) /\ DecodePresetMode(s) = None
        /\ d = [mode |-> "off", target |-> ScaleRawLevelToAirflow(0), extract |-> None,
                readback |-> None, preset |-> None, intensive |-> FALSE, flow |-> f]
    BY <1>8, ReadsOff, Constants
  <2>3. DataType(d)
    BY <1>2, <1>3, <1>4, <2>1, <2>2
  <2> HIDE DEF d
  <2>4. Shown(d, f) /\ d.flow = f /\ d.intensive = FALSE /\ d.readback = None /\ d.preset = None
    BY <1>8, <2>2 DEF Shown
  <2> QED
    BY <2>2, <2>3, <2>4 DEF d, Decoded
<1>9. ASSUME NEW v \in SensorCodes, s = <<MODE_SENSOR_CONTROL, v, v>>
      PROVE  /\ DataType(d) /\ d.flow = f /\ ~ReportsIntensive(s)
             /\ d.intensive = FALSE /\ d.readback = None
             /\ d.preset = DecodePresetMode(s) /\ Shown(d, f)
  <2> DEFINE mode == KeyOf(SENSOR_MODE_TO_RAW_VALUE, StatusSensorValue(v))
  <2>1. /\ ~ReportsIntensive(s) /\ DecodePresetMode(s) = None /\ d.mode \in SensorModes
        /\ d = [mode |-> mode, target |-> DeriveBalancedAirflow(f), extract |-> None,
                readback |-> None, preset |-> None, intensive |-> FALSE, flow |-> f]
    <3>1. s = <<2, v, v>>
      BY <1>9, Constants
    <3>2. d0.flow = f
      OBVIOUS
    <3>3. ~ReportsIntensive(s) /\ DecodePresetMode(s) = None
      BY <3>1, ReadsSensor, Zenon
    <3>4. d.mode \in SensorModes
      BY <3>1, ReadsSensor, Zenon
    <3>5. d = [mode |-> mode, target |-> DeriveBalancedAirflow(f), extract |-> None,
               readback |-> None, preset |-> None, intensive |-> FALSE, flow |-> f]
      <4>1. ApplyModeRead(d0, <<2, v, v>>) =
              [mode |-> mode, target |-> DeriveBalancedAirflow(d0.flow), extract |-> None,
               readback |-> None, preset |-> None, intensive |-> FALSE, flow |-> d0.flow]
        BY ReadsSensor, Zenon
      <4> HIDE DEF mode
      <4> QED
        BY <3>1, <3>2, <4>1, Zenon
    <3> HIDE DEF d, mode
    <3> QED
      BY <3>3, <3>4, <3>5
  <2> HIDE DEF d, mode
  <2>2. mode \in SensorModes
    BY <2>1
  <2>3. DataType(d)
    BY <1>2, <1>3, <1>4, <1>5, <2>1, <2>2
  <2> QED
    BY <2>1, <2>2, <2>3 DEF Shown
<1>10. ASSUME NEW c \in 228 .. 230, s = <<MODE_MANUAL, c, c>>, f[1] = f[2]
       PROVE  /\ DataType(d) /\ d.flow = f /\ ~ReportsIntensive(s)
              /\ d.intensive = FALSE /\ d.readback = None
              /\ d.preset = DecodePresetMode(s) /\ Shown(d, f)
  <2> DEFINE quick == KeyOf(PRESET_MODE_TO_RAW_CODE, c)
  <2>1. /\ ~ReportsIntensive(s) /\ DecodePresetMode(s) = quick
        /\ d = [mode |-> "manual", target |-> DeriveBalancedAirflow(f), extract |-> None,
                readback |-> None, preset |-> quick, intensive |-> FALSE, flow |-> f]
    BY <1>10, ReadsQuick, Constants
  <2>2. quick \in OrNone(AllPresets)
    BY PresetKeys DEF AllPresets, OrNone
  <2>3. DeriveBalancedAirflow(f) = f[1]
    BY <1>1, <1>10, DerivedRange
  <2>4. Abs(f[1] - f[1]) <= LEVEL_CONFIRM_TOLERANCE
    BY <1>1, Constants DEF Abs
  <2> HIDE DEF d, quick
  <2>5. DataType(d)
    BY <1>2, <1>3, <1>4, <1>5, <2>1, <2>2
  <2>6. d.mode = "manual" /\ d.target = f[1]
    BY <2>1, <2>3
  <2>7. Shown(d, f)
    BY <1>1, <1>10, <2>4, <2>6 DEF Shown
  <2> QED
    BY <2>1, <2>5, <2>7
<1>11. ASSUME NEW l \in 0 .. 200, s = <<MODE_MANUAL, l, l>>,
              f[1] = f[2], Abs(f[1] - ScaleRawLevelToAirflow(l)) <= LEVEL_CONFIRM_TOLERANCE
       PROVE  /\ DataType(d) /\ d.flow = f /\ ~ReportsIntensive(s)
              /\ d.intensive = FALSE /\ d.readback = None
              /\ d.preset = DecodePresetMode(s) /\ Shown(d, f)
  <2> DEFINE a == ScaleRawLevelToAirflow(l)
  <2>1. /\ ~ReportsIntensive(s) /\ DecodePresetMode(s) = None
        /\ d = [mode |-> "manual", target |-> a, extract |-> None,
                readback |-> None, preset |-> None, intensive |-> FALSE, flow |-> f]
    BY <1>11, ReadsManual, Constants
  <2>2. a \in Airflows
    BY <1>1, RawRange
  <2>3. Abs(f[1] - a) <= LEVEL_CONFIRM_TOLERANCE
    BY <1>11
  <2> HIDE DEF d, a
  <2>4. DataType(d)
    BY <1>2, <1>3, <1>4, <1>6, <2>1, <2>2
  <2>5. d.mode = "manual" /\ d.target = a
    BY <2>1
  <2>6. Shown(d, f)
    BY <1>11, <2>2, <2>3, <2>5 DEF Shown
  <2> QED
    BY <2>1, <2>4, <2>6
<1>12. ASSUME NEW l \in Nat, NEW e \in Nat, s = <<MODE_UNBALANCED, l, e>>,
              DecodeTargetLevel(l) = f[1], DecodeTargetLevel(e) = f[2],
              DecodePresetMode(s) \in OrNone(AllPresets)
       PROVE  /\ DataType(d) /\ d.flow = f /\ ~ReportsIntensive(s)
              /\ d.intensive = FALSE /\ d.readback = None
              /\ d.preset = DecodePresetMode(s) /\ Shown(d, f)
  <2>1. /\ ~ReportsIntensive(s)
        /\ d = [mode |-> "unbalanced", target |-> DecodeTargetLevel(l), extract |-> DecodeTargetLevel(e),
                readback |-> None, preset |-> DecodePresetMode(s), intensive |-> FALSE, flow |-> f]
    BY <1>12, ReadsUnbalanced, Constants
  <2>2. DataType(d)
    BY <1>1, <1>2, <1>4, <1>6, <1>12, <2>1
  <2> HIDE DEF d
  <2> QED
    BY <1>12, <2>1, <2>2 DEF Shown
<1>13. ASSUME NEW l \in 0 .. 200, NEW e \in 0 .. 200, s = <<MODE_UNBALANCED, l, e>>,
              f = <<ScaleRawLevelToAirflow(l), ScaleRawLevelToAirflow(e)>>
       PROVE  /\ DataType(d) /\ d.flow = f /\ ~ReportsIntensive(s)
              /\ d.intensive = FALSE /\ d.readback = None
              /\ d.preset = DecodePresetMode(s) /\ Shown(d, f)
  <2>1. DecodeTargetLevel(l) = f[1] /\ DecodeTargetLevel(e) = f[2]
    BY <1>13, RawDecodes
  <2>2. DecodePresetMode(s) = None
    BY <1>13, LevelsPreset, Constants
  <2>3. l \in Nat /\ e \in Nat
    OBVIOUS
  <2> HIDE DEF d
  <2> QED
    BY <1>3, <1>12, <1>13, <2>1, <2>2, <2>3
<1>14. ASSUME NEW n \in 1 .. 10,
              \/ s = <<MODE_UNBALANCED, 0, 200 + n>> /\ f = <<0, 10 * n>>
              \/ s = <<MODE_UNBALANCED, 200 + n, 0>> /\ f = <<10 * n, 0>>
       PROVE  /\ DataType(d) /\ d.flow = f /\ ~ReportsIntensive(s)
              /\ d.intensive = FALSE /\ d.readback = None
              /\ d.preset = DecodePresetMode(s) /\ Shown(d, f)
  <2>1. 10 * n <= max /\ 200 + n \in Nat /\ 0 \in Nat
    BY <1>1, <1>14
  <2>2. DecodeTargetLevel(200 + n) = 10 * n /\ DecodeTargetLevel(0) = 0
    BY <2>1, OneWayLevels
  <2>3. DecodePresetMode(s) \in OrNone(AllPresets)
    BY <1>14, OneWayPresets, Constants DEF AllPresets, OrNone
  <2> HIDE DEF d
  <2>4. CASE s = <<MODE_UNBALANCED, 0, 200 + n>> /\ f = <<0, 10 * n>>
    <3>1. f[1] = 0 /\ f[2] = 10 * n
      BY <2>4
    <3> QED
      BY <1>12, <2>1, <2>2, <2>3, <2>4, <3>1
  <2>5. CASE s = <<MODE_UNBALANCED, 200 + n, 0>> /\ f = <<10 * n, 0>>
    <3>1. f[1] = 10 * n /\ f[2] = 0
      BY <2>5
    <3> QED
      BY <1>12, <2>1, <2>2, <2>3, <2>5, <3>1
  <2> QED
    BY <1>14, <2>4, <2>5
<1> HIDE DEF d
<1> DEFINE Read == /\ DataType(d) /\ d.flow = f /\ ~ReportsIntensive(s)
                   /\ d.intensive = FALSE /\ d.readback = None
                   /\ d.preset = DecodePresetMode(s) /\ Shown(d, f)
<1>15. RunsSensor(s) => Read
  BY <1>9 DEF RunsSensor
<1>16. RunsQuick(s, f) => Read
  BY <1>10 DEF RunsQuick
<1>17. RunsManual(s, f) => Read
  BY <1>11 DEF RunsManual
<1>18. RunsUnbalanced(s, f) => Read
  BY <1>13 DEF RunsUnbalanced
<1>19. RunsOneWay(s, f) => Read
  BY <1>14 DEF RunsOneWay
<1>20. RunsIntensive(s) \/ RunsOff(s, f) \/ Read
  <2> HIDE DEF Read
  <2> QED
    BY <1>15, <1>16, <1>17, <1>18, <1>19 DEF Running
<1> QED
  BY <1>7, <1>8, <1>20 DEF d, Decoded

\* A read without a status keeps the decoded mode.
LEMMA ReadFlow ==
    ASSUME max \in MaxAirflows, NEW d0, DataType(d0), d0.flow \in Airflows \X Airflows
    PROVE  /\ DataType(ApplyModeRead(d0, None)) /\ ApplyModeRead(d0, None).readback = None
<1>1. DeriveBalancedAirflow(d0.flow) \in OrNone(Airflows)
  BY DerivedRange
<1> DEFINE t == IF d0.mode = "unbalanced" THEN d0.target ELSE DeriveBalancedAirflow(d0.flow)
           e == IF d0.mode = "unbalanced" THEN d0.extract ELSE None
<1>2. ApplyModeRead(d0, None) =
        [mode |-> d0.mode, target |-> t, extract |-> e, readback |-> None, preset |-> d0.preset,
         intensive |-> d0.intensive, flow |-> d0.flow]
  BY DEF ApplyModeRead
<1>3. t \in OrNone(Airflows) /\ e \in OrNone(Airflows) /\ None \in OrNone(Airflows)
  BY <1>1 DEF DataType, OrNone
<1> HIDE DEF t, e
<1> QED
  BY <1>2, <1>3 DEF DataType

\* What is on display after a complete read is within the tolerance of the airflow.
LEMMA ShownLevels ==
    ASSUME max \in MaxAirflows, NEW f \in Airflows \X Airflows, NEW d, DataType(d), d.flow = f,
           Shown(d, f),
           d.mode = "manual" /\ d.readback # None => LevelsReached(f, <<d.readback, d.readback>>)
    PROVE  LevelsReached(ReportedLevels(d, {"flow", "mode"}), f)
<1>1. /\ f[1] \in Nat /\ f[2] \in Nat /\ f[1] # None /\ f[2] # None /\ f = <<f[1], f[2]>>
      /\ Airflows = 0 .. max /\ max \in Nat
  BY AirflowType
<1>2. d.mode # None
  <2>1. d.mode \in AllModes
    BY DEF Shown, AllModes, DirectModes
  <2> QED
    BY <2>1, ModesAreSomething
<1>3. ReportedLevels(d, {"flow", "mode"}) = TargetLevels(d, f)
  BY <1>2 DEF ReportedLevels, TargetsKnown
<1>4. f # <<None, None>>
  BY <1>1
<1>5. \A a \in Nat : Abs(a - a) <= LEVEL_CONFIRM_TOLERANCE
  BY Constants DEF Abs
<1>6. \A a \in Nat, b \in Nat : Abs(a - b) = Abs(b - a)
  BY DEF Abs
<1>7. LevelsReached(f, f)
  BY <1>1, <1>5 DEF LevelsReached
<1>8. CASE d.mode = "off" /\ f = <<0, 0>>
  BY <1>3, <1>7, <1>8, SensorKeys DEF TargetLevels
<1>9. CASE d.mode \in SensorModes
  <2>1. d.mode \notin {"off", "unbalanced"}
    BY <1>9, SensorKeys
  <2> QED
    BY <1>3, <1>7, <1>9, <2>1 DEF TargetLevels
<1>10. CASE d.mode = "unbalanced" /\ d.target = f[1] /\ d.extract = f[2]
  <2>1. TargetLevels(d, f) = f
    BY <1>1, <1>10, SensorKeys DEF TargetLevels, FirstKnown
  <2> QED
    BY <1>3, <1>7, <2>1
<1>11. CASE /\ d.mode = "manual" /\ f[1] = f[2] /\ d.target \in Airflows
            /\ Abs(f[1] - d.target) <= LEVEL_CONFIRM_TOLERANCE
  <2>1. d.target # None /\ d.target \in Nat
    BY <1>11, AirflowType
  <2>2. d.readback = None \/ (d.readback \in Nat /\ d.readback # None)
    <3>1. d.readback \in OrNone(Airflows)
      BY DEF DataType
    <3> QED
      BY <3>1, AirflowType DEF OrNone
  <2> DEFINE common == FirstKnown(d.readback, d.target)
  <2>3. common \in Nat /\ common # None
    BY <2>1, <2>2 DEF FirstKnown
  <2>4. TargetLevels(d, f) = <<common, common>>
    BY <1>4, <1>11, <2>3, SensorKeys DEF TargetLevels
  <2>5. Abs(f[1] - common) <= LEVEL_CONFIRM_TOLERANCE
    BY <1>11, <2>2 DEF FirstKnown, LevelsReached
  <2> HIDE DEF common
  <2>6. Abs(common - f[1]) <= LEVEL_CONFIRM_TOLERANCE /\ Abs(common - f[2]) <= LEVEL_CONFIRM_TOLERANCE
    BY <1>1, <1>6, <1>11, <2>3, <2>5
  <2>7. LevelsReached(<<common, common>>, f)
    BY <2>3, <2>6 DEF LevelsReached
  <2> QED
    BY <1>3, <2>4, <2>7
<1> QED
  BY <1>8, <1>9, <1>10, <1>11 DEF Shown

\* The decoded status of a unit that runs what was asked for.
AskedShown(d, levels) ==
    \/ d.mode = "off" /\ levels = <<0, 0>>
    \/ d.mode = "manual" /\ d.target = levels[1] /\ levels[1] = levels[2] /\ d.flow = levels
    \/ d.mode = "unbalanced" /\ d.target = levels[1] /\ d.extract = levels[2]

LEMMA BaseReported ==
    ASSUME max \in MaxAirflows, NEW r, Written(r), r.preset_mode = 0
    PROVE  ~ReportsIntensive(ModeUpdates(r).status)
<1>1. r.current_level \in Nat /\ r.extract_target_level \in Nat
  BY DEF Written, Registers
<1>2. CASE r.mode = MODE_OFF
  <2>1. ModeUpdates(r).status = <<1, 0, 0>>
    BY <1>2, UpdatesOff
  <2> QED
    BY <2>1, Constants DEF ReportsIntensive
<1>3. CASE r.mode = MODE_SENSOR_CONTROL /\ r.current_level \in {16, 112, 144}
  <2>1. ModeUpdates(r).status = <<2, SensorStatus(r.current_level), SensorStatus(r.current_level)>>
    BY <1>3, UpdatesSensor
  <2> QED
    BY <2>1, Constants DEF ReportsIntensive
<1>4. CASE r.mode = MODE_UNBALANCED
  <2>1. ModeUpdates(r).status = <<4, r.current_level, r.extract_target_level>>
    BY <1>4, UpdatesUnbalanced
  <2> QED
    BY <2>1, Constants DEF ReportsIntensive
<1>5. CASE r.mode = MODE_MANUAL /\ r.current_level \in 0 .. 200
  <2>1. ModeUpdates(r).status = <<3, r.current_level, r.current_level>>
    BY <1>5, UpdatesManual
  <2> QED
    BY <1>5, <2>1, Constants DEF ReportsIntensive
<1>6. CASE r.mode = MODE_MANUAL /\ r.current_level \in 228 .. 230
  <2>1. ModeUpdates(r).status = <<3, r.current_level, r.current_level>>
    BY <1>6, UpdatesQuick
  <2> QED
    BY <1>6, <2>1, Constants DEF ReportsIntensive
<1> QED
  BY <1>2, <1>3, <1>4, <1>5, <1>6, WrittenKinds, Constants

\* The unit runs what was asked for, in registers and in airflow.
LEMMA AskedRunning ==
    ASSUME Inv, pending = None, asked.intensive # None
    PROVE  /\ asked.intensive \in BOOLEAN
           /\ status = ModeUpdates(set).status
           /\ ModeUpdates(set).flow # None => flow = ModeUpdates(set).flow
           /\ asked.intensive = TRUE => set.preset_mode = MODE_MANUAL
           /\ asked.intensive = FALSE => set.preset_mode = 0
BY NothingAskedFields DEF Inv, UnitInv, AskedInv

LEMMA ReadsAsked ==
    ASSUME Inv, pending = None, asked.intensive = FALSE, asked.mode # None,
           NEW d0, d0.flow = flow
    PROVE  LET d == ApplyModeRead(d0, status)
           IN  /\ d.mode = asked.mode /\ d.preset = asked.preset
               /\ asked.levels # None =>
                     asked.levels \in Airflows \X Airflows /\ AskedShown(d, asked.levels)
<1> DEFINE d == ApplyModeRead(d0, status)
<1>1. max \in MaxAirflows /\ Written(set) /\ AskedBase(asked, set)
  BY DEF Inv, Types, AskedInv
<1>2. /\ status = ModeUpdates(set).status /\ set.preset_mode = 0
      /\ ModeUpdates(set).flow # None => flow = ModeUpdates(set).flow
  <2>1. asked.intensive # None
    BY NoneAssumption
  <2> QED
    BY <2>1, AskedRunning
<1>3. CASE /\ asked.preset \in QuickModes /\ asked.mode = "manual" /\ asked.levels = None
           /\ set.mode = MODE_MANUAL /\ set.current_level = PRESET_MODE_TO_RAW_CODE[asked.preset]
  <2> DEFINE c == set.current_level
  <2>1. c \in 228 .. 230 /\ KeyOf(PRESET_MODE_TO_RAW_CODE, c) = asked.preset
    <3>1. asked.preset \in {"low", "medium", "high"}
      BY <1>3, QuickModesAssumption
    <3> QED
      BY <1>3, <3>1, PresetKeys
  <2>2. status = <<3, c, c>>
    BY <1>1, <1>2, <1>3, <2>1, UpdatesQuick
  <2>3. d.mode = "manual" /\ d.preset = asked.preset
    <3>1. ApplyModeRead(d0, <<3, c, c>>) =
            [mode |-> "manual", target |-> DeriveBalancedAirflow(d0.flow), extract |-> None,
             readback |-> None, preset |-> KeyOf(PRESET_MODE_TO_RAW_CODE, c), intensive |-> FALSE,
             flow |-> d0.flow]
      BY <1>1, <2>1, ReadsQuick
    <3> QED
      BY <2>1, <2>2, <3>1
  <2> HIDE DEF d
  <2> QED
    BY <1>3, <2>3 DEF d
<1>4. CASE /\ asked.mode \in SensorModes /\ asked.preset = None /\ asked.levels = None
           /\ set.mode = MODE_SENSOR_CONTROL /\ set.current_level = SENSOR_MODE_TO_RAW_VALUE[asked.mode]
  <2> DEFINE v == set.current_level
  <2>1. v \in {16, 112, 144} /\ KeyOf(SENSOR_MODE_TO_RAW_VALUE, v) = asked.mode
    BY <1>4, SensorKeys
  <2>2. SensorStatus(v) \in SensorCodes /\ StatusSensorValue(SensorStatus(v)) = v
    BY <2>1, SensorStatuses
  <2>3. status = <<2, SensorStatus(v), SensorStatus(v)>>
    BY <1>1, <1>2, <1>4, UpdatesSensor
  <2>4. d.mode = asked.mode /\ d.preset = None
    <3> DEFINE w == SensorStatus(v)
    <3>1. w \in SensorCodes
      BY <2>2
    <3> HIDE DEF w
    <3>2. ApplyModeRead(d0, <<2, w, w>>) =
            [mode |-> KeyOf(SENSOR_MODE_TO_RAW_VALUE, StatusSensorValue(w)),
             target |-> DeriveBalancedAirflow(d0.flow), extract |-> None,
             readback |-> None, preset |-> None, intensive |-> FALSE, flow |-> d0.flow]
      BY <3>1, ReadsSensor, Zenon
    <3>3. StatusSensorValue(w) = v /\ status = <<2, w, w>>
      BY <2>2, <2>3 DEF w
    <3> QED
      BY <2>1, <3>2, <3>3
  <2> HIDE DEF d
  <2> QED
    BY <1>4, <2>4 DEF d
<1>5. CASE asked.preset = None /\ asked.levels \in Airflows \X Airflows
           /\ asked.mode = "off" /\ asked.levels = <<0, 0>> /\ set.mode = MODE_OFF
  <2>1. status = <<1, 0, 0>>
    BY <1>1, <1>2, <1>5, UpdatesOff
  <2>2. d.mode = "off" /\ d.preset = None
    <3>1. ApplyModeRead(d0, <<1, 0, 0>>) =
            [mode |-> "off", target |-> ScaleRawLevelToAirflow(0), extract |-> None,
             readback |-> None, preset |-> None, intensive |-> FALSE, flow |-> d0.flow]
      BY <1>1, ReadsOff
    <3> QED
      BY <2>1, <3>1
  <2> HIDE DEF d
  <2>3. AskedShown(d, asked.levels)
    BY <1>5, <2>2 DEF AskedShown
  <2> QED
    BY <1>5, <2>2, <2>3 DEF d
<1>6. CASE asked.preset = None /\ asked.levels \in Airflows \X Airflows
           /\ asked.mode = "manual" /\ asked.levels[1] = asked.levels[2]
           /\ set.mode = MODE_MANUAL /\ set.current_level = ScaleAirflowToRaw(asked.levels[1])
  <2> DEFINE l == set.current_level
             a == ScaleRawLevelToAirflow(l)
  <2>1. asked.levels = <<asked.levels[1], asked.levels[2]>> /\ asked.levels[1] \in 0 .. max
    BY <1>1, <1>6, AirflowType
  <2>2. l \in 0 .. 200 /\ a = asked.levels[1]
    BY <1>1, <1>6, <2>1, LevelBack
  <2>3. ModeUpdates(set) = [status |-> <<3, l, l>>, flow |-> <<a, a>>]
    BY <1>1, <1>2, <1>6, <2>2, UpdatesManual
  <2>4. <<a, a>> = asked.levels
    BY <1>6, <2>1, <2>2
  <2> HIDE DEF l, a
  <2>5. <<a, a>> # None
    BY <1>1, <1>6, <2>4, AirflowType
  <2>6. status = <<3, l, l>> /\ flow = asked.levels
    BY <1>2, <2>3, <2>4, <2>5
  <2>7. d.mode = "manual" /\ d.preset = None /\ d.target = a /\ d.flow = flow
    <3>1. ApplyModeRead(d0, <<3, l, l>>) =
            [mode |-> "manual", target |-> ScaleRawLevelToAirflow(l), extract |-> None,
             readback |-> None, preset |-> None, intensive |-> FALSE, flow |-> d0.flow]
      BY <1>1, <2>2, ReadsManual
    <3> QED
      BY <2>6, <3>1 DEF a
  <2> HIDE DEF d
  <2>8. AskedShown(d, asked.levels)
    BY <1>6, <2>2, <2>6, <2>7 DEF AskedShown
  <2> QED
    BY <1>6, <2>7, <2>8 DEF d
<1>7. CASE asked.preset = None /\ asked.levels \in Airflows \X Airflows
           /\ asked.mode = "unbalanced" /\ set.mode = MODE_UNBALANCED
           /\ set.current_level = ScaleAirflowToRaw(asked.levels[1])
           /\ set.extract_target_level = ScaleAirflowToRaw(asked.levels[2])
  <2> DEFINE l == set.current_level
             e == set.extract_target_level
  <2>1. asked.levels[1] \in 0 .. max /\ asked.levels[2] \in 0 .. max
    BY <1>1, <1>7, AirflowType
  <2>2. /\ l \in 0 .. 200 /\ ScaleRawLevelToAirflow(l) = asked.levels[1]
        /\ e \in 0 .. 200 /\ ScaleRawLevelToAirflow(e) = asked.levels[2]
    BY <1>1, <1>7, <2>1, LevelBack
  <2>3. status = <<4, l, e>>
    BY <1>1, <1>2, <1>7, UpdatesUnbalanced
  <2>4. DecodeTargetLevel(l) = asked.levels[1] /\ DecodeTargetLevel(e) = asked.levels[2]
    BY <1>1, <2>2, RawDecodes
  <2>5. DecodePresetMode(<<4, l, e>>) = None
    BY <2>2, LevelsPreset
  <2>6. l \in Nat /\ e \in Nat
    BY <2>2
  <2>7. d.mode = "unbalanced" /\ d.preset = None /\ d.target = asked.levels[1] /\ d.extract = asked.levels[2]
    <3>1. ApplyModeRead(d0, <<4, l, e>>) =
            [mode |-> "unbalanced", target |-> DecodeTargetLevel(l), extract |-> DecodeTargetLevel(e),
             readback |-> None, preset |-> DecodePresetMode(<<4, l, e>>), intensive |-> FALSE,
             flow |-> d0.flow]
      BY <1>1, <2>6, ReadsUnbalanced
    <3> QED
      BY <2>3, <2>4, <2>5, <3>1
  <2> HIDE DEF d
  <2>8. AskedShown(d, asked.levels)
    BY <2>7 DEF AskedShown
  <2> QED
    BY <1>7, <2>7, <2>8 DEF d
<1> HIDE DEF d
<1>8. \/ asked.mode = None
      \/ /\ asked.preset \in QuickModes /\ asked.mode = "manual" /\ asked.levels = None
         /\ set.mode = MODE_MANUAL /\ set.current_level = PRESET_MODE_TO_RAW_CODE[asked.preset]
      \/ /\ asked.mode \in SensorModes /\ asked.preset = None /\ asked.levels = None
         /\ set.mode = MODE_SENSOR_CONTROL /\ set.current_level = SENSOR_MODE_TO_RAW_VALUE[asked.mode]
      \/ /\ asked.preset = None /\ asked.levels \in Airflows \X Airflows
         /\ asked.mode = "off" /\ asked.levels = <<0, 0>> /\ set.mode = MODE_OFF
      \/ /\ asked.preset = None /\ asked.levels \in Airflows \X Airflows
         /\ asked.mode = "manual" /\ asked.levels[1] = asked.levels[2]
         /\ set.mode = MODE_MANUAL /\ set.current_level = ScaleAirflowToRaw(asked.levels[1])
      \/ /\ asked.preset = None /\ asked.levels \in Airflows \X Airflows
         /\ asked.mode = "unbalanced" /\ set.mode = MODE_UNBALANCED
         /\ set.current_level = ScaleAirflowToRaw(asked.levels[1])
         /\ set.extract_target_level = ScaleAirflowToRaw(asked.levels[2])
  BY <1>1 DEF AskedBase
<1> QED
  BY <1>3, <1>4, <1>5, <1>6, <1>7, <1>8

LEMMA AskedLevels ==
    ASSUME max \in MaxAirflows, NEW levels \in Airflows \X Airflows, NEW d, AskedShown(d, levels),
           NEW f \in Airflows \X Airflows
    PROVE  d.readback = None => TargetLevels(d, f) = levels
<1>1. levels = <<levels[1], levels[2]>> /\ levels[1] # None /\ levels[2] # None /\ f[1] # None
  BY AirflowType
<1>2. f # <<None, None>>
  BY <1>1
<1>3. CASE d.mode = "off" /\ levels = <<0, 0>>
  BY <1>3, SensorKeys DEF TargetLevels
<1>4. CASE d.mode = "manual" /\ d.target = levels[1] /\ levels[1] = levels[2]
  BY <1>1, <1>2, <1>4, SensorKeys DEF TargetLevels, FirstKnown
<1>5. CASE d.mode = "unbalanced" /\ d.target = levels[1] /\ d.extract = levels[2]
  BY <1>1, <1>5, SensorKeys DEF TargetLevels, FirstKnown
<1> QED
  BY <1>3, <1>4, <1>5 DEF AskedShown

LEMMA AskedReached ==
    ASSUME max \in MaxAirflows, NEW levels \in Airflows \X Airflows, NEW d, AskedShown(d, levels),
           NEW f \in Airflows \X Airflows, d.readback \in OrNone(Airflows),
           d.mode = "manual" /\ d.readback # None => LevelsReached(<<d.readback, d.readback>>, levels)
    PROVE  LevelsReached(TargetLevels(d, f), levels)
<1>1. /\ levels = <<levels[1], levels[2]>> /\ levels[1] # None /\ levels[2] # None /\ f[1] # None
      /\ levels[1] \in Nat /\ levels[2] \in Nat
  BY AirflowType
<1>2. f # <<None, None>>
  BY <1>1
<1>3. LevelsReached(levels, levels)
  <2>1. Abs(levels[1] - levels[1]) <= LEVEL_CONFIRM_TOLERANCE
        /\ Abs(levels[2] - levels[2]) <= LEVEL_CONFIRM_TOLERANCE
    BY <1>1, Constants DEF Abs
  <2> QED
    BY <1>1, <2>1 DEF LevelsReached
<1>4. CASE d.mode = "off" /\ levels = <<0, 0>>
  BY <1>3, <1>4, SensorKeys DEF TargetLevels
<1>5. CASE d.mode = "manual" /\ d.target = levels[1] /\ levels[1] = levels[2]
  <2>1. CASE d.readback = None
    <3>1. TargetLevels(d, f) = levels
      BY <1>1, <1>2, <1>5, <2>1, SensorKeys DEF TargetLevels, FirstKnown
    <3> QED
      BY <1>3, <3>1
  <2>2. CASE d.readback # None
    <3>1. TargetLevels(d, f) = <<d.readback, d.readback>>
      BY <1>5, <2>2, SensorKeys DEF TargetLevels, FirstKnown
    <3> QED
      BY <1>5, <2>2, <3>1
  <2> QED
    BY <2>1, <2>2
<1>6. CASE d.mode = "unbalanced" /\ d.target = levels[1] /\ d.extract = levels[2]
  <2>1. TargetLevels(d, f) = levels
    BY <1>1, <1>6, SensorKeys DEF TargetLevels, FirstKnown
  <2> QED
    BY <1>3, <2>1
<1> QED
  BY <1>4, <1>5, <1>6 DEF AskedShown

\* An exact target that is carried along is near the airflow, once no command is recent.
LEMMA CarriedNear ==
    ASSUME NEW d, NEW conv, Carries(d, conv), ~conf.recent, d.target # None,
           LevelsReached(d.flow, <<d.target, d.target>>)
    PROVE  LevelsReached(d.flow, <<data.readback, data.readback>>)
BY DEF Carries, SupersededByFlow

LEMMA FinishKeeps ==
    ASSUME Types, max' = max, NEW d, DataType(d), NEW ok \in BOOLEAN, Finish(d, ok)
    PROVE  /\ overlay' \in OverlayType /\ conf' \in ConfType
           /\ conf'.expected = conf.expected /\ conf'.recent = conf.recent
           /\ lastOn' \in [Fans -> OrNone(1 .. 100)]
           /\ conf'.open <=> conf.open /\ ~Confirmed(d, ok)
<1> USE DEF Finish
<1>1. overlay \in OverlayType /\ conf \in ConfType /\ max \in MaxAirflows
  BY DEF Types, OverlayType, ConfType
<1>2. overlay' \in OverlayType
  BY <1>1 DEF OverlayType, OrNone
<1>3. /\ conf' \in ConfType /\ conf'.expected = conf.expected /\ conf'.recent = conf.recent
      /\ conf'.open <=> conf.open /\ ~Confirmed(d, ok)
  <2> DEFINE c == Confirmed(d, ok)
  <2>1. conf' = [conf EXCEPT !.open = conf.open /\ ~c]
    OBVIOUS
  <2> HIDE DEF c
  <2>2. conf' = [expected |-> conf.expected, open |-> (conf.open /\ ~c), recent |-> conf.recent]
    BY <1>1, <2>1 DEF ConfType
  <2>3. conf.expected \in Airflows \X Airflows /\ conf.recent \in BOOLEAN /\ (conf.open /\ ~c) \in BOOLEAN
    BY <1>1 DEF ConfType
  <2> QED
    BY <2>2, <2>3 DEF ConfType, c
<1>4. lastOn' \in [Fans -> OrNone(1 .. 100)]
  <2>1. overlay'.levels \in OrNone(Airflows \X Airflows) /\ DataType(data')
    BY <1>2 DEF OverlayType
  <2>2. Published /\ lastOn \in [Fans -> OrNone(1 .. 100)]
    BY DEF Types
  <2> QED
    BY <1>1, <2>1, <2>2, PublishedType
<1> QED
  BY <1>2, <1>3, <1>4

LEMMA ReachedTarget ==
    ASSUME NEW f, f[1] \in Nat, f[1] # None, f[1] = f[2], NEW t \in Nat,
           Abs(f[1] - t) <= LEVEL_CONFIRM_TOLERANCE
    PROVE  LevelsReached(f, <<t, t>>)
<1>1. f[2] \in Nat /\ f[2] # None /\ Abs(f[2] - t) <= LEVEL_CONFIRM_TOLERANCE
  OBVIOUS
<1> QED
  BY <1>1 DEF LevelsReached

\* What a read leaves in the decoded state, and where its exact target comes from.
LEMMA ReadRoomData ==
    ASSUME Inv, NEW ok \in BOOLEAN, ReadRoom(ok)
    PROVE  LET d == ApplyModeRead([data EXCEPT !.flow = flow], IF ok THEN status ELSE None)
               conv == converged \/ (data.readback # None /\ FlowReachedReadback(d, data.readback))
           IN  /\ DataType(data') /\ Finish(data', ok) /\ converged' \in BOOLEAN /\ DataType(d)
               /\ data'.mode = d.mode /\ data'.target = d.target /\ data'.extract = d.extract
               /\ data'.preset = d.preset /\ data'.intensive = d.intensive /\ data'.flow = d.flow
               /\ \/ /\ d.mode \in {"manual", "off"} /\ conf.open /\ conf.recent
                     /\ d.intensive # TRUE /\ data'.readback = SetTarget
                  \/ /\ d.mode \in {"manual", "off"} /\ ~(conf.open /\ conf.recent)
                     /\ d.intensive # TRUE /\ Carries(d, conv) /\ data'.readback = data.readback
                  \/ data'.readback = None
                  \/ /\ ok /\ ReportsIntensive(status) /\ d.intensive = TRUE
                     /\ data'.readback = data.readback
               /\ ok =>
                     /\ d = ApplyModeRead([data EXCEPT !.flow = flow], status) /\ d.flow = flow
                     /\ ReportsIntensive(status) => d.intensive = TRUE
                     /\ ~ReportsIntensive(status) =>
                           /\ d.intensive = FALSE /\ d.preset = DecodePresetMode(status)
                           /\ Shown(d, flow)
<1> DEFINE d0 == [data EXCEPT !.flow = flow]
           d == ApplyModeRead(d0, IF ok THEN status ELSE None)
           conv == converged \/ (data.readback # None /\ FlowReachedReadback(d, data.readback))
           exact == ok /\ d.intensive # TRUE /\ d.mode \in {"manual", "off"}
<1>1. /\ max \in MaxAirflows /\ DataType(data) /\ converged \in BOOLEAN /\ Written(set)
      /\ Running(status, flow) /\ flow \in Airflows \X Airflows /\ data.readback \in OrNone(Airflows)
  BY DEF Inv, Types, UnitInv, Running, DataType
<1>2. DataType(d0) /\ d0.flow = flow /\ d0.readback = data.readback
  BY <1>1 DEF DataType
<1> HIDE DEF d0
<1>3. ok => /\ d = ApplyModeRead(d0, status) /\ DataType(d) /\ d.flow = flow
            /\ ReportsIntensive(status) => d.intensive = TRUE /\ d.readback = data.readback
            /\ ~ReportsIntensive(status) =>
                  /\ d.intensive = FALSE /\ d.readback = None
                  /\ d.preset = DecodePresetMode(status) /\ Shown(d, flow)
  <2> SUFFICES ASSUME ok
               PROVE  /\ d = ApplyModeRead(d0, status) /\ DataType(d) /\ d.flow = flow
                      /\ ReportsIntensive(status) => d.intensive = TRUE /\ d.readback = data.readback
                      /\ ~ReportsIntensive(status) =>
                            /\ d.intensive = FALSE /\ d.readback = None
                            /\ d.preset = DecodePresetMode(status) /\ Shown(d, flow)
    OBVIOUS
  <2>1. d = ApplyModeRead(d0, status)
    OBVIOUS
  <2>2. Decoded(ApplyModeRead(d0, status), d0, status, flow)
    <3> HIDE DEF d
    <3>1. max \in MaxAirflows /\ Running(status, flow)
      BY <1>1
    <3>2. DataType(d0) /\ d0.flow = flow
      BY <1>2
    <3> QED
      BY <3>1, <3>2, ReadStatus
  <2> HIDE DEF d
  <2> QED
    BY <1>2, <2>1, <2>2 DEF Decoded
<1>4. ~ok => DataType(d) /\ d.readback = None
  <2> SUFFICES ASSUME ~ok PROVE DataType(d) /\ d.readback = None
    OBVIOUS
  <2>1. d = ApplyModeRead(d0, None)
    OBVIOUS
  <2> HIDE DEF d
  <2>2. d0.flow \in Airflows \X Airflows
    BY <1>1, <1>2
  <2> QED
    BY <1>1, <1>2, <2>1, <2>2, ReadFlow
<1>5. IF exact /\ conf.open /\ conf.recent
      THEN Finish([d EXCEPT !.readback = SetTarget], ok) /\ UNCHANGED converged
      ELSE IF exact
      THEN /\ Finish(IF Carries(d, conv) THEN [d EXCEPT !.readback = data.readback] ELSE d, ok)
           /\ converged' = (conv /\ Carries(d, conv))
      ELSE Finish(d, ok) /\ UNCHANGED converged
  BY DEF ReadRoom, d0
<1> HIDE DEF d
<1>6. DataType(d)
  BY <1>3, <1>4
<1>7. SetTarget \in OrNone(Airflows)
  <2>1. \A raw \in 0 .. 200 : ScaleRawLevelToAirflow(raw) \in Airflows
    BY <1>1, RawRange, AirflowType
  <2> QED
    BY <2>1 DEF SetTarget, OrNone
<1>8. \A rb \in OrNone(Airflows) :
        LET e == [d EXCEPT !.readback = rb]
        IN  /\ DataType(e) /\ e.readback = rb
            /\ e.mode = d.mode /\ e.target = d.target /\ e.extract = d.extract
            /\ e.preset = d.preset /\ e.intensive = d.intensive /\ e.flow = d.flow
  BY <1>6 DEF DataType
<1>9. \A e : Finish(e, ok) => data' = e
  BY DEF Finish
<1>10. CASE exact /\ conf.open /\ conf.recent
  <2> DEFINE e == [d EXCEPT !.readback = SetTarget]
  <2>1. Finish(e, ok) /\ converged' = converged /\ data' = e
    BY <1>5, <1>9, <1>10
  <2>2. /\ DataType(e) /\ e.readback = SetTarget
        /\ e.mode = d.mode /\ e.target = d.target /\ e.extract = d.extract
        /\ e.preset = d.preset /\ e.intensive = d.intensive /\ e.flow = d.flow
    BY <1>7, <1>8
  <2> HIDE DEF e, conv
  <2> QED
    BY <1>1, <1>3, <1>6, <1>10, <2>1, <2>2 DEF d, d0
<1>11. CASE exact /\ ~(conf.open /\ conf.recent) /\ Carries(d, conv)
  <2> DEFINE e == [d EXCEPT !.readback = data.readback]
  <2>1. Finish(e, ok) /\ converged' \in BOOLEAN /\ data' = e
    BY <1>5, <1>9, <1>11
  <2>2. /\ DataType(e) /\ e.readback = data.readback
        /\ e.mode = d.mode /\ e.target = d.target /\ e.extract = d.extract
        /\ e.preset = d.preset /\ e.intensive = d.intensive /\ e.flow = d.flow
    BY <1>1, <1>8
  <2> HIDE DEF e
  <2> QED
    BY <1>3, <1>6, <1>11, <2>1, <2>2 DEF d, d0
<1>12. CASE exact /\ ~(conf.open /\ conf.recent) /\ ~Carries(d, conv)
  <2>1. Finish(d, ok) /\ converged' \in BOOLEAN /\ data' = d
    BY <1>5, <1>9, <1>12
  <2>2. d.readback = None
    BY <1>3, <1>12
  <2> HIDE DEF conv
  <2> QED
    BY <1>3, <1>6, <2>1, <2>2 DEF d, d0
<1>13. CASE ~exact
  <2>1. Finish(d, ok) /\ converged' = converged /\ data' = d
    BY <1>5, <1>9, <1>13
  <2>2. d.readback = None \/ (ok /\ ReportsIntensive(status) /\ d.intensive = TRUE
                              /\ d.readback = data.readback)
    BY <1>3, <1>4
  <2> HIDE DEF conv, exact
  <2> QED
    BY <1>1, <1>3, <1>6, <2>1, <2>2 DEF d, d0
<1> QED
  BY <1>10, <1>11, <1>12, <1>13

LEMMA ReadRoomStep ==
    ASSUME Inv, NEW ok \in BOOLEAN, ReadRoom(ok)
    PROVE  Inv'
<1> DEFINE d == ApplyModeRead([data EXCEPT !.flow = flow], IF ok THEN status ELSE None)
           conv == converged \/ (data.readback # None /\ FlowReachedReadback(d, data.readback))
<1>1. /\ max' = max /\ max \in MaxAirflows /\ Types /\ Written(set) /\ FansInv
      /\ UNCHANGED <<set, readable, status, flow, pending, commands, changes, asked>>
      /\ current' = (ok /\ pending = None)
      /\ fresh' = IF ok THEN {"flow", "mode"} ELSE {"flow"}
  BY DEF ReadRoom, Inv, Types, unitVars, bounds
<1>2. /\ DataType(data') /\ Finish(data', ok) /\ converged' \in BOOLEAN /\ DataType(d)
      /\ data'.mode = d.mode /\ data'.target = d.target /\ data'.extract = d.extract
      /\ data'.preset = d.preset /\ data'.intensive = d.intensive /\ data'.flow = d.flow
      /\ \/ /\ d.mode \in {"manual", "off"} /\ conf.open /\ conf.recent
            /\ d.intensive # TRUE /\ data'.readback = SetTarget
         \/ /\ d.mode \in {"manual", "off"} /\ ~(conf.open /\ conf.recent)
            /\ d.intensive # TRUE /\ Carries(d, conv) /\ data'.readback = data.readback
         \/ data'.readback = None
         \/ /\ ok /\ ReportsIntensive(status) /\ d.intensive = TRUE
            /\ data'.readback = data.readback
      /\ ok =>
            /\ d = ApplyModeRead([data EXCEPT !.flow = flow], status) /\ d.flow = flow
            /\ ReportsIntensive(status) => d.intensive = TRUE
            /\ ~ReportsIntensive(status) =>
                  /\ d.intensive = FALSE /\ d.preset = DecodePresetMode(status)
                  /\ Shown(d, flow)
  BY ReadRoomData
<1> HIDE DEF d, conv
<1>3. /\ overlay' \in OverlayType /\ conf' \in ConfType
      /\ conf'.expected = conf.expected /\ conf'.recent = conf.recent
      /\ lastOn' \in [Fans -> OrNone(1 .. 100)]
      /\ conf'.open <=> conf.open /\ ~Confirmed(data', ok)
  BY <1>1, <1>2, FinishKeeps
<1>4. Types'
  <2>1. Airflows' = Airflows
    BY <1>1, Frozen
  <2>2. DataType(data)'
    BY <1>2, <2>1 DEF DataType
  <2>3. (conf \in ConfType)' /\ (overlay \in OverlayType)'
    BY <1>3, <2>1 DEF ConfType, OverlayType
  <2>4. fresh' \subseteq {"flow", "mode"}
    BY <1>1
  <2>5. current' \in BOOLEAN
    BY <1>1
  <2>6. max' \in MaxAirflows /\ readable' \in BOOLEAN /\ commands' \in Nat /\ changes' \in Nat
    BY <1>1 DEF Types
  <2> QED
    BY <1>2, <1>3, <2>2, <2>3, <2>4, <2>5, <2>6 DEF Types, ConfType, OverlayType
<1>5. Written(set)'
  BY <1>1
<1>6. UnitInv'
  <2>1. ModeUpdates(set)' = ModeUpdates(set)
    BY <1>1, UpdatesFrozen
  <2>2. Running(status, flow)'
    BY <1>1, RunningFrozen DEF Inv, UnitInv
  <2> QED
    BY <1>1, <2>1, <2>2 DEF Inv, UnitInv
<1>7. AskedInv'
  <2>1. AskedBase(asked, set)'
    BY <1>1, AskedBaseKept DEF Inv, AskedInv
  <2> QED
    BY <1>1, <2>1 DEF Inv, AskedInv
<1>8. FansInv'
  <2> DEFINE rb == data'.readback
  <2> SUFFICES ASSUME asked.fans
               PROVE  /\ asked.levels = conf.expected
                      /\ conf'.open \/ rb = None \/ LevelsReached(<<rb, rb>>, conf.expected)
    BY <1>1, <1>3 DEF FansInv
  <2>1. /\ asked.levels = conf.expected
        /\ conf.open \/ data.readback = None
           \/ LevelsReached(<<data.readback, data.readback>>, conf.expected)
    BY <1>1 DEF FansInv
  <2>2. Confirmed(data', ok) /\ d.mode \in {"manual", "off"} =>
          LevelsReached(<<rb, rb>>, conf.expected)
    BY <1>2 DEF Confirmed
  <2>3. d.intensive = TRUE => ~Confirmed(data', ok)
    BY <1>2 DEF Confirmed
  <2> HIDE DEF rb
  <2>4. CASE d.mode \in {"manual", "off"} /\ conf.open
    BY <1>3, <2>1, <2>2, <2>4
  <2>5. CASE rb = data.readback /\ ~conf.open
    BY <2>1, <2>5
  <2>6. CASE rb = None
    BY <2>1, <2>6
  <2>7. CASE d.intensive = TRUE /\ rb = data.readback
    BY <1>3, <2>1, <2>3, <2>7
  <2> QED
    BY <1>2, <2>4, <2>5, <2>6, <2>7 DEF rb
<1>9. flow \in Airflows \X Airflows /\ flow = <<flow[1], flow[2]>> /\ flow[1] \in Nat /\ flow[1] # None
  <2>1. flow \in Airflows \X Airflows
    BY DEF Inv, UnitInv, Running
  <2> QED
    BY <1>1, <2>1, AirflowType
\* An exact target carried along shows what the unit runs, once no command is recent.
<1>10. ASSUME ok, ~conf.recent, d.intensive = FALSE, d.mode = "manual", data'.readback # None
       PROVE  LevelsReached(flow, <<data'.readback, data'.readback>>)
  <2>1. Carries(d, conv) /\ data'.readback = data.readback
    BY <1>2, <1>10
  <2>2. ~ReportsIntensive(status) /\ d.flow = flow
    BY <1>2, <1>10
  <2>3. flow[1] = flow[2] /\ d.target \in Airflows /\ Abs(flow[1] - d.target) <= LEVEL_CONFIRM_TOLERANCE
    BY <1>2, <1>10, <2>2, SensorKeys DEF Shown
  <2>4. d.target \in Nat /\ d.target # None
    BY <1>1, <2>3, AirflowType
  <2>5. LevelsReached(d.flow, <<d.target, d.target>>)
    BY <1>9, <2>2, <2>3, <2>4, ReachedTarget
  <2> QED
    BY <1>10, <2>1, <2>2, <2>4, <2>5, CarriedNear
<1>11. Displayed'
  <2> SUFFICES ASSUME current', ~conf'.recent
               PROVE  /\ data'.intensive = ReportsIntensive(status)
                      /\ ~data'.intensive =>
                            /\ data'.preset = DecodePresetMode(status)
                            /\ LevelsReached(ReportedLevels(data', fresh'), flow)
    BY <1>1 DEF Displayed
  <2>1. ok /\ ~conf.recent
    BY <1>1, <1>3
  <2>2. CASE ReportsIntensive(status)
    BY <1>2, <2>1, <2>2
  <2>3. CASE ~ReportsIntensive(status)
    <3>1. data'.intensive = FALSE /\ data'.preset = DecodePresetMode(status) /\ data'.flow = flow
          /\ d.intensive = FALSE
      BY <1>2, <2>1, <2>3
    <3>2. Shown(data', flow)
      BY <1>2, <2>1, <2>3 DEF Shown
    <3>3. fresh' = {"flow", "mode"}
      BY <1>1, <2>1
    <3>4. data'.mode = "manual" /\ data'.readback # None =>
            LevelsReached(flow, <<data'.readback, data'.readback>>)
      BY <1>2, <1>10, <2>1, <3>1
    <3>5. LevelsReached(ReportedLevels(data', {"flow", "mode"}), flow)
      BY <1>1, <1>2, <1>9, <3>1, <3>2, <3>4, ShownLevels
    <3>6. ReportsIntensive(status) = FALSE
      BY <2>3 DEF ReportsIntensive
    <3> QED
      BY <3>1, <3>3, <3>5, <3>6
  <2> QED
    BY <2>2, <2>3
<1>12. AskedIsRead'
  <2> SUFFICES ASSUME current', asked.intensive # None
               PROVE  /\ data'.intensive = asked.intensive
                      /\ ~asked.intensive /\ asked.mode # None =>
                            /\ data'.mode = asked.mode
                            /\ data'.preset = asked.preset
                            /\ asked.levels # None =>
                                  /\ TargetLevels([data' EXCEPT !.readback = None], data'.flow) = asked.levels
                                  /\ asked.fans \/ ~conf.recent =>
                                        LevelsReached(ReportedLevels(data', fresh'), asked.levels)
    BY <1>1, <1>3 DEF AskedIsRead
  <2>1. ok /\ pending = None
    BY <1>1
  <2>2. /\ asked.intensive \in BOOLEAN
        /\ status = ModeUpdates(set).status
        /\ asked.intensive = TRUE => set.preset_mode = MODE_MANUAL
        /\ asked.intensive = FALSE => set.preset_mode = 0
    BY <2>1, AskedRunning
  <2>3. CASE asked.intensive = TRUE
    <3>1. status = <<3, 227, 227>>
      BY <1>1, <2>2, <2>3, UpdatesIntensive
    <3>2. ReportsIntensive(status)
      BY <3>1, Constants DEF ReportsIntensive
    <3> QED
      BY <1>2, <2>1, <2>3, <3>2
  <2>4. CASE asked.intensive = FALSE
    <3>1. ~ReportsIntensive(status)
      BY <1>1, <2>2, <2>4, BaseReported
    <3>2. d.intensive = FALSE /\ data'.intensive = FALSE /\ data'.flow = flow /\ fresh' = {"flow", "mode"}
      BY <1>1, <1>2, <2>1, <3>1
    <3>3. SUFFICES ASSUME asked.mode # None
                   PROVE  /\ data'.mode = asked.mode
                          /\ data'.preset = asked.preset
                          /\ asked.levels # None =>
                                /\ TargetLevels([data' EXCEPT !.readback = None], data'.flow) = asked.levels
                                /\ asked.fans \/ ~conf.recent =>
                                      LevelsReached(ReportedLevels(data', fresh'), asked.levels)
      BY <2>4, <3>2
    <3> DEFINE d0 == [data EXCEPT !.flow = flow]
    <3>4. d0.flow = flow /\ d = ApplyModeRead(d0, status)
      BY <1>1, <1>2, <2>1 DEF Types, DataType
    <3> HIDE DEF d0
    <3>5. /\ d.mode = asked.mode /\ d.preset = asked.preset
          /\ asked.levels # None => asked.levels \in Airflows \X Airflows /\ AskedShown(d, asked.levels)
      BY <2>1, <2>4, <3>3, <3>4, ReadsAsked
    <3>6. data'.mode = asked.mode /\ data'.preset = asked.preset
      BY <1>2, <3>5
    <3>7. SUFFICES ASSUME asked.levels # None
                   PROVE  /\ TargetLevels([data' EXCEPT !.readback = None], data'.flow) = asked.levels
                          /\ asked.fans \/ ~conf.recent =>
                                LevelsReached(ReportedLevels(data', fresh'), asked.levels)
      BY <3>6
    <3>8. asked.levels \in Airflows \X Airflows /\ AskedShown(d, asked.levels)
      BY <3>5, <3>7
    <3>9. TargetLevels([data' EXCEPT !.readback = None], data'.flow) = asked.levels
      <4> DEFINE e == [data' EXCEPT !.readback = None]
      <4>1. /\ e.readback = None /\ e.mode = d.mode /\ e.target = d.target /\ e.extract = d.extract
            /\ e.flow = d.flow
        BY <1>2 DEF DataType
      <4> HIDE DEF e
      <4>2. AskedShown(e, asked.levels)
        BY <3>8, <4>1 DEF AskedShown
      <4>3. TargetLevels(e, flow) = asked.levels
        BY <1>1, <1>9, <3>8, <4>1, <4>2, AskedLevels
      <4> QED
        BY <3>2, <4>3 DEF e
    <3>10. ASSUME asked.fans \/ ~conf.recent
           PROVE  LevelsReached(ReportedLevels(data', fresh'), asked.levels)
      <4>1. AskedShown(data', asked.levels) /\ data'.readback \in OrNone(Airflows)
        BY <1>2, <3>8 DEF AskedShown, DataType
      <4>2. ReportedLevels(data', fresh') = TargetLevels(data', flow)
        BY <3>2, <3>3, <3>6 DEF ReportedLevels, TargetsKnown
      <4>3. ASSUME data'.mode = "manual", data'.readback # None
            PROVE  LevelsReached(<<data'.readback, data'.readback>>, asked.levels)
        <5>1. d.mode = "manual" /\ d.target = asked.levels[1] /\ asked.levels[1] = asked.levels[2]
              /\ flow = asked.levels
          BY <1>2, <2>1, <3>8, <4>3 DEF AskedShown
        <5>2. asked.levels[1] \in Nat /\ asked.levels[2] \in Nat
          BY <1>1, <3>8, AirflowType
        <5>3. CASE ~conf.recent
          <6> DEFINE rb == data'.readback
          <6>1. LevelsReached(flow, <<rb, rb>>)
            BY <1>10, <2>1, <3>2, <4>3, <5>1, <5>3
          <6>2. rb \in Nat
            <7>1. rb \in OrNone(Airflows)
              BY <4>1
            <7> QED
              BY <1>1, <4>3, <7>1, AirflowType DEF OrNone
          <6>3. /\ Abs(asked.levels[1] - rb) <= LEVEL_CONFIRM_TOLERANCE
                /\ Abs(asked.levels[2] - rb) <= LEVEL_CONFIRM_TOLERANCE
            BY <5>1, <6>1 DEF LevelsReached
          <6>4. rb # None
            BY <4>3
          <6> HIDE DEF rb
          <6>5. \A a \in Nat, b \in Nat : Abs(a - b) = Abs(b - a)
            BY DEF Abs
          <6>6. LevelsReached(<<rb, rb>>, asked.levels)
            BY <5>2, <6>2, <6>3, <6>4, <6>5 DEF LevelsReached
          <6> QED
            BY <6>6 DEF rb
        <5>4. CASE conf.recent /\ asked.fans /\ ~conf.open
          <6>1. data'.readback = data.readback
            BY <1>2, <3>2, <4>3, <5>4
          <6>2. asked.levels = conf.expected
                /\ LevelsReached(<<data.readback, data.readback>>, conf.expected)
            BY <1>1, <4>3, <5>4, <6>1 DEF FansInv
          <6> QED
            BY <6>1, <6>2
        <5>5. CASE conf.recent /\ conf.open
          <6>1. data'.readback = SetTarget
            BY <1>2, <3>2, <4>3, <5>5
          <6>2. AskedBase(asked, set) /\ SetTarget = ScaleRawLevelToAirflow(set.current_level)
            BY <4>3, <6>1 DEF SetTarget, Inv, AskedInv
          <6>3. asked.mode = "manual"
            BY <3>6, <4>3
          <6>4. set.current_level = ScaleAirflowToRaw(asked.levels[1])
            BY <3>7, <6>2, <6>3, SensorKeys DEF AskedBase
          <6>5. asked.levels[1] \in 0 .. max
            BY <1>1, <3>8, AirflowType
          <6>6. SetTarget = asked.levels[1]
            BY <1>1, <6>2, <6>4, <6>5, LevelBack
          <6>7. \A a \in Nat : Abs(a - a) <= LEVEL_CONFIRM_TOLERANCE
            BY Constants DEF Abs
          <6>8. \A a \in Nat : \A p : a # None /\ p[1] = a /\ p[2] = a => LevelsReached(<<a, a>>, p)
            BY <6>7 DEF LevelsReached
          <6> QED
            BY <4>3, <5>1, <5>2, <6>1, <6>6, <6>8
        <5> QED
          BY <3>10, <5>3, <5>4, <5>5
      <4> QED
        BY <1>1, <1>9, <3>8, <4>1, <4>2, <4>3, AskedReached
    <3> QED
      BY <3>9, <3>10
  <2> QED
    BY <2>2, <2>3, <2>4
<1> QED
  BY <1>4, <1>5, <1>6, <1>7, <1>8, <1>11, <1>12 DEF Inv

-----------------------------------------------------------------------------
(* The theorems.                                                           *)

LEMMA NextInv ==
    ASSUME Inv, [Next]_vars
    PROVE  Inv'
<1>1. ASSUME NEW fan \in Fans, NEW p \in Percentages, SetPercentage(fan, p) PROVE Inv'
  BY <1>1, PercentagesAssumption, SetPercentageStep
<1>2. ASSUME NEW fan \in Fans, TurnOn(fan) PROVE Inv'
  BY <1>2, TurnOnStep
<1>3. ASSUME NEW option \in Options \cup {"inactive"}, SelectOperationMode(option) PROVE Inv'
  BY <1>3, SelectOperationModeStep
<1>4. ASSUME NEW preset \in QuickModes, SelectPreset(preset) PROVE Inv'
  BY <1>4, SelectPresetStep
<1>5. CASE ClearPreset
  BY <1>5, ClearPresetStep
<1>6. ASSUME NEW on \in BOOLEAN, SwitchIntensive(on) PROVE Inv'
  BY <1>6, SwitchIntensiveStep
<1>7. ASSUME NEW ok \in BOOLEAN, ReadRoom(ok) PROVE Inv'
  BY <1>7, ReadRoomStep
<1>8. ASSUME NEW o \in Overlays, OverlayExpires(o) PROVE Inv'
  BY <1>8, OverlayExpiresStep
<1>9. CASE CommandAges
  BY <1>9, CommandAgesStep
<1>10. CASE Settle
  BY <1>10, SettleStep
<1>11. CASE AppChange
  BY <1>11, AppChangeStep
<1>12. CASE Reboot
  BY <1>12, RebootStep
<1>13. CASE UNCHANGED vars
  <2>1. /\ max' = max /\ UNCHANGED <<set, readable, status, flow, pending, data, fresh, conf, converged,
                                     overlay, lastOn, commands, changes, asked, current>>
    BY <1>13 DEF vars, unitVars, clientVars, bounds
  <2>2. ModeUpdates(set)' = ModeUpdates(set)
    BY <2>1, UpdatesFrozen
  <2>3. Running(status, flow)'
    BY <2>1, RunningFrozen DEF Inv, UnitInv
  <2>4. UnitInv'
    BY <2>1, <2>2, <2>3 DEF Inv, UnitInv
  <2>5. AskedInv'
    <3>1. AskedBase(asked, set)'
      BY <2>1, AskedBaseKept DEF Inv, AskedInv
    <3> QED
      BY <2>1, <3>1 DEF Inv, AskedInv
  <2>6. Types'
    BY <2>1 DEF Inv, Types, DataType, Airflows
  <2>7. FansInv' /\ AskedIsRead' /\ Displayed'
    BY <2>1 DEF Inv, FansInv, AskedIsRead, Displayed, LevelsReached
  <2> QED
    BY <2>1, <2>4, <2>5, <2>6, <2>7 DEF Inv
<1> QED
  BY <1>1, <1>2, <1>3, <1>4, <1>5, <1>6, <1>7, <1>8, <1>9, <1>10, <1>11, <1>12, <1>13 DEF Next

\* The invariant that the other theorems rest on.
THEOREM InductiveInvariant == Spec => []Inv
BY InitInv, NextInv, PTL DEF Spec

LEMMA InvRuns ==
    ASSUME Inv
    PROVE  AskedIsRun
<1> SUFFICES ASSUME pending = None, asked.intensive # None PROVE AskedRuns(asked)
  BY DEF AskedIsRun
<1>1. max \in MaxAirflows /\ Written(set) /\ AskedBase(asked, set)
  BY DEF Inv, Types, AskedInv
<1>2. /\ asked.intensive \in BOOLEAN /\ status = ModeUpdates(set).status
      /\ ModeUpdates(set).flow # None => flow = ModeUpdates(set).flow
      /\ asked.intensive = TRUE => set.preset_mode = MODE_MANUAL
      /\ asked.intensive = FALSE => set.preset_mode = 0
  BY AskedRunning
<1>3. CASE asked.intensive = TRUE
  <2>1. status = <<3, 227, 227>>
    BY <1>1, <1>2, <1>3, UpdatesIntensive
  <2>2. QuickStatus("intensive").status = <<3, 227, 227>>
    BY PresetKeys, Constants DEF QuickStatus, Status
  <2> QED
    BY <1>3, <2>1, <2>2 DEF AskedRuns
<1>4. CASE asked.intensive = FALSE
  <2>1. ASSUME asked.preset # None PROVE status = QuickStatus(asked.preset).status
    <3>1. asked.preset \in QuickModes /\ set.mode = MODE_MANUAL
          /\ set.current_level = PRESET_MODE_TO_RAW_CODE[asked.preset]
      BY <1>1, <2>1 DEF AskedBase
    <3>2. set.current_level \in 228 .. 230
      <4>1. asked.preset \in {"low", "medium", "high"}
        BY <3>1, QuickModesAssumption
      <4> QED
        BY <3>1, <4>1, PresetKeys
    <3>3. status = <<3, set.current_level, set.current_level>>
      BY <1>1, <1>2, <1>4, <3>1, <3>2, UpdatesQuick
    <3> QED
      BY <3>1, <3>3, Constants DEF QuickStatus, Status
  <2>2. ASSUME asked.levels # None PROVE flow = asked.levels
    <3>1. asked.levels \in Airflows \X Airflows
      BY <1>1, <2>2 DEF AskedBase
    <3>2. /\ asked.levels = <<asked.levels[1], asked.levels[2]>>
          /\ asked.levels[1] \in 0 .. max /\ asked.levels[2] \in 0 .. max
      BY <1>1, <3>1, AirflowType
    <3>3. CASE asked.mode = "off" /\ asked.levels = <<0, 0>> /\ set.mode = MODE_OFF
      <4>1. ModeUpdates(set).flow = <<0, 0>>
        BY <1>1, <1>2, <1>4, <3>3, UpdatesOff
      <4> QED
        BY <1>2, <2>2, <3>3, <4>1
    <3>4. CASE /\ asked.mode = "manual" /\ asked.levels[1] = asked.levels[2]
               /\ set.mode = MODE_MANUAL /\ set.current_level = ScaleAirflowToRaw(asked.levels[1])
      <4> DEFINE a == ScaleRawLevelToAirflow(set.current_level)
      <4>1. set.current_level \in 0 .. 200 /\ a = asked.levels[1]
        BY <1>1, <3>2, <3>4, LevelBack
      <4>2. ModeUpdates(set).flow = <<a, a>>
        BY <1>1, <1>2, <1>4, <3>4, <4>1, UpdatesManual
      <4> HIDE DEF a
      <4>3. ModeUpdates(set).flow = asked.levels
        BY <3>2, <3>4, <4>1, <4>2
      <4> QED
        BY <1>2, <2>2, <4>3
    <3>5. CASE /\ asked.mode = "unbalanced" /\ set.mode = MODE_UNBALANCED
               /\ set.current_level = ScaleAirflowToRaw(asked.levels[1])
               /\ set.extract_target_level = ScaleAirflowToRaw(asked.levels[2])
      <4> DEFINE a == ScaleRawLevelToAirflow(set.current_level)
                 b == ScaleRawLevelToAirflow(set.extract_target_level)
      <4>1. a = asked.levels[1] /\ b = asked.levels[2]
        BY <1>1, <3>2, <3>5, LevelBack
      <4>2. ModeUpdates(set).flow = <<a, b>>
        BY <1>1, <1>2, <1>4, <3>5, UpdatesUnbalanced
      <4> HIDE DEF a, b
      <4>3. ModeUpdates(set).flow = asked.levels
        BY <3>2, <4>1, <4>2
      <4> QED
        BY <1>2, <2>2, <4>3
    <3> QED
      BY <1>1, <2>2, <3>3, <3>4, <3>5 DEF AskedBase
  <2>3. ASSUME asked.mode \in SensorModes PROVE status[1] = MODE_SENSOR_CONTROL
    <3>1. set.mode = MODE_SENSOR_CONTROL
      BY <1>1, <2>3, SensorKeys, NoneAssumption DEF AskedBase
    <3>2. status = <<2, SensorStatus(set.current_level), SensorStatus(set.current_level)>>
      BY <1>1, <1>2, <1>4, <3>1, UpdatesSensor
    <3> QED
      BY <3>2, Constants
  <2> QED
    BY <1>4, <2>1, <2>2, <2>3 DEF AskedRuns
<1> QED
  BY <1>2, <1>3, <1>4

\* Controls, unit and display agree, for every unit family of 97 to 100 m3/h, every
\* percentage, app level and sequence of commands, reads, app changes and reboots
\* (the decoding of apply_mode_read against mode_codec and the unit's registers).
THEOREM ControlsAgreeHolds == Spec => []ControlsAgree
<1>1. Inv => ControlsAgree
  <2> SUFFICES ASSUME Inv PROVE ControlsAgree
    OBVIOUS
  <2>1. TypeOK
    <3>1. set.current_level \in 0 .. 230 /\ set.extract_target_level \in 0 .. 200
      BY DEF Inv, Written, Registers
    <3>2. /\ data.target \in OrNone(Airflows) /\ data.extract \in OrNone(Airflows)
          /\ data.readback \in OrNone(Airflows) /\ data.mode \in OrNone(DirectModes \cup SensorModes)
      BY DEF Inv, Types, DataType, AllModes
    <3>3. /\ overlay.levels \in OrNone(Airflows \X Airflows) /\ overlay.preset \in OrNone(QuickModes)
          /\ lastOn \in [Fans -> OrNone(1 .. 100)] /\ conf.expected \in Airflows \X Airflows
      BY DEF Inv, Types
    <3> QED
      BY <3>1, <3>2, <3>3 DEF TypeOK
  <2>2. AskedIsRun
    BY InvRuns
  <2>3. DisplayCatchesUp
    <3> SUFFICES ASSUME current, ~conf.recent, \A o \in Overlays : overlay[o] = None
                 PROVE  /\ data.intensive = ReportsIntensive(status)
                        /\ ~data.intensive => /\ data.preset = DecodePresetMode(status)
                                              /\ LevelsReached(Levels, flow)
      BY DEF DisplayCatchesUp
    <3>1. overlay.levels = None
      BY DEF Overlays
    <3>2. Levels = ReportedLevels(data, fresh)
      BY <3>1 DEF Levels, EffectiveLevels
    <3> QED
      BY <3>2 DEF Inv, Displayed
  <2> QED
    BY <2>1, <2>2, <2>3 DEF ControlsAgree, Inv
<1> QED
  BY <1>1, InductiveInvariant, PTL

-----------------------------------------------------------------------------
(* Setting one fan.                                                        *)

\* The level the other fan is planned at is near the one it is shown at.
LEMMA PlannedNear ==
    ASSUME Types, NEW fan \in Fans, Opposite(Levels, fan) # None
    PROVE  /\ PlannedOther(fan) \in Nat /\ PlannedOther(fan) # None
           /\ Opposite(Levels, fan) \in Nat
           /\ Abs(PlannedOther(fan) - Opposite(Levels, fan)) <= 1
<1>1. max \in MaxAirflows
  BY DEF Types
<1>2. Opposite(Levels, fan) \in Airflows
  BY LevelsType DEF OrNone
<1>3. Opposite(Levels, fan) \in Nat /\ Opposite(Levels, fan) # None
  BY <1>1, <1>2, AirflowType
<1>4. CASE /\ Levels[1] # None /\ Levels[2] # None
           /\ Abs(Levels[1] - Levels[2]) <= LEVEL_CONFIRM_TOLERANCE
           /\ PlannedOther(fan) = Round(Levels[1] + Levels[2], 2)
  <2>1. Levels[1] \in Airflows /\ Levels[2] \in Airflows
    BY <1>4, LevelsType DEF OrNone
  <2>2. Levels[1] \in Nat /\ Levels[2] \in Nat
    BY <1>1, <2>1, AirflowType
  <2> DEFINE m == Round(Levels[1] + Levels[2], 2)
  <2>3. m \in Airflows
    BY <1>1, <2>1, MeanRange
  <2>4. m \in Nat /\ m # None
    BY <1>1, <2>3, AirflowType
  <2>5. 2 * m <= Levels[1] + Levels[2] + 1 /\ Levels[1] + Levels[2] <= 2 * m + 1
    BY <2>2, MeanNear
  <2>6. Opposite(Levels, fan) = Levels[1] \/ Opposite(Levels, fan) = Levels[2]
    BY DEF Opposite
  <2> HIDE DEF m
  <2>7. Levels[1] - Levels[2] <= 2 /\ Levels[2] - Levels[1] <= 2
    BY <1>4, <2>2, Constants DEF Abs
  <2>8. Abs(m - Levels[1]) <= 1 /\ Abs(m - Levels[2]) <= 1
    BY <2>2, <2>4, <2>5, <2>7 DEF Abs
  <2>9. PlannedOther(fan) = m
    BY <1>4 DEF m
  <2> QED
    BY <1>3, <2>4, <2>6, <2>8, <2>9
<1>5. CASE PlannedOther(fan) = Opposite(Levels, fan)
  BY <1>3, <1>5 DEF Abs
<1> QED
  BY <1>4, <1>5 DEF PlannedOther

LEMMA OppositeOfPair ==
    ASSUME NEW fan, NEW own, NEW other
    PROVE  Opposite(PairOf(own, other, fan), fan) = other /\ Opposite(<<own, own>>, fan) = own
BY DEF Opposite, PairOf

LEMMA OtherFanKept ==
    ASSUME Types, NEW fan \in Fans, NEW p \in 0 .. 100, SetPercentage(fan, p),
           Opposite(Levels, fan) # None, StartingMode # "off", p > 0 => StartingMode \notin SensorModes
    PROVE  Abs(Opposite(overlay'.levels, fan) - Opposite(Levels, fan)) <= LEVEL_CONFIRM_TOLERANCE
<1> DEFINE level == FanLevel(p)
           other == PlannedOther(fan)
           pair == PlanDirectionWrite(fan, level)
           opposite == Opposite(Levels, fan)
<1>1. max \in MaxAirflows
  BY DEF Types
<1>2. level \in Nat /\ (level > 0 => p > 0)
  <2>1. FanLevel(p) \in 0 .. max /\ (FanLevel(p) = 0 <=> p = 0) /\ max \in Nat
    BY <1>1, LevelOfPercentage, Family
  <2> QED
    BY <2>1
<1>3. other \in Nat /\ other # None /\ opposite \in Nat /\ Abs(other - opposite) <= 1
  BY PlannedNear
<1>4. overlay'.levels = pair
  <2>1. SetLevels(pair)
    BY DEF SetPercentage
  <2> HIDE DEF pair
  <2>2. \/ Shows([levels |-> pair, preset |-> None, intensive |-> None])
        \/ Shows([levels |-> pair, preset |-> None])
    BY <2>1 DEF SetLevels
  <2> QED
    BY <2>2 DEF Shows, Overlays
<1>5. \/ LevelsBalanced(level, other) /\ pair = <<level, level>>
      \/ pair = PairOf(level, other, fan)
  <2>1. ~(level > 0 /\ StartingMode \in SensorModes)
    BY <1>2
  <2> HIDE DEF level
  <2> QED
    BY <1>3, <2>1 DEF PlanDirectionWrite
<1> HIDE DEF level, other, pair, opposite
<1>6. CASE LevelsBalanced(level, other) /\ pair = <<level, level>>
  <2>1. Opposite(pair, fan) = level
    BY <1>6, OppositeOfPair
  <2>2. Abs(level - other) <= 1
    BY <1>2, <1>3, <1>6 DEF LevelsBalanced, Abs
  <2>3. Abs(level - opposite) <= 2
    BY <1>2, <1>3, <2>2 DEF Abs
  <2> QED
    BY <1>4, <2>1, <2>3, Constants DEF opposite
<1>7. CASE pair = PairOf(level, other, fan)
  <2>1. Opposite(pair, fan) = other
    BY <1>7 DEF Opposite, PairOf
  <2>2. Abs(other - opposite) <= 2
    BY <1>3 DEF Abs
  <2> QED
    BY <1>4, <2>1, <2>2, Constants DEF opposite
<1> QED
  BY <1>5, <1>6, <1>7

\* Whatever is pending or measured, setting one fan keeps the other one within the
\* tolerance of what it is shown at (plan_direction_write).
THEOREM OppositeKeptHolds == Spec => OppositeKept
<1>1. Inv /\ [Next]_vars =>
        [commands' > commands /\ overlay'.levels # None =>
         \A fan \in Fans, p \in Percentages :
           SetPercentage(fan, p) /\ Opposite(Levels, fan) # None
           /\ StartingMode # "off" /\ (p > 0 => StartingMode \notin SensorModes)
           => Abs(Opposite(overlay'.levels, fan) - Opposite(Levels, fan)) <= LEVEL_CONFIRM_TOLERANCE]_vars
  BY OtherFanKept, PercentagesAssumption DEF Inv
<1> QED
  BY <1>1, InductiveInvariant, PTL DEF Spec, OppositeKept

-----------------------------------------------------------------------------
(* The unit the write path counts on.                                      *)

\* The set registers without the override.
Plain(r) ==
    [mode |-> r.mode, current_level |-> r.current_level,
     extract_target_level |-> r.extract_target_level, preset_mode |-> 0, preset_value |-> 0]
Base(r) == ModeUpdates(Plain(r)).status
Bases == (1 .. 4) \X (0 .. 255) \X (0 .. 255)
Ending ==
    {<<MODE_OFF, 0, 0>>} \cup
    {<<MODE_MANUAL, c, c>> : c \in {PRESET_MODE_TO_RAW_CODE[q] : q \in QuickModes}}
Override == <<MODE_MANUAL, INTENSIVE, INTENSIVE>>

LEMMA PlainWritten ==
    ASSUME NEW r, Written(r)
    PROVE  Written(Plain(r)) /\ (r.preset_mode = 0 => Plain(r) = r)
<1>1. r = [mode |-> r.mode, current_level |-> r.current_level,
           extract_target_level |-> r.extract_target_level,
           preset_mode |-> r.preset_mode, preset_value |-> r.preset_value]
  BY DEF Written, Registers
<1>2. Written(Plain(r))
  BY Constants DEF Written, Registers, Plain
<1>3. r.preset_mode = 0 => r.preset_value = 0
  BY Constants DEF Written, Registers
<1> QED
  BY <1>1, <1>2, <1>3 DEF Plain

LEMMA Cleared ==
    ASSUME Written(set)
    PROVE  SetAfter(CLEAR_INTENSIVE) = Plain(set)
<1>1. DOMAIN set = {"mode", "current_level", "extract_target_level", "preset_mode", "preset_value"}
  BY DEF Written, Registers
<1> QED
  BY <1>1 DEF SetAfter, CLEAR_INTENSIVE, Plain

LEMMA OverrideIs ==
    ASSUME max \in MaxAirflows, NEW r, Written(r)
    PROVE  /\ (ModeUpdates(r) = QuickStatus("intensive")) <=> r.preset_mode = MODE_MANUAL
           /\ ModeUpdates(r).status = IF r.preset_mode = MODE_MANUAL THEN Override ELSE Base(r)
<1>1. QuickStatus("intensive") = [status |-> <<3, 227, 227>>,
                                  flow |-> <<QuickAirflow("intensive"), QuickAirflow("intensive")>>]
  BY PresetKeys, Constants DEF QuickStatus, Status
<1>2. CASE r.preset_mode = MODE_MANUAL
  BY <1>1, <1>2, UpdatesIntensive, Constants DEF Override
<1>3. CASE r.preset_mode = 0
  <2>1. ~ReportsIntensive(ModeUpdates(r).status)
    BY <1>3, BaseReported
  <2>2. ReportsIntensive(<<3, 227, 227>>)
    BY Constants DEF ReportsIntensive
  <2>3. ModeUpdates(r) # QuickStatus("intensive")
    BY <1>1, <2>1, <2>2
  <2>4. Plain(r) = r
    BY <1>3, PlainWritten
  <2> QED
    BY <1>3, <2>3, <2>4, Constants DEF Base
<1> QED
  BY <1>2, <1>3 DEF Written, Registers

LEMMA BaseIs ==
    ASSUME max \in MaxAirflows, NEW r, Written(r)
    PROVE  /\ Base(r) \in Bases
           /\ r.mode = MODE_OFF => Base(r) \in Ending
           /\ r.mode \in {MODE_SENSOR_CONTROL, MODE_UNBALANCED} => Base(r) \notin Ending
           /\ r.mode = MODE_MANUAL /\ r.current_level \in 0 .. 200 => Base(r) \notin Ending
           /\ r.mode = MODE_MANUAL =>
                 \A q \in QuickModes : r.current_level = PRESET_MODE_TO_RAW_CODE[q] => Base(r) \in Ending
<1> DEFINE s == Plain(r)
<1>1. /\ Written(s) /\ s.preset_mode = 0 /\ s.mode = r.mode /\ s.current_level = r.current_level
      /\ s.extract_target_level = r.extract_target_level
  BY PlainWritten DEF Plain
<1>2. Base(r) = ModeUpdates(s).status
  BY DEF Base
<1> HIDE DEF s
<1>3. r.current_level \in 0 .. 230 /\ r.extract_target_level \in 0 .. 200
  BY DEF Written, Registers
<1>4. \A q \in QuickModes : PRESET_MODE_TO_RAW_CODE[q] \in 228 .. 230
  BY PresetKeys, QuickModesAssumption
<1>5. CASE r.mode = MODE_OFF
  <2>1. Base(r) = <<1, 0, 0>>
    BY <1>1, <1>2, <1>5, UpdatesOff
  <2> QED
    BY <1>5, <2>1, Constants DEF Bases, Ending
<1>6. CASE r.mode = MODE_SENSOR_CONTROL /\ r.current_level \in {16, 112, 144}
  <2> DEFINE v == SensorStatus(r.current_level)
  <2>1. Base(r) = <<2, v, v>>
    BY <1>1, <1>2, <1>6, UpdatesSensor
  <2>2. v \in SensorCodes
    BY <1>6, SensorStatuses
  <2> HIDE DEF v
  <2> QED
    BY <1>6, <2>1, <2>2, Constants DEF Bases, Ending, SensorCodes
<1>7. CASE r.mode = MODE_UNBALANCED
  <2>1. Base(r) = <<4, r.current_level, r.extract_target_level>>
    BY <1>1, <1>2, <1>7, UpdatesUnbalanced
  <2> QED
    BY <1>3, <1>7, <2>1, Constants DEF Bases, Ending
<1>8. CASE r.mode = MODE_MANUAL /\ r.current_level \in 0 .. 200
  <2>1. Base(r) = <<3, r.current_level, r.current_level>>
    BY <1>1, <1>2, <1>8, UpdatesManual
  <2>2. Base(r) \notin Ending
    BY <1>4, <1>8, <2>1, Constants DEF Ending
  <2> QED
    BY <1>3, <1>4, <1>8, <2>1, <2>2, Constants DEF Bases
<1>9. CASE r.mode = MODE_MANUAL /\ r.current_level \in 228 .. 230
  <2>1. Base(r) = <<3, r.current_level, r.current_level>>
    BY <1>1, <1>2, <1>9, UpdatesQuick
  <2>2. \A q \in QuickModes : r.current_level = PRESET_MODE_TO_RAW_CODE[q] => Base(r) \in Ending
    BY <2>1, Constants DEF Ending
  <2>3. r.current_level \notin 0 .. 200
    BY <1>9
  <2> QED
    BY <1>3, <1>9, <2>1, <2>2, <2>3, Constants DEF Bases
<1> QED
  BY <1>1, <1>5, <1>6, <1>7, <1>8, <1>9, WrittenKinds, Constants

\* What the mapping makes of the set registers, now and after a step.
LEMMA WantedIs ==
    ASSUME max \in MaxAirflows, Written(set)
    PROVE  [base |-> ModeUpdates(SetAfter(CLEAR_INTENSIVE)).status,
            override |-> ModeUpdates(set) = QuickStatus("intensive")]
             = [base |-> Base(set), override |-> set.preset_mode = MODE_MANUAL]
<1>1. ModeUpdates(SetAfter(CLEAR_INTENSIVE)).status = Base(set)
  BY Cleared DEF Base
<1>2. (ModeUpdates(set) = QuickStatus("intensive")) = (set.preset_mode = MODE_MANUAL)
  BY OverrideIs
<1> QED
  BY <1>1, <1>2

LEMMA WantedNext ==
    ASSUME max \in MaxAirflows, max' = max, Written(set')
    PROVE  [base |-> ModeUpdates(SetAfter(CLEAR_INTENSIVE)).status,
            override |-> ModeUpdates(set) = QuickStatus("intensive")]'
             = [base |-> Base(set'), override |-> set'.preset_mode = MODE_MANUAL]
<1>1. SetAfter(CLEAR_INTENSIVE)' = Plain(set')
  <2>1. DOMAIN set' = {"mode", "current_level", "extract_target_level", "preset_mode", "preset_value"}
    BY DEF Written, Registers
  <2> QED
    BY <2>1 DEF SetAfter, CLEAR_INTENSIVE, Plain
<1>2. \A r : ModeUpdates(r)' = ModeUpdates(r)
  BY UpdatesFrozen
<1>3. ModeUpdates(SetAfter(CLEAR_INTENSIVE))' = ModeUpdates(Plain(set'))
  BY <1>1, <1>2
<1>4. ModeUpdates(set)' = ModeUpdates(set') /\ QuickStatus("intensive")' = QuickStatus("intensive")
  BY <1>2, Frozen
<1>5. (ModeUpdates(set') = QuickStatus("intensive")) = (set'.preset_mode = MODE_MANUAL)
  BY OverrideIs
<1> QED
  BY <1>3, <1>4, <1>5 DEF Base

\* Every command for the base setting sets it, and ends the override where it should.
LEMMA SetsBase ==
    ASSUME Inv, max' = max, Written(set'), NEW writes, Commit(writes),
           set'.preset_mode = MODE_MANUAL <=> set.preset_mode = MODE_MANUAL /\ Base(set') \notin Ending
    PROVE  Unit!SetBase
<1>1. max \in MaxAirflows /\ Written(set)
  BY DEF Inv, Types
<1> DEFINE w == [base |-> Base(set'), override |-> set'.preset_mode = MODE_MANUAL]
<1>2. [base |-> ModeUpdates(SetAfter(CLEAR_INTENSIVE)).status,
       override |-> ModeUpdates(set) = QuickStatus("intensive")]
        = [base |-> Base(set), override |-> set.preset_mode = MODE_MANUAL]
  BY <1>1, WantedIs
<1>3. [base |-> ModeUpdates(SetAfter(CLEAR_INTENSIVE)).status,
       override |-> ModeUpdates(set) = QuickStatus("intensive")]' = w
  BY <1>1, WantedNext
<1>4. w \in [base : Bases, override : BOOLEAN]
  BY <1>1, BaseIs
<1>5. w.override = ([base |-> Base(set), override |-> set.preset_mode = MODE_MANUAL].override
                    /\ w.base \notin Ending)
  OBVIOUS
<1>6. (pending # None)' = TRUE
  <2>1. pending' = ModeUpdates(set')
    BY DEF Commit
  <2> QED
    BY <1>1, <2>1, UpdatesAreSomething
<1>7. status' = status
  BY DEF Commit
<1> HIDE DEF w
<1> QED
  BY <1>2, <1>3, <1>4, <1>5, <1>6, <1>7 DEF Unit!SetBase, Unit!Settings, Bases, Ending

LEMMA UnitUnchanged ==
    ASSUME Inv, max' = max, set' = set, status' = status, pending' = pending
    PROVE  UNCHANGED Unit!vars
<1>1. max \in MaxAirflows /\ Written(set)
  BY DEF Inv, Types
<1>2. [base |-> ModeUpdates(SetAfter(CLEAR_INTENSIVE)).status,
       override |-> ModeUpdates(set) = QuickStatus("intensive")]
        = [base |-> Base(set), override |-> set.preset_mode = MODE_MANUAL]
  BY <1>1, WantedIs
<1>3. [base |-> ModeUpdates(SetAfter(CLEAR_INTENSIVE)).status,
       override |-> ModeUpdates(set) = QuickStatus("intensive")]'
        = [base |-> Base(set), override |-> set.preset_mode = MODE_MANUAL]
  BY <1>1, WantedNext
<1> QED
  BY <1>2, <1>3 DEF Unit!vars

LEMMA SetLevelsSetsBase ==
    ASSUME Inv, NEW pair \in Airflows \X Airflows, SetLevels(pair)
    PROVE  Unit!SetBase
<1>1. /\ max \in MaxAirflows /\ max' = max /\ Written(set) /\ Commit(LevelWrites(pair)) /\ Written(set')
  <2>1. Inv'
    BY SetLevelsStep
  <2> QED
    BY <2>1 DEF Inv, Types, Command, SetLevels
<1>2. pair[1] \in 0 .. max /\ pair[2] \in 0 .. max
  BY <1>1, AirflowType
<1>3. set'.preset_mode = MODE_MANUAL <=> set.preset_mode = MODE_MANUAL /\ Base(set') \notin Ending
  <2>1. CASE pair = <<0, 0>>
    <3>1. set'.mode = MODE_OFF /\ set'.preset_mode = 0
      BY <1>1, <2>1, SetsOff DEF LevelWrites
    <3> QED
      BY <1>1, <3>1, BaseIs, Constants
  <2>2. CASE pair # <<0, 0>> /\ pair[1] = pair[2]
    <3>1. /\ set'.mode = MODE_MANUAL /\ set'.preset_mode = set.preset_mode
          /\ set'.current_level = ScaleAirflowToRaw(pair[1])
      BY <1>1, <2>2, SetsManual DEF LevelWrites
    <3>2. set'.current_level \in 0 .. 200
      BY <1>1, <1>2, <3>1, LevelBack
    <3> QED
      BY <1>1, <3>1, <3>2, BaseIs
  <2>3. CASE pair # <<0, 0>> /\ pair[1] # pair[2]
    <3>1. set'.mode = MODE_UNBALANCED /\ set'.preset_mode = set.preset_mode
      BY <1>1, <2>3, SetsUnbalanced DEF LevelWrites
    <3> QED
      BY <1>1, <3>1, BaseIs
  <2> QED
    BY <2>1, <2>2, <2>3
<1> QED
  BY <1>1, <1>3, SetsBase

LEMMA SetPercentageSetsBase ==
    ASSUME Inv, NEW fan \in Fans, NEW p \in 0 .. 100, SetPercentage(fan, p)
    PROVE  Unit!SetBase
<1>1. Types /\ max \in MaxAirflows
  BY DEF Inv, Types
<1>2. FanLevel(p) \in Airflows
  BY <1>1, LevelOfPercentage, AirflowType
<1>3. PlanDirectionWrite(fan, FanLevel(p)) \in Airflows \X Airflows
  BY <1>1, <1>2, PlanType
<1> QED
  BY <1>3, SetLevelsSetsBase DEF SetPercentage

LEMMA SetOperationModeSetsBase ==
    ASSUME Inv, NEW mode \in {"manual", "unbalanced"} \cup SensorModes, SetOperationMode(mode)
    PROVE  Unit!SetBase
<1>1. /\ max \in MaxAirflows /\ max' = max /\ Written(set) /\ Written(set') /\ Types
      /\ Commit(OperatingModeWrites(mode, BalancedLevel, ExtractLevel))
  <2>1. Inv'
    BY SetOperationModeStep
  <2> QED
    BY <2>1 DEF Inv, Types, Command, SetOperationMode
<1>2. set'.preset_mode = MODE_MANUAL <=> set.preset_mode = MODE_MANUAL /\ Base(set') \notin Ending
  <2>1. CASE mode = "manual"
    <3>1. OperatingModeWrites(mode, BalancedLevel, ExtractLevel)
            = ManualWrites(ScaleAirflowToRaw(BalancedLevel))
      BY <2>1, SensorKeys DEF OperatingModeWrites
    <3>2. /\ set'.mode = MODE_MANUAL /\ set'.preset_mode = set.preset_mode
          /\ set'.current_level = ScaleAirflowToRaw(BalancedLevel)
      BY <1>1, <3>1, SetsManual
    <3>3. BalancedLevel # None
      BY <2>1 DEF SetOperationMode
    <3>4. BalancedLevel \in 0 .. max
      BY <1>1, <3>3, ModeLevelsType, AirflowType
    <3>5. set'.current_level \in 0 .. 200
      BY <1>1, <3>2, <3>4, LevelBack
    <3> QED
      BY <1>1, <3>2, <3>5, BaseIs
  <2>2. CASE mode = "unbalanced"
    <3>1. OperatingModeWrites(mode, BalancedLevel, ExtractLevel)
            = UnbalancedWrites(BalancedLevel, ExtractLevel)
      BY <2>2, SensorKeys DEF OperatingModeWrites
    <3>2. set'.mode = MODE_UNBALANCED /\ set'.preset_mode = set.preset_mode
      BY <1>1, <3>1, SetsUnbalanced
    <3> QED
      BY <1>1, <3>2, BaseIs
  <2>3. CASE mode \in SensorModes
    <3>1. mode \notin {"manual", "unbalanced"}
      BY <2>3, SensorKeys
    <3>2. OperatingModeWrites(mode, BalancedLevel, ExtractLevel)
            = [mode |-> MODE_SENSOR_CONTROL, current_level |-> SENSOR_MODE_TO_RAW_VALUE[mode]]
      BY <2>3, <3>1 DEF OperatingModeWrites
    <3>3. set'.mode = MODE_SENSOR_CONTROL /\ set'.preset_mode = set.preset_mode
      BY <1>1, <3>2, SetsSensor
    <3> QED
      BY <1>1, <3>3, BaseIs
  <2> QED
    BY <2>1, <2>2, <2>3
<1> QED
  BY <1>1, <1>2, SetsBase

LEMMA SelectPresetSetsBase ==
    ASSUME Inv, NEW preset \in QuickModes, SelectPreset(preset)
    PROVE  Unit!SetBase
<1>1. /\ max \in MaxAirflows /\ max' = max /\ Written(set) /\ Written(set')
      /\ Commit(PresetModeWrites(preset)) /\ preset \in {"low", "medium", "high"}
  <2>1. Inv'
    BY SelectPresetStep
  <2> QED
    BY <2>1, QuickModesAssumption DEF Inv, Types, Command, SelectPreset
<1>2. /\ set'.mode = MODE_MANUAL /\ set'.current_level = PRESET_MODE_TO_RAW_CODE[preset]
      /\ set'.preset_mode = 0
  BY <1>1, SetsQuick
<1>3. Base(set') \in Ending
  BY <1>1, <1>2, BaseIs
<1> QED
  BY <1>1, <1>2, <1>3, SetsBase, Constants

LEMMA SwitchIntensiveSwitches ==
    ASSUME Inv, NEW on \in BOOLEAN, SwitchIntensive(on)
    PROVE  Unit!SwitchOverride(on)
<1> DEFINE writes == IF on THEN PresetModeWrites("intensive") ELSE CLEAR_INTENSIVE
<1>1. /\ max \in MaxAirflows /\ max' = max /\ Written(set) /\ Written(set') /\ Commit(writes)
  <2>1. Inv'
    BY SwitchIntensiveStep
  <2> QED
    BY <2>1 DEF Inv, Types, Command, SwitchIntensive
<1>2. set' = [mode |-> set.mode, current_level |-> set.current_level,
              extract_target_level |-> set.extract_target_level,
              preset_mode |-> IF on THEN MODE_MANUAL ELSE 0,
              preset_value |-> IF on THEN INTENSIVE ELSE 0]
  BY <1>1, SetsIntensive
<1> HIDE DEF writes
<1>3. Plain(set') = Plain(set) /\ (set'.preset_mode = MODE_MANUAL <=> on)
  BY <1>2, Constants DEF Plain
<1>4. Base(set') = Base(set)
  BY <1>3 DEF Base
<1>5. [base |-> ModeUpdates(SetAfter(CLEAR_INTENSIVE)).status,
       override |-> ModeUpdates(set) = QuickStatus("intensive")]
        = [base |-> Base(set), override |-> set.preset_mode = MODE_MANUAL]
  BY <1>1, WantedIs
<1>6. [base |-> ModeUpdates(SetAfter(CLEAR_INTENSIVE)).status,
       override |-> ModeUpdates(set) = QuickStatus("intensive")]' = [base |-> Base(set), override |-> on]
  <2>1. (set'.preset_mode = MODE_MANUAL) = on
    BY <1>3
  <2>2. [base |-> Base(set'), override |-> set'.preset_mode = MODE_MANUAL]
          = [base |-> Base(set), override |-> on]
    BY <1>4, <2>1
  <2> QED
    BY <1>1, <2>2, WantedNext
<1>7. [[base |-> Base(set), override |-> set.preset_mode = MODE_MANUAL] EXCEPT !.override = on]
        = [base |-> Base(set), override |-> on]
  OBVIOUS
<1>8. (pending # None)' = TRUE /\ status' = status
  <2>1. pending' = ModeUpdates(set') /\ status' = status
    BY <1>1 DEF Commit
  <2> QED
    BY <1>1, <2>1, UpdatesAreSomething
<1> QED
  BY <1>5, <1>6, <1>7, <1>8 DEF Unit!SwitchOverride

LEMMA TakeoverTakesOver ==
    ASSUME Inv, max' = max, set' = set, pending # None, TakesOver(pending)
    PROVE  Unit!TakesOver
<1>1. max \in MaxAirflows /\ Written(set) /\ pending = ModeUpdates(set)
  BY DEF Inv, Types, UnitInv
<1>2. status' = ModeUpdates(set).status /\ pending' = None
  BY <1>1 DEF TakesOver
<1>3. status' = IF set.preset_mode = MODE_MANUAL THEN Override ELSE Base(set)
  BY <1>1, <1>2, OverrideIs
<1>4. [base |-> ModeUpdates(SetAfter(CLEAR_INTENSIVE)).status,
       override |-> ModeUpdates(set) = QuickStatus("intensive")]
        = [base |-> Base(set), override |-> set.preset_mode = MODE_MANUAL]
  BY <1>1, WantedIs
<1>5. [base |-> ModeUpdates(SetAfter(CLEAR_INTENSIVE)).status,
       override |-> ModeUpdates(set) = QuickStatus("intensive")]'
        = [base |-> Base(set), override |-> set.preset_mode = MODE_MANUAL]
  BY <1>1, WantedNext
<1> QED
  BY <1>2, <1>3, <1>4, <1>5 DEF Unit!TakesOver, Override

LEMMA AppChangeChanges ==
    ASSUME Inv, AppChange
    PROVE  Unit!AppChange
<1>1. max \in MaxAirflows /\ Written(set) /\ max' = max /\ set' = set /\ pending' = None
  BY DEF Inv, Types, AppChange, TakesOver
<1>2. [base |-> ModeUpdates(SetAfter(CLEAR_INTENSIVE)).status,
       override |-> ModeUpdates(set) = QuickStatus("intensive")]
        = [base |-> Base(set), override |-> set.preset_mode = MODE_MANUAL]
  BY <1>1, WantedIs
<1>3. [base |-> ModeUpdates(SetAfter(CLEAR_INTENSIVE)).status,
       override |-> ModeUpdates(set) = QuickStatus("intensive")]'
        = [base |-> Base(set), override |-> set.preset_mode = MODE_MANUAL]
  BY <1>1, WantedNext
<1> QED
  BY <1>1, <1>2, <1>3 DEF Unit!AppChange

LEMMA StepsOfTheUnit ==
    ASSUME Inv, [Next]_vars
    PROVE  [Unit!Next]_(Unit!vars)
<1> SUFFICES Unit!Next \/ UNCHANGED Unit!vars
  OBVIOUS
<1>1. ASSUME NEW fan \in Fans, NEW p \in Percentages, SetPercentage(fan, p) PROVE Unit!Next
  BY <1>1, PercentagesAssumption, SetPercentageSetsBase DEF Unit!Next
<1>2. ASSUME NEW fan \in Fans, TurnOn(fan) PROVE Unit!Next
  <2>1. (IF lastOn[fan] = None THEN DEFAULT_TURN_ON_PERCENTAGE ELSE lastOn[fan]) \in 0 .. 100
    BY DEF Inv, Types, OrNone, DEFAULT_TURN_ON_PERCENTAGE
  <2> QED
    BY <1>2, <2>1, SetPercentageSetsBase DEF TurnOn, Unit!Next
<1>3. ASSUME NEW option \in Options \cup {"inactive"}, SelectOperationMode(option) PROVE Unit!Next
  <2>1. (IF option = "inactive" THEN "manual" ELSE option) \in {"manual", "unbalanced"} \cup SensorModes
    BY OptionsAssumption
  <2> QED
    BY <1>3, <2>1, SetOperationModeSetsBase DEF SelectOperationMode, Unit!Next
<1>4. ASSUME NEW preset \in QuickModes, SelectPreset(preset) PROVE Unit!Next
  BY <1>4, SelectPresetSetsBase DEF Unit!Next
<1>5. CASE ClearPreset
  <2>1. PICK mode \in {"manual", "unbalanced"} : SetOperationMode(mode)
    BY <1>5 DEF ClearPreset
  <2> QED
    BY <2>1, SetOperationModeSetsBase DEF Unit!Next
<1>6. ASSUME NEW on \in BOOLEAN, SwitchIntensive(on) PROVE Unit!Next
  BY <1>6, SwitchIntensiveSwitches DEF Unit!Next
<1>7. ASSUME NEW ok \in BOOLEAN, ReadRoom(ok) PROVE UNCHANGED Unit!vars
  <2>1. max' = max /\ set' = set /\ status' = status /\ pending' = pending
    BY <1>7 DEF ReadRoom, unitVars
  <2> QED
    BY <2>1, UnitUnchanged
<1>8. ASSUME NEW o \in Overlays, OverlayExpires(o) PROVE UNCHANGED Unit!vars
  <2>1. max' = max /\ set' = set /\ status' = status /\ pending' = pending
    BY <1>8 DEF OverlayExpires, unitVars
  <2> QED
    BY <2>1, UnitUnchanged
<1>9. CASE CommandAges
  <2>1. max' = max /\ set' = set /\ status' = status /\ pending' = pending
    BY <1>9 DEF CommandAges, unitVars
  <2> QED
    BY <2>1, UnitUnchanged
<1>10. CASE Settle
  BY <1>10, TakeoverTakesOver DEF Settle, Unit!Next
<1>11. CASE AppChange
  BY <1>11, AppChangeChanges DEF Unit!Next
<1>12. CASE Reboot
  <2>1. CASE pending # None
    BY <1>12, <2>1, TakeoverTakesOver DEF Reboot, Unit!Next
  <2>2. CASE pending = None
    <3>1. max' = max /\ set' = set /\ status' = status /\ pending' = pending
      BY <1>12, <2>2 DEF Reboot
    <3> QED
      BY <3>1, UnitUnchanged
  <2> QED
    BY <2>1, <2>2
<1>13. CASE UNCHANGED vars
  <2>1. max' = max /\ set' = set /\ status' = status /\ pending' = pending
    BY <1>13 DEF vars, unitVars
  <2> QED
    BY <2>1, UnitUnchanged
<1> QED
  BY <1>1, <1>2, <1>3, <1>4, <1>5, <1>6, <1>7, <1>8, <1>9, <1>10, <1>11, <1>12, <1>13 DEF Next

\* The register writes of every command make the unit behave as WritePath has it,
\* for every unit family and every sequence of steps (mode_codec and the unit).
THEOREM ImplementsUnitHolds == Spec => ImplementsUnit
<1>1. Init => Unit!Init
  <2> SUFFICES ASSUME Init PROVE Unit!Init
    OBVIOUS
  <2>1. Inv
    BY InitInv
  <2>2. max \in MaxAirflows /\ Written(set)
    BY <2>1 DEF Inv, Types
  <2>3. [base |-> ModeUpdates(SetAfter(CLEAR_INTENSIVE)).status,
         override |-> ModeUpdates(set) = QuickStatus("intensive")]
          = [base |-> Base(set), override |-> set.preset_mode = MODE_MANUAL]
    BY <2>2, WantedIs
  <2>4. [base |-> Base(set), override |-> set.preset_mode = MODE_MANUAL] \in [base : Bases, override : BOOLEAN]
    BY <2>2, BaseIs
  <2>5. (pending # None) = FALSE
    BY DEF Init
  <2> QED
    BY <2>3, <2>4, <2>5 DEF Unit!Init, Unit!Settings, Bases
<1>2. Inv /\ [Next]_vars => [Unit!Next]_(Unit!vars)
  BY StepsOfTheUnit
<1> QED
  BY <1>1, <1>2, InductiveInvariant, PTL DEF Spec, ImplementsUnit, Unit!Spec
=============================================================================
