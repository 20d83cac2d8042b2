------------------------ MODULE ConfigMigrationProofs ------------------------
(***************************************************************************)
(* What the migrated configuration keeps of the operator's, for any set of *)
(* settings and values, packaged configuration and log levels.             *)
(***************************************************************************)
EXTENDS ConfigMigration, TLAPS

(***************************************************************************)
(* The inductive invariant                                                 *)
(***************************************************************************)
V3Read == [set |-> [s \in Carried |-> Merged(s)], logger |-> logger]

\* What holds of a configuration once it is migrated.
SettingsKept(config) ==
    /\ \A s \in Carried :
           config.set[s] = IF Truthy(Merged(s)) THEN Merged(s) ELSE PackagedConfig.set[s]
    /\ \A s \in Filled : config.set[s] # "absent"

LogsKept(config) ==
    logger # None =>
        \A level \in {logger.fileLogLevel, logger.consoleLogLevel} \ {Unknown} :
            level <= config.logLevel

Inputs ==
    /\ dataDirConfig \in [Carried -> NodeValues]
    /\ customConfig \in [Carried -> UserValues]
    /\ logger \in Loggers /\ height \in Heights

\* What is known at each step of MigrateConfig.
Stages ==
    /\ pc \in {"backup", "migrate", "validate", "write", "done"} => configV3 = V3Read
    /\ pc \in {"migrate", "validate", "write", "done"} => backup = configV3
    /\ pc = "migrate" => configV4 = PackagedConfig
    /\ pc \in {"get", "backup"} => configV4 = PackagedConfig
    /\ pc \in {"validate", "write", "done"} =>
           /\ SettingsKept(configV4) /\ LogsKept(configV4)
           /\ configV4.minimumCertifyHeight = CertifyHeight
    /\ pc \in {"write", "done"} => IsValid(configV4)

\* The file is the migrated configuration, or a part of one, and is written last.
WrittenLast ==
    /\ Whole => pc = "done" /\ written = configV4
    /\ written # None => pc \in {"done", "failed"} /\ backup = configV3

Inv == TypeOK /\ Inputs /\ Stages /\ WrittenLast

(***************************************************************************)
(* Lemmas                                                                  *)
(***************************************************************************)
\* The larger of two numbers.
LEMMA MaxOfTwo ==
    ASSUME NEW a \in Int, NEW b \in Int
    PROVE  Max({a, b}) \in {a, b} /\ a <= Max({a, b}) /\ b <= Max({a, b})
<1>1. \E x \in {a, b} : \A y \in {a, b} : x >= y
  <2>1. CASE a >= b
    BY <2>1
  <2>2. CASE b >= a
    BY <2>2
  <2> QED
    BY <2>1, <2>2
<1> QED
  BY <1>1 DEF Max

\* The one level of v4 is a known one, and covers both of v3.
LEMMA LogLevelCovers ==
    ASSUME NEW l \in Loggers, l # None
    PROVE  /\ getLogLevel(l) \in FATAL..TRACE
           /\ \A level \in {l.fileLogLevel, l.consoleLogLevel} \ {Unknown} :
                  level <= getLogLevel(l)
<1> DEFINE f == Priority(l.fileLogLevel)
           c == Priority(l.consoleLogLevel)
<1>1. l.fileLogLevel \in 0..6 /\ l.consoleLogLevel \in 0..6
  BY ParametersAssumption DEF Loggers
<1>2. f \in 0..5 /\ c \in 0..5
  BY <1>1 DEF Priority, INFO, Unknown
<1>3. getLogLevel(l) = Max({f, c})
  BY DEF getLogLevel
<1>4. Max({f, c}) \in {f, c} /\ f <= Max({f, c}) /\ c <= Max({f, c})
  <2> HIDE DEF f, c
  <2>1. f \in Int /\ c \in Int
    BY <1>2
  <2> QED
    BY <2>1, MaxOfTwo
<1>5. \A level \in {l.fileLogLevel, l.consoleLogLevel} \ {Unknown} : level \in {f, c}
  BY DEF Priority
<1> QED
  BY <1>2, <1>3, <1>4, <1>5 DEF FATAL, TRACE

\* The only multiple of b from 0 to b - 1 is 0.
LEMMA Multiple ==
    ASSUME NEW b \in Nat \ {0}, NEW k \in Int, 0 <= b * k, b * k < b
    PROVE  k = 0
<1>1. CASE k >= 1
  <2>1. b * k >= b * 1
    BY <1>1
  <2> QED BY <2>1
<1>2. CASE k <= 0 - 1
  <2>1. b * k <= b * (0 - 1)
    BY <1>2
  <2> QED BY <2>1
<1> QED BY <1>1, <1>2

\* Adding a multiple of b keeps the remainder.
LEMMA AddMultiple ==
    ASSUME NEW a \in Int, NEW m \in Int, NEW b \in Nat \ {0}
    PROVE  /\ (a + m * b) % b = a % b
           /\ (a + m * b) \div b = (a \div b) + m
<1> DEFINE c == a + m * b
<1>1. c \in Int
  OBVIOUS
<1>2. a = b * (a \div b) + (a % b) /\ a \div b \in Int /\ a % b \in 0..(b - 1)
  OBVIOUS
<1>3. c = b * (c \div b) + (c % b) /\ c \div b \in Int /\ c % b \in 0..(b - 1)
  <2> HIDE DEF c
  <2> QED BY <1>1
<1> DEFINE q == a \div b
           r == a % b
           s == c \div b
           t == c % b
<1>4. c = a + m * b
  OBVIOUS
<1> HIDE DEF c, q, r, s, t
<1>5. /\ a = b * q + r /\ q \in Int /\ r \in 0..(b - 1)
      /\ c = b * s + t /\ s \in Int /\ t \in 0..(b - 1)
  BY <1>2, <1>3 DEF q, r, s, t
<1>6. b * (s - q - m) = r - t
  <2>1. b * (s - q - m) = b * s - b * q - b * m
    BY <1>5
  <2> QED BY <1>4, <1>5, <2>1
<1>7. b * (q + m - s) = t - r
  <2>1. b * (q + m - s) = b * q + b * m - b * s
    BY <1>5
  <2> QED BY <1>4, <1>5, <2>1
<1>8. s = q + m
  <2>1. CASE t >= r
    <3>1. 0 <= b * (q + m - s) /\ b * (q + m - s) < b /\ q + m - s \in Int
      BY <1>5, <1>7, <2>1
    <3>2. q + m - s = 0
      BY <3>1, Multiple
    <3> QED BY <1>5, <3>2
  <2>2. CASE t <= r
    <3>1. 0 <= b * (s - q - m) /\ b * (s - q - m) < b /\ s - q - m \in Int
      BY <1>5, <1>6, <2>2
    <3>2. s - q - m = 0
      BY <3>1, Multiple
    <3> QED BY <1>5, <3>2
  <2> QED BY <1>5, <2>1, <2>2
<1>9. t = r
  <2>1. q + m - s = 0
    BY <1>5, <1>8
  <2> QED BY <1>5, <1>7, <2>1
<1> QED BY <1>8, <1>9 DEF c, q, r, s, t

\* The packaged configuration is one of v4.
LEMMA PackagedTyped == PackagedConfig \in V4Config
  BY DEF PackagedConfig, V4Config, V4Values, V3Values, NodeValues, UserValues, FATAL, TRACE, INFO

\* A round has a block at least.
LEMMA RoundLengthTyped == RoundLength \in Nat \ {0}
  BY ParametersAssumption DEF RoundLength

\* Heights stay numbers.
LEMMA CertifyHeightTyped == height \in Heights => CertifyHeight \in Nat
<1> SUFFICES ASSUME height \in Heights PROVE CertifyHeight \in Nat
  OBVIOUS
<1>1. height \in Nat
  BY ParametersAssumption
<1>2. POS_INIT_ROUNDS + NUMBER_ACTIVE_VALIDATORS - 1 \in Nat
  BY ParametersAssumption
<1>3. RoundLength \in Nat
  BY RoundLengthTyped
<1>4. \A a, b \in Nat : a * b \in Nat
  OBVIOUS
<1>5. (POS_INIT_ROUNDS + NUMBER_ACTIVE_VALIDATORS - 1) * RoundLength \in Nat
  BY <1>2, <1>3, <1>4
<1> QED
  BY <1>1, <1>5 DEF CertifyHeight

\* The merged values are v3 values.
LEMMA MergedTyped == Inputs => V3Read \in V3Config
  BY DEF Inputs, V3Read, Merged, V3Config, V3Values

\* The invariant holds before the migration.
LEMMA InitInv == Init => Inv
  BY PackagedTyped
  DEF Init, Inv, TypeOK, Inputs, Stages, WrittenLast, Whole

\* Each step keeps the invariant.
LEMMA StepInv == ASSUME Inv, Next PROVE Inv'
<1> USE DEF Inv, TypeOK, Inputs, Stages, WrittenLast, Whole, input
<1>1. CASE GetConfig
  BY <1>1, MergedTyped DEF GetConfig, V3Read, Merged
<1>2. CASE CreateBackup
  BY <1>2 DEF CreateBackup, V3Read, Merged
<1>3. CASE MigrateUserConfig
  <2>1. UNCHANGED <<input, configV3, backup, written>> /\ pc' = "validate"
    BY <1>3 DEF MigrateUserConfig
  <2>2. configV3 = V3Read /\ configV4 = PackagedConfig /\ backup = configV3
    BY <1>3 DEF MigrateUserConfig
  <2>3. V3Read' = V3Read /\ \A s \in Carried : Merged(s)' = Merged(s)
    BY <2>1 DEF V3Read, Merged
  <2>4. configV4' =
            [set |-> [s \in Settings |-> MigratedSetting(s)],
             logLevel |-> IF configV3.logger = None THEN configV4.logLevel
                          ELSE getLogLevel(configV3.logger),
             minimumCertifyHeight |-> CertifyHeight]
    BY <1>3 DEF MigrateUserConfig
  <2>5. configV3.logger = logger
    BY <2>2 DEF V3Read
  <2>6. configV4' \in V4Config
    <3>1. \A s \in Settings : MigratedSetting(s) \in V4Values
      BY <2>2, PackagedTyped, MergedTyped
      DEF MigratedSetting, Truthy, V4Config, V3Config, V4Values, V3Values
    <3>2. configV4'.logLevel \in FATAL..TRACE
      BY <2>2, <2>4, <2>5, LogLevelCovers, PackagedTyped DEF V4Config
    <3>3. CertifyHeight \in Nat
      BY CertifyHeightTyped
    <3> QED
      BY <2>4, <3>1, <3>2, <3>3 DEF V4Config
  <2>7. SettingsKept(configV4)'
    <3>1. \A s \in Carried : configV4'.set[s] =
              IF Truthy(Merged(s)) THEN Merged(s) ELSE PackagedConfig.set[s]
      BY <2>2, <2>4, ParametersAssumption DEF MigratedSetting, V3Read, Settings
    <3>2. \A s \in Filled : configV4'.set[s] # "absent"
      BY <2>2, <2>4, ParametersAssumption DEF MigratedSetting, V3Read, Settings
    <3> QED
      BY <2>3, <3>1, <3>2 DEF SettingsKept, Truthy
  <2>8. LogsKept(configV4)'
    BY <2>1, <2>4, <2>5, LogLevelCovers DEF LogsKept
  <2>9. TypeOK' /\ Inputs'
    BY <2>1, <2>6
  <2>10. Stages'
    <3>1. (configV4.minimumCertifyHeight = CertifyHeight)'
      BY <2>1, <2>4 DEF CertifyHeight, RoundLength
    <3> QED
      BY <2>1, <2>2, <2>3, <2>7, <2>8, <3>1
  <2>11. WrittenLast'
    BY <2>1, <1>3 DEF MigrateUserConfig
  <2> QED
    BY <2>9, <2>10, <2>11
<1>4. CASE ValidateConfig
  BY <1>4 DEF ValidateConfig, AfterValidation, V3Read, Merged, SettingsKept, LogsKept,
     IsValid, CertifyHeight
<1>5. CASE WriteConfig
  BY <1>5 DEF WriteConfig, V3Read, Merged, SettingsKept, LogsKept, IsValid, CertifyHeight
<1> QED
  BY <1>1, <1>2, <1>3, <1>4, <1>5 DEF Next

(***************************************************************************)
(* The theorems                                                            *)
(***************************************************************************)
\* The invariant is inductive.
THEOREM Invariance == Spec => []Inv
<1>1. Inv /\ [Next]_vars => Inv'
  <2> SUFFICES ASSUME Inv, UNCHANGED vars PROVE Inv'
    BY StepInv
  <2> QED
    BY DEF vars, input, Inv, TypeOK, Inputs, Stages, WrittenLast, Whole, V3Read, Merged,
       SettingsKept, LogsKept, IsValid, Truthy, CertifyHeight
<1> QED
  BY <1>1, InitInv, PTL DEF Spec

\* Every variable keeps its type, the one log level of v4 included.
THEOREM TypeCorrect == Spec => []TypeOK
  BY Invariance, PTL DEF Inv

\* The v4 node gets the operator's settings, or the packaged ones.
THEOREM SettingsAreOperators == Spec => []OperatorsSettings
<1>1. Inv => OperatorsSettings
  <2> SUFFICES ASSUME Inv, Whole PROVE OperatorsSettings
    BY DEF OperatorsSettings
  <2>1. SettingsKept(written)
    BY DEF Inv, WrittenLast, Stages
  <2>2. ASSUME NEW s \in Carried, customConfig[s] = "user"
        PROVE  written.set[s] = "user"
    BY <2>1, <2>2 DEF SettingsKept, Merged, Truthy
  <2>3. ASSUME NEW s \in Carried, customConfig[s] = "absent", dataDirConfig[s] = "node"
        PROVE  written.set[s] = "node"
    BY <2>1, <2>3 DEF SettingsKept, Merged, Truthy
  <2>4. ASSUME NEW s \in Carried, ~Told(s)
        PROVE  written.set[s] = PackagedConfig.set[s]
    BY <2>1, <2>4 DEF SettingsKept, Merged, Truthy, Told
  <2>5. \A s \in Filled : written.set[s] # "absent"
    BY <2>1 DEF SettingsKept
  <2> QED
    BY <2>2, <2>3, <2>4, <2>5 DEF OperatorsSettings
<1> QED
  BY <1>1, Invariance, PTL

\* A configuration is written only when v4 accepts it, and v3's is backed up
\* before, also when the write fails on its way.
THEOREM ValidWhenWritten == Spec => []WrittenValidAndBackedUp
<1>1. Inv => WrittenValidAndBackedUp
  BY DEF Inv, WrittenLast, Stages, WrittenValidAndBackedUp
<1> QED
  BY <1>1, Invariance, PTL

\* No log of v3 is missing in v4.
THEOREM LogsAreKept == Spec => []NoLogLost
<1>1. Inv => NoLogLost
  BY DEF Inv, WrittenLast, Stages, LogsKept, NoLogLost
<1> QED
  BY <1>1, Invariance, PTL

\* For any number of rounds and validators, certificates start at the first
\* height of a round counted from the genesis block, and not before the initial
\* rounds and one for each active validator but one have passed.
THEOREM CertifiedFromRoundStart == Spec => []CertifyAtRoundStart
<1>1. Inv => CertifyAtRoundStart
  <2> SUFFICES ASSUME Inv, Whole PROVE CertifyAtRoundStart
    BY DEF CertifyAtRoundStart
  <2> DEFINE rounds == POS_INIT_ROUNDS + NUMBER_ACTIVE_VALIDATORS - 1
             h == written.minimumCertifyHeight
  <2>1. h = height + 1 + rounds * RoundLength
    BY DEF Inv, WrittenLast, Stages, CertifyHeight
  <2>2. height \in Nat /\ height % RoundLength = 0
    BY ParametersAssumption DEF Inv, Inputs
  <2>3. rounds \in Nat
    BY ParametersAssumption
  <2>4. RoundLength \in Nat \ {0}
    BY RoundLengthTyped
  <2> HIDE DEF rounds, h
  <2>5. h - 1 = height + rounds * RoundLength /\ h - (height + 1) = 0 + rounds * RoundLength
    <3> DEFINE p == rounds * RoundLength
    <3>1. p \in Int
      BY <2>3, <2>4
    <3> HIDE DEF p
    <3>2. h = height + 1 + p
      BY <2>1 DEF p
    <3>3. h - 1 = height + p /\ h - (height + 1) = 0 + p
      BY <2>2, <3>1, <3>2
    <3> QED
      BY <3>3 DEF p
  <2>6. (h - 1) % RoundLength = 0
    <3>1. height \in Int /\ rounds \in Int
      BY <2>2, <2>3
    <3>2. (height + rounds * RoundLength) % RoundLength = height % RoundLength
      BY <2>4, <3>1, AddMultiple, Zenon
    <3> QED
      BY <2>2, <2>5, <3>2, Zenon
  <2>7. (h - (height + 1)) \div RoundLength = rounds
    <3>1. 0 \div RoundLength = 0
      BY <2>4
    <3>2. (0 + rounds * RoundLength) \div RoundLength = (0 \div RoundLength) + rounds
      <4>1. 0 \in Int /\ rounds \in Int
        BY <2>3
      <4> QED
        BY <2>4, <4>1, AddMultiple, Zenon
    <3> QED
      BY <2>3, <2>5, <3>1, <3>2
  <2> QED
    BY <2>3, <2>6, <2>7 DEF CertifyAtRoundStart, h, rounds
<1> QED
  BY <1>1, Invariance, PTL
=============================================================================
