--------------------------- MODULE ConfigMigration ---------------------------
(***************************************************************************)
(* What --auto-migrate-config does inside LiskMigrator's MigrateConfig:    *)
(* getConfig, createBackup, migrateUserConfig, validateConfig, writeConfig *)
(* (src/utils/config.ts, src/index.ts).  The v3 configuration is that of   *)
(* the data directory under the operator's own file; the packaged v4       *)
(* configuration is changed in place, one setting after the other.         *)
(*                                                                         *)
(* A value of a setting is where it comes from, and whether JavaScript     *)
(* takes it for true and the v4 schema for valid.                          *)
(***************************************************************************)
EXTENDS Integers, FiniteSetsExt

CONSTANTS
    Carried,     \* v4 settings with a v3 counterpart, rpc.modes among them
    Filled,      \* v4 settings with a value for want of one
    Packaged,    \* the settings of the packaged v4 configuration
    Levels,      \* log levels a v3 configuration may have; 6: not a known one
    Heights,     \* --snapshot-height, a multiple of the round length
    POS_INIT_ROUNDS, NUMBER_ACTIVE_VALIDATORS, NUMBER_STANDBY_VALIDATORS

RoundLength == NUMBER_ACTIVE_VALIDATORS + NUMBER_STANDBY_VALIDATORS

ASSUME ParametersAssumption ==
    /\ Carried \cap Filled = {} /\ Packaged \subseteq Carried \cup Filled
    /\ Levels \subseteq 0..6
    /\ POS_INIT_ROUNDS \in Nat /\ NUMBER_ACTIVE_VALIDATORS \in Nat \ {0}
    /\ NUMBER_STANDBY_VALIDATORS \in Nat
    /\ \A h \in Heights : h \in Nat /\ h % RoundLength = 0

\* LOG_LEVEL_PRIORITY.
FATAL   == 0
INFO    == 3
TRACE   == 5
Unknown == 6

\* The same setting in the data directory and in the operator's file; "bad"
\* values are those the v4 schema refuses.
NodeValues == {"absent", "falsy", "node", "bad"}
UserValues == {"absent", "falsy", "user", "bad"}
V3Values   == NodeValues \cup UserValues
V4Values   == (V3Values \ {"falsy"}) \cup {"default", "constant"}

Settings == Carried \cup Filled
None     == [none |-> TRUE]
\* What writeFileSync leaves when it fails on the way.
Truncated == [truncated |-> TRUE]
Loggers  == [fileLogLevel : Levels, consoleLogLevel : Levels] \cup {None}
V3Config == [set : [Carried -> V3Values], logger : Loggers]
V4Config == [set : [Settings -> V4Values], logLevel : FATAL..TRACE,
             minimumCertifyHeight : Nat]

VARIABLES
    \* The input.
    dataDirConfig, customConfig, logger, height,
    pc,
    configV3, configV4,
    \* Files: backup/config.json, and config.json of the output directory.
    backup, written

input == <<dataDirConfig, customConfig, logger, height>>
vars  == <<input, pc, configV3, configV4, backup, written>>

PackagedConfig ==
    [set |-> [s \in Settings |-> IF s \in Packaged THEN "default" ELSE "absent"],
     logLevel |-> INFO, minimumCertifyHeight |-> 0]

TypeOK ==
    /\ pc \in {"get", "backup", "migrate", "validate", "write", "done", "invalid",
               "failed"}
    /\ configV3 \in V3Config \cup {None} /\ configV4 \in V4Config
    /\ backup \in V3Config \cup {None, Truncated}
    /\ written \in V4Config \cup {None, Truncated}

Init ==
    /\ dataDirConfig \in [Carried -> NodeValues]
    /\ customConfig \in [Carried -> UserValues]
    /\ logger \in Loggers
    /\ height \in Heights
    /\ pc = "get" /\ configV3 = None /\ configV4 = PackagedConfig
    /\ backup = None /\ written = None

(***************************************************************************)
(* The v3 configuration                                                    *)
(***************************************************************************)
\* Mutant: the arguments of mergeDeep the other way round.
Merged_NodeOverUser(s) ==
    IF dataDirConfig[s] = "absent" THEN customConfig[s] ELSE dataDirConfig[s]

\* mergeDeep({}, dataDirConfig, customConfig).
Merged(s) ==
    IF customConfig[s] = "absent" THEN dataDirConfig[s] ELSE customConfig[s]

GetConfig ==
    /\ pc = "get"
    /\ \/ /\ configV3' = [set |-> [s \in Carried |-> Merged(s)], logger |-> logger]
          /\ pc' = "backup"
       \/ UNCHANGED configV3 /\ pc' = "failed"
    /\ UNCHANGED <<input, configV4, backup, written>>

CreateBackup ==
    /\ pc = "backup"
    /\ \/ backup' = configV3 /\ pc' = "migrate"
       \/ backup' \in {backup, Truncated} /\ pc' = "failed"
    /\ UNCHANGED <<input, configV3, configV4, written>>

(***************************************************************************)
(* The v4 configuration                                                    *)
(***************************************************************************)
\* Mutant: a level LOG_LEVEL_PRIORITY does not list is passed on.
Priority_Unmapped(level) == level

Priority(level) == IF level = Unknown THEN INFO ELSE level

\* Mutant: the quieter of the two.
getLogLevel_Quieter(loggerConfig) ==
    Min({Priority(loggerConfig.fileLogLevel), Priority(loggerConfig.consoleLogLevel)})

getLogLevel(loggerConfig) ==
    Max({Priority(loggerConfig.fileLogLevel), Priority(loggerConfig.consoleLogLevel)})

Truthy(value) == value \notin {"absent", "falsy"}

\* A setting is replaced when v3 has a value that is not falsy, or when v4 has
\* none and there is a constant for it.
MigratedSetting(s) ==
    IF s \in Carried /\ Truthy(configV3.set[s]) THEN configV3.set[s]
    ELSE IF s \in Filled /\ configV4.set[s] = "absent" THEN "constant"
    ELSE configV4.set[s]

\* Mutant: counted from the snapshot height, not from the genesis block.
CertifyHeight_FromSnapshot ==
    height + (POS_INIT_ROUNDS + NUMBER_ACTIVE_VALIDATORS - 1) * RoundLength

CertifyHeight ==
    height + 1 + (POS_INIT_ROUNDS + NUMBER_ACTIVE_VALIDATORS - 1) * RoundLength

MigrateUserConfig ==
    /\ pc = "migrate"
    /\ configV4' =
           [set |-> [s \in Settings |-> MigratedSetting(s)],
            logLevel |-> IF configV3.logger = None THEN configV4.logLevel
                         ELSE getLogLevel(configV3.logger),
            minimumCertifyHeight |-> CertifyHeight]
    /\ pc' = "validate"
    /\ UNCHANGED <<input, configV3, backup, written>>

\* The schema's defaults stand in for what is absent.
IsValid(config) == \A s \in Settings : config.set[s] # "bad"

\* Mutant: the verdict is not looked at.
AfterValidation_Ignored == "write"

AfterValidation == IF IsValid(configV4) THEN "write" ELSE "invalid"

ValidateConfig ==
    /\ pc = "validate"
    /\ pc' = AfterValidation
    /\ UNCHANGED <<input, configV3, configV4, backup, written>>

WriteConfig ==
    /\ pc = "write"
    /\ \/ written' = configV4 /\ pc' = "done"
       \/ written' \in {written, Truncated} /\ pc' = "failed"
    /\ UNCHANGED <<input, configV3, configV4, backup>>

Next ==
    \/ GetConfig \/ CreateBackup \/ MigrateUserConfig \/ ValidateConfig
    \/ WriteConfig

Spec == Init /\ [][Next]_vars

(***************************************************************************)
(* Properties                                                              *)
(***************************************************************************)
\* A configuration has been written to its end.
Whole == written \notin {None, Truncated}

Told(s) == customConfig[s] # "absent" \/ dataDirConfig[s] # "absent"

\* Across merge, migration and schema: the v4 node gets the value its operator
\* gave v3 (his own file before the data directory), the packaged value where he
\* gave none, and is never left without a value it cannot do without.  Falsy
\* values are apart: the code drops them.
OperatorsSettings ==
    Whole =>
        /\ \A s \in Carried :
               CASE customConfig[s] = "user" -> written.set[s] = "user"
                 [] customConfig[s] = "absent" /\ dataDirConfig[s] = "node" ->
                        written.set[s] = "node"
                 [] ~Told(s) -> written.set[s] = PackagedConfig.set[s]
                 [] OTHER -> TRUE
        /\ \A s \in Filled : written.set[s] # "absent"

\* A configuration v4 would refuse is never written to the output directory, where
\* the start command and every later run would find it, and the v3 configuration is
\* backed up before anything is written.  A write that fails on its way may leave a
\* part of a configuration, with the backup whole.
WrittenValidAndBackedUp ==
    /\ Whole => IsValid(written)
    /\ written # None => backup = configV3

\* What the v3 node wrote to its file or to its console is not lost in v4, which
\* has one level for both.
NoLogLost ==
    Whole /\ logger # None =>
        \A level \in {logger.fileLogLevel, logger.consoleLogLevel} \ {Unknown} :
            level <= written.logLevel

\* Certificates start at the first height of a round: the genesis block is at
\* height + 1, rounds are counted from there, and the POS_INIT_ROUNDS have passed,
\* and one more for each active validator but one (config.ts:237-240).
CertifyAtRoundStart ==
    Whole =>
        /\ (written.minimumCertifyHeight - 1) % RoundLength = 0
        /\ (written.minimumCertifyHeight - (height + 1)) \div RoundLength
               >= POS_INIT_ROUNDS + NUMBER_ACTIVE_VALIDATORS - 1
=============================================================================
