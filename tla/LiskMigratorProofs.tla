------------------------- MODULE LiskMigratorProofs -------------------------
(***************************************************************************)
(* Proofs about LiskMigrator, for any number of runs, any heights, command *)
(* lines, nodes and exit codes: first the safety of the handover from Lisk *)
(* Core v3 to v4, then what a run works from and what it leaves behind.    *)
(***************************************************************************)
EXTENDS LiskMigrator, TLAPS

(***************************************************************************)
(* The inductive invariant                                                 *)
(***************************************************************************)
BeforeMove == {"verify", "observe", "openDB", "assets", "config", "install",
               "createGenesis", "writeGenesis", "installGenesis",
               "confirmStop", "probe", "reconfirm", "lastProbe",
               "confirmConfig", "ports", "backup"}
Stopped    == {"confirmConfig", "ports", "backup"}
HasLegacy  == {"resolve", "confirmPm2", "startPm2"}
AfterMove  == {"copy", "copying"} \cup HasLegacy
HasGenesis == {"installGenesis", "confirmStop", "probe", "reconfirm",
               "lastProbe"} \cup Stopped \cup AfterMove
LiveOnly   == {"verify", "observe", "config"} \cup HasGenesis

\* The loop over isLiskCoreV3Running has a try left whenever it probes.
TriesLeft == pc = "probe" => tries \in 1..3

\* A run that is under way has a number.
RunNumbered == pc \notin Ended => run \in Runs

\* Only an offline run fetches a snapshot, and only a live run gets as far as
\* the automatic start.
LiveRuns ==
    /\ pc = "fetch" => flags.useSnapshot
    /\ pc \in LiveOnly => ~flags.useSnapshot

\* Whose files a run works with.
OwnFiles ==
    /\ pc \in {"config", "install", "createGenesis"} => assets = run
    /\ pc \in {"writeGenesis"} \cup HasGenesis => assets = run /\ genesis = run
    /\ pc \in HasGenesis \ {"installGenesis"} => installed = run

\* What the moves of the data directory rest on.
ProbesAnswer == ~ProbeMayFail

\* Where the data is, and what follows from it.
DataPlaced == ProbesAnswer =>
    /\ nodeUp => dataDir = "home"
    /\ dataDir = "home" => legacyDb = "absent" /\ v4 = NoV4
    /\ pc \in BeforeMove /\ ~flags.useSnapshot => dataDir = "home"
    /\ pc \in Stopped => ~nodeUp
    /\ pc \in AfterMove => dataDir = "backup" /\ v4 = NoV4
    /\ pc = "copy" => legacyDb = "absent"
    /\ pc = "copying" => legacyDb = "partial"
    /\ pc \in HasLegacy => legacyDb = "complete"

Inv == TypeOK /\ TriesLeft /\ RunNumbered /\ LiveRuns /\ OwnFiles /\ DataPlaced

\* The invariant holds before the first run.
LEMMA InitInv == Init => Inv
<1> SUFFICES ASSUME Init PROVE Inv
  OBVIOUS
<1>1. commands \in [run : 0..MaxRuns, steps : SUBSET Steps]
  BY BoundsAssumption DEF Init, NoCommands
<1>2. v4 \in [run : 0..MaxRuns, config : 0..MaxRuns]
  BY BoundsAssumption DEF Init, NoV4
<1>3. TypeOK
  BY <1>1, <1>2, BoundsAssumption DEF Init, TypeOK, Ended, Codes, NaN
<1>4. TriesLeft /\ RunNumbered /\ LiveRuns /\ OwnFiles /\ DataPlaced
  BY DEF Init, TriesLeft, RunNumbered, LiveRuns, OwnFiles, DataPlaced,
         BeforeMove, Stopped, HasLegacy, AfterMove, HasGenesis, LiveOnly, Ended
<1> QED
  BY <1>3, <1>4 DEF Inv

\* The steps up to the database.
LEMMA PrepareInv == ASSUME Inv, Prepare PROVE Inv'
<1> USE BoundsAssumption, FlagsAssumption, EnvironmentAssumption
        DEF Inv, TypeOK, TriesLeft, RunNumbered, LiveRuns, OwnFiles, DataPlaced,
            BeforeMove, Stopped, HasLegacy, AfterMove, HasGenesis, LiveOnly,
            Locations, Ended, Codes, Runs, NaN, Goto, node, control, locals,
            output, handover
<1>1. CASE IdentifyNetwork
  <2>1. TypeOK' /\ TriesLeft' /\ RunNumbered' /\ LiveRuns' /\ OwnFiles'
    BY <1>1 DEF IdentifyNetwork, Exit
  <2>2. DataPlaced'
    BY <1>1 DEF IdentifyNetwork, Exit
  <2> QED
    BY <2>1, <2>2
<1>2. CASE FetchSnapshot
  BY <1>2 DEF FetchSnapshot, Fail
<1>3. CASE VerifyNode
  BY <1>3 DEF VerifyNode, Fail
<1>4. CASE ObserveChain
  BY <1>4 DEF ObserveChain, ObservedHeight, PollRejected, Fail
<1>5. CASE OpenSnapshot
  BY <1>5 DEF OpenSnapshot, Fail
<1> QED
  BY <1>1, <1>2, <1>3, <1>4, <1>5 DEF Prepare

\* The steps up to the genesis block.
LEMMA BuildInv == ASSUME Inv, Build PROVE Inv'
<1> USE BoundsAssumption, FlagsAssumption, EnvironmentAssumption
        DEF Inv, TypeOK, TriesLeft, RunNumbered, LiveRuns, OwnFiles, DataPlaced,
            BeforeMove, Stopped, HasLegacy, AfterMove, HasGenesis, LiveOnly,
            Locations, Ended, Codes, Runs, NaN, Goto, node, control, locals,
            output, handover
<1>1. CASE CreateAssets
  BY <1>1 DEF CreateAssets, Fail
<1>2. CASE MigrateConfig
  BY <1>2 DEF MigrateConfig, Fail, INVALID_CONFIG
<1>3. CASE InstallCore
  BY <1>3 DEF InstallCore, Fail
<1>4. CASE CreateGenesis
  BY <1>4 DEF CreateGenesis, CreateBlockFails, Fail, GENESIS_BLOCK_CREATE
<1>5. CASE WriteGenesis
  BY <1>5 DEF WriteGenesis, Fail
<1> QED
  BY <1>1, <1>2, <1>3, <1>4, <1>5 DEF Build

\* The steps of the automatic start.
LEMMA AutoStartInv == ASSUME Inv, AutoStart PROVE Inv'
<1> USE BoundsAssumption, FlagsAssumption, EnvironmentAssumption
        DEF Inv, TypeOK, TriesLeft, RunNumbered, LiveRuns, OwnFiles, DataPlaced,
            BeforeMove, Stopped, HasLegacy, AfterMove, HasGenesis, LiveOnly,
            Locations, Ended, Codes, Runs, NaN, Goto, node, control, locals,
            output, handover
<1>1. CASE InstallGenesis
  BY <1>1 DEF InstallGenesis, FailStart, Fail, LISK_CORE_START
<1>2. CASE ConfirmStop
  BY <1>2 DEF ConfirmStop, FailStart, Fail, LISK_CORE_START
<1>3. CASE ProbeV3
  <2>1. PICK isRunning \in ProbeAnswers :
            pc' = IF isRunning THEN "reconfirm" ELSE "confirmConfig"
    BY <1>3 DEF ProbeV3
  <2>2. ProbesAnswer => isRunning = nodeUp
    BY <2>1 DEF ProbeAnswers, ProbesAnswer
  <2> QED
    BY <1>3, <2>1, <2>2 DEF ProbeV3
<1>4. CASE ReconfirmStop
  BY <1>4 DEF ReconfirmStop, AfterReconfirm, FailStart, Fail, LISK_CORE_START
<1>5. CASE LastProbe
  <2>1. PICK isRunning \in ProbeAnswers :
            IF isRunning THEN FailStart ELSE Goto("confirmConfig")
    BY <1>5 DEF LastProbe
  <2>2. ProbesAnswer => isRunning = nodeUp
    BY <2>1 DEF ProbeAnswers, ProbesAnswer
  <2> QED
    BY <1>5, <2>1, <2>2 DEF LastProbe, FailStart, Fail, LISK_CORE_START
<1>6. CASE ConfirmConfig
  BY <1>6 DEF ConfirmConfig
<1>7. CASE CheckPorts
  BY <1>7 DEF CheckPorts, FailStart, Fail, LISK_CORE_START
<1>8. CASE BackupDataDir
  BY <1>8 DEF BackupDataDir, Fail, BACKUP_LEGACY_DATA_DIR, NoV4
<1>9. CASE BeginCopyLegacyDB
  BY <1>9 DEF BeginCopyLegacyDB, CopyFails, Fail, COPY_LEGACY_DB
<1>10. CASE EndCopyLegacyDB
  BY <1>10 DEF EndCopyLegacyDB, CopyFails, Fail, COPY_LEGACY_DB
<1>11. CASE ResolveStartCommand
  BY <1>11 DEF ResolveStartCommand, FailStart, Fail, LISK_CORE_START
<1>12. CASE ConfirmPm2
  BY <1>12 DEF ConfirmPm2, FailStart, Fail, LISK_CORE_START
<1>13. CASE StartPm2
  BY <1>13 DEF StartPm2, ConfigsGiven, ConfigFound, NoV4, FailStart, Fail, LISK_CORE_START
<1> QED
  BY <1>1, <1>2, <1>3, <1>4, <1>5, <1>6, <1>7, <1>8, <1>9, <1>10, <1>11, <1>12, <1>13 DEF AutoStart

\* The end of a run, however it comes.
LEMMA EndInv == ASSUME Inv, Finish \/ HandleError \/ Crash PROVE Inv'
<1>1. commands' \in [run : 0..MaxRuns, steps : SUBSET Steps]
  <2>1. RecoverySteps(code) \in SUBSET Steps /\ {} \in SUBSET Steps
    BY DEF RecoverySteps
  <2> QED
    BY <2>1 DEF Finish, HandleError, Crash, WriteCommands, WriteFails, output,
       Inv, TypeOK
<1> QED
  BY <1>1
  DEF Finish, HandleError, Crash, Exit, Inv, TypeOK, TriesLeft, RunNumbered,
      LiveRuns, OwnFiles, DataPlaced, BeforeMove, Stopped, HasLegacy, AfterMove,
      HasGenesis, LiveOnly, Ended, node, output, handover

\* The v3 node and its operator.
LEMMA EnvironmentInv == ASSUME Inv, Environment PROVE Inv'
<1> USE BoundsAssumption, FlagsAssumption, EnvironmentAssumption
        DEF Inv, TypeOK, TriesLeft, RunNumbered, LiveRuns, OwnFiles, DataPlaced,
            BeforeMove, Stopped, HasLegacy, AfterMove, HasGenesis, LiveOnly,
            Locations, Ended, Codes, Runs, NaN, Goto, node, control, locals,
            output, handover
<1>1. CASE NewBlock
  BY <1>1 DEF NewBlock, CaptureForgingStatus, Heights
<1>2. CASE Finalize
  BY <1>2 DEF Finalize, Heights
<1>3. CASE StopV3
  <2>1. nodeUp' \in BOOLEAN
    BY <1>3, Zenon DEF StopV3
  <2> QED
    BY <1>3, <2>1 DEF StopV3
<1>4. CASE RestartV3
  <2>1. nodeUp' \in BOOLEAN
    BY <1>4, Zenon DEF RestartV3
  <2> QED
    BY <1>4, <2>1 DEF RestartV3, StopConfirmed
<1> QED
  BY <1>1, <1>2, <1>3, <1>4 DEF Environment

\* A new run.
\* A run that starts keeps what is known of the files of the runs before it.
LEMMA BeginInv == ASSUME Inv, NEW f \in FlagSets, Begin(f) PROVE Inv'
<1> USE BoundsAssumption, FlagsAssumption, EnvironmentAssumption
        DEF Inv, TypeOK, TriesLeft, RunNumbered, LiveRuns, OwnFiles, DataPlaced,
            BeforeMove, Stopped, HasLegacy, AfterMove, HasGenesis, LiveOnly,
            Locations, Ended, Codes, Runs, NaN, Goto, node, control, locals,
            output, handover
<1> QED
  BY DEF Begin

\* Only five steps change what is handed over to Lisk Core v4.
HandoverStep ==
    \/ InstallGenesis \/ BackupDataDir \/ BeginCopyLegacyDB \/ EndCopyLegacyDB
    \/ StartPm2

\* Every other step leaves the files of Lisk Core v4 and its start alone.
LEMMA HandoverFrame ==
    ASSUME Next, ~HandoverStep
    PROVE  UNCHANGED handover
<1>1. CASE \E f \in FlagSets : Begin(f)
  BY <1>1 DEF Begin
<1>2. CASE Prepare \/ Build
  BY <1>2
  DEF Prepare, IdentifyNetwork, FetchSnapshot, VerifyNode, ObserveChain,
      OpenSnapshot, Build, CreateAssets, MigrateConfig, InstallCore,
      CreateGenesis, WriteGenesis
<1>3. CASE AutoStart
  BY <1>3
  DEF AutoStart, HandoverStep, ConfirmStop, ProbeV3, ReconfirmStop, LastProbe,
      ConfirmConfig, CheckPorts, ResolveStartCommand, ConfirmPm2
<1>4. CASE Finish \/ HandleError \/ Crash
  BY <1>4 DEF Finish, HandleError, Crash
<1>5. CASE Environment
  BY <1>5 DEF Environment, NewBlock, Finalize, StopV3, RestartV3
<1> QED
  BY <1>1, <1>2, <1>3, <1>4, <1>5 DEF Next, Proceed

\* Only the operator starts and stops the v3 node.
LEMMA NodeFrame == Next => UNCHANGED nodeUp \/ StopV3 \/ RestartV3
<1> USE DEF node
<1>1. CASE \E f \in FlagSets : Begin(f)
  BY <1>1 DEF Begin
<1>2. CASE Prepare \/ Build
  BY <1>2
  DEF Prepare, IdentifyNetwork, FetchSnapshot, VerifyNode, ObserveChain,
      OpenSnapshot, Build, CreateAssets, MigrateConfig, InstallCore,
      CreateGenesis, WriteGenesis
<1>3. CASE AutoStart
  BY <1>3
  DEF AutoStart, InstallGenesis, ConfirmStop, ProbeV3, ReconfirmStop, LastProbe,
      ConfirmConfig, CheckPorts, BackupDataDir, BeginCopyLegacyDB,
      EndCopyLegacyDB, ResolveStartCommand, ConfirmPm2, StartPm2
<1>4. CASE Finish \/ HandleError \/ Crash
  BY <1>4 DEF Finish, HandleError, Crash
<1>5. CASE Environment
  BY <1>5 DEF Environment, NewBlock, Finalize
<1> QED
  BY <1>1, <1>2, <1>3, <1>4, <1>5 DEF Next, Proceed

(***************************************************************************)
(* The theorems                                                            *)
(***************************************************************************)
\* The invariant is inductive.
THEOREM Invariance == Spec => []Inv
<1>1. Inv /\ [Next]_vars => Inv'
  <2> SUFFICES ASSUME Inv, [Next]_vars PROVE Inv'
    OBVIOUS
  <2>1. CASE \E f \in FlagSets : Begin(f)
    BY <2>1, BeginInv
  <2>2. CASE Proceed
    BY <2>2, PrepareInv, BuildInv, AutoStartInv, EndInv DEF Proceed
  <2>3. CASE Crash
    BY <2>3, EndInv
  <2>4. CASE Environment
    BY <2>4, EnvironmentInv
  <2>5. CASE UNCHANGED vars
    BY <2>5
    DEF vars, node, control, locals, output, handover, Inv, TypeOK,
        TriesLeft, RunNumbered, LiveRuns, OwnFiles, DataPlaced
  <2> QED
    BY <2>1, <2>2, <2>3, <2>4, <2>5 DEF Next
<1> QED
  BY <1>1, InitInv, PTL DEF Spec

\* Every variable keeps its type, numTriesLeft stays between 0 and 3, and no
\* error has a code the outer catch does not know of.
THEOREM TypeCorrect == Spec => []TypeOK
  BY Invariance, PTL DEF Inv

\* As long as v3 answers when it runs, Lisk Core v3 and Lisk Core v4 never run
\* together: v3 finds no data once v4 has been started.
THEOREM NeverBothNodes == ASSUME ProbesAnswer PROVE Spec => []SingleActiveNode
<1>1. Inv => SingleActiveNode
  BY DEF Inv, DataPlaced, SingleActiveNode
<1> QED
  BY <1>1, Invariance, PTL

\* The v3 data directory is renamed only while v3 is down, if v3 answers when
\* it runs (this and the next three need it).
THEOREM MovedOnlyWhenStopped == ASSUME ProbesAnswer PROVE Spec => DataMovedOnlyWhenStopped
<1>1. Inv /\ [Next]_vars => [dataDir' # dataDir => ~nodeUp]_vars
  <2> SUFFICES ASSUME Inv, Next, dataDir' # dataDir PROVE ~nodeUp
    OBVIOUS
  <2>1. HandoverStep
    BY HandoverFrame DEF handover
  <2>2. BackupDataDir
    BY <2>1 DEF HandoverStep, InstallGenesis, BeginCopyLegacyDB, CopyFails,
       EndCopyLegacyDB, StartPm2
  <2> QED
    BY <2>2 DEF BackupDataDir, Inv, DataPlaced, Stopped
<1> QED
  BY <1>1, Invariance, PTL DEF Spec, DataMovedOnlyWhenStopped

\* Lisk Core v4 is started by a run on what that run has made.
THEOREM StartsFromOwnGenesis == ASSUME ProbesAnswer PROVE Spec => V4StartsFromOwnGenesis
<1> DEFINE Own == /\ assets = run /\ genesis = run /\ installed = run
                  /\ dataDir = "backup" /\ legacyDb = "complete"
<1>1. Inv /\ [Next]_vars => [v4' # v4 => Own]_vars
  <2> SUFFICES ASSUME Inv, Next, v4' # v4 PROVE Own
    OBVIOUS
  <2>1. HandoverStep
    BY HandoverFrame DEF handover
  <2>2. StartPm2
    BY <2>1 DEF HandoverStep, InstallGenesis, BackupDataDir, BeginCopyLegacyDB,
       EndCopyLegacyDB
  <2> QED
    BY <2>2 DEF StartPm2, Inv, DataPlaced, OwnFiles, HasLegacy, AfterMove,
       HasGenesis
<1> QED
  BY <1>1, Invariance, PTL DEF Spec, V4StartsFromOwnGenesis

\* The migrator implements Handover: its first states are those of the
\* promise, and each of its steps is one of the promise or leaves it alone.
THEOREM ImplementsHandover == ASSUME ProbesAnswer PROVE Spec => HandoverKept
<1>1. Init => Promise!Init
  <2>1. Init => nodeUp \in BOOLEAN /\ dataDir = "home" /\ legacyDb = "absent"
    BY DEF Init
  <2>2. Init => (installed # 0) = FALSE /\ (v4 # NoV4) = FALSE
    BY DEF Init
  <2> QED
    BY <2>1, <2>2 DEF Promise!Init
<1>2. Inv /\ [Next]_vars => [Promise!Next]_(Promise!vars)
  <2> SUFFICES ASSUME Inv, [Next]_vars
               PROVE  Promise!Next \/ UNCHANGED Promise!vars
    OBVIOUS
  <2> USE DEF Inv, DataPlaced, OwnFiles, LiveRuns, RunNumbered, BeforeMove,
              Stopped, HasLegacy, AfterMove, HasGenesis, LiveOnly, Ended, Runs
  <2>1. CASE InstallGenesis
    <3>1. UNCHANGED <<nodeUp, dataDir, legacyDb, v4>> /\ v4 = NoV4
      BY <2>1 DEF InstallGenesis, node
    <3>2. installed' = installed \/ installed' # 0
      BY <2>1 DEF InstallGenesis, Runs
    <3> QED
      BY <3>1, <3>2 DEF Promise!Next, Promise!InstallGenesis, Promise!vars
  <2>2. CASE BackupDataDir
    BY <2>2 DEF BackupDataDir, node, Promise!Next, Promise!MoveData, Promise!vars
  <2>3. CASE BeginCopyLegacyDB
    BY <2>3 DEF BeginCopyLegacyDB, CopyFails, node, Promise!Next,
       Promise!BeginCopy, Promise!vars
  <2>4. CASE EndCopyLegacyDB
    BY <2>4 DEF EndCopyLegacyDB, CopyFails, node, Promise!Next, Promise!EndCopy,
       Promise!vars
  <2>5. CASE StartPm2
    <3>1. UNCHANGED <<nodeUp, dataDir, legacyDb, installed>>
      BY <2>5 DEF StartPm2, node
    <3>2. CASE UNCHANGED v4
      BY <3>1, <3>2 DEF Promise!vars
    <3>3. CASE \E c \in ConfigsGiven : v4' = [run |-> run, config |-> c]
      <4>1. v4' # NoV4 /\ v4 = NoV4
        BY <2>5, <3>3 DEF StartPm2, NoV4
      <4> QED
        BY <2>5, <3>1, <4>1 DEF StartPm2, Promise!Next, Promise!StartV4
    <3> QED
      BY <2>5, <3>2, <3>3 DEF StartPm2
  <2>6. CASE Next /\ ~HandoverStep
    <3>1. UNCHANGED handover
      BY <2>6, HandoverFrame
    <3>2. CASE nodeUp' = nodeUp
      BY <3>1, <3>2 DEF handover, Promise!vars
    <3>3. CASE StopV3
      BY <3>1, <3>3 DEF StopV3, handover, Promise!Next, Promise!StopV3
    <3>4. CASE RestartV3
      BY <3>1, <3>4 DEF RestartV3, handover, Promise!Next, Promise!StartV3
    <3>5. nodeUp' = nodeUp \/ StopV3 \/ RestartV3
      BY <2>6, NodeFrame
    <3> QED
      BY <3>2, <3>3, <3>4, <3>5
  <2>7. CASE UNCHANGED vars
    BY <2>7 DEF vars, node, handover, Promise!vars
  <2> QED
    BY <2>1, <2>2, <2>3, <2>4, <2>5, <2>6, <2>7 DEF HandoverStep
<1> QED
  BY <1>1, <1>2, Invariance, PTL DEF Spec, HandoverKept, Promise!Spec

(***************************************************************************)
(* PART TWO: what a run works from and what a failed one leaves to the     *)
(* operator.  The assets come from a final snapshot, v4 gets the run's own *)
(* configuration, and the recovery commands are those that are missing.    *)
(***************************************************************************)

(***************************************************************************)
(* The inductive invariant, next to Inv                                    *)
(***************************************************************************)
BeforeGenesis == {"identify", "fetch", "verify", "observe", "openDB", "assets",
                  "config", "install", "createGenesis"}
AfterConfig   == {"install", "createGenesis", "writeGenesis"} \cup HasGenesis

\* No file is of a run to come, and the commands are written last.
FilesPast ==
    /\ assets <= run /\ config <= run /\ genesis <= run /\ installed <= run
    /\ commands.run <= run
    /\ pc \notin Ended => commands.run < run
    /\ pc = "failed" => run # 0

\* A genesis block in place is this run's own, and the run is a live one; the
\* data directory is moved by a run that has put one in place.
InstalledOwn ==
    /\ installed = run /\ run # 0 => genesis = run /\ ~flags.useSnapshot
    /\ dataDir = "backup" => installed # 0

GenesisLater == pc \in BeforeGenesis => genesis < run

\* The heights of a live run, from the checks to the assets.
HeightsFinal ==
    /\ pc = "observe" => HeightsAgree
    /\ pc \in {"openDB", "assets"} /\ ~flags.useSnapshot =>
           HeightsAgree /\ finalized >= flags.snapshotHeight

\* config.json is this run's if and only if the run migrates.
ConfigOwn ==
    /\ pc = "config" => flags.autoMigrate
    /\ pc \in AfterConfig /\ flags.autoMigrate => config = run
    /\ pc \notin Ended /\ ~flags.autoMigrate => config < run

\* The code of an error fits what is done and what is not.
ErrorFits == ProbesAnswer /\ pc = "handleError" =>
    /\ code \in {INVALID_CONFIG, GENESIS_BLOCK_CREATE} => genesis < run
    /\ ~flags.useSnapshot =>
           /\ v4 = NoV4
           /\ \/ dataDir = "home" /\ legacyDb = "absent"
              \/ code = COPY_LEGACY_DB /\ legacyDb # "complete"
              \/ code = LISK_CORE_START /\ legacyDb = "complete"

WorkInv == FilesPast /\ InstalledOwn /\ GenesisLater /\ HeightsFinal /\ ConfigOwn /\ ErrorFits

\* What the operator finds behind a failure.
ReportFits == ProbesAnswer => RecoverableOnceMoved /\ NothingListedTwice

\* The invariant holds before the first run.
LEMMA InitWork == Init => WorkInv /\ ReportFits
  BY BoundsAssumption
  DEF Init, WorkInv, FilesPast, InstalledOwn, GenesisLater, HeightsFinal,
      ConfigOwn, ErrorFits, ReportFits, RecoverableOnceMoved, NothingListedTwice,
      BeforeGenesis, AfterConfig, HasGenesis, Stopped, AfterMove, HasLegacy, Ended,
      NoCommands

\* The steps up to the database.
LEMMA PrepareWork == ASSUME Inv, WorkInv, Prepare PROVE WorkInv'
<1> USE BoundsAssumption, FlagsAssumption, EnvironmentAssumption
        DEF WorkInv, FilesPast, InstalledOwn, GenesisLater, HeightsFinal, ConfigOwn,
            ErrorFits, BeforeGenesis, AfterConfig, HasGenesis, Stopped, AfterMove,
            HasLegacy, BeforeMove, Ended, Inv, TypeOK, RunNumbered, LiveRuns,
            DataPlaced, LiveOnly, Runs, HeightsAgree, NaN, INVALID_CONFIG,
            GENESIS_BLOCK_CREATE, Goto, node, control, locals, output, handover
<1>1. CASE IdentifyNetwork
  BY <1>1 DEF IdentifyNetwork, Exit
<1>2. CASE FetchSnapshot
  BY <1>2 DEF FetchSnapshot, Fail
<1>3. CASE VerifyNode
  BY <1>3 DEF VerifyNode, Fail
<1>4. CASE ObserveChain
  BY <1>4 DEF ObserveChain, ObservedHeight, PollRejected, Fail
<1>5. CASE OpenSnapshot
  BY <1>5 DEF OpenSnapshot, Fail
<1> QED
  BY <1>1, <1>2, <1>3, <1>4, <1>5 DEF Prepare

\* The steps up to the genesis block.
LEMMA BuildWork == ASSUME Inv, WorkInv, Build PROVE WorkInv'
<1> USE BoundsAssumption, FlagsAssumption, EnvironmentAssumption
        DEF WorkInv, FilesPast, InstalledOwn, GenesisLater, HeightsFinal, ConfigOwn,
            ErrorFits, BeforeGenesis, AfterConfig, HasGenesis, Stopped, AfterMove,
            HasLegacy, BeforeMove, Ended, Inv, TypeOK, RunNumbered, LiveRuns,
            OwnFiles, DataPlaced, LiveOnly, Runs, NaN, INVALID_CONFIG,
            GENESIS_BLOCK_CREATE, Goto, node, control, locals, output, handover
<1>1. CASE CreateAssets
  BY <1>1 DEF CreateAssets, Fail
<1>2. CASE MigrateConfig
  BY <1>2 DEF MigrateConfig, Fail
<1>3. CASE InstallCore
  BY <1>3 DEF InstallCore, Fail
<1>4. CASE CreateGenesis
  BY <1>4 DEF CreateGenesis, CreateBlockFails, Fail
<1>5. CASE WriteGenesis
  BY <1>5 DEF WriteGenesis, Fail
<1> QED
  BY <1>1, <1>2, <1>3, <1>4, <1>5 DEF Build

\* The steps of the automatic start.
LEMMA AutoStartWork == ASSUME Inv, WorkInv, AutoStart PROVE WorkInv'
<1> USE BoundsAssumption, FlagsAssumption, EnvironmentAssumption
        DEF WorkInv, FilesPast, InstalledOwn, GenesisLater, HeightsFinal, ConfigOwn,
            ErrorFits, BeforeGenesis, AfterConfig, HasGenesis, Stopped, AfterMove,
            HasLegacy, BeforeMove, Ended, Inv, TypeOK, RunNumbered, LiveRuns,
            OwnFiles, DataPlaced, LiveOnly, Runs, INVALID_CONFIG,
            GENESIS_BLOCK_CREATE, LISK_CORE_START, BACKUP_LEGACY_DATA_DIR,
            COPY_LEGACY_DB, Goto, Fail, FailStart, node, control, locals, output,
            handover
<1>1. CASE InstallGenesis
  BY <1>1 DEF InstallGenesis
<1>2. CASE ConfirmStop
  BY <1>2 DEF ConfirmStop
<1>3. CASE ProbeV3
  BY <1>3 DEF ProbeV3
<1>4. CASE ReconfirmStop
  BY <1>4 DEF ReconfirmStop, AfterReconfirm
<1>5. CASE LastProbe
  BY <1>5 DEF LastProbe
<1>6. CASE ConfirmConfig
  BY <1>6 DEF ConfirmConfig
<1>7. CASE CheckPorts
  BY <1>7 DEF CheckPorts
<1>8. CASE BackupDataDir
  BY <1>8 DEF BackupDataDir
<1>9. CASE BeginCopyLegacyDB
  BY <1>9 DEF BeginCopyLegacyDB, CopyFails
<1>10. CASE EndCopyLegacyDB
  BY <1>10 DEF EndCopyLegacyDB, CopyFails
<1>11. CASE ResolveStartCommand
  BY <1>11 DEF ResolveStartCommand
<1>12. CASE ConfirmPm2
  BY <1>12 DEF ConfirmPm2
<1>13. CASE StartPm2
  BY <1>13 DEF StartPm2
<1> QED
  BY <1>1, <1>2, <1>3, <1>4, <1>5, <1>6, <1>7, <1>8, <1>9, <1>10, <1>11, <1>12, <1>13 DEF AutoStart

\* The end of a run, the v3 node and its operator, and a new run.
LEMMA OtherWork ==
    ASSUME Inv, WorkInv,
           Finish \/ HandleError \/ Crash \/ Environment \/ \E f \in FlagSets : Begin(f)
    PROVE  WorkInv'
<1> USE BoundsAssumption, FlagsAssumption, EnvironmentAssumption
        DEF WorkInv, FilesPast, InstalledOwn, GenesisLater, HeightsFinal, ConfigOwn,
            ErrorFits, BeforeGenesis, AfterConfig, HasGenesis, Stopped, AfterMove,
            HasLegacy, Ended, Inv, TypeOK, RunNumbered, Runs, HeightsAgree, Heights,
            node, control, locals, output, handover
<1>1. CASE Finish \/ HandleError
  <2>1. commands'.run \in {commands.run, run}
    BY <1>1 DEF Finish, HandleError, WriteCommands, WriteFails
  <2> QED
    BY <1>1, <2>1 DEF Finish, HandleError, Exit
<1>2. CASE Crash
  BY <1>2 DEF Crash, Exit
<1>3. CASE NewBlock
  BY <1>3 DEF NewBlock
<1>4. CASE Finalize
  BY <1>4 DEF Finalize
<1>5. CASE StopV3
  BY <1>5 DEF StopV3
<1>6. CASE RestartV3
  BY <1>6 DEF RestartV3
<1>7. CASE \E f \in FlagSets : Begin(f)
  BY <1>7 DEF Begin
<1> QED
  BY <1>1, <1>2, <1>3, <1>4, <1>5, <1>6, <1>7 DEF Environment

(***************************************************************************)
(* The recovery commands                                                   *)
(***************************************************************************)
\* The four lists of the outer catch, step by step.
LEMMA ListedFor ==
    ASSUME NEW c
    PROVE  /\ "genesis" \in RecoverySteps(c) <=> c \in {1, 2}
           /\ "backup" \in RecoverySteps(c) <=> c \in {1, 2, 4}
           /\ "copy" \in RecoverySteps(c) <=> c \in {1, 2, 4, 5}
           /\ "start" \in RecoverySteps(c) <=> c \in 1..5
           /\ RecoverySteps(c) \subseteq Steps
  BY DEF RecoverySteps, CodesListing, Steps

\* What is pending, step by step.
LEMMA PendingSteps ==
    /\ "genesis" \in Pending <=> genesis # run
    /\ "backup" \in Pending <=> dataDir = "home"
    /\ "copy" \in Pending <=> legacyDb # "complete"
    /\ "start" \in Pending <=> v4 = NoV4
    /\ Pending \subseteq Steps
  BY DEF Pending, Steps

\* The code of a live run lists what is missing, all of it once the data directory
\* is moved, and only that.
LEMMA CodeFits ==
    ASSUME Inv, WorkInv, ProbesAnswer, pc = "handleError", ~flags.useSnapshot
    PROVE  /\ RecoverySteps(code) \subseteq Pending
           /\ dataDir = "backup" /\ installed = run => Pending \subseteq RecoverySteps(code)
<1> USE DEF WorkInv, ErrorFits, InstalledOwn, Inv, TypeOK, RunNumbered, Runs, Ended,
            INVALID_CONFIG, GENESIS_BLOCK_CREATE, LISK_CORE_START, COPY_LEGACY_DB
<1>1. RecoverySteps(code) \subseteq Pending
  <2>1. "genesis" \in RecoverySteps(code) => "genesis" \in Pending
    BY ListedFor, PendingSteps, BoundsAssumption
  <2>2. "backup" \in RecoverySteps(code) => "backup" \in Pending
    BY ListedFor, PendingSteps
  <2>3. "copy" \in RecoverySteps(code) => "copy" \in Pending
    BY ListedFor, PendingSteps
  <2>4. "start" \in RecoverySteps(code) => "start" \in Pending
    BY ListedFor, PendingSteps
  <2> QED
    BY <2>1, <2>2, <2>3, <2>4, ListedFor DEF Steps
<1>2. ASSUME dataDir = "backup", installed = run
      PROVE  Pending \subseteq RecoverySteps(code)
  <2>1. "genesis" \notin Pending /\ "backup" \notin Pending
    BY <1>2, PendingSteps, BoundsAssumption
  <2>2. "copy" \in Pending => "copy" \in RecoverySteps(code)
    BY <1>2, ListedFor, PendingSteps
  <2>3. "start" \in Pending => "start" \in RecoverySteps(code)
    BY <1>2, ListedFor, PendingSteps
  <2> QED
    BY <2>1, <2>2, <2>3, PendingSteps DEF Steps
<1> QED
  BY <1>1, <1>2

\* The code of any run lists no genesis block that the run has made; the rest can
\* only be done already if an earlier run has begun a handover.
LEMMA CodeOfEarlier ==
    ASSUME Inv, WorkInv, ProbesAnswer, pc = "handleError", flags.useSnapshot,
           NEW s \in RecoverySteps(code) \ Pending
    PROVE  s # "genesis" /\ installed \in 1..(run - 1)
<1> USE DEF Inv, TypeOK, RunNumbered, Runs, Ended, WorkInv, FilesPast, InstalledOwn,
            ErrorFits, INVALID_CONFIG, GENESIS_BLOCK_CREATE
<1>1. run \in Nat /\ run # 0 /\ genesis \in Nat /\ installed \in Nat
  BY BoundsAssumption
<1>2. s # "genesis"
  BY <1>1, ListedFor, PendingSteps
<1>3. dataDir = "backup"
  BY <1>2, ListedFor, PendingSteps DEF DataPlaced, Steps
<1>4. installed # 0 /\ installed <= run /\ installed # run
  BY <1>1, <1>3
<1> QED
  BY <1>1, <1>2, <1>4

\* What the report is about.
reported == <<run, flags, commands, genesis, installed, dataDir, legacyDb, v4>>

\* Only the outer catch reports a failure; behind it nothing changes but the v3
\* node until the next run.
LEMMA FailedFrame ==
    ASSUME [Next]_vars, pc' = "failed"
    PROVE  HandleError \/ (pc = "failed" /\ UNCHANGED reported)
<1> USE DEF Ended, Goto, Fail, FailStart, Exit
<1>1. CASE \E f \in FlagSets : Begin(f)
  BY <1>1 DEF Begin
<1>2. CASE Prepare
  BY <1>2
  DEF Prepare, IdentifyNetwork, FetchSnapshot, VerifyNode, ObserveChain,
      PollRejected, OpenSnapshot
<1>3. CASE Build
  BY <1>3
  DEF Build, CreateAssets, MigrateConfig, InstallCore, CreateGenesis,
      CreateBlockFails, WriteGenesis
<1>4. CASE AutoStart
  BY <1>4
  DEF AutoStart, InstallGenesis, ConfirmStop, ProbeV3, ReconfirmStop,
      AfterReconfirm, LastProbe, ConfirmConfig, CheckPorts, BackupDataDir,
      BeginCopyLegacyDB, EndCopyLegacyDB, CopyFails, ResolveStartCommand,
      ConfirmPm2, StartPm2
<1>5. CASE Finish \/ Crash
  BY <1>5 DEF Finish, Crash
<1>6. CASE Environment
  BY <1>6
  DEF Environment, NewBlock, Finalize, StopV3, RestartV3, control, locals, output,
      handover, reported
<1>7. CASE UNCHANGED vars
  BY <1>7 DEF vars, control, locals, output, handover, reported
<1> QED
  BY <1>1, <1>2, <1>3, <1>4, <1>5, <1>6, <1>7 DEF Next, Proceed

\* The report of a failure is right when it is written and stays so.
LEMMA ReportKept == ASSUME Inv, WorkInv, ReportFits, [Next]_vars PROVE ReportFits'
<1> SUFFICES ASSUME ProbesAnswer, pc' = "failed"
             PROVE  RecoverableOnceMoved' /\ NothingListedTwice'
  BY DEF ReportFits, RecoverableOnceMoved, NothingListedTwice, ProbesAnswer
<1>1. CASE HandleError
  <2>1. UNCHANGED <<run, flags, genesis, installed, dataDir, legacyDb, v4>>
    BY <1>1 DEF HandleError, Exit, handover
  <2>2. run # 0 /\ commands.run < run
    BY <1>1, BoundsAssumption
    DEF HandleError, WorkInv, FilesPast, Ended, Inv, RunNumbered, Runs
  <2>3. WriteCommands(RecoverySteps(code))
    BY <1>1 DEF HandleError, Exit
  <2>4. Listed' = RecoverySteps(code)
    <3>1. CASE commands' = [run |-> run, steps |-> RecoverySteps(code)]
      BY <2>1, <3>1 DEF Listed
    <3>2. CASE commands' = commands /\ RecoverySteps(code) = {}
      <4>1. commands.run # run
        BY <2>2, BoundsAssumption DEF Inv, TypeOK
      <4> QED
        BY <2>1, <3>2, <4>1 DEF Listed
    <3> QED
      BY <2>3, <3>1, <3>2 DEF WriteCommands
  <2>5. Pending' = Pending
    BY <2>1 DEF Pending
  <2>6. installed = run => ~flags.useSnapshot
    BY <2>2 DEF WorkInv, InstalledOwn
  <2>7. pc = "handleError"
    BY <1>1 DEF HandleError
  <2>8. RecoverableOnceMoved'
    BY <2>1, <2>4, <2>5, <2>6, <2>7, CodeFits DEF RecoverableOnceMoved
  <2>9. NothingListedTwice'
    <3>1. CASE ~flags.useSnapshot
      BY <2>1, <2>4, <2>5, <2>7, <3>1, CodeFits DEF NothingListedTwice
    <3>2. CASE flags.useSnapshot
      BY <2>1, <2>4, <2>5, <2>7, <3>2, CodeOfEarlier DEF NothingListedTwice
    <3> QED
      BY <3>1, <3>2
  <2> QED
    BY <2>8, <2>9
<1>2. CASE pc = "failed" /\ UNCHANGED reported
  <2>1. Pending' = Pending /\ Listed' = Listed
    BY <1>2 DEF reported, Pending, Listed
  <2> QED
    BY <1>2, <2>1 DEF reported, ReportFits, RecoverableOnceMoved, NothingListedTwice
<1> QED
  BY <1>1, <1>2, FailedFrame

\* Only CreateAssets writes the assets.
LEMMA AssetsFrame == ASSUME Next, assets' # assets PROVE CreateAssets
<1> USE DEF output
<1>1. CASE \E f \in FlagSets : Begin(f)
  BY <1>1 DEF Begin
<1>2. CASE Prepare \/ Build
  BY <1>2
  DEF Prepare, IdentifyNetwork, FetchSnapshot, VerifyNode, ObserveChain,
      OpenSnapshot, Build, MigrateConfig, InstallCore, CreateGenesis, WriteGenesis
<1>3. CASE AutoStart
  BY <1>3
  DEF AutoStart, InstallGenesis, ConfirmStop, ProbeV3, ReconfirmStop, LastProbe,
      ConfirmConfig, CheckPorts, BackupDataDir, BeginCopyLegacyDB,
      EndCopyLegacyDB, ResolveStartCommand, ConfirmPm2, StartPm2
<1>4. CASE Finish \/ HandleError \/ Crash
  BY <1>4 DEF Finish, HandleError, Crash
<1>5. CASE Environment
  BY <1>5 DEF Environment, NewBlock, Finalize, StopV3, RestartV3
<1> QED
  BY <1>1, <1>2, <1>3, <1>4, <1>5 DEF Next, Proceed

(***************************************************************************)
(* The theorems                                                            *)
(***************************************************************************)
\* The invariant is inductive, together with Inv.
THEOREM WorkInvariance == Spec => [](Inv /\ WorkInv /\ ReportFits)
<1>1. Inv /\ WorkInv /\ ReportFits /\ [Next]_vars => WorkInv' /\ ReportFits'
  <2> SUFFICES ASSUME Inv, WorkInv, ReportFits, [Next]_vars
               PROVE  WorkInv' /\ ReportFits'
    OBVIOUS
  <2>1. CASE Next
    BY <2>1, PrepareWork, BuildWork, AutoStartWork, OtherWork, ReportKept
    DEF Next, Proceed
  <2>2. CASE UNCHANGED vars
    <3>1. WorkInv'
      BY <2>2
      DEF vars, node, control, locals, output, handover, WorkInv, FilesPast,
          InstalledOwn, GenesisLater, HeightsFinal, HeightsAgree, ConfigOwn, ErrorFits
    <3> QED
      BY <3>1, ReportKept
  <2> QED
    BY <2>1, <2>2
<1> QED
  BY <1>1, InitWork, Invariance, PTL DEF Spec

\* If probes answer, a run that reports a failure once the data directory is
\* moved lists every step that is left.
THEOREM EverythingLeftIsListed == ASSUME ProbesAnswer PROVE Spec => []RecoverableOnceMoved
<1>1. ReportFits => RecoverableOnceMoved
  BY DEF ReportFits
<1> QED
  BY <1>1, WorkInvariance, PTL

\* If probes answer, a recovery command repeats only what the handover of an
\* earlier run has done, and only in an offline run.
THEOREM NothingDoneIsListed == ASSUME ProbesAnswer PROVE Spec => []NothingListedTwice
<1>1. ReportFits => NothingListedTwice
  BY DEF ReportFits
<1> QED
  BY <1>1, WorkInvariance, PTL

\* A live run computes assets only from a snapshot that is final.
THEOREM AssetsAreFinal == Spec => AssetsFromFinalSnapshot
<1> DEFINE Final == HeightsAgree /\ finalized >= flags.snapshotHeight
<1>1. WorkInv /\ [Next]_vars => [assets' # assets /\ ~flags.useSnapshot => Final]_vars
  <2> SUFFICES ASSUME WorkInv, Next, assets' # assets, ~flags.useSnapshot
               PROVE  Final
    OBVIOUS
  <2>1. CreateAssets
    BY AssetsFrame
  <2> QED
    BY <2>1 DEF CreateAssets, WorkInv, HeightsFinal
<1> QED
  BY <1>1, WorkInvariance, PTL DEF Spec, AssetsFromFinalSnapshot

\* With the default command, and no file of an earlier run, v4 gets what its
\* operator confirmed.
THEOREM UsesOwnConfig == Spec => V4UsesOwnConfig
<1> DEFINE Own == startCmd = "default" /\ config \in {0, run} => v4'.config = ConfigShown
<1>1. Inv /\ WorkInv /\ [Next]_vars => [v4' # v4 => Own]_vars
  <2> SUFFICES ASSUME Inv, WorkInv, Next, v4' # v4, startCmd = "default",
                      config \in {0, run}
               PROVE  v4'.config = ConfigShown
    OBVIOUS
  <2>1. HandoverStep
    BY HandoverFrame DEF handover
  <2>2. StartPm2 /\ pc = "startPm2"
    BY <2>1 DEF HandoverStep, InstallGenesis, BackupDataDir, BeginCopyLegacyDB,
       EndCopyLegacyDB, StartPm2
  <2>3. v4' = [run |-> run, config |-> config]
    BY <2>2 DEF StartPm2, ConfigsGiven, ConfigFound
  <2>4. config = ConfigShown
    BY <2>2, FlagsAssumption
    DEF WorkInv, ConfigOwn, ConfigShown, AfterConfig, HasGenesis, AfterMove,
        HasLegacy, Ended, Inv, TypeOK
  <2> QED
    BY <2>3, <2>4
<1> QED
  BY <1>1, WorkInvariance, PTL DEF Spec, V4UsesOwnConfig
=============================================================================
