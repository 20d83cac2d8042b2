---------------------------- MODULE LiskMigrator ----------------------------
(***************************************************************************)
(* The lisk-migrator command: LiskMigrator.run (src/index.ts) with the     *)
(* handlers it awaits, beside the Lisk Core v3 node it watches, the        *)
(* operator who answers its prompts, and the files and directories that    *)
(* outlive the process.  Each action is the code between two points where  *)
(* the process waits (an await on the node, on a child process, on the     *)
(* file system or on a prompt); the process may crash at each of them and  *)
(* the operator may run the command again, MaxRuns times in all.           *)
(*                                                                         *)
(* A file of the output directory is the number of the run that wrote it,  *)
(* 0 for none: what matters of its content is whose it is.                 *)
(***************************************************************************)
EXTENDS Integers, FiniteSets

CONSTANTS
    MaxRuns,       \* bound: how often the operator runs the command
    MaxHeight,     \* bound: the last height the v3 chain reaches
    RoundLength,   \* ROUND_LENGTH
    FlagSets,      \* the command lines the operator may use
    NodeInfos,     \* the v3 nodes the command may meet
    ExecCodes,     \* exit codes of failing child processes
    ProbeMayFail,  \* TRUE: v3 may run and yet not answer isLiskCoreV3Running
    CommandsFileWritable  \* FALSE: writing commandsToExecute.txt may fail

ASSUME BoundsAssumption ==
    /\ MaxRuns \in Nat
    /\ MaxHeight \in Nat
    /\ RoundLength \in Nat \ {0}

\* 'network' excludes the automatic steps, and the snapshot flags need it.
ASSUME FlagsAssumption ==
    /\ FlagSets \subseteq [useSnapshot : BOOLEAN, autoMigrate : BOOLEAN,
                           autoStart : BOOLEAN, snapshotHeight : Nat]
    /\ \A f \in FlagSets : f.useSnapshot => ~f.autoMigrate /\ ~f.autoStart

ASSUME EnvironmentAssumption ==
    /\ NodeInfos \subseteq [known : BOOLEAN, backupHeight : Nat,
                            version : {"invalid", "old", "supported"}]
    /\ ExecCodes \subseteq Nat \ {0}
    /\ ProbeMayFail \in BOOLEAN
    /\ CommandsFileWritable \in BOOLEAN

VARIABLES
    \* The v3 node; its answer to getNodeInfo, heights apart, does not change.
    nodeInfo, nodeUp, height, finalized,
    \* The process; a crash loses it.
    pc,          \* where run() waits
    run,         \* the number of the current or last run
    flags,       \* its command line
    code,        \* the code of the error the outer catch handles
    client,      \* the cached API client (client.ts)
    tries,       \* numTriesLeft of the loop that waits for v3 to stop
    startCmd,    \* liskCoreStartCommand (node.ts)
    \* The output directory.
    assets, config, genesis, forging, commands,
    \* What the automatic start hands over to Lisk Core v4.
    installed,   \* the run whose genesis block is in the v4 network directory
    dataDir,     \* the v3 data directory: where it was, or at the backup path
    legacyDb,    \* the v4 legacy database
    v4           \* the run that started v4, and the config.json v4 was given

node     == <<nodeInfo, nodeUp, height, finalized>>
control  == <<pc, code>>
locals   == <<run, flags, client, tries, startCmd>>
output   == <<assets, config, genesis, forging, commands>>
handover == <<installed, dataDir, legacyDb, v4>>
vars     == <<node, control, locals, output, handover>>

Runs    == 1..MaxRuns
Heights == 0..MaxHeight

(***************************************************************************)
(* Error codes and the recovery commands listed for them                   *)
(***************************************************************************)
\* Number(error.code) of an error without a code, or with one such as ENOENT.
NaN == -1
INVALID_CONFIG         == 1
GENESIS_BLOCK_CREATE   == 2
LISK_CORE_START        == 3
BACKUP_LEGACY_DATA_DIR == 4
COPY_LEGACY_DB         == 5

Codes == {NaN} \cup 1..5 \cup ExecCodes
Steps == {"genesis", "backup", "copy", "start"}

\* Mutants: COPY_LEGACY_DB also in the list of the backup, or missing from that
\* of the start.
CodesListing_BackupAgain ==
    [genesis |-> {1, 2}, backup |-> {1, 2, 4, 5}, copy |-> {1, 2, 4, 5},
     start |-> 1..5]
CodesListing_NoStart ==
    [genesis |-> {1, 2}, backup |-> {1, 2, 4}, copy |-> {1, 2, 4, 5},
     start |-> 1..4]

\* The four lists of codes in the outer catch (code 0 is thrown nowhere).
CodesListing ==
    [genesis |-> {1, 2}, backup |-> {1, 2, 4}, copy |-> {1, 2, 4, 5},
     start |-> 1..5]

RecoverySteps(c) == {s \in Steps : c \in CodesListing[s]}

NoCommands == [run |-> 0, steps |-> {}]
NoV4       == [run |-> 0, config |-> 0]

Locations == {"identify", "fetch", "verify", "observe", "openDB", "assets",
              "config", "install", "createGenesis", "writeGenesis",
              "installGenesis", "confirmStop", "probe", "reconfirm",
              "lastProbe", "confirmConfig", "ports", "backup", "copy",
              "copying", "resolve", "confirmPm2", "startPm2", "finish",
              "handleError"}

\* "failed" is the error run() reports itself, once the recovery commands are
\* written; "rejected" one that leaves run() from anywhere else.
Ended == {"off", "failed", "rejected", "done"}

\* From the moment the operator says that v3 is stopped.
StopConfirmed == {"probe", "reconfirm", "lastProbe", "confirmConfig", "ports",
                  "backup", "copy", "copying", "resolve", "confirmPm2",
                  "startPm2"}

TypeOK ==
    /\ nodeInfo \in NodeInfos
    /\ nodeUp \in BOOLEAN /\ height \in Heights /\ finalized \in 0..height
    /\ pc \in Locations \cup Ended
    /\ run \in 0..MaxRuns
    /\ flags \in FlagSets
    /\ code \in Codes
    /\ client \in {"none", "connected", "subscribed", "dead"}
    /\ tries \in 0..3
    /\ startCmd \in {"none", "default", "custom", "base"}
    /\ assets \in 0..MaxRuns /\ config \in 0..MaxRuns
    /\ genesis \in 0..MaxRuns /\ forging \in 0..MaxRuns
    /\ commands \in [run : 0..MaxRuns, steps : SUBSET Steps]
    /\ installed \in 0..MaxRuns
    /\ dataDir \in {"home", "backup"}
    /\ legacyDb \in {"absent", "partial", "complete"}
    /\ v4 \in [run : 0..MaxRuns, config : 0..MaxRuns]

Init ==
    /\ nodeInfo \in NodeInfos
    /\ nodeUp \in BOOLEAN /\ height \in Heights /\ finalized \in 0..height
    /\ pc = "off" /\ run = 0 /\ flags \in FlagSets /\ code = NaN
    /\ client = "none" /\ tries = 0 /\ startCmd = "none"
    /\ assets = 0 /\ config = 0 /\ genesis = 0 /\ forging = 0
    /\ commands = NoCommands
    /\ installed = 0 /\ dataDir = "home" /\ legacyDb = "absent" /\ v4 = NoV4

(***************************************************************************)
(* Control                                                                 *)
(***************************************************************************)
Goto(l) == pc' = l /\ UNCHANGED code

\* An exception that reaches the outer catch.
Fail(c) == pc' = "handleError" /\ code' = c

\* Inside startLiskCore and the auto-start block every exception that is no
\* MigratorException is turned into one with code LISK_CORE_START.
FailStart == Fail(LISK_CORE_START)

\* The process ends; its memory goes with it.
Exit(l) ==
    /\ pc' = l
    /\ client' = "none" /\ tries' = 0 /\ startCmd' = "none"
    /\ UNCHANGED <<run, flags>>

(***************************************************************************)
(* From the command line to the database                                   *)
(***************************************************************************)
Begin(f) ==
    /\ pc \in Ended
    /\ run < MaxRuns
    /\ run' = run + 1
    /\ flags' = f
    /\ code' = NaN
    /\ pc' = "identify"
    /\ UNCHANGED <<node, client, tries, startCmd, output,
                   handover>>

\* getNetworkIdentifier, outside every try: when no v3 node answers, run()
\* rejects and leaves nothing behind.
IdentifyNetwork ==
    /\ pc = "identify"
    /\ \/ /\ flags.useSnapshot
          /\ Goto("fetch")
          /\ UNCHANGED locals
       \/ /\ ~flags.useSnapshot /\ nodeUp
          /\ client' = "connected"
          /\ Goto("verify")
          /\ UNCHANGED <<run, flags, tries, startCmd>>
       \/ /\ ~flags.useSnapshot /\ ~nodeUp
          /\ Exit("rejected") /\ UNCHANGED code
    /\ UNCHANGED <<node, output, handover>>

\* downloadAndExtract or extractTarBall.
FetchSnapshot ==
    /\ pc = "fetch"
    /\ Goto("openDB") \/ Fail(NaN)
    /\ UNCHANGED <<node, locals, output, handover>>

HeightsAgree ==
    /\ flags.snapshotHeight = nodeInfo.backupHeight
    /\ flags.snapshotHeight % RoundLength = 0

\* The network has an entry in NETWORK_CONSTANT; a --network flag always has.
NetworkKnown == flags.useSnapshot \/ nodeInfo.known

NodeAccepted ==
    /\ flags.autoStart => nodeInfo.known
    /\ nodeInfo.version = "supported"

\* One stretch of code: the subscription to new blocks comes after the checks
\* of the height and before the others.
VerifyNode ==
    /\ pc = "verify"
    /\ \/ /\ client = "dead" \/ ~HeightsAgree
          /\ Fail(NaN)
          /\ UNCHANGED client
       \/ /\ client = "connected" /\ HeightsAgree
          /\ client' = "subscribed"
          /\ IF NodeAccepted THEN Goto("observe") ELSE Fail(NaN)
    /\ UNCHANGED <<node, run, flags, tries, startCmd, output,
                   handover>>

\* Mutants: the height that need not be final (isFinal: false); a rejected poll
\* that is only logged.
ObservedHeight_NotFinal == height
PollRejected_Ignored == FALSE

ObservedHeight == finalized
PollRejected   == client = "dead" /\ Fail(NaN)

\* observeChainHeight: the poll that sees the height final, or the first one
\* to be rejected (SnapshotWatch.tla).
ObserveChain ==
    /\ pc = "observe"
    /\ \/ /\ client = "subscribed" /\ ObservedHeight >= flags.snapshotHeight
          /\ Goto("openDB")
       \/ PollRejected
    /\ UNCHANGED <<node, locals, output, handover>>

\* The two look-ups in NETWORK_CONSTANT throw for a network it does not list.
OpenSnapshot ==
    /\ pc = "openDB"
    /\ \/ NetworkKnown /\ Goto("assets")
       \/ Fail(NaN)
    /\ UNCHANGED <<node, locals, output, handover>>

(***************************************************************************)
(* From the database to the genesis block                                  *)
(***************************************************************************)
\* createAsset.init and writeGenesisAssets.
CreateAssets ==
    /\ pc = "assets"
    /\ \/ /\ assets' = run
          /\ Goto(IF flags.autoMigrate THEN "config" ELSE "install")
       \/ Fail(NaN) /\ UNCHANGED assets
    /\ UNCHANGED <<node, locals, config, genesis, forging, commands,
                   handover>>

\* getConfig, createBackup, migrateUserConfig, validateConfig, writeConfig; a write
\* that fails may leave a part of the file.
MigrateConfig ==
    /\ pc = "config"
    /\ \/ config' = run /\ Goto("install")
       \/ Fail(INVALID_CONFIG) /\ UNCHANGED config
       \/ Fail(NaN) /\ config' \in {config, run}
    /\ UNCHANGED <<node, locals, assets, genesis, forging, commands,
                   handover>>

\* The error of exec carries the exit code of the command as its code, or null.
InstallCore ==
    /\ pc = "install"
    /\ Goto("createGenesis") \/ \E c \in ExecCodes \cup {NaN} : Fail(c)
    /\ UNCHANGED <<node, locals, output, handover>>

\* Mutant: the failure of genesis-block:create is only logged.
CreateBlockFails_Logged == UNCHANGED genesis /\ Goto("writeGenesis")

CreateBlockFails == UNCHANGED genesis /\ Fail(GENESIS_BLOCK_CREATE)

\* getBlockHeaderByHeight, then lisk-core genesis-block:create.
CreateGenesis ==
    /\ pc = "createGenesis"
    /\ \/ genesis' = assets /\ Goto("writeGenesis")
       \/ CreateBlockFails
       \/ Fail(NaN) /\ UNCHANGED genesis
    /\ UNCHANGED <<node, locals, assets, config, forging, commands, handover>>

\* Checksums and tarballs; the automatic start follows, or the end.
WriteGenesis ==
    /\ pc = "writeGenesis"
    /\ \/ Goto(IF flags.autoStart THEN "installGenesis" ELSE "finish")
       \/ Fail(NaN)
    /\ UNCHANGED <<node, locals, output, handover>>

(***************************************************************************)
(* The automatic start of Lisk Core v4                                     *)
(***************************************************************************)
\* configCoreV4, which the operator is asked to confirm: the configuration this
\* run migrated, or the packaged default (0).
ConfigShown == IF flags.autoMigrate THEN run ELSE 0

\* Mutant: the migrated file is looked for under a name nobody writes.
ConfigFound_OtherName == 0

\* getFinalConfigPath: config.json of the output directory if there is one.
ConfigFound == config

InstallGenesis ==
    /\ pc = "installGenesis"
    /\ \/ installed' = genesis /\ Goto("confirmStop")
       \/ FailStart /\ UNCHANGED installed
    /\ UNCHANGED <<node, locals, output, dataDir, legacyDb, v4>>

\* The operator says that v3 is stopped, or leaves.
ConfirmStop ==
    /\ pc = "confirmStop"
    /\ \/ tries' = 3 /\ Goto("probe")
       \/ FailStart /\ UNCHANGED tries
    /\ UNCHANGED <<node, run, flags, client, startCmd,
                   output, handover>>

\* isLiskCoreV3Running: a new connection and getNodeInfo; any error is taken
\* for a node that is down.  No later step uses the client it caches.
ProbeAnswers == {nodeUp} \cup (IF ProbeMayFail THEN {FALSE} ELSE {})

ProbeV3 ==
    /\ pc = "probe"
    /\ tries' = tries - 1
    /\ \E isRunning \in ProbeAnswers :
           Goto(IF isRunning THEN "reconfirm" ELSE "confirmConfig")
    /\ UNCHANGED <<node, run, flags, client, startCmd,
                   output, handover>>

\* Mutants: no last probe after the third answer; the loop goes on below 0.
AfterReconfirm_NoLastProbe == IF tries = 0 THEN "confirmConfig" ELSE "probe"
AfterReconfirm_Forever == "probe"

AfterReconfirm == IF tries = 0 THEN "lastProbe" ELSE "probe"

ReconfirmStop ==
    /\ pc = "reconfirm"
    /\ Goto(AfterReconfirm) \/ FailStart
    /\ UNCHANGED <<node, locals, output, handover>>

LastProbe ==
    /\ pc = "lastProbe"
    /\ \E isRunning \in ProbeAnswers :
           IF isRunning THEN FailStart ELSE Goto("confirmConfig")
    /\ UNCHANGED <<node, locals, output, handover>>

\* Declining is no error: the run ends as a success.
ConfirmConfig ==
    /\ pc = "confirmConfig"
    /\ Goto("ports") \/ Goto("finish")
    /\ UNCHANGED <<node, locals, output, handover>>

\* startLiskCore probes the port of network.port twice: rpcPort is computed
\* from it too.
CheckPorts ==
    /\ pc = "ports"
    /\ Goto("backup") \/ FailStart
    /\ UNCHANGED <<node, locals, output, handover>>

\* renameSync: whole or not at all.
BackupDataDir ==
    /\ pc = "backup"
    /\ \/ dataDir' = "backup" /\ Goto("copy")
       \/ Fail(BACKUP_LEGACY_DATA_DIR) /\ UNCHANGED dataDir
    /\ UNCHANGED <<node, locals, output, installed, legacyDb, v4>>

\* Mutant: a failing copy is only logged.
CopyFails_Logged == Goto("resolve") /\ UNCHANGED legacyDb

CopyFails == Fail(COPY_LEGACY_DB) /\ UNCHANGED legacyDb

\* copyDir creates the directory and then copies file by file.
BeginCopyLegacyDB ==
    /\ pc = "copy"
    /\ \/ legacyDb' = "partial" /\ Goto("copying")
       \/ CopyFails
    /\ UNCHANGED <<node, locals, output, installed, dataDir, v4>>

EndCopyLegacyDB ==
    /\ pc = "copying"
    /\ \/ legacyDb' = "complete" /\ Goto("resolve")
       \/ CopyFails
    /\ UNCHANGED <<node, locals, output, installed, dataDir, v4>>

\* resolveLiskCoreStartCommand: the default command, one with the operator's
\* flags, or the bare one after too many invalid answers (StartCommand.tla).
ResolveStartCommand ==
    /\ pc = "resolve"
    /\ \/ startCmd' \in {"default", "custom", "base"} /\ Goto("confirmPm2")
       \/ FailStart /\ UNCHANGED startCmd
    /\ UNCHANGED <<node, run, flags, client, tries, output,
                   handover>>

ConfirmPm2 ==
    /\ pc = "confirmPm2"
    /\ Goto("startPm2") \/ FailStart
    /\ UNCHANGED <<node, locals, output, handover>>

\* The configuration the start command names; the operator's own flags may or
\* may not name the file found.
ConfigsGiven ==
    CASE startCmd = "default" -> {ConfigFound}
      [] startCmd = "custom"  -> {0, ConfigFound}
      [] OTHER                -> {0}

\* installPM2, the pm2 file, pm2 start.
StartPm2 ==
    /\ pc = "startPm2"
    /\ \/ /\ \E c \in ConfigsGiven : v4' = [run |-> run, config |-> c]
          /\ Goto("finish")
       \/ FailStart /\ UNCHANGED v4
    /\ UNCHANGED <<node, locals, output, installed, dataDir, legacyDb>>

(***************************************************************************)
(* The end of a run                                                        *)
(***************************************************************************)
\* writeCommandsToExec: the file is written only when there is a recovery
\* command, or a validator to register, to put into it.
WriteCommands(recovery) ==
    IF recovery = {} /\ forging = 0
    THEN UNCHANGED commands
    ELSE commands' = [run |-> run, steps |-> recovery]

WriteFails == ~CommandsFileWritable /\ UNCHANGED commands

Finish ==
    /\ pc = "finish"
    /\ \/ WriteCommands({}) /\ Exit("done")
       \/ WriteFails /\ Exit("rejected")
    /\ UNCHANGED <<node, code, assets, config, genesis, forging, handover>>

\* The outer catch; networkConstant.name throws there for an unknown network.
HandleError ==
    /\ pc = "handleError"
    /\ \/ NetworkKnown /\ WriteCommands(RecoverySteps(code)) /\ Exit("failed")
       \/ ~NetworkKnown /\ UNCHANGED commands /\ Exit("rejected")
       \/ WriteFails /\ Exit("rejected")
    /\ UNCHANGED <<node, code, assets, config, genesis, forging, handover>>

\* The process is killed, or the machine goes down.
Crash ==
    /\ pc \notin Ended
    /\ Exit("off")
    /\ UNCHANGED <<node, code, output, handover>>

(***************************************************************************)
(* The v3 node and its operator                                            *)
(***************************************************************************)
\* The handler captureForgingStatusAtSnapshotHeight subscribes, at the block of
\* the snapshot height: a list of validators that is not empty is written.
CaptureForgingStatus(h) ==
    IF client = "subscribed" /\ h = flags.snapshotHeight
    THEN forging' \in {forging, run}
    ELSE UNCHANGED forging

NewBlock ==
    /\ nodeUp
    /\ height < MaxHeight
    /\ height' = height + 1
    /\ CaptureForgingStatus(height + 1)
    /\ UNCHANGED <<nodeInfo, nodeUp, finalized, control, locals, assets, config,
                   genesis, commands, handover>>

Finalize ==
    /\ nodeUp
    /\ finalized < height
    /\ finalized' = finalized + 1
    /\ UNCHANGED <<nodeInfo, nodeUp, height, control, locals, output, handover>>

\* The connection of a cached client does not survive its node.
StopV3 ==
    /\ nodeUp
    /\ nodeUp' = FALSE
    /\ client' = IF client = "none" THEN "none" ELSE "dead"
    /\ UNCHANGED <<nodeInfo, height, finalized, control, run, flags, tries,
                   startCmd, output, handover>>

\* The node needs its data directory; an operator who has said that v3 is
\* stopped does not start it again in the same run.
RestartV3 ==
    /\ ~nodeUp
    /\ dataDir = "home"
    /\ pc \notin StopConfirmed
    /\ nodeUp' = TRUE
    /\ UNCHANGED <<nodeInfo, height, finalized, control, locals, output, handover>>

(***************************************************************************)
(* The specification                                                       *)
(***************************************************************************)
Prepare ==
    \/ IdentifyNetwork \/ FetchSnapshot \/ VerifyNode \/ ObserveChain
    \/ OpenSnapshot
Build ==
    \/ CreateAssets \/ MigrateConfig \/ InstallCore \/ CreateGenesis
    \/ WriteGenesis
AutoStart ==
    \/ InstallGenesis \/ ConfirmStop \/ ProbeV3 \/ ReconfirmStop \/ LastProbe
    \/ ConfirmConfig \/ CheckPorts \/ BackupDataDir \/ BeginCopyLegacyDB
    \/ EndCopyLegacyDB \/ ResolveStartCommand \/ ConfirmPm2 \/ StartPm2

\* The steps the process takes by itself once it has its answer.
Proceed == Prepare \/ Build \/ AutoStart \/ Finish \/ HandleError

Environment == NewBlock \/ Finalize \/ StopV3 \/ RestartV3

Next == (\E f \in FlagSets : Begin(f)) \/ Proceed \/ Crash \/ Environment

Spec == Init /\ [][Next]_vars

\* Prompts are answered, child processes and I/O come back, and the chain of a
\* running v3 node grows and becomes final.
FairSpec ==
    /\ Spec
    /\ WF_vars(Proceed)
    /\ WF_vars(NewBlock)
    /\ WF_vars(Finalize)

(***************************************************************************)
(* Properties                                                              *)
(***************************************************************************)
\* The v3 data directory is renamed only while the v3 node is down, whatever
\* the operator answered (index.ts, the loop over isLiskCoreV3Running).
DataMovedOnlyWhenStopped == [][dataDir' # dataDir => ~nodeUp]_vars

\* v3 and v4 never run together: a validator on both would forge twice.
SingleActiveNode == ~(nodeUp /\ v4 # NoV4)

\* v4 is started by a run that put its own genesis block, made from its own
\* assets, into the network directory, with the legacy database whole.
V4StartsFromOwnGenesis ==
    [][v4' # v4 => /\ assets = run /\ genesis = run /\ installed = run
                   /\ dataDir = "backup" /\ legacyDb = "complete"]_vars

\* A live run computes assets only from a state that is final at a height the
\* node made its backup at, a multiple of the round length.
AssetsFromFinalSnapshot ==
    [][assets' # assets /\ ~flags.useSnapshot =>
           HeightsAgree /\ finalized >= flags.snapshotHeight]_vars

\* With the default start command v4 gets the configuration that the operator
\* was shown and confirmed, unless an earlier run has
\* left one (index.ts:416 and getFinalConfigPath in node.ts).
V4UsesOwnConfig ==
    [][v4' # v4 /\ startCmd = "default" /\ config \in {0, run} =>
           v4'.config = ConfigShown]_vars

\* What a migration with automatic start still lacks.
Pending ==
    {s \in Steps :
        CASE s = "genesis" -> genesis # run
          [] s = "backup"  -> dataDir = "home"
          [] s = "copy"    -> legacyDb # "complete"
          [] s = "start"   -> v4 = NoV4}

Listed == IF commands.run = run THEN commands.steps ELSE {}

\* Once the data directory is moved no further run can finish the migration
\* (the v3 node cannot start), so a run that reports a failure after that lists
\* every step that is left, for whatever reason it failed (index.ts:463-537).
RecoverableOnceMoved ==
    pc = "failed" /\ dataDir = "backup" /\ installed = run => Pending \subseteq Listed

\* A recovery command may ask for what is done already, as the lists go by the
\* error code alone (index.ts:463-537): v4 has its data where v3 had it, and a
\* second mv would take it away.  It happens to an offline run only, to no live
\* one, and only for what the handover of an earlier run has done: never for
\* what the run has done itself.
NothingListedTwice ==
    pc = "failed" =>
        \A s \in Listed \ Pending :
            flags.useSnapshot /\ s # "genesis" /\ installed \in 1..(run - 1)

\* Every run comes to an end once prompts are answered and heights become
\* final: no poll, loop or prompt keeps it forever.
RunEnds == pc \notin Ended ~> pc \in Ended

\* The migrator implements the promise of Handover.
Promise == INSTANCE Handover WITH
               v3 <- nodeUp, data <- dataDir, legacy <- legacyDb,
               genesis <- installed # 0, v4 <- v4 # NoV4
HandoverKept == Promise!Spec

(***************************************************************************)
(* What the program says of itself and does not keep                       *)
(***************************************************************************)
\* index.ts:415: "Start Lisk Core with the following configuration?"
V4UsesConfirmedConfig ==
    [][v4' # v4 /\ startCmd = "default" => v4'.config = ConfigShown]_vars

\* commands.ts:79: the listed commands "finish the migration successfully".
RecoveryCoversPending ==
    pc = "failed" /\ flags.autoStart /\ Listed # {} => Pending \subseteq Listed

\* index.ts:407: "Cannot auto-start Lisk Core v4 as Lisk Core v3 is still
\* running", even if v3 is too busy to answer.
NoStartBesideV3 == [][v4' # v4 => ~nodeUp]_vars
=============================================================================
