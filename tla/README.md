# A TLA+ model of lisk-migrator

`lisk-migrator` moves a validator node from Lisk Core v3 to Lisk Core v4. One
command waits until the v3 chain is final at the snapshot height, reads the
snapshot database, computes the genesis assets of v4, has Lisk Core v4 build a
genesis block from them and, when asked to, starts v4 in its place. It is a single
process with many places to wait, next to a node it does not control and an
operator who may answer anything, kill it, and run it again in the same
directories. Source paths below are relative to the
repository; line numbers are those of this commit.

## 1. Inventory

| component | source | state it keeps | operations |
|---|---|---|---|
| Command flow | `src/index.ts`, `utils/exception.ts`, `utils/process.ts` | where `run()` waits, the flags, the error in the outer `catch` | the awaits of `run()` in order; the inner `catch` of the automatic start; the outer `catch` that lists recovery commands |
| Automatic start | `utils/node.ts`, `utils/network.ts` | `liskCoreStartCommand`; the v3 data directory, the v4 legacy database, the v4 network directory, pm2 | `isLiskCoreV3Running`, `isPortAvailable`, `backupLegacyDataDir`, `copyLegacyDB`, `resolveLiskCoreStartCommand`, `startLiskCore` |
| Commands file | `utils/commands.ts` | `commandsToExecute.txt`, `forgingStatus.json` | `writeCommandsToExec` |
| Waiting for the snapshot | `utils/chain.ts`, `client.ts`, `events.ts` | the cached API client, the interval, requests on their way, the subscription | `observeChainHeight`, `captureForgingStatusAtSnapshotHeight` |
| Genesis block files | `utils/genesis_block.ts` | the output directory; `genesisBlockCreateCommand` | `createGenesisBlock`, `writeGenesisBlock`, `writeGenesisAssets` |
| Scan for public keys | `utils/block.ts`, `utils/transaction.ts` | `startingKey`, `lastKey`, `exist`, the result | `getBlockPublicKeySet`, `getTransactionPublicKeySet`, `incrementOne` |
| Genesis assets | `createAsset.ts`, `assets/*.ts` | the accounts, `totalLSKSupply`, `legacyReserveAmount`, the lists of each module | `CreateAsset.init`, `createGenesisDataObj`, ... |
| Configuration migration | `utils/config.ts` | the merged v3 and the changed v4 configuration; `backup/config.json`, `config.json` of the output directory | `getConfig`, `createBackup`, `migrateUserConfig`, `validateConfig`, `writeConfig` |
| Snapshot source | `utils/download.ts`, `utils/fs.ts`, `utils/path.ts` | the archive and its `.SHA256` file, the directory of the extraction, the streams under way | `downloadAndExtract`, `download`, `verifyChecksum`, `extractTarBall`, `resolveSnapshotPath` |
| Data and declarations | `constants.ts`, `schemas.ts`, `types.ts`, `utils/number.ts`, `assets/interoperability.ts` | none | none |

How they interact: `run()` awaits every other component in turn, in one
process. They share the file system (the output directory, the v3 data
directory, the v4 network directory) and a few module variables
(`clientCache`, `liskCoreStartCommand`, `genesisBlockCreateCommand`,
`legacyReserveAmount`, `totalLSKSupply`). Callbacks come from the v3 node (a
block event), from the interval timer and from database streams, and run
between any two awaits.

What is hard:

* **Order across runs.** Files outlive the process. A run that fails or is
  killed leaves a genesis block, a configuration, a moved data directory, half
  of a legacy database; the next run meets them.
* **The v3 node and the operator act by themselves.** A node can stop, or turn
  out to be running, between any two steps; the operator answers "stopped"
  when it is not.
* **Late and overlapping answers.** The timer does not wait for the poll
  before; blocks that are not final are replaced; stream handlers are async.
* **Partial failure.** Every child process, prompt and file operation can fail,
  and the recovery commands must fit the place of the failure.
* **Streams that answer for one another.** A download listens to its file only,
  an extraction to its archive only, a block handler to nothing.
* **Boundaries.** Pages of the scan, rounds, tries of the two prompt loops.

What makes each component correct:

* Command flow and automatic start: v3 and v4 never run together; the data
  directory moves only while v3 is down; v4 starts on this run's genesis block
  and a whole legacy database; a failure after the move lists all that is left,
  and no step that the run itself has done; every run ends.
* Waiting: `run()` goes on only at a final height; the wait ends; no poll starts
  behind a wait that has succeeded.
* Scan: no record is missed, nothing is read twice, the loop ends.
* Assets: supply, balances, locked amounts and stakes agree, and no value is lost
  that the code does not drop; the lists are sorted; signing keys, generator keys and first validators are the right ones.
* Snapshot source: the database that is opened comes from one archive, the one
  the server's checksum names, and is complete (it need not be: section 5).
* Configuration migration: v4 gets what the operator told v3; a configuration
  that is written is valid and its original backed up; no log is lost.
* Start command: only a well-formed command line is taken; the dialogue ends.

## 2. Modules

| module | models | proofs |
|---|---|---|
| `Handover` | the promise of an automatic migration, with nothing of how it is kept | |
| `LiskMigrator` | the whole command over several runs, next to the v3 node and its operator | `LiskMigratorProofs` |
| `FinalityWait` | what `run()` relies on when it awaits `observeChainHeight` | |
| `SnapshotWatch` | the two waits that `LiskMigrator` has as one step (`ObserveChain`) and one event (`CaptureForgingStatus`) | `SnapshotWatchProofs` |
| `SnapshotSource` | what `LiskMigrator` has as `FetchSnapshot` and `OpenSnapshot` | `SnapshotSourceProofs` |
| `KeyScan` | the page loop of the two scans inside `CreateAssets` | `KeyScanProofs` |
| `GenesisAssets` | the computation inside `CreateAssets` | `GenesisAssetsProofs` |
| `Lists` | `reduce`, `filter` and `sort` of arrays, as `createAsset.ts` uses them | `ListLemmas` |
| `ConfigMigration` | what `LiskMigrator` has as `MigrateConfig` | `ConfigMigrationProofs` |
| `StartCommand` | the dialogue inside `ResolveStartCommand` | `StartCommandProofs` |
| `MC*` | instances for TLC | |

`LiskMigrator` composes the process, the node and the operator and refines
`Handover` by a mapping stated in it (`Promise`); `SnapshotWatch` refines
`FinalityWait` (`Wait`). The other modules look inside one step of
`LiskMigrator` each; the outcomes that step has (done, or one of the errors) are
the ends of the inner module.

### LiskMigrator

One action per stretch of code between two waits. `pc` names the wait.

| actions | code |
|---|---|
| `Begin`, `IdentifyNetwork` | `index.ts:158-196`, outside every `try` |
| `FetchSnapshot`, `VerifyNode`, `ObserveChain`, `OpenSnapshot` | `index.ts:201-283` |
| `CreateAssets`, `MigrateConfig`, `InstallCore` | `index.ts:286-339` |
| `CreateGenesis`, `WriteGenesis` | `genesis_block.ts` |
| `InstallGenesis`, `ConfirmStop`, `ProbeV3`, `ReconfirmStop`, `LastProbe`, `ConfirmConfig` | `index.ts:363-431` |
| `CheckPorts` ... `StartPm2` | `startLiskCore` and what it calls |
| `Finish`, `HandleError` | `index.ts:437-548`, `writeCommandsToExec` |
| `Crash` | the process is killed at a wait |
| `NewBlock`, `Finalize`, `StopV3`, `RestartV3` | the v3 node (external) |

A run ends as `done`; as `failed`, the error that `run()` reports itself once
the recovery commands are written; as `rejected`, an error from outside the
outer `try` or from inside its `catch`, which lists nothing; or `off`, killed.

A file of the output directory is modelled by the number of the run that wrote
it (0: none). That is what tells a stale file from a fresh one, and it is all
the properties ask of its content. `code` is `Number(error.code)`: the five
codes of the migrator, the exit codes of child processes (`ExecCodes`, which may
collide with the five, as an exit status of 1 does) and `NaN`.

Two assumptions on the world are explicit. `RestartV3` has a guard: an operator
who has told the migrator that v3 is stopped does not start it again in that
run. Without it nothing that a probe found could still be true when the
directory is moved. `ProbeMayFail` says whether a running node may fail to
answer `isLiskCoreV3Running`; the safety results hold when it does not, and run
`probe` shows what happens when it does.

### SnapshotWatch

`observeChainHeight` with `isFinal`: the first request, the interval, up to
`Polls` requests on their way in any order, the promise that is settled once.
A rejection does not clear the interval (`chain.ts:126`): polls start until the
process ends, on a connection that is lost.
The block handler of `events.ts` runs once for each block at the snapshot
height; non-final blocks can be deleted and replaced. A lost connection rejects
a request, and the outer `catch` ends the process (`ended`). A handler that is
still waiting for the forging status then rejects outside its `try`, and nobody
awaits it: Node ends the process (`died`). The abstract wait of `FinalityWait`
has an outcome that is decided once; the mapping calls both ends `lost`.

### SnapshotSource

A part of a database is the number of the archive it comes from. The server may
publish a new archive at any time; the files of the output directory and the
directory of the extraction outlive a run; tar creates the one directory an
archive holds (`entry`) and then writes its parts in any order while the process
runs, also behind the promise of `extractTarBall`; and the process may be killed.
`resolveSnapshotPath` asks for an entry and for nothing in it. What happens when a stream breaks is taken from who
listens to it: `caught` by the outer `catch`, `died` of an `error` event without
a listener (tar, and the write stream before the response is there), `silent`
when a promise never settles and the event loop runs empty.

| actions | code |
|---|---|
| `Begin` | `index.ts:201-208` |
| `StartDownload`, `GetResponse`, `EndDownload`, `LoseResponse` | `download.ts:35-57`, for the archive and then its checksum |
| `VerifyChecksum` | `download.ts:59-103` |
| `StartExtraction`, `MakeEntry`, `WritePart`, `EndReading`, `TarFails` | `fs.ts:18-31` |
| `OpenDatabase` | `path.ts:42-54`, `index.ts:273-283` |

### ConfigMigration

A setting is one of those with a v3 counterpart (`Carried`) or one that is filled
in with a constant (`Filled`); `Packaged` are those the packaged v4 configuration
has. Its value is where it comes from (the data directory, the operator's own
file, the package, a constant), with two values apart that the code treats
differently: `falsy`, which each `if (configV3...)` passes over, and `bad`, which
the v4 schema refuses. A `writeFileSync` that fails may leave a part of its file
(`Truncated`). Log levels are their priorities, 6 standing for a level
`LOG_LEVEL_PRIORITY` does not list.

### KeyScan

`getBlockPublicKeySet` and `getTransactionPublicKeySet` have the same loop. A
page is a read stream (`gte`, `limit`); each `data` event queues the rest of its
async handler; `end` resolves the page's promise. `NextPage` runs behind the
queued handlers: microtasks run in the order they were queued, and the mutant
`HandlersDone_NotAwaited` shows what rests on that. Keys are sequences of bytes
of different lengths, as `keystring(...)` makes them: no key is a prefix of
another, and none ends in the byte 255. The upper bound of the streams (`lte`, the
last key of the prefix) is left out: databases hold the records of the prefix
alone. That is `KeysAssumption`; with it
`incrementOne` never carries (`NoCarry` in `KeyScanProofs`).

### GenesisAssets

One action per stage of `CreateAsset.init`, and one per account of its loop.
The auth entries carry the signing keys, sorted by `authKeys`. Sums, filters and
sorts are the operators of `Lists`, whose definitions the proofs can expand:
`SortBy` applies the stable permutation that orders the keys.
Addresses are numbers and a public key is its owner's address. The banned map
is keyed by `Buffer` objects and compared by identity, hence
`AccountBanned(a) == FALSE`.

### StartCommand

A word of an answer is one of six kinds (a listed flag without or with a value,
a part of a listed option, an unknown flag, the network flag, a value). The
loop over `numTriesLeft` is modelled as written: its error is unreachable.

## 3. Runs

| run | question | instance |
|---|---|---|
| `runs` | Is the handover safe, run after run, are the recovery commands right, does each run end, and is `Handover` implemented? | 2 runs, 5 command lines (manual, offline, start, migrate + start, a height off the round), 5 v3 nodes, heights to 3, rounds of 2, exit codes 1 and 127, unwritable commands file, crashes anywhere |
| `key_scan` | Is the scan complete, and does it end? | 16 keys of 3 to 5 bytes, databases of up to 4 records, page sizes 1 to 3 |
| `genesis_assets` | Do the assets fit together? | up to 4 accounts with the reserve, malformed address, votes, unlocks, registered keys, heights on and off the end of a round |
| `start_command` | Is an accepted command line well formed? | all answers of up to 3 words |
| `snapshot_watch` | Does the wait end, and only at a final height, and does it implement `FinalityWait`? | heights to 3, 2 polls, 2 handlers |
| `snapshot_source` | Is what is opened of one archive, the one its checksum names? | 2 runs, 3 archives of 2 parts, all three sources |
| `config_migration` | Does v4 get what the operator told v3? | 2 carried and 2 filled settings, one of each packaged; 4 log levels, every pair of v3 files |
| `stale_config`, `recovery_gap`, `probe`, `banned`, `early_open` | disagreements, section 5 | |

The properties of the passing runs:

* `SingleActiveNode`, `DataMovedOnlyWhenStopped`, `V4StartsFromOwnGenesis`,
  `AssetsFromFinalSnapshot`, `V4UsesOwnConfig` (unless an earlier run left a
  configuration): each ties what happens at one wait to what was true at an
  earlier one.
* `RecoverableOnceMoved`, `NothingListedTwice`: the table of error codes
  against what is done and what is missing in the directories. The second one
  names its exception, an offline run behind the handover of an earlier run
  (section 5).
* `HandoverKept`: refinement of `Handover`. `RunEnds`: no loop, prompt or poll
  holds a run forever.
* `ScanComplete`, `ScanAdvances`, `ScanEnds`.
* `SupplyMatchesHoldings`, `ValueAccounted`, `LockedMatchesStakes`,
  `SubstoresSorted`, `SignersKept`, `GeneratorKeysFound`, `ValidatorsOfRoundR2`.
  `ValueAccounted` starts from all accounts of the snapshot, those that
  `createAsset.ts:105` drops included, and names where value goes: with these,
  and to the reserve a second time.
* `CustomCommandWellFormed`, `DialogueEnds`.
* `ResolvesOnlyFinal`, `PollingStops`, `WatchEnds`, and `WaitKept`, the
  refinement of `FinalityWait`.
* `OneArchive`, `OpenedIsPublished`: downloads, an extraction and leftovers of
  earlier runs against the database that is opened.
* `OperatorsSettings`, `WrittenValidAndBackedUp`, `NoLogLost`,
  `CertifyAtRoundStart`: what is written against both v3 files, which are not
  looked at again after the first step.

Every one of them is violated by at least one mutant (`PROJECT.json`): a
definition of the model changed as a plausible bug would change the code.

**Bounds.** `MaxRuns` = 2 is the least that has a run meet what another left
behind, and every file is overwritten or reused by the next run, so a third
meets nothing new; for the safety of the handover the proofs remove the bound.
Height 3 has a block before, at and after the snapshot height 2, a multiple of
the round length 2. The exit code 1 is also a code of the migrator, 127 is none.
`numTriesLeft` runs through its 3 tries. In `KeyScan` four
records and pages of 1 to 3 give an empty page, a partial last page, a full
last page and a page boundary between neighbours whose last bytes differ by
one; the proof removes the bound. In `GenesisAssets` one active slot and two
delegates exceed the limit; the heights are inside a round (5) and at the end
of one (6, 8), and ask for a round whose weights list nobody (10) and for one
without weights (12). In
`SnapshotWatch` two polls overlap and can overtake each other; two blocks at
the snapshot height are a block and its replacement. `Polls` and `Handlers` are
bounds in guards: a poll starts when a slot is free, and a block at the
snapshot height is replaced only while a handler is free. In `SnapshotSource`
two parts are the least that can come from two archives, two runs the least
that leaves something behind, and three archives allow a change before a run,
between its two downloads and after; parts are symmetric. In `ConfigMigration`
settings do not depend on each other, and two of each kind give every
combination of a good, a bad and an absent one. The proofs remove the bounds of
`SnapshotSource`, `ConfigMigration`, `GenesisAssets` and `StartCommand` too.

Deadlock is not checked: each of these programs stops.

**Fairness.** `LiskMigrator`: weak fairness of the process's own steps (prompts
are answered, child processes and I/O come back, a request to a lost node is
rejected), of new blocks and of finality. None on `Begin`, `Crash`, `StopV3` or
`RestartV3`. That a request on a lost connection is rejected is a property of
the API client library, not of this repository. `FetchSnapshot` coming back is
an assumption too: a download that never settles (`LoseResponse` in
`SnapshotSource`) ends the process silently, which `RunEnds` would count as
`Crash`. `SnapshotWatch`:
weak fairness of each step of the watcher; strong fairness of `NewBlock` and
`Finalize`, because a block that is deleted again and again disables them
in between, and a chain gets on all the same. `KeyScan` and `StartCommand`: weak
fairness of the loop and of the dialogue. `SnapshotSource`, `ConfigMigration`
and `GenesisAssets` state no liveness: they are sequences of steps without a
loop that waits, and the one wait that may not end is the disagreement above.

## 4. Proofs

`LiskMigratorProofs`, for every number of runs, height, set of command lines,
nodes and exit codes, from `BoundsAssumption`, `FlagsAssumption` and
`EnvironmentAssumption`:

* `Invariance`: `Inv` is inductive, with or without `ProbesAnswer`.
* `TypeCorrect`: `TypeOK`.
* With `ProbesAnswer` (`~ProbeMayFail`): `NeverBothNodes` (`SingleActiveNode`),
  `MovedOnlyWhenStopped` (`DataMovedOnlyWhenStopped`), `StartsFromOwnGenesis`
  (`V4StartsFromOwnGenesis`) and `ImplementsHandover` (`HandoverKept`).

None of these is inductive as it stands: that v3 is down when the directory
moves depends on the probe three waits before. `Inv` adds `TriesLeft` (a probe
is made with a try left), `RunNumbered`, `LiveRuns` (an offline run never gets
to the automatic start), `OwnFiles` (which files are this run's at which wait)
and `DataPlaced` (where the data directory is, whether v3 can run, and how far
the legacy database has come, at each wait). There is one lemma per group of
actions, with a case for each action. The refinement proof rests on two frame
lemmas: only five steps change what is handed over (`HandoverFrame`), and only
the operator changes whether v3 runs (`NodeFrame`).

The second part builds on that invariant. What a run reports depends on
where it failed, and the report is read later, when only `code` is left of the
failure. `WorkInv` therefore says at each wait what is done (`GenesisLater`,
`InstalledOwn`, `FilesPast`, `HeightsFinal`, `ConfigOwn`), and of the error on
its way to the outer `catch` what its code can stand for (`ErrorFits`): once the
data directory has moved it is `COPY_LEGACY_DB` with the copy still to be done,
or `LISK_CORE_START` with the copy complete. `ReportFits` is what the operator
then finds.

* `EverythingLeftIsListed` (`RecoverableOnceMoved`) and `NothingDoneIsListed`
  (`NothingListedTwice`), with `ProbesAnswer`, for exit codes of any value. The
  second one covers offline runs too: what such a run lists and is done already,
  an earlier run's handover has done (`CodeOfEarlier`).
* `AssetsAreFinal` (`AssetsFromFinalSnapshot`), `UsesOwnConfig`
  (`V4UsesOwnConfig`), with no assumption on probes.

`KeyScanProofs`, for every base, set of keys free of prefixes, database and page
size: `IncrementSkipsNothing` (no key of the database lies strictly between a
key and its increment), `Invariance`, `TypeCorrect`, `NoRecordMissed`
(`ScanComplete`) and `PagesAdvance` (`ScanAdvances`). `Inv` says of every record
that it is handled, or waits in front of its handler, in the stream, or behind
the page (`Covered`), and in which order events come (`Ordered`); `FromStart`
adds that nothing of a page lies before its `startingKey`.

`SnapshotWatchProofs`, for any heights and any sets of polls and handlers:
`TypeCorrect`, `OnlyFinal` (`ResolvesOnlyFinal`), `PollingEnds`
(`PollingStops`) and `ImplementsWait` (`WaitKept`). The argument is that an
answer on its way is never ahead of `finalized`, which is in `TypeOK`, and that
the interval is set only while the wait is open or after it was rejected
(`TimerCleared`).

`SnapshotSourceProofs`, for any number of runs, parts and archives:
`TypeCorrect`, `NeverMixed` (`OneArchive`) and `PublishedWhenOpened`
(`OpenedIsPublished`). The invariant follows the archive through the run: what
is fetched is no older than the run, behind `verify` archive and checksum are of
one version, and behind `extract` the directory holds parts of that archive
or nothing, whatever an earlier run had left there. That nothing of a database
may be there when it is opened is not excluded: `TypeCorrect` has the entry only.

`ConfigMigrationProofs`, for any sets of settings: `TypeCorrect`,
`SettingsAreOperators` (`OperatorsSettings`), `ValidWhenWritten`
(`WrittenValidAndBackedUp`) and `LogsAreKept` (`NoLogLost`). The invariant says
what the two configurations are at each step, in terms of the input, the certify
height included. `CertifiedFromRoundStart` (`CertifyAtRoundStart`) needs the
remainder of a sum modulo a round length that is not a number; `Multiple` and
`AddMultiple` bring that down to a product between 0 and the round length.

`ListLemmas` says what the operators of `Lists` compute for every list. A fold
is a recursive function, which is a `CHOOSE`; nothing is known of it until a
function that satisfies its equations has been shown to exist (`FoldExists`).
That is an induction. The library's induction theorems take an operator, which
the provers cannot instantiate, so `Induction` is stated for the members of a
set and comes from `WFMin`, the least element of a well-founded relation.
On it rest

* `TotalPrefix` (`Total` is the last of its partial sums), and with it
  `TotalStep`, `TotalAppend` and `TotalNat`;
* `TotalArranged`: a permutation does not change a sum, by induction on the
  length, with `TotalUpdate` for the element that changes places;
* `SortingExists`: every list of integers has a stable sorting permutation, so
  that `SortBy` is one (`SortByList`);
* `FilterSelects`: `Filter` keeps the elements in the set, all of them, in order;
  `FilterSplits`: what it keeps and what it drops add up to the list.

`GenesisAssetsProofs`, for every snapshot (any number of accounts, votes, keys
and vote weights, any amounts and height), round length and number of slots:
`AssetsInvariant`, `TypeCorrect`, `SupplyIsHeld` (`SupplyMatchesHoldings`),
`ValueIsAccounted` (`ValueAccounted`), `LockedIsStaked` (`LockedMatchesStakes`),
`SubstoresInOrder` (`SubstoresSorted`), `SameSigners` (`SignersKept`),
`GeneratorKeys` (`GeneratorKeysFound`) and `FirstValidators`
(`ValidatorsOfRoundR2`). The properties speak of the end only; `AssetsInv` says
at every account of the loop (`Seen`) what each list has got so far. Its heart is
`SupplyInv`: until the end of the loop, the supply is what the user substore
holds and what the reserve has, if the loop has been at it, since the loop
counts that account and gives it no entry; the entry the reserve gets at the end
settles the difference. That entries are found by address again after
sorting (`StakesOfAddress`, `EntryIsOne`) needs the ascending order that
`AuthInv`, `UserInv`, `ValidatorInv` and `StakerInv` keep. The proofs rest on
`ParametersAssumption`: the accounts come in the order of their addresses, which
is the order of the keys of the database's read stream (`createAsset.ts:95`), and
v3 registers no key twice for an account.

`StartCommandProofs`, for any answers: `TypeCorrect`, `AcceptedIsWellFormed` and
`CustomCommandIsCommand` (`CustomCommandWellFormed`). `VerdictPrefix` turns the
fold of `validateStartCommandFlags` into verdicts word by word; a word is
rejected for good (`NeverRejected` goes back from the last one), and so every
word fits the verdict before it. In the dialogue, `startCmd` is `custom` only
while the answer is the one that was validated.

Only model-checked: the liveness properties (`RunEnds`, `ScanEnds`,
`DialogueEnds`, `WatchEnds`), which are out of the prover's reach. Every other
property of a passing run is a theorem.

## 5. Disagreements

With a run that TLC refutes:

| run | the code | what is said |
|---|---|---|
| `stale_config` | `utils/node.ts:102` takes any `config.json` found in the output directory, also an earlier run's | `index.ts:415` asks to confirm the configuration of this run |
| `recovery_gap` | `index.ts:441` gives every other error of the automatic start the code `LISK_CORE_START`, for which only the start command is listed | `utils/commands.ts:79`: the commands "finish the migration successfully" |
| `probe` | `utils/node.ts:64` takes every error for a node that is down | `index.ts:407`: no start "as Lisk Core v3 is still running" |
| `banned` | `assets/pos.ts:189` looks up a `Map` by another `Buffer` object | `assets/pos.ts:190`: banned accounts are passed over |
| `early_open` | `utils/fs.ts:30` resolves 100 ms after the archive is read, whatever tar has still to write | `index.ts:209`: "Successfully extracted snapshot" |

Also met while reading, without a run:

* `utils/node.ts:183`: the error is unreachable; after a fourth answer, which
  nobody reads, the bare command is used, against `utils/node.ts:189` ("Cannot
  proceed with Lisk Core v4 auto-start."). `StartCommand` has the behaviour.
* `events.ts:36` asks for the status after the event, when the chain may have
  moved on, against `index.ts:234` ("at the snapshot height"); and the call is
  outside the handler's `try`: a node that stops there ends the process without
  the recovery commands that `index.ts:538` promises. `SnapshotWatch` has both.
* `utils/download.ts:51`: a response that breaks off settles nothing; the
  process ends without a word (`silent` in `SnapshotSource`).
* `utils/config.ts:136-232`: a v3 value JavaScript takes for false (0, `false`,
  `""`) is not carried over, against `docs/migration.md:137`.
  `OperatorsSettings` leaves these values out.
* `assets/legacy.ts:33`: a balance of the reserve's own is counted as available
  and as locked; it is the second term on the right of `ValueAccounted`.
* `createAsset.ts:105` drops accounts whose address is not 20 bytes long, with
  their balances, votes and unlocking amounts: `Dropped` in `ValueAccounted`.
* `index.ts:463-537` chooses the recovery commands by the code alone. An offline
  run that fails with code 1 or 2 (an exit status of `npm`, or
  `genesis-block:create`) lists the whole handover, `mv` of the
  data directory first, also when an earlier run has done it. As v4's data
  directory has the place of v3's (`constants.ts:93`), `mv` would then move v4's
  data away. `NothingListedTwice` has this as its exception.
* `utils/chain.ts:126` rejects and leaves the interval on; nothing comes of it, as
  the outer `catch` ends the process. `PollingStops` allows for it.
* `index.ts:453`, `540`: for a code no list contains and no forging status, no
  file is written, and the message names it all the same.
* `index.ts:475`: `getGenesisBlockCreateCommand()` is undefined until
  `createGenesisBlock` has run, but its list is used for code 1, an invalid
  configuration, and for an `npm` that exits with 1 or 2.
* `index.ts:460`: a comma expression; the listed `cp -r` has no source.
* `utils/commands.ts:86`: a run with nothing to list leaves an earlier run's
  file in place.
* `utils/node.ts:211`: `rpcPort` is computed from `network.port`; the RPC port is
  never probed.
* `utils/node.ts:121`, `124`: a flag that is a part of a listed line is accepted;
  the prompt's own example (`:165`, `--api-ws`) is refused, as a flag at the end.
* `docs/migration.md:8` promises `forgingStatus.json`; `events.ts:35` exports it
  only if the block event of the snapshot height arrives while subscribed.
* `docs/migration.md:120` writes to `~/.lisk/lisk-core/config/mainnet`, which
  `verifyOutputPath` (`utils/path.ts:31`) refuses as a path below
  `DEFAULT_LISK_CORE_PATH`; an output path below `--lisk-core-v3-data-path`, which
  `backupLegacyDataDir` then moves away, is not refused.

## 6. Not modelled

* The checks of the command line before the first await and the output path:
  pure functions of the flags. `FlagSets` holds what passes them.
* The text of the commands file, that of each validator's registration
  included, and a commands file half written.
* The eight checksum and tarball files next to the genesis block: `WriteGenesis`
  writes all of them or fails, and nothing in this repository reads them.
* Constant asset fields, interoperability assets, encodings, schemas, logging,
  progress bars: data without state.
* An operator who carries out the recovery commands.

## 7. Plan

The order followed the importance of the behaviour: `Handover` and
`LiskMigrator` first, since everything irreversible happens there; then the
modules inside its steps. What is left:

1. The recovery commands as steps of the operator, so that a failed migration
   can be followed to its end.
2. The files of `writeGenesisBlock` one by one, over runs and crashes: which
   checksum can lie next to which block.
3. The way to the liveness results that a prover can go: that each step of a scan,
   of a dialogue and of a run takes it nearer to its end, as action properties.
