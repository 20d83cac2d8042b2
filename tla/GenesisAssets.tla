---------------------------- MODULE GenesisAssets ----------------------------
(***************************************************************************)
(* How the genesis assets are computed from a snapshot: CreateAsset.init   *)
(* (src/createAsset.ts) and the entries it collects (src/assets).  The     *)
(* amounts, the signing keys, the stakes and the first validators must fit *)
(* together, or Lisk Core v4 refuses the block, or the chain starts with   *)
(* wrong balances.                                                         *)
(*                                                                         *)
(* An address is a number, numbers in the order of the bytes, and a public *)
(* key is the address it belongs to; NoKey stands for INVALID_ED25519_KEY. *)
(***************************************************************************)
EXTENDS Lists

CONSTANTS
    RoundLength,      \* ROUND_LENGTH
    ActiveSlots,      \* the 101 of createGenesisDataObj
    LegacyReserve,    \* ADDRESS_LEGACY_RESERVE
    Snapshots         \* the snapshots to compute assets from

NoKey == 0

Amount == [address : Nat, amount : Nat]

\* The keys registered for an account; v3 registers none twice.
Keys ==
    {keys \in [numberOfSignatures : Nat, mandatory : Seq(Nat), optional : Seq(Nat)] :
        IsInjective(keys.mandatory) /\ IsInjective(keys.optional)}

\* An account of Lisk Core v3, as its schema has it.
Account ==
    [address : Nat, wellFormed : BOOLEAN, balance : Nat, votes : Seq(Amount),
     unlocking : Seq(Amount), delegate : BOOLEAN, banned : BOOLEAN, keys : Keys]

\* A snapshot: its height, the accounts in the order the stream emits them
\* (by address), the balances of unregistered addresses, the signers of blocks
\* and of transactions, and the vote weights kept, with their rounds.
Snapshot ==
    [height : Nat, accounts : Seq(Account), unregistered : Seq(Amount),
     blocks : SUBSET Nat, txs : SUBSET Nat,
     voteWeights : Seq([round : Nat, delegates : Seq(Nat)])]

Ascending(list) ==
    \A i, j \in DOMAIN list : i < j => list[i].address < list[j].address

ASSUME ParametersAssumption ==
    /\ RoundLength \in Nat \ {0} /\ ActiveSlots \in Nat \ {0}
    /\ LegacyReserve \in Nat \ {0}
    /\ \A s \in Snapshots : s \in Snapshot /\ Ascending(s.accounts)

VARIABLES
    snapshot,             \* what the database holds; it does not change
    pc,
    accounts,             \* the accounts of init
    next,                 \* the account its loop is at
    legacyReserveAmount,  \* of legacy.ts
    totalLSKSupply,       \* of createAsset.ts
    legacy, auth, userSubstore, supply, validators, stakers, initValidators,
    validatorKeys

read    == <<snapshot, accounts>>
entries == <<auth, userSubstore, validators, stakers>>
vars    == <<read, pc, next, legacyReserveAmount, totalLSKSupply, legacy, entries,
             supply, initValidators, validatorKeys>>

(***************************************************************************)
(* Helpers                                                                 *)
(***************************************************************************)
Amounts(list)   == [i \in DOMAIN list |-> list[i].amount]
Addresses(list) == [i \in DOMAIN list |-> list[i].address]

Sorted(list) == SortBy(list, Addresses(list))

\* Amounts locked by the PoS module: votes sent, and what is being unlocked.
LockedInPoS(account) == Total(Amounts(account.votes)) + Total(Amounts(account.unlocking))

getLockedBalances(account) ==
    IF LockedInPoS(account) > 0
    THEN <<[module |-> "pos", amount |-> LockedInPoS(account)]>>
    ELSE <<>>

\* accounts.find(account is the legacy reserve): the first one, if any.
ReserveIndices == {i \in DOMAIN accounts : accounts[i].address = LegacyReserve}
HasReserve     == ReserveIndices # {}
ReserveAccount == accounts[Min(ReserveIndices)]
ReserveBalance == IF HasReserve THEN ReserveAccount.balance ELSE 0

(***************************************************************************)
(* Reading the snapshot                                                    *)
(***************************************************************************)
Init ==
    /\ snapshot \in Snapshots
    /\ pc = "read" /\ accounts = <<>> /\ next = 1
    /\ legacyReserveAmount = 0 /\ totalLSKSupply = 0 /\ legacy = <<>>
    /\ auth = <<>> /\ userSubstore = <<>> /\ validators = <<>> /\ stakers = <<>>
    /\ supply = 0 /\ initValidators = <<>> /\ validatorKeys = <<>>

\* All accounts, less those whose address is not 20 bytes long.
ReadAccounts ==
    /\ pc = "read"
    /\ accounts' = Filter(snapshot.accounts, {a \in ToSet(snapshot.accounts) : a.wellFormed})
    /\ pc' = "legacy"
    /\ UNCHANGED <<snapshot, next, legacyReserveAmount, totalLSKSupply, legacy,
                   entries, supply, initValidators, validatorKeys>>

\* getLegacyModuleEntry: the reserve holds the balances of the unregistered
\* addresses, and starts from its own.
LegacyEntry ==
    /\ pc = "legacy"
    /\ legacyReserveAmount' = ReserveBalance + Total(Amounts(snapshot.unregistered))
    /\ legacy' = Sorted(snapshot.unregistered)
    /\ pc' = "keys"
    /\ UNCHANGED <<read, next, totalLSKSupply, entries, supply, initValidators,
                   validatorKeys>>

Delegates == {accounts[i].address : i \in {j \in DOMAIN accounts : accounts[j].delegate}}

\* Mutant: transaction senders are left out.
KeysFound_BlocksOnly == snapshot.blocks

\* Every generator of a block, and those senders of transactions that are
\* delegates.
KeysFound == snapshot.blocks \cup (snapshot.txs \cap Delegates)

\* getValidatorKeys; the two scans are KeyScan's.
FindKeys ==
    /\ pc = "keys"
    /\ validatorKeys' = [a \in KeysFound |-> a]
    /\ pc' = "loop"
    /\ UNCHANGED <<read, next, legacyReserveAmount, totalLSKSupply, legacy, entries,
                   supply, initValidators>>

(***************************************************************************)
(* The entries of the modules                                              *)
(***************************************************************************)
UserEntry(account) ==
    [address |-> account.address, available |-> account.balance,
     locked |-> getLockedBalances(account)]

\* Mutant: the reserve gets an entry like every account, too.
createUserSubstoreArrayEntry_All(account) == <<UserEntry(account)>>

createUserSubstoreArrayEntry(account) ==
    IF account.address = LegacyReserve THEN <<>> ELSE <<UserEntry(account)>>

createValidatorsArrayEntry(account) ==
    IF account.delegate
    THEN <<[address |-> account.address,
            generatorKey |-> IF account.address \in DOMAIN validatorKeys
                             THEN validatorKeys[account.address] ELSE NoKey]>>
    ELSE <<>>

\* Mutant: who has only unlocking amounts is no staker.
IsStaker_VotesOnly(account) == account.votes # <<>>

IsStaker(account) == account.votes # <<>> \/ account.unlocking # <<>>

createStakersArrayEntry(account) ==
    IF IsStaker(account)
    THEN <<[address |-> account.address, stakes |-> Sorted(account.votes),
            pendingUnlocks |-> account.unlocking]>>
    ELSE <<>>

\* Mutant: locked amounts are forgotten in the supply.
AccountSupply_Available(account) == account.balance

AccountSupply(account) ==
    account.balance + Total(Amounts(getLockedBalances(account)))

\* Mutant: only the optional keys are sorted.
authKeys_MandatoryAsRead(keys) ==
    [keys EXCEPT !.optional = SortBy(keys.optional, keys.optional)]

\* The signing keys of an account; numberOfSignatures stays.
authKeys(keys) ==
    [keys EXCEPT !.mandatory = SortBy(keys.mandatory, keys.mandatory),
                 !.optional  = SortBy(keys.optional, keys.optional)]

getAuthModuleEntryBuffer(account) ==
    [address |-> account.address, keys |-> authKeys(account.keys)]

ProcessAccount ==
    /\ pc = "loop"
    /\ next <= Len(accounts)
    /\ LET account == accounts[next] IN
       /\ auth' = Append(auth, getAuthModuleEntryBuffer(account))
       /\ userSubstore' = userSubstore \o createUserSubstoreArrayEntry(account)
       /\ totalLSKSupply' = totalLSKSupply + AccountSupply(account)
       /\ validators' = validators \o createValidatorsArrayEntry(account)
       /\ stakers' = stakers \o createStakersArrayEntry(account)
    /\ next' = next + 1
    /\ UNCHANGED <<read, pc, legacyReserveAmount, legacy, supply, initValidators,
                   validatorKeys>>

\* createLegacyReserveAccount.
LegacyReserveEntry ==
    [address   |-> LegacyReserve,
     available |-> ReserveBalance,
     locked    |-> <<[module |-> "legacy", amount |-> legacyReserveAmount]>>
                   \o (IF HasReserve THEN getLockedBalances(ReserveAccount) ELSE <<>>)]

\* After the loop: the reserve, the sorting of every list and the supply.
SortEntries ==
    /\ pc = "loop"
    /\ next > Len(accounts)
    /\ userSubstore' = Sorted(Append(userSubstore, LegacyReserveEntry))
    /\ supply' = totalLSKSupply + legacyReserveAmount
    /\ validators' = Sorted(validators)
    /\ stakers' = Sorted(stakers)
    /\ auth' = Sorted(auth)
    /\ pc' = "genesisData"
    /\ UNCHANGED <<read, next, legacyReserveAmount, totalLSKSupply, legacy,
                   initValidators, validatorKeys>>

(***************************************************************************)
(* The first validators: createGenesisDataObj                              *)
(***************************************************************************)
\* Mutant: the round of the block after the snapshot.
ceiling_Floor(a, b) == (a \div b) + 1

ceiling(a, b) == (a + b - 1) \div b

\* voteWeights.find(those of the round): the first ones, if any.
RoundIndices(r) == {i \in DOMAIN snapshot.voteWeights : snapshot.voteWeights[i].round = r}

\* accountBannedMap.get: the keys of the Map are the Buffers of the accounts,
\* compared by identity, and the address asked for is another Buffer, decoded
\* from the vote weights.  The answer is undefined for every address.
AccountBanned(a) == FALSE

\* Mutant: every delegate of the round is taken.
FirstSlots_All(list) == list

FirstSlots(list) ==
    SubSeq(list, 1, IF Len(list) < ActiveSlots THEN Len(list) ELSE ActiveSlots)

\* The delegates of a vote weight that get a slot, in the order of the weights.
Chosen(delegates) ==
    FirstSlots(Filter(delegates, {a \in ToSet(delegates) : ~AccountBanned(a)}))

GenesisData ==
    /\ pc = "genesisData"
    /\ LET found     == RoundIndices(ceiling(snapshot.height, RoundLength) - 2)
           delegates == snapshot.voteWeights[Min(found)].delegates
       IN  IF found = {} \/ delegates = <<>>
           THEN pc' = "failed" /\ UNCHANGED initValidators
           ELSE /\ initValidators' = SortBy(Chosen(delegates), Chosen(delegates))
                /\ pc' = "done"
    /\ UNCHANGED <<read, next, legacyReserveAmount, totalLSKSupply, legacy, entries,
                   supply, validatorKeys>>

Next ==
    \/ ReadAccounts \/ LegacyEntry \/ FindKeys
    \/ ProcessAccount \/ SortEntries \/ GenesisData

Spec == Init /\ [][Next]_vars

(***************************************************************************)
(* Properties                                                              *)
(***************************************************************************)
Done == pc = "done"

TypeOK ==
    /\ pc \in {"read", "legacy", "keys", "loop", "genesisData", "done", "failed"}
    /\ next \in 1..(Len(accounts) + 1)
    /\ legacyReserveAmount \in Nat /\ totalLSKSupply \in Nat /\ supply \in Nat
    /\ DOMAIN validatorKeys \subseteq snapshot.blocks \cup snapshot.txs
    /\ Len(initValidators) <= ActiveSlots

Holdings(entry) == entry.available + Total(Amounts(entry.locked))

\* The supply substore and the user substore of the token module agree, which
\* Lisk Core v4 demands of a genesis block.
SupplyMatchesHoldings ==
    Done => supply = Total([i \in DOMAIN userSubstore |-> Holdings(userSubstore[i])])

\* What accounts of v3 had, votes and unlocking amounts included.
V3Balance(list) == Total([i \in DOMAIN list |-> list[i].balance + LockedInPoS(list[i])])

\* All that the snapshot holds, whatever becomes of it.
V3Supply == V3Balance(snapshot.accounts) + Total(Amounts(snapshot.unregistered))

\* The accounts whose address is not 20 bytes long (createAsset.ts:105-107).
Dropped ==
    Filter(snapshot.accounts, {a \in ToSet(snapshot.accounts) : ~a.wellFormed})

\* Where value comes from and goes to: the v4 supply is all that v3 had, less what
\* the accounts that init drops had, and with the reserve's own balance twice,
\* as it is available to the reserve and locked for it too (legacy.ts:33).
ValueAccounted == Done => supply + V3Balance(Dropped) = V3Supply + ReserveBalance

Listed(list, a)  == \E i \in DOMAIN list : list[i].address = a
EntryOf(list, a) == list[CHOOSE i \in DOMAIN list : list[i].address = a]

Signers(keys) ==
    [keys EXCEPT !.mandatory = ToSet(keys.mandatory), !.optional = ToSet(keys.optional)]

\* Whoever could sign for an account in v3 can in v4, and nobody else, with the
\* keys in the order v4 demands, whatever order v3 registered them in (auth.ts).
SignersKept ==
    Done =>
        /\ Len(auth) = Len(accounts)
        /\ \A i \in DOMAIN auth :
               /\ Signers(auth[i].keys) = Signers(EntryOf(accounts, auth[i].address).keys)
               /\ \A list \in {auth[i].keys.mandatory, auth[i].keys.optional} :
                      \A j \in 2..Len(list) : list[j - 1] < list[j]

\* What the token module has locked for PoS is what the PoS module holds as
\* stakes and pending unlocks of the same address.
LockedMatchesStakes ==
    Done => \A i \in DOMAIN userSubstore :
        LET entry  == userSubstore[i]
            staker == EntryOf(stakers, entry.address)
            inPoS  == [k \in DOMAIN entry.locked |->
                         IF entry.locked[k].module = "pos" THEN entry.locked[k].amount ELSE 0]
        IN  Total(inPoS) =
                IF Listed(stakers, entry.address)
                THEN Total(Amounts(staker.stakes)) + Total(Amounts(staker.pendingUnlocks))
                ELSE 0

\* The user, auth, validator and staker lists have an address once each, in
\* ascending order, the reserve in its place in the first one.
SubstoresSorted ==
    Done => /\ Ascending(userSubstore) /\ Ascending(auth)
            /\ Ascending(validators) /\ Ascending(stakers)

\* A delegate that ever signed a block or a transaction gets its own key as
\* generator key, and nobody gets another's.
GeneratorKeysFound ==
    Done => \A i \in DOMAIN validators :
        LET a == validators[i].address
        IN  validators[i].generatorKey =
                IF a \in snapshot.blocks \cup snapshot.txs THEN a ELSE NoKey

\* The first validators are those voted for two rounds before the round that
\* the snapshot height belongs to.
ValidatorsOfRoundR2 ==
    Done => \E i \in DOMAIN snapshot.voteWeights :
        LET w == snapshot.voteWeights[i]
        IN  /\ (w.round + 1) * RoundLength < snapshot.height
            /\ snapshot.height <= (w.round + 2) * RoundLength
            /\ ToSet(initValidators) \subseteq ToSet(w.delegates)

\* pos.ts:190 `if (!isAccountBanned)`: a banned delegate is no first validator.
NoBannedValidator ==
    Done => \A i \in DOMAIN accounts :
        accounts[i].banned => accounts[i].address \notin ToSet(initValidators)
==============================================================================
