------------------------- MODULE GenesisAssetsProofs -------------------------
(***************************************************************************)
(* That the genesis assets fit together, for every snapshot: any number of *)
(* accounts, votes, keys and vote weights, any amounts and any height.     *)
(***************************************************************************)
EXTENDS GenesisAssets, ListLemmas

(***************************************************************************)
(* The inductive invariant                                                 *)
(***************************************************************************)
Before == {"read", "legacy", "keys"}
After  == {"genesisData", "done", "failed"}

\* The accounts the loop has been at.
Seen == 1..(next - 1)

ReadInv ==
    /\ snapshot \in Snapshots
    /\ pc \in Before \cup {"loop"} \cup After
    /\ accounts \in Seq(Account) /\ Ascending(accounts)
    /\ next \in 1..(Len(accounts) + 1)
    /\ pc \in After => next = Len(accounts) + 1

\* Nothing is collected before the loop.
StartInv ==
    pc \in Before =>
        /\ next = 1 /\ totalLSKSupply = 0
        /\ auth = <<>> /\ userSubstore = <<>> /\ validators = <<>> /\ stakers = <<>>

ReserveInv ==
    legacyReserveAmount =
        IF pc \in {"read", "legacy"} THEN 0
        ELSE ReserveBalance + Total(Amounts(snapshot.unregistered))

KeysInv ==
    validatorKeys = IF pc \in Before THEN <<>> ELSE [a \in KeysFound |-> a]

AuthInv ==
    /\ auth \in Seq({getAuthModuleEntryBuffer(accounts[i]) : i \in Seen})
    /\ Len(auth) = next - 1
    /\ Ascending(auth)

UserEntries == {UserEntry(accounts[i]) : i \in {j \in Seen : accounts[j].address # LegacyReserve}}

UserInv ==
    /\ userSubstore \in Seq(IF pc \in After THEN UserEntries \cup {LegacyReserveEntry}
                            ELSE UserEntries)
    /\ Ascending(userSubstore)

\* The entry of an account that is one of the delegates.
ValidatorEntry(account) == createValidatorsArrayEntry(account)[1]

ValidatorInv ==
    /\ validators \in Seq({ValidatorEntry(accounts[i]) : i \in {j \in Seen : accounts[j].delegate}})
    /\ Ascending(validators)

StakerEntry(account) == createStakersArrayEntry(account)[1]

StakerInv ==
    /\ stakers \in Seq({StakerEntry(accounts[i]) : i \in {j \in Seen : IsStaker(accounts[j])}})
    /\ Ascending(stakers)
    /\ \A i \in Seen : IsStaker(accounts[i]) => Listed(stakers, accounts[i].address)

Held(list) == [i \in DOMAIN list |-> Holdings(list[i])]

\* The sum of createAsset.ts, by account and by entry.
SupplyInv ==
    /\ totalLSKSupply = Total([i \in Seen |-> AccountSupply(accounts[i])])
    /\ pc \notin After =>
           /\ supply = 0
           /\ totalLSKSupply =
                  Total(Held(userSubstore))
                  + (IF \E i \in Seen : accounts[i].address = LegacyReserve
                     THEN AccountSupply(ReserveAccount) ELSE 0)
    /\ pc \in After =>
           /\ supply = totalLSKSupply + legacyReserveAmount
           /\ supply = Total(Held(userSubstore))

FirstInv ==
    /\ pc # "done" => initValidators = <<>>
    /\ Len(initValidators) <= ActiveSlots
    /\ ValidatorsOfRoundR2

AssetsInv ==
    /\ ReadInv /\ StartInv /\ ReserveInv /\ KeysInv
    /\ AuthInv /\ UserInv /\ ValidatorInv /\ StakerInv
    /\ SupplyInv /\ FirstInv

(***************************************************************************)
(* Amounts                                                                 *)
(***************************************************************************)
\* The amounts of a list of votes or balances sum up to an amount.
LEMMA AmountsTotal ==
    ASSUME NEW list \in Seq(Amount)
    PROVE  /\ Amounts(list) \in [1..Len(list) -> Nat]
           /\ Total(Amounts(list)) \in Nat
<1>1. Len(list) \in Nat /\ DOMAIN list = 1..Len(list)
  OBVIOUS
<1>2. \A i \in 1..Len(list) : list[i].amount \in Nat
  <2>1. \A i \in 1..Len(list) : list[i] \in Amount
    OBVIOUS
  <2> QED BY <2>1 DEF Amount
<1>3. Amounts(list) \in [1..Len(list) -> Nat]
  BY <1>1, <1>2 DEF Amounts
<1> QED BY <1>1, <1>3, TotalNat

\* What the PoS module locks of an account is an amount.
LEMMA LockedNat ==
    ASSUME NEW account \in Account
    PROVE  LockedInPoS(account) \in Nat
<1>1. account.votes \in Seq(Amount) /\ account.unlocking \in Seq(Amount)
  BY DEF Account
<1>2. Total(Amounts(account.votes)) \in Nat /\ Total(Amounts(account.unlocking)) \in Nat
  BY <1>1, AmountsTotal
<1> QED BY <1>2 DEF LockedInPoS

\* The sum of one amount.
LEMMA TotalOne ==
    ASSUME NEW x \in Int PROVE Total(<<x>>) = x
<1>1. <<>> \in Seq(Int) /\ <<x>> = Append(<<>>, x)
  OBVIOUS
<1>2. Total(<<x>>) = 0 + x
  BY <1>1, TotalAppend, TotalEmpty
<1> QED BY <1>2

\* The sum of two amounts.
LEMMA TotalTwo ==
    ASSUME NEW x \in Int, NEW y \in Int PROVE Total(<<x, y>>) = x + y
<1>1. <<x>> \in Seq(Int) /\ <<x, y>> = Append(<<x>>, y)
  OBVIOUS
<1> QED BY <1>1, TotalAppend, TotalOne

\* What an account has locked in the token module is what PoS locks of it.
LEMMA LockedBalances ==
    ASSUME NEW account \in Account
    PROVE  Total(Amounts(getLockedBalances(account))) = LockedInPoS(account)
<1>1. LockedInPoS(account) \in Nat
  BY LockedNat
<1>2. CASE LockedInPoS(account) > 0
  <2>1. Amounts(getLockedBalances(account)) = <<LockedInPoS(account)>>
    BY <1>2 DEF Amounts, getLockedBalances
  <2> QED BY <1>1, <2>1, TotalOne
<1>3. CASE LockedInPoS(account) = 0
  <2>1. Amounts(getLockedBalances(account)) = <<>>
    BY <1>3 DEF Amounts, getLockedBalances
  <2> QED BY <1>3, <2>1, TotalEmpty
<1> QED BY <1>1, <1>2, <1>3

\* What createAsset.ts adds to the supply for an account is what v3 had on it,
\* and what its entry in the user substore holds.
LEMMA SupplyOfAccount ==
    ASSUME NEW account \in Account
    PROVE  /\ AccountSupply(account) = account.balance + LockedInPoS(account)
           /\ AccountSupply(account) \in Nat
           /\ Holdings(UserEntry(account)) = AccountSupply(account)
<1>1. account.balance \in Nat
  BY DEF Account
<1> QED BY <1>1, LockedNat, LockedBalances DEF AccountSupply, Holdings, UserEntry

(***************************************************************************)
(* Lists by address                                                        *)
(***************************************************************************)
\* Sorting by address rearranges a list, in ascending order.
LEMMA SortedList ==
    ASSUME NEW T, NEW list \in Seq(T), \A e \in T : e.address \in Int
    PROVE  /\ Sorted(list) \in Seq(T)
           /\ Len(Sorted(list)) = Len(list)
           /\ \E p \in Arrangements(Len(list)) :
                 /\ Sorted(list) = [i \in 1..Len(list) |-> list[p[i]]]
                 /\ \A i, j \in 1..Len(list) :
                       i < j => /\ list[p[i]].address <= list[p[j]].address
                                /\ p[i] # p[j]
<1>1. Len(list) \in Nat /\ DOMAIN list = 1..Len(list) /\ \A i \in 1..Len(list) : list[i] \in T
  OBVIOUS
<1>2. Addresses(list) = [i \in 1..Len(list) |-> list[i].address]
  BY <1>1 DEF Addresses
<1>3. Addresses(list) \in [1..Len(list) -> Int]
  BY <1>1, <1>2
<1>4. PICK p \in Arrangements(Len(list)) :
         /\ Sorted(list) = [i \in 1..Len(list) |-> list[p[i]]]
         /\ \A i, j \in 1..Len(list) :
               i < j => Addresses(list)[p[i]] <= Addresses(list)[p[j]] /\ p[i] # p[j]
  BY <1>3, SortByList DEF Sorted
<1>5. p \in [1..Len(list) -> 1..Len(list)]
  BY ArrangementDef, Zenon
<1>6. Sorted(list) \in Seq(T) /\ Len(Sorted(list)) = Len(list)
  BY <1>3, SortByList DEF Sorted
<1>7. ASSUME NEW i \in 1..Len(list), NEW j \in 1..Len(list), i < j
      PROVE  list[p[i]].address <= list[p[j]].address /\ p[i] # p[j]
  <2>1. p[i] \in 1..Len(list) /\ p[j] \in 1..Len(list)
    BY <1>5
  <2>2. Addresses(list)[p[i]] <= Addresses(list)[p[j]] /\ p[i] # p[j]
    BY <1>4, <1>7
  <2> QED BY <1>2, <2>1, <2>2
<1> QED BY <1>4, <1>6, <1>7

\* Sorting keeps the entries, and puts entries of distinct addresses in order.
LEMMA SortedEntries ==
    ASSUME NEW T, NEW list \in Seq(T), \A e \in T : e.address \in Int,
           \A i, j \in DOMAIN list : i # j => list[i].address # list[j].address
    PROVE  /\ Sorted(list) \in Seq(T)
           /\ Len(Sorted(list)) = Len(list)
           /\ Ascending(Sorted(list))
           /\ \A i \in DOMAIN list : \E j \in DOMAIN Sorted(list) : Sorted(list)[j] = list[i]
<1> DEFINE n == Len(list)
<1>1. n \in Nat /\ DOMAIN list = 1..n /\ \A i \in 1..n : list[i] \in T
  OBVIOUS
<1>2. Sorted(list) \in Seq(T) /\ Len(Sorted(list)) = n
  BY SortedList
<1>3. PICK p \in Arrangements(n) :
         /\ Sorted(list) = [i \in 1..n |-> list[p[i]]]
         /\ \A i, j \in 1..n :
               i < j => list[p[i]].address <= list[p[j]].address /\ p[i] # p[j]
  BY SortedList
<1> HIDE DEF n
<1>4. p \in [1..n -> 1..n] /\ \A k \in 1..n : \E i \in 1..n : p[i] = k
  BY ArrangementDef
<1>5. DOMAIN Sorted(list) = 1..n
  BY <1>3
<1>6. ASSUME NEW i \in 1..n, NEW j \in 1..n, i < j
      PROVE  Sorted(list)[i].address < Sorted(list)[j].address
  <2>1. p[i] \in 1..n /\ p[j] \in 1..n
    BY <1>4
  <2>2. list[p[i]].address \in Int /\ list[p[j]].address \in Int
    BY <1>1, <2>1
  <2>3. list[p[i]].address # list[p[j]].address
    BY <1>1, <1>3, <1>6, <2>1
  <2>4. list[p[i]].address <= list[p[j]].address
    BY <1>3, <1>6
  <2>5. list[p[i]].address < list[p[j]].address
    BY <2>2, <2>3, <2>4
  <2> QED BY <1>3, <2>5
<1>7. Ascending(Sorted(list))
  BY <1>5, <1>6 DEF Ascending
<1>8. \A i \in 1..n : \E j \in 1..n : Sorted(list)[j] = list[i]
  BY <1>3, <1>4
<1> QED BY <1>1, <1>2, <1>5, <1>7, <1>8 DEF n

\* An entry of a larger address can be appended.
LEMMA AscendingAppend ==
    ASSUME NEW T, NEW list \in Seq(T), NEW e,
           Ascending(list), \A i \in DOMAIN list : list[i].address < e.address
    PROVE  Ascending(Append(list, e))
  BY DEF Ascending

\* A list in ascending order has an address once.
LEMMA AscendingDistinct ==
    ASSUME NEW T, NEW list \in Seq(T), \A e \in T : e.address \in Int, Ascending(list),
           NEW i \in DOMAIN list, NEW j \in DOMAIN list, list[i].address = list[j].address
    PROVE  i = j
<1>1. i \in Nat /\ j \in Nat /\ list[i] \in T /\ list[j] \in T
  OBVIOUS
<1>2. ~(i < j) /\ ~(j < i)
  <2>1. list[i].address \in Int
    BY <1>1
  <2> QED BY <2>1 DEF Ascending
<1> QED BY <1>1, <1>2

\* The holdings of entries sum up to an amount.
LEMMA HeldTotal ==
    ASSUME NEW T, NEW list \in Seq(T), \A e \in T : Holdings(e) \in Int
    PROVE  /\ Held(list) \in [1..Len(list) -> Int]
           /\ Held(list) \in Seq(Int)
           /\ Total(Held(list)) \in Int
<1>1. Len(list) \in Nat /\ DOMAIN list = 1..Len(list) /\ \A i \in 1..Len(list) : list[i] \in T
  OBVIOUS
<1>2. Held(list) = [i \in 1..Len(list) |-> Holdings(list[i])]
  BY <1>1 DEF Held
<1>3. Held(list) \in [1..Len(list) -> Int]
  BY <1>1, <1>2
<1>4. Held(list) \in Seq(Int)
  BY <1>1, <1>3
<1> QED BY <1>1, <1>3, <1>4, TotalInt

\* An entry more adds its holdings.
LEMMA HeldAppend ==
    ASSUME NEW T, NEW list \in Seq(T), \A e \in T : Holdings(e) \in Int, NEW e \in T
    PROVE  Total(Held(Append(list, e))) = Total(Held(list)) + Holdings(e)
<1>1. Len(list) \in Nat /\ DOMAIN list = 1..Len(list)
  OBVIOUS
<1>2. Held(list) \in Seq(Int) /\ Len(Held(list)) = Len(list)
  BY <1>1, HeldTotal DEF Held
<1>3. /\ DOMAIN Append(list, e) = 1..(Len(list) + 1)
      /\ Append(list, e)[Len(list) + 1] = e
      /\ \A i \in 1..Len(list) : Append(list, e)[i] = list[i]
  OBVIOUS
<1>4. Held(Append(list, e)) = Append(Held(list), Holdings(e))
  <2>1. Held(Append(list, e)) = [i \in 1..(Len(list) + 1) |-> Holdings(Append(list, e)[i])]
    BY <1>3 DEF Held
  <2>2. /\ DOMAIN Append(Held(list), Holdings(e)) = 1..(Len(list) + 1)
        /\ Append(Held(list), Holdings(e))[Len(list) + 1] = Holdings(e)
        /\ \A i \in 1..Len(list) : Append(Held(list), Holdings(e))[i] = Held(list)[i]
    BY <1>2
  <2>3. \A i \in 1..(Len(list) + 1) : i = Len(list) + 1 \/ i \in 1..Len(list)
    BY <1>1
  <2>4. \A i \in 1..Len(list) : Held(list)[i] = Holdings(list[i])
    BY <1>1 DEF Held
  <2>5. \A i \in 1..(Len(list) + 1) :
           Holdings(Append(list, e)[i]) = Append(Held(list), Holdings(e))[i]
    BY <1>3, <2>2, <2>3, <2>4
  <2>6. Append(Held(list), Holdings(e)) =
           [i \in 1..(Len(list) + 1) |-> Append(Held(list), Holdings(e))[i]]
    <3> DEFINE X == Append(Held(list), Holdings(e))
    <3>1. X \in Seq(Int)
      BY <1>2
    <3>2. Len(X) = Len(list) + 1
      BY <1>2
    <3> HIDE DEF X
    <3>3. X = [i \in 1..(Len(list) + 1) |-> X[i]]
      BY <3>1, <3>2
    <3> QED BY <3>3 DEF X
  <2> QED BY <2>1, <2>5, <2>6
<1> QED BY <1>2, <1>4, TotalAppend

\* Sorting does not change what the entries hold together.
LEMMA HeldSorted ==
    ASSUME NEW T, NEW list \in Seq(T),
           \A e \in T : e.address \in Int /\ Holdings(e) \in Int
    PROVE  Total(Held(Sorted(list))) = Total(Held(list))
<1> DEFINE n == Len(list)
<1>1. n \in Nat /\ DOMAIN list = 1..n
  OBVIOUS
<1>2. Held(list) \in [1..n -> Int]
  BY HeldTotal
<1>3. PICK p \in Arrangements(n) : Sorted(list) = [i \in 1..n |-> list[p[i]]]
  BY SortedList
<1> HIDE DEF n
<1>4. \A i \in 1..n : p[i] \in 1..n
  <2>1. p \in [1..n -> 1..n]
    BY ArrangementDef
  <2> QED BY <2>1
<1>5. Held(Sorted(list)) = [i \in 1..n |-> Held(list)[p[i]]]
  BY <1>1, <1>3, <1>4 DEF Held
<1> QED BY <1>1, <1>2, <1>5, TotalArranged

(***************************************************************************)
(* The reserve                                                             *)
(***************************************************************************)
\* The account that has the address of the reserve is the one find returns.
LEMMA ReserveIsOne ==
    ASSUME accounts \in Seq(Account), Ascending(accounts),
           NEW i \in DOMAIN accounts, accounts[i].address = LegacyReserve
    PROVE  HasReserve /\ ReserveAccount = accounts[i]
<1>1. \A a \in Account : a.address \in Int
  BY DEF Account
<1>2. ASSUME NEW j \in ReserveIndices PROVE j = i
  <2>1. j \in DOMAIN accounts /\ accounts[j].address = accounts[i].address
    BY DEF ReserveIndices
  <2> QED BY <1>1, <2>1, AscendingDistinct
<1>3. ReserveIndices = {i}
  BY <1>2 DEF ReserveIndices
<1>4. Min({i}) = i
  <2>1. i \in Int
    OBVIOUS
  <2> QED BY <2>1 DEF Min
<1> QED BY <1>3, <1>4 DEF HasReserve, ReserveAccount

\* The reserve account, if there is one, is an account of the snapshot.
LEMMA ReserveType ==
    ASSUME accounts \in Seq(Account), Ascending(accounts)
    PROVE  /\ ReserveBalance \in Nat
           /\ HasReserve => /\ ReserveAccount \in Account
                            /\ ReserveAccount.address = LegacyReserve
<1>1. CASE HasReserve
  <2>1. PICK i \in DOMAIN accounts : accounts[i].address = LegacyReserve
    BY <1>1 DEF HasReserve, ReserveIndices
  <2>2. ReserveAccount = accounts[i] /\ accounts[i] \in Account
    BY <2>1, ReserveIsOne
  <2> QED BY <1>1, <2>1, <2>2 DEF ReserveBalance, Account
<1>2. CASE ~HasReserve
  BY <1>2 DEF ReserveBalance
<1> QED BY <1>1, <1>2

\* The entry of the reserve holds its own balance and what it locks, and the
\* balances of the unregistered addresses.
LEMMA ReserveHolds ==
    ASSUME accounts \in Seq(Account), Ascending(accounts), legacyReserveAmount \in Nat
    PROVE  /\ Holdings(LegacyReserveEntry) =
                 ReserveBalance + legacyReserveAmount
                 + (IF HasReserve THEN LockedInPoS(ReserveAccount) ELSE 0)
           /\ Holdings(LegacyReserveEntry) \in Nat
<1> DEFINE legacyLock == [module |-> "legacy", amount |-> legacyReserveAmount]
<1>1. ReserveBalance \in Nat /\ (HasReserve => ReserveAccount \in Account)
  BY ReserveType
<1>2. /\ LegacyReserveEntry.available = ReserveBalance
      /\ LegacyReserveEntry.locked =
             <<legacyLock>> \o (IF HasReserve THEN getLockedBalances(ReserveAccount) ELSE <<>>)
  BY DEF LegacyReserveEntry
<1>3. CASE HasReserve /\ LockedInPoS(ReserveAccount) > 0
  <2>1. LockedInPoS(ReserveAccount) \in Nat
    BY <1>1, <1>3, LockedNat
  <2> DEFINE posLock == [module |-> "pos", amount |-> LockedInPoS(ReserveAccount)]
             L == <<legacyLock>> \o <<posLock>>
  <2>2. LegacyReserveEntry.locked = L
    BY <1>2, <1>3 DEF getLockedBalances
  <2>3. Amounts(L) = <<legacyReserveAmount, LockedInPoS(ReserveAccount)>>
    <3>1. DOMAIN L = 1..2 /\ L[1] = legacyLock /\ L[2] = posLock
      <4> HIDE DEF legacyLock, posLock
      <4> QED OBVIOUS
    <3> HIDE DEF L
    <3>2. Amounts(L) = [i \in 1..2 |-> L[i].amount]
      BY <3>1 DEF Amounts
    <3>3. L[1].amount = legacyReserveAmount /\ L[2].amount = LockedInPoS(ReserveAccount)
      BY <3>1
    <3> QED BY <2>1, <3>2, <3>3
  <2>4. Total(Amounts(LegacyReserveEntry.locked)) =
            legacyReserveAmount + LockedInPoS(ReserveAccount)
    BY <2>1, <2>2, <2>3, TotalTwo
  <2> QED BY <1>1, <1>2, <1>3, <2>1, <2>4 DEF Holdings
<1>4. CASE ~HasReserve \/ ~(LockedInPoS(ReserveAccount) > 0)
  <2>1. LegacyReserveEntry.locked = <<legacyLock>>
    <3>1. (IF HasReserve THEN getLockedBalances(ReserveAccount) ELSE <<>>) = <<>>
      BY <1>4 DEF getLockedBalances
    <3>2. \A x : <<x>> \o <<>> = <<x>>
      OBVIOUS
    <3>3. LegacyReserveEntry.locked = <<legacyLock>> \o <<>>
      BY <1>2, <3>1
    <3> HIDE DEF legacyLock
    <3> QED BY <3>2, <3>3
  <2>2. Amounts(LegacyReserveEntry.locked) = <<legacyReserveAmount>>
    BY <2>1 DEF Amounts
  <2>3. Total(Amounts(LegacyReserveEntry.locked)) = legacyReserveAmount
    BY <2>2, TotalOne
  <2>4. (IF HasReserve THEN LockedInPoS(ReserveAccount) ELSE 0) = 0
    <3>1. HasReserve => LockedInPoS(ReserveAccount) \in Nat
      BY <1>1, LockedNat
    <3> QED BY <1>4, <3>1
  <2> QED BY <1>1, <1>2, <2>3, <2>4 DEF Holdings
<1> QED BY <1>3, <1>4

(***************************************************************************)
(* The first steps                                                         *)
(***************************************************************************)
\* Nothing has been collected.
Empty ==
    /\ next = 1 /\ totalLSKSupply = 0
    /\ auth = <<>> /\ userSubstore = <<>> /\ validators = <<>> /\ stakers = <<>>

\* Before the loop the invariants of the lists say nothing.
LEMMA EmptyLists ==
    Empty /\ supply = 0 /\ pc \notin After =>
        AuthInv /\ UserInv /\ ValidatorInv /\ StakerInv /\ SupplyInv
<1> SUFFICES ASSUME Empty, supply = 0, pc \notin After
             PROVE  AuthInv /\ UserInv /\ ValidatorInv /\ StakerInv /\ SupplyInv
  OBVIOUS
<1>1. Seen = {} /\ Seen = 1..0
  BY DEF Empty, Seen
<1>2. Ascending(<<>>)
  BY DEF Ascending
<1>3. AuthInv /\ UserInv /\ ValidatorInv /\ StakerInv
  BY <1>1, <1>2 DEF Empty, AuthInv, UserInv, ValidatorInv, StakerInv
<1>4. Held(<<>>) = <<>>
  BY DEF Held
<1>5. [i \in Seen |-> AccountSupply(accounts[i])] = <<>>
  BY <1>1
<1>6. SupplyInv
  BY <1>1, <1>4, <1>5, TotalEmpty DEF Empty, SupplyInv
<1> QED BY <1>3, <1>6

\* The invariant holds before the snapshot is read.
LEMMA InitInv == Init => AssetsInv
<1> SUFFICES ASSUME Init PROVE AssetsInv
  OBVIOUS
<1> USE DEF Init
<1>1. ReadInv
  BY DEF ReadInv, Before, After, Ascending
<1>2. StartInv /\ ReserveInv /\ KeysInv
  BY DEF StartInv, ReserveInv, KeysInv, Before
<1>3. AuthInv /\ UserInv /\ ValidatorInv /\ StakerInv /\ SupplyInv
  BY EmptyLists DEF Empty, After
<1>4. FirstInv
  BY ParametersAssumption DEF FirstInv, ValidatorsOfRoundR2, Done
<1> QED BY <1>1, <1>2, <1>3, <1>4 DEF AssetsInv

\* A step before the loop.
LEMMA EarlyStep ==
    ASSUME AssetsInv, pc \in Before, pc' \notin After,
           UNCHANGED <<next, totalLSKSupply, entries, supply, initValidators>>
    PROVE  (AuthInv /\ UserInv /\ ValidatorInv /\ StakerInv /\ SupplyInv /\ FirstInv)'
<1>1. Empty /\ supply = 0 /\ initValidators = <<>>
  BY DEF AssetsInv, StartInv, SupplyInv, FirstInv, Empty, Before, After
<1>2. (Empty /\ supply = 0 /\ pc \notin After)'
  BY <1>1 DEF Empty, entries
<1>3. (AuthInv /\ UserInv /\ ValidatorInv /\ StakerInv /\ SupplyInv)'
  BY <1>2, EmptyLists, PTL
<1>4. FirstInv'
  BY <1>1, <1>2, ParametersAssumption DEF FirstInv, ValidatorsOfRoundR2, Done, After
<1> QED BY <1>3, <1>4

\* Dropping accounts keeps the others in ascending order.
LEMMA ReadAccountsInv == AssetsInv /\ ReadAccounts => AssetsInv'
<1> SUFFICES ASSUME AssetsInv, ReadAccounts PROVE AssetsInv'
  OBVIOUS
<1> DEFINE list == snapshot.accounts
           keep == {a \in ToSet(list) : a.wellFormed}
<1>1. list \in Seq(Account) /\ Ascending(list)
  BY ParametersAssumption DEF AssetsInv, ReadInv, Snapshot
<1>2. accounts' = Filter(list, keep)
  BY DEF ReadAccounts
<1> HIDE DEF keep, list
<1>3. accounts' \in Seq(Account)
  BY <1>1, <1>2, FilterSelects
<1>4. PICK e : Selects(e, accounts', list, keep, Len(list))
  BY <1>1, <1>2, FilterSelects
<1>5. Ascending(accounts)'
  <2>1. DOMAIN accounts' = 1..Len(accounts') /\ DOMAIN list = 1..Len(list)
    BY <1>1, <1>3
  <2> QED BY <1>4, <1>1, <2>1 DEF Selects, Ascending
<1>6. ReadInv'
  <2>1. Len(accounts') \in Nat
    BY <1>3
  <2> QED BY <1>3, <1>5, <2>1 DEF AssetsInv, ReadInv, StartInv, ReadAccounts, Before, After, Ascending
<1>7. (StartInv /\ ReserveInv /\ KeysInv)'
  BY DEF AssetsInv, StartInv, ReserveInv, KeysInv, ReadAccounts, Before, entries
<1>8. (AuthInv /\ UserInv /\ ValidatorInv /\ StakerInv /\ SupplyInv /\ FirstInv)'
  BY EarlyStep DEF ReadAccounts, Before, After
<1> QED BY <1>6, <1>7, <1>8 DEF AssetsInv

\* getLegacyModuleEntry keeps the invariant.
LEMMA LegacyEntryInv == AssetsInv /\ LegacyEntry => AssetsInv'
<1> SUFFICES ASSUME AssetsInv, LegacyEntry PROVE AssetsInv'
  OBVIOUS
<1>1. ReadInv'
  BY DEF AssetsInv, ReadInv, LegacyEntry, Before, After, Ascending, read
<1>2. (StartInv /\ ReserveInv /\ KeysInv)'
  BY DEF AssetsInv, StartInv, ReserveInv, KeysInv, LegacyEntry, Before, entries, read,
         ReserveBalance, HasReserve, ReserveAccount, ReserveIndices
<1>3. (AuthInv /\ UserInv /\ ValidatorInv /\ StakerInv /\ SupplyInv /\ FirstInv)'
  BY EarlyStep DEF LegacyEntry, Before, After
<1> QED BY <1>1, <1>2, <1>3 DEF AssetsInv

\* getValidatorKeys keeps the invariant.
LEMMA FindKeysInv == AssetsInv /\ FindKeys => AssetsInv'
<1> SUFFICES ASSUME AssetsInv, FindKeys PROVE AssetsInv'
  OBVIOUS
<1>1. ReadInv'
  BY DEF AssetsInv, ReadInv, FindKeys, Before, After, Ascending, read
<1>2. (StartInv /\ ReserveInv /\ KeysInv)'
  BY DEF AssetsInv, StartInv, ReserveInv, KeysInv, FindKeys, Before, read,
         ReserveBalance, HasReserve, ReserveAccount, ReserveIndices, KeysFound, Delegates
<1>3. (AuthInv /\ UserInv /\ ValidatorInv /\ StakerInv /\ SupplyInv /\ FirstInv)'
  BY EarlyStep DEF FindKeys, Before, After
<1> QED BY <1>1, <1>2, <1>3 DEF AssetsInv

(***************************************************************************)
(* The loop over the accounts                                              *)
(***************************************************************************)
\* An entry appended in order: the list has one entry more, and is still ascending.
LEMMA Extended ==
    ASSUME NEW T, NEW list \in Seq(T), Ascending(list),
           NEW e, \A x \in T : x.address < e.address
    PROVE  /\ Append(list, e) \in Seq(T \cup {e})
           /\ Ascending(Append(list, e))
           /\ \A a : Listed(list, a) => Listed(Append(list, e), a)
           /\ Listed(Append(list, e), e.address)
<1>1. /\ Len(list) \in Nat /\ DOMAIN list = 1..Len(list)
      /\ \A i \in 1..Len(list) : list[i] \in T
      /\ DOMAIN Append(list, e) = 1..(Len(list) + 1)
      /\ Append(list, e)[Len(list) + 1] = e
      /\ \A i \in 1..Len(list) : Append(list, e)[i] = list[i]
  OBVIOUS
<1>2. list \in Seq(T \cup {e})
  OBVIOUS
<1>3. Append(list, e) \in Seq(T \cup {e})
  BY <1>2
<1>4. Ascending(Append(list, e))
  BY <1>1, AscendingAppend
<1>5. \A a : Listed(list, a) => Listed(Append(list, e), a)
  <2>1. \A i \in 1..Len(list) : i \in 1..(Len(list) + 1)
    BY <1>1
  <2> QED BY <1>1, <2>1 DEF Listed
<1>6. Len(list) + 1 \in 1..(Len(list) + 1)
  BY <1>1
<1> QED BY <1>1, <1>3, <1>4, <1>5, <1>6 DEF Listed

\* What a step of the loop starts from.
LEMMA LoopFacts ==
    ASSUME AssetsInv, ProcessAccount
    PROVE  /\ accounts[next] \in Account
           /\ next \in DOMAIN accounts /\ next \in Nat \ {0}
           /\ Seen \subseteq DOMAIN accounts
           /\ Seen' = Seen \cup {next} /\ next \notin Seen
           /\ \A i \in Seen : /\ accounts[i] \in Account
                              /\ accounts[i].address < accounts[next].address
           /\ pc = "loop" /\ pc' = "loop"
           /\ UNCHANGED <<snapshot, accounts, validatorKeys>>
<1>1. accounts \in Seq(Account) /\ next \in 1..(Len(accounts) + 1) /\ Ascending(accounts)
  BY DEF AssetsInv, ReadInv
<1>2. next <= Len(accounts) /\ next' = next + 1 /\ pc = "loop"
      /\ UNCHANGED <<snapshot, accounts, validatorKeys, pc>>
  BY DEF ProcessAccount, read
<1>3. Len(accounts) \in Nat /\ DOMAIN accounts = 1..Len(accounts)
  BY <1>1
<1>4. next \in 1..Len(accounts)
  BY <1>1, <1>2, <1>3
<1>5. Seen \subseteq 1..Len(accounts) /\ Seen' = Seen \cup {next} /\ next \notin Seen
  BY <1>1, <1>2, <1>3, <1>4 DEF Seen
<1>6. \A i \in Seen : i < next
  BY <1>1, <1>3 DEF Seen
<1>7. \A i \in Seen : accounts[i].address < accounts[next].address
  BY <1>1, <1>3, <1>4, <1>5, <1>6 DEF Ascending
<1> QED BY <1>1, <1>2, <1>3, <1>4, <1>5, <1>7

\* A step of the loop appends the signing keys of the account it is at.
LEMMA ProcessAuth == AssetsInv /\ ProcessAccount => AuthInv'
<1> SUFFICES ASSUME AssetsInv, ProcessAccount PROVE AuthInv'
  OBVIOUS
<1> DEFINE S == {getAuthModuleEntryBuffer(accounts[i]) : i \in Seen}
           e == getAuthModuleEntryBuffer(accounts[next])
<1>1. auth \in Seq(S) /\ Len(auth) = next - 1 /\ Ascending(auth)
  BY DEF AssetsInv, AuthInv
<1>2. auth' = Append(auth, e) /\ next' = next + 1
  BY DEF ProcessAccount
<1>3. \A a : getAuthModuleEntryBuffer(a).address = a.address
  BY DEF getAuthModuleEntryBuffer
<1>4. \A x \in S : x.address < e.address
  BY <1>3, LoopFacts
<1>5. {getAuthModuleEntryBuffer(accounts[i]) : i \in Seen}' = S \cup {e}
  BY LoopFacts DEF getAuthModuleEntryBuffer
<1>6. next \in Nat
  BY LoopFacts
<1> HIDE DEF S, e
<1>7. auth' \in Seq(S \cup {e}) /\ Ascending(auth')
  BY <1>1, <1>2, <1>4, Extended
<1>8. Ascending(auth)'
  BY <1>7 DEF Ascending
<1>9. Len(auth') = next' - 1
  BY <1>1, <1>2, <1>6
<1> QED BY <1>5, <1>7, <1>8, <1>9 DEF AuthInv

\* A step of the loop appends the entry of a delegate.
LEMMA ProcessValidators == AssetsInv /\ ProcessAccount => ValidatorInv'
<1> SUFFICES ASSUME AssetsInv, ProcessAccount PROVE ValidatorInv'
  OBVIOUS
<1> DEFINE S == {ValidatorEntry(accounts[i]) : i \in {j \in Seen : accounts[j].delegate}}
           e == ValidatorEntry(accounts[next])
<1>1. validators \in Seq(S) /\ Ascending(validators)
  BY DEF AssetsInv, ValidatorInv
<1>2. validators' = validators \o createValidatorsArrayEntry(accounts[next])
  BY DEF ProcessAccount
<1>3. \A a : a.delegate => /\ createValidatorsArrayEntry(a) = <<ValidatorEntry(a)>>
                           /\ ValidatorEntry(a).address = a.address
  BY DEF createValidatorsArrayEntry, ValidatorEntry
<1>4. {ValidatorEntry(accounts[i]) : i \in {j \in Seen : accounts[j].delegate}}' =
          S \cup (IF accounts[next].delegate THEN {e} ELSE {})
  BY LoopFacts DEF ValidatorEntry, createValidatorsArrayEntry
<1>5. \A i \in Seen : accounts[i].address < accounts[next].address
  BY LoopFacts
<1>6. CASE accounts[next].delegate
  <2>1. \A x \in S : x.address < e.address
    BY <1>3, <1>5, <1>6
  <2>2. createValidatorsArrayEntry(accounts[next]) = <<e>>
    BY <1>3, <1>6
  <2> HIDE DEF S, e
  <2>3. validators' = Append(validators, e)
    <3>1. \A s \in Seq(S) : s \o <<e>> = Append(s, e)
      OBVIOUS
    <3> QED BY <1>1, <1>2, <2>2, <3>1
  <2>4. validators' \in Seq(S \cup {e}) /\ Ascending(validators')
    BY <1>1, <2>1, <2>3, Extended
  <2>5. Ascending(validators)'
    BY <2>4 DEF Ascending
  <2> QED BY <1>4, <1>6, <2>4, <2>5 DEF ValidatorInv
<1>7. CASE ~accounts[next].delegate
  <2>1. createValidatorsArrayEntry(accounts[next]) = <<>>
    BY <1>7 DEF createValidatorsArrayEntry
  <2> HIDE DEF S, e
  <2>2. validators' = validators
    BY <1>1, <1>2, <2>1
  <2>3. Ascending(validators)'
    BY <1>1, <2>2 DEF Ascending
  <2> QED BY <1>1, <1>4, <1>7, <2>2, <2>3 DEF ValidatorInv
<1> QED BY <1>6, <1>7

\* A step of the loop appends the stakes of an account, if it has any.
LEMMA ProcessStakers == AssetsInv /\ ProcessAccount => StakerInv'
<1> SUFFICES ASSUME AssetsInv, ProcessAccount PROVE StakerInv'
  OBVIOUS
<1> DEFINE S == {StakerEntry(accounts[i]) : i \in {j \in Seen : IsStaker(accounts[j])}}
           e == StakerEntry(accounts[next])
<1>1. /\ stakers \in Seq(S) /\ Ascending(stakers)
      /\ \A i \in Seen : IsStaker(accounts[i]) => Listed(stakers, accounts[i].address)
  BY DEF AssetsInv, StakerInv
<1>2. stakers' = stakers \o createStakersArrayEntry(accounts[next])
  BY DEF ProcessAccount
<1>3. \A a : IsStaker(a) => /\ createStakersArrayEntry(a) = <<StakerEntry(a)>>
                            /\ StakerEntry(a).address = a.address
  BY DEF createStakersArrayEntry, StakerEntry
<1>4. {StakerEntry(accounts[i]) : i \in {j \in Seen : IsStaker(accounts[j])}}' =
          S \cup (IF IsStaker(accounts[next]) THEN {e} ELSE {})
  BY LoopFacts DEF StakerEntry, createStakersArrayEntry, IsStaker
<1>5. \A i \in Seen : accounts[i].address < accounts[next].address
  BY LoopFacts
<1>6. SUFFICES /\ stakers' \in Seq(S \cup (IF IsStaker(accounts[next]) THEN {e} ELSE {}))
               /\ Ascending(stakers')
               /\ \A i \in Seen \cup {next} :
                     IsStaker(accounts[i]) => Listed(stakers', accounts[i].address)
  <2>1. (\A i \in Seen : IsStaker(accounts[i]) => Listed(stakers, accounts[i].address))' <=>
        \A i \in Seen \cup {next} : IsStaker(accounts[i]) => Listed(stakers', accounts[i].address)
    BY LoopFacts DEF IsStaker, Listed
  <2>2. Ascending(stakers)' <=> Ascending(stakers')
    BY DEF Ascending
  <2> HIDE DEF S, e
  <2> QED BY <1>4, <2>1, <2>2, <1>6 DEF StakerInv
<1>7. CASE IsStaker(accounts[next])
  <2>1. \A x \in S : x.address < e.address
    BY <1>3, <1>5, <1>7
  <2>2. createStakersArrayEntry(accounts[next]) = <<e>> /\ e.address = accounts[next].address
    BY <1>3, <1>7
  <2> HIDE DEF S, e
  <2>3. stakers' = Append(stakers, e)
    <3>1. \A s \in Seq(S) : s \o <<e>> = Append(s, e)
      OBVIOUS
    <3> QED BY <1>1, <1>2, <2>2, <3>1
  <2>4. /\ stakers' \in Seq(S \cup {e}) /\ Ascending(stakers')
        /\ \A a : Listed(stakers, a) => Listed(stakers', a)
        /\ Listed(stakers', e.address)
    BY <1>1, <2>1, <2>3, Extended
  <2> QED BY <1>1, <1>7, <2>2, <2>4
<1>8. CASE ~IsStaker(accounts[next])
  <2>1. createStakersArrayEntry(accounts[next]) = <<>>
    BY <1>8 DEF createStakersArrayEntry
  <2> HIDE DEF S, e
  <2>2. stakers' = stakers
    BY <1>1, <1>2, <2>1
  <2> QED BY <1>1, <1>8, <2>2
<1> QED BY <1>7, <1>8

\* A step of the loop appends the balances of an account other than the reserve.
LEMMA ProcessUsers == AssetsInv /\ ProcessAccount => UserInv'
<1> SUFFICES ASSUME AssetsInv, ProcessAccount PROVE UserInv'
  OBVIOUS
<1> DEFINE S == {UserEntry(accounts[i]) : i \in {j \in Seen : accounts[j].address # LegacyReserve}}
           e == UserEntry(accounts[next])
<1>1. userSubstore \in Seq(S) /\ Ascending(userSubstore)
  BY LoopFacts DEF AssetsInv, UserInv, UserEntries, After
<1>2. userSubstore' = userSubstore \o createUserSubstoreArrayEntry(accounts[next])
  BY DEF ProcessAccount
<1>3. \A a : UserEntry(a).address = a.address
  BY DEF UserEntry
<1>4. UserEntries' = S \cup (IF accounts[next].address # LegacyReserve THEN {e} ELSE {})
  BY LoopFacts DEF UserEntries, UserEntry, getLockedBalances, LockedInPoS
<1>5. \A i \in Seen : accounts[i].address < accounts[next].address
  BY LoopFacts
<1>6. pc' \notin After
  BY LoopFacts DEF After
<1>7. CASE accounts[next].address # LegacyReserve
  <2>1. \A x \in S : x.address < e.address
    BY <1>3, <1>5
  <2>2. createUserSubstoreArrayEntry(accounts[next]) = <<e>>
    BY <1>7 DEF createUserSubstoreArrayEntry
  <2> HIDE DEF S, e
  <2>3. userSubstore' = Append(userSubstore, e)
    <3>1. \A s \in Seq(S) : s \o <<e>> = Append(s, e)
      OBVIOUS
    <3> QED BY <1>1, <1>2, <2>2, <3>1
  <2>4. userSubstore' \in Seq(S \cup {e}) /\ Ascending(userSubstore')
    BY <1>1, <2>1, <2>3, Extended
  <2>5. Ascending(userSubstore)'
    BY <2>4 DEF Ascending
  <2> QED BY <1>4, <1>6, <1>7, <2>4, <2>5 DEF UserInv
<1>8. CASE accounts[next].address = LegacyReserve
  <2>1. createUserSubstoreArrayEntry(accounts[next]) = <<>>
    BY <1>8 DEF createUserSubstoreArrayEntry
  <2> HIDE DEF S, e
  <2>2. userSubstore' = userSubstore
    BY <1>1, <1>2, <2>1
  <2>3. Ascending(userSubstore)'
    BY <1>1, <2>2 DEF Ascending
  <2> QED BY <1>1, <1>4, <1>6, <1>8, <2>2, <2>3 DEF UserInv
<1> QED BY <1>7, <1>8

\* The holdings of the entries of accounts are amounts.
LEMMA EntriesHold ==
    ASSUME AssetsInv, NEW e \in UserEntries
    PROVE  Holdings(e) \in Nat /\ e.address \in Nat
<1>1. accounts \in Seq(Account) /\ Seen \subseteq DOMAIN accounts
  <2>1. accounts \in Seq(Account) /\ next \in 1..(Len(accounts) + 1)
    BY DEF AssetsInv, ReadInv
  <2>2. Len(accounts) \in Nat /\ DOMAIN accounts = 1..Len(accounts)
    BY <2>1
  <2> QED BY <2>1, <2>2 DEF Seen
<1>2. PICK i \in Seen : e = UserEntry(accounts[i])
  BY DEF UserEntries
<1>3. accounts[i] \in Account
  BY <1>1
<1>4. Holdings(e) \in Nat
  BY <1>2, <1>3, SupplyOfAccount
<1>5. e.address \in Nat
  BY <1>2, <1>3 DEF UserEntry, Account
<1> QED BY <1>4, <1>5

\* A step of the loop adds to the supply what it adds to the user substore, or
\* what the reserve has.
LEMMA ProcessSupply == AssetsInv /\ ProcessAccount => SupplyInv'
<1> SUFFICES ASSUME AssetsInv, ProcessAccount PROVE SupplyInv'
  OBVIOUS
<1> DEFINE account == accounts[next]
           supplies == [i \in 1..next |-> AccountSupply(accounts[i])]
           reserve == IF \E i \in Seen : accounts[i].address = LegacyReserve
                      THEN AccountSupply(ReserveAccount) ELSE 0
           reserveNow == IF \E i \in Seen \cup {next} : accounts[i].address = LegacyReserve
                         THEN AccountSupply(ReserveAccount) ELSE 0
<1> USE LoopFacts
<1>1. /\ totalLSKSupply = Total([i \in 1..(next - 1) |-> AccountSupply(accounts[i])])
      /\ supply = 0
      /\ totalLSKSupply = Total(Held(userSubstore)) + reserve
  BY DEF AssetsInv, SupplyInv, After, Seen
<1>2. /\ totalLSKSupply' = totalLSKSupply + AccountSupply(account)
      /\ userSubstore' = userSubstore \o createUserSubstoreArrayEntry(account)
      /\ supply' = supply /\ next' = next + 1
  BY DEF ProcessAccount
<1>3. AccountSupply(account) \in Nat /\ Holdings(UserEntry(account)) = AccountSupply(account)
  BY SupplyOfAccount
<1>4. totalLSKSupply' = Total(supplies)
  <2>1. next - 1 \in Nat /\ (next - 1) + 1 = next /\ next \in 1..next
    OBVIOUS
  <2>2. supplies \in [1..next -> Int]
    <3>1. ASSUME NEW i \in 1..next PROVE accounts[i] \in Account
      <4>1. i = next \/ i \in Seen
        BY DEF Seen
      <4> QED BY <4>1
    <3>2. \A i \in 1..next : AccountSupply(accounts[i]) \in Nat
      BY <3>1, SupplyOfAccount
    <3> QED BY <3>2
  <2>3. supplies[next] = AccountSupply(account)
    BY <2>1
  <2>4. [i \in 1..(next - 1) |-> supplies[i]] = [i \in 1..(next - 1) |-> AccountSupply(accounts[i])]
    <3>1. \A i \in 1..(next - 1) : i \in 1..next
      BY <2>1
    <3> QED BY <3>1
  <2> HIDE DEF supplies
  <2>5. Total(supplies) = Total([i \in 1..(next - 1) |-> supplies[i]]) + supplies[next]
    <3> DEFINE m == next - 1
    <3>1. m \in Nat /\ supplies \in [1..(m + 1) -> Int]
      BY <2>1, <2>2
    <3> HIDE DEF m
    <3>2. Total(supplies) = Total([i \in 1..m |-> supplies[i]]) + supplies[m + 1]
      BY <3>1, TotalStep
    <3> QED BY <2>1, <3>2 DEF m
  <2> QED BY <1>1, <1>2, <2>3, <2>4, <2>5
<1>5. supplies = [i \in Seen |-> AccountSupply(accounts[i])]'
  <2>1. Seen' = 1..next
    BY <1>2 DEF Seen
  <2> QED BY <2>1 DEF AccountSupply, getLockedBalances, LockedInPoS
<1>6. userSubstore \in Seq(UserEntries) /\ \A e \in UserEntries : Holdings(e) \in Int
  BY EntriesHold DEF AssetsInv, UserInv, After
<1>7. Total(Held(userSubstore)) \in Int
  BY <1>6, HeldTotal
<1>8. totalLSKSupply' = Total(Held(userSubstore')) + reserveNow
  <2>1. CASE account.address # LegacyReserve
    <3> DEFINE e == UserEntry(account)
               T == UserEntries \cup {e}
    <3>1. userSubstore' = userSubstore \o <<e>>
      BY <1>2, <2>1 DEF createUserSubstoreArrayEntry
    <3>2. Holdings(e) = AccountSupply(account) /\ Holdings(e) \in Int
      BY <1>3
    <3> HIDE DEF e
    <3>3. userSubstore \in Seq(T) /\ e \in T /\ \A x \in T : Holdings(x) \in Int
      BY <1>6, <3>2
    <3> HIDE DEF T
    <3>4. userSubstore' = Append(userSubstore, e)
      <4>1. \A s \in Seq(T) : s \o <<e>> = Append(s, e)
        BY <3>3
      <4> QED BY <3>1, <3>3, <4>1
    <3>5. Total(Held(userSubstore')) = Total(Held(userSubstore)) + AccountSupply(account)
      BY <3>2, <3>3, <3>4, HeldAppend
    <3>6. reserveNow = reserve
      BY <2>1
    <3>7. reserve \in Int
      <4>1. HasReserve => AccountSupply(ReserveAccount) \in Int
        BY ReserveType, SupplyOfAccount DEF AssetsInv, ReadInv
      <4>2. (\E i \in Seen : accounts[i].address = LegacyReserve) => HasReserve
        BY DEF HasReserve, ReserveIndices
      <4> QED BY <4>1, <4>2
    <3> HIDE DEF reserve, reserveNow
    <3> QED BY <1>1, <1>2, <1>3, <1>7, <3>5, <3>6, <3>7
  <2>2. CASE account.address = LegacyReserve
    <3>1. createUserSubstoreArrayEntry(account) = <<>>
      BY <2>2 DEF createUserSubstoreArrayEntry
    <3>2. userSubstore' = userSubstore
      BY <1>2, <1>6, <3>1
    <3>3. reserve = 0
      <4>1. account.address \in Nat
        BY DEF Account
      <4> QED BY <2>2, <4>1
    <3>4. ReserveAccount = account
      BY <2>2, ReserveIsOne DEF AssetsInv, ReadInv
    <3>5. reserveNow = AccountSupply(account)
      BY <2>2, <3>4
    <3> QED BY <1>1, <1>2, <1>3, <1>7, <3>2, <3>3, <3>5
  <2> QED BY <2>1, <2>2
<1>9. reserveNow = (IF \E i \in Seen : accounts[i].address = LegacyReserve
                    THEN AccountSupply(ReserveAccount) ELSE 0)'
  BY DEF ReserveAccount, ReserveIndices, AccountSupply, getLockedBalances, LockedInPoS
<1>10. Held(userSubstore') = Held(userSubstore)'
  BY DEF Held, Holdings
<1> QED BY <1>1, <1>2, <1>4, <1>5, <1>8, <1>9, <1>10 DEF SupplyInv, After

\* A step of the loop keeps the invariant.
LEMMA ProcessAccountInv == AssetsInv /\ ProcessAccount => AssetsInv'
<1> SUFFICES ASSUME AssetsInv, ProcessAccount PROVE AssetsInv'
  OBVIOUS
<1>1. ReadInv'
  <2>1. next' \in 1..(Len(accounts) + 1)
    <3>1. accounts \in Seq(Account) /\ next' = next + 1 /\ next <= Len(accounts)
      BY DEF AssetsInv, ReadInv, ProcessAccount
    <3>2. Len(accounts) \in Nat /\ next \in Nat \ {0}
      BY <3>1, LoopFacts
    <3> QED BY <3>1, <3>2
  <2> QED BY <2>1, LoopFacts DEF AssetsInv, ReadInv, After, Ascending
<1>2. (StartInv /\ ReserveInv /\ KeysInv)'
  BY LoopFacts DEF AssetsInv, StartInv, ReserveInv, KeysInv, ProcessAccount, Before, read,
     ReserveBalance, HasReserve, ReserveAccount, ReserveIndices, KeysFound, Delegates
<1>3. FirstInv'
  BY LoopFacts DEF AssetsInv, FirstInv, ProcessAccount, ValidatorsOfRoundR2, Done
<1> QED BY <1>1, <1>2, <1>3, ProcessAuth, ProcessUsers, ProcessValidators, ProcessStakers,
           ProcessSupply DEF AssetsInv

(***************************************************************************)
(* The end of the loop                                                     *)
(***************************************************************************)
\* Sorting what is in ascending order changes nothing that matters.
LEMMA SortAgain ==
    ASSUME NEW T, NEW list \in Seq(T), \A e \in T : e.address \in Int, Ascending(list)
    PROVE  /\ Sorted(list) \in Seq(T)
           /\ Len(Sorted(list)) = Len(list)
           /\ Ascending(Sorted(list))
           /\ \A a : Listed(list, a) => Listed(Sorted(list), a)
<1>1. \A i, j \in DOMAIN list : i # j => list[i].address # list[j].address
  BY AscendingDistinct
<1>2. /\ Sorted(list) \in Seq(T)
      /\ Len(Sorted(list)) = Len(list)
      /\ Ascending(Sorted(list))
      /\ \A i \in DOMAIN list : \E j \in DOMAIN Sorted(list) : Sorted(list)[j] = list[i]
  BY <1>1, SortedEntries
<1> QED BY <1>2 DEF Listed

\* When the loop ends it has been at every account.
LEMMA LoopDone ==
    ASSUME AssetsInv, pc \in After \/ (pc = "loop" /\ next > Len(accounts))
    PROVE  /\ next = Len(accounts) + 1
           /\ Seen = DOMAIN accounts
           /\ accounts \in Seq(Account) /\ Ascending(accounts)
           /\ \A i \in Seen : accounts[i] \in Account
<1>1. accounts \in Seq(Account) /\ Ascending(accounts) /\ next \in 1..(Len(accounts) + 1)
      /\ (pc \in After => next = Len(accounts) + 1)
  BY DEF AssetsInv, ReadInv
<1>2. Len(accounts) \in Nat /\ DOMAIN accounts = 1..Len(accounts)
  BY <1>1
<1>3. next = Len(accounts) + 1
  BY <1>1, <1>2 DEF After
<1>4. Seen = 1..Len(accounts)
  BY <1>2, <1>3 DEF Seen
<1> QED BY <1>1, <1>2, <1>3, <1>4

\* What the end of the loop starts from.
LEMMA SortFacts ==
    ASSUME AssetsInv, SortEntries
    PROVE  /\ pc = "loop" /\ pc' = "genesisData" /\ pc' \in After
           /\ pc \notin After /\ pc \notin Before /\ pc' \notin Before
           /\ next = Len(accounts) + 1
           /\ Seen = DOMAIN accounts
           /\ accounts \in Seq(Account) /\ Ascending(accounts)
           /\ \A i \in Seen : accounts[i] \in Account
           /\ UNCHANGED <<snapshot, accounts, validatorKeys, next, legacyReserveAmount,
                          totalLSKSupply, initValidators>>
  BY LoopDone DEF SortEntries, After, Before, read

\* The list of signing keys is sorted.
LEMMA SortAuth == AssetsInv /\ SortEntries => AuthInv'
<1> SUFFICES ASSUME AssetsInv, SortEntries PROVE AuthInv'
  OBVIOUS
<1> USE SortFacts
<1> DEFINE S == {getAuthModuleEntryBuffer(accounts[i]) : i \in Seen}
<1>1. auth \in Seq(S) /\ Len(auth) = next - 1 /\ Ascending(auth)
  BY DEF AssetsInv, AuthInv
<1>2. auth' = Sorted(auth)
  BY DEF SortEntries
<1>3. \A x \in S : x.address \in Int
  BY DEF getAuthModuleEntryBuffer, Account
<1>4. S = {getAuthModuleEntryBuffer(accounts[i]) : i \in Seen}'
  BY DEF getAuthModuleEntryBuffer, Seen
<1> HIDE DEF S
<1>5. auth' \in Seq(S) /\ Len(auth') = Len(auth) /\ Ascending(auth')
  BY <1>1, <1>2, <1>3, SortAgain
<1>6. Ascending(auth)'
  BY <1>5 DEF Ascending
<1> QED BY <1>1, <1>4, <1>5, <1>6 DEF AuthInv

\* The list of delegates is sorted.
LEMMA SortValidators == AssetsInv /\ SortEntries => ValidatorInv'
<1> SUFFICES ASSUME AssetsInv, SortEntries PROVE ValidatorInv'
  OBVIOUS
<1> USE SortFacts
<1> DEFINE S == {ValidatorEntry(accounts[i]) : i \in {j \in Seen : accounts[j].delegate}}
<1>1. validators \in Seq(S) /\ Ascending(validators)
  BY DEF AssetsInv, ValidatorInv
<1>2. validators' = Sorted(validators)
  BY DEF SortEntries
<1>3. \A x \in S : x.address \in Int
  BY DEF ValidatorEntry, createValidatorsArrayEntry, Account
<1>4. S = {ValidatorEntry(accounts[i]) : i \in {j \in Seen : accounts[j].delegate}}'
  BY DEF ValidatorEntry, createValidatorsArrayEntry, Seen
<1> HIDE DEF S
<1>5. validators' \in Seq(S) /\ Ascending(validators')
  BY <1>1, <1>2, <1>3, SortAgain
<1>6. Ascending(validators)'
  BY <1>5 DEF Ascending
<1> QED BY <1>4, <1>5, <1>6 DEF ValidatorInv

\* The list of stakers is sorted.
LEMMA SortStakers == AssetsInv /\ SortEntries => StakerInv'
<1> SUFFICES ASSUME AssetsInv, SortEntries PROVE StakerInv'
  OBVIOUS
<1> USE SortFacts
<1> DEFINE S == {StakerEntry(accounts[i]) : i \in {j \in Seen : IsStaker(accounts[j])}}
<1>1. /\ stakers \in Seq(S) /\ Ascending(stakers)
      /\ \A i \in Seen : IsStaker(accounts[i]) => Listed(stakers, accounts[i].address)
  BY DEF AssetsInv, StakerInv
<1>2. stakers' = Sorted(stakers)
  BY DEF SortEntries
<1>3. \A x \in S : x.address \in Int
  BY DEF StakerEntry, createStakersArrayEntry, Account
<1>4. S = {StakerEntry(accounts[i]) : i \in {j \in Seen : IsStaker(accounts[j])}}'
  BY DEF StakerEntry, createStakersArrayEntry, IsStaker, Seen
<1> HIDE DEF S
<1>5. stakers' \in Seq(S) /\ Ascending(stakers')
      /\ \A a : Listed(stakers, a) => Listed(stakers', a)
  BY <1>1, <1>2, <1>3, SortAgain
<1>6. Ascending(stakers)'
  BY <1>5 DEF Ascending
<1>7. (\A i \in Seen : IsStaker(accounts[i]) => Listed(stakers, accounts[i].address))'
  <2>1. \A i \in Seen : IsStaker(accounts[i]) => Listed(stakers', accounts[i].address)
    BY <1>1, <1>5
  <2> QED BY <2>1 DEF Seen, IsStaker, Listed
<1> QED BY <1>4, <1>5, <1>6, <1>7 DEF StakerInv

\* The list of users with the reserve appended: what is known of it before it
\* is sorted.
LEMMA WithReserve ==
    ASSUME AssetsInv, SortEntries, NEW T, T = UserEntries \cup {LegacyReserveEntry}
    PROVE  /\ userSubstore \in Seq(T) /\ LegacyReserveEntry \in T
           /\ Append(userSubstore, LegacyReserveEntry) \in Seq(T)
           /\ \A e \in T : e.address \in Int /\ Holdings(e) \in Int
           /\ \A i, j \in DOMAIN Append(userSubstore, LegacyReserveEntry) :
                 i # j => Append(userSubstore, LegacyReserveEntry)[i].address
                          # Append(userSubstore, LegacyReserveEntry)[j].address
<1> USE SortFacts
<1> DEFINE list == Append(userSubstore, LegacyReserveEntry)
<1>1. userSubstore \in Seq(UserEntries) /\ Ascending(userSubstore)
  BY DEF AssetsInv, UserInv
<1>2. userSubstore \in Seq(T) /\ LegacyReserveEntry \in T
  BY <1>1
<1>3. list \in Seq(T)
  BY <1>2
<1>4. legacyReserveAmount \in Nat
  <2>1. legacyReserveAmount = ReserveBalance + Total(Amounts(snapshot.unregistered))
    BY DEF AssetsInv, ReserveInv
  <2>2. snapshot.unregistered \in Seq(Amount)
    BY ParametersAssumption DEF AssetsInv, ReadInv, Snapshot
  <2>3. Total(Amounts(snapshot.unregistered)) \in Nat /\ ReserveBalance \in Nat
    BY <2>2, AmountsTotal, ReserveType
  <2> QED BY <2>1, <2>3
<1>5. Holdings(LegacyReserveEntry) \in Nat /\ LegacyReserveEntry.address = LegacyReserve
  BY <1>4, ReserveHolds DEF LegacyReserveEntry
<1>6. \A e \in T : e.address \in Int /\ Holdings(e) \in Int
  <2>1. \A e \in UserEntries : Holdings(e) \in Int /\ e.address \in Int
    BY EntriesHold
  <2> QED BY <1>5, <2>1, ParametersAssumption
<1>7. \A e \in UserEntries : e.address # LegacyReserve
  BY DEF UserEntries, UserEntry
<1>8. /\ Len(userSubstore) \in Nat /\ DOMAIN userSubstore = 1..Len(userSubstore)
      /\ DOMAIN list = 1..(Len(userSubstore) + 1)
      /\ list[Len(userSubstore) + 1] = LegacyReserveEntry
      /\ \A i \in 1..Len(userSubstore) : list[i] = userSubstore[i] /\ list[i] \in UserEntries
  BY <1>1
<1> HIDE DEF list
<1>9. ASSUME NEW i \in DOMAIN list, NEW j \in DOMAIN list, list[i].address = list[j].address
      PROVE  i = j
  <2>1. /\ i = Len(userSubstore) + 1 \/ i \in 1..Len(userSubstore)
        /\ j = Len(userSubstore) + 1 \/ j \in 1..Len(userSubstore)
    BY <1>8
  <2>2. CASE i \in 1..Len(userSubstore) /\ j \in 1..Len(userSubstore)
    BY <1>1, <1>6, <1>8, <1>9, <2>2, AscendingDistinct
  <2>3. CASE i = Len(userSubstore) + 1 \/ j = Len(userSubstore) + 1
    BY <1>5, <1>7, <1>8, <1>9, <2>1, <2>3
  <2> QED BY <2>1, <2>2, <2>3
<1> QED BY <1>2, <1>3, <1>6, <1>9 DEF list

\* The reserve gets its entry, and the user substore is sorted.
LEMMA SortUsers == AssetsInv /\ SortEntries => UserInv'
<1> SUFFICES ASSUME AssetsInv, SortEntries PROVE UserInv'
  OBVIOUS
<1> USE SortFacts
<1> DEFINE T == UserEntries \cup {LegacyReserveEntry}
           list == Append(userSubstore, LegacyReserveEntry)
<1>1. userSubstore' = Sorted(list)
  BY DEF SortEntries
<1>2. T = (UserEntries \cup {LegacyReserveEntry})'
  <2>1. UserEntries' = UserEntries
    BY DEF UserEntries, UserEntry, getLockedBalances, LockedInPoS, Seen
  <2>2. LegacyReserveEntry' = LegacyReserveEntry
    BY DEF LegacyReserveEntry, ReserveBalance, HasReserve, ReserveAccount, ReserveIndices,
           getLockedBalances, LockedInPoS
  <2> QED BY <2>1, <2>2
<1>3. /\ list \in Seq(T)
      /\ \A e \in T : e.address \in Int
      /\ \A i, j \in DOMAIN list : i # j => list[i].address # list[j].address
  BY WithReserve
<1> HIDE DEF list, T
<1>4. userSubstore' \in Seq(T) /\ Ascending(userSubstore')
  BY <1>1, <1>3, SortedEntries
<1>5. Ascending(userSubstore)'
  BY <1>4 DEF Ascending
<1> QED BY <1>2, <1>4, <1>5 DEF UserInv

\* The entry of the reserve holds what the user substore lacked of the supply.
LEMMA SortSupply == AssetsInv /\ SortEntries => SupplyInv'
<1> SUFFICES ASSUME AssetsInv, SortEntries PROVE SupplyInv'
  OBVIOUS
<1> USE SortFacts
<1> DEFINE T == UserEntries \cup {LegacyReserveEntry}
           list == Append(userSubstore, LegacyReserveEntry)
<1>1. /\ totalLSKSupply = Total([i \in Seen |-> AccountSupply(accounts[i])])
      /\ totalLSKSupply =
             Total(Held(userSubstore))
             + (IF \E i \in Seen : accounts[i].address = LegacyReserve
                THEN AccountSupply(ReserveAccount) ELSE 0)
  BY DEF AssetsInv, SupplyInv
<1>2. userSubstore' = Sorted(list) /\ supply' = totalLSKSupply + legacyReserveAmount
  BY DEF SortEntries
<1>3. (\E i \in Seen : accounts[i].address = LegacyReserve) <=> HasReserve
  BY DEF HasReserve, ReserveIndices
<1>4. /\ userSubstore \in Seq(T) /\ LegacyReserveEntry \in T
      /\ list \in Seq(T)
      /\ \A e \in T : e.address \in Int /\ Holdings(e) \in Int
  BY WithReserve
<1>5. legacyReserveAmount \in Nat
  <2>1. legacyReserveAmount = ReserveBalance + Total(Amounts(snapshot.unregistered))
    BY DEF AssetsInv, ReserveInv
  <2>2. snapshot.unregistered \in Seq(Amount)
    BY ParametersAssumption DEF AssetsInv, ReadInv, Snapshot
  <2>3. Total(Amounts(snapshot.unregistered)) \in Nat /\ ReserveBalance \in Nat
    BY <2>2, AmountsTotal, ReserveType
  <2> QED BY <2>1, <2>3
<1>6. Total(Held(Sorted(list))) = Total(Held(list))
  <2> HIDE DEF list, T
  <2> QED BY <1>4, HeldSorted
<1>7. Total(Held(list)) = Total(Held(userSubstore)) + Holdings(LegacyReserveEntry)
      /\ Total(Held(userSubstore)) \in Int
  <2> HIDE DEF T
  <2> QED BY <1>4, HeldAppend, HeldTotal
<1>8. Holdings(LegacyReserveEntry) =
          legacyReserveAmount + (IF HasReserve THEN AccountSupply(ReserveAccount) ELSE 0)
  <2>1. Holdings(LegacyReserveEntry) =
            ReserveBalance + legacyReserveAmount
            + (IF HasReserve THEN LockedInPoS(ReserveAccount) ELSE 0)
    BY <1>5, ReserveHolds
  <2>2. ReserveBalance \in Nat /\ (HasReserve => ReserveAccount \in Account)
    BY ReserveType
  <2>3. CASE HasReserve
    <3>1. /\ AccountSupply(ReserveAccount) = ReserveBalance + LockedInPoS(ReserveAccount)
          /\ LockedInPoS(ReserveAccount) \in Nat
      BY <2>2, <2>3, SupplyOfAccount, LockedNat DEF ReserveBalance
    <3> QED BY <1>5, <2>1, <2>2, <2>3, <3>1
  <2>4. CASE ~HasReserve
    BY <1>5, <2>1, <2>2, <2>4 DEF ReserveBalance
  <2> QED BY <2>3, <2>4
<1>9. (IF HasReserve THEN AccountSupply(ReserveAccount) ELSE 0) \in Int
  BY ReserveType, SupplyOfAccount
<1>10. supply' = Total(Held(userSubstore'))
  BY <1>1, <1>2, <1>3, <1>5, <1>6, <1>7, <1>8, <1>9
<1>11. Held(userSubstore') = Held(userSubstore)'
  BY DEF Held, Holdings
<1>12. [i \in Seen |-> AccountSupply(accounts[i])]' = [i \in Seen |-> AccountSupply(accounts[i])]
  BY DEF Seen, AccountSupply, getLockedBalances, LockedInPoS
<1> QED BY <1>1, <1>2, <1>10, <1>11, <1>12 DEF SupplyInv

\* The end of the loop keeps the invariant.
LEMMA SortEntriesInv == AssetsInv /\ SortEntries => AssetsInv'
<1> SUFFICES ASSUME AssetsInv, SortEntries PROVE AssetsInv'
  OBVIOUS
<1>1. ReadInv'
  BY SortFacts DEF AssetsInv, ReadInv, After, Ascending
<1>2. (StartInv /\ ReserveInv /\ KeysInv)'
  <2>1. StartInv'
    BY SortFacts DEF StartInv
  <2>2. ReserveInv'
    BY SortFacts DEF AssetsInv, ReserveInv, ReserveBalance, HasReserve, ReserveAccount,
       ReserveIndices
  <2>3. KeysInv'
    BY SortFacts DEF AssetsInv, KeysInv, KeysFound, Delegates
  <2> QED BY <2>1, <2>2, <2>3
<1>3. FirstInv'
  BY SortFacts DEF AssetsInv, FirstInv, ValidatorsOfRoundR2, Done
<1> QED BY <1>1, <1>2, <1>3, SortAuth, SortUsers, SortValidators, SortStakers, SortSupply
        DEF AssetsInv

(***************************************************************************)
(* The first validators                                                    *)
(***************************************************************************)
\* What \div computes.
LEMMA Division ==
    ASSUME NEW a \in Int, NEW b \in Nat \ {0}
    PROVE  /\ a \div b \in Int
           /\ (a \div b) * b <= a
           /\ a < (a \div b) * b + b
  OBVIOUS

\* The round that ceiling(height, ROUND_LENGTH) - 2 names ends before the height
\* by one round at least and by two at most.
LEMMA RoundOfHeight ==
    ASSUME NEW h \in Nat
    PROVE  LET r == ceiling(h, RoundLength) - 2
           IN  /\ r \in Int
               /\ (r + 1) * RoundLength < h
               /\ h <= (r + 2) * RoundLength
<1> DEFINE q == ceiling(h, RoundLength)
           p == q * RoundLength
<1>1. RoundLength \in Nat \ {0} /\ h + RoundLength - 1 \in Int
  BY ParametersAssumption
<1>2. q \in Int /\ p <= h + RoundLength - 1 /\ h + RoundLength - 1 < p + RoundLength
  BY <1>1, Division DEF ceiling
<1> HIDE DEF q
<1>3. p \in Int /\ (q - 1) * RoundLength = p - RoundLength
  BY <1>1, <1>2
<1>4. (q - 1) * RoundLength < h
  <2> HIDE DEF p
  <2> QED BY <1>1, <1>2, <1>3
<1>5. h <= p
  <2> HIDE DEF p
  <2> QED BY <1>1, <1>2, <1>3
<1>6. q - 2 + 1 = q - 1 /\ q - 2 + 2 = q /\ q - 2 \in Int
  BY <1>2
<1> QED BY <1>4, <1>5, <1>6 DEF q

\* Sorting and choosing add no delegate, and leave at most the active ones.
LEMMA ChosenDelegates ==
    ASSUME NEW delegates \in Seq(Nat)
    PROVE  LET first == SortBy(Chosen(delegates), Chosen(delegates))
           IN  /\ Len(first) <= ActiveSlots
               /\ ToSet(first) \subseteq ToSet(delegates)
<1> DEFINE keep == {a \in ToSet(delegates) : ~AccountBanned(a)}
           list == Filter(delegates, keep)
           slots == IF Len(list) < ActiveSlots THEN Len(list) ELSE ActiveSlots
           chosen == Chosen(delegates)
           first == SortBy(chosen, chosen)
<1>1. ActiveSlots \in Nat
  BY ParametersAssumption
<1>2. list \in Seq(Nat)
  <2> HIDE DEF keep
  <2> QED BY FilterSelects
<1>3. PICK e : Selects(e, list, delegates, keep, Len(delegates))
  <2> HIDE DEF keep
  <2> QED BY FilterSelects
<1>4. chosen = SubSeq(list, 1, slots)
  BY DEF Chosen, FirstSlots
<1> HIDE DEF list, keep, chosen
<1>5. Len(delegates) \in Nat /\ DOMAIN delegates = 1..Len(delegates)
      /\ Len(list) \in Nat /\ DOMAIN list = 1..Len(list)
  BY <1>2
<1>6. slots \in Nat /\ slots <= Len(list) /\ slots <= ActiveSlots
  BY <1>1, <1>5
<1> HIDE DEF slots
<1>7. /\ chosen \in Seq(Nat) /\ Len(chosen) = slots /\ DOMAIN chosen = 1..slots
      /\ \A i \in 1..slots : chosen[i] = list[i]
  BY <1>2, <1>4, <1>5, <1>6
<1>8. chosen \in [1..Len(chosen) -> Int]
  BY <1>7
<1>9. PICK p \in Arrangements(Len(chosen)) : first = [i \in 1..Len(chosen) |-> chosen[p[i]]]
  BY <1>7, <1>8, SortByList, SMTT(30)
<1>10. Len(first) = slots
  BY <1>7, <1>8, SortByList
<1>11. ASSUME NEW i \in 1..slots PROVE first[i] \in ToSet(delegates)
  <2>1. p[i] \in 1..slots
    <3>1. p \in [1..Len(chosen) -> 1..Len(chosen)]
      BY ArrangementDef
    <3> QED BY <1>7, <3>1
  <2>2. first[i] = list[p[i]] /\ p[i] \in 1..Len(list)
    BY <1>5, <1>6, <1>7, <1>9, <2>1
  <2>3. e[p[i]] \in 1..Len(delegates) /\ list[p[i]] = delegates[e[p[i]]]
    BY <1>3, <2>2 DEF Selects
  <2> QED BY <1>5, <2>2, <2>3 DEF ToSet
<1>12. DOMAIN first = 1..slots
  BY <1>7, <1>9
<1> QED BY <1>6, <1>10, <1>11, <1>12 DEF ToSet, chosen

\* A step that collects nothing: the last one, and a stuttering one.
LEMMA CollectsNothing ==
    ASSUME AssetsInv, pc' = pc \/ (pc \in After /\ pc' \in After),
           UNCHANGED <<snapshot, accounts, next, legacyReserveAmount, totalLSKSupply, auth,
                       userSubstore, validators, stakers, supply, validatorKeys>>
    PROVE  /\ (ReadInv /\ StartInv /\ ReserveInv /\ KeysInv)'
           /\ (AuthInv /\ UserInv /\ ValidatorInv /\ StakerInv /\ SupplyInv)'
<1>1. /\ pc' \in After <=> pc \in After
      /\ pc' \in Before <=> pc \in Before
      /\ pc' \in {"read", "legacy"} <=> pc \in {"read", "legacy"}
      /\ pc \in Before \cup {"loop"} \cup After => pc' \in Before \cup {"loop"} \cup After
  BY DEF After, Before
<1>2. ReadInv' /\ StartInv'
  BY <1>1 DEF AssetsInv, ReadInv, StartInv, Ascending
<1>3. ReserveInv'
  BY <1>1 DEF AssetsInv, ReserveInv, ReserveBalance, HasReserve, ReserveAccount, ReserveIndices
<1>4. KeysInv'
  BY <1>1 DEF AssetsInv, KeysInv, KeysFound, Delegates
<1>5. AuthInv' /\ ValidatorInv' /\ StakerInv'
  BY <1>1 DEF AssetsInv, AuthInv, ValidatorInv, StakerInv, Seen, Ascending, Listed,
              getAuthModuleEntryBuffer, ValidatorEntry, createValidatorsArrayEntry,
              StakerEntry, createStakersArrayEntry, IsStaker
<1>6. UserInv'
  <2>1. UserEntries' = UserEntries
    BY DEF UserEntries, UserEntry, getLockedBalances, LockedInPoS, Seen
  <2>2. LegacyReserveEntry' = LegacyReserveEntry
    BY <1>1 DEF LegacyReserveEntry, ReserveBalance, HasReserve, ReserveAccount, ReserveIndices,
                getLockedBalances, LockedInPoS
  <2>3. Ascending(userSubstore)' = Ascending(userSubstore)
    BY <1>1 DEF Ascending
  <2> QED BY <1>1, <2>1, <2>2, <2>3 DEF AssetsInv, UserInv
<1>7. SupplyInv'
  <2>1. Held(userSubstore)' = Held(userSubstore)
    BY <1>1 DEF Held, Holdings
  <2>2. [i \in Seen |-> AccountSupply(accounts[i])]' = [i \in Seen |-> AccountSupply(accounts[i])]
    BY <1>1 DEF Seen, AccountSupply, getLockedBalances, LockedInPoS
  <2>3. /\ AccountSupply(ReserveAccount)' = AccountSupply(ReserveAccount)
        /\ (\E i \in Seen : accounts[i].address = LegacyReserve)' <=>
           \E i \in Seen : accounts[i].address = LegacyReserve
    BY DEF Seen, AccountSupply, getLockedBalances, LockedInPoS, ReserveAccount, ReserveIndices
  <2> QED BY <1>1, <2>1, <2>2, <2>3 DEF AssetsInv, SupplyInv
<1> QED BY <1>2, <1>3, <1>4, <1>5, <1>6, <1>7

\* createGenesisDataObj keeps the invariant.
LEMMA GenesisDataInv == AssetsInv /\ GenesisData => AssetsInv'
<1> SUFFICES ASSUME AssetsInv, GenesisData PROVE AssetsInv'
  OBVIOUS
<1>1. /\ pc' \in {"done", "failed"} /\ pc \in After /\ pc' \in After /\ pc # "done"
      /\ UNCHANGED <<snapshot, accounts, next, legacyReserveAmount, totalLSKSupply, auth,
                     userSubstore, validators, stakers, supply, validatorKeys>>
  BY DEF GenesisData, read, entries, After
<1>2. /\ (ReadInv /\ StartInv /\ ReserveInv /\ KeysInv)'
      /\ (AuthInv /\ UserInv /\ ValidatorInv /\ StakerInv /\ SupplyInv)'
  BY <1>1, CollectsNothing
<1>3. FirstInv'
  <2> DEFINE weights == snapshot.voteWeights
             r == ceiling(snapshot.height, RoundLength) - 2
             found == RoundIndices(r)
             delegates == weights[Min(found)].delegates
  <2>1. snapshot.height \in Nat
        /\ weights \in Seq([round : Nat, delegates : Seq(Nat)])
    BY ParametersAssumption DEF AssetsInv, ReadInv, Snapshot
  <2>2. CASE pc' = "failed"
    <3>1. initValidators' = initValidators /\ initValidators = <<>>
      BY <1>1, <2>2 DEF GenesisData, AssetsInv, FirstInv
    <3> QED BY <2>2, <3>1, ParametersAssumption DEF FirstInv, ValidatorsOfRoundR2, Done
  <2>3. CASE pc' = "done"
    <3>1. found # {} /\ initValidators' = SortBy(Chosen(delegates), Chosen(delegates))
      BY <2>3 DEF GenesisData
    <3>2. PICK i \in DOMAIN weights : i = Min(found) /\ weights[i].round = r
      <4>1. found \subseteq Nat
        BY <2>1 DEF RoundIndices
      <4>2. PICK k \in found : \A y \in found : k <= y
        BY <3>1, <4>1, LeastNumber
      <4> HIDE DEF found
      <4>3. Min(found) \in found
        BY <4>1, <4>2 DEF Min
      <4> QED BY <4>3 DEF RoundIndices, found
    <3>3. weights[i].delegates \in Seq(Nat) /\ weights[i].delegates = delegates
      <4>1. weights[i] \in [round : Nat, delegates : Seq(Nat)]
        <5>1. \A S : \A s \in Seq(S) : \A k \in DOMAIN s : s[k] \in S
          OBVIOUS
        <5> QED BY <2>1, <5>1
      <4>2. weights[i].delegates = delegates
        <5> HIDE DEF weights, found
        <5> QED BY <3>2
      <4> HIDE DEF weights, delegates
      <4> QED BY <4>1, <4>2
    <3>4. /\ (weights[i].round + 1) * RoundLength < snapshot.height
          /\ snapshot.height <= (weights[i].round + 2) * RoundLength
      BY <2>1, <3>2, RoundOfHeight
    <3>5. Len(initValidators') <= ActiveSlots
          /\ ToSet(initValidators') \subseteq ToSet(weights[i].delegates)
      <4> HIDE DEF delegates
      <4> QED BY <3>1, <3>3, ChosenDelegates
    <3>6. ValidatorsOfRoundR2'
      BY <1>1, <3>4, <3>5 DEF ValidatorsOfRoundR2, ToSet
    <3> QED BY <2>3, <3>5, <3>6 DEF FirstInv
  <2> QED BY <1>1, <2>2, <2>3
<1> QED BY <1>2, <1>3 DEF AssetsInv

(***************************************************************************)
(* The invariant and what it implies                                       *)
(***************************************************************************)
\* So does a step that changes nothing.
LEMMA StutterInv == AssetsInv /\ UNCHANGED vars => AssetsInv'
<1> SUFFICES ASSUME AssetsInv, UNCHANGED vars PROVE AssetsInv'
  OBVIOUS
<1>1. /\ (ReadInv /\ StartInv /\ ReserveInv /\ KeysInv)'
      /\ (AuthInv /\ UserInv /\ ValidatorInv /\ StakerInv /\ SupplyInv)'
  BY CollectsNothing DEF vars, read, entries
<1>2. FirstInv'
  BY DEF AssetsInv, FirstInv, ValidatorsOfRoundR2, Done, vars, read
<1> QED BY <1>1, <1>2 DEF AssetsInv

\* The inductive invariant: each list of createAsset.ts has the entries of the
\* accounts its loop has been at, in ascending order, and the supply is their sum.
THEOREM AssetsInvariant == Spec => []AssetsInv
<1>1. AssetsInv /\ [Next]_vars => AssetsInv'
  BY ReadAccountsInv, LegacyEntryInv, FindKeysInv, ProcessAccountInv, SortEntriesInv,
     GenesisDataInv, StutterInv DEF Next
<1> QED BY <1>1, InitInv, PTL DEF Spec

\* Every variable keeps its type for every snapshot: amounts never get negative,
\* and there are never more first validators than slots.
THEOREM TypeCorrect == Spec => []TypeOK
<1>1. AssetsInv => TypeOK
  <2> SUFFICES ASSUME AssetsInv PROVE TypeOK
    OBVIOUS
  <2>1. /\ accounts \in Seq(Account) /\ Ascending(accounts)
        /\ next \in 1..(Len(accounts) + 1)
        /\ pc \in {"read", "legacy", "keys", "loop", "genesisData", "done", "failed"}
    BY DEF AssetsInv, ReadInv, Before, After
  <2>2. legacyReserveAmount \in Nat
    <3>1. snapshot.unregistered \in Seq(Amount)
      BY ParametersAssumption DEF AssetsInv, ReadInv, Snapshot
    <3> QED BY <2>1, <3>1, AmountsTotal, ReserveType DEF AssetsInv, ReserveInv
  <2>3. totalLSKSupply \in Nat
    <3> DEFINE supplies == [i \in Seen |-> AccountSupply(accounts[i])]
    <3>1. Len(accounts) \in Nat /\ next - 1 \in Nat /\ Seen \subseteq 1..Len(accounts)
      BY <2>1 DEF Seen
    <3>2. \A i \in Seen : AccountSupply(accounts[i]) \in Nat
      BY <2>1, <3>1, SupplyOfAccount
    <3>3. supplies \in [1..(next - 1) -> Nat]
      BY <3>2 DEF Seen
    <3>4. Total(supplies) \in Nat
      BY <3>1, <3>3, TotalNat
    <3> QED BY <3>4 DEF AssetsInv, SupplyInv
  <2>4. supply \in Nat
    BY <2>2, <2>3 DEF AssetsInv, SupplyInv
  <2>5. DOMAIN validatorKeys \subseteq snapshot.blocks \cup snapshot.txs
    BY DEF AssetsInv, KeysInv, KeysFound
  <2> QED BY <2>1, <2>2, <2>3, <2>4, <2>5 DEF TypeOK, AssetsInv, FirstInv
<1> QED BY <1>1, AssetsInvariant, PTL

\* For every snapshot, the supply substore is the sum of the user substore.
THEOREM SupplyIsHeld == Spec => []SupplyMatchesHoldings
<1>1. AssetsInv => SupplyMatchesHoldings
  BY DEF AssetsInv, SupplyInv, SupplyMatchesHoldings, Held, Done, After
<1> QED BY <1>1, AssetsInvariant, PTL

\* The accounts that init works with are those of the snapshot that are kept.
Kept == Filter(snapshot.accounts, {a \in ToSet(snapshot.accounts) : a.wellFormed})

\* They stay what the filter of createAsset.ts:105 has made them.
LEMMA KeptStays == Spec => [](pc # "read" => accounts = Kept)
<1> DEFINE KeptInv == pc # "read" => accounts = Kept
<1>1. Init => KeptInv
  BY DEF Init
<1>2. KeptInv /\ [Next]_vars => KeptInv'
  <2> SUFFICES ASSUME KeptInv, [Next]_vars PROVE KeptInv'
    OBVIOUS
  <2>1. CASE ReadAccounts
    BY <2>1 DEF ReadAccounts, Kept
  <2>2. CASE pc # "read" /\ UNCHANGED <<snapshot, accounts>>
    BY <2>2 DEF Kept
  <2>3. CASE UNCHANGED vars
    BY <2>3 DEF vars, read, Kept
  <2>4. LegacyEntry \/ FindKeys \/ ProcessAccount \/ SortEntries \/ GenesisData
            => pc # "read" /\ UNCHANGED <<snapshot, accounts>>
    BY DEF LegacyEntry, FindKeys, ProcessAccount, SortEntries, GenesisData, read
  <2> QED BY <2>1, <2>2, <2>3, <2>4 DEF Next
<1> QED BY <1>1, <1>2, PTL DEF Spec

\* What each account of v3 had.
V3Amounts == [a \in Account |-> a.balance + LockedInPoS(a)]

\* What the accounts of a list had, as the weights of ListLemmas.
LEMMA BalanceWeights ==
    ASSUME NEW list \in Seq(Account)
    PROVE  /\ V3Amounts \in [Account -> Int]
           /\ V3Balance(list) = Total(Weights(list, V3Amounts))
           /\ V3Balance(list) \in Int
<1>1. ASSUME NEW a \in Account PROVE a.balance + LockedInPoS(a) \in Int
  <2>1. a.balance \in Nat
    BY DEF Account
  <2> QED BY <2>1, LockedNat
<1>2. V3Amounts \in [Account -> Int]
  BY <1>1 DEF V3Amounts
<1>3. Len(list) \in Nat /\ DOMAIN list = 1..Len(list) /\ \A i \in DOMAIN list : list[i] \in Account
  OBVIOUS
<1>4. Weights(list, V3Amounts) = [i \in DOMAIN list |-> list[i].balance + LockedInPoS(list[i])]
  BY <1>3 DEF Weights, V3Amounts
<1>5. Weights(list, V3Amounts) \in [1..Len(list) -> Int]
  BY <1>2, <1>3 DEF Weights
<1>6. Total(Weights(list, V3Amounts)) \in Int
  BY <1>3, <1>5, TotalInt
<1> QED BY <1>2, <1>4, <1>6 DEF V3Balance

\* For every snapshot, the v4 supply is all that v3 had, less what the dropped
\* accounts had, and with the reserve's own balance twice: the loop, the cached
\* amount of legacy.ts and the filter lose nothing else and add nothing else.
THEOREM ValueIsAccounted == Spec => []ValueAccounted
<1>1. AssetsInv /\ (pc # "read" => accounts = Kept) => ValueAccounted
  <2> SUFFICES ASSUME AssetsInv, accounts = Kept, Done
               PROVE  supply + V3Balance(Dropped) = V3Supply + ReserveBalance
    BY DEF ValueAccounted, Done
  <2> DEFINE list == snapshot.accounts
             keep == {a \in ToSet(list) : a.wellFormed}
             drop == {a \in ToSet(list) : ~a.wellFormed}
  <2>1. pc \in After
    BY DEF Done, After
  <2>2. /\ Seen = DOMAIN accounts /\ \A i \in Seen : accounts[i] \in Account
        /\ accounts \in Seq(Account) /\ Ascending(accounts)
    BY <2>1, LoopDone
  <2>3. \A i \in Seen : AccountSupply(accounts[i]) =
                           accounts[i].balance + LockedInPoS(accounts[i])
    BY <2>2, SupplyOfAccount
  <2>4. [i \in Seen |-> AccountSupply(accounts[i])] =
            [i \in DOMAIN accounts |-> accounts[i].balance + LockedInPoS(accounts[i])]
    BY <2>2, <2>3
  <2>5. totalLSKSupply = V3Balance(accounts)
    BY <2>4 DEF AssetsInv, SupplyInv, V3Balance
  <2>6. list \in Seq(Account) /\ snapshot.unregistered \in Seq(Amount)
    BY ParametersAssumption DEF AssetsInv, ReadInv, Snapshot
  <2>7. \A i \in DOMAIN list : list[i] \in drop <=> list[i] \notin keep
    BY <2>6 DEF ToSet
  <2>8. accounts = Filter(list, keep) /\ Dropped = Filter(list, drop)
    BY DEF Kept, Dropped
  <2> HIDE DEF list, keep, drop
  <2>9. Dropped \in Seq(Account)
    BY <2>6, <2>8, FilterSelects
  <2>10. V3Balance(list) = V3Balance(accounts) + V3Balance(Dropped)
    <3>1. V3Amounts \in [Account -> Int]
          /\ V3Balance(list) = Total(Weights(list, V3Amounts))
      BY <2>6, BalanceWeights
    <3>2. V3Balance(accounts) = Total(Weights(Filter(list, keep), V3Amounts))
      BY <2>2, <2>8, BalanceWeights
    <3>3. V3Balance(Dropped) = Total(Weights(Filter(list, drop), V3Amounts))
      BY <2>8, <2>9, BalanceWeights
    <3>4. Total(Weights(list, V3Amounts)) =
              Total(Weights(Filter(list, keep), V3Amounts))
              + Total(Weights(Filter(list, drop), V3Amounts))
      BY <2>6, <2>7, <3>1, FilterSplits
    <3> QED BY <3>1, <3>2, <3>3, <3>4
  <2>11. legacyReserveAmount = ReserveBalance + Total(Amounts(snapshot.unregistered))
    BY DEF AssetsInv, ReserveInv, Done
  <2>12. supply = totalLSKSupply + legacyReserveAmount
    BY <2>1 DEF AssetsInv, SupplyInv
  <2>13. /\ Total(Amounts(snapshot.unregistered)) \in Int /\ ReserveBalance \in Int
         /\ V3Balance(accounts) \in Int /\ V3Balance(Dropped) \in Int
    BY <2>2, <2>6, <2>9, AmountsTotal, ReserveType, BalanceWeights
  <2>14. V3Supply = V3Balance(list) + Total(Amounts(snapshot.unregistered))
    BY DEF V3Supply, list
  <2> QED BY <2>5, <2>10, <2>11, <2>12, <2>13, <2>14
<1> QED BY <1>1, AssetsInvariant, KeptStays, PTL

\* For every snapshot, the user, auth, validator and staker lists have an address
\* once each, in ascending order.
THEOREM SubstoresInOrder == Spec => []SubstoresSorted
<1>1. AssetsInv => SubstoresSorted
  BY DEF AssetsInv, AuthInv, UserInv, ValidatorInv, StakerInv, SubstoresSorted
<1> QED BY <1>1, AssetsInvariant, PTL

\* For every snapshot, a delegate has its own generator key, if the scans of
\* blocks and transactions found it, and no other's.
THEOREM GeneratorKeys == Spec => []GeneratorKeysFound
<1>1. AssetsInv => GeneratorKeysFound
  <2> SUFFICES ASSUME AssetsInv, Done, NEW i \in DOMAIN validators
               PROVE  validators[i].generatorKey =
                          IF validators[i].address \in snapshot.blocks \cup snapshot.txs
                          THEN validators[i].address ELSE NoKey
    BY DEF GeneratorKeysFound
  <2>1. pc \in After /\ pc \notin Before
    BY DEF Done, After, Before
  <2>2. PICK k \in Seen : accounts[k].delegate /\ validators[i] = ValidatorEntry(accounts[k])
    <3> DEFINE S == {ValidatorEntry(accounts[j]) : j \in {m \in Seen : accounts[m].delegate}}
    <3>1. validators \in Seq(S)
      BY DEF AssetsInv, ValidatorInv
    <3>2. \A T : \A s \in Seq(T) : \A j \in DOMAIN s : s[j] \in T
      OBVIOUS
    <3> QED BY <3>1, <3>2
  <2>3. Seen = DOMAIN accounts
    BY <2>1, LoopDone
  <2> DEFINE a == accounts[k].address
  <2>4. a \in Delegates
    BY <2>2, <2>3 DEF Delegates
  <2>5. validatorKeys = [b \in KeysFound |-> b]
    BY <2>1 DEF AssetsInv, KeysInv
  <2>6. a \in DOMAIN validatorKeys <=> a \in snapshot.blocks \cup snapshot.txs
    BY <2>4, <2>5 DEF KeysFound
  <2>7. /\ validators[i].address = a
        /\ validators[i].generatorKey =
               IF a \in DOMAIN validatorKeys THEN validatorKeys[a] ELSE NoKey
    BY <2>2 DEF ValidatorEntry, createValidatorsArrayEntry
  <2> QED BY <2>5, <2>6, <2>7
<1> QED BY <1>1, AssetsInvariant, PTL

\* For every snapshot and round length, the first validators are voted for two
\* rounds before the round of the snapshot height.
THEOREM FirstValidators == Spec => []ValidatorsOfRoundR2
  BY AssetsInvariant, PTL DEF AssetsInv, FirstInv

\* In a list in ascending order the entry of an address is the one found.
LEMMA EntryIsOne ==
    ASSUME NEW T, NEW list \in Seq(T), \A e \in T : e.address \in Int, Ascending(list),
           NEW i \in DOMAIN list, NEW a, list[i].address = a
    PROVE  EntryOf(list, a) = list[i]
<1>1. \A j \in DOMAIN list : list[j].address = a => j = i
  BY AscendingDistinct
<1> DEFINE c == CHOOSE j \in DOMAIN list : list[j].address = a
<1>2. c = i
  BY <1>1
<1> QED BY <1>2 DEF EntryOf

\* Sorting distinct keys keeps them, in strictly ascending order.
LEMMA SortedKeys ==
    ASSUME NEW list \in Seq(Nat), IsInjective(list)
    PROVE  /\ ToSet(SortBy(list, list)) = ToSet(list)
           /\ \A j \in 2..Len(SortBy(list, list)) :
                 SortBy(list, list)[j - 1] < SortBy(list, list)[j]
<1> DEFINE n == Len(list)
           sorted == SortBy(list, list)
<1>1. n \in Nat /\ DOMAIN list = 1..n /\ \A i \in 1..n : list[i] \in Nat
  OBVIOUS
<1>2. list \in [1..n -> Int]
  BY <1>1
<1>3. Len(sorted) = n
  BY <1>2, SortByList
<1>4. PICK p \in Arrangements(n) :
         /\ sorted = [i \in 1..n |-> list[p[i]]]
         /\ \A i, j \in 1..n : i < j => list[p[i]] <= list[p[j]] /\ p[i] # p[j]
  BY <1>2, SortByList
<1> HIDE DEF n, sorted
<1>5. p \in [1..n -> 1..n] /\ \A k \in 1..n : \E i \in 1..n : p[i] = k
  BY ArrangementDef
<1>6. DOMAIN sorted = 1..n
  BY <1>4
<1>7. ToSet(sorted) = ToSet(list)
  BY <1>1, <1>4, <1>5, <1>6 DEF ToSet
<1>8. ASSUME NEW j \in 2..Len(sorted) PROVE sorted[j - 1] < sorted[j]
  <2>1. j \in 1..n /\ j - 1 \in 1..n /\ j - 1 < j
    BY <1>1, <1>3
  <2>2. p[j - 1] \in 1..n /\ p[j] \in 1..n
    BY <1>5, <2>1
  <2>3. list[p[j - 1]] <= list[p[j]] /\ p[j - 1] # p[j]
    BY <1>4, <2>1
  <2>4. list[p[j - 1]] # list[p[j]]
    BY <1>1, <2>2, <2>3 DEF IsInjective
  <2>5. list[p[j - 1]] \in Nat /\ list[p[j]] \in Nat
    BY <1>1, <2>2
  <2>6. list[p[j - 1]] < list[p[j]]
    BY <2>3, <2>4, <2>5
  <2> QED BY <1>4, <2>1, <2>6
<1> QED BY <1>7, <1>8 DEF sorted

\* The keys of an account with other lists of keys, field by field.
LEMMA KeysExcept ==
    ASSUME NEW M, NEW O, NEW m, NEW o,
           NEW keys \in [numberOfSignatures : Nat, mandatory : M, optional : O]
    PROVE  [keys EXCEPT !.mandatory = m, !.optional = o] =
               [numberOfSignatures |-> keys.numberOfSignatures, mandatory |-> m, optional |-> o]
<1> DEFINE new == [keys EXCEPT !.mandatory = m, !.optional = o]
<1>1. new \in [numberOfSignatures : Nat, mandatory : M \cup {m}, optional : O \cup {o}]
  OBVIOUS
<1>2. /\ new.numberOfSignatures = keys.numberOfSignatures
      /\ new.mandatory = m /\ new.optional = o
  OBVIOUS
<1> HIDE DEF new
<1>3. new = [numberOfSignatures |-> new.numberOfSignatures,
             mandatory |-> new.mandatory, optional |-> new.optional]
  BY <1>1
<1> QED BY <1>2, <1>3 DEF new

\* For every snapshot, sorting the keys of auth.ts keeps the signers of every
\* account, and their number.
THEOREM SameSigners == Spec => []SignersKept
<1>1. AssetsInv => SignersKept
  <2> SUFFICES ASSUME AssetsInv, Done PROVE SignersKept
    BY DEF SignersKept
  <2>1. /\ next = Len(accounts) + 1 /\ Seen = DOMAIN accounts
        /\ accounts \in Seq(Account) /\ Ascending(accounts)
    BY LoopDone DEF Done, After
  <2>2. Len(auth) = Len(accounts)
    <3>1. Len(auth) = next - 1 /\ Len(accounts) \in Nat
      BY <2>1 DEF AssetsInv, AuthInv
    <3> QED BY <2>1, <3>1
  <2>3. ASSUME NEW i \in DOMAIN auth
        PROVE  /\ Signers(auth[i].keys) = Signers(EntryOf(accounts, auth[i].address).keys)
               /\ \A list \in {auth[i].keys.mandatory, auth[i].keys.optional} :
                      \A j \in 2..Len(list) : list[j - 1] < list[j]
    <3>1. PICK k \in DOMAIN accounts : auth[i] = getAuthModuleEntryBuffer(accounts[k])
      <4> DEFINE S == {getAuthModuleEntryBuffer(accounts[j]) : j \in Seen}
      <4>1. auth \in Seq(S)
        BY DEF AssetsInv, AuthInv
      <4>2. \A T : \A s \in Seq(T) : \A j \in DOMAIN s : s[j] \in T
        OBVIOUS
      <4> QED BY <2>1, <4>1, <4>2
    <3> DEFINE keys == accounts[k].keys
    <3>2. accounts[k] \in Account
      BY <2>1
    <3>3. /\ keys \in [numberOfSignatures : Nat, mandatory : Seq(Nat), optional : Seq(Nat)]
          /\ IsInjective(keys.mandatory) /\ IsInjective(keys.optional)
      BY <3>2 DEF Account, Keys
    <3>4. auth[i].address = accounts[k].address /\ auth[i].keys = authKeys(keys)
      BY <3>1 DEF getAuthModuleEntryBuffer
    <3>5. EntryOf(accounts, auth[i].address) = accounts[k]
      <4>1. \A a \in Account : a.address \in Int
        BY DEF Account
      <4> QED BY <2>1, <3>4, <4>1, EntryIsOne
    <3> HIDE DEF keys
    <3> DEFINE m == keys.mandatory
               o == keys.optional
    <3>6. m \in Seq(Nat) /\ o \in Seq(Nat) /\ IsInjective(m) /\ IsInjective(o)
      BY <3>3
    <3>7. authKeys(keys) = [numberOfSignatures |-> keys.numberOfSignatures,
                            mandatory |-> SortBy(m, m), optional |-> SortBy(o, o)]
      <4> DEFINE M == SortBy(m, m)
                 O == SortBy(o, o)
      <4>1. authKeys(keys) = [keys EXCEPT !.mandatory = M, !.optional = O]
        BY DEF authKeys
      <4> HIDE DEF M, O
      <4>2. authKeys(keys) = [numberOfSignatures |-> keys.numberOfSignatures,
                              mandatory |-> M, optional |-> O]
        BY <3>3, <4>1, KeysExcept
      <4> QED BY <4>2 DEF M, O
    <3>8. Signers(keys) = [numberOfSignatures |-> keys.numberOfSignatures,
                           mandatory |-> ToSet(m), optional |-> ToSet(o)]
      <4> DEFINE M == ToSet(m)
                 O == ToSet(o)
      <4>1. Signers(keys) = [keys EXCEPT !.mandatory = M, !.optional = O]
        BY DEF Signers
      <4> HIDE DEF M, O
      <4>2. Signers(keys) = [numberOfSignatures |-> keys.numberOfSignatures,
                             mandatory |-> M, optional |-> O]
        BY <3>3, <4>1, KeysExcept
      <4> QED BY <4>2 DEF M, O
    <3>9. Signers(authKeys(keys)) = [numberOfSignatures |-> keys.numberOfSignatures,
                                     mandatory |-> ToSet(SortBy(m, m)),
                                     optional |-> ToSet(SortBy(o, o))]
      <4> DEFINE a == authKeys(keys)
                 M == ToSet(SortBy(m, m))
                 O == ToSet(SortBy(o, o))
      <4>1. /\ a.numberOfSignatures = keys.numberOfSignatures
            /\ a.mandatory = SortBy(m, m) /\ a.optional = SortBy(o, o)
            /\ a \in [numberOfSignatures : Nat, mandatory : {SortBy(m, m)},
                      optional : {SortBy(o, o)}]
        BY <3>3, <3>7
      <4>2. Signers(a) = [a EXCEPT !.mandatory = M, !.optional = O]
        BY <4>1 DEF Signers
      <4> HIDE DEF M, O, a
      <4>3. Signers(a) = [numberOfSignatures |-> a.numberOfSignatures,
                          mandatory |-> M, optional |-> O]
        BY <4>1, <4>2, KeysExcept
      <4>4. a.numberOfSignatures = keys.numberOfSignatures
        BY <4>1
      <4> QED BY <4>3, <4>4 DEF M, O, a
    <3> HIDE DEF m, o
    <3>10. Signers(authKeys(keys)) = Signers(keys)
      BY <3>6, <3>8, <3>9, SortedKeys
    <3>11. \A list \in {SortBy(m, m), SortBy(o, o)} :
               \A j \in 2..Len(list) : list[j - 1] < list[j]
      BY <3>6, SortedKeys
    <3>12. authKeys(keys).mandatory = SortBy(m, m) /\ authKeys(keys).optional = SortBy(o, o)
      BY <3>7
    <3>13. accounts[k].keys = keys
      BY DEF keys
    <3> QED BY <3>4, <3>5, <3>10, <3>11, <3>12, <3>13
  <2> QED BY <2>2, <2>3 DEF SignersKept
<1> QED BY <1>1, AssetsInvariant, PTL

\* Sorting the votes does not change what they amount to.
LEMMA SortedAmounts ==
    ASSUME NEW list \in Seq(Amount)
    PROVE  Total(Amounts(Sorted(list))) = Total(Amounts(list))
<1> DEFINE n == Len(list)
<1>1. n \in Nat /\ DOMAIN list = 1..n /\ Amounts(list) \in [1..n -> Nat]
  BY AmountsTotal
<1>2. PICK p \in Arrangements(n) : Sorted(list) = [i \in 1..n |-> list[p[i]]]
  <2>1. \A e \in Amount : e.address \in Int
    BY DEF Amount
  <2> QED BY <2>1, SortedList
<1> HIDE DEF n
<1>3. \A i \in 1..n : p[i] \in 1..n
  <2>1. p \in [1..n -> 1..n]
    BY ArrangementDef
  <2> QED BY <2>1
<1>4. Amounts(Sorted(list)) = [i \in 1..n |-> Amounts(list)[p[i]]]
  BY <1>1, <1>2, <1>3 DEF Amounts
<1>5. Amounts(list) \in [1..n -> Int]
  BY <1>1
<1> QED BY <1>1, <1>4, <1>5, TotalArranged

\* What the PoS module holds for an address.
StakesOf(a) ==
    IF Listed(stakers, a)
    THEN Total(Amounts(EntryOf(stakers, a).stakes))
         + Total(Amounts(EntryOf(stakers, a).pendingUnlocks))
    ELSE 0

\* The PoS module holds what v3 had locked, and nothing for other addresses.
LEMMA StakesOfAddress ==
    ASSUME AssetsInv, Done
    PROVE  /\ \A k \in DOMAIN accounts : StakesOf(accounts[k].address) = LockedInPoS(accounts[k])
           /\ \A a : ~Listed(accounts, a) => StakesOf(a) = 0
<1>1. Seen = DOMAIN accounts /\ accounts \in Seq(Account) /\ Ascending(accounts)
  BY LoopDone DEF Done, After
<1> DEFINE S == {StakerEntry(accounts[i]) : i \in {j \in Seen : IsStaker(accounts[j])}}
<1>2. /\ stakers \in Seq(S) /\ Ascending(stakers)
      /\ \A k \in Seen : IsStaker(accounts[k]) => Listed(stakers, accounts[k].address)
  BY DEF AssetsInv, StakerInv
<1>3. \A a \in Account : a.address \in Int
  BY DEF Account
<1>4. \A a : IsStaker(a) => StakerEntry(a) = [address |-> a.address, stakes |-> Sorted(a.votes),
                                              pendingUnlocks |-> a.unlocking]
  BY DEF StakerEntry, createStakersArrayEntry
<1>5. \A i \in DOMAIN stakers : \E k \in DOMAIN accounts :
         IsStaker(accounts[k]) /\ stakers[i] = StakerEntry(accounts[k])
  <2>1. \A T : \A s \in Seq(T) : \A j \in DOMAIN s : s[j] \in T
    OBVIOUS
  <2> QED BY <1>1, <1>2, <2>1
<1>6. \A e \in S : e.address \in Int
  <2>1. \A k \in Seen : accounts[k].address \in Int
    BY <1>1, <1>3
  <2> QED BY <1>4, <2>1
<1> HIDE DEF S
<1>7. ASSUME NEW k \in DOMAIN accounts
      PROVE  StakesOf(accounts[k].address) = LockedInPoS(accounts[k])
  <2> DEFINE account == accounts[k]
             a == account.address
  <2>1. account \in Account
    BY <1>1
  <2>2. account.votes \in Seq(Amount) /\ account.unlocking \in Seq(Amount)
    BY <2>1 DEF Account
  <2>3. \A i \in DOMAIN stakers : stakers[i].address = a =>
            IsStaker(account) /\ stakers[i] = StakerEntry(account)
    <3> SUFFICES ASSUME NEW i \in DOMAIN stakers, stakers[i].address = a
                 PROVE  IsStaker(account) /\ stakers[i] = StakerEntry(account)
      OBVIOUS
    <3>1. PICK j \in DOMAIN accounts :
             IsStaker(accounts[j]) /\ stakers[i] = StakerEntry(accounts[j])
      BY <1>5
    <3>2. accounts[j].address = a
      BY <1>4, <3>1
    <3>3. j = k
      BY <1>1, <1>3, <3>2, AscendingDistinct
    <3> QED BY <3>1, <3>3
  <2>4. CASE IsStaker(account)
    <3>1. PICK i \in DOMAIN stakers : stakers[i].address = a
      BY <1>1, <1>2, <2>4 DEF Listed
    <3>2. EntryOf(stakers, a) = stakers[i]
      BY <1>2, <1>6, <3>1, EntryIsOne
    <3>3. EntryOf(stakers, a) = [address |-> a, stakes |-> Sorted(account.votes),
                                 pendingUnlocks |-> account.unlocking]
      BY <1>4, <2>3, <2>4, <3>1, <3>2
    <3>4. StakesOf(a) = Total(Amounts(Sorted(account.votes))) + Total(Amounts(account.unlocking))
      BY <3>1, <3>3 DEF StakesOf, Listed
    <3> QED BY <2>2, <3>4, SortedAmounts DEF LockedInPoS
  <2>5. CASE ~IsStaker(account)
    <3>1. ~Listed(stakers, a)
      BY <2>3, <2>5 DEF Listed
    <3>2. account.votes = <<>> /\ account.unlocking = <<>>
      BY <2>5 DEF IsStaker
    <3>3. Amounts(<<>>) = <<>>
      BY DEF Amounts
    <3>4. LockedInPoS(account) = 0
      BY <3>2, <3>3, TotalEmpty DEF LockedInPoS
    <3> QED BY <3>1, <3>4 DEF StakesOf
  <2> QED BY <2>4, <2>5
<1>8. ASSUME NEW a, ~Listed(accounts, a) PROVE StakesOf(a) = 0
  <2>1. ~Listed(stakers, a)
    BY <1>4, <1>5, <1>8 DEF Listed
  <2> QED BY <2>1 DEF StakesOf
<1> QED BY <1>7, <1>8

\* What an entry of the token module has locked for PoS.
InPoS(entry) ==
    [k \in DOMAIN entry.locked |->
        IF entry.locked[k].module = "pos" THEN entry.locked[k].amount ELSE 0]

\* Of the entry of an account, PoS has locked its votes and unlocking amounts.
LEMMA LockedForPoS ==
    ASSUME NEW account \in Account
    PROVE  Total(InPoS(UserEntry(account))) = LockedInPoS(account)
<1>1. LockedInPoS(account) \in Nat
  BY LockedNat
<1>2. UserEntry(account).locked = getLockedBalances(account)
  BY DEF UserEntry
<1>3. CASE LockedInPoS(account) > 0
  <2>1. InPoS(UserEntry(account)) = <<LockedInPoS(account)>>
    BY <1>2, <1>3 DEF InPoS, getLockedBalances
  <2> QED BY <1>1, <2>1, TotalOne
<1>4. CASE LockedInPoS(account) = 0
  <2>1. InPoS(UserEntry(account)) = <<>>
    BY <1>2, <1>4 DEF InPoS, getLockedBalances
  <2> QED BY <1>4, <2>1, TotalEmpty
<1> QED BY <1>1, <1>3, <1>4

\* Of the entry of the reserve, PoS has locked those of the reserve account.
LEMMA ReserveLockedForPoS ==
    ASSUME accounts \in Seq(Account), Ascending(accounts)
    PROVE  Total(InPoS(LegacyReserveEntry)) =
               IF HasReserve THEN LockedInPoS(ReserveAccount) ELSE 0
<1> DEFINE legacyLock == [module |-> "legacy", amount |-> legacyReserveAmount]
           posLock == [module |-> "pos", amount |-> LockedInPoS(ReserveAccount)]
           locked == LegacyReserveEntry.locked
<1>1. HasReserve => LockedInPoS(ReserveAccount) \in Nat
  BY ReserveType, LockedNat
<1>2. locked = <<legacyLock>> \o
                   (IF HasReserve THEN getLockedBalances(ReserveAccount) ELSE <<>>)
  BY DEF LegacyReserveEntry
<1>3. CASE HasReserve /\ LockedInPoS(ReserveAccount) > 0
  <2>1. locked = <<legacyLock>> \o <<posLock>>
    BY <1>2, <1>3 DEF getLockedBalances
  <2>2. DOMAIN locked = 1..2 /\ locked[1] = legacyLock /\ locked[2] = posLock
    <3> HIDE DEF legacyLock, posLock, locked
    <3> QED BY <2>1
  <2>3. locked[1].module = "legacy" /\ locked[2].module = "pos"
        /\ locked[2].amount = LockedInPoS(ReserveAccount)
    <3> HIDE DEF locked
    <3> QED BY <2>2
  <2>4. InPoS(LegacyReserveEntry) = <<0, LockedInPoS(ReserveAccount)>>
    <3>1. InPoS(LegacyReserveEntry) =
              [k \in 1..2 |-> IF locked[k].module = "pos" THEN locked[k].amount ELSE 0]
      BY <2>2 DEF InPoS
    <3> HIDE DEF locked
    <3> QED BY <2>3, <3>1
  <2> QED BY <1>1, <1>3, <2>4, TotalTwo
<1>4. CASE ~HasReserve \/ ~(LockedInPoS(ReserveAccount) > 0)
  <2>1. (IF HasReserve THEN getLockedBalances(ReserveAccount) ELSE <<>>) = <<>>
    BY <1>4 DEF getLockedBalances
  <2>2. locked = <<legacyLock>>
    <3>1. \A x : <<x>> \o <<>> = <<x>>
      OBVIOUS
    <3>2. locked = <<legacyLock>> \o <<>>
      BY <1>2, <2>1
    <3> HIDE DEF legacyLock, locked
    <3> QED BY <3>1, <3>2
  <2>3. InPoS(LegacyReserveEntry) = <<0>>
    BY <2>2 DEF InPoS
  <2>4. Total(InPoS(LegacyReserveEntry)) = 0
    BY <2>3, TotalOne
  <2> QED BY <1>1, <1>4, <2>4
<1> QED BY <1>3, <1>4

\* For every snapshot, what the token module has locked for PoS is what the PoS
\* module holds, for every address, the reserve included.
THEOREM LockedIsStaked == Spec => []LockedMatchesStakes
<1>1. AssetsInv => LockedMatchesStakes
  <2> SUFFICES ASSUME AssetsInv, Done, NEW i \in DOMAIN userSubstore
               PROVE  Total(InPoS(userSubstore[i])) = StakesOf(userSubstore[i].address)
    BY DEF LockedMatchesStakes, InPoS, StakesOf
  <2> DEFINE entry == userSubstore[i]
  <2>1. Seen = DOMAIN accounts /\ accounts \in Seq(Account) /\ Ascending(accounts)
    BY LoopDone DEF Done, After
  <2>2. entry \in UserEntries \cup {LegacyReserveEntry}
    <3>1. userSubstore \in Seq(UserEntries \cup {LegacyReserveEntry})
      BY DEF AssetsInv, UserInv, Done, After
    <3>2. \A T : \A s \in Seq(T) : \A j \in DOMAIN s : s[j] \in T
      OBVIOUS
    <3> QED BY <3>1, <3>2
  <2>3. CASE entry \in UserEntries
    <3>1. PICK k \in DOMAIN accounts : entry = UserEntry(accounts[k])
      BY <2>1, <2>3 DEF UserEntries
    <3>2. accounts[k] \in Account /\ entry.address = accounts[k].address
      BY <2>1, <3>1 DEF UserEntry
    <3> QED BY <3>1, <3>2, LockedForPoS, StakesOfAddress
  <2>4. CASE entry = LegacyReserveEntry
    <3>1. entry.address = LegacyReserve
      BY <2>4 DEF LegacyReserveEntry
    <3>2. Total(InPoS(entry)) = IF HasReserve THEN LockedInPoS(ReserveAccount) ELSE 0
      BY <2>1, <2>4, ReserveLockedForPoS
    <3>3. CASE HasReserve
      <4>1. PICK k \in DOMAIN accounts : accounts[k].address = LegacyReserve
        BY <3>3 DEF HasReserve, ReserveIndices
      <4>2. ReserveAccount = accounts[k]
        BY <2>1, <4>1, ReserveIsOne
      <4> QED BY <3>1, <3>2, <3>3, <4>1, <4>2, StakesOfAddress
    <3>4. CASE ~HasReserve
      <4>1. ~Listed(accounts, LegacyReserve)
        BY <3>4 DEF HasReserve, ReserveIndices, Listed
      <4> QED BY <3>1, <3>2, <3>4, <4>1, StakesOfAddress
    <3> QED BY <3>3, <3>4
  <2> QED BY <2>2, <2>3, <2>4
<1> QED BY <1>1, AssetsInvariant, PTL
=============================================================================
