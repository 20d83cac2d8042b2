---------------------------- MODULE KeyScanProofs ----------------------------
(***************************************************************************)
(* The scan of the snapshot misses no record, for any set of keys that is  *)
(* free of prefixes, any page size and any database.                       *)
(***************************************************************************)
EXTENDS KeyScan, FiniteSetTheorems, SequenceTheorems, TLAPS

\* A key of the database ends in a byte that incrementOne adds to without a
\* carry: it changes that byte alone.
LEMMA NoCarry ==
    ASSUME NEW k \in Keys
    PROVE  /\ Len(k) \in DOMAIN k
           /\ CarryStop(k) = Len(k)
           /\ incrementOne(k) = [k EXCEPT ![Len(k)] = @ + 1]
           /\ incrementOne(k) \in Seq(Byte)
           /\ DOMAIN incrementOne(k) = DOMAIN k
<1>1. k \in Seq(Byte) /\ Len(k) > 0 /\ k[Len(k)] < Base - 1
  BY KeysAssumption
<1>2. DOMAIN k = 1..Len(k) /\ Len(k) \in Nat
  BY <1>1
<1>3. CarryStop(k) = Len(k)
  <2>1. \A i \in DOMAIN k :
            (k[i] < Base - 1 /\ \A j \in DOMAIN k : j > i => k[j] = Base - 1)
            <=> i = Len(k)
    BY <1>1, <1>2, BaseAssumption, SMTT(30) DEF Byte
  <2> QED
    BY <2>1, <1>1, <1>2 DEF CarryStop
<1>4. incrementOne(k) = [k EXCEPT ![Len(k)] = @ + 1]
  <2>1. \A i \in DOMAIN k : (i < Len(k) \/ i = Len(k)) /\ ~(i < Len(k) /\ i = Len(k))
    BY <1>2
  <2> QED
    BY <1>1, <1>2, <1>3, <2>1 DEF incrementOne
<1>5. k[Len(k)] + 1 \in Byte
  BY <1>1, <1>2, BaseAssumption DEF Byte
<1>6. [k EXCEPT ![Len(k)] = @ + 1] \in Seq(Byte)
  BY <1>1, <1>2, <1>5
<1> QED
  BY <1>1, <1>2, <1>3, <1>4, <1>6

\* Of two different keys that are in order, the first differing byte decides.
LEMMA FirstDifference ==
    ASSUME NEW k \in Keys, NEW m \in Keys, Precedes(k, m)
    PROVE  \E i \in DOMAIN k \cap DOMAIN m :
               /\ \A j \in 1..(i - 1) : j \in DOMAIN k /\ k[j] = m[j]
               /\ k[i] < m[i]
<1>1. k \in Seq(Byte) /\ m \in Seq(Byte)
  BY KeysAssumption
<1>2. PICK i \in DOMAIN m :
          /\ \A j \in 1..(i - 1) : j \in DOMAIN k /\ k[j] = m[j]
          /\ i \in DOMAIN k => k[i] < m[i]
  BY DEF Precedes
<1>3. ASSUME i \notin DOMAIN k PROVE FALSE
  <2>1. DOMAIN k = 1..(i - 1)
    <3>1. DOMAIN k = 1..Len(k) /\ DOMAIN m = 1..Len(m) /\ Len(k) \in Nat /\ i \in Nat
      BY <1>1
    <3> QED
      BY <3>1, <1>2, <1>3
  <2>2. i \notin DOMAIN k /\ i \in DOMAIN m
    BY <1>2, <1>3
  <2>3. k # m
    BY <2>2
  <2>4. PICK d \in DOMAIN k \cap DOMAIN m : k[d] # m[d]
    BY <2>3, KeysAssumption
  <2> QED
    BY <2>1, <2>4, <1>2
<1> QED
  BY <1>2, <1>3

\* incrementOne skips nothing: a key behind k is not before incrementOne(k).
LEMMA IncrementSkipsNothing ==
    ASSUME NEW k \in Keys, NEW m \in Keys, Precedes(k, m)
    PROVE  AtMost(incrementOne(k), m)
<1> DEFINE n == incrementOne(k)
<1>1. k \in Seq(Byte) /\ m \in Seq(Byte) /\ Len(k) \in Nat /\ Len(m) \in Nat
  BY KeysAssumption
<1>2. DOMAIN k = 1..Len(k) /\ DOMAIN m = 1..Len(m) /\ Len(k) \in DOMAIN k
  BY <1>1, NoCarry
<1>3. /\ DOMAIN n = DOMAIN k
      /\ n[Len(k)] = k[Len(k)] + 1
      /\ \A j \in DOMAIN k \ {Len(k)} : n[j] = k[j]
  BY <1>1, <1>2, NoCarry
<1>4. PICK i \in DOMAIN k \cap DOMAIN m :
          /\ \A j \in 1..(i - 1) : j \in DOMAIN k /\ k[j] = m[j]
          /\ k[i] < m[i]
  BY FirstDifference
<1>5. /\ k[i] \in Int /\ m[i] \in Int /\ i \in 1..Len(k)
  BY <1>1, <1>2, <1>4, BaseAssumption DEF Byte
<1> HIDE DEF n
<1>6. CASE i < Len(k)
  <2>1. n[i] < m[i] /\ \A j \in 1..(i - 1) : j \in DOMAIN n /\ n[j] = m[j]
    BY <1>2, <1>3, <1>4, <1>5, <1>6
  <2> QED
    BY <2>1, <1>4 DEF n, AtMost, Precedes
<1>7. CASE i = Len(k) /\ n[i] < m[i]
  <2>1. \A j \in 1..(i - 1) : j \in DOMAIN n /\ n[j] = m[j]
    <3> SUFFICES ASSUME NEW j \in 1..(i - 1) PROVE j \in DOMAIN n /\ n[j] = m[j]
      OBVIOUS
    <3>1. j \in DOMAIN k
      BY <1>4
    <3>2. j # Len(k)
      BY <1>5, <1>7
    <3> QED
      BY <3>1, <3>2, <1>3, <1>4
  <2> QED
    BY <2>1, <1>4, <1>7 DEF n, AtMost, Precedes
<1>8. CASE i = Len(k) /\ n[i] = m[i]
  <2>1. \A j \in 1..Len(k) : n[j] = m[j]
    BY <1>2, <1>3, <1>4, <1>5, <1>8
  <2>2. Len(m) >= Len(k)
    BY <1>2, <1>4, <1>8
  <2>3. CASE Len(m) = Len(k)
    <3>1. n \in Seq(Byte)
      BY NoCarry DEF n
    <3>2. n = m
      BY <3>1, <2>1, <2>3, <1>1, <1>2, <1>3
    <3> QED
      BY <3>2 DEF n, AtMost
  <2>4. CASE Len(m) > Len(k)
    <3>1. Len(k) + 1 \in DOMAIN m /\ Len(k) + 1 \notin DOMAIN n
      BY <2>4, <1>1, <1>2, <1>3
    <3>2. \A j \in 1..(Len(k) + 1 - 1) : j \in DOMAIN n /\ n[j] = m[j]
      BY <2>1, <1>1, <1>2, <1>3
    <3> QED
      BY <3>1, <3>2 DEF n, AtMost, Precedes
  <2> QED
    BY <2>2, <2>3, <2>4, <1>1
<1> QED
  BY <1>2, <1>3, <1>4, <1>5, <1>6, <1>7, <1>8

(***************************************************************************)
(* The inductive invariant                                                 *)
(***************************************************************************)
\* The last key a handler has or will put into lastKey.
Latest == IF pending = <<>> THEN lastKey ELSE pending[Len(pending)]

\* k is read by a later page: it is behind all this page emits.
Later(k) ==
    /\ exist \/ page # {}
    /\ exist => Latest \in db /\ Precedes(Latest, k)
    /\ \A p \in page : Precedes(p, k)

Handled(k) == Owner[k] \in result

\* Every record is handled, or waits in front of its handler, in the stream
\* or behind the page.
Covered ==
    /\ pc = "open" =>
           \A k \in db : Handled(k) \/ AtMost(startingKey, k)
    /\ pc = "stream" =>
           \A k \in db : \/ Handled(k) \/ k \in page \/ Later(k)
                        \/ \E i \in DOMAIN pending : pending[i] = k
    /\ pc = "done" => \A k \in db : Handled(k)

\* The order of events: nothing waits between two pages, 'end' is the last
\* event of a page, and lastKey is a key of the database once a record came.
Ordered ==
    /\ pc = "open" => pending = <<>> /\ page = {}
    /\ ended => page = {}
    /\ pc = "stream" /\ ~exist => pending = <<>>
    /\ pc = "stream" /\ exist => Latest \in db

Inv == TypeOK /\ Ordered /\ Covered

\* A scan that has not started yet has covered nothing and lost nothing.
LEMMA InitInv == Init => Inv
<1> SUFFICES ASSUME Init PROVE Inv
  OBVIOUS
<1>1. exist \in BOOLEAN /\ ended \in BOOLEAN
  BY Zenon DEF Init
<1>2. db \subseteq Keys
  BY SnapshotAssumption DEF Init
<1> QED
  BY <1>1, <1>2, KeysAssumption, FirstKeyAssumption
  DEF Init, Inv, TypeOK, Ordered, Covered

\* A page is empty only when no record is ahead, and what it leaves out is
\* behind it.
LEMMA OpenInv == ASSUME Inv, OpenStream PROVE Inv'
<1>1. PICK P \in SUBSET Ahead(startingKey) :
          IsPage(P, startingKey, pageSize) /\ page' = P
  BY DEF OpenStream
<1>2. P = {} => Ahead(startingKey) = {}
  <2>1. IsFiniteSet(Ahead(startingKey)) /\ IsFiniteSet(P)
    BY SnapshotAssumption, FS_Subset DEF Inv, TypeOK, Ahead
  <2>2. pageSize \in Nat \ {0} /\ Cardinality(Ahead(startingKey)) \in Nat
    BY <2>1, FS_CardinalityType, SnapshotAssumption DEF Inv, TypeOK
  <2> QED
    BY <1>1, <2>1, <2>2, FS_EmptySet DEF IsPage
<1>3. exist' = FALSE /\ exist' \in BOOLEAN /\ ended' \in BOOLEAN /\ ended' = FALSE
  BY Zenon DEF OpenStream
<1>4. TypeOK'
  BY <1>1, <1>3 DEF OpenStream, Inv, TypeOK, Ahead
<1>5. Ordered'
  BY <1>3 DEF OpenStream, Inv, Ordered
<1>6. \A k \in db : Handled(k) \/ k \in P \/ (P # {} /\ \A p \in P : Precedes(p, k))
  BY <1>1, <1>2 DEF OpenStream, Inv, Covered, Ahead, IsPage
<1>7. Covered'
  BY <1>1, <1>3, <1>6 DEF OpenStream, Covered, Later, Handled
<1> QED
  BY <1>4, <1>5, <1>7 DEF Inv

\* The least key of the page goes to its handler; the others stay behind it.
LEMMA EmitInv == ASSUME Inv, EmitData PROVE Inv'
<1>1. PICK k \in page :
          /\ \A p \in page \ {k} : Precedes(k, p)
          /\ page' = page \ {k}
          /\ pending' = Append(pending, k)
  BY DEF EmitData
<1>2. exist' = TRUE /\ exist' \in BOOLEAN
  BY Zenon DEF EmitData
<1>3. k \in db /\ pending \in Seq(db)
  BY DEF Inv, TypeOK
<1>4. /\ pending' \in Seq(db)
      /\ pending' # <<>>
      /\ pending'[Len(pending')] = k
      /\ \A i \in DOMAIN pending : i \in DOMAIN pending' /\ pending'[i] = pending[i]
      /\ Len(pending') \in DOMAIN pending'
  BY <1>1, <1>3
<1>5. Latest' = k
  BY <1>4 DEF Latest
<1>6. TypeOK' /\ Ordered'
  BY <1>1, <1>2, <1>3, <1>4, <1>5 DEF EmitData, Inv, TypeOK, Ordered
<1>7. ASSUME NEW m \in db
      PROVE  \/ Handled(m)' \/ m \in page' \/ Later(m)'
             \/ \E i \in DOMAIN pending' : pending'[i] = m
  <2>1. \/ Handled(m) \/ m \in page \/ Later(m)
        \/ \E i \in DOMAIN pending : pending[i] = m
    BY DEF EmitData, Inv, Covered
  <2>2. CASE Handled(m)
    BY <2>2 DEF EmitData, Handled
  <2>3. CASE m \in page
    BY <2>3, <1>1, <1>4
  <2>4. CASE Later(m)
    BY <2>4, <1>1, <1>2, <1>3, <1>5 DEF EmitData, Later
  <2>5. CASE \E i \in DOMAIN pending : pending[i] = m
    BY <2>5, <1>4
  <2> QED
    BY <2>1, <2>2, <2>3, <2>4, <2>5
<1>8. Covered'
  BY <1>7 DEF EmitData, Covered
<1> QED
  BY <1>6, <1>8 DEF Inv

\* Handling the first waiting record moves it from the queue to the result.
LEMMA HandleInv == ASSUME Inv, HandleData PROVE Inv'
<1> DEFINE h == Head(pending)
<1>1. /\ pending \in Seq(db) /\ pending # <<>> /\ pc = "stream" /\ pc' = "stream"
      /\ result' = result \cup {Owner[h]} /\ lastKey' = h
      /\ pending' = Tail(pending)
      /\ UNCHANGED <<db, pageSize, startingKey, exist, page, ended>>
  BY DEF HandleData, Inv, TypeOK
<1>2. /\ h = pending[1] /\ h \in db /\ Len(pending) \in Nat \ {0}
      /\ pending' \in Seq(db) /\ Len(pending') = Len(pending) - 1
      /\ \A i \in 1..(Len(pending) - 1) : pending'[i] = pending[i + 1]
  BY <1>1
<1>3. Latest' = Latest
  <2>1. CASE Len(pending) = 1
    BY <2>1, <1>1, <1>2 DEF Latest
  <2>2. CASE Len(pending) > 1
    <3>1. Len(pending') \in 1..(Len(pending) - 1) /\ Len(pending') + 1 = Len(pending)
      BY <2>2, <1>2
    <3>2. pending'[Len(pending')] = pending[Len(pending)]
      BY <3>1, <1>2
    <3>3. pending' # <<>>
      BY <3>1, <1>2
    <3> QED
      BY <3>2, <3>3, <1>1 DEF Latest
  <2> QED
    BY <2>1, <2>2, <1>2
<1>4. h \in Seq(Byte)
  BY <1>2, SnapshotAssumption, KeysAssumption DEF Inv, TypeOK
<1>5. TypeOK'
  BY <1>1, <1>2, <1>4 DEF Inv, TypeOK
<1>6. exist
  BY <1>1 DEF Inv, Ordered
<1>7. Ordered'
  BY <1>1, <1>3, <1>6 DEF Inv, Ordered
<1>8. ASSUME NEW m \in db
      PROVE  \/ Handled(m)' \/ m \in page' \/ Later(m)'
             \/ \E i \in DOMAIN pending' : pending'[i] = m
  <2>1. CASE Handled(m) \/ m = h
    BY <2>1, <1>1 DEF Handled
  <2>2. CASE m \in page
    BY <2>2, <1>1
  <2>3. CASE Later(m)
    BY <2>3, <1>1, <1>3 DEF Later
  <2>4. CASE m # h /\ \E i \in DOMAIN pending : pending[i] = m
    <3>1. PICK i \in DOMAIN pending : pending[i] = m
      BY <2>4
    <3>2. i \in 1..Len(pending) /\ i # 1
      BY <3>1, <2>4, <1>1, <1>2
    <3>3. i - 1 \in 1..(Len(pending) - 1) /\ i - 1 \in DOMAIN pending'
      BY <3>2, <1>2
    <3>4. pending'[i - 1] = m
      BY <3>1, <3>2, <3>3, <1>2
    <3> QED
      BY <3>3, <3>4
  <2> QED
    BY <2>1, <2>2, <2>3, <2>4, <1>1 DEF Inv, Covered
<1>9. Covered'
  BY <1>1, <1>8 DEF Covered
<1> QED
  BY <1>5, <1>7, <1>9 DEF Inv

\* The next page starts right behind the last record of this one.
LEMMA NextPageInv == ASSUME Inv, NextPage PROVE Inv'
<1>1. /\ pc = "stream" /\ ended /\ pending = <<>> /\ page = {}
      /\ UNCHANGED <<db, pageSize, lastKey, exist, result, page, pending>>
      /\ ended' = FALSE /\ ended' \in BOOLEAN
  BY Zenon DEF NextPage, HandlersDone, Inv, Ordered
<1>2. \A k \in db : Handled(k) \/ Later(k)
  BY <1>1 DEF Inv, Covered
<1>3. CASE exist
  <2>1. pc' = "open" /\ startingKey' = incrementOne(lastKey)
    BY <1>3 DEF NextPage
  <2>2. lastKey \in db /\ db \subseteq Keys
    BY <1>1, <1>3, SnapshotAssumption DEF Inv, Ordered, TypeOK, Latest
  <2>3. startingKey' \in Seq(Byte)
    BY <2>1, <2>2, NoCarry
  <2>4. \A k \in db : Handled(k) \/ AtMost(startingKey', k)
    BY <2>1, <2>2, <1>1, <1>2, <1>3, IncrementSkipsNothing DEF Later, Latest
  <2>5. TypeOK'
    BY <1>1, <2>1, <2>3 DEF Inv, TypeOK
  <2> QED
    BY <1>1, <2>1, <2>4, <2>5 DEF Inv, Ordered, Covered, Handled
<1>4. CASE ~exist
  <2>1. pc' = "done" /\ UNCHANGED startingKey
    BY <1>4 DEF NextPage
  <2>2. \A k \in db : Handled(k)
    BY <1>1, <1>2, <1>4 DEF Later
  <2>3. TypeOK'
    BY <1>1, <2>1 DEF Inv, TypeOK
  <2> QED
    BY <1>1, <2>1, <2>2, <2>3 DEF Inv, Ordered, Covered, Handled
<1> QED
  BY <1>3, <1>4

(***************************************************************************)
(* The theorems                                                            *)
(***************************************************************************)
\* Every state of the scan satisfies the invariant: every record is handled, on
\* its way to a handler, or still ahead of the pages read.
THEOREM Invariance == Spec => []Inv
<1>1. Inv /\ [Next]_vars => Inv'
  <2> SUFFICES ASSUME Inv, [Next]_vars PROVE Inv'
    OBVIOUS
  <2>1. CASE EmitEnd
    <3>1. ended' \in BOOLEAN
      BY <2>1, Zenon DEF EmitEnd
    <3>2. TypeOK' /\ Ordered'
      BY <2>1, <3>1 DEF EmitEnd, Inv, TypeOK, Ordered, Latest
    <3>3. Covered'
      BY <2>1 DEF EmitEnd, Inv, Covered, Handled, Later, Latest
    <3> QED
      BY <3>2, <3>3 DEF Inv
  <2>2. CASE ScanFails
    BY <2>2 DEF ScanFails, Inv, TypeOK, Ordered, Covered
  <2>3. CASE UNCHANGED vars
    BY <2>3 DEF vars, Inv, TypeOK, Ordered, Covered, Handled, Later, Latest
  <2> QED
    BY <2>1, <2>2, <2>3, OpenInv, EmitInv, HandleInv, NextPageInv DEF Next, Scan
<1> QED
  BY <1>1, InitInv, PTL DEF Spec

\* The scan finds the public key of every record of the snapshot.
THEOREM NoRecordMissed == Spec => []ScanComplete
<1>1. Inv => ScanComplete
  BY DEF Inv, TypeOK, Covered, Handled, ScanComplete
<1> QED
  BY <1>1, Invariance, PTL

\* Every variable keeps its type: no byte of a key leaves the base.
THEOREM TypeCorrect == Spec => []TypeOK
  BY Invariance, PTL DEF Inv

(***************************************************************************)
(* The pages advance                                                       *)
(***************************************************************************)
\* What is not behind a key is before its increment.
LEMMA IncrementIsBehind ==
    ASSUME NEW s \in Seq(Byte), NEW k \in Keys, AtMost(s, k)
    PROVE  Precedes(s, incrementOne(k))
<1> DEFINE n == incrementOne(k)
<1>1. /\ k \in Seq(Byte) /\ DOMAIN k = 1..Len(k) /\ Len(k) \in DOMAIN k
      /\ DOMAIN n = DOMAIN k
      /\ n[Len(k)] = k[Len(k)] + 1
      /\ \A j \in DOMAIN k \ {Len(k)} : n[j] = k[j]
  BY KeysAssumption, NoCarry
<1>2. \A j \in DOMAIN k : k[j] \in Int /\ k[j] <= n[j]
  BY <1>1, BaseAssumption DEF Byte
<1>3. \A j \in DOMAIN s : s[j] \in Int
  BY BaseAssumption DEF Byte
<1> HIDE DEF n
<1>4. CASE s = k
  BY <1>1, <1>2, <1>4 DEF n, Precedes
<1>5. CASE Precedes(s, k)
  <2>1. PICK i \in DOMAIN k :
            /\ \A j \in 1..(i - 1) : j \in DOMAIN s /\ s[j] = k[j]
            /\ i \in DOMAIN s => s[i] < k[i]
    BY <1>5 DEF Precedes
  <2>2. \A j \in 1..(i - 1) : j \in DOMAIN s /\ s[j] = n[j]
    <3> SUFFICES ASSUME NEW j \in 1..(i - 1) PROVE j \in DOMAIN s /\ s[j] = n[j]
      OBVIOUS
    <3>1. Len(k) \in Nat /\ i \in 1..Len(k)
      BY <1>1, <2>1
    <3>2. \A L \in Nat : \A a \in 1..L : \A b \in 1..(a - 1) : b \in 1..L /\ b # L
      OBVIOUS
    <3>3. j \in 1..Len(k) /\ j # Len(k)
      BY <3>1, <3>2
    <3>4. j \in DOMAIN k \ {Len(k)}
      BY <1>1, <3>3
    <3> QED
      BY <1>1, <2>1, <3>4
  <2>3. i \in DOMAIN s => s[i] < n[i]
    <3> SUFFICES ASSUME i \in DOMAIN s PROVE s[i] < n[i]
      OBVIOUS
    <3>1. s[i] < k[i] /\ k[i] <= n[i] /\ s[i] \in Int /\ k[i] \in Int
      BY <1>2, <1>3, <2>1
    <3>2. n[i] \in Int
      BY <1>1, <1>2
    <3> QED
      BY <3>1, <3>2
  <2> QED
    BY <1>1, <2>1, <2>2, <2>3 DEF n, Precedes
<1> QED
  BY <1>4, <1>5 DEF AtMost

\* All that a page has emitted or will emit is not before its startingKey.
FromStart == pc = "stream" =>
    /\ \A p \in page : AtMost(startingKey, p)
    /\ \A i \in DOMAIN pending : AtMost(startingKey, pending[i])
    /\ exist /\ pending = <<>> => AtMost(startingKey, lastKey)

\* A page never emits a key before the one it was opened at.
LEMMA FromStartKept == ASSUME Inv, FromStart, [Next]_vars PROVE FromStart'
<1> USE DEF Inv, FromStart
<1>1. CASE OpenStream
  BY <1>1 DEF OpenStream, Ahead, Ordered
<1>2. CASE EmitData
  <2>1. PICK k \in page : page' = page \ {k} /\ pending' = Append(pending, k)
    BY <1>2 DEF EmitData
  <2>2. k \in db /\ pending \in Seq(db)
    BY DEF TypeOK
  <2>3. /\ pending' # <<>>
        /\ \A i \in DOMAIN pending' :
               \/ i \in DOMAIN pending /\ pending'[i] = pending[i]
               \/ pending'[i] = k
    BY <2>1, <2>2
  <2> QED
    BY <1>2, <2>1, <2>3 DEF EmitData
<1>3. CASE HandleData
  <2>1. pending \in Seq(db) /\ pending # <<>> /\ pending' = Tail(pending)
    BY <1>3 DEF HandleData, TypeOK
  <2>2. /\ 1 \in DOMAIN pending /\ Head(pending) = pending[1]
        /\ \A i \in DOMAIN pending' : i + 1 \in DOMAIN pending /\ pending'[i] = pending[i + 1]
    BY <2>1
  <2> QED
    BY <1>3, <2>1, <2>2 DEF HandleData
<1>4. CASE EmitEnd \/ NextPage \/ ScanFails \/ UNCHANGED vars
  BY <1>4 DEF EmitEnd, NextPage, ScanFails, vars
<1> QED
  BY <1>1, <1>2, <1>3, <1>4 DEF Next, Scan

\* Every page starts behind the one before.
THEOREM PagesAdvance == Spec => ScanAdvances
<1>1. Init => FromStart
  BY DEF Init, FromStart
<1>2. Inv /\ FromStart /\ [Next]_vars => FromStart'
  BY FromStartKept
<1>3. Inv /\ FromStart /\ [Next]_vars =>
          [startingKey' # startingKey => Precedes(startingKey, startingKey')]_vars
  <2> SUFFICES ASSUME Inv, FromStart, Next, startingKey' # startingKey
               PROVE  Precedes(startingKey, startingKey')
    OBVIOUS
  <2>1. NextPage /\ exist /\ startingKey' = incrementOne(lastKey)
    BY DEF Next, Scan, OpenStream, EmitData, EmitEnd, HandleData, NextPage, ScanFails
  <2>2. pending = <<>> /\ AtMost(startingKey, lastKey)
    BY <2>1 DEF NextPage, HandlersDone, FromStart
  <2>3. lastKey \in Keys /\ startingKey \in Seq(Byte)
    BY <2>1, <2>2, SnapshotAssumption DEF NextPage, Inv, TypeOK, Ordered, Latest
  <2> QED
    BY <2>1, <2>2, <2>3, IncrementIsBehind
<1> QED
  BY <1>1, <1>2, <1>3, Invariance, PTL DEF Spec, ScanAdvances
==============================================================================
