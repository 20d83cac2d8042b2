------------------------------- MODULE KeyScan -------------------------------
(***************************************************************************)
(* The scan that collects public keys from the snapshot: the loop over     *)
(* pages that getBlockPublicKeySet (src/utils/block.ts) and                *)
(* getTransactionPublicKeySet (src/utils/transaction.ts) share.  A page is *)
(* a read stream of at most pageSize records from startingKey on; the next *)
(* one starts at incrementOne(lastKey).  The 'data' handlers are async:    *)
(* what follows their await runs as a microtask, after further events of   *)
(* the stream perhaps, and in the order of the events.                     *)
(*                                                                         *)
(* The streams end at the last key of their prefix (lte); the databases    *)
(* here hold the records of that prefix alone, which are all before it.    *)
(*                                                                         *)
(* A key is the UTF-8 form of a prefix and 32 characters below 256, so     *)
(* keys differ in length, none is a prefix of another and none ends in a   *)
(* byte 255.                                                               *)
(***************************************************************************)
EXTENDS Integers, Sequences, FiniteSets

CONSTANTS
    Base,       \* bytes are 0 .. Base - 1
    Keys,       \* the keys that records may have
    FirstKey,   \* the key of the id of 32 zero bytes
    Owner,      \* the public key in the record of each key
    Databases,  \* the sets of keys a snapshot may hold
    PageSizes   \* the values of --page-size

Byte == 0..(Base - 1)

ASSUME BaseAssumption == Base \in Nat \ {0}

ASSUME KeysAssumption ==
    /\ Keys \subseteq Seq(Byte)
    /\ FirstKey \in Seq(Byte)
    /\ \A k \in Keys : Len(k) > 0 /\ k[Len(k)] < Base - 1
    /\ \A k, m \in Keys :
           k # m => \E i \in DOMAIN k \cap DOMAIN m : k[i] # m[i]

ASSUME SnapshotAssumption ==
    /\ Databases \subseteq SUBSET Keys
    /\ \A D \in Databases : IsFiniteSet(D)
    /\ PageSizes \subseteq Nat \ {0}

(***************************************************************************)
(* Keys                                                                    *)
(***************************************************************************)
\* The order of the database, byte by byte.
Precedes(a, b) ==
    \E i \in DOMAIN b :
        /\ \A j \in 1..(i - 1) : j \in DOMAIN a /\ a[j] = b[j]
        /\ i \in DOMAIN a => a[i] < b[i]

AtMost(a, b) == a = b \/ Precedes(a, b)

ASSUME FirstKeyAssumption == \A k \in Keys : AtMost(FirstKey, k)

\* The byte the carry of incrementOne stops at.
CarryStop(k) ==
    CHOOSE i \in DOMAIN k :
        k[i] < Base - 1 /\ \A j \in DOMAIN k : j > i => k[j] = Base - 1

\* Mutants: one too many; the key itself; a fresh buffer that is not copied into.
incrementOne_Two(k) == [k EXCEPT ![Len(k)] = @ + 2]
incrementOne_Same(k) == k
incrementOne_NotCopied(k) ==
    [i \in DOMAIN k |-> IF i = CarryStop(k) THEN k[i] + 1 ELSE 0]

\* It throws for a key of nothing but bytes 255; there is none.
incrementOne(k) ==
    [i \in DOMAIN k |->
        CASE i < CarryStop(k) -> k[i]
          [] i = CarryStop(k) -> k[i] + 1
          [] OTHER            -> 0]

(***************************************************************************)
(* The scan                                                                *)
(***************************************************************************)
VARIABLES
    db, pageSize,  \* the snapshot and the flag; they do not change
    pc,            \* "open", "stream", "done" or "failed"
    startingKey, lastKey, exist, result,
    page,          \* the records the stream has still to emit
    pending,       \* the keys whose 'data' handler waits after its await
    ended          \* 'end' has been emitted: run() resumes behind the handlers

vars == <<db, pageSize, pc, startingKey, lastKey, exist, result, page, pending,
          ended>>

TypeOK ==
    /\ db \in Databases /\ pageSize \in PageSizes
    /\ pc \in {"open", "stream", "done", "failed"}
    /\ startingKey \in Seq(Byte) /\ lastKey \in Seq(Byte)
    /\ exist \in BOOLEAN
    /\ result \subseteq {Owner[k] : k \in db}
    /\ page \subseteq db
    /\ pending \in Seq(db)
    /\ ended \in BOOLEAN

Init ==
    /\ db \in Databases /\ pageSize \in PageSizes
    /\ pc = "open"
    /\ startingKey = FirstKey /\ lastKey = FirstKey
    /\ exist = FALSE /\ result = {}
    /\ page = {} /\ pending = <<>> /\ ended = FALSE

\* What a stream from key s on with a limit of n records emits.
Ahead(s) == {k \in db : AtMost(s, k)}
IsPage(P, s, n) ==
    /\ Cardinality(P) = IF Cardinality(Ahead(s)) < n THEN Cardinality(Ahead(s)) ELSE n
    /\ \A p \in P, k \in Ahead(s) \ P : Precedes(p, k)

OpenStream ==
    /\ pc = "open"
    /\ exist' = FALSE
    /\ lastKey' = startingKey
    /\ \E P \in SUBSET Ahead(startingKey) :
           IsPage(P, startingKey, pageSize) /\ page' = P
    /\ ended' = FALSE
    /\ pc' = "stream"
    /\ UNCHANGED <<db, pageSize, startingKey, result, pending>>

\* The 'data' handler up to its await.
EmitData ==
    /\ pc = "stream"
    /\ \E k \in page :
           /\ \A p \in page \ {k} : Precedes(k, p)
           /\ page' = page \ {k}
           /\ pending' = Append(pending, k)
    /\ exist' = TRUE
    /\ UNCHANGED <<db, pageSize, pc, startingKey, lastKey, result, ended>>

EmitEnd ==
    /\ pc = "stream"
    /\ page = {} /\ ~ended
    /\ ended' = TRUE
    /\ UNCHANGED <<db, pageSize, pc, startingKey, lastKey, exist, result, page,
                   pending>>

\* The rest of the 'data' handler: it keeps the public key and the last key.
HandleData ==
    /\ pc = "stream"
    /\ pending # <<>>
    /\ result' = result \cup {Owner[Head(pending)]}
    /\ lastKey' = Head(pending)
    /\ pending' = Tail(pending)
    /\ UNCHANGED <<db, pageSize, pc, startingKey, exist, page, ended>>

\* Mutant: the loop goes on as soon as 'end' is emitted.
HandlersDone_NotAwaited == TRUE

HandlersDone == pending = <<>>

\* After the page: its promise resolves behind every handler, microtasks being
\* run in the order they were queued.
NextPage ==
    /\ pc = "stream"
    /\ ended /\ HandlersDone
    /\ ended' = FALSE
    /\ IF exist
       THEN pc' = "open" /\ startingKey' = incrementOne(lastKey)
       ELSE pc' = "done" /\ UNCHANGED startingKey
    /\ UNCHANGED <<db, pageSize, lastKey, exist, result, page, pending>>

\* The stream emits 'error', or a record does not decode (in the handler, an
\* unhandled rejection): either ends the run.
ScanFails ==
    /\ pc = "stream"
    /\ ~ended \/ pending # <<>>
    /\ pc' = "failed"
    /\ UNCHANGED <<db, pageSize, startingKey, lastKey, exist, result, page,
                   pending, ended>>

Scan == OpenStream \/ EmitData \/ EmitEnd \/ HandleData \/ NextPage
Next == Scan \/ ScanFails

Spec == Init /\ [][Next]_vars
FairSpec == Spec /\ WF_vars(Scan)

(***************************************************************************)
(* Properties                                                              *)
(***************************************************************************)
\* A scan that ends has the public key of every record, whatever the page
\* size: no page skips a record, no handler is left behind.
ScanComplete == pc = "done" => result = {Owner[k] : k \in db}

\* Every page starts behind the one before: the loop reads nothing twice.
ScanAdvances == [][startingKey' # startingKey => Precedes(startingKey, startingKey')]_vars

\* The loop `while (true)` comes to its break, or to an error.
ScanEnds == <>(pc \in {"done", "failed"})
==============================================================================
