------------------------------ MODULE MCKeyScan ------------------------------
(***************************************************************************)
(* An instance of KeyScan for TLC: bytes 0..3 after a prefix byte 1, one   *)
(* or two per character as in UTF-8 (0 stands for an ASCII character, 1    *)
(* and 2 lead a character of two bytes), two characters to a key.          *)
(***************************************************************************)
EXTENDS KeyScan

Characters == {<<0>>, <<1, 1>>, <<1, 2>>, <<2, 1>>}
MCKeys     == {<<1>> \o c \o d : c, d \in Characters}
MCFirstKey == <<1, 0, 0>>

\* Neighbouring records often have one signer.
MCOwner == [k \in MCKeys |-> IF k[Len(k)] = 1 THEN <<>> ELSE k]

MCDatabases == {D \in SUBSET MCKeys : Cardinality(D) <= 4}
=============================================================================
