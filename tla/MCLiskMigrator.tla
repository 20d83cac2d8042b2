--------------------------- MODULE MCLiskMigrator ---------------------------
(***************************************************************************)
(* Instances of LiskMigrator for TLC: the command lines and the v3 nodes   *)
(* of each run.  Rounds have 2 blocks, the snapshot height is 2.           *)
(***************************************************************************)
EXTENDS LiskMigrator

Flags(offline, migrate, start, h) ==
    [useSnapshot |-> offline, autoMigrate |-> migrate, autoStart |-> start,
     snapshotHeight |-> h]

Manual   == Flags(FALSE, FALSE, FALSE, 2)
Offline  == Flags(TRUE, FALSE, FALSE, 2)
Start    == Flags(FALSE, FALSE, TRUE, 2)
Full     == Flags(FALSE, TRUE, TRUE, 2)
OffRound == Flags(FALSE, FALSE, TRUE, 3)

EveryFlags   == {Manual, Offline, Start, Full, OffRound}
StartFlags   == {Start}
FullFlags    == {Full}
MigrateFlags == {Start, Full}

Node(known, version, h) ==
    [known |-> known, version |-> version, backupHeight |-> h]

Good       == Node(TRUE, "supported", 2)
GoodNodes  == {Good}
EveryNodes == {Good, Node(FALSE, "supported", 2), Node(TRUE, "old", 2),
               Node(TRUE, "invalid", 2), Node(TRUE, "supported", 3)}
=============================================================================
