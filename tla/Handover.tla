------------------------------ MODULE Handover ------------------------------
(***************************************************************************)
(* What an automatic migration promises the operator of a validator node,  *)
(* with nothing of how the migrator goes about it: the Lisk Core v3 node   *)
(* and the Lisk Core v4 node never run together, the v3 data directory is  *)
(* moved only while v3 is down, and v4 starts only from a moved data       *)
(* directory, a whole legacy database and an installed genesis block.      *)
(* LiskMigrator implements this specification.                             *)
(***************************************************************************)

VARIABLES
    v3,       \* the v3 node is running
    data,     \* where the v3 data directory is: "home" or "backup"
    legacy,   \* the v4 legacy database: "absent", "partial" or "complete"
    genesis,  \* a genesis block has been put into the v4 network directory
    v4        \* Lisk Core v4 has been started

vars == <<v3, data, legacy, genesis, v4>>

Init ==
    /\ v3 \in BOOLEAN
    /\ data = "home"
    /\ legacy = "absent"
    /\ genesis = FALSE
    /\ v4 = FALSE

StopV3 ==
    /\ v3
    /\ v3' = FALSE
    /\ UNCHANGED <<data, legacy, genesis, v4>>

\* The v3 node finds its data only at home.
StartV3 ==
    /\ ~v3
    /\ data = "home"
    /\ v3' = TRUE
    /\ UNCHANGED <<data, legacy, genesis, v4>>

InstallGenesis ==
    /\ ~v4
    /\ genesis' = TRUE
    /\ UNCHANGED <<v3, data, legacy, v4>>

MoveData ==
    /\ ~v3
    /\ genesis
    /\ data = "home"
    /\ data' = "backup"
    /\ UNCHANGED <<v3, legacy, genesis, v4>>

BeginCopy ==
    /\ data = "backup"
    /\ legacy = "absent"
    /\ legacy' = "partial"
    /\ UNCHANGED <<v3, data, genesis, v4>>

EndCopy ==
    /\ legacy = "partial"
    /\ legacy' = "complete"
    /\ UNCHANGED <<v3, data, genesis, v4>>

StartV4 ==
    /\ ~v4
    /\ genesis
    /\ data = "backup"
    /\ legacy = "complete"
    /\ v4' = TRUE
    /\ UNCHANGED <<v3, data, legacy, genesis>>

Next ==
    \/ StopV3 \/ StartV3
    \/ InstallGenesis \/ MoveData \/ BeginCopy \/ EndCopy \/ StartV4

Spec == Init /\ [][Next]_vars
=============================================================================
