--------------------------- MODULE MCGenesisAssets ---------------------------
(***************************************************************************)
(* Snapshots for TLC: the reserve (2) between two accounts (1 and 3), an   *)
(* account with a short address (4), rounds of 2 blocks.  Account 1 has    *)
(* registered keys, in no order.                                           *)
(***************************************************************************)
EXTENDS GenesisAssets

KeysOf(a) ==
    IF a = 1 THEN [numberOfSignatures |-> 3, mandatory |-> <<9, 1, 7>>, optional |-> <<8, 5>>]
    ELSE [numberOfSignatures |-> 0, mandatory |-> <<>>, optional |-> <<>>]

AccountOf(a, balance, votes, unlocking, delegate, banned) ==
    [address |-> a, wellFormed |-> a # 4, balance |-> balance, votes |-> votes,
     unlocking |-> unlocking, delegate |-> delegate, banned |-> banned, keys |-> KeysOf(a)]

NoVotes  == <<>>
TwoVotes == <<[address |-> 3, amount |-> 1], [address |-> 1, amount |-> 2]>>
Unlocks  == <<[address |-> 1, amount |-> 4]>>

Plain(a) == {AccountOf(a, 8, v, u, d, FALSE) :
                v \in {NoVotes, TwoVotes}, u \in {<<>>, Unlocks}, d \in BOOLEAN}
Reserves == {<<>>} \cup {<<AccountOf(2, b, v, <<>>, FALSE, FALSE)>> :
                            b \in {0, 16}, v \in {NoVotes, TwoVotes}}
Others   == {<<>>, <<AccountOf(3, 32, <<>>, <<>>, TRUE, TRUE)>>,
             <<AccountOf(3, 32, <<>>, <<>>, TRUE, FALSE), AccountOf(4, 1, <<>>, <<>>, TRUE, FALSE)>>}

Unregistered == {<<>>, <<[address |-> 7, amount |-> 64], [address |-> 6, amount |-> 128]>>}

Weights == <<[round |-> 1, delegates |-> <<1, 4>>], [round |-> 2, delegates |-> <<3, 1>>],
             [round |-> 3, delegates |-> <<>>]>>

MCSnapshots ==
    {[accounts |-> <<p>> \o r \o o, unregistered |-> u, height |-> h,
      blocks |-> b, txs |-> t, voteWeights |-> Weights] :
        p \in Plain(1), r \in Reserves, o \in Others, u \in Unregistered,
        h \in {5, 6, 8, 10, 12}, b \in {{}, {1}, {1, 3}}, t \in {{}, {1}, {2, 3}}}
=============================================================================
