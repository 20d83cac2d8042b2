-------------------------------- MODULE Lists --------------------------------
(***************************************************************************)
(* What the migrator does with arrays, over sequences: summing up          *)
(* (reduce), keeping some elements (filter) and sorting.  The definitions  *)
(* are such that ListLemmas can say what they compute for every sequence;  *)
(* SelectSeq and SortSeq take an operator and no prover looks into them.   *)
(***************************************************************************)
EXTENDS Integers, Sequences, SequencesExt

Total(amounts) == FoldLeft(LAMBDA sum, x : sum + x, 0, amounts)

\* The elements that are in the set keep, in their order.
Filter(list, keep) ==
    FoldLeft(LAMBDA kept, x : IF x \in keep THEN Append(kept, x) ELSE kept, <<>>, list)

\* The sort of JavaScript is stable: of equal keys the first stays first.
Precedes(keys, i, j) == keys[i] < keys[j] \/ (keys[i] = keys[j] /\ i < j)

Sorting(keys) ==
    CHOOSE p \in Bijection(DOMAIN keys, DOMAIN keys) :
        \A i, j \in DOMAIN keys : i < j => Precedes(keys, p[i], p[j])

\* list, where the element at i is sorted by keys[i].
SortBy(list, keys) == [i \in DOMAIN list |-> list[Sorting(keys)[i]]]
=============================================================================
