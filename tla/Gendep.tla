-------------------------------- MODULE Gendep --------------------------------
(* LA1's gendep.c: the files foodep.txt it can write for n foodules.  The   *)
(* dependencies of a foodule come after it in a random permutation P.       *)
EXTENDS Integers, SequencesExt

CONSTANT n

Foodule == 1 .. n

Permutation == {P \in [Foodule -> Foodule] : \A i, j \in Foodule : P[i] = P[j] => i = j}

Pairs == {e \in Foodule \X Foodule : e[1] < e[2]}

bsort(B) == SetToSortSeq(B, LAMBDA a, b : a < b)

foodep(P, A) ==
    [u \in Foodule |->
        bsort({v \in Foodule :
            \E i, j \in Foodule : <<i, j>> \in A /\ P[i] = u /\ P[j] = v})]

Written == {foodep(P, A) : P \in Permutation, A \in SUBSET Pairs}
=============================================================================
