-------------------------- MODULE MCResourceManager --------------------------
(* Inputs for TLC: the files system.txt and threadNN.txt of a small run.   *)
EXTENDS ResourceManager

CONSTANTS TotalOf0, TotalOf1, NeedOf0, NeedOf1

(* Resource type 0, and type 1 where there is one. *)
MCTotal   == [r \in Resource |-> IF r = 0 THEN TotalOf0 ELSE TotalOf1]
MCMaxNeed == [t \in Thread |-> [r \in Resource |-> IF r = 0 THEN NeedOf0 ELSE NeedOf1]]

(* Unequal claims: a third thread needs one unit less of type 0. *)
MCUnequalNeed ==
    [t \in Thread |-> [r \in Resource |->
        IF r > 0 THEN NeedOf1 ELSE IF t = 2 THEN NeedOf0 - 1 ELSE NeedOf0]]
=============================================================================
