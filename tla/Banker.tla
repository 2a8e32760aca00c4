------------------------------- MODULE Banker -------------------------------
(***************************************************************************)
(* The arithmetic of LA8's deadlock avoidance (resource.c): vectors over   *)
(* the m resource types, and the safety check is_safe_state as a function  *)
(* of the banker's matrices.  BankerLoop runs the same check as the loop   *)
(* the program executes; ResourceManager uses it as one atomic decision.   *)
(***************************************************************************)
EXTENDS Integers, FiniteSets

CONSTANTS N,    \* number of user threads (n, second line of system.txt)
          M     \* number of resource types (m, first line of system.txt)

ASSUME SizeAssumption == N \in Nat \ {0} /\ M \in Nat \ {0}

Thread   == 0 .. N - 1
Resource == 0 .. M - 1
Vector   == [Resource -> Int]

Zero      == [r \in Resource |-> 0]
Leq(u, v) == \A r \in Resource : u[r] <= v[r]
Add(u, v) == [r \in Resource |-> u[r] + v[r]]
Sub(u, v) == [r \in Resource |-> u[r] - v[r]]

-----------------------------------------------------------------------------
(***************************************************************************)
(* The matrices as if `request' of thread t had been granted.              *)
(***************************************************************************)
AfterGrant(S, t, request) ==
    [AVAILABLE  |-> Sub(S.AVAILABLE, request),
     ALLOCATION |-> [S.ALLOCATION EXCEPT ![t] = Add(@, request)],
     NEED       |-> [S.NEED EXCEPT ![t] = Sub(@, request)]]

(* Variant with a fault: only the first resource type is compared. *)
VisitFirstColumn(S, w, i) ==
    IF i \notin w.finish /\ S.NEED[i][0] <= w.work[0]
    THEN [work |-> Add(w.work, S.ALLOCATION[i]), finish |-> w.finish \cup {i}]
    ELSE w

(***************************************************************************)
(* One look at thread i: when its remaining need fits in `work', it can    *)
(* run to completion and hand back what it holds.                          *)
(***************************************************************************)
Visit(S, w, i) ==
    IF i \notin w.finish /\ Leq(S.NEED[i], w.work)
    THEN [work |-> Add(w.work, S.ALLOCATION[i]), finish |-> w.finish \cup {i}]
    ELSE w

(***************************************************************************)
(* The program sweeps 0 .. n-1 until a sweep finds nobody.  A sweep that   *)
(* finds nobody changes nothing, and at most n sweeps find somebody, so    *)
(* n sweeps in index order reach the same work and finish.  (Each set of   *)
(* outcomes has one element.)                                              *)
(***************************************************************************)
Finishable(S) ==
    LET visits[k \in 0 .. N * N] ==
            IF k = 0 THEN {[work |-> S.AVAILABLE, finish |-> {}]}
                     ELSE {Visit(S, w, (k - 1) % N) : w \in visits[k - 1]}
    IN  UNION {w.finish : w \in visits[N * N]}

is_safe_state(S, t, request) == Finishable(AfterGrant(S, t, request)) = Thread

-----------------------------------------------------------------------------
(***************************************************************************)
(* What a safe state means, without the algorithm: the threads can be run  *)
(* to completion in SOME order, each within what is free once the earlier  *)
(* ones have given back everything.                                        *)
(***************************************************************************)
WorkAfter(S, done) ==
    [r \in Resource |->
        LET sum[k \in 0 .. N] ==
                IF k = 0 THEN S.AVAILABLE[r]
                ELSE sum[k - 1] + (IF (k - 1) \in done
                                   THEN S.ALLOCATION[k - 1][r] ELSE 0)
        IN  sum[N]]

SafeInSomeOrder(S) ==
    LET fromHere[done \in SUBSET Thread] ==
            \/ done = Thread
            \/ \E i \in Thread \ done :
                  /\ Leq(S.NEED[i], WorkAfter(S, done))
                  /\ fromHere[done \cup {i}]
    IN  fromHere[{}]
=============================================================================
