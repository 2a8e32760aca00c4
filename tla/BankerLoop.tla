----------------------------- MODULE BankerLoop -----------------------------
(***************************************************************************)
(* is_safe_state of resource.c as the loop it is: a tentative grant is     *)
(* written into the shared ALLOCATION and NEED matrices, threads are swept *)
(* in index order until a sweep finds nobody, and the matrices are put     *)
(* back.  The master thread is the only one to touch them meanwhile.       *)
(***************************************************************************)
EXTENDS Banker

CONSTANTS MaxAmount    \* bound on every entry of the matrices TLC starts from

ASSUME AmountAssumption == MaxAmount \in Nat

VARIABLES
    S,          \* the shared matrices: AVAILABLE, ALLOCATION, NEED
    given,      \* S when the check was called (history)
    thread_id, request,     \* the parameters
    work, finish,           \* the algorithm's work vector and finish flags
    i, found,               \* loop counter and the sweep's flag
    pc,                     \* "tentative", "sweep", "restore" or "done"
    safe                    \* the verdict

vars == <<S, given, thread_id, request, work, finish, i, found, pc, safe>>
call == <<given, thread_id, request>>

Amount   == 0 .. MaxAmount
Matrices == [AVAILABLE  : [Resource -> Amount],
             ALLOCATION : [Thread -> [Resource -> Amount]],
             NEED       : [Thread -> [Resource -> -1 .. MaxAmount]]]

(***************************************************************************)
(* The caller asks only about a request that fits in AVAILABLE.  NEED may  *)
(* be below zero: grants lower it and releases do not raise it again.      *)
(***************************************************************************)
Init ==
    /\ given \in Matrices
    /\ S = given
    /\ thread_id \in Thread
    /\ request \in {q \in [Resource -> Amount] : Leq(q, given.AVAILABLE)}
    /\ work = Zero /\ finish = {} /\ i = 0 /\ found = FALSE
    /\ pc = "tentative" /\ safe = FALSE

(* The tentative grant, written into the shared matrices. *)
Mark(X) ==
    [AVAILABLE  |-> X.AVAILABLE,
     ALLOCATION |-> [X.ALLOCATION EXCEPT ![thread_id] = Add(@, request)],
     NEED       |-> [X.NEED EXCEPT ![thread_id] = Sub(@, request)]]

Tentative ==
    /\ pc = "tentative"
    /\ work' = Sub(S.AVAILABLE, request)
    /\ finish' = {}
    /\ S' = Mark(S)
    /\ i' = 0 /\ found' = FALSE
    /\ pc' = "sweep"
    /\ UNCHANGED <<call, safe>>

(* Variant with a fault: finished threads count as found again. *)
FoundFinished(w) == i \in w.finish

FoundNow(w) == w.finish # finish

VisitThread ==
    /\ pc = "sweep" /\ i < N
    /\ LET w == Visit(S, [work |-> work, finish |-> finish], i)
       IN  /\ work' = w.work
           /\ finish' = w.finish
           /\ found' = (found \/ FoundNow(w))
    /\ i' = i + 1
    /\ UNCHANGED <<S, call, pc, safe>>

(* Variant with a fault: one sweep is taken to be enough. *)
NeverAgain == FALSE

SweepAgain == found

EndOfSweep ==
    /\ pc = "sweep" /\ i = N
    /\ IF SweepAgain
       THEN i' = 0 /\ found' = FALSE /\ UNCHANGED <<pc, safe>>
       ELSE safe' = (finish = Thread) /\ pc' = "restore" /\ UNCHANGED <<i, found>>
    /\ UNCHANGED <<S, call, work, finish>>

(* Variant with a fault: NEED is not put back. *)
UnmarkAllocationOnly(X) == [X EXCEPT !.ALLOCATION[thread_id] = Sub(@, request)]

Unmark(X) ==
    [AVAILABLE  |-> X.AVAILABLE,
     ALLOCATION |-> [X.ALLOCATION EXCEPT ![thread_id] = Sub(@, request)],
     NEED       |-> [X.NEED EXCEPT ![thread_id] = Add(@, request)]]

Restore ==
    /\ pc = "restore"
    /\ S' = Unmark(S)
    /\ pc' = "done"
    /\ UNCHANGED <<call, work, finish, i, found, safe>>

Returned == pc = "done" /\ UNCHANGED vars

Next == Tentative \/ VisitThread \/ EndOfSweep \/ Restore \/ Returned

Spec     == Init /\ [][Next]_vars
FairSpec == Spec /\ WF_vars(Next)

-----------------------------------------------------------------------------
TypeOK ==
    /\ S \in [AVAILABLE : Vector, ALLOCATION : [Thread -> Vector],
              NEED : [Thread -> Vector]]
    /\ given \in [AVAILABLE : Vector, ALLOCATION : [Thread -> Vector],
                  NEED : [Thread -> Vector]]
    /\ thread_id \in Thread /\ request \in Vector
    /\ work \in Vector /\ finish \in SUBSET Thread
    /\ i \in 0 .. N /\ found \in BOOLEAN /\ safe \in BOOLEAN
    /\ pc \in {"tentative", "sweep", "restore", "done"}

(***************************************************************************)
(* The greedy sweep in index order answers the question it is meant to     *)
(* answer: a request is called safe exactly when, after granting it, the   *)
(* threads can finish in some order (resource.c:414-432).  The function    *)
(* the manager uses for the loop gives the same answer.                    *)
(***************************************************************************)
VerdictExact ==
    pc = "done" =>
        /\ safe <=> SafeInSomeOrder(AfterGrant(given, thread_id, request))
        /\ safe <=> is_safe_state(given, thread_id, request)

(***************************************************************************)
(* The sweeps stop only when they are stuck: no thread left unfinished     *)
(* could still be run with the work that has come together, so one more    *)
(* sweep would change nothing (resource.c:383-412).                        *)
(***************************************************************************)
StopsWhenStuck ==
    pc = "restore" => \A j \in Thread \ finish : ~Leq(S.NEED[j], work)

(***************************************************************************)
(* The check leaves no trace: the tentative grant it wrote into the shared *)
(* matrices is gone when it returns, whatever the verdict                  *)
(* (resource.c:376-380 undone by 423-427).                                 *)
(***************************************************************************)
MatricesRestored == pc = "done" => S = given

(***************************************************************************)
(* The check returns, and leaves no trace when it does: every sweep that   *)
(* is followed by another has finished a thread, and both ways out take    *)
(* the tentative grant back (resource.c:383-412, 414-432).  At its end     *)
(* this is MatricesRestored.                                               *)
(***************************************************************************)
ReturnsRestored == <>(pc = "done" /\ S = given)
=============================================================================
