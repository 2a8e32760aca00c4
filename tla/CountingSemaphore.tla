--------------------------- MODULE CountingSemaphore ---------------------------
(***************************************************************************)
(* What a counting semaphore promises (LA7's README and the comments of    *)
(* P and V): a pool of permits.  V adds one.  A caller of P goes on only   *)
(* by taking one, and does not stay while permits are left over.           *)
(***************************************************************************)
EXTENDS Integers

CONSTANTS Thread, Initial

VARIABLES permits, callers     \* callers: threads that are inside P

Init == permits = Initial /\ callers = {}

Call(t) == t \notin callers /\ callers' = callers \cup {t} /\ UNCHANGED permits

Take(t) ==
    /\ t \in callers /\ permits > 0
    /\ permits' = permits - 1
    /\ callers' = callers \ {t}

(* P that finds a permit at once: Call and Take in one step. *)
TakeNow(t) ==
    /\ t \notin callers /\ permits > 0
    /\ permits' = permits - 1
    /\ UNCHANGED callers

Put(t) == t \notin callers /\ permits' = permits + 1 /\ UNCHANGED callers

Next == \E t \in Thread : Call(t) \/ Take(t) \/ TakeNow(t) \/ Put(t)

TakeSome == \E t \in Thread : Take(t)

Spec == Init /\ [][Next]_<<permits, callers>>

FairSpec == Spec /\ WF_<<permits, callers>>(TakeSome)
=============================================================================
