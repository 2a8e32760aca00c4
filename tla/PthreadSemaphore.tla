---------------------------- MODULE PthreadSemaphore ----------------------------
(***************************************************************************)
(* Threads that call P and V of LA7's semaphore as they like, in any       *)
(* interleaving, and the proof obligation that this is a counting          *)
(* semaphore.  That holds only while waits return when they are signalled; *)
(* Boating has the other ones too.                                         *)
(***************************************************************************)
EXTENDS Semaphore

CONSTANTS
    Thread,             \* the threads that share the semaphore
    Initial,            \* its value at the start
    MaxPermits          \* bound: a thread does not call V beyond it

ASSUME ThreadAssumption ==
    /\ IsFiniteSet(Thread)
    /\ Initial \in Nat /\ MaxPermits \in Nat

VARIABLE sem

Inside(t) == t \in sem.waiting \cup sem.woken

SemInit == sem = Sem(Initial)

P(t) == ~Inside(t) /\ sem' = Down(sem, t)

PReturns(t) == t \in sem.woken /\ sem' = Back(sem, t)

V(t) == ~Inside(t) /\ sem.value < MaxPermits /\ sem' \in Ups(sem)

SemNext == \E t \in Thread : P(t) \/ PReturns(t) \/ V(t)

SemSpec == SemInit /\ [][SemNext]_sem

(* A thread that has been signalled gets the mutex and returns. *)
FairSemSpec == SemSpec /\ \A t \in Thread : WF_sem(PReturns(t))

-----------------------------------------------------------------------------
SemTypeOK == sem \in Semaphores(Thread)

(***************************************************************************)
(* Below zero the value counts the sleepers: nobody sleeps while the value *)
(* could serve him, and no sleeper is missing from the count that makes V  *)
(* signal (boating.c:40-43, 50-53).                                        *)
(***************************************************************************)
ValueCountsSleepers ==
    /\ Cardinality(sem.waiting) = IF sem.value < 0 THEN -sem.value ELSE 0
    /\ sem.waiting \cap sem.woken = {}

(***************************************************************************)
(* The semaphore as a pool: what the value holds, and one permit in the    *)
(* hands of every thread that has been woken and is on its way out of P.   *)
(***************************************************************************)
Pool == INSTANCE CountingSemaphore
            WITH permits <- (IF sem.value < 0 THEN 0 ELSE sem.value)
                                + Cardinality(sem.woken),
                 callers <- sem.waiting \cup sem.woken

(* The code of P and V is a counting semaphore, fair to its callers taken  *)
(* together (boating.c:38-55).                                             *)
IsCountingSemaphore == Pool!FairSpec

(* The safety part alone. *)
IsPool == Pool!Spec
=============================================================================
