------------------------------- MODULE Semaphore -------------------------------
(***************************************************************************)
(* The counting semaphore of LA7's boating.c: a value, a mutex and a       *)
(* condition variable.  The mutex makes each call one step, up to the      *)
(* pthread_cond_wait inside P, where the caller lets go of it.             *)
(***************************************************************************)
EXTENDS Integers, FiniteSets

(* waiting: inside pthread_cond_wait; woken: signalled, not yet back from P. *)
Semaphores(T) == [value : Int, waiting : SUBSET T, woken : SUBSET T]

Sem(v) == [value |-> v, waiting |-> {}, woken |-> {}]

(* Variant with a fault: the value is tested before it is decremented. *)
PassesEarly(s) == s.value >= 0

(***************************************************************************)
(* P decrements first, and sleeps when the value is then negative.         *)
(***************************************************************************)
Passes(s) == s.value - 1 >= 0

Down(s, t) ==
    IF Passes(s)
    THEN [s EXCEPT !.value = @ - 1]
    ELSE [s EXCEPT !.value = @ - 1, !.waiting = @ \cup {t}]

(* Variant with a fault: no signal when the value comes back to zero. *)
SignalsBelowZero(s) == s.value + 1 < 0

(* V signals when, after its increment, somebody may be waiting. *)
Signals(s) == s.value + 1 <= 0

(***************************************************************************)
(* The outcomes of V.  A signal wakes any one of the waiting threads, and  *)
(* is lost when there is none.                                             *)
(***************************************************************************)
Ups(s) ==
    LET up == [s EXCEPT !.value = @ + 1]
    IN  IF Signals(s) /\ s.waiting # {}
        THEN {[up EXCEPT !.waiting = @ \ {w}, !.woken = @ \cup {w}] :
                  w \in s.waiting}
        ELSE {up}

(* A woken thread holds the mutex again and P returns: the value was not   *)
(* looked at again.                                                        *)
Back(s, t) == [s EXCEPT !.woken = @ \ {t}]

(* pthread_cond_wait may also return without a signal. *)
SpuriouslyUp(s, t) == [s EXCEPT !.waiting = @ \ {t}, !.woken = @ \cup {t}]
=============================================================================
