------------------------------- MODULE MCBoating -------------------------------
(* One run for LA7: the semaphore alone, in the hands of threads that call *)
(* it as they like, or the session that is built on it.  The first state   *)
(* says which; the other one does not move.                                *)
EXTENDS Boating, PthreadSemaphore

VARIABLE part

allVars == <<part, sem, vars>>

\* Every visitor draws a ride time of its own.
MCRideTime == [v \in Visitor |-> 10 + v]

SemaphoreAlone == part = "semaphore" /\ UNCHANGED <<part, vars>>
Session        == part = "session" /\ UNCHANGED <<part, sem>>

MCInit == part \in {"semaphore", "session"} /\ SemInit /\ Init

MCNext ==
    \/ SemNext /\ SemaphoreAlone
    \/ Next /\ Session

(* The fairness of the two, FairSemSpec's and FairSpec's, each in its part. *)
MCFairness ==
    /\ \A t \in Thread : WF_allVars(PReturns(t) /\ SemaphoreAlone)
    /\ \A b \in Boat : /\ WF_allVars(BoatStep(b) /\ Session)
                       /\ WF_allVars(RideStarts(b) /\ Session)
    /\ \A v \in Visitor : WF_allVars(VisitorStep(v) /\ Session)
    /\ WF_allVars(JoinAll /\ Session)

MCSpec == MCInit /\ [][MCNext]_allVars /\ MCFairness
-----------------------------------------------------------------------------
(* Every visitor of a session gets a ride, and main is told of the last one. *)
SessionRides == part = "session" => EverybodyRides
=============================================================================
