-------------------------------- MODULE Boating --------------------------------
(***************************************************************************)
(* LA7's boating.c: M boats and N visitors are matched in pairs by two     *)
(* counting semaphores, a table of free boats under bmtx, and a two-party  *)
(* barrier per boat.  The boat of the last ride meets main at EOS.         *)
(*                                                                         *)
(* Critical sections under bmtx and count_mtx contain no other             *)
(* synchronisation, so each is one step.                                   *)
(***************************************************************************)
EXTENDS Semaphore

CONSTANTS
    M,                  \* number of boats
    N,                  \* number of visitors
    RideTime,           \* what each visitor draws from rand()
    SpuriousWakeups     \* may pthread_cond_wait return unsignalled?

Boat    == 1 .. M
Visitor == 1 .. N

ASSUME InputAssumption ==
    /\ M \in Nat \ {0} /\ N \in Nat \ {0}
    /\ RideTime \in [Visitor -> Nat]
    /\ SpuriousWakeups \in BOOLEAN

VARIABLES
    boat, rider,            \* the semaphores
    BA, BC, BT,             \* boat available, its visitor, its ride time
    BB,                     \* life of each boat's barrier
    completed_visitors, last_boat_id,
    bpc,                    \* where each boat is
    visitor_id, ride_time,  \* each boat's copies of its BC and BT
    vpc, boat_id,           \* where each visitor is, the boat it found
    main                    \* "EOS", "joining" or "returned"

sems   == <<boat, rider>>
table  == <<BA, BC, BT>>
ends   == <<completed_visitors, last_boat_id>>
copies == <<visitor_id, ride_time>>
vars   == <<sems, table, BB, ends, bpc, copies, vpc, boat_id, main>>

NoOne == -1     \* no visitor in BC, no boat in last_boat_id or boat_id

Init ==
    /\ boat = Sem(0) /\ rider = Sem(0)
    /\ BA = [b \in Boat |-> FALSE]
    /\ BC = [b \in Boat |-> NoOne]
    /\ BT = [b \in Boat |-> 0]
    /\ BB = [b \in Boat |-> "none"]
    /\ completed_visitors = 0 /\ last_boat_id = NoOne
    /\ bpc = [b \in Boat |-> "ready"]
    /\ visitor_id = [b \in Boat |-> NoOne] /\ ride_time = [b \in Boat |-> 0]
    /\ vpc = [v \in Visitor |-> "sightseeing"]
    /\ boat_id = [v \in Visitor |-> NoOne]
    /\ main = "EOS"

BoatGoes(b, from, to) == bpc[b] = from /\ bpc' = [bpc EXCEPT ![b] = to]

VisitorGoes(v, from, to) == vpc[v] = from /\ vpc' = [vpc EXCEPT ![v] = to]

-----------------------------------------------------------------------------
(* A boat                                                                  *)

InitBarrier(b) ==
    /\ BoatGoes(b, "ready", "V(rider)")
    /\ BB' = [BB EXCEPT ![b] = "up"]
    /\ UNCHANGED <<sems, table, ends, copies, vpc, boat_id, main>>

CallForRider(b) ==
    /\ BoatGoes(b, "V(rider)", "P(boat)")
    /\ rider' \in Ups(rider)
    /\ UNCHANGED <<boat, table, BB, ends, copies, vpc, boat_id, main>>

AwaitRider(b) ==
    /\ BoatGoes(b, "P(boat)", IF Passes(boat) THEN "open" ELSE "asleep")
    /\ boat' = Down(boat, b)
    /\ UNCHANGED <<rider, table, BB, ends, copies, vpc, boat_id, main>>

RiderCame(b) ==
    /\ b \in boat.woken
    /\ BoatGoes(b, "asleep", "open")
    /\ boat' = Back(boat, b)
    /\ UNCHANGED <<rider, table, BB, ends, copies, vpc, boat_id, main>>

(* Variant with a fault: the last ride's visitor stays in the table. *)
StaleVisitor(b) == BC

Vacated(b) == [BC EXCEPT ![b] = NoOne]

Open(b) ==
    /\ BoatGoes(b, "open", "barrier")
    /\ BA' = [BA EXCEPT ![b] = TRUE]
    /\ BC' = Vacated(b)
    /\ UNCHANGED <<sems, BT, BB, ends, copies, vpc, boat_id, main>>

(* After the barrier: the boat is taken off the table and the copies made. *)
Board(b) ==
    /\ BoatGoes(b, "boarding", IF BC[b] = NoOne THEN "V(rider)" ELSE "riding")
    /\ BA' = [BA EXCEPT ![b] = FALSE]
    /\ visitor_id' = [visitor_id EXCEPT ![b] = BC[b]]
    /\ ride_time' = [ride_time EXCEPT ![b] = BT[b]]
    /\ UNCHANGED <<sems, BC, BT, BB, ends, vpc, boat_id, main>>

(* Variant with a fault: the session is over one ride early. *)
OverEarly(rides) == rides >= N - 1

Over(rides) == rides = N

EndRide(b) ==
    /\ BoatGoes(b, "riding", "check")
    /\ completed_visitors' = completed_visitors + 1
    /\ last_boat_id' = IF Over(completed_visitors + 1) THEN b ELSE last_boat_id
    /\ UNCHANGED <<sems, table, BB, copies, vpc, boat_id, main>>

(* Reads completed_visitors again, without count_mtx. *)
CheckDone(b) ==
    /\ BoatGoes(b, "check",
                IF ~Over(completed_visitors) THEN "V(rider)"
                ELSE IF last_boat_id = b THEN "EOS" ELSE "leaving")
    /\ UNCHANGED <<sems, table, BB, ends, copies, vpc, boat_id, main>>

DestroyBarrier(b) ==
    /\ BoatGoes(b, "leaving", "gone")
    /\ BB' = [BB EXCEPT ![b] = "destroyed"]
    /\ UNCHANGED <<sems, table, ends, copies, vpc, boat_id, main>>

-----------------------------------------------------------------------------
(* A visitor                                                               *)

AskForBoat(v) ==
    /\ VisitorGoes(v, "sightseeing", "P(rider)")
    /\ boat' \in Ups(boat)
    /\ UNCHANGED <<rider, table, BB, ends, bpc, copies, boat_id, main>>

AwaitBoat(v) ==
    /\ VisitorGoes(v, "P(rider)", IF Passes(rider) THEN "looking" ELSE "asleep")
    /\ rider' = Down(rider, v)
    /\ UNCHANGED <<boat, table, BB, ends, bpc, copies, boat_id, main>>

BoatCame(v) ==
    /\ v \in rider.woken
    /\ VisitorGoes(v, "asleep", "looking")
    /\ rider' = Back(rider, v)
    /\ UNCHANGED <<boat, table, BB, ends, bpc, copies, boat_id, main>>

(* Variants with a fault: one of the two conditions is not looked at. *)
FreeOfferedBoats == {b \in Boat : BA[b]}
FreeVacantBoats  == {b \in Boat : BC[b] = NoOne}

FreeBoats == {b \in Boat : BA[b] /\ BC[b] = NoOne}

(* Variant with a fault: the ride time is not handed over. *)
TimeForgotten(b, v) == BT

Timed(b, v) == [BT EXCEPT ![b] = RideTime[v]]

(* The scan takes the first free boat; it repeats while there is none. *)
FindBoat(v) ==
    /\ VisitorGoes(v, "looking", "barrier")
    /\ \E b \in FreeBoats :
          /\ \A c \in FreeBoats : b <= c
          /\ boat_id' = [boat_id EXCEPT ![v] = b]
          /\ BC' = [BC EXCEPT ![b] = v]
          /\ BT' = Timed(b, v)
    /\ UNCHANGED <<sems, BA, BB, ends, bpc, copies, main>>

AtBarrier(b) == {v \in Visitor : vpc[v] = "barrier" /\ boat_id[v] = b}

(***************************************************************************)
(* BB[b] has two parties: boat b with the visitor that found it, or, were  *)
(* there two of them, two visitors.                                        *)
(***************************************************************************)
TheBoat == 0

Parties(b) == AtBarrier(b) \cup (IF bpc[b] = "barrier" THEN {TheBoat} ELSE {})

RideStarts(b) ==
    \E p, q \in Parties(b) :
        /\ p # q
        /\ bpc' = [bpc EXCEPT ![b] = IF TheBoat \in {p, q} THEN "boarding" ELSE @]
        /\ vpc' = [v \in Visitor |-> IF v \in {p, q} THEN "gone" ELSE vpc[v]]
        /\ UNCHANGED <<sems, table, BB, ends, copies, boat_id, main>>

-----------------------------------------------------------------------------
(* main, and spurious returns from pthread_cond_wait                       *)

SessionEnds(b) ==
    /\ main = "EOS" /\ main' = "joining"
    /\ BoatGoes(b, "EOS", "leaving")
    /\ UNCHANGED <<sems, table, BB, ends, copies, vpc, boat_id>>

JoinAll ==
    /\ main = "joining" /\ main' = "returned"
    /\ \A b \in Boat : bpc[b] = "gone"
    /\ \A v \in Visitor : vpc[v] = "gone"
    /\ UNCHANGED <<sems, table, BB, ends, bpc, copies, vpc, boat_id>>

Spurious ==
    /\ SpuriousWakeups
    /\ \/ \E b \in boat.waiting  : boat'  = SpuriouslyUp(boat, b) /\ UNCHANGED rider
       \/ \E v \in rider.waiting : rider' = SpuriouslyUp(rider, v) /\ UNCHANGED boat
    /\ UNCHANGED <<table, BB, ends, bpc, copies, vpc, boat_id, main>>

BoatStep(b) ==
    \/ InitBarrier(b) \/ CallForRider(b) \/ AwaitRider(b) \/ RiderCame(b)
    \/ Open(b) \/ Board(b) \/ EndRide(b) \/ CheckDone(b) \/ DestroyBarrier(b)
    \/ SessionEnds(b)

VisitorStep(v) ==
    AskForBoat(v) \/ AwaitBoat(v) \/ BoatCame(v) \/ FindBoat(v)

Next ==
    \/ \E b \in Boat : BoatStep(b) \/ RideStarts(b)
    \/ \E v \in Visitor : VisitorStep(v)
    \/ JoinAll \/ Spurious

Spec == Init /\ [][Next]_vars

(***************************************************************************)
(* Every thread runs.  A thread's steps are of one kind at a time, so weak *)
(* fairness of their disjunction is fairness of each; who is signalled     *)
(* stays open.                                                             *)
(***************************************************************************)
Fairness ==
    /\ \A b \in Boat : WF_vars(BoatStep(b)) /\ WF_vars(RideStarts(b))
    /\ \A v \in Visitor : WF_vars(VisitorStep(v))
    /\ WF_vars(JoinAll)

FairSpec == Spec /\ Fairness
-----------------------------------------------------------------------------
TypeOK ==
    /\ boat \in Semaphores(Boat) /\ rider \in Semaphores(Visitor)
    /\ BA \in [Boat -> BOOLEAN]
    /\ BC \in [Boat -> Visitor \cup {NoOne}] /\ BT \in [Boat -> Nat]
    /\ BB \in [Boat -> {"none", "up", "destroyed"}]
    /\ completed_visitors \in Nat /\ last_boat_id \in Boat \cup {NoOne}
    /\ bpc \in [Boat -> {"ready", "V(rider)", "P(boat)", "asleep", "open",
                         "barrier", "boarding", "riding", "check", "EOS",
                         "leaving", "gone"}]
    /\ visitor_id \in [Boat -> Visitor \cup {NoOne}]
    /\ ride_time \in [Boat -> Nat]
    /\ vpc \in [Visitor -> {"sightseeing", "P(rider)", "asleep", "looking",
                            "barrier", "gone"}]
    /\ boat_id \in [Visitor -> Boat \cup {NoOne}]
    /\ main \in {"EOS", "joining", "returned"}

(***************************************************************************)
(* Boats and visitors are matched in pairs: a visitor at a barrier is the  *)
(* one that boat has in the table, the boat waits there with it, and no    *)
(* other boat ever gets the same visitor (README:7, boating.c:75-88,       *)
(* 152-172).                                                               *)
(***************************************************************************)
PairsMatched ==
    /\ \A b \in Boat : \A v \in AtBarrier(b) :
          BC[b] = v /\ BT[b] = RideTime[v] /\ bpc[b] = "barrier"
    /\ \A b, c \in Boat : b # c /\ BC[b] = BC[c] => BC[b] = NoOne

(***************************************************************************)
(* A ride is the ride of the visitor that came aboard: the boat's copies,  *)
(* made after the barrier and under another lock than it, are that         *)
(* visitor's number and time, and the visitor rides once                   *)
(* (boating.c:84-96).                                                      *)
(***************************************************************************)
RideIsVisitors ==
    \A b \in Boat : bpc[b] = "riding" =>
        /\ visitor_id[b] \in Visitor
        /\ ride_time[b] = RideTime[visitor_id[b]]
        /\ boat_id[visitor_id[b]] = b
        /\ vpc[visitor_id[b]] = "gone"
        /\ \A c \in Boat \ {b} : visitor_id[c] # visitor_id[b]

(***************************************************************************)
(* main gets past EOS only when every visitor has had a ride, and at most  *)
(* one boat ever meets it there (boating.c:99-118, 274).                   *)
(***************************************************************************)
EndsAfterLastRide ==
    /\ main # "EOS" => \A v \in Visitor : vpc[v] = "gone"
    /\ main # "EOS" => \A b \in Boat : bpc[b] \notin {"boarding", "riding", "EOS"}
    /\ \A b, c \in Boat : bpc[b] = "EOS" /\ bpc[c] = "EOS" => b = c

(***************************************************************************)
(* Nobody waits at a barrier that is not initialised yet or gone already   *)
(* (boating.c:65, 121 against 81, 177).                                    *)
(***************************************************************************)
BarrierAlive ==
    \A b \in Boat : (bpc[b] = "barrier" \/ AtBarrier(b) # {}) => BB[b] = "up"

(* Every visitor gets a ride, and main is told when the last one is over.  *)
EverybodyRides ==
    <>((\A v \in Visitor : vpc[v] = "gone") /\ main # "EOS")
=============================================================================
