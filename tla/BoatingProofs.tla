----------------------------- MODULE BoatingProofs -----------------------------
(***************************************************************************)
(* Boats and visitors are matched in pairs, and a ride is its visitor's,   *)
(* for any number of boats and visitors and whatever the semaphores do:    *)
(* that proof uses the table, the barriers and nothing of P and V.  Behind *)
(* it, the semaphore they call by itself: it is a counting semaphore, for  *)
(* any finite set of threads and any initial value, as long as             *)
(* pthread_cond_wait returns only when it is signalled.                    *)
(***************************************************************************)
EXTENDS Boating, PthreadSemaphore, FiniteSetTheorems, TLAPS

PairTypes ==
    /\ BA \in [Boat -> BOOLEAN]
    /\ BC \in [Boat -> Visitor \cup {NoOne}] /\ BT \in [Boat -> Nat]
    /\ bpc \in [Boat -> {"ready", "V(rider)", "P(boat)", "asleep", "open",
                         "barrier", "boarding", "riding", "check", "EOS",
                         "leaving", "gone"}]
    /\ visitor_id \in [Boat -> Visitor \cup {NoOne}]
    /\ ride_time \in [Boat -> Nat]
    /\ vpc \in [Visitor -> {"sightseeing", "P(rider)", "asleep", "looking",
                            "barrier", "gone"}]
    /\ boat_id \in [Visitor -> Boat \cup {NoOne}]

(* What the table says of boat b's visitor, present or past. *)
Entry(b) ==
    BC[b] # NoOne =>
        /\ boat_id[BC[b]] = b /\ BT[b] = RideTime[BC[b]]
        /\ vpc[BC[b]] \in {"barrier", "gone"}

(* Where the boat is, against its entry. *)
Place(b) ==
    /\ BA[b] /\ BC[b] = NoOne => bpc[b] = "barrier"
    /\ bpc[b] = "barrier" /\ BC[b] # NoOne => vpc[BC[b]] = "barrier"
    /\ bpc[b] = "boarding" => BC[b] # NoOne /\ vpc[BC[b]] = "gone"
    /\ bpc[b] = "riding" => visitor_id[b] # NoOne

(* The boat's copies, of the visitor of its last ride. *)
Copies(b) ==
    visitor_id[b] # NoOne =>
        /\ boat_id[visitor_id[b]] = b /\ vpc[visitor_id[b]] = "gone"
        /\ ride_time[b] = RideTime[visitor_id[b]]

(* A visitor at a barrier is in its boat's entry, and the boat is there. *)
Waits(v) ==
    vpc[v] = "barrier" =>
        /\ boat_id[v] \in Boat /\ BC[boat_id[v]] = v
        /\ bpc[boat_id[v]] = "barrier"

PairInv ==
    /\ PairTypes
    /\ \A b \in Boat : Entry(b) /\ Place(b) /\ Copies(b)
    /\ \A v \in Visitor : Waits(v)

(* Boat and visitor numbers are not NoOne, nor the boat's place TheBoat. *)
LEMMA Numbers == NoOne \notin Boat /\ NoOne \notin Visitor /\ TheBoat \notin Visitor
BY DEF NoOne, Boat, Visitor, TheBoat

(* Nobody is paired when the threads start. *)
LEMMA InitPairs == Init => PairInv
BY InputAssumption, Numbers
   DEF Init, PairInv, PairTypes, Entry, Place, Copies, Waits

(***************************************************************************)
(* A step of boat b that touches neither the table nor the copies, and     *)
(* ends nowhere the table speaks of.                                       *)
(***************************************************************************)
LEMMA BoatMoves ==
    ASSUME PairInv, NEW b \in Boat, NEW from, NEW to,
           BoatGoes(b, from, to),
           from # "barrier",
           to \in {"V(rider)", "P(boat)", "asleep", "open", "check", "EOS",
                   "leaving", "gone"},
           UNCHANGED <<table, copies, vpc, boat_id>>
    PROVE  PairInv'
<1> USE DEF table, copies
<1>1. /\ bpc[b] # "barrier" /\ bpc' = [bpc EXCEPT ![b] = to]
      /\ bpc'[b] = to /\ \A c \in Boat \ {b} : bpc'[c] = bpc[c]
  BY DEF BoatGoes, PairInv, PairTypes
<1>2. PairTypes'  BY <1>1 DEF PairInv, PairTypes
<1>3. \A c \in Boat : Entry(c)'  BY DEF PairInv, Entry
<1>4. \A c \in Boat : Place(c)'  BY <1>1 DEF PairInv, Place
<1>5. \A c \in Boat : Copies(c)'  BY DEF PairInv, Copies
<1>6. \A v \in Visitor : Waits(v)'  BY <1>1 DEF PairInv, Waits
<1> QED BY <1>2, <1>3, <1>4, <1>5, <1>6 DEF PairInv

(* A visitor's step before it has found a boat. *)
LEMMA VisitorMoves ==
    ASSUME PairInv, NEW v \in Visitor, NEW from, NEW to,
           VisitorGoes(v, from, to),
           from \in {"sightseeing", "P(rider)", "asleep"},
           to \in {"P(rider)", "asleep", "looking"},
           UNCHANGED <<table, copies, bpc, boat_id>>
    PROVE  PairInv'
<1> USE DEF table, copies
<1>1. /\ vpc[v] \notin {"barrier", "gone"} /\ vpc' = [vpc EXCEPT ![v] = to]
      /\ vpc'[v] = to /\ \A w \in Visitor \ {v} : vpc'[w] = vpc[w]
  BY DEF VisitorGoes, PairInv, PairTypes
<1>2. PairTypes'  BY <1>1 DEF PairInv, PairTypes
<1>3. \A c \in Boat : Entry(c)'  BY <1>1 DEF PairInv, PairTypes, Entry
<1>4. \A c \in Boat : Place(c)'  BY <1>1 DEF PairInv, PairTypes, Entry, Place
<1>5. \A c \in Boat : Copies(c)'  BY <1>1 DEF PairInv, PairTypes, Copies
<1>6. \A w \in Visitor : Waits(w)'  BY <1>1 DEF PairInv, Waits
<1> QED BY <1>2, <1>3, <1>4, <1>5, <1>6 DEF PairInv

(* A boat opens: whoever was in its entry has gone. *)
LEMMA StepOpen ==
    ASSUME PairInv, NEW b \in Boat, Open(b) PROVE PairInv'
<1> USE DEF copies
<1>1. /\ bpc[b] = "open" /\ bpc' = [bpc EXCEPT ![b] = "barrier"]
      /\ BA' = [BA EXCEPT ![b] = TRUE] /\ BC' = [BC EXCEPT ![b] = NoOne]
      /\ UNCHANGED <<BT, copies, vpc, boat_id>>
  BY DEF Open, BoatGoes, Vacated
<1>2. PairTypes'  BY <1>1 DEF PairInv, PairTypes
<1>3. \A c \in Boat : Entry(c)'  BY <1>1 DEF PairInv, PairTypes, Entry
<1>4. \A c \in Boat : Place(c)'  BY <1>1 DEF PairInv, PairTypes, Place
<1>5. \A c \in Boat : Copies(c)'  BY <1>1 DEF PairInv, Copies
<1>6. \A v \in Visitor : Waits(v)'  BY <1>1 DEF PairInv, PairTypes, Waits
<1> QED BY <1>2, <1>3, <1>4, <1>5, <1>6 DEF PairInv

(* A boat takes its entry over: there is one, and its visitor is aboard. *)
LEMMA StepBoard ==
    ASSUME PairInv, NEW b \in Boat, Board(b) PROVE PairInv'
<1>1. bpc[b] = "boarding" /\ BC[b] # NoOne /\ vpc[BC[b]] = "gone"
  BY DEF Board, BoatGoes, PairInv, Place
<1>2. /\ bpc' = [bpc EXCEPT ![b] = "riding"] /\ BA' = [BA EXCEPT ![b] = FALSE]
      /\ visitor_id' = [visitor_id EXCEPT ![b] = BC[b]]
      /\ ride_time' = [ride_time EXCEPT ![b] = BT[b]]
      /\ UNCHANGED <<BC, BT, vpc, boat_id>>
  BY <1>1 DEF Board, BoatGoes
<1>3. PairTypes'  BY <1>2 DEF PairInv, PairTypes
<1>4. \A c \in Boat : Entry(c)'  BY <1>2 DEF PairInv, Entry
<1>5. \A c \in Boat : Place(c)'  BY <1>1, <1>2 DEF PairInv, PairTypes, Place
<1>6. \A c \in Boat : Copies(c)'
  BY <1>1, <1>2 DEF PairInv, PairTypes, Copies, Entry
<1>7. \A v \in Visitor : Waits(v)'  BY <1>1, <1>2 DEF PairInv, PairTypes, Waits
<1> QED BY <1>3, <1>4, <1>5, <1>6, <1>7 DEF PairInv

(* A visitor finds a boat: it was in no entry, and the boat had none. *)
LEMMA StepFind ==
    ASSUME PairInv, NEW v \in Visitor, FindBoat(v) PROVE PairInv'
<1> USE DEF copies
<1>1. PICK b \in FreeBoats :
        /\ boat_id' = [boat_id EXCEPT ![v] = b]
        /\ BC' = [BC EXCEPT ![b] = v]
        /\ BT' = [BT EXCEPT ![b] = RideTime[v]]
  BY DEF FindBoat, Timed
<1>2. /\ vpc[v] = "looking" /\ vpc' = [vpc EXCEPT ![v] = "barrier"]
      /\ UNCHANGED <<BA, bpc, copies>>
  BY DEF FindBoat, VisitorGoes
<1>3. b \in Boat /\ BC[b] = NoOne /\ bpc[b] = "barrier"
  BY DEF FreeBoats, PairInv, Place
<1>4. RideTime[v] \in Nat  BY InputAssumption
<1>5. PairTypes'  BY <1>1, <1>2, <1>3, <1>4 DEF PairInv, PairTypes
<1>6. \A c \in Boat : Entry(c)'
  BY <1>1, <1>2, <1>3, Numbers DEF PairInv, PairTypes, Entry
<1>7. \A c \in Boat : Place(c)'
  BY <1>1, <1>2, <1>3, Numbers DEF PairInv, PairTypes, Entry, Place
<1>8. \A c \in Boat : Copies(c)'
  BY <1>1, <1>2, <1>3 DEF PairInv, PairTypes, Copies
<1>9. \A w \in Visitor : Waits(w)'
  BY <1>1, <1>2, <1>3, Numbers DEF PairInv, PairTypes, Waits
<1> QED BY <1>5, <1>6, <1>7, <1>8, <1>9 DEF PairInv

(* At a barrier meet the boat and the one visitor of its entry. *)
LEMMA StepRideStarts ==
    ASSUME PairInv, NEW b \in Boat, RideStarts(b) PROVE PairInv'
<1> USE DEF table, copies
<1>1. \A v \in AtBarrier(b) : v \in Visitor /\ v = BC[b] /\ bpc[b] = "barrier"
  BY DEF AtBarrier, PairInv, Waits
<1>2. PICK p, q \in Parties(b) :
        /\ p # q
        /\ bpc' = [bpc EXCEPT ![b] = IF TheBoat \in {p, q} THEN "boarding" ELSE @]
        /\ vpc' = [v \in Visitor |-> IF v \in {p, q} THEN "gone" ELSE vpc[v]]
        /\ UNCHANGED <<table, copies, boat_id>>
  BY DEF RideStarts
<1>3. {p, q} = {TheBoat, BC[b]} /\ BC[b] \in Visitor /\ bpc[b] = "barrier"
  BY <1>1, <1>2 DEF Parties
<1>4. /\ bpc' = [bpc EXCEPT ![b] = "boarding"]
      /\ vpc' = [vpc EXCEPT ![BC[b]] = "gone"]
  <2>1. \A v \in Visitor : v \in {p, q} <=> v = BC[b]  BY <1>3, Numbers
  <2> QED BY <1>2, <1>3, <2>1 DEF PairInv, PairTypes
<1>5. boat_id[BC[b]] = b  BY <1>3, Numbers DEF PairInv, Entry
<1>6. PairTypes'  BY <1>2, <1>4 DEF PairInv, PairTypes
<1>7. \A c \in Boat : Entry(c)'
  BY <1>2, <1>3, <1>4 DEF PairInv, PairTypes, Entry
<1>8. \A c \in Boat : Place(c)'
  BY <1>2, <1>3, <1>4, <1>5, Numbers DEF PairInv, PairTypes, Entry, Place
<1>9. \A c \in Boat : Copies(c)'
  BY <1>2, <1>3, <1>4 DEF PairInv, PairTypes, Copies
<1>10. \A v \in Visitor : Waits(v)'
  BY <1>1, <1>2, <1>3, <1>4 DEF PairInv, PairTypes, Waits, AtBarrier
<1> QED BY <1>6, <1>7, <1>8, <1>9, <1>10 DEF PairInv

(* Every step of the program keeps the pairs. *)
LEMMA StepPairs == PairInv /\ [Next]_vars => PairInv'
<1> SUFFICES ASSUME PairInv, [Next]_vars PROVE PairInv'  OBVIOUS
<1> USE DEF table, copies
<1>1. CASE UNCHANGED <<table, bpc, copies, vpc, boat_id>>
  BY <1>1 DEF PairInv, PairTypes, Entry, Place, Copies, Waits
<1>2. CASE UNCHANGED vars  BY <1>1, <1>2 DEF vars
<1>3. CASE JoinAll \/ Spurious  BY <1>1, <1>3 DEF JoinAll, Spurious
<1>4. ASSUME NEW b \in Boat,
             \/ InitBarrier(b) \/ CallForRider(b) \/ AwaitRider(b)
             \/ RiderCame(b) \/ EndRide(b) \/ CheckDone(b)
             \/ DestroyBarrier(b) \/ SessionEnds(b)
      PROVE  PairInv'
  <2>1. CASE InitBarrier(b)  BY <2>1, BoatMoves DEF InitBarrier
  <2>2. CASE CallForRider(b)  BY <2>2, BoatMoves DEF CallForRider
  <2>3. CASE AwaitRider(b)  BY <2>3, BoatMoves DEF AwaitRider
  <2>4. CASE RiderCame(b)  BY <2>4, BoatMoves DEF RiderCame
  <2>5. CASE EndRide(b)  BY <2>5, BoatMoves DEF EndRide
  <2>6. CASE CheckDone(b)  BY <2>6, BoatMoves DEF CheckDone
  <2>7. CASE DestroyBarrier(b)  BY <2>7, BoatMoves DEF DestroyBarrier
  <2>8. CASE SessionEnds(b)  BY <2>8, BoatMoves DEF SessionEnds
  <2> QED BY <1>4, <2>1, <2>2, <2>3, <2>4, <2>5, <2>6, <2>7, <2>8
<1>5. ASSUME NEW v \in Visitor, AskForBoat(v) \/ AwaitBoat(v) \/ BoatCame(v)
      PROVE  PairInv'
  <2>1. CASE AskForBoat(v)  BY <2>1, VisitorMoves DEF AskForBoat
  <2>2. CASE AwaitBoat(v)  BY <2>2, VisitorMoves DEF AwaitBoat
  <2>3. CASE BoatCame(v)  BY <2>3, VisitorMoves DEF BoatCame
  <2> QED BY <1>5, <2>1, <2>2, <2>3
<1> QED BY <1>2, <1>3, <1>4, <1>5, StepOpen, StepBoard, StepFind, StepRideStarts
        DEF Next, BoatStep, VisitorStep

(* The invariant holds throughout. *)
LEMMA PairsHold == Spec => []PairInv
BY InitPairs, StepPairs, PTL DEF Spec

(***************************************************************************)
(* PairsMatched for every number of boats and visitors: a visitor at a     *)
(* barrier is the one that boat has in the table (boating.c:75-88,         *)
(* 152-172).                                                               *)
(***************************************************************************)
THEOREM PairsCorrect == Spec => []PairsMatched
<1>1. PairInv => PairsMatched
  <2> SUFFICES ASSUME PairInv PROVE PairsMatched  OBVIOUS
  <2>1. \A b \in Boat : \A v \in AtBarrier(b) :
           BC[b] = v /\ BT[b] = RideTime[v] /\ bpc[b] = "barrier"
    BY Numbers DEF PairInv, Waits, Entry, AtBarrier
  <2>2. \A b, c \in Boat : b # c /\ BC[b] = BC[c] => BC[b] = NoOne
    BY DEF PairInv, Entry
  <2> QED BY <2>1, <2>2 DEF PairsMatched
<1> QED BY <1>1, PairsHold, PTL

(***************************************************************************)
(* RideIsVisitors for every number of boats and visitors: a ride is made   *)
(* with the number and the time of the visitor that came aboard, and of no *)
(* other boat's (boating.c:84-96).                                         *)
(***************************************************************************)
THEOREM RideCorrect == Spec => []RideIsVisitors
<1>1. PairInv => RideIsVisitors
  BY DEF PairInv, PairTypes, Place, Copies, RideIsVisitors
<1> QED BY <1>1, PairsHold, PTL

-----------------------------------------------------------------------------
(* The barriers                                                            *)

(* A boat's barrier lives from its first step to its last. *)
BarrierInv ==
    BB = [b \in Boat |-> CASE bpc[b] = "ready" -> "none"
                           [] bpc[b] = "gone" -> "destroyed"
                           [] OTHER -> "up"]

(* What steps may do to barriers: one is made and one destroyed. *)
LEMMA StepBarriers == PairInv /\ BarrierInv /\ [Next]_vars => BarrierInv'
<1> SUFFICES ASSUME PairInv, BarrierInv, [Next]_vars PROVE BarrierInv'  OBVIOUS
<1>0. bpc \in [Boat -> {"ready", "V(rider)", "P(boat)", "asleep", "open",
                        "barrier", "boarding", "riding", "check", "EOS",
                        "leaving", "gone"}]
  BY DEF PairInv, PairTypes
<1>1. CASE UNCHANGED <<bpc, BB>>  BY <1>1 DEF BarrierInv
<1>2. ASSUME NEW b \in Boat, NEW from, NEW to, BoatGoes(b, from, to), UNCHANGED BB,
             from \notin {"ready", "gone"}, to \notin {"ready", "gone"}
      PROVE  BarrierInv'
  BY <1>0, <1>2 DEF BoatGoes, BarrierInv
<1>3. ASSUME NEW b \in Boat, InitBarrier(b)  PROVE BarrierInv'
  BY <1>0, <1>3 DEF InitBarrier, BoatGoes, BarrierInv
<1>4. ASSUME NEW b \in Boat, DestroyBarrier(b)  PROVE BarrierInv'
  BY <1>0, <1>4 DEF DestroyBarrier, BoatGoes, BarrierInv
<1>5. ASSUME NEW b \in Boat,
             \/ CallForRider(b) \/ AwaitRider(b) \/ RiderCame(b) \/ Open(b)
             \/ Board(b) \/ EndRide(b) \/ CheckDone(b) \/ SessionEnds(b)
      PROVE  BarrierInv'
  BY <1>2, <1>5 DEF CallForRider, AwaitRider, RiderCame, Open, Board, EndRide,
                    CheckDone, SessionEnds
<1>6. ASSUME NEW b \in Boat, RideStarts(b)  PROVE BarrierInv'
  <2>1. \/ bpc' = bpc
        \/ bpc[b] = "barrier" /\ bpc' = [bpc EXCEPT ![b] = "boarding"]
    <3>1. PICK p, q \in Parties(b) :
            bpc' = [bpc EXCEPT ![b] = IF TheBoat \in {p, q} THEN "boarding" ELSE @]
      BY <1>6 DEF RideStarts
    <3>2. TheBoat \in {p, q} => bpc[b] = "barrier"
      BY <3>1, Numbers DEF Parties, AtBarrier
    <3>3. CASE TheBoat \in {p, q}  BY <3>1, <3>2, <3>3
    <3>4. CASE TheBoat \notin {p, q}
      <4>1. bpc' = [bpc EXCEPT ![b] = bpc[b]]  BY <3>1, <3>4
      <4> QED BY <1>0, <4>1
    <3> QED BY <3>3, <3>4
  <2>2. UNCHANGED BB  BY <1>6 DEF RideStarts
  <2> QED BY <1>0, <2>1, <2>2 DEF BarrierInv
<1>7. ASSUME NEW v \in Visitor, VisitorStep(v)  PROVE UNCHANGED <<bpc, BB>>
  BY <1>7 DEF VisitorStep, AskForBoat, AwaitBoat, BoatCame, FindBoat
<1>8. CASE JoinAll \/ Spurious  BY <1>1, <1>8 DEF JoinAll, Spurious
<1>9. CASE UNCHANGED vars  BY <1>1, <1>9 DEF vars
<1> QED BY <1>1, <1>3, <1>4, <1>5, <1>6, <1>7, <1>8, <1>9 DEF Next, BoatStep

(***************************************************************************)
(* BarrierAlive for every number of boats and visitors: nobody waits at a  *)
(* barrier before its boat has made it or after (boating.c:65, 121 against *)
(* 81, 177).                                                               *)
(***************************************************************************)
THEOREM BarrierCorrect == Spec => []BarrierAlive
<1>1. Init => BarrierInv  BY DEF Init, BarrierInv
<1>2. PairInv /\ BarrierInv => BarrierAlive
  <2> SUFFICES ASSUME PairInv, BarrierInv, NEW b \in Boat,
                      bpc[b] = "barrier" \/ AtBarrier(b) # {}
               PROVE  BB[b] = "up"
    BY DEF BarrierAlive
  <2>1. bpc[b] = "barrier"  BY DEF AtBarrier, PairInv, Waits
  <2> QED BY <2>1 DEF BarrierInv
<1> QED BY <1>1, <1>2, PairsHold, StepBarriers, PTL DEF Spec

-----------------------------------------------------------------------------
(* The end of the session                                                  *)

Gone   == {v \in Visitor : vpc[v] = "gone"}
Aboard == {b \in Boat : bpc[b] \in {"boarding", "riding"}}

(***************************************************************************)
(* The visitors that have met a boat are those of the rides completed and  *)
(* those aboard; the boat of the last ride alone meets main.               *)
(***************************************************************************)
EndInv ==
    /\ completed_visitors \in Nat
    /\ completed_visitors + Cardinality(Aboard) = Cardinality(Gone)
    /\ \A b \in Boat : bpc[b] = "EOS" => completed_visitors = N /\ last_boat_id = b
    /\ main # "EOS" =>
          /\ completed_visitors = N /\ last_boat_id \in Boat
          /\ bpc[last_boat_id] \in {"leaving", "gone"}

(* There are M boats and N visitors. *)
LEMMA Sizes ==
    /\ M \in Nat /\ N \in Nat
    /\ IsFiniteSet(Boat) /\ IsFiniteSet(Visitor) /\ Cardinality(Visitor) = N
    /\ IsFiniteSet(Aboard) /\ Cardinality(Aboard) \in Nat
    /\ IsFiniteSet(Gone) /\ Cardinality(Gone) \in 0 .. N
<1>1. M \in Nat /\ N \in Nat  BY InputAssumption
<1>2. IsFiniteSet(Boat) /\ IsFiniteSet(Visitor) /\ Cardinality(Visitor) = N
  BY <1>1, FS_Interval DEF Boat, Visitor
<1>3. IsFiniteSet(Aboard) /\ Cardinality(Aboard) \in Nat
  BY <1>2, FS_Subset, FS_CardinalityType DEF Aboard
<1>4. IsFiniteSet(Gone) /\ Cardinality(Gone) <= N /\ Cardinality(Gone) \in Nat
  BY <1>2, FS_Subset, FS_CardinalityType DEF Gone
<1> QED BY <1>1, <1>2, <1>3, <1>4

(* When the rides are complete, everybody has gone and nobody is aboard. *)
LEMMA AllRode ==
    ASSUME EndInv, completed_visitors = N  PROVE Gone = Visitor /\ Aboard = {}
<1>1. Cardinality(Aboard) = 0 /\ Cardinality(Gone) = N  BY Sizes DEF EndInv
<1>2. Gone \in SUBSET Visitor  BY DEF Gone
<1> QED BY <1>1, <1>2, Sizes, FS_EmptySet, FS_Subset

(* A step that moves no boat out of the ride or to main, and no visitor away. *)
LEMMA EndUnmoved ==
    ASSUME EndInv, UNCHANGED <<ends, main>>, Gone' = Gone, Aboard' = Aboard,
           \A b \in Boat :
                \/ bpc'[b] = bpc[b]
                \/ bpc[b] \notin {"leaving", "gone"} /\ bpc'[b] # "EOS"
                \/ bpc'[b] \in {"leaving", "gone"}
    PROVE  EndInv'
BY DEF EndInv, ends

(* A boat's steps that are neither into nor out of a ride. *)
LEMMA EndBoatMoves ==
    ASSUME PairInv, EndInv, NEW b \in Boat, NEW from, NEW to, BoatGoes(b, from, to),
           {from, to} \cap {"boarding", "riding", "EOS"} = {},
           from \in {"leaving", "gone"} => to \in {"leaving", "gone"},
           UNCHANGED <<ends, vpc, main>>
    PROVE  EndInv'
<1>1. /\ bpc[b] = from /\ bpc'[b] = to
      /\ \A c \in Boat \ {b} : bpc'[c] = bpc[c]
  BY DEF BoatGoes, PairInv, PairTypes
<1>2. Aboard' = Aboard /\ Gone' = Gone  BY <1>1 DEF Aboard, Gone
<1> QED BY <1>1, <1>2, EndUnmoved

(* A visitor's steps up to the barrier. *)
LEMMA EndVisitorMoves ==
    ASSUME PairInv, EndInv, NEW v \in Visitor, VisitorStep(v)  PROVE EndInv'
<1>1. PICK from, to : /\ VisitorGoes(v, from, to) /\ from # "gone" /\ to # "gone"
                      /\ UNCHANGED <<ends, bpc, main>>
  BY DEF VisitorStep, AskForBoat, AwaitBoat, BoatCame, FindBoat
<1>2. vpc'[v] = to /\ \A w \in Visitor \ {v} : vpc'[w] = vpc[w]
  BY <1>1 DEF VisitorGoes, PairInv, PairTypes
<1>3. Gone' = Gone  BY <1>1, <1>2 DEF Gone, VisitorGoes
<1>4. Aboard' = Aboard  BY <1>1 DEF Aboard
<1> QED BY <1>1, <1>3, <1>4, EndUnmoved

(* A pair that meets at its barrier: one more has gone, one more is aboard. *)
LEMMA EndRideStarts ==
    ASSUME PairInv, EndInv, NEW b \in Boat, RideStarts(b)  PROVE EndInv'
<1>1. \A v \in AtBarrier(b) : v \in Visitor /\ v = BC[b] /\ bpc[b] = "barrier"
                              /\ vpc[v] = "barrier"
  BY DEF AtBarrier, PairInv, Waits
<1>2. PICK p, q \in Parties(b) :
        /\ p # q
        /\ bpc' = [bpc EXCEPT ![b] = IF TheBoat \in {p, q} THEN "boarding" ELSE @]
        /\ vpc' = [v \in Visitor |-> IF v \in {p, q} THEN "gone" ELSE vpc[v]]
        /\ UNCHANGED <<ends, main>>
  BY DEF RideStarts
<1> DEFINE w == BC[b]
<1>3. {p, q} = {TheBoat, w} /\ w \in Visitor /\ vpc[w] = "barrier" /\ bpc[b] = "barrier"
  BY <1>1, <1>2 DEF Parties
<1>4. /\ bpc'[b] = "boarding" /\ \A c \in Boat \ {b} : bpc'[c] = bpc[c]
      /\ vpc'[w] = "gone" /\ \A v \in Visitor \ {w} : vpc'[v] = vpc[v]
  <2>1. \A v \in Visitor : v \in {p, q} <=> v = w  BY <1>3, Numbers
  <2> QED BY <1>2, <1>3, <2>1 DEF PairInv, PairTypes
<1>5. Gone' = Gone \cup {w} /\ w \notin Gone  BY <1>3, <1>4 DEF Gone
<1>6. Aboard' = Aboard \cup {b} /\ b \notin Aboard  BY <1>3, <1>4 DEF Aboard
<1>7. /\ Cardinality(Gone') = Cardinality(Gone) + 1
      /\ Cardinality(Aboard') = Cardinality(Aboard) + 1
  BY <1>5, <1>6, Sizes, FS_AddElement
<1>8. completed_visitors' + Cardinality(Aboard') = Cardinality(Gone')
  BY <1>2, <1>7, Sizes DEF EndInv, ends
<1>9. last_boat_id # b \/ main = "EOS"  BY <1>3 DEF EndInv
<1> HIDE DEF w
<1> QED BY <1>2, <1>4, <1>8, <1>9 DEF EndInv, ends

(* A ride that ends: it counts, and the boat is no longer aboard. *)
LEMMA EndEndRide ==
    ASSUME PairInv, EndInv, NEW b \in Boat, EndRide(b)  PROVE EndInv'
<1>1. /\ bpc[b] = "riding" /\ bpc'[b] = "check"
      /\ \A c \in Boat \ {b} : bpc'[c] = bpc[c]
      /\ completed_visitors' = completed_visitors + 1 /\ UNCHANGED <<vpc, main>>
  BY DEF EndRide, BoatGoes, PairInv, PairTypes
<1>2. Aboard' = Aboard \ {b} /\ b \in Aboard  BY <1>1 DEF Aboard
<1>3. Cardinality(Aboard') = Cardinality(Aboard) - 1  BY <1>2, Sizes, FS_RemoveElement
<1>4. completed_visitors # N  BY <1>2, AllRode
<1>5. Gone' = Gone  BY <1>1 DEF Gone
<1>6. completed_visitors' + Cardinality(Aboard') = Cardinality(Gone')
  BY <1>1, <1>3, <1>5, Sizes DEF EndInv
<1> QED BY <1>1, <1>4, <1>6 DEF EndInv

(* Coming aboard: there is a visitor, so the boat rides. *)
LEMMA EndBoard ==
    ASSUME PairInv, EndInv, NEW b \in Boat, Board(b)  PROVE EndInv'
<1>1. /\ bpc[b] = "boarding" /\ bpc'[b] = "riding"
      /\ \A c \in Boat \ {b} : bpc'[c] = bpc[c]
      /\ UNCHANGED <<ends, vpc, main>>
  BY DEF Board, BoatGoes, PairInv, PairTypes, Place
<1>2. Aboard' = Aboard /\ Gone' = Gone  BY <1>1 DEF Aboard, Gone
<1> QED BY <1>1, <1>2, EndUnmoved

(* Only the boat of the last ride goes to main. *)
LEMMA EndCheckDone ==
    ASSUME PairInv, EndInv, NEW b \in Boat, CheckDone(b)  PROVE EndInv'
<1> DEFINE to == IF ~Over(completed_visitors) THEN "V(rider)"
                 ELSE IF last_boat_id = b THEN "EOS" ELSE "leaving"
<1>1. /\ bpc[b] = "check" /\ bpc'[b] = to
      /\ \A c \in Boat \ {b} : bpc'[c] = bpc[c]
      /\ UNCHANGED <<ends, vpc, main>>
  BY DEF CheckDone, BoatGoes, PairInv, PairTypes
<1>2. to = "EOS" => completed_visitors = N /\ last_boat_id = b  BY DEF Over
<1>3. to \in {"V(rider)", "EOS", "leaving"}  OBVIOUS
<1> HIDE DEF to
<1>4. Aboard' = Aboard /\ Gone' = Gone  BY <1>1, <1>3 DEF Aboard, Gone
<1>5. main # "EOS" => last_boat_id # b  BY <1>1 DEF EndInv
<1> QED BY <1>1, <1>2, <1>3, <1>4, <1>5 DEF EndInv, ends

(* main meets that boat. *)
LEMMA EndSessionEnds ==
    ASSUME PairInv, EndInv, NEW b \in Boat, SessionEnds(b)  PROVE EndInv'
<1>1. /\ bpc[b] = "EOS" /\ bpc'[b] = "leaving"
      /\ \A c \in Boat \ {b} : bpc'[c] = bpc[c]
      /\ UNCHANGED <<ends, vpc>>
  BY DEF SessionEnds, BoatGoes, PairInv, PairTypes
<1>2. Aboard' = Aboard /\ Gone' = Gone  BY <1>1 DEF Aboard, Gone
<1>3. completed_visitors = N /\ last_boat_id = b  BY <1>1 DEF EndInv
<1> QED BY <1>1, <1>2, <1>3 DEF EndInv, ends

(* Every step keeps the count of rides and the way out. *)
LEMMA StepEnd == PairInv /\ EndInv /\ [Next]_vars => EndInv'
<1> SUFFICES ASSUME PairInv, EndInv, [Next]_vars PROVE EndInv'  OBVIOUS
<1>1. ASSUME NEW b \in Boat, InitBarrier(b)  PROVE EndInv'
  BY <1>1, EndBoatMoves DEF InitBarrier
<1>2. ASSUME NEW b \in Boat, CallForRider(b)  PROVE EndInv'
  BY <1>2, EndBoatMoves DEF CallForRider
<1>3. ASSUME NEW b \in Boat, AwaitRider(b)  PROVE EndInv'
  BY <1>3, EndBoatMoves DEF AwaitRider
<1>4. ASSUME NEW b \in Boat, RiderCame(b)  PROVE EndInv'
  BY <1>4, EndBoatMoves DEF RiderCame
<1>5. ASSUME NEW b \in Boat, Open(b)  PROVE EndInv'
  BY <1>5, EndBoatMoves DEF Open
<1>6. ASSUME NEW b \in Boat, DestroyBarrier(b)  PROVE EndInv'
  BY <1>6, EndBoatMoves DEF DestroyBarrier
<1>7. CASE Spurious \/ UNCHANGED vars
  BY <1>7, EndUnmoved DEF Spurious, vars, Gone, Aboard
<1>8. CASE JoinAll
  BY <1>8 DEF JoinAll, EndInv, ends, Gone, Aboard
<1> QED BY <1>1, <1>2, <1>3, <1>4, <1>5, <1>6, <1>7, <1>8, EndBoard, EndEndRide,
           EndCheckDone, EndSessionEnds, EndRideStarts, EndVisitorMoves
        DEF Next, BoatStep

(***************************************************************************)
(* EndsAfterLastRide for every number of boats and visitors: main gets     *)
(* past EOS when all have ridden and no ride is under way, although boats  *)
(* read the count of rides outside count_mtx (boating.c:99-118, 274).      *)
(***************************************************************************)
THEOREM EndCorrect == Spec => []EndsAfterLastRide
<1>1. Init => EndInv
  <2> SUFFICES ASSUME Init PROVE EndInv  OBVIOUS
  <2>1. Aboard = {} /\ Gone = {}  BY DEF Init, Aboard, Gone
  <2> QED BY <2>1, FS_EmptySet DEF Init, EndInv
<1>2. EndInv => EndsAfterLastRide
  <2> SUFFICES ASSUME EndInv PROVE EndsAfterLastRide  OBVIOUS
  <2>1. main # "EOS" => Gone = Visitor /\ Aboard = {}  BY AllRode DEF EndInv
  <2>2. main # "EOS" => \A b \in Boat : bpc[b] # "EOS"  BY DEF EndInv
  <2> QED BY <2>1, <2>2 DEF EndInv, EndsAfterLastRide, Gone, Aboard
<1> QED BY <1>1, <1>2, PairsHold, StepEnd, PTL DEF Spec

-----------------------------------------------------------------------------
(* The counting semaphore                                                  *)

SemInv == SemTypeOK /\ ValueCountsSleepers

(***************************************************************************)
(* What the steps do to the number of sleepers.                            *)
(***************************************************************************)
LEMMA Counting ==
    ASSUME NEW W \in SUBSET Thread, NEW t \in Thread
    PROVE  /\ t \notin W => Cardinality(W \cup {t}) = Cardinality(W) + 1
           /\ t \in W => Cardinality(W \ {t}) = Cardinality(W) - 1
<1>1. IsFiniteSet(W)  BY ThreadAssumption, FS_Subset
<1> QED BY <1>1, FS_AddElement, FS_RemoveElement

(* A number of sleepers is a natural number, 0 when there are none. *)
LEMMA Counted ==
    ASSUME NEW W \in SUBSET Thread
    PROVE  /\ Cardinality(W) \in Nat
           /\ (W = {}) <=> (Cardinality(W) = 0)
<1>1. IsFiniteSet(W)  BY ThreadAssumption, FS_Subset
<1> QED BY <1>1, FS_CardinalityType, FS_EmptySet

(* The outcomes of the operations, field by field. *)
LEMMA SemOutcomes ==
    ASSUME NEW r \in Semaphores(Thread), NEW t \in Thread
    PROVE  /\ Down(r, t) =
                [value   |-> r.value - 1,
                 waiting |-> IF r.value > 0 THEN r.waiting ELSE r.waiting \cup {t},
                 woken   |-> r.woken]
           /\ Back(r, t) =
                [value |-> r.value, waiting |-> r.waiting, woken |-> r.woken \ {t}]
           /\ \A u \in Ups(r) :
                IF r.value < 0 /\ r.waiting # {}
                THEN \E w \in r.waiting :
                        u = [value |-> r.value + 1, waiting |-> r.waiting \ {w},
                             woken |-> r.woken \cup {w}]
                ELSE u = [value |-> r.value + 1, waiting |-> r.waiting,
                          woken |-> r.woken]
<1>1. /\ r.value \in Int
      /\ r = [value |-> r.value, waiting |-> r.waiting, woken |-> r.woken]
  BY DEF Semaphores
<1>2. Passes(r) <=> r.value > 0  BY <1>1 DEF Passes
<1>3. Signals(r) <=> r.value < 0  BY <1>1 DEF Signals
<1>4. Down(r, t) =
        [value   |-> r.value - 1,
         waiting |-> IF r.value > 0 THEN r.waiting ELSE r.waiting \cup {t},
         woken   |-> r.woken]
  <2>1. CASE r.value > 0  BY <1>1, <1>2, <2>1 DEF Down
  <2>2. CASE ~(r.value > 0)  BY <1>1, <1>2, <2>2 DEF Down
  <2> QED BY <2>1, <2>2
<1>5. Back(r, t) =
        [value |-> r.value, waiting |-> r.waiting, woken |-> r.woken \ {t}]
  BY <1>1 DEF Back
<1>6. ASSUME NEW u \in Ups(r), r.value < 0, r.waiting # {}
      PROVE  \E w \in r.waiting :
                u = [value |-> r.value + 1, waiting |-> r.waiting \ {w},
                     woken |-> r.woken \cup {w}]
  BY <1>1, <1>3, <1>6 DEF Ups
<1>7. ASSUME NEW u \in Ups(r), ~(r.value < 0 /\ r.waiting # {})
      PROVE  u = [value |-> r.value + 1, waiting |-> r.waiting, woken |-> r.woken]
  BY <1>1, <1>3, <1>7 DEF Ups
<1> QED BY <1>4, <1>5, <1>6, <1>7

(***************************************************************************)
(* A V with somebody asleep: one sleeper is woken.  Otherwise the value    *)
(* alone remembers it.                                                     *)
(***************************************************************************)
LEMMA VCases ==
    ASSUME SemInv, NEW t \in Thread, V(t)
    PROVE  \/ /\ sem.value < 0
              /\ \E w \in sem.waiting :
                    sem' = [value |-> sem.value + 1, waiting |-> sem.waiting \ {w},
                          woken |-> sem.woken \cup {w}]
           \/ /\ sem.value >= 0
              /\ sem' = [value |-> sem.value + 1, waiting |-> sem.waiting,
                       woken |-> sem.woken]
<1>1. sem.value \in Int /\ sem.waiting \in SUBSET Thread /\ sem \in Semaphores(Thread)
  BY DEF SemInv, SemTypeOK, Semaphores
<1>2. sem.value < 0 <=> sem.waiting # {}
  BY <1>1, Counted DEF SemInv, ValueCountsSleepers
<1>3. sem' \in Ups(sem)  BY DEF V
<1> QED BY <1>1, <1>2, <1>3, SemOutcomes

(***************************************************************************)
(* P takes a permit at once, or joins the sleepers.                        *)
(***************************************************************************)
LEMMA PCases ==
    ASSUME SemInv, NEW t \in Thread, P(t)
    PROVE  /\ t \notin sem.waiting /\ t \notin sem.woken
           /\ \/ /\ sem.value > 0
                 /\ sem' = [value |-> sem.value - 1, waiting |-> sem.waiting,
                          woken |-> sem.woken]
              \/ /\ sem.value <= 0
                 /\ sem' = [value |-> sem.value - 1, waiting |-> sem.waiting \cup {t},
                          woken |-> sem.woken]
<1>1. sem.value \in Int /\ sem \in Semaphores(Thread)
  BY DEF SemInv, SemTypeOK, Semaphores
<1>2. t \notin sem.waiting /\ t \notin sem.woken  BY DEF P, Inside
<1>3. sem' = [value   |-> sem.value - 1,
            waiting |-> IF sem.value > 0 THEN sem.waiting ELSE sem.waiting \cup {t},
            woken   |-> sem.woken]
  BY <1>1, SemOutcomes DEF P
<1>4. CASE sem.value > 0  BY <1>2, <1>3, <1>4
<1>5. CASE sem.value <= 0  BY <1>1, <1>2, <1>3, <1>5
<1> QED BY <1>1, <1>4, <1>5

(***************************************************************************)
(* Every step keeps the count of the sleepers.                             *)
(***************************************************************************)
LEMMA SemStep ==
    ASSUME SemInv, [SemNext]_sem
    PROVE  SemInv'
<1>1. /\ sem.value \in Int /\ sem.waiting \in SUBSET Thread
      /\ sem.woken \in SUBSET Thread /\ sem.waiting \cap sem.woken = {}
      /\ Cardinality(sem.waiting) = IF sem.value < 0 THEN -sem.value ELSE 0
  BY DEF SemInv, SemTypeOK, Semaphores, ValueCountsSleepers
<1>2. CASE sem' = sem  BY <1>2 DEF SemInv, SemTypeOK, ValueCountsSleepers
<1>3. ASSUME NEW t \in Thread, P(t) PROVE SemInv'
  <2>1. SemTypeOK'  BY <1>1, <1>3, PCases DEF SemTypeOK, Semaphores
  <2>2. (Cardinality(sem.waiting) = IF sem.value < 0 THEN -sem.value ELSE 0)'
    BY <1>1, <1>3, PCases, Counting
  <2>3. (sem.waiting \cap sem.woken = {})'  BY <1>1, <1>3, PCases
  <2> QED BY <2>1, <2>2, <2>3 DEF SemInv, ValueCountsSleepers
<1>4. ASSUME NEW t \in Thread, PReturns(t) PROVE SemInv'
  <2>1. sem' = [value |-> sem.value, waiting |-> sem.waiting, woken |-> sem.woken \ {t}]
    BY <1>4 DEF PReturns, Back, SemInv, SemTypeOK, Semaphores
  <2> QED BY <1>1, <2>1 DEF SemInv, SemTypeOK, Semaphores, ValueCountsSleepers
<1>5. ASSUME NEW t \in Thread, V(t) PROVE SemInv'
  <2>1. SemTypeOK'  BY <1>1, <1>5, VCases DEF SemTypeOK, Semaphores
  <2>2. (Cardinality(sem.waiting) = IF sem.value < 0 THEN -sem.value ELSE 0)'
    BY <1>1, <1>5, VCases, Counting
  <2>3. (sem.waiting \cap sem.woken = {})'  BY <1>1, <1>5, VCases
  <2> QED BY <2>1, <2>2, <2>3 DEF SemInv, ValueCountsSleepers
<1> QED BY <1>2, <1>3, <1>4, <1>5 DEF SemNext

(* The start: nobody sleeps, and the pool holds the initial value. *)
LEMMA SemStart ==
    ASSUME SemInit PROVE SemInv /\ Pool!Init
<1>1. sem = [value |-> Initial, waiting |-> {}, woken |-> {}]  BY DEF SemInit, Sem
<1>2. Cardinality({}) = 0  BY FS_EmptySet
<1>3. Initial \in Nat  BY ThreadAssumption
<1>4. sem.value = Initial /\ sem.waiting = {} /\ sem.woken = {}  BY <1>1
<1>5. sem \in Semaphores(Thread)  BY <1>1, <1>3 DEF Semaphores
<1>6. SemInv  BY <1>2, <1>3, <1>4, <1>5 DEF SemInv, SemTypeOK, ValueCountsSleepers
<1>7. Pool!Init  BY <1>2, <1>3, <1>4 DEF Pool!Init
<1> QED BY <1>6, <1>7

(***************************************************************************)
(* The value counts the sleepers (boating.c:38-55).                        *)
(***************************************************************************)
THEOREM CountCorrect == SemSpec => []ValueCountsSleepers
<1>1. SemInit => SemInv  BY SemStart
<1>2. SemInv /\ [SemNext]_sem => SemInv'  BY SemStep
<1>3. SemInv => ValueCountsSleepers  BY DEF SemInv
<1> QED BY <1>1, <1>2, <1>3, PTL DEF SemSpec

-----------------------------------------------------------------------------
(* The pool of permits, as the semaphore implements it. *)
permits == (IF sem.value < 0 THEN 0 ELSE sem.value) + Cardinality(sem.woken)
callers == sem.waiting \cup sem.woken

(***************************************************************************)
(* Every step of the semaphore is a step of the pool or changes nothing    *)
(* of it: a call that must sleep is Call, one that need not is TakeNow, a  *)
(* woken thread's return is Take, V is Put.                                *)
(***************************************************************************)
LEMMA StepOfPool ==
    ASSUME SemInv, [SemNext]_sem
    PROVE  [Pool!Next]_<<permits, callers>>
<1>1. /\ sem.value \in Int /\ sem.waiting \in SUBSET Thread
      /\ sem.woken \in SUBSET Thread /\ sem.waiting \cap sem.woken = {}
      /\ Cardinality(sem.waiting) = IF sem.value < 0 THEN -sem.value ELSE 0
  BY DEF SemInv, SemTypeOK, Semaphores, ValueCountsSleepers
<1>2. Cardinality(sem.woken) \in Nat  BY <1>1, Counted
<1>3. CASE sem' = sem  BY <1>3 DEF permits, callers
<1>4. ASSUME NEW t \in Thread, P(t) PROVE Pool!Call(t) \/ Pool!TakeNow(t)
  <2>1. CASE sem.value > 0
    <3>1. sem' = [value |-> sem.value - 1, waiting |-> sem.waiting, woken |-> sem.woken]
      BY <1>1, <1>4, <2>1, PCases
    <3>2. permits > 0 /\ permits' = permits - 1 /\ callers' = callers
      BY <1>1, <1>2, <2>1, <3>1 DEF permits, callers
    <3> QED BY <1>4, <3>2, PCases DEF Pool!TakeNow, permits, callers
  <2>2. CASE sem.value <= 0
    <3>1. sem' = [value |-> sem.value - 1, waiting |-> sem.waiting \cup {t},
                woken |-> sem.woken]
      BY <1>1, <1>4, <2>2, PCases
    <3>2. permits' = permits /\ callers' = callers \cup {t}
      BY <1>1, <1>2, <2>2, <3>1 DEF permits, callers
    <3> QED BY <1>4, <3>2, PCases DEF Pool!Call, permits, callers
  <2> QED BY <1>1, <2>1, <2>2
<1>5. ASSUME NEW t \in Thread, PReturns(t) PROVE Pool!Take(t)
  <2>1. sem' = [value |-> sem.value, waiting |-> sem.waiting, woken |-> sem.woken \ {t}]
    BY <1>5 DEF PReturns, Back, SemInv, SemTypeOK, Semaphores
  <2>2. t \in sem.woken /\ t \notin sem.waiting  BY <1>1, <1>5 DEF PReturns
  <2>3. Cardinality(sem.woken \ {t}) = Cardinality(sem.woken) - 1 /\ Cardinality(sem.woken) # 0
    BY <1>1, <2>2, Counting, Counted
  <2>4. permits > 0 /\ permits' = permits - 1
    BY <1>1, <1>2, <2>1, <2>3 DEF permits
  <2>5. callers' = callers \ {t}  BY <2>1, <2>2 DEF callers
  <2> QED BY <2>2, <2>4, <2>5 DEF Pool!Take, permits, callers
<1>6. ASSUME NEW t \in Thread, V(t) PROVE Pool!Put(t)
  <2>1. CASE sem.value < 0
    <3>1. PICK w \in sem.waiting :
            sem' = [value |-> sem.value + 1, waiting |-> sem.waiting \ {w},
                  woken |-> sem.woken \cup {w}]
      BY <1>1, <1>6, <2>1, VCases
    <3>2. Cardinality(sem.woken \cup {w}) = Cardinality(sem.woken) + 1
      BY <1>1, Counting
    <3>3. permits' = permits + 1
      BY <1>1, <1>2, <2>1, <3>1, <3>2 DEF permits
    <3>4. callers' = callers  BY <3>1 DEF callers
    <3> QED BY <1>6, <3>3, <3>4 DEF Pool!Put, permits, callers, V, Inside
  <2>2. CASE sem.value >= 0
    <3>1. sem' = [value |-> sem.value + 1, waiting |-> sem.waiting, woken |-> sem.woken]
      BY <1>1, <1>6, <2>2, VCases
    <3>2. permits' = permits + 1 /\ callers' = callers
      BY <1>1, <1>2, <2>2, <3>1 DEF permits, callers
    <3> QED BY <1>6, <3>2 DEF Pool!Put, permits, callers, V, Inside
  <2> QED BY <1>1, <2>1, <2>2
<1> QED BY <1>3, <1>4, <1>5, <1>6 DEF SemNext, Pool!Next

(***************************************************************************)
(* P and V implement the pool of permits: nobody comes back from P without *)
(* having taken a permit that the initial value or a V put there.          *)
(***************************************************************************)
THEOREM PoolImplemented == SemSpec => IsPool
<1>1. SemInit => SemInv  BY SemStart
<1>2. SemInv /\ [SemNext]_sem => SemInv'  BY SemStep
<1>3. SemInit => Pool!Init  BY SemStart
<1>4. SemInv /\ [SemNext]_sem => [Pool!Next]_<<permits, callers>>  BY StepOfPool
<1> QED BY <1>1, <1>2, <1>3, <1>4, PTL
        DEF SemSpec, IsPool, Pool!Spec, permits, callers
=============================================================================
