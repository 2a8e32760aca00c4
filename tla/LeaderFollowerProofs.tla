------------------------- MODULE LeaderFollowerProofs -------------------------
(***************************************************************************)
(* While no join has disturbed another, one process at a time has the      *)
(* turn, a sum is of one round, and the session is left in order, for any  *)
(* number of followers and of processes that come.                         *)
(***************************************************************************)
EXTENDS LeaderFollower, TLAPS

FollowerPlaces ==
    {"start", "no_leader", "load", "store", "reload", "admit", "poll", "turn",
     "write", "pass", "leave", "gone"}

LeaderPlaces ==
    {"start", "set_n", "set_joined", "set_turn", "wait", "turn", "number",
     "pass", "round", "sum", "end", "leaving", "cleanup", "done"}

Types ==
    /\ M \in [Slot -> Int] /\ M[1] \in Nat
    /\ lpc \in LeaderPlaces
    /\ fpc \in [Follower -> FollowerPlaces]
    /\ loaded \in [Follower -> Int] /\ follower_num \in [Follower -> Int]

(* f has counted itself; its number is the count it then left. *)
Joined(f) == fpc[f] = "reload" \/ Numbered(f)
number(f) == loaded[f] + 1

AllHere == lpc \notin {"start", "set_n", "set_joined", "set_turn", "wait"}

(***************************************************************************)
(* The numbers given so far are 1 .. M[1], each to one process; a follower *)
(* that plays has one that the leader expects.                             *)
(***************************************************************************)
Numbers ==
    /\ lpc \notin {"start", "set_n"} => M[0] = n
    /\ AllHere => M[1] >= n
    /\ \A f \in Follower : Joined(f) => Initialised /\ number(f) \in 1 .. M[1]
    /\ \A f \in Follower : Numbered(f) => follower_num[f] = number(f)
    /\ \A f, g \in Follower :
          Joined(f) /\ Joined(g) /\ number(f) = number(g) => f = g
    /\ \A f \in Follower : fpc[f] = "poll" \/ FollowerActs(f) => number(f) <= n

(* Who acts is the one whose number M[2] shows, and so is how. *)
Turns ==
    /\ lpc \notin {"round", "leaving"} =>
          M[2] = 0 /\ \A f \in Follower : ~FollowerActs(f)
    /\ lpc = "round" =>
          /\ M[2] \in 0 .. n
          /\ \A f \in Follower : FollowerActs(f) =>
                fpc[f] # "leave" /\ number(f) = M[2]
    /\ lpc = "leaving" =>
          /\ -M[2] \in 0 .. n
          /\ \A f \in Follower : FollowerActs(f) =>
                fpc[f] \in {"turn", "leave"} /\ number(f) = -M[2]

(* The slots written are the leader's and those before the turn. *)
Round ==
    /\ lpc = "pass" => written = {3}
    /\ lpc = "round" /\ M[2] = 0 => written = 3 .. 3 + n
    /\ lpc = "round" /\ M[2] # 0 =>
          /\ (\E f \in Follower : fpc[f] = "pass") => written = 3 .. 3 + M[2]
          /\ (\A f \in Follower : fpc[f] # "pass") => written = 3 .. 2 + M[2]
    /\ lpc = "sum" => written = 3 .. 3 + n

(* The followers leave in the order of their numbers. *)
Leaving ==
    \A f \in Follower : Joined(f) /\ number(f) <= n =>
        /\ fpc[f] = "gone" => lpc \in {"leaving", "cleanup", "done"}
        /\ lpc = "leaving" /\ (M[2] = 0 \/ number(f) < -M[2]) => fpc[f] = "gone"
        /\ lpc \in {"cleanup", "done"} => fpc[f] = "gone"

Good == Types /\ Numbers /\ Turns /\ Round /\ Leaving

IInv == undisturbed \in BOOLEAN /\ (undisturbed => Good)
-----------------------------------------------------------------------------
LEMMA SlotFacts ==
    /\ n \in Nat \ {0} /\ {0, 1, 2, 3} \subseteq Slot
    /\ \A k \in 1 .. n : 3 + k \in Slot
BY GameAssumption DEF Slot

(* Nothing is there yet. *)
LEMMA InitIInv == Init => IInv
BY SlotFacts DEF Init, IInv, Good, Types, Numbers, Turns, Round, Leaving, Joined,
    Numbered, FollowerActs, Initialised, AllHere, LeaderPlaces, FollowerPlaces

(* Until the leader has the first turn it only fills in M[0], M[1] and M[2]. *)
LEMMA SetUpKeeps ==
    ASSUME Good, Create \/ InitM \/ wait_for_followers
    PROVE  Good'
<1> USE SlotFacts DEF Good, Create, InitM, wait_for_followers, LeaderPuts, LeaderSees,
        At, Put, segment, leader, followers, history, AllJoined
<1>1. Types'
    BY DEF Types, LeaderPlaces, FollowerPlaces
<1>2. Numbers'
    BY DEF Types, Numbers, Initialised, AllHere, Joined, Numbered, FollowerActs, number
<1>3. Turns'
    BY DEF Types, Turns, FollowerActs, number
<1>4. Round' /\ Leaving'
    BY DEF Types, Round, Leaving, Joined, Numbered, number
<1> QED BY <1>1, <1>2, <1>3, <1>4

LEMMA LeaderKeeps ==
    ASSUME Good,
           \/ AwaitTurn \/ WriteNumber \/ GiveTurn \/ AwaitRound \/ NewSum \/ RepeatedSum
           \/ Terminate \/ AwaitLeaving \/ cleanup
    PROVE  Good'
<1> USE SlotFacts DEF Good, AwaitTurn, WriteNumber, GiveTurn, AwaitRound, NewSum,
        RepeatedSum, Terminate, AwaitLeaving, cleanup, LeaderPuts, LeaderSees,
        At, Put, segment, leader, followers, history
<1>1. Types'
    BY GameAssumption DEF Types, LeaderPlaces, FollowerPlaces
<1>2. Numbers'
    BY DEF Types, Numbers, Initialised, AllHere, Joined, Numbered, FollowerActs, number
<1>3. Turns'
    BY DEF Types, Numbers, Turns, FollowerActs, Joined, Numbered, number
<1>4. Round'
  <2>1. CASE GiveTurn
    <3>1. /\ lpc' = "round" /\ M'[2] = 1 /\ written' = {3}
          /\ \A f \in Follower : fpc'[f] # "pass"
        BY <2>1 DEF Types, Turns, Round, FollowerActs
    <3>2. {3} = 3 .. 2 + M'[2]
        BY <3>1
    <3> QED BY <3>1, <3>2 DEF Round
  <2>2. CASE WriteNumber
    BY <2>2 DEF Round
  <2>3. CASE ~GiveTurn /\ ~WriteNumber
    <3>1. CASE Terminate
        BY <3>1 DEF Round
    <3>2. CASE ~Terminate
        <4>1. M' = M /\ lpc' \notin {"pass", "round"}
            BY <2>3, <3>2
        <4> QED BY <2>3, <3>2, <4>1 DEF Round
    <3> QED BY <3>1, <3>2
  <2> QED BY <2>1, <2>2, <2>3
<1>5. Leaving'
    BY DEF Types, Numbers, Turns, Leaving, Joined, Numbered, number
<1> QED BY <1>1, <1>2, <1>3, <1>4, <1>5

-----------------------------------------------------------------------------
(* A follower that has no turn leaves M alone but for the count. *)
LEMMA AttachKeeps ==
    ASSUME Good, NEW f \in Follower, Attach(f) \/ LoadCount(f)
    PROVE  Good'
<1> USE SlotFacts DEF Good, Attach, LoadCount, Goes, segment, leader, followers, history
<1>1. /\ M' = M /\ lpc' = lpc /\ written' = written /\ follower_num' = follower_num
      /\ fpc[f] \notin {"pass", "poll"} /\ ~Joined(f) /\ ~FollowerActs(f)
    BY DEF Joined, Numbered, FollowerActs
<1>2. /\ fpc' \in [Follower -> FollowerPlaces] /\ loaded' \in [Follower -> Int]
      /\ fpc'[f] \in {"no_leader", "load", "store"}
      /\ \A g \in Follower : g # f => fpc'[g] = fpc[g] /\ loaded'[g] = loaded[g]
    BY DEF Types, FollowerPlaces
<1>3. /\ ~Joined(f)' /\ ~Numbered(f)' /\ ~FollowerActs(f)' /\ fpc'[f] # "poll"
      /\ \A g \in Follower : g # f =>
            /\ number(g)' = number(g)
            /\ Joined(g)' <=> Joined(g)
            /\ Numbered(g)' <=> Numbered(g)
            /\ FollowerActs(g)' <=> FollowerActs(g)
    BY <1>1, <1>2 DEF Joined, Numbered, FollowerActs, number
<1>4. Types'
    BY <1>1, <1>2 DEF Types
<1>5. Numbers'
    BY <1>1, <1>2, <1>3 DEF Numbers, Initialised, AllHere, Joined
<1>6. Turns'
    BY <1>1, <1>2, <1>3 DEF Turns
<1>7. Round'
    BY <1>1, <1>2 DEF Round
<1>8. Leaving'
    BY <1>1, <1>2, <1>3 DEF Leaving
<1> QED BY <1>4, <1>5, <1>6, <1>7, <1>8

(* A count that is stored undisturbed is the next number. *)
LEMMA StoreKeeps ==
    ASSUME Good, NEW f \in Follower, StoreCount(f), undisturbed'
    PROVE  Good'
<1> USE SlotFacts DEF Good, StoreCount, Put, Goes, segment, leader, followers, history
<1>1. /\ lpc' = lpc /\ written' = written /\ follower_num' = follower_num
      /\ loaded' = loaded /\ fpc[f] = "store" /\ ~Joined(f) /\ ~FollowerActs(f)
      /\ Initialised
    BY DEF Joined, Numbered, FollowerActs
<1>2. /\ fpc' \in [Follower -> FollowerPlaces] /\ fpc'[f] = "reload"
      /\ \A g \in Follower : g # f => fpc'[g] = fpc[g]
    BY DEF Types, FollowerPlaces
<1>3. /\ M' \in [Slot -> Int] /\ M'[1] = M[1] + 1 /\ M[1] \in Nat /\ number(f) = M[1] + 1
      /\ M'[0] = M[0] /\ M'[2] = M[2]
  <2>1. M[1] = loaded[f]
    OBVIOUS
  <2>2. M' = [M EXCEPT ![1] = loaded[f] + 1]
    OBVIOUS
  <2> QED BY <2>1, <2>2, SlotFacts DEF Types, number
<1>4. /\ Joined(f)' /\ ~Numbered(f)' /\ ~FollowerActs(f)' /\ number(f)' = number(f)
      /\ fpc'[f] \notin {"poll", "gone", "pass"}
      /\ \A g \in Follower : number(g)' = number(g)
      /\ \A g \in Follower : g # f =>
            /\ Joined(g)' <=> Joined(g)
            /\ Numbered(g)' <=> Numbered(g)
            /\ FollowerActs(g)' <=> FollowerActs(g)
    BY <1>1, <1>2 DEF Joined, Numbered, FollowerActs, number
<1>5. Types'
    BY <1>1, <1>2, <1>3 DEF Types
<1>6. Numbers'
  <2>1. \A g \in Follower : Joined(g) => number(g) \in Int /\ number(g) < number(f)
    BY <1>3 DEF Numbers
  <2>2. \A g \in Follower : Joined(g)' => Initialised' /\ number(g)' \in 1 .. M'[1]
    BY <1>1, <1>3, <1>4 DEF Numbers, Initialised
  <2>3. \A g, h \in Follower :
          Joined(g)' /\ Joined(h)' /\ number(g)' = number(h)' => g = h
    BY <1>3, <1>4, <2>1 DEF Numbers
  <2> QED BY <1>1, <1>2, <1>3, <1>4, <2>2, <2>3 DEF Numbers, AllHere
<1>7. Turns'
    BY <1>1, <1>2, <1>3, <1>4 DEF Turns
<1>8. Round'
    BY <1>1, <1>2, <1>3 DEF Round
<1>9. Leaving'
  <2>1. lpc \in {"leaving", "cleanup", "done"} => number(f) > n
    BY <1>3 DEF Numbers, AllHere
  <2> QED BY <1>1, <1>2, <1>3, <1>4, <2>1 DEF Leaving
<1> QED BY <1>5, <1>6, <1>7, <1>8, <1>9

(* The number taken is the one just counted, and only numbers in 1 .. n are let in. *)
LEMMA AdmitKeeps ==
    ASSUME Good, NEW f \in Follower, TakeNumber(f) \/ Admit(f), undisturbed'
    PROVE  Good'
<1> USE SlotFacts DEF Good, TakeNumber, Admit, Looks, Goes, segment, leader, followers, history
<1>1. /\ lpc' = lpc /\ written' = written /\ M' = M /\ loaded' = loaded
      /\ fpc[f] \in {"reload", "admit"} /\ Joined(f) /\ ~FollowerActs(f)
    BY DEF Joined, Numbered, FollowerActs
<1>2. /\ fpc' \in [Follower -> FollowerPlaces] /\ fpc'[f] \in {"admit", "poll", "gone"}
      /\ follower_num' \in [Follower -> Int]
      /\ \A g \in Follower : g # f => fpc'[g] = fpc[g] /\ follower_num'[g] = follower_num[g]
    BY DEF Types, FollowerPlaces
<1>3. follower_num'[f] = number(f)
    BY DEF Types, Numbers, Numbered, number
<1>4. /\ fpc'[f] = "poll" => number(f) <= n
      /\ fpc'[f] = "gone" => number(f) > n
  <2>1. Initialised /\ M[0] = n /\ number(f) \in Int
    BY <1>1 DEF Numbers, Initialised
  <2>2. CASE fpc[f] = "reload"
    BY <2>2 DEF Types
  <2>3. CASE fpc[f] = "admit"
    <3>1. follower_num[f] = number(f)
        BY <2>3 DEF Numbers, Numbered
    <3> QED BY <2>1, <2>3, <3>1 DEF Types
  <2> QED BY <1>1, <2>2, <2>3
<1>5. /\ Joined(f)' /\ Numbered(f)' /\ ~FollowerActs(f)' /\ fpc'[f] # "pass"
      /\ \A g \in Follower : number(g)' = number(g)
      /\ \A g \in Follower : g # f =>
            /\ Joined(g)' <=> Joined(g)
            /\ Numbered(g)' <=> Numbered(g)
            /\ FollowerActs(g)' <=> FollowerActs(g)
    BY <1>1, <1>2 DEF Joined, Numbered, FollowerActs, number
<1>6. Types'
    BY <1>1, <1>2 DEF Types
<1>7. Numbers'
    BY <1>1, <1>2, <1>3, <1>4, <1>5 DEF Numbers, Initialised, AllHere
<1>8. Turns'
    BY <1>1, <1>2, <1>5 DEF Turns
<1>9. Round'
    BY <1>1, <1>2 DEF Round
<1>10. Leaving'
  <2>1. number(f) <= n =>
          /\ fpc'[f] = "gone" => FALSE
          /\ fpc[f] # "gone"
    BY <1>1, <1>4 DEF Numbers
  <2> QED BY <1>1, <1>2, <1>5, <2>1 DEF Leaving
<1> QED BY <1>6, <1>7, <1>8, <1>9, <1>10

-----------------------------------------------------------------------------
(* The follower that acts is the one whose number M[2] shows. *)
LEMMA WhoActs ==
    ASSUME Good, NEW f \in Follower, FollowerActs(f)
    PROVE  /\ Joined(f) /\ Numbered(f) /\ Initialised /\ M[0] = n
           /\ number(f) \in 1 .. n /\ follower_num[f] = number(f)
           /\ \/ lpc = "round" /\ M[2] = number(f) /\ fpc[f] # "leave"
              \/ lpc = "leaving" /\ M[2] = -number(f) /\ fpc[f] \in {"turn", "leave"}
           /\ \A g \in Follower : FollowerActs(g) => g = f
<1> USE SlotFacts DEF Good
<1>1. /\ Joined(f) /\ Numbered(f)
      /\ \A g \in Follower : FollowerActs(g) => Joined(g)
    BY DEF FollowerActs, Numbered, Joined
<1>2. /\ Initialised /\ M[0] = n /\ number(f) \in 1 .. n /\ follower_num[f] = number(f)
    BY <1>1 DEF Numbers, Initialised
<1>3. lpc \in {"round", "leaving"} /\ M[2] \in Int
    BY DEF Turns, Types
<1>4. \/ lpc = "round" /\ M[2] = number(f) /\ fpc[f] # "leave"
      \/ lpc = "leaving" /\ M[2] = -number(f) /\ fpc[f] \in {"turn", "leave"}
    BY <1>2, <1>3 DEF Turns
<1>5. \A g \in Follower : FollowerActs(g) => number(g) = number(f)
    BY <1>4 DEF Turns
<1> QED BY <1>1, <1>2, <1>4, <1>5 DEF Numbers

(* What the state of the others is after a step of f from one place where it *)
(* is numbered to another.                                                   *)
LEMMA OthersStay ==
    ASSUME Good, NEW f \in Follower, NEW to \in {"poll", "turn", "write", "pass", "leave", "gone"},
           fpc[f] = "poll" \/ FollowerActs(f), fpc' = [fpc EXCEPT ![f] = to],
           loaded' = loaded, follower_num' = follower_num
    PROVE  /\ fpc' \in [Follower -> FollowerPlaces] /\ fpc'[f] = to
           /\ \A g \in Follower : g # f => fpc'[g] = fpc[g]
           /\ \A g \in Follower :
                 /\ Joined(g)' <=> Joined(g)
                 /\ Numbered(g)' <=> Numbered(g)
                 /\ number(g)' = number(g)
           /\ \A g \in Follower : g # f => (FollowerActs(g)' <=> FollowerActs(g))
           /\ FollowerActs(f)' <=> to \in {"turn", "write", "pass", "leave"}
           /\ Joined(f) /\ Numbered(f) /\ follower_num[f] = number(f) /\ number(f) \in 1 .. n
<1>1. /\ fpc' \in [Follower -> FollowerPlaces] /\ fpc'[f] = to
      /\ \A g \in Follower : g # f => fpc'[g] = fpc[g]
    BY DEF Good, Types, FollowerPlaces
<1>2. Joined(f) /\ Numbered(f) /\ Joined(f)' /\ Numbered(f)'
    BY <1>1 DEF FollowerActs, Joined, Numbered
<1>3. \A g \in Follower :
          /\ Joined(g)' <=> Joined(g)
          /\ Numbered(g)' <=> Numbered(g)
          /\ number(g)' = number(g)
    BY <1>1, <1>2 DEF Joined, Numbered, number
<1>4. /\ \A g \in Follower : g # f => (FollowerActs(g)' <=> FollowerActs(g))
      /\ FollowerActs(f)' <=> to \in {"turn", "write", "pass", "leave"}
    BY <1>1 DEF FollowerActs
<1>5. follower_num[f] = number(f) /\ number(f) \in 1 .. n
    BY <1>2 DEF Good, Numbers
<1> QED BY <1>1, <1>2, <1>3, <1>4, <1>5

(* A follower turns to act on M only when M[2] shows its number, and leaves *)
(* only when it shows it negated.                                           *)
LEMMA PollKeeps ==
    ASSUME Good, NEW f \in Follower, Poll(f) \/ CheckTurn(f)
    PROVE  Good'
<1> USE SlotFacts DEF Good, Poll, CheckTurn, Looks, Goes, segment, leader, followers, history
<1>1. /\ lpc' = lpc /\ written' = written /\ M' = M /\ loaded' = loaded
      /\ follower_num' = follower_num /\ fpc[f] \in {"poll", "turn"}
      /\ fpc[f] = "turn" => FollowerActs(f)
    BY DEF FollowerActs
<1>2. PICK to \in {"turn", "write", "leave"} : fpc' = [fpc EXCEPT ![f] = to]
    OBVIOUS
<1>3. /\ fpc' \in [Follower -> FollowerPlaces] /\ fpc'[f] = to
      /\ \A g \in Follower : g # f => fpc'[g] = fpc[g]
      /\ \A g \in Follower :
            /\ Joined(g)' <=> Joined(g)
            /\ Numbered(g)' <=> Numbered(g)
            /\ number(g)' = number(g)
      /\ \A g \in Follower : g # f => (FollowerActs(g)' <=> FollowerActs(g))
      /\ Joined(f) /\ follower_num[f] = number(f) /\ number(f) \in 1 .. n
    BY <1>1, <1>2, OthersStay
<1>4. /\ lpc = "round" => M[2] = number(f) /\ to # "leave"
      /\ lpc = "leaving" => M[2] = -number(f) /\ to # "write"
      /\ lpc \in {"round", "leaving"}
  <2>1. CASE Poll(f)
    <3>1. M[2] \in {number(f), -number(f)} /\ M[2] # 0 /\ M[2] \in Int /\ to = "turn"
        BY <2>1, <1>2, <1>3 DEF MyTurn, Types
    <3> QED BY <1>3, <3>1 DEF Turns
  <2>2. CASE CheckTurn(f)
    <3>1. /\ lpc = "round" => M[2] = number(f)
          /\ lpc = "leaving" => M[2] = -number(f)
          /\ lpc \in {"round", "leaving"}
        BY <1>1, <2>2, WhoActs
    <3>2. to = IF M[2] = -number(f) THEN "leave" ELSE "write"
        BY <1>2, <1>3, <2>2 DEF Types
    <3> QED BY <1>3, <3>1, <3>2
  <2> QED BY <2>1, <2>2
<1>5. Types'
    BY <1>1, <1>3 DEF Types
<1>6. Numbers'
    BY <1>1, <1>3 DEF Numbers, Initialised, AllHere
<1>7. Turns'
    BY <1>1, <1>3, <1>4 DEF Turns
<1>8. Round'
    BY <1>1, <1>3 DEF Round
<1>9. Leaving'
    BY <1>1, <1>3, <1>4 DEF Leaving
<1> QED BY <1>5, <1>6, <1>7, <1>8, <1>9

(* The digit of the follower whose turn it is follows those already written. *)
LEMMA WriteKeeps ==
    ASSUME Good, NEW f \in Follower, WriteDigit(f)
    PROVE  Good'
<1> USE SlotFacts DEF Good, WriteDigit, Goes, segment, leader, followers, history
<1> DEFINE k == number(f)
<1>1. /\ lpc' = lpc /\ loaded' = loaded /\ follower_num' = follower_num
      /\ fpc[f] = "write" /\ FollowerActs(f) /\ written' = written \cup {3 + follower_num[f]}
    BY DEF FollowerActs
<1>2. /\ M[0] = n /\ k \in 1 .. n /\ follower_num[f] = k
      /\ lpc = "round" /\ M[2] = k
      /\ \A g \in Follower : FollowerActs(g) => g = f
    BY <1>1, WhoActs
<1>3. /\ fpc' \in [Follower -> FollowerPlaces] /\ fpc'[f] = "pass"
      /\ \A g \in Follower : g # f => fpc'[g] = fpc[g]
      /\ \A g \in Follower :
            /\ Joined(g)' <=> Joined(g)
            /\ Numbered(g)' <=> Numbered(g)
            /\ number(g)' = number(g)
      /\ \A g \in Follower : FollowerActs(g)' <=> FollowerActs(g)
    BY <1>1, OthersStay
<1>4. M' \in [Slot -> Int] /\ M'[0] = M[0] /\ M'[1] = M[1] /\ M'[2] = M[2]
    BY <1>2, GameAssumption DEF Put, Types
<1>5. Types'
    BY <1>1, <1>3, <1>4 DEF Types
<1>6. Numbers'
    BY <1>1, <1>3, <1>4 DEF Numbers, Initialised, AllHere, FollowerActs
<1>7. Turns'
    BY <1>1, <1>2, <1>3, <1>4 DEF Turns
<1>8. Round'
  <2>1. written = 3 .. 2 + k
    BY <1>1, <1>2 DEF Round, FollowerActs
  <2>2. written' = 3 .. 3 + k
    BY <1>1, <1>2, <2>1
  <2> QED BY <1>1, <1>2, <1>3, <1>4, <2>2 DEF Round
<1>9. Leaving'
    BY <1>1, <1>2, <1>3, <1>4 DEF Leaving
<1> QED BY <1>5, <1>6, <1>7, <1>8, <1>9

(* The turn goes on to the next number, and from the last to the leader. *)
LEMMA PassKeeps ==
    ASSUME Good, NEW f \in Follower, PassTurn(f)
    PROVE  Good'
<1> USE SlotFacts DEF Good, PassTurn, Goes, segment, leader, followers, history
<1> DEFINE k == number(f)
<1>1. /\ lpc' = lpc /\ loaded' = loaded /\ follower_num' = follower_num
      /\ fpc[f] = "pass" /\ FollowerActs(f) /\ written' = written
    BY DEF FollowerActs
<1>2. /\ M[0] = n /\ k \in 1 .. n /\ follower_num[f] = k
      /\ lpc = "round" /\ M[2] = k
      /\ \A g \in Follower : FollowerActs(g) => g = f
    BY <1>1, WhoActs
<1>3. /\ fpc' \in [Follower -> FollowerPlaces] /\ fpc'[f] = "poll"
      /\ \A g \in Follower : g # f => fpc'[g] = fpc[g]
      /\ \A g \in Follower :
            /\ Joined(g)' <=> Joined(g)
            /\ Numbered(g)' <=> Numbered(g)
            /\ number(g)' = number(g)
      /\ \A g \in Follower : ~FollowerActs(g)'
  <2>1. ~FollowerActs(f)'
    BY <1>1, OthersStay
  <2> QED BY <1>1, <1>2, <2>1, OthersStay
<1>4. /\ M' \in [Slot -> Int] /\ M'[0] = M[0] /\ M'[1] = M[1]
      /\ M'[2] = IF k = n THEN 0 ELSE k + 1
    BY <1>2 DEF Put, Types, NextTurn
<1>5. Types'
    BY <1>1, <1>3, <1>4 DEF Types
<1>6. Numbers'
    BY <1>1, <1>2, <1>3, <1>4 DEF Numbers, Initialised, AllHere
<1>7. Turns'
    BY <1>1, <1>2, <1>3, <1>4 DEF Turns
<1>8. Round'
  <2>1. written = 3 .. 3 + k
    BY <1>1, <1>2 DEF Round
  <2>2. \A g \in Follower : fpc'[g] # "pass"
    BY <1>3 DEF FollowerActs
  <2>3. M'[2] # 0 => 2 + M'[2] = 3 + k
    BY <1>2, <1>4
  <2>4. M'[2] = 0 => k = n
    BY <1>2, <1>4
  <2> QED BY <1>1, <1>2, <2>1, <2>2, <2>3, <2>4 DEF Round
<1>9. Leaving'
    BY <1>1, <1>2, <1>3, <1>4 DEF Leaving
<1> QED BY <1>5, <1>6, <1>7, <1>8, <1>9

(* The next to leave is the next number; after the last comes the leader. *)
LEMMA LeaveKeeps ==
    ASSUME Good, NEW f \in Follower, Leave(f)
    PROVE  Good'
<1> USE SlotFacts DEF Good, Leave, Goes, segment, leader, followers, history
<1> DEFINE k == number(f)
<1>1. /\ lpc' = lpc /\ loaded' = loaded /\ follower_num' = follower_num
      /\ fpc[f] = "leave" /\ FollowerActs(f) /\ written' = written
    BY DEF FollowerActs
<1>2. /\ M[0] = n /\ k \in 1 .. n /\ follower_num[f] = k
      /\ lpc = "leaving" /\ M[2] = -k
      /\ \A g \in Follower : FollowerActs(g) => g = f
    BY <1>1, WhoActs
<1>3. /\ fpc' \in [Follower -> FollowerPlaces] /\ fpc'[f] = "gone"
      /\ \A g \in Follower : g # f => fpc'[g] = fpc[g]
      /\ \A g \in Follower :
            /\ Joined(g)' <=> Joined(g)
            /\ Numbered(g)' <=> Numbered(g)
            /\ number(g)' = number(g)
      /\ \A g \in Follower : ~FollowerActs(g)'
      /\ Joined(f)
  <2>1. ~FollowerActs(f)'
    BY <1>1, OthersStay
  <2> QED BY <1>1, <1>2, <2>1, OthersStay
<1>4. /\ M' \in [Slot -> Int] /\ M'[0] = M[0] /\ M'[1] = M[1]
      /\ M'[2] = IF k = n THEN 0 ELSE -(k + 1)
    BY <1>2 DEF Put, Types, NextToLeave
<1>5. Types'
    BY <1>1, <1>3, <1>4 DEF Types
<1>6. Numbers'
    BY <1>1, <1>2, <1>3, <1>4 DEF Numbers, Initialised, AllHere
<1>7. Turns'
    BY <1>1, <1>2, <1>3, <1>4 DEF Turns
<1>8. Round'
    BY <1>1, <1>2 DEF Round
<1>9. Leaving'
  <2>1. \A g \in Follower : Joined(g) /\ g # f => number(g) \in Int /\ number(g) # k
    BY <1>3 DEF Numbers
  <2>2. ASSUME NEW g \in Follower, Joined(g), number(g) <= n,
               M'[2] = 0 \/ number(g) < -M'[2]
        PROVE  fpc'[g] = "gone"
    <3>1. CASE g = f
        BY <1>3, <3>1
    <3>2. CASE g # f
        <4>1. number(g) < k
            BY <1>2, <1>4, <2>1, <2>2, <3>2
        <4> QED BY <1>2, <1>3, <2>2, <3>2, <4>1 DEF Leaving
    <3> QED BY <3>1, <3>2
  <2> QED BY <1>1, <1>2, <1>3, <2>2 DEF Leaving
<1> QED BY <1>5, <1>6, <1>7, <1>8, <1>9

-----------------------------------------------------------------------------
LEMMA NextIInv == IInv /\ [Next]_vars => IInv'
<1> SUFFICES ASSUME IInv, [Next]_vars PROVE IInv'
    OBVIOUS
<1>1. CASE UNCHANGED vars
  <2> USE <1>1 DEF vars, segment, leader, followers, history
  <2>1. Good => Good'
    <3>1. Types' = Types /\ Numbers' = Numbers
        BY DEF Types, Numbers, Initialised, AllHere, Joined, Numbered, number, FollowerActs
    <3>2. Turns' = Turns /\ Round' = Round /\ Leaving' = Leaving
        BY DEF Turns, Round, Leaving, Joined, Numbered, number, FollowerActs
    <3> QED BY <3>1, <3>2 DEF Good
  <2> QED BY <2>1 DEF IInv
<1>2. CASE Leader
  <2>1. undisturbed' = undisturbed
    BY <1>2 DEF Leader, Create, InitM, wait_for_followers, AwaitTurn, WriteNumber, GiveTurn,
        AwaitRound, NewSum, RepeatedSum, Terminate, AwaitLeaving, cleanup, LeaderSees, history
  <2>2. Good => Good'
    BY <1>2, SetUpKeeps, LeaderKeeps DEF Leader
  <2> QED BY <2>1, <2>2 DEF IInv
<1>3. ASSUME NEW f \in Follower, Attach(f) \/ Runs(f)
      PROVE  IInv'
  <2>1. undisturbed' \in BOOLEAN /\ (undisturbed' => undisturbed)
    <3>1. CASE StoreCount(f)
        BY <3>1, Zenon DEF IInv, StoreCount
    <3>2. CASE TakeNumber(f)
        BY <3>2, Zenon DEF IInv, TakeNumber
    <3>3. CASE ~StoreCount(f) /\ ~TakeNumber(f)
        <4>1. undisturbed' = undisturbed
            BY <1>3, <3>3 DEF Attach, Runs, LoadCount, Admit, Poll, CheckTurn, WriteDigit,
                PassTurn, Leave, Looks, history
        <4> QED BY <4>1 DEF IInv
    <3> QED BY <3>1, <3>2, <3>3
  <2>2. Good /\ undisturbed' => Good'
    BY <1>3, AttachKeeps, StoreKeeps, AdmitKeeps, PollKeeps, WriteKeeps, PassKeeps, LeaveKeeps
    DEF Runs
  <2> QED BY <2>1, <2>2 DEF IInv
<1> QED BY <1>1, <1>2, <1>3 DEF Next

LEMMA AlwaysIInv == Spec => []IInv
BY InitIInv, NextIInv, PTL DEF Spec

(* As long as the joins do not disturb each other, at most one process      *)
(* works on M on the strength of a turn, and the leader only between rounds *)
(* (leader.cpp:81-92 against follower.cpp:26-42).                           *)
THEOREM TurnCorrect == Spec => []OneTurn
<1>1. IInv => OneTurn
  <2> SUFFICES ASSUME Good PROVE OneTurn
    BY DEF IInv, OneTurn
  <2>1. \A f, g \in Follower : FollowerActs(f) /\ FollowerActs(g) => f = g
    BY WhoActs
  <2>2. \A f \in Follower : FollowerActs(f) => lpc \in {"round", "leaving"}
    BY WhoActs
  <2> QED BY <2>1, <2>2 DEF OneTurn
<1> QED BY <1>1, AlwaysIInv, PTL

(* As long as joins do not disturb each other, what the leader adds up is    *)
(* its number and the digit of each of the n followers, all written in this  *)
(* round (leader.cpp:88-108).                                                *)
THEOREM SumCorrect == Spec => []SumOfThisRound
<1>1. IInv => SumOfThisRound
    BY DEF IInv, Good, Round, SumOfThisRound
<1> QED BY <1>1, AlwaysIInv, PTL

(* As long as joins do not disturb each other, no admitted follower is gone  *)
(* before the leader has dismissed them, and the segment is removed after    *)
(* the last of them (leader.cpp:117-138).                                    *)
THEOREM LeaveCorrect == Spec => []LeavesInTime
<1>1. IInv => LeavesInTime
  <2> SUFFICES ASSUME Good PROVE LeavesInTime
    BY DEF IInv, LeavesInTime
  <2>1. ASSUME NEW f \in Follower, fpc[f] = "gone", follower_num[f] \in 1 .. n
        PROVE  lpc \in {"leaving", "cleanup", "done"}
    <3>1. Joined(f) /\ Numbered(f)
        BY <2>1 DEF Joined, Numbered
    <3> QED BY <2>1, <3>1 DEF Good, Numbers, Leaving
  <2>2. ASSUME NEW f \in Follower, lpc \in {"cleanup", "done"}, Numbered(f)
        PROVE  fpc[f] \in {"admit", "gone"}
    <3>1. Joined(f)
        BY <2>2 DEF Joined
    <3> QED BY <2>2, <3>1 DEF Good, Numbers, Leaving, Numbered, FollowerActs
  <2> QED BY <2>1, <2>2 DEF LeavesInTime
<1> QED BY <1>1, AlwaysIInv, PTL
=============================================================================
