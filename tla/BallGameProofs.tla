---------------------------- MODULE BallGameProofs ----------------------------
(***************************************************************************)
(* In a game that starts when all children are ready, one signal at a time *)
(* is on its way: the ball, its answer, or the call to print a cell, which *)
(* goes down the line.  So a round is over when the parent takes it to be, *)
(* and the ball goes to a child that plays, for any number of children.    *)
(***************************************************************************)
EXTENDS BallGame, FiniteSetTheorems, WellFoundedInduction, TLAPS

Signals == {"USR1", "USR2", "INT"}
Players == {c \in Child : child_status[c] = 1}

(* c and the parent agree on whether c plays, and c has printed its last catch. *)
Settled(c) ==
    /\ playing[c] = child_status[c]
    /\ last_catch[c] = 0 \/ playing[c] = 0

Quiet(c) == pending[c] = {} /\ ~forwarding[c]

AllReady == \A c \in Child : phase[c] = "ready"

NoAnswer == answers = {} /\ flag = 0

(* Nothing has happened yet. *)
BeforeGame ==
    /\ child_status = [c \in Child |-> 1] /\ playing = [c \in Child |-> 1]
    /\ last_catch = [c \in Child |-> 0]
    /\ pending = [c \in Child |-> {}] /\ forwarding = [c \in Child |-> FALSE]
    /\ phase \in [Child -> {"forked", "execed", "asleep", "alone", "ready"}]
    /\ NoAnswer /\ curr_child = 0 /\ remaining = n /\ dummy = "none"

Board ==
    /\ child_status \in [Child -> {0, 1}] /\ playing \in [Child -> {0, 1}]
    /\ last_catch \in [Child -> {-1, 0, 1}]
    /\ pending \in [Child -> SUBSET Signals] /\ forwarding \in [Child -> BOOLEAN]
    /\ phase \in [Child -> {"ready", "gone"}]
    /\ curr_child \in Child
    /\ remaining = Cardinality(Players)

(* Between two rounds, and when children are sent home. *)
BetweenRounds ==
    /\ NoAnswer /\ dummy = "none"
    /\ \A c \in Child : Settled(c) /\ ~forwarding[c] /\ pending[c] \subseteq {"INT"}
    /\ remaining > 1 =>
          /\ AllReady /\ child_status[curr_child] = 1
          /\ \A c \in Child : pending[c] = {}

BallTossed ==
    /\ pending[curr_child] = {"USR2"} /\ NoAnswer
    /\ last_catch[curr_child] = 0

AnswerSent ==
    /\ pending[curr_child] = {} /\ flag = 0
    /\ \/ answers = {"USR1"} /\ last_catch[curr_child] = 1
       \/ answers = {"USR2"} /\ last_catch[curr_child] = -1

AnswerHeard ==
    /\ pending[curr_child] = {} /\ flag = 1 /\ answers = {}
    /\ \/ catch_status = 1 /\ last_catch[curr_child] = 1
       \/ catch_status = 0 /\ last_catch[curr_child] = -1

(* The ball is with the current child, or its answer with the parent. *)
BallOut ==
    /\ AllReady /\ dummy = "running" /\ child_status[curr_child] = 1
    /\ \A c \in Child : playing[c] = child_status[c] /\ ~forwarding[c]
    /\ \A c \in Child \ {curr_child} : Settled(c) /\ Quiet(c)
    /\ BallTossed \/ AnswerSent \/ AnswerHeard

(* The call to print is at child k, or behind the last one.  The current    *)
(* child learns its state when it prints its cell.                          *)
LineAt(k) ==
    /\ dummy = IF k = n THEN "killed" ELSE "running"
    /\ \A c \in Child : c # k => Quiet(c)
    /\ k # n => pending[k] = IF forwarding[k] THEN {} ELSE {"USR1"}
    /\ \A c \in Child : c # curr_child => Settled(c)
    /\ IF curr_child < k \/ (curr_child = k /\ forwarding[k])
       THEN Settled(curr_child)
       ELSE /\ playing[curr_child] = 1
            /\ \/ last_catch[curr_child] = 1 /\ child_status[curr_child] = 1
               \/ last_catch[curr_child] = -1 /\ child_status[curr_child] = 0

Lines == AllReady /\ NoAnswer /\ \E k \in 0 .. n : LineAt(k)

Game ==
    /\ Board
    /\ ppc \in {"game", "waiting", "printing", "done"}
    /\ ppc = "game" => BetweenRounds
    /\ ppc = "waiting" => BallOut
    /\ ppc = "printing" => Lines

Before == ppc \in {"listing", "sleep"} => BeforeGame /\ on_time = FALSE

IInv == on_time \in BOOLEAN /\ Before /\ (on_time => Game)
-----------------------------------------------------------------------------
LEMMA LeastNatural ==
    ASSUME NEW T, T \subseteq Nat, T # {}
    PROVE  \E m \in T : \A k \in T : m <= k
<1>1. IsWellFoundedOn(OpToRel(<, Nat), Nat)
    BY NatLessThanWellFounded
<1>2. ASSUME NEW R, IsWellFoundedOn(R, Nat)
      PROVE  \E m \in T : \A k \in T : ~(<<k, m>> \in R)
    BY <1>2, WFMin
<1>3. PICK m \in T : \A k \in T : ~(<<k, m>> \in OpToRel(<, Nat))
    BY <1>1, <1>2, Zenon
<1>4. \A k, j \in Nat : k < j => <<k, j>> \in OpToRel(<, Nat)
    BY DEF OpToRel
<1>5. \A k \in T : ~(k < m)
    BY <1>3, <1>4, Zenon
<1> HIDE <1>1, <1>3, <1>4
<1> QED BY <1>5

LEMMA ChildFacts ==
    /\ n \in Nat /\ n > 0 /\ 0 \in Child /\ Child \subseteq Nat
    /\ IsFiniteSet(Child) /\ Cardinality(Child) = n
<1>1. n \in Nat /\ n > 0 /\ 0 \in Child /\ Child \subseteq Nat
    BY ChildrenAssumption DEF Child
<1>2. IsFiniteSet(Child) /\ Cardinality(Child) = n
    BY <1>1, FS_Interval DEF Child
<1> QED BY <1>1, <1>2

(* Going round from any child, every child is reached. *)
LEMMA RoundReachesAll ==
    ASSUME NEW current \in Child, NEW c \in Child
    PROVE  \E k \in 1 .. n : (current + k) % n = c
<1> USE ChildrenAssumption DEF Child
<1>1. CASE c > current
    <2>1. c - current \in 1 .. n /\ current + (c - current) = c
        BY <1>1
    <2>2. c % n = c
        OBVIOUS
    <2> QED BY <2>1, <2>2
<1>2. CASE c <= current
    <2>1. c + n - current \in 1 .. n /\ current + (c + n - current) = c + n
        BY <1>2
    <2>2. (c + n) % n = c
        OBVIOUS
    <2> QED BY <2>1, <2>2
<1> QED BY <1>1, <1>2

(* The next player is a child that plays, as long as one does. *)
LEMMA NextPlayer ==
    ASSUME child_status \in [Child -> {0, 1}], NEW current \in Child, Players # {}
    PROVE  /\ find_next_player(current) \in Child
           /\ child_status[find_next_player(current)] = 1
<1> DEFINE after(k) == (current + k) % n
           T == {k \in 1 .. n : child_status[after(k)] = 1}
           First(k) == /\ child_status[after(k)] = 1
                       /\ \A j \in 1 .. k - 1 : child_status[after(j)] = 0
<1>1. \A k \in 1 .. n : after(k) \in Child
    BY ChildrenAssumption DEF Child
<1>2. T # {} /\ T \subseteq Nat
    BY RoundReachesAll, ChildrenAssumption DEF Players
<1>3. PICK k \in T : \A j \in T : k <= j
    BY <1>2, LeastNatural
<1>4. First(k)
    <2>1. \A j \in 1 .. k - 1 : j \in 1 .. n /\ j \notin T
        BY <1>3, ChildrenAssumption
    <2>2. \A j \in 1 .. k - 1 : child_status[after(j)] = 0
        BY <1>1, <2>1
    <2> QED BY <2>2
<1>5. \E j \in 1 .. n : First(j)
    BY <1>4
<1> DEFINE chosen == CHOOSE j \in 1 .. n : First(j)
<1>6. chosen \in 1 .. n /\ First(chosen)
    BY <1>5
<1>7. find_next_player(current) = after(chosen)
    BY DEF find_next_player
<1> QED BY <1>1, <1>6, <1>7
-----------------------------------------------------------------------------
LEMMA InitIInv == Init => IInv
BY ChildFacts DEF Init, IInv, Before, BeforeGame, NoAnswer

(* The children get ready, and the parent starts. *)
LEMMA StartKeeps ==
    ASSUME IInv, ppc \in {"listing", "sleep"}, Next
    PROVE  IInv'
<1> USE ChildFacts
<1>1. BeforeGame /\ on_time = FALSE
    BY DEF IInv, Before
<1>2. CASE CloseList
    BY <1>1, <1>2 DEF CloseList, IInv, Before, BeforeGame, NoAnswer, heard, children
<1>3. CASE StartGame
  <2>1. /\ ppc' = "game" /\ phase' = phase /\ on_time' = (\A c \in Child : phase[c] = "ready")
        /\ UNCHANGED <<child_status, curr_child, remaining, catch_status, flag, answers, dummy,
                       forwarding, playing, last_catch, pending>>
    BY <1>3 DEF StartGame, heard, children
  <2>2. on_time' \in BOOLEAN /\ (on_time' => AllReady)
    BY <2>1 DEF AllReady
  <2>3. ASSUME AllReady PROVE Board'
    <3>1. phase \in [Child -> {"ready", "gone"}]
        BY <1>1, <2>3 DEF AllReady, BeforeGame
    <3>2. Players' = Child
        BY <1>1, <2>1 DEF Players, BeforeGame
    <3> QED BY <1>1, <2>1, <3>1, <3>2 DEF Board, BeforeGame
  <2>4. ASSUME AllReady PROVE BetweenRounds'
    BY <1>1, <2>1, <2>4 DEF BetweenRounds, BeforeGame, NoAnswer, Settled, AllReady
  <2> QED BY <2>1, <2>2, <2>3, <2>4 DEF IInv, Game, Before
<1>4. ASSUME NEW c \in Child, GetReady(c)
      PROVE  IInv'
  <2>1. /\ phase' \in [Child -> {"forked", "execed", "asleep", "alone", "ready"}]
        /\ UNCHANGED <<ppc, child_status, curr_child, remaining, catch_status, flag, answers, dummy,
                       forwarding, playing, last_catch, pending, on_time>>
    BY <1>1, <1>4 DEF GetReady, Advance, BeforeGame, parent, heard
  <2> QED BY <1>1, <2>1 DEF IInv, Before, BeforeGame, NoAnswer
<1>5. Parent => CloseList \/ StartGame
    BY <1>1 DEF Parent, Toss, signal_handler, BookAnswer, EndRound, Return, Dismiss, BeforeGame,
        NoAnswer
<1>6. \A c \in Child : ChildStep(c) => GetReady(c)
    BY <1>1 DEF ChildStep, TakeUnprepared, Catch, Miss, Ball, PrintCell, Forward, Leave, Take,
        BeforeGame
<1> QED BY <1>2, <1>3, <1>4, <1>5, <1>6 DEF Next

-----------------------------------------------------------------------------
(* The steps of a round *)

LEMMA TossKeeps == Game /\ Toss => Game'
<1> SUFFICES ASSUME Game, Toss PROVE Game'
    OBVIOUS
<1> USE DEF parent, heard, children
<1>1. /\ ppc' = "waiting" /\ dummy' = "running" /\ curr_child \in Child
      /\ BetweenRounds /\ remaining > 1 /\ Board
      /\ pending' = [pending EXCEPT ![curr_child] = @ \cup {"USR2"}]
      /\ UNCHANGED <<child_status, curr_child, remaining, catch_status, flag, answers, phase,
                     forwarding, playing, last_catch>>
    BY DEF Game, Toss, Kill, Board
<1>2. Board'
    BY <1>1 DEF Board, Players, Signals
<1>3. /\ pending'[curr_child] = {"USR2"}
      /\ \A c \in Child \ {curr_child} : pending'[c] = {}
      /\ AllReady' /\ child_status[curr_child] = 1
    BY <1>1 DEF BetweenRounds, Board, AllReady
<1>4. \A c \in Child : Settled(c)' /\ ~forwarding'[c]
    BY <1>1 DEF BetweenRounds, Settled
<1>5. last_catch[curr_child] = 0
    BY <1>1, <1>3 DEF BetweenRounds, Settled
<1>6. BallOut'
    BY <1>1, <1>3, <1>4, <1>5 DEF BetweenRounds, BallOut, BallTossed, NoAnswer, Quiet, Settled
<1> QED BY <1>1, <1>2, <1>6 DEF Game

LEMMA AnswerKeeps ==
    ASSUME Game, NEW c \in Child, Catch(c) \/ Miss(c)
    PROVE  Game'
<1> USE DEF parent, heard
<1>1. PICK result \in {1, -1}, signal \in {"USR1", "USR2"} :
          /\ (result = 1 /\ signal = "USR1") \/ (result = -1 /\ signal = "USR2")
          /\ Ball(c, result, signal)
    BY DEF Catch, Miss
<1>2. /\ "USR2" \in pending[c] /\ pending' = [pending EXCEPT ![c] = @ \ {"USR2"}]
      /\ last_catch' = [last_catch EXCEPT ![c] = result]
      /\ answers' = answers \cup {signal}
      /\ UNCHANGED <<ppc, child_status, curr_child, remaining, catch_status, flag, dummy, phase,
                     forwarding, playing>>
    BY <1>1 DEF Ball, Take
<1>3. Board'
    BY <1>2 DEF Game, Board, Players, Signals
<1>4. ASSUME ppc # "done"
      PROVE  ppc = "waiting" /\ c = curr_child /\ BallTossed /\ BallOut
  <2>1. ppc # "game"
    BY <1>2 DEF Game, BetweenRounds
  <2>2. ppc # "printing"
    <3>1. c # n
        BY ChildFacts DEF Child
    <3>2. \A k \in 0 .. n : LineAt(k) => pending[c] \subseteq {"USR1"}
        BY <3>1 DEF LineAt, Quiet
    <3> QED BY <1>2, <3>2 DEF Game, Lines
  <2>3. ppc = "waiting" /\ BallOut
    BY <1>4, <2>1, <2>2 DEF Game
  <2>4. c = curr_child
    BY <1>2, <2>3 DEF BallOut, Quiet
  <2> QED BY <1>2, <2>3, <2>4 DEF BallOut, AnswerSent, AnswerHeard
<1>5. ASSUME ppc = "waiting" PROVE BallOut'
  <2>1. c = curr_child /\ BallTossed /\ BallOut /\ c \in Child
    BY <1>4, <1>5
  <2>2. /\ pending'[c] = {} /\ last_catch'[c] = result /\ answers' = {signal} /\ flag' = 0
        /\ \A d \in Child : d # c => pending'[d] = pending[d] /\ last_catch'[d] = last_catch[d]
    BY <1>2, <2>1 DEF BallTossed, NoAnswer, Game, Board
  <2>3. AnswerSent'
    BY <1>1, <1>2, <2>1, <2>2 DEF AnswerSent
  <2>4. \A d \in Child \ {curr_child} : Settled(d)' /\ Quiet(d)'
    BY <1>2, <2>1, <2>2 DEF BallOut, Settled, Quiet
  <2> QED BY <1>2, <2>1, <2>3, <2>4 DEF BallOut, AllReady
<1>6. ppc \in {"waiting", "done"}
    BY <1>4
<1> QED BY <1>2, <1>3, <1>5, <1>6 DEF Game

LEMMA HearKeeps == Game /\ signal_handler => Game'
<1> SUFFICES ASSUME Game, signal_handler PROVE Game'
    OBVIOUS
<1>1. PICK signal \in answers :
          /\ answers' = answers \ {signal} /\ flag' = 1
          /\ catch_status' = IF signal = "USR1" THEN 1 ELSE 0
          /\ UNCHANGED <<ppc, child_status, curr_child, remaining, dummy, phase, forwarding,
                         playing, last_catch, pending>>
    BY DEF signal_handler, parent, children
<1>2. Board'
    BY <1>1 DEF Game, Board, Players
<1>3. ppc \in {"waiting", "done"}
    BY <1>1 DEF Game, BetweenRounds, Lines, NoAnswer
<1>4. ASSUME ppc = "waiting" PROVE BallOut'
  <2>1. BallOut /\ AnswerSent
    BY <1>1, <1>4 DEF Game, BallOut, BallTossed, AnswerHeard, NoAnswer
  <2>2. AnswerHeard'
    BY <1>1, <2>1 DEF AnswerSent, AnswerHeard
  <2> QED BY <1>1, <2>1, <2>2 DEF BallOut, AllReady, Settled, Quiet
<1> QED BY <1>1, <1>2, <1>3, <1>4 DEF Game

LEMMA BookKeeps == Game /\ BookAnswer => Game'
<1> SUFFICES ASSUME Game, BookAnswer PROVE Game'
    OBVIOUS
<1> USE ChildFacts
<1>1. /\ ppc = "waiting" /\ ppc' = "printing" /\ flag' = 0
      /\ pending' = [pending EXCEPT ![0] = @ \cup {"USR1"}]
      /\ UNCHANGED <<curr_child, answers, dummy, phase, forwarding, playing, last_catch>>
    BY DEF BookAnswer, Kill, children
<1>2. BallOut /\ AnswerHeard /\ Board /\ curr_child \in Child
    BY <1>1 DEF Game, BallOut, BallTossed, AnswerSent, NoAnswer, BookAnswer, Board
<1>3. /\ \A c \in Child : pending[c] = {} /\ forwarding[c] = FALSE
      /\ pending \in [Child -> SUBSET Signals]
    BY <1>2 DEF BallOut, AnswerHeard, Quiet, Board
<1>4. pending'[0] = {"USR1"} /\ \A c \in Child : c # 0 => pending'[c] = {}
    BY <1>1, <1>3
<1>5. /\ child_status' \in [Child -> {0, 1}] /\ remaining' = Cardinality(Players')
      /\ \A c \in Child : c # curr_child => child_status'[c] = child_status[c]
      /\ \/ last_catch[curr_child] = 1 /\ child_status'[curr_child] = 1
         \/ last_catch[curr_child] = -1 /\ child_status'[curr_child] = 0
  <2>1. CASE catch_status = 0
    <3>1. /\ child_status' = [child_status EXCEPT ![curr_child] = 0]
          /\ remaining' = remaining - 1 /\ last_catch[curr_child] = -1
        BY <1>2, <2>1 DEF BookAnswer, AnswerHeard
    <3>2. Players' = Players \ {curr_child} /\ curr_child \in Players
        BY <1>2, <3>1 DEF Players, Board, BallOut
    <3>3. IsFiniteSet(Players)
        BY FS_Subset DEF Players
    <3>4. Cardinality(Players') = Cardinality(Players) - 1
        BY <3>2, <3>3, FS_RemoveElement
    <3> QED BY <1>2, <3>1, <3>4 DEF Board
  <2>2. CASE catch_status # 0
    <3>1. child_status' = child_status /\ remaining' = remaining /\ last_catch[curr_child] = 1
        BY <1>2, <2>2 DEF BookAnswer, AnswerHeard
    <3> QED BY <1>2, <3>1 DEF Board, Players, BallOut
  <2> QED BY <2>1, <2>2
<1>6. Board'
  <2>1. pending' \in [Child -> SUBSET Signals]
    BY <1>1, <1>3 DEF Signals
  <2> QED BY <1>1, <1>2, <1>5, <2>1 DEF Board
<1>7. LineAt(0)'
  <2>1. \A c \in Child : c # curr_child => Settled(c)'
    BY <1>1, <1>2, <1>5 DEF BallOut, Settled
  <2>2. \A c \in Child : c # 0 => Quiet(c)'
    BY <1>1, <1>3, <1>4 DEF Quiet
  <2>3. dummy' = "running" /\ playing'[curr_child] = 1 /\ forwarding'[0] = FALSE
        /\ ~(curr_child < 0) /\ 0 # n
    BY <1>1, <1>2, <1>3 DEF BallOut
  <2> QED BY <1>1, <1>4, <1>5, <2>1, <2>2, <2>3 DEF LineAt
<1>8. AllReady' /\ NoAnswer' /\ 0 \in 0 .. n
    BY <1>1, <1>2 DEF BallOut, AnswerHeard, AllReady, NoAnswer
<1> QED BY <1>1, <1>6, <1>7, <1>8 DEF Game, Lines

(* The call is with the child that prints its cell, and what it prints is   *)
(* what the parent has booked.                                              *)
LEMMA PrintKeeps ==
    ASSUME Game, NEW c \in Child, PrintCell(c)
    PROVE  Game'
<1>1. /\ "USR1" \in pending[c] /\ pending' = [pending EXCEPT ![c] = @ \ {"USR1"}]
      /\ ~forwarding[c] /\ forwarding' = [forwarding EXCEPT ![c] = TRUE] /\ print_status(c)
      /\ UNCHANGED <<ppc, child_status, curr_child, remaining, catch_status, flag, answers, dummy,
                     phase>>
    BY DEF PrintCell, Take, parent, heard
<1>2. /\ Board /\ pending' \in [Child -> SUBSET Signals] /\ forwarding' \in [Child -> BOOLEAN]
      /\ forwarding'[c] = TRUE /\ pending'[c] = pending[c] \ {"USR1"}
      /\ \A d \in Child : d # c => pending'[d] = pending[d] /\ forwarding'[d] = forwarding[d]
    BY <1>1 DEF Game, Board
<1>3. /\ playing' \in [Child -> {0, 1}] /\ last_catch' \in [Child -> {-1, 0, 1}]
      /\ \A d \in Child : d # c => playing'[d] = playing[d] /\ last_catch'[d] = last_catch[d]
      /\ playing[c] = 0 => playing'[c] = 0
      /\ playing[c] = 1 /\ last_catch[c] = 0 => playing'[c] = 1 /\ last_catch'[c] = 0
      /\ playing[c] = 1 /\ last_catch[c] = 1 => playing'[c] = 1 /\ last_catch'[c] = 0
      /\ playing[c] = 1 /\ last_catch[c] = -1 => playing'[c] = 0
    BY <1>1, <1>2 DEF print_status, Board
<1>4. Board'
    BY <1>1, <1>2, <1>3 DEF Board, Players
<1>5. ppc \in {"printing", "done"}
  <2>1. ppc # "game"
    BY <1>1 DEF Game, BetweenRounds
  <2>2. ppc # "waiting"
    BY <1>1 DEF Game, BallOut, Quiet, BallTossed, AnswerSent, AnswerHeard
  <2> QED BY <2>1, <2>2 DEF Game
<1>6. ASSUME ppc = "printing" PROVE Lines'
  <2>1. PICK k \in 0 .. n : LineAt(k)
    BY <1>6 DEF Game, Lines
  <2>2. c = k /\ k # n /\ pending[c] = {"USR1"}
    BY <1>1, <2>1, ChildFacts DEF LineAt, Quiet, Child
  <2>3. Settled(c)'
    <3>1. c # curr_child => Settled(c)
        BY <2>1 DEF LineAt
    <3>2. c = curr_child =>
              /\ playing[c] = 1
              /\ \/ last_catch[c] = 1 /\ child_status[c] = 1
                 \/ last_catch[c] = -1 /\ child_status[c] = 0
        BY <1>1, <2>1, <2>2, ChildFacts DEF LineAt
    <3>3. playing[c] \in {0, 1} /\ last_catch[c] \in {-1, 0, 1}
        BY <1>2 DEF Board
    <3> QED BY <1>1, <1>3, <3>1, <3>2, <3>3 DEF Settled
  <2>4. \A d \in Child : d # k => Quiet(d)'
    BY <1>2, <2>1, <2>2 DEF LineAt, Quiet
  <2>5. \A d \in Child : d # c /\ Settled(d) => Settled(d)'
    BY <1>1, <1>3 DEF Settled
  <2>6. pending'[k] = {} /\ forwarding'[k] = TRUE
    BY <1>2, <2>2
  <2>7. LineAt(k)'
    <3>1. curr_child \in Child /\ Child \subseteq Nat /\ k \in Nat
        BY <1>2, ChildFacts DEF Board
    <3>2. CASE curr_child = k
        <4>1. \A d \in Child : d # curr_child => Settled(d)'
            BY <2>1, <2>2, <2>5, <3>2 DEF LineAt
        <4> QED BY <1>1, <2>1, <2>2, <2>3, <2>4, <2>6, <3>2, <4>1 DEF LineAt
    <3>3. CASE curr_child # k
        <4>1. \A d \in Child : d # curr_child => Settled(d)'
            BY <2>1, <2>2, <2>3, <2>5 DEF LineAt
        <4>2. Settled(curr_child) => Settled(curr_child)'
            BY <1>1, <1>3, <2>2, <3>1, <3>3 DEF Settled
        <4>3. /\ playing'[curr_child] = playing[curr_child]
              /\ last_catch'[curr_child] = last_catch[curr_child]
            BY <1>3, <2>2, <3>1, <3>3
        <4> QED BY <1>1, <2>1, <2>2, <2>4, <2>6, <3>3, <4>1, <4>2, <4>3 DEF LineAt
    <3> QED BY <3>2, <3>3
  <2> QED BY <1>1, <1>6, <2>7 DEF Game, Lines, AllReady, NoAnswer
<1> QED BY <1>1, <1>4, <1>5, <1>6 DEF Game

(* The call goes on to the next child; the last one kills the dummy. *)
LEMMA ForwardKeeps ==
    ASSUME Game, NEW c \in Child, Forward(c)
    PROVE  Game'
<1> USE ChildFacts
<1>1. /\ forwarding[c] /\ forwarding' = [forwarding EXCEPT ![c] = FALSE]
      /\ UNCHANGED <<ppc, child_status, curr_child, remaining, catch_status, flag, answers,
                     phase, playing, last_catch>>
    BY DEF Forward, parent, heard
<1>2. /\ Board /\ forwarding' \in [Child -> BOOLEAN] /\ forwarding'[c] = FALSE
      /\ \A d \in Child : d # c => forwarding'[d] = forwarding[d]
    BY <1>1 DEF Game, Board
<1>3. pending' \in [Child -> SUBSET Signals]
  <2>1. CASE LastInLine(c)
    BY <1>2, <2>1 DEF Forward, Board
  <2>2. CASE ~LastInLine(c)
    BY <1>2, <2>2 DEF Forward, Kill, Board, Signals
  <2> QED BY <2>1, <2>2
<1>4. Board'
    BY <1>1, <1>2, <1>3 DEF Board, Players
<1>5. ppc \in {"printing", "done"}
    BY <1>1 DEF Game, BetweenRounds, BallOut
<1>6. ASSUME ppc = "printing" PROVE Lines'
  <2>1. PICK k \in 0 .. n : LineAt(k)
    BY <1>6 DEF Game, Lines
  <2>2. c = k /\ k # n /\ pending[k] = {} /\ dummy = "running" /\ k + 1 \in 0 .. n
    BY <1>1, <2>1 DEF LineAt, Quiet, Child
  <2>3. LastInLine(c) <=> k + 1 = n
    BY <1>6, <2>2 DEF LastInLine, Game, Lines, AllReady
  <2>4. /\ dummy' = IF k + 1 = n THEN "killed" ELSE "running"
        /\ k + 1 # n => pending' = [pending EXCEPT ![k + 1] = @ \cup {"USR1"}]
        /\ k + 1 = n => pending' = pending
    BY <2>2, <2>3 DEF Forward, Kill
  <2>5. \A d \in Child : pending[d] = {} /\ ~forwarding'[d]
    BY <1>2, <2>1, <2>2 DEF LineAt, Quiet
  <2>6. /\ \A d \in Child : d # k + 1 => pending'[d] = {}
        /\ k + 1 # n => k + 1 \in Child /\ pending'[k + 1] = {"USR1"}
    BY <1>2, <2>2, <2>4, <2>5 DEF Board, Child
  <2>7. \A d \in Child : Settled(d)' <=> Settled(d)
    BY <1>1 DEF Settled
  <2>8. curr_child < k + 1 <=> curr_child < k \/ curr_child = k
    BY <1>2 DEF Board, Child
  <2>9. curr_child \in Child /\ forwarding[k] /\ ~(curr_child = k + 1 /\ forwarding'[k + 1])
    BY <1>1, <1>2, <2>2, <2>5 DEF Board
  <2>10. LineAt(k + 1)'
    <3>1. IF curr_child < k + 1 THEN Settled(curr_child)'
          ELSE /\ playing'[curr_child] = 1
               /\ \/ last_catch'[curr_child] = 1 /\ child_status'[curr_child] = 1
                  \/ last_catch'[curr_child] = -1 /\ child_status'[curr_child] = 0
        BY <1>1, <2>1, <2>7, <2>8, <2>9 DEF LineAt
    <3>2. \A d \in Child : d # curr_child => Settled(d)'
        BY <2>1, <2>7 DEF LineAt
    <3>3. /\ \A d \in Child : d # k + 1 => Quiet(d)'
          /\ k + 1 # n => pending'[k + 1] = IF forwarding'[k + 1] THEN {} ELSE {"USR1"}
        BY <2>5, <2>6 DEF Quiet
    <3> QED BY <1>1, <2>4, <2>9, <3>1, <3>2, <3>3 DEF LineAt
  <2>11. AllReady' /\ NoAnswer'
    BY <1>1, <1>6 DEF Game, Lines, AllReady, NoAnswer
  <2> QED BY <2>2, <2>10, <2>11 DEF Lines
<1> QED BY <1>1, <1>4, <1>5, <1>6 DEF Game

LEMMA EndRoundKeeps == Game /\ EndRound => Game'
<1> SUFFICES ASSUME Game, EndRound PROVE Game'
    OBVIOUS
<1> USE ChildFacts
<1>1. /\ ppc = "printing" /\ ppc' = "game" /\ dummy = "killed" /\ dummy' = "none"
      /\ curr_child' = IF remaining > 1 THEN find_next_player(curr_child) ELSE curr_child
      /\ UNCHANGED <<child_status, remaining, catch_status, flag, answers, phase, forwarding,
                     playing, last_catch, pending>>
    BY DEF EndRound, heard, children
<1>2. Board /\ AllReady /\ NoAnswer /\ LineAt(n)
    BY <1>1 DEF Game, Lines, LineAt
<1>3. \A c \in Child : Settled(c) /\ Quiet(c)
  <2>1. curr_child < n /\ \A c \in Child : c # n
    BY <1>2 DEF Board, Child
  <2> QED BY <1>2, <2>1 DEF LineAt
<1>4. curr_child' \in Child /\ (remaining > 1 => child_status[curr_child'] = 1)
  <2>1. CASE remaining > 1
    <3>1. Players # {}
        BY <1>2, <2>1, FS_EmptySet DEF Board
    <3> QED BY <1>1, <1>2, <2>1, <3>1, NextPlayer DEF Board
  <2>2. CASE ~(remaining > 1)
    BY <1>1, <1>2, <2>2 DEF Board
  <2> QED BY <2>1, <2>2
<1>5. Board'
    BY <1>1, <1>2, <1>4 DEF Board, Players
<1>6. BetweenRounds'
    BY <1>1, <1>2, <1>3, <1>4 DEF BetweenRounds, NoAnswer, AllReady, Settled, Quiet
<1> QED BY <1>1, <1>5, <1>6 DEF Game

(* The end of the game *)
LEMMA DismissKeeps ==
    ASSUME Game, \/ Return
                 \/ \E c \in Child : Dismiss(c) \/ Leave(c)
    PROVE  Game'
<1>1. CASE Return
    BY <1>1 DEF Return, Game, Board, Players, heard, children
<1>2. ASSUME NEW c \in Child, Dismiss(c) \/ Leave(c)
      PROVE  Game'
  <2>1. /\ pending' = [pending EXCEPT ![c] = @ \cup {"INT"}] \/
           pending' = [pending EXCEPT ![c] = @ \ {"INT"}]
        /\ phase' = phase \/ phase' = [phase EXCEPT ![c] = "gone"]
        /\ UNCHANGED <<ppc, child_status, curr_child, remaining, catch_status, flag, answers,
                       dummy, forwarding, playing, last_catch>>
    BY <1>2 DEF Dismiss, Leave, Kill, Take, parent, heard, children
  <2>2. Board'
    BY <2>1 DEF Game, Board, Players, Signals
  <2>3. CASE ppc = "game" /\ ~(remaining > 1)
    BY <2>1, <2>2, <2>3 DEF Game, Board, BetweenRounds, NoAnswer, Settled
  <2>4. CASE ppc = "done"
    BY <2>1, <2>2, <2>4 DEF Game
  <2>5. ASSUME "INT" \in pending[c] PROVE ppc = "done" \/ (ppc = "game" /\ ~(remaining > 1))
    BY <2>5, ChildFacts DEF Game, BetweenRounds, BallOut, Quiet, BallTossed, AnswerSent, AnswerHeard,
        Lines, LineAt, Child
  <2>6. remaining \in Nat
    <3>1. IsFiniteSet(Players)
        BY ChildFacts, FS_Subset DEF Players
    <3> QED BY <3>1, FS_CardinalityType DEF Game, Board
  <2>7. Dismiss(c) => ppc = "game" /\ ~(remaining > 1)
    BY <2>6 DEF Dismiss
  <2>8. Leave(c) => "INT" \in pending[c]
    BY DEF Leave, Take
  <2> QED BY <1>2, <2>3, <2>4, <2>5, <2>7, <2>8
<1> QED BY <1>1, <1>2

-----------------------------------------------------------------------------
LEMMA NextIInv == IInv /\ [Next]_vars => IInv'
<1> SUFFICES ASSUME IInv, [Next]_vars PROVE IInv'
    OBVIOUS
<1>1. CASE UNCHANGED vars
  <2>1. /\ UNCHANGED <<ppc, child_status, curr_child, remaining, catch_status, flag, answers, dummy>>
        /\ UNCHANGED <<phase, forwarding, playing, last_catch, won, pending, on_time>>
    BY <1>1 DEF vars, parent, heard, children
  <2>2. Before' <=> Before
    BY <2>1 DEF Before, BeforeGame, NoAnswer
  <2>3. Game' <=> Game
    <3>1. Board' <=> Board
        BY <2>1 DEF Board, Players
    <3>2. BetweenRounds' <=> BetweenRounds
        BY <2>1 DEF BetweenRounds, NoAnswer, Settled, AllReady
    <3>3. BallOut' <=> BallOut
        BY <2>1 DEF BallOut, BallTossed, AnswerSent, AnswerHeard, NoAnswer, Settled, Quiet, AllReady
    <3>4. Lines' <=> Lines
        BY <2>1 DEF Lines, LineAt, NoAnswer, Settled, Quiet, AllReady
    <3> QED BY <2>1, <3>1, <3>2, <3>3, <3>4 DEF Game
  <2> QED BY <2>1, <2>2, <2>3 DEF IInv
<1>2. CASE Next /\ ppc \in {"listing", "sleep"}
    BY <1>2, StartKeeps
<1>3. CASE Next /\ ppc \notin {"listing", "sleep"}
  <2>1. ppc' \notin {"listing", "sleep"} /\ on_time' = on_time
    BY <1>3 DEF Next, Parent, CloseList, StartGame, Toss, signal_handler, BookAnswer, EndRound,
        Return, Dismiss, ChildStep, GetReady, TakeUnprepared, Catch, Miss, Ball, PrintCell,
        Forward, Leave, parent
  <2>2. ASSUME Game, NEW c \in Child
        PROVE  ~GetReady(c) /\ ~TakeUnprepared(c)
    <3>1. phase[c] \in {"ready", "gone"}
        BY <2>2 DEF Game, Board
    <3> QED BY <3>1 DEF GetReady, TakeUnprepared, Advance
  <2>3. Game => Game'
    BY <1>3, <2>2, TossKeeps, AnswerKeeps, HearKeeps, BookKeeps, PrintKeeps, ForwardKeeps,
        EndRoundKeeps, DismissKeeps
    DEF Next, Parent, ChildStep, CloseList, StartGame
  <2> QED BY <2>1, <2>3 DEF IInv, Before
<1> QED BY <1>1, <1>2, <1>3

LEMMA AlwaysIInv == Spec => []IInv
BY InitIInv, NextIInv, PTL DEF Spec

(* In a game that starts when all are ready, the parent goes on only when no *)
(* signal of the round is left, and then agrees with every child on whether  *)
(* it plays (parent.c:157 against child.c:83-95).                            *)
THEOREM BarrierCorrect == Spec => []RoundOver
<1>1. IInv => RoundOver
  <2> SUFFICES ASSUME IInv, on_time, ppc = "game"
               PROVE  /\ answers = {} /\ flag = 0 /\ ~\E c \in Child : forwarding[c]
                      /\ \A c \in Child :
                            pending[c] \subseteq {"INT"} /\ playing[c] = child_status[c]
                      /\ remaining = Cardinality({c \in Child : child_status[c] = 1})
    BY DEF RoundOver
  <2>1. Board /\ BetweenRounds
    BY DEF IInv, Game
  <2> QED BY <2>1 DEF Board, BetweenRounds, NoAnswer, Settled, Players
<1> QED BY <1>1, AlwaysIInv, PTL

(* The ball is with one child, which plays, or its one answer is with the    *)
(* parent; nobody prints meanwhile (parent.c:31-39, 135-151).                *)
THEOREM BallCorrect == Spec => []OneBall
<1>1. IInv => OneBall
  <2> SUFFICES ASSUME IInv, on_time, ppc = "waiting"
               PROVE  /\ child_status[curr_child] = 1 /\ playing[curr_child] = 1
                      /\ \A c \in Child : "USR1" \notin pending[c] /\ ~forwarding[c]
                      /\ Cardinality({c \in Child : "USR2" \in pending[c]})
                           + Cardinality(answers) + flag = 1
                      /\ "USR2" \in pending[curr_child] <=> last_catch[curr_child] = 0
    BY DEF OneBall
  <2> DEFINE holders == {c \in Child : "USR2" \in pending[c]}
  <2>1. Board /\ BallOut /\ curr_child \in Child
    BY DEF IInv, Game, Board
  <2>2. child_status[curr_child] = 1 /\ playing[curr_child] = 1
    BY <2>1 DEF BallOut
  <2>3. \A c \in Child : "USR1" \notin pending[c] /\ ~forwarding[c]
    BY <2>1 DEF BallOut, BallTossed, AnswerSent, AnswerHeard, Quiet
  <2>4. "USR2" \in pending[curr_child] <=> last_catch[curr_child] = 0
    BY <2>1 DEF BallOut, BallTossed, AnswerSent, AnswerHeard
  <2>5. Cardinality(holders) + Cardinality(answers) + flag = 1
    <3>1. /\ Cardinality({}) = 0 /\ Cardinality({curr_child}) = 1
          /\ Cardinality({"USR1"}) = 1 /\ Cardinality({"USR2"}) = 1
        BY FS_EmptySet, FS_Singleton
    <3>2. holders = IF BallTossed THEN {curr_child} ELSE {}
        BY <2>1 DEF BallOut, BallTossed, AnswerSent, AnswerHeard, Quiet
    <3>3. CASE BallTossed
        <4>1. holders = {curr_child} /\ answers = {} /\ flag = 0
            BY <3>2, <3>3 DEF BallTossed, NoAnswer
        <4> QED BY <3>1, <4>1
    <3>4. CASE AnswerSent
        <4>1. holders = {} /\ flag = 0 /\ (answers = {"USR1"} \/ answers = {"USR2"})
            BY <3>2, <3>4 DEF AnswerSent, BallTossed
        <4>2. Cardinality(answers) = 1 /\ Cardinality(holders) = 0
            BY <3>1, <4>1
        <4> QED BY <4>1, <4>2
    <3>5. CASE AnswerHeard
        <4>1. holders = {} /\ answers = {} /\ flag = 1
            BY <3>2, <3>5 DEF AnswerHeard, BallTossed
        <4> QED BY <3>1, <4>1
    <3> QED BY <2>1, <3>3, <3>4, <3>5 DEF BallOut
  <2> QED BY <2>2, <2>3, <2>4, <2>5
<1> QED BY <1>1, AlwaysIInv, PTL
=============================================================================
