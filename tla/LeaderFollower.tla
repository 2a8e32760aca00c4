---------------------------- MODULE LeaderFollower ----------------------------
(***************************************************************************)
(* LA5: a leader and n followers share an array M of integers and nothing  *)
(* else.  M[0] is n, M[1] counts the followers that joined, M[2] says      *)
(* whose turn it is, M[3] holds the leader's number and M[3+i] follower    *)
(* i's.  All waiting is busy waiting on M[1] and M[2]; every step below is *)
(* one access to M, with the local work around it.                         *)
(***************************************************************************)
EXTENDS Integers, FiniteSets, Functions

CONSTANTS
    n,                  \* followers the leader expects
    Follower,           \* processes the follower programs fork
    LeaderNumbers,      \* stand for the leader's 1 .. 99
    Digits              \* stand for the followers' 1 .. 9

ASSUME GameAssumption ==
    /\ n \in Nat \ {0}
    /\ LeaderNumbers \subseteq 1 .. 99 /\ Digits \subseteq 1 .. 9

VARIABLES
    shm,                \* the segment: "absent", "there" or "removed"
    M,                  \* its contents
    lpc,                \* where the leader is
    sums,               \* the sums in its hash table
    fpc,                \* where each follower is
    loaded,             \* M[1] as a follower has loaded it
    follower_num,
    written,            \* history: slots written since the leader's number
    undisturbed         \* history: has every join been alone with M[1]?

segment   == <<shm, M>>
leader    == <<lpc, sums>>
followers == <<fpc, loaded, follower_num>>
history   == <<written, undisturbed>>
vars      == <<segment, leader, followers, history>>

Slot == 0 .. 3 + n

Init ==
    /\ shm = "absent"
    /\ M = [i \in Slot |-> 0]
    /\ lpc = "start" /\ sums = {}
    /\ fpc = [f \in Follower |-> "start"]
    /\ loaded = [f \in Follower |-> 0]
    /\ follower_num = [f \in Follower |-> 0]
    /\ written = {} /\ undisturbed = TRUE

Put(i, v) == M' = [M EXCEPT ![i] = v]

-----------------------------------------------------------------------------
(* The leader                                                              *)

At(from, to) == lpc = from /\ lpc' = to

(* shmget with IPC_CREAT | IPC_EXCL: the kernel hands out zeros. *)
Create ==
    /\ At("start", "set_n")
    /\ shm' = "there"
    /\ UNCHANGED <<M, sums, followers, history>>

(* A store of the leader that leaves its table alone. *)
LeaderPuts(i, v, from, to) ==
    /\ At(from, to) /\ Put(i, v)
    /\ UNCHANGED <<shm, sums, followers>>

InitM ==
    /\ \/ LeaderPuts(0, n, "set_n", "set_joined")
       \/ LeaderPuts(1, 0, "set_joined", "set_turn")
       \/ LeaderPuts(2, 0, "set_turn", "wait")
    /\ UNCHANGED history

(* A wait of the leader that has come to its end. *)
LeaderSees(condition, from, to) ==
    /\ At(from, to) /\ condition
    /\ UNCHANGED <<segment, sums, followers, history>>

(* Variant with a fault: the leader starts one follower early. *)
AlmostAllJoined == M[1] >= n - 1

AllJoined == M[1] >= n

wait_for_followers == LeaderSees(AllJoined, "wait", "turn")
AwaitTurn          == LeaderSees(M[2] = 0, "turn", "number")
AwaitRound         == LeaderSees(M[2] = 0, "round", "sum")
AwaitLeaving       == LeaderSees(M[2] = 0, "leaving", "cleanup")

WriteNumber ==
    /\ \E v \in LeaderNumbers : LeaderPuts(3, v, "number", "pass")
    /\ written' = {3} /\ UNCHANGED undisturbed

GiveTurn ==
    /\ LeaderPuts(2, 1, "pass", "round")
    /\ UNCHANGED history

Sum == SumFunctionOnSet(M, 3 .. 3 + n)

(***************************************************************************)
(* The leader sums M[3..3+n] and looks the sum up.  With at most 100       *)
(* followers a sum is below HASH_SIZE, so the table is a set.              *)
(***************************************************************************)
NewSum ==
    /\ At("sum", "turn") /\ Sum \notin sums
    /\ sums' = sums \cup {Sum}
    /\ UNCHANGED <<segment, followers, history>>

RepeatedSum ==
    /\ At("sum", "end") /\ Sum \in sums
    /\ UNCHANGED <<segment, sums, followers, history>>

Terminate ==
    /\ LeaderPuts(2, -1, "end", "leaving")
    /\ UNCHANGED history

cleanup ==
    /\ At("cleanup", "done")
    /\ shm' = "removed"
    /\ UNCHANGED <<M, sums, followers, history>>

Leader ==
    \/ Create \/ InitM \/ wait_for_followers \/ AwaitTurn \/ WriteNumber
    \/ GiveTurn \/ AwaitRound \/ NewSum \/ RepeatedSum \/ Terminate
    \/ AwaitLeaving \/ cleanup

-----------------------------------------------------------------------------
(* Follower process f                                                      *)

Goes(f, from, to) == fpc[f] = from /\ fpc' = [fpc EXCEPT ![f] = to]

(***************************************************************************)
(* A follower program attaches the segment and forks; without a segment it *)
(* reports that the leader is not running.                                 *)
(***************************************************************************)
Attach(f) ==
    /\ Goes(f, "start", IF shm = "there" THEN "load" ELSE "no_leader")
    /\ UNCHANGED <<segment, leader, loaded, follower_num, history>>

(* The leader has stored the initial count, and will not store it again.   *)
Initialised == lpc \notin {"start", "set_n", "set_joined"}

(***************************************************************************)
(* follower_num = ++M[1] is a load, a store and, in an unoptimised build,  *)
(* a second load.  It is undisturbed when nobody else, the initialising    *)
(* leader included, stores a count in between; the code cannot promise     *)
(* that (follower.cpp:96, leader.cpp:63).  The properties below say what   *)
(* the game promises when it is so.                                        *)
(***************************************************************************)
LoadCount(f) ==
    /\ Goes(f, "load", "store")
    /\ loaded' = [loaded EXCEPT ![f] = M[1]]
    /\ UNCHANGED <<segment, leader, follower_num, history>>

StoreCount(f) ==
    /\ Goes(f, "store", "reload") /\ Put(1, loaded[f] + 1)
    /\ undisturbed' = (undisturbed /\ M[1] = loaded[f] /\ Initialised)
    /\ UNCHANGED <<shm, leader, loaded, follower_num, written>>

TakeNumber(f) ==
    /\ Goes(f, "reload", "admit")
    /\ follower_num' = [follower_num EXCEPT ![f] = M[1]]
    /\ undisturbed' = (undisturbed /\ M[1] = loaded[f] + 1)
    /\ UNCHANGED <<segment, leader, loaded, written>>

(* A step of f that only looks at M. *)
Looks(f, from, to) ==
    /\ Goes(f, from, to)
    /\ UNCHANGED <<segment, leader, loaded, follower_num, history>>

Admit(f) ==
    Looks(f, "admit", IF follower_num[f] > M[0] THEN "gone" ELSE "poll")

(* Variant with a fault: the sign of the turn is not looked at first. *)
TurnReached(f) == M[2] >= follower_num[f]

MyTurn(f) == M[2] \in {follower_num[f], -follower_num[f]}

Poll(f) == MyTurn(f) /\ Looks(f, "poll", "turn")

CheckTurn(f) ==
    Looks(f, "turn", IF M[2] = -follower_num[f] THEN "leave" ELSE "write")

WriteDigit(f) ==
    /\ Goes(f, "write", "pass")
    /\ \E d \in Digits : Put(3 + follower_num[f], d)
    /\ written' = written \cup {3 + follower_num[f]}
    /\ UNCHANGED <<shm, leader, loaded, follower_num, undisturbed>>

(* Variants with a fault: the last follower is left out, or hands on to    *)
(* the first; the first leaver is the last.                                *)
PassOver(k)  == IF k >= M[0] - 1 THEN 0 ELSE k + 1
PassAgain(k) == IF k = M[0] THEN 1 ELSE k + 1
OneLeaves(k) == 0

NextTurn(k)   == IF k = M[0] THEN 0 ELSE k + 1
NextToLeave(k) == IF k = M[0] THEN 0 ELSE -(k + 1)

PassTurn(f) ==
    /\ Goes(f, "pass", "poll") /\ Put(2, NextTurn(follower_num[f]))
    /\ UNCHANGED <<shm, leader, loaded, follower_num, history>>

Leave(f) ==
    /\ Goes(f, "leave", "gone") /\ Put(2, NextToLeave(follower_num[f]))
    /\ UNCHANGED <<shm, leader, loaded, follower_num, history>>

Runs(f) ==
    \/ LoadCount(f) \/ StoreCount(f) \/ TakeNumber(f) \/ Admit(f) \/ Poll(f)
    \/ CheckTurn(f) \/ WriteDigit(f) \/ PassTurn(f) \/ Leave(f)

-----------------------------------------------------------------------------
Next == Leader \/ \E f \in Follower : Attach(f) \/ Runs(f)

Spec == Init /\ [][Next]_vars

(* Every process runs on once it is started; nobody need start a follower. *)
FairSpec ==
    Spec /\ WF_vars(Leader) /\ \A f \in Follower : WF_vars(Runs(f))
-----------------------------------------------------------------------------
(* Properties                                                              *)

(* f has its number, be it admitted with it or not. *)
Numbered(f) ==
    fpc[f] \in {"admit", "poll", "turn", "write", "pass", "leave", "gone"}

FollowerActs(f) == fpc[f] \in {"turn", "write", "pass", "leave"}
LeaderActs      == lpc \in {"turn", "number", "pass", "sum", "end", "cleanup"}
(***************************************************************************)
(* One process at a time believes that it has the turn: two followers, or  *)
(* a follower and the leader, never work on M together (leader.cpp:81-92   *)
(* against follower.cpp:26-42).                                            *)
(***************************************************************************)
OneTurn ==
    undisturbed =>
        /\ \A f, g \in Follower : FollowerActs(f) /\ FollowerActs(g) => f = g
        /\ \A f \in Follower : FollowerActs(f) => lpc \in {"round", "leaving"}

(***************************************************************************)
(* The leader sums numbers of this round only: its own and one of every    *)
(* follower (leader.cpp:88-108, README:9 "waits for the round to complete  *)
(* ... prints the sum").                                                   *)
(***************************************************************************)
SumOfThisRound == undisturbed /\ lpc = "sum" => written = 3 .. 3 + n

(***************************************************************************)
(* Nobody is dismissed before a sum has come again, and the leader removes *)
(* the segment only when every follower it admitted has left               *)
(* (leader.cpp:117-121, 131-138; follower.cpp:31-36).                      *)
(***************************************************************************)
LeavesInTime ==
    undisturbed => \A f \in Follower :
        /\ fpc[f] = "gone" /\ follower_num[f] \in 1 .. n
             => lpc \in {"leaving", "cleanup", "done"}
        /\ lpc \in {"cleanup", "done"} /\ Numbered(f)
             => fpc[f] \in {"admit", "gone"}

Complete == \A i \in 1 .. n : \E f \in Follower : Numbered(f) /\ follower_num[f] = i

(***************************************************************************)
(* Once n followers have joined in order, the session ends: a sum comes    *)
(* again, every process that was started returns, and the segment is gone. *)
(***************************************************************************)
SessionEnds ==
    \/ <>~undisturbed
    \/ []~Complete
    \/ <>(/\ shm = "removed"
          /\ \A f \in Follower : fpc[f] \in {"start", "no_leader", "gone"})
=============================================================================
