------------------------------- MODULE BallGame -------------------------------
(***************************************************************************)
(* LA2: a parent tosses a ball to its n children, who catch or miss it,    *)
(* until one is left.  Everything is said with signals.  A toss is SIGUSR2 *)
(* to a child, the answer SIGUSR1 (caught) or SIGUSR2 (missed) to the      *)
(* parent; then SIGUSR1 goes from child to child to print a line, and the  *)
(* last one kills a dummy process whose death ends the round.  SIGINT ends *)
(* the game.  A signal that is already pending is not queued again.        *)
(***************************************************************************)
EXTENDS Integers, FiniteSets

CONSTANT n              \* number of children
ASSUME ChildrenAssumption == n \in Nat \ {0}

VARIABLES
    ppc,                \* where the parent is
    child_status, curr_child, remaining,
    catch_status, flag, \* what the parent's handler has set
    answers,            \* signals pending at the parent
    dummy,              \* "none", "running" or "killed"
    phase,              \* how far each child is
    pending,            \* signals pending at each child
    forwarding,         \* is it in its SIGUSR1 handler, its cell printed?
    playing, last_catch,
    won,                \* has it announced that it is the winner?
    on_time             \* history: were all children ready at the start?

parent   == <<ppc, child_status, curr_child, remaining>>
heard    == <<catch_status, flag, answers>>
children == <<phase, forwarding, playing, last_catch, won>>
vars     == <<parent, heard, dummy, children, pending, on_time>>

Child == 0 .. n - 1

Init ==
    /\ ppc = "listing"
    /\ child_status = [c \in Child |-> 1]
    /\ curr_child = 0 /\ remaining = n
    /\ catch_status = 0 /\ flag = 0 /\ answers = {}
    /\ dummy = "none"
    /\ phase = [c \in Child |-> "forked"]
    /\ pending = [c \in Child |-> {}]
    /\ forwarding = [c \in Child |-> FALSE]
    /\ playing = [c \in Child |-> 1]
    /\ last_catch = [c \in Child |-> 0]
    /\ won = [c \in Child |-> FALSE]
    /\ on_time = FALSE

Kill(c, signal) == pending' = [pending EXCEPT ![c] = @ \cup {signal}]

-----------------------------------------------------------------------------
(* The parent                                                              *)

(* childpid.txt is in the file from its fclose on. *)
CloseList ==
    /\ ppc = "listing" /\ ppc' = "sleep"
    /\ UNCHANGED <<child_status, curr_child, remaining, heard, dummy, children,
                   pending, on_time>>

(* sleep(2): nothing makes sure that the children are ready. *)
StartGame ==
    /\ ppc = "sleep" /\ ppc' = "game"
    /\ on_time' = \A c \in Child : phase[c] = "ready"
    /\ UNCHANGED <<child_status, curr_child, remaining, heard, dummy, children,
                   pending>>

Toss ==
    /\ ppc = "game" /\ remaining > 1
    /\ dummy' = "running"
    /\ Kill(curr_child, "USR2")
    /\ ppc' = "waiting"
    /\ UNCHANGED <<child_status, curr_child, remaining, heard, children, on_time>>

signal_handler ==
    \E signal \in answers :
        /\ answers' = answers \ {signal}
        /\ catch_status' = IF signal = "USR1" THEN 1 ELSE 0
        /\ flag' = 1
        /\ UNCHANGED <<parent, dummy, children, pending, on_time>>

(* The answer is booked and the first child told to print its cell. *)
BookAnswer ==
    /\ ppc = "waiting" /\ flag = 1
    /\ flag' = 0
    /\ IF catch_status = 0
       THEN /\ child_status' = [child_status EXCEPT ![curr_child] = 0]
            /\ remaining' = remaining - 1
       ELSE UNCHANGED <<child_status, remaining>>
    /\ Kill(0, "USR1")
    /\ ppc' = "printing"
    /\ UNCHANGED <<curr_child, catch_status, answers, dummy, children, on_time>>

(* Variant with a fault: the next child, whether it plays or not.          *)
NextInLine(current) == (current + 1) % n

(* The first playing child after the current one, going round. *)
find_next_player(current) ==
    LET after(k) == (current + k) % n
        k == CHOOSE k \in 1 .. n :
                /\ child_status[after(k)] = 1
                /\ \A j \in 1 .. k - 1 : child_status[after(j)] = 0
    IN  after(k)

EndRound ==
    /\ ppc = "printing" /\ dummy = "killed"
    /\ dummy' = "none"
    /\ curr_child' = IF remaining > 1 THEN find_next_player(curr_child)
                     ELSE curr_child
    /\ ppc' = "game"
    /\ UNCHANGED <<child_status, remaining, heard, children, pending, on_time>>

(***************************************************************************)
(* The game is over: SIGINT to each child, each waited for before the next *)
(* gets it.                                                                *)
(***************************************************************************)
Dismiss(c) ==
    /\ ppc = "game" /\ remaining <= 1
    /\ "INT" \notin pending[c] /\ phase[c] # "gone"
    /\ \A d \in 0 .. c - 1 : phase[d] = "gone"
    /\ Kill(c, "INT")
    /\ UNCHANGED <<parent, heard, dummy, children, on_time>>

Return ==
    /\ ppc = "game" /\ remaining <= 1 /\ \A c \in Child : phase[c] = "gone"
    /\ ppc' = "done"
    /\ UNCHANGED <<child_status, curr_child, remaining, heard, dummy, children,
                   pending, on_time>>

Parent ==
    \/ CloseList \/ StartGame \/ Toss \/ signal_handler \/ BookAnswer
    \/ EndRound \/ Return \/ \E c \in Child : Dismiss(c)

-----------------------------------------------------------------------------
(* Child c                                                                 *)

Advance(c, from, to) ==
    /\ phase[c] = from /\ phase' = [phase EXCEPT ![c] = to]
    /\ UNCHANGED <<forwarding, playing, last_catch, won>>

(***************************************************************************)
(* exec, sigaction three times, and after a second the list of children: a *)
(* child that reads it too early knows of no other for good.               *)
(***************************************************************************)
GetReady(c) ==
    /\ \/ Advance(c, "forked", "execed")
       \/ Advance(c, "execed", "asleep")
       \/ /\ ~forwarding[c]
          /\ Advance(c, "asleep", IF ppc = "listing" THEN "alone" ELSE "ready")
    /\ UNCHANGED <<parent, heard, dummy, pending, on_time>>

Take(c, signal) ==
    /\ signal \in pending[c]
    /\ pending' = [pending EXCEPT ![c] = @ \ {signal}]

(***************************************************************************)
(* Before exec a child handles signals as its parent does, in a copy of    *)
(* the parent's variables; after it, until sigaction, a signal kills it.   *)
(* SIGINT kills it in both.                                                *)
(***************************************************************************)
TakeUnprepared(c) ==
    \E signal \in {"USR1", "USR2", "INT"} :
        /\ Take(c, signal)
        /\ \/ /\ phase[c] = "forked" /\ signal # "INT"
              /\ UNCHANGED children
           \/ /\ \/ phase[c] = "execed"
                 \/ phase[c] = "forked" /\ signal = "INT"
              /\ Advance(c, phase[c], "gone")
        /\ UNCHANGED <<parent, heard, dummy, on_time>>

HasHandlers(c) == phase[c] \in {"asleep", "alone", "ready"}

(* SIGUSR2, the ball: rand says whether it is caught. *)
Ball(c, result, signal) ==
    /\ HasHandlers(c) /\ Take(c, "USR2")
    /\ last_catch' = [last_catch EXCEPT ![c] = result]
    /\ answers' = answers \cup {signal}
    /\ UNCHANGED <<parent, catch_status, flag, dummy, phase, forwarding,
                   playing, won, on_time>>

Catch(c) == Ball(c, 1, "USR1")
Miss(c)  == Ball(c, -1, "USR2")

(* Variant with a fault: a child that misses does not notice. *)
StillPlaying(c) ==
    IF playing[c] = 1 /\ last_catch[c] = 1
    THEN last_catch' = [last_catch EXCEPT ![c] = 0] /\ UNCHANGED playing
    ELSE UNCHANGED <<playing, last_catch>>

(* What printing its cell changes. *)
print_status(c) ==
    /\ last_catch' = IF playing[c] = 1 /\ last_catch[c] = 1
                     THEN [last_catch EXCEPT ![c] = 0] ELSE last_catch
    /\ playing' = IF playing[c] = 1 /\ last_catch[c] = -1
                  THEN [playing EXCEPT ![c] = 0] ELSE playing

(* SIGUSR1.  It is blocked while it is being handled. *)
PrintCell(c) ==
    /\ HasHandlers(c) /\ ~forwarding[c] /\ Take(c, "USR1")
    /\ print_status(c)
    /\ forwarding' = [forwarding EXCEPT ![c] = TRUE]
    /\ UNCHANGED <<parent, heard, dummy, phase, won, on_time>>

(* Variant with a fault: the line ends with the last child but one.        *)
LastButOne(c) == c + 1 >= n - 1

(* my_index < n fails, as it does while n is still 0. *)
LastInLine(c) == c + 1 >= n \/ phase[c] # "ready"

Forward(c) ==
    /\ HasHandlers(c) /\ forwarding[c]
    /\ forwarding' = [forwarding EXCEPT ![c] = FALSE]
    /\ IF LastInLine(c)
       THEN /\ dummy' = IF dummy = "running" THEN "killed" ELSE dummy
            /\ UNCHANGED pending
       ELSE Kill(c + 1, "USR1") /\ UNCHANGED dummy
    /\ UNCHANGED <<parent, heard, phase, playing, last_catch, won, on_time>>

Leave(c) ==
    /\ HasHandlers(c) /\ Take(c, "INT")
    /\ won' = [won EXCEPT ![c] = playing[c] = 1]
    /\ phase' = [phase EXCEPT ![c] = "gone"]
    /\ UNCHANGED <<parent, heard, dummy, forwarding, playing, last_catch, on_time>>

ChildStep(c) ==
    \/ GetReady(c) \/ TakeUnprepared(c) \/ Catch(c) \/ Miss(c) \/ PrintCell(c)
    \/ Forward(c) \/ Leave(c)

-----------------------------------------------------------------------------
Next == Parent \/ \E c \in Child : ChildStep(c)

Spec == Init /\ [][Next]_vars

(***************************************************************************)
(* Every process runs.  A child that is given the ball again and again     *)
(* misses it some time: rand says so once in five.                         *)
(***************************************************************************)
FairSpec ==
    /\ Spec /\ WF_vars(Parent)
    /\ \A c \in Child : WF_vars(ChildStep(c)) /\ SF_vars(Miss(c))
-----------------------------------------------------------------------------
(* Properties of a game that starts when all children are ready            *)

(***************************************************************************)
(* The death of the dummy is a barrier: when the parent goes on, no signal *)
(* of the round is on its way, every child has printed its cell, and the   *)
(* children know who plays as the parent does (parent.c:157 against        *)
(* child.c:83-95).                                                         *)
(***************************************************************************)
RoundOver ==
    on_time /\ ppc = "game" =>
        /\ answers = {} /\ flag = 0 /\ ~\E c \in Child : forwarding[c]
        /\ \A c \in Child : pending[c] \subseteq {"INT"} /\ playing[c] = child_status[c]
        /\ remaining = Cardinality({c \in Child : child_status[c] = 1})

(***************************************************************************)
(* The ball goes to a child that plays, and its answer alone is booked:    *)
(* one ball, one answer, one line of cells at a time (parent.c:31-39,      *)
(* 135-151).                                                               *)
(***************************************************************************)
OneBall ==
    on_time /\ ppc = "waiting" =>
        /\ child_status[curr_child] = 1 /\ playing[curr_child] = 1
        /\ \A c \in Child : "USR1" \notin pending[c] /\ ~forwarding[c]
        /\ Cardinality({c \in Child : "USR2" \in pending[c]})
             + Cardinality(answers) + flag = 1
        /\ "USR2" \in pending[curr_child] <=> last_catch[curr_child] = 0

(***************************************************************************)
(* A game that starts in time ends, everybody has gone home, and one child *)
(* has announced that it is the winner: the one the parent has left        *)
(* (README:7 "until only one child remains").                              *)
(***************************************************************************)
GameEnds ==
    (on_time /\ ppc = "game") ~>
        (/\ ppc = "done"
         /\ \A c \in Child : won[c] <=> child_status[c] = 1
         /\ Cardinality({c \in Child : won[c]}) = 1)
=============================================================================
