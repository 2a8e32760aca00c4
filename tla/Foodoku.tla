------------------------------- MODULE Foodoku -------------------------------
(***************************************************************************)
(* LA4: a board of blocks, a process each, and a coordinator that passes   *)
(* on the player's commands.  A process reads whatever arrives in its one  *)
(* pipe: commands, the numbers of a new board, requests of its neighbours  *)
(* and answers to its own.  A dprintf is one write and arrives whole; "%d" *)
(* leaves a letter where it is and its variable unchanged.                 *)
(***************************************************************************)
EXTENDS Integers, SequencesExt

CONSTANTS
    BlockRows, BlockCols,       \* the board in blocks: 3 and 3 in the code
    Height, Width,              \* a block in cells: BLOCK_SIZE in the code
    MaxDigit,                   \* 9 in the code
    Games,                      \* puzzles A and solutions S of newboard
    Scripts                     \* bound: what the player may type

Block == 0 .. BlockRows * BlockCols - 1
Cell  == 0 .. Height * Width - 1
Board == [Block -> [Cell -> 0 .. MaxDigit]]

(* The player's commands: a valid p b c d, or n, s, q.  Others do nothing. *)
Key == [letter : {"n", "s", "q"}] \cup
       [letter : {"p"}, b : Block, c : Cell, d : 1 .. MaxDigit]

Squares == Block \X Cell

Row(s)    == (s[1] \div BlockCols) * Height + s[2] \div Width
Column(s) == (s[1] % BlockCols) * Width + (s[2] % Width)

SameUnit(s, t) == Row(s) = Row(t) \/ Column(s) = Column(t) \/ s[1] = t[1]

(* No digit twice in a row, a column or a block; 0 is an empty cell. *)
Obeys(board) ==
    \A s, t \in Squares :
        s # t /\ SameUnit(s, t) /\ board[s[1]][s[2]] # 0
            => board[s[1]][s[2]] # board[t[1]][t[2]]

(* Every block has neighbours, a solution obeys, and a puzzle is part of it. *)
ASSUME BoardAssumption ==
    /\ {BlockRows, BlockCols} \subseteq Nat \ {0, 1}
    /\ {Height, Width, MaxDigit} \subseteq Nat \ {0}
    /\ Games \subseteq [A : Board, S : Board]
    /\ \A game \in Games :
        /\ Obeys(game.S)
        /\ \A s \in Squares :
            game.A[s[1]][s[2]] \in {0, game.S[s[1]][s[2]]}
    /\ Scripts \subseteq Seq(Key)

VARIABLES
    cpc,        \* the coordinator: "prompt", "board", "quit", "wait" or "over"
    sent,       \* how many writes of the board, or of q, it has made
    sheet,      \* the board it is sending
    S,          \* the solution of the game
    script,     \* what the player will type
    pipe,       \* what each block still has to read
    A, B,       \* each block's puzzle and its present state
    bpc,        \* "command", "board", "ask", "answers" or "gone"
    at,         \* cells read, requests sent or answers read so far
    move,       \* the placement a block is working on
    overlapped  \* history: was a command given while one was unfinished?

coordinator == <<cpc, sent, sheet, S, script, overlapped>>
blocks      == <<A, B, bpc, at, move>>
vars        == <<coordinator, pipe, blocks>>

Number(v)                      == [cmd |-> "number", value |-> v]
NewBoard                       == [cmd |-> "n"]
Placement(c, d)                == [cmd |-> "p", cell |-> c, digit |-> d]
Request(line, k, d, reply)     == [cmd |-> line, index |-> k, digit |-> d,
                                   reply |-> reply]
QuitCommand                    == [cmd |-> "q"]

(* The blocks beside and above or below a block, in the order of the code. *)
RowNeighbors(b) ==
    [k \in 1 .. BlockCols - 1 |->
        ((b + k) % BlockCols) + (b \div BlockCols) * BlockCols]
ColumnNeighbors(b) ==
    [k \in 1 .. BlockRows - 1 |-> (b + k * BlockCols) % (BlockRows * BlockCols)]

(* Variant with a fault: the last block of the band is not asked. *)
OneNeighborLess(b, line) ==
    IF line = "r" THEN Front(RowNeighbors(b)) ELSE ColumnNeighbors(b)

Neighbors(b, line) == IF line = "r" THEN RowNeighbors(b) ELSE ColumnNeighbors(b)

(* The number of a cell's line in its block, and the cells of a line. *)
Index(line, c)   == IF line = "r" THEN c \div Width ELSE c % Width
OnLine(line, k)  == {c \in Cell : Index(line, c) = k}

(* The game starts when the blocks have drawn the first board. *)
Init ==
    /\ \E game \in Games : A = game.A /\ S = game.S
    /\ B = A /\ sheet = A
    /\ cpc = "prompt" /\ sent = 0 /\ script \in Scripts
    /\ pipe = [b \in Block |-> <<>>]
    /\ bpc = [b \in Block |-> "command"]
    /\ at = [b \in Block |-> 0]
    /\ move = [b \in Block |-> [cell |-> 0, digit |-> 0, line |-> "r"]]
    /\ overlapped = FALSE

-----------------------------------------------------------------------------
(* The coordinator                                                         *)

Write(b, token) == pipe' = [pipe EXCEPT ![b] = Append(@, token)]

(* Everything commanded is done; answers nobody waits for may be left. *)
Idle ==
    /\ cpc = "prompt"
    /\ \A b \in Block :
        /\ bpc[b] = "command"
        /\ \A i \in DOMAIN pipe[b] : pipe[b][i].cmd = "number"

Typed(letter) ==
    /\ cpc = "prompt" /\ script # <<>>
    /\ Head(script).letter = letter
    /\ script' = Tail(script)

SendNext(board) == cpc' = "board" /\ sent' = 0 /\ sheet' = board

NewGame ==
    /\ Typed("n")
    /\ \E game \in Games : SendNext(game.A) /\ S' = game.S
    /\ overlapped' = ~Idle
    /\ UNCHANGED <<pipe, blocks>>

ShowSolution ==
    /\ Typed("s")
    /\ SendNext(S)
    /\ overlapped' = ~Idle
    /\ UNCHANGED <<S, pipe, blocks>>

PlaceDigit ==
    /\ Typed("p")
    /\ LET key == Head(script) IN Write(key.b, Placement(key.c, key.d))
    /\ overlapped' = (overlapped \/ ~Idle)
    /\ UNCHANGED <<cpc, sent, sheet, S, blocks>>

(* One write of a board: the n of a block, or a number of one of its cells. *)
SendBoard ==
    /\ cpc = "board"
    /\ LET perBlock == Height * Width + 1
           b == sent \div perBlock
           k == sent % perBlock
       IN  /\ Write(b, IF k = 0 THEN NewBoard ELSE Number(sheet[b][k - 1]))
           /\ sent' = sent + 1
           /\ cpc' = IF sent' = perBlock * BlockRows * BlockCols
                     THEN "prompt" ELSE "board"
    /\ UNCHANGED <<sheet, S, script, overlapped, blocks>>

Quit ==
    /\ Typed("q")
    /\ cpc' = "quit" /\ sent' = 0
    /\ UNCHANGED <<sheet, S, overlapped, pipe, blocks>>

(* Variant with a fault: the last block gets no q. *)
LastButOne == BlockRows * BlockCols - 2

LastBlock == BlockRows * BlockCols - 1

SendQuit ==
    /\ cpc = "quit"
    /\ Write(sent, QuitCommand)
    /\ sent' = sent + 1
    /\ cpc' = IF sent = LastBlock THEN "wait" ELSE "quit"
    /\ UNCHANGED <<sheet, S, script, overlapped, blocks>>

WaitForBlocks ==
    /\ cpc = "wait"
    /\ \A b \in Block : bpc[b] = "gone"
    /\ cpc' = "over"
    /\ UNCHANGED <<sent, sheet, S, script, overlapped, pipe, blocks>>

-----------------------------------------------------------------------------
(* A block                                                                 *)

Goes(b, to)  == bpc' = [bpc EXCEPT ![b] = to] /\ at' = [at EXCEPT ![b] = 0]
Counts(b)    == at' = [at EXCEPT ![b] = @ + 1] /\ UNCHANGED bpc
Consume(b)   == pipe' = [pipe EXCEPT ![b] = Tail(@)]
Next_(b)     == Head(pipe[b])

(* " %c" finds the command cmd at the head of the pipe. *)
Reads(b, cmd) ==
    /\ bpc[b] = "command" /\ pipe[b] # <<>>
    /\ Next_(b).cmd = cmd

(* An answer or a number of a board that nobody waits for: no command. *)
SkipNumber(b) ==
    /\ Reads(b, "number") /\ Consume(b)
    /\ UNCHANGED <<coordinator, blocks>>

(***************************************************************************)
(* The loop over the cells; n is taken with the first of them, as nobody   *)
(* can tell whether a block waits before or behind it.  "%d" takes a       *)
(* number, or leaves the letter that is there and the old value of A.      *)
(***************************************************************************)
LoadBoard(b) ==
    /\ bpc[b] = "board" \/ Reads(b, "n")
    /\ LET rest == IF bpc[b] = "board" THEN pipe[b] ELSE Tail(pipe[b])
           isNumber == Head(rest).cmd = "number"
       IN  /\ rest # <<>>
           /\ A' = IF isNumber THEN [A EXCEPT ![b][at[b]] = Head(rest).value] ELSE A
           /\ pipe' = [pipe EXCEPT ![b] = IF isNumber THEN Tail(rest) ELSE rest]
    /\ B' = [B EXCEPT ![b][at[b]] = A'[b][at[b]]]
    /\ IF at[b] = Height * Width - 1
       THEN Goes(b, "command")
       ELSE bpc' = [bpc EXCEPT ![b] = "board"] /\ at' = [at EXCEPT ![b] = @ + 1]
    /\ UNCHANGED <<coordinator, move>>

(* The checks a block makes by itself: a clue, or the digit in the block. *)
Refused(b, c, d) == A[b][c] # 0 \/ \E other \in Cell : B[b][other] = d

StartPlacement(b) ==
    /\ Reads(b, "p") /\ Consume(b)
    /\ LET c == Next_(b).cell
           d == Next_(b).digit
       IN  IF Refused(b, c, d)
           THEN UNCHANGED <<bpc, at, move>>
           ELSE /\ Goes(b, "ask")
                /\ move' = [move EXCEPT ![b] =
                                [cell |-> c, digit |-> d, line |-> "r"]]
    /\ UNCHANGED <<coordinator, A, B>>

(***************************************************************************)
(* A write to a neighbour.  One that has exited has no reader: the write   *)
(* kills the writer, or is lost while its xterm still holds the pipe.      *)
(***************************************************************************)
Tell(b, other, token, goesOn) ==
    \/ bpc[other] # "gone" /\ Write(other, token) /\ goesOn
    \/ bpc[other] = "gone" /\ UNCHANGED pipe /\ (goesOn \/ Goes(b, "gone"))

Ask(b) ==
    /\ bpc[b] = "ask"
    /\ LET m  == move[b]
           to == Neighbors(b, m.line)
       IN  Tell(b, to[at[b] + 1],
                Request(m.line, Index(m.line, m.cell), m.digit, b),
                IF at[b] + 1 < Len(to) THEN Counts(b) ELSE Goes(b, "answers"))
    /\ UNCHANGED <<coordinator, A, B, move>>

(* Variant with a fault: a letter keeps the block waiting. *)
NumberOnly(b) == IF Next_(b).cmd = "number" THEN {Next_(b).value} ELSE {}

(***************************************************************************)
(* What scanf leaves in response: a number that is there; at a letter, the *)
(* 0 of the answer before, or anything when this is the first.             *)
(***************************************************************************)
Response(b) ==
    IF Next_(b).cmd = "number" THEN {Next_(b).value}
    ELSE IF at[b] > 0 \/ move[b].line = "c" THEN {0} ELSE {0, 1}

(* All answers of a line were 0: on to the columns, or place the digit. *)
LineFree(b) ==
    IF move[b].line = "r"
    THEN /\ Goes(b, "ask") /\ UNCHANGED B
         /\ move' = [move EXCEPT ![b].line = "c"]
    ELSE /\ Goes(b, "command") /\ UNCHANGED move
         /\ B' = [B EXCEPT ![b][move[b].cell] = move[b].digit]

(* A conflict ends the placement at once, the next answer still to come. *)
ReadAnswer(b) ==
    /\ bpc[b] = "answers" /\ pipe[b] # <<>>
    /\ IF Next_(b).cmd = "number" THEN Consume(b) ELSE UNCHANGED pipe
    /\ \E response \in Response(b) :
        CASE response # 0 -> Goes(b, "command") /\ UNCHANGED <<B, move>>
          [] response = 0 /\ at[b] + 1 < Len(Neighbors(b, move[b].line)) ->
                Counts(b) /\ UNCHANGED <<B, move>>
          [] OTHER -> LineFree(b)
    /\ UNCHANGED <<coordinator, A>>

(* check_conflict over the row or column asked for, and the answer. *)
Verdict(b, line, k, d) ==
    IF \E c \in OnLine(line, k) : B[b][c] = d THEN 1 ELSE 0

AnswerNeighbor(b) ==
    /\ bpc[b] = "command" /\ pipe[b] # <<>> /\ Next_(b).cmd \in {"r", "c"}
    /\ LET q     == Next_(b)
           reply == Number(Verdict(b, q.cmd, q.index, q.digit))
       IN  \/ /\ bpc[q.reply] # "gone"
              /\ pipe' = [pipe EXCEPT ![b] = Tail(@), ![q.reply] = Append(@, reply)]
              /\ UNCHANGED <<bpc, at>>
           \/ /\ bpc[q.reply] = "gone" /\ Consume(b)
              /\ UNCHANGED <<bpc, at>> \/ Goes(b, "gone")
    /\ UNCHANGED <<coordinator, A, B, move>>

(***************************************************************************)
(* q: print_error sleeps for two seconds before the block exits; the loop  *)
(* over the blocks that writes q has long ended then.                      *)
(***************************************************************************)
Bye(b) ==
    /\ Reads(b, "q") /\ Consume(b)
    /\ cpc = "wait"
    /\ Goes(b, "gone")
    /\ UNCHANGED <<coordinator, A, B, move>>

-----------------------------------------------------------------------------
Sends == SendBoard \/ SendQuit \/ WaitForBlocks

RunBlock(b) ==
    \/ SkipNumber(b) \/ LoadBoard(b)
    \/ StartPlacement(b) \/ Ask(b) \/ ReadAnswer(b)
    \/ AnswerNeighbor(b) \/ Bye(b)

Player == NewGame \/ ShowSolution \/ PlaceDigit \/ Quit

Next == Player \/ Sends \/ \E b \in Block : RunBlock(b)

(***************************************************************************)
(* Some process runs as long as one can; the player need do nothing.       *)
(* Scripts are finite and nobody polls, so no more is needed.              *)
(***************************************************************************)
Runs     == Sends \/ \E b \in Block : RunBlock(b)
Spec     == Init /\ [][Next]_vars
FairSpec == Spec /\ WF_vars(Runs)

-----------------------------------------------------------------------------
(***************************************************************************)
(* No digit twice in a row, a column or a block, when the game rests: what *)
(* the blocks establish by asking each other (block.c:114-148).  Promised  *)
(* as long as the player gave each command after the one before was done,  *)
(* since the latest board; answers left over from a refused placement must *)
(* do no harm then.                                                        *)
(***************************************************************************)
SudokuRule == Idle /\ ~overlapped => Obeys(B)

(***************************************************************************)
(* Every placement ends, in whatever order requests, answers and commands  *)
(* reach the blocks: two that wait for each other's answer are freed as    *)
(* scanf fails at the other's request (block.c:117-146).                   *)
(***************************************************************************)
PlacementEnds == <>[](\A b \in Block : bpc[b] \notin {"ask", "answers"})

(* After q all blocks exit and the coordinator's waits end (coordinator.c:214). *)
QuitEnds == cpc = "quit" ~> cpc = "over"
=============================================================================
