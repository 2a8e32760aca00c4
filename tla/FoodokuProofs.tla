----------------------------- MODULE FoodokuProofs -----------------------------
(***************************************************************************)
(* Commands given one at a time keep the rule of the game, for a board of  *)
(* any size, any puzzles and anything the player types: though a refused   *)
(* placement leaves answers and requests behind, each later one hears from *)
(* every block it must ask, and from each of them once.                    *)
(***************************************************************************)
EXTENDS Foodoku, SequenceTheorems, FiniteSetTheorems, TLAPS

Line  == {"r", "c"}
Digit == 0 .. MaxDigit

Numbers    == {Number(v) : v \in Digit}
Placements == {Placement(c, d) : c \in Cell, d \in 1 .. MaxDigit}
RequestsOf(b) ==
    {Request(line, k, d, b) : line \in Line, k \in Nat, d \in Digit}
Tokens ==
    Numbers \cup Placements \cup {NewBoard, QuitCommand}
        \cup UNION {RequestsOf(b) : b \in Block}

PerBlock == Height * Width + 1
Writes   == PerBlock * BlockRows * BlockCols

Moves == [cell : Cell, digit : Digit, line : Line]

Types ==
    /\ cpc \in {"prompt", "board", "quit", "wait", "over"}
    /\ sent \in Nat /\ sheet \in Board /\ S \in Board
    /\ script \in Seq(Key)
    /\ pipe \in [Block -> Seq(Tokens)]
    /\ A \in Board /\ B \in Board
    /\ bpc \in [Block -> {"command", "board", "ask", "answers", "gone"}]
    /\ at \in [Block -> Nat]
    /\ move \in [Block -> Moves]
    /\ overlapped \in BOOLEAN

(* How many neighbours a block has in a line. *)
Others(line) == IF line = "r" THEN BlockCols - 1 ELSE BlockRows - 1

(* Counters stay within what they count. *)
Counters ==
    /\ cpc = "board" => sent < Writes
    /\ cpc = "quit" => sent \in Block
    /\ \A b \in Block :
        /\ bpc[b] = "command" => at[b] = 0
        /\ bpc[b] = "board" => at[b] \in Cell
        /\ bpc[b] \in {"ask", "answers"} => at[b] < Others(move[b].line)

-----------------------------------------------------------------------------
(* A board on its way                                                      *)

(* The writes of a block's part of the sheet, and how many were made. *)
Stream(b) ==
    [i \in 1 .. PerBlock |-> IF i = 1 THEN NewBoard ELSE Number(sheet[b][i - 2])]
Written(b) ==
    IF sent <= b * PerBlock THEN 0
    ELSE IF sent >= (b + 1) * PerBlock THEN PerBlock
    ELSE sent - b * PerBlock

(* Old answers first, then what was written of the board. *)
Unread(b) ==
    /\ bpc[b] = "command"
    /\ \E old \in Nat :
        /\ Len(pipe[b]) = old + Written(b)
        /\ \A i \in 1 .. old : pipe[b][i] \in Numbers
        /\ \A i \in 1 .. Written(b) : pipe[b][old + i] = Stream(b)[i]

(* The cells before at are the sheet's; those behind are in the pipe. *)
Halfway(b) ==
    /\ bpc[b] = "board" /\ at[b] \in Cell \ {0}
    /\ Len(pipe[b]) = Written(b) - at[b] - 1
    /\ \A i \in DOMAIN pipe[b] : pipe[b][i] = Number(sheet[b][at[b] + i - 1])
    /\ \A c \in Cell : c < at[b] => B[b][c] = sheet[b][c]

Loaded(b) ==
    /\ bpc[b] = "command" /\ pipe[b] = <<>>
    /\ Written(b) = PerBlock
    /\ B[b] = sheet[b]

Loading ==
    /\ Obeys(sheet)
    /\ cpc = "prompt" => sent = Writes
    /\ \A b \in Block : Unread(b) \/ Halfway(b) \/ Loaded(b)

-----------------------------------------------------------------------------
(* A placement                                                             *)

(* Numbers, and possibly one of some tokens behind them. *)
EndsIn(tokens, queue) ==
    \A i \in DOMAIN queue :
        queue[i] \in Numbers \/ (i = Len(queue) /\ queue[i] \in tokens)

Quiet(queue) == EndsIn({}, queue)

(* What block b asks its neighbours, and of which of them. *)
Question(b) ==
    Request(move[b].line, Index(move[b].line, move[b].cell), move[b].digit, b)
AskedUpTo(b) ==
    IF bpc[b] = "ask" THEN at[b] ELSE Others(move[b].line)
Asked(b) == {Neighbors(b, move[b].line)[i] : i \in 1 .. AskedUpTo(b)}

(* The blocks that have not answered yet. *)
Pending == {o \in Block : ~Quiet(pipe[o])}

(* A block's line allows the digit b wants to place. *)
Free(o, b, line) ==
    Verdict(o, line, Index(line, move[b].cell), move[b].digit) = 0

(* The command has not been read. *)
Told(b) ==
    /\ bpc[b] = "command"
    /\ EndsIn(Placements, pipe[b])
    /\ \A o \in Block \ {b} : Quiet(pipe[o])

(***************************************************************************)
(* Each neighbour asked answers once, and one that objects has said so or  *)
(* still will.                                                             *)
(***************************************************************************)
Asking(b) ==
    /\ bpc[b] \in {"ask", "answers"}
    /\ Quiet(pipe[b])
    /\ \A o \in Block \ {b} : EndsIn({Question(b)}, pipe[o])
    /\ Pending \subseteq Asked(b)
    /\ Len(pipe[b]) + Cardinality(Pending) =
            AskedUpTo(b) - (IF bpc[b] = "ask" THEN 0 ELSE at[b])
    /\ \A o \in Asked(b) :
        \/ o \in Pending
        \/ Free(o, b, move[b].line)
        \/ \E i \in DOMAIN pipe[b] : pipe[b][i] # Number(0)
    /\ move[b].digit # 0
    /\ \A c \in Cell : B[b][c] # move[b].digit
    /\ move[b].line = "c" =>
        \A i \in 1 .. Others("r") : Free(RowNeighbors(b)[i], b, "r")

(* The placement is made or refused; some requests may still be out. *)
Done(b) ==
    /\ bpc[b] = "command"
    /\ Quiet(pipe[b])
    /\ \A o \in Block \ {b} : EndsIn(RequestsOf(b), pipe[o])

Placing(b) ==
    /\ cpc = "prompt"
    /\ Obeys(B)
    /\ \A o \in Block \ {b} : bpc[o] = "command"
    /\ Told(b) \/ Asking(b) \/ Done(b)

(* Whatever is under way is one board or one placement. *)
OneAtATime ==
    ~overlapped /\ cpc \in {"prompt", "board"} =>
        Loading \/ \E b \in Block : Placing(b)

Solved == Obeys(S)

IInv == Types /\ Counters /\ Solved /\ OneAtATime

-----------------------------------------------------------------------------
(* Places on the board                                                     *)

(* What the parameters are. *)
LEMMA Parameters ==
    /\ BlockRows \in Nat /\ BlockRows > 1
    /\ BlockCols \in Nat /\ BlockCols > 1
    /\ Height \in Nat /\ Height > 0 /\ Width \in Nat /\ Width > 0
    /\ MaxDigit \in Nat /\ MaxDigit > 0
BY BoardAssumption

(* Products of natural numbers. *)
LEMMA Products ==
    ASSUME NEW m \in Nat, NEW k \in Nat, NEW d \in Nat
    PROVE  /\ m * d \in Nat
           /\ (m + k) * d = m * d + k * d
           /\ m <= k => m * d <= k * d
           /\ m < k => m * d + d <= k * d
<1>1. m * d \in Nat /\ k * d \in Nat /\ (m + k) * d = m * d + k * d
  OBVIOUS
<1>2. ASSUME NEW x \in Nat, NEW y \in Nat, x <= y PROVE x * d <= y * d
  <2>1. PICK e \in Nat : y = x + e  BY <1>2, y - x \in Nat, y = x + (y - x)
  <2>2. y * d = x * d + e * d /\ e * d \in Nat /\ x * d \in Nat  BY <2>1
  <2> QED BY <2>2
<1>3. (m + 1) * d = m * d + d  OBVIOUS
<1>4. m < k => m * d + d <= k * d
  BY <1>2, <1>3, m + 1 \in Nat, m < k => m + 1 <= k
<1> QED BY <1>1, <1>2, <1>4

(* The quotient and the remainder, and that nothing else is theirs. *)
LEMMA Division ==
    ASSUME NEW m \in Nat, NEW d \in Nat \ {0}
    PROVE  /\ m \div d \in Nat /\ m % d \in 0 .. d - 1
           /\ m = (m \div d) * d + (m % d)
           /\ \A q \in Nat, r \in 0 .. d - 1 :
                m = q * d + r => m \div d = q /\ m % d = r
<1>1. /\ m \div d \in Nat /\ m % d \in 0 .. d - 1
      /\ m = (m \div d) * d + (m % d)
  BY SMT
<1>2. ASSUME NEW q \in Nat, NEW r \in 0 .. d - 1, m = q * d + r
      PROVE  m \div d = q /\ m % d = r
  <2>1. ~(q < m \div d)  BY <1>1, <1>2, Products
  <2>2. ~(m \div d < q)  BY <1>1, <1>2, Products
  <2>3. m \div d = q  BY <1>1, <2>1, <2>2
  <2>4. q * d \in Nat  BY Products
  <2> QED BY <1>1, <1>2, <2>3, <2>4
<1> QED BY <1>1, <1>2

(* Numbers below a product, as pairs of a quotient and a remainder. *)
LEMMA Pairs ==
    ASSUME NEW n \in Nat, NEW d \in Nat \ {0}
    PROVE  /\ \A m \in 0 .. n * d - 1 : m \div d \in 0 .. n - 1
           /\ \A q \in 0 .. n - 1, r \in 0 .. d - 1 :
                q * d + r \in 0 .. n * d - 1
<1>1. ASSUME NEW m \in 0 .. n * d - 1 PROVE m \div d \in 0 .. n - 1
  <2>1. m \in Nat /\ m < n * d  BY <1>1, Products
  <2>2. /\ m \div d \in Nat /\ m % d \in 0 .. d - 1
        /\ m = (m \div d) * d + (m % d)
    BY <2>1, Division
  <2>3. ~(n <= m \div d)
    <3>1. (m \div d) * d \in Nat /\ n * d \in Nat  BY <2>2, Products
    <3> QED BY <2>1, <2>2, <3>1, Products
  <2> QED BY <2>2, <2>3
<1>2. ASSUME NEW q \in 0 .. n - 1, NEW r \in 0 .. d - 1
      PROVE  q * d + r \in 0 .. n * d - 1
  <2>1. q \in Nat /\ q < n  BY <1>2
  <2>2. q * d \in Nat /\ n * d \in Nat /\ q * d + d <= n * d
    BY <2>1, Products
  <2> QED BY <1>2, <2>2
<1> QED BY <1>1, <1>2

LEMMA Remainder ==
    ASSUME NEW d \in Nat \ {0}, NEW x \in 0 .. d - 1, NEW m, NEW q \in Nat,
           m = q * d + x
    PROVE  m % d = x
<1>1. m \in Nat  BY Products
<1> QED BY <1>1, Division

(* A block is a row and a column of blocks, a cell a row and a column. *)
LEMMA BlockPlaces ==
    /\ \A b \in Block :
        /\ b \div BlockCols \in 0 .. BlockRows - 1
        /\ b % BlockCols \in 0 .. BlockCols - 1
        /\ b = (b \div BlockCols) * BlockCols + (b % BlockCols)
    /\ \A q \in 0 .. BlockRows - 1, r \in 0 .. BlockCols - 1 :
        /\ q * BlockCols + r \in Block
        /\ (q * BlockCols + r) \div BlockCols = q
        /\ (q * BlockCols + r) % BlockCols = r
<1>1. BlockRows \in Nat /\ BlockCols \in Nat \ {0}  BY Parameters
<1>2. ASSUME NEW b \in Block
      PROVE  /\ b \div BlockCols \in 0 .. BlockRows - 1
             /\ b % BlockCols \in 0 .. BlockCols - 1
             /\ b = (b \div BlockCols) * BlockCols + (b % BlockCols)
  <2>1. b \in 0 .. BlockRows * BlockCols - 1  BY DEF Block
  <2>2. b \in Nat  BY <1>1, <2>1, Products
  <2> QED BY <1>1, <2>1, <2>2, Pairs, Division
<1>3. ASSUME NEW q \in 0 .. BlockRows - 1, NEW r \in 0 .. BlockCols - 1
      PROVE  /\ q * BlockCols + r \in Block
             /\ (q * BlockCols + r) \div BlockCols = q
             /\ (q * BlockCols + r) % BlockCols = r
  <2>1. q * BlockCols + r \in 0 .. BlockRows * BlockCols - 1
    BY <1>1, <1>3, Pairs
  <2>2. q \in Nat /\ q * BlockCols + r \in Nat
    BY <1>1, <2>1, Products
  <2>3. /\ (q * BlockCols + r) \div BlockCols = q
        /\ (q * BlockCols + r) % BlockCols = r
    BY <1>1, <1>3, <2>2, Division
  <2> QED BY <2>1, <2>3 DEF Block
<1> QED BY <1>2, <1>3

LEMMA CellPlaces ==
    ASSUME NEW c \in Cell
    PROVE  /\ c \div Width \in 0 .. Height - 1
           /\ c % Width \in 0 .. Width - 1
           /\ c = (c \div Width) * Width + (c % Width)
<1>1. Height \in Nat /\ Width \in Nat \ {0}  BY Parameters
<1>2. c \in 0 .. Height * Width - 1  BY DEF Cell
<1>3. c \in Nat  BY <1>1, <1>2, Products
<1> QED BY <1>1, <1>2, <1>3, Pairs, Division

(* The k-th place behind r on a ring of n. *)
Turn(r, k, n) == IF r + k < n THEN r + k ELSE r + k - n

LEMMA Turns ==
    ASSUME NEW n \in Nat, NEW r \in 0 .. n - 1
    PROVE  /\ \A k \in 1 .. n - 1 : Turn(r, k, n) \in 0 .. n - 1 /\ Turn(r, k, n) # r
           /\ \A k, l \in 1 .. n - 1 : Turn(r, k, n) = Turn(r, l, n) => k = l
           /\ \A x \in 0 .. n - 1 : x # r => \E k \in 1 .. n - 1 : x = Turn(r, k, n)
<1>1. ASSUME NEW x \in 0 .. n - 1, x # r
      PROVE  \E k \in 1 .. n - 1 : x = Turn(r, k, n)
  <2>1. CASE x > r
    <3>1. x - r \in 1 .. n - 1 /\ x = Turn(r, x - r, n)  BY <2>1 DEF Turn
    <3> QED BY <3>1
  <2>2. CASE x < r
    <3>1. x - r + n \in 1 .. n - 1 /\ x = Turn(r, x - r + n, n)
      BY <2>2 DEF Turn
    <3> QED BY <3>1
  <2> QED BY <1>1, <2>1, <2>2
<1> QED BY <1>1 DEF Turn

(* The neighbours beside a block: the rest of the ring of its row. *)
LEMMA RowNeighborsAre ==
    ASSUME NEW b \in Block, NEW k \in 1 .. BlockCols - 1
    PROVE  /\ RowNeighbors(b)[k] \in Block
           /\ RowNeighbors(b)[k] \div BlockCols = b \div BlockCols
           /\ RowNeighbors(b)[k] % BlockCols = Turn(b % BlockCols, k, BlockCols)
<1> DEFINE q == b \div BlockCols
           r == b % BlockCols
<1>1. BlockCols \in Nat \ {0}  BY Parameters
<1>2. /\ q \in 0 .. BlockRows - 1 /\ r \in 0 .. BlockCols - 1
      /\ b = q * BlockCols + r
  BY BlockPlaces
<1> HIDE DEF q, r
<1>3. q \in Nat /\ q * BlockCols \in Nat /\ (q + 1) * BlockCols = q * BlockCols + BlockCols
  <2>1. q \in Nat  BY <1>2, Parameters
  <2> QED BY <1>1, <2>1, Products
<1>4. Turn(r, k, BlockCols) \in 0 .. BlockCols - 1  BY <1>1, <1>2, Turns
<1>5. (b + k) % BlockCols = Turn(r, k, BlockCols)
  <2>0. b + k \in Nat  BY <1>2, <1>3
  <2>1. CASE r + k < BlockCols
    <3>1. b + k = q * BlockCols + (r + k) /\ r + k \in 0 .. BlockCols - 1
      BY <1>1, <1>2, <1>3, <2>1
    <3>2. (b + k) % BlockCols = r + k  BY <1>1, <1>3, <2>0, <3>1, Division
    <3> QED BY <2>1, <3>2 DEF Turn
  <2>2. CASE ~(r + k < BlockCols)
    <3>1. /\ b + k = (q + 1) * BlockCols + (r + k - BlockCols)
          /\ r + k - BlockCols \in 0 .. BlockCols - 1
      BY <1>1, <1>2, <1>3, <2>2
    <3>2. (b + k) % BlockCols = r + k - BlockCols
      BY <1>1, <1>3, <3>1, q + 1 \in Nat, Remainder
    <3> QED BY <2>2, <3>2 DEF Turn
  <2> QED BY <2>1, <2>2
<1>6. RowNeighbors(b)[k] = q * BlockCols + Turn(r, k, BlockCols)
  <2>1. RowNeighbors(b)[k] = ((b + k) % BlockCols) + q * BlockCols
    BY DEF RowNeighbors, q
  <2> QED BY <1>3, <1>4, <1>5, <2>1
<1>7. /\ q * BlockCols + Turn(r, k, BlockCols) \in Block
      /\ (q * BlockCols + Turn(r, k, BlockCols)) \div BlockCols = q
      /\ (q * BlockCols + Turn(r, k, BlockCols)) % BlockCols = Turn(r, k, BlockCols)
  BY <1>2, <1>4, BlockPlaces
<1> QED BY <1>6, <1>7 DEF q, r

(* Those above and below: the rest of the ring of its column. *)
LEMMA ColumnNeighborsAre ==
    ASSUME NEW b \in Block, NEW k \in 1 .. BlockRows - 1
    PROVE  /\ ColumnNeighbors(b)[k] \in Block
           /\ ColumnNeighbors(b)[k] \div BlockCols =
                Turn(b \div BlockCols, k, BlockRows)
           /\ ColumnNeighbors(b)[k] % BlockCols = b % BlockCols
<1> DEFINE q == b \div BlockCols
           r == b % BlockCols
           all == BlockRows * BlockCols
<1>1. BlockCols \in Nat \ {0} /\ BlockRows \in Nat  BY Parameters
<1>2. /\ q \in 0 .. BlockRows - 1 /\ r \in 0 .. BlockCols - 1
      /\ b = q * BlockCols + r
  BY BlockPlaces
<1> HIDE DEF q, r, all
<1>3. Turn(q, k, BlockRows) \in 0 .. BlockRows - 1  BY <1>1, <1>2, Turns
<1>4. /\ Turn(q, k, BlockRows) * BlockCols + r \in Block
      /\ (Turn(q, k, BlockRows) * BlockCols + r) \div BlockCols = Turn(q, k, BlockRows)
      /\ (Turn(q, k, BlockRows) * BlockCols + r) % BlockCols = r
  BY <1>2, <1>3, BlockPlaces
<1>5. q \in Nat /\ k \in Nat /\ (q + k) * BlockCols = q * BlockCols + k * BlockCols
  <2>1. q \in Nat /\ k \in Nat  BY <1>2
  <2> QED BY <1>1, <2>1, Products
<1>6. /\ q * BlockCols \in Nat /\ k * BlockCols \in Nat /\ all \in Nat
      /\ Turn(q, k, BlockRows) * BlockCols \in Nat
  BY <1>1, <1>3, <1>5, Products DEF all
<1>7. b + k * BlockCols = (q + k) * BlockCols + r  BY <1>1, <1>2, <1>5, <1>6
<1>8. (b + k * BlockCols) % all = Turn(q, k, BlockRows) * BlockCols + r
  <2>0. /\ all \in Nat \ {0}
        /\ Turn(q, k, BlockRows) * BlockCols + r \in 0 .. all - 1
    <3>1. Turn(q, k, BlockRows) * BlockCols + r \in 0 .. all - 1
      BY <1>4 DEF Block, all
    <3> QED BY <1>6, <3>1
  <2>1. b + k * BlockCols \in Nat  BY <1>1, <1>2, <1>6
  <2>2. CASE q + k < BlockRows
    <3>1. Turn(q, k, BlockRows) = q + k  BY <2>2 DEF Turn
    <3>2. b + k * BlockCols = 0 * all + (Turn(q, k, BlockRows) * BlockCols + r)
      BY <1>1, <1>2, <1>6, <1>7, <3>1
    <3> QED BY <2>0, <2>1, <3>2, Division
  <2>3. CASE ~(q + k < BlockRows)
    <3>1. Turn(q, k, BlockRows) + BlockRows = q + k  BY <1>1, <1>5, <2>3 DEF Turn
    <3>2. (q + k) * BlockCols = Turn(q, k, BlockRows) * BlockCols + all
      BY <1>1, <1>3, <3>1, Products DEF all
    <3>3. b + k * BlockCols = 1 * all + (Turn(q, k, BlockRows) * BlockCols + r)
      BY <1>1, <1>2, <1>6, <1>7, <3>2
    <3> QED BY <2>0, <3>3, 1 \in Nat, Remainder
  <2> QED BY <2>2, <2>3
<1>9. ColumnNeighbors(b)[k] = Turn(q, k, BlockRows) * BlockCols + r
  BY <1>8 DEF ColumnNeighbors, all
<1> QED BY <1>4, <1>9 DEF q, r

(* Blocks of one row or column of blocks. *)
InLine(o, b, line) ==
    IF line = "r" THEN o \div BlockCols = b \div BlockCols
                  ELSE o % BlockCols = b % BlockCols

(* The blocks asked in a line are the other blocks of it, each once. *)
LEMMA NeighborsAre ==
    ASSUME NEW b \in Block, NEW line \in Line
    PROVE  /\ Others(line) \in Nat \ {0}
           /\ Len(Neighbors(b, line)) = Others(line)
           /\ \A k \in 1 .. Others(line) : Neighbors(b, line)[k] \in Block \ {b}
           /\ \A k, l \in 1 .. Others(line) :
                Neighbors(b, line)[k] = Neighbors(b, line)[l] => k = l
           /\ \A o \in Block \ {b} : InLine(o, b, line) =>
                \E k \in 1 .. Others(line) : o = Neighbors(b, line)[k]
<1>1. /\ BlockCols \in Nat /\ BlockCols > 1 /\ BlockRows \in Nat /\ BlockRows > 1
  BY Parameters
<1>2. /\ b \div BlockCols \in 0 .. BlockRows - 1
      /\ b % BlockCols \in 0 .. BlockCols - 1
  BY BlockPlaces
<1>3. ASSUME NEW o \in Block, NEW p \in Block,
             o \div BlockCols = p \div BlockCols, o % BlockCols = p % BlockCols
      PROVE  o = p
  BY <1>3, BlockPlaces
<1>4. CASE line = "r"
  <2>1. /\ Others(line) = BlockCols - 1
        /\ Neighbors(b, line) = RowNeighbors(b)
    BY <1>4 DEF Others, Neighbors
  <2>2. Len(RowNeighbors(b)) = BlockCols - 1
    BY <1>1 DEF RowNeighbors
  <2>3. ASSUME NEW k \in 1 .. BlockCols - 1
        PROVE  RowNeighbors(b)[k] \in Block \ {b}
    <3>1. Turn(b % BlockCols, k, BlockCols) # b % BlockCols
      BY <1>1, <1>2, <2>3, Turns
    <3> QED BY <2>3, <3>1, RowNeighborsAre
  <2>4. ASSUME NEW k \in 1 .. BlockCols - 1, NEW l \in 1 .. BlockCols - 1,
               RowNeighbors(b)[k] = RowNeighbors(b)[l]
        PROVE  k = l
    <3>1. Turn(b % BlockCols, k, BlockCols) = Turn(b % BlockCols, l, BlockCols)
      BY <2>4, RowNeighborsAre
    <3> QED BY <1>1, <1>2, <3>1, Turns
  <2>5. ASSUME NEW o \in Block \ {b}, o \div BlockCols = b \div BlockCols
        PROVE  \E k \in 1 .. BlockCols - 1 : o = RowNeighbors(b)[k]
    <3>1. /\ o % BlockCols # b % BlockCols
          /\ o % BlockCols \in 0 .. BlockCols - 1
      BY <1>3, <2>5, BlockPlaces
    <3>2. PICK k \in 1 .. BlockCols - 1 :
            o % BlockCols = Turn(b % BlockCols, k, BlockCols)
      BY <1>1, <1>2, <3>1, Turns
    <3>3. o = RowNeighbors(b)[k]  BY <1>3, <2>5, <3>2, RowNeighborsAre
    <3> QED BY <3>3
  <2>6. BlockCols - 1 \in Nat \ {0}  BY <1>1
  <2>7. \A o \in Block \ {b} : InLine(o, b, line) =>
            \E k \in 1 .. BlockCols - 1 : o = RowNeighbors(b)[k]
    BY <1>4, <2>5 DEF InLine
  <2>8. /\ Others(line) \in Nat \ {0}
        /\ Len(Neighbors(b, line)) = Others(line)
    BY <2>1, <2>2, <2>6
  <2>9. \A k \in 1 .. Others(line) : Neighbors(b, line)[k] \in Block \ {b}
    BY <2>1, <2>3
  <2>10. \A k, l \in 1 .. Others(line) :
            Neighbors(b, line)[k] = Neighbors(b, line)[l] => k = l
    BY <2>1, <2>4
  <2>11. \A o \in Block \ {b} : InLine(o, b, line) =>
            \E k \in 1 .. Others(line) : o = Neighbors(b, line)[k]
    BY <2>1, <2>7
  <2> QED BY <2>8, <2>9, <2>10, <2>11
<1>5. CASE line = "c"
  <2>1. /\ Others(line) = BlockRows - 1
        /\ Neighbors(b, line) = ColumnNeighbors(b)
    BY <1>5 DEF Others, Neighbors
  <2>2. Len(ColumnNeighbors(b)) = BlockRows - 1
    BY <1>1 DEF ColumnNeighbors
  <2>3. ASSUME NEW k \in 1 .. BlockRows - 1
        PROVE  ColumnNeighbors(b)[k] \in Block \ {b}
    <3>1. Turn(b \div BlockCols, k, BlockRows) # b \div BlockCols
      BY <1>1, <1>2, <2>3, Turns
    <3> QED BY <2>3, <3>1, ColumnNeighborsAre
  <2>4. ASSUME NEW k \in 1 .. BlockRows - 1, NEW l \in 1 .. BlockRows - 1,
               ColumnNeighbors(b)[k] = ColumnNeighbors(b)[l]
        PROVE  k = l
    <3>1. Turn(b \div BlockCols, k, BlockRows) = Turn(b \div BlockCols, l, BlockRows)
      BY <2>4, ColumnNeighborsAre
    <3> QED BY <1>1, <1>2, <3>1, Turns
  <2>5. ASSUME NEW o \in Block \ {b}, o % BlockCols = b % BlockCols
        PROVE  \E k \in 1 .. BlockRows - 1 : o = ColumnNeighbors(b)[k]
    <3>1. /\ o \div BlockCols # b \div BlockCols
          /\ o \div BlockCols \in 0 .. BlockRows - 1
      BY <1>3, <2>5, BlockPlaces
    <3>2. PICK k \in 1 .. BlockRows - 1 :
            o \div BlockCols = Turn(b \div BlockCols, k, BlockRows)
      BY <1>1, <1>2, <3>1, Turns
    <3>3. o = ColumnNeighbors(b)[k]  BY <1>3, <2>5, <3>2, ColumnNeighborsAre
    <3> QED BY <3>3
  <2>6. BlockRows - 1 \in Nat \ {0}  BY <1>1
  <2>7. \A o \in Block \ {b} : InLine(o, b, line) =>
            \E k \in 1 .. BlockRows - 1 : o = ColumnNeighbors(b)[k]
    BY <1>5, <2>5 DEF InLine
  <2>8. /\ Others(line) \in Nat \ {0}
        /\ Len(Neighbors(b, line)) = Others(line)
    BY <2>1, <2>2, <2>6
  <2>9. \A k \in 1 .. Others(line) : Neighbors(b, line)[k] \in Block \ {b}
    BY <2>1, <2>3
  <2>10. \A k, l \in 1 .. Others(line) :
            Neighbors(b, line)[k] = Neighbors(b, line)[l] => k = l
    BY <2>1, <2>4
  <2>11. \A o \in Block \ {b} : InLine(o, b, line) =>
            \E k \in 1 .. Others(line) : o = Neighbors(b, line)[k]
    BY <2>1, <2>7
  <2> QED BY <2>8, <2>9, <2>10, <2>11
<1> QED BY <1>4, <1>5 DEF Line

LEMMA SamePair ==
    ASSUME NEW d \in Nat \ {0}, NEW m \in Nat, NEW n \in Nat,
           NEW x \in 0 .. d - 1, NEW y \in 0 .. d - 1, m * d + x = n * d + y
    PROVE  m = n /\ x = y
<1>1. m * d + x \in Nat  BY Products
<1> QED BY <1>1, Division

(* Squares of different blocks share a line only if the blocks are neighbours. *)
LEMMA SharedLine ==
    ASSUME NEW s \in Squares, NEW t \in Squares, SameUnit(s, t), s[1] # t[1]
    PROVE  \E line \in Line :
                /\ Index(line, t[2]) = Index(line, s[2])
                /\ \E k \in 1 .. Others(line) : t[1] = Neighbors(s[1], line)[k]
<1>1. s[1] \in Block /\ t[1] \in Block /\ s[2] \in Cell /\ t[2] \in Cell
  BY DEF Squares
<1>2. Height \in Nat \ {0} /\ Width \in Nat \ {0}  BY Parameters
<1>3. /\ s[1] \div BlockCols \in Nat /\ s[1] % BlockCols \in Nat
      /\ t[1] \div BlockCols \in Nat /\ t[1] % BlockCols \in Nat
  <2>1. ASSUME NEW x \in Block
        PROVE  x \div BlockCols \in Nat /\ x % BlockCols \in Nat
    <3>1. /\ x \div BlockCols \in 0 .. BlockRows - 1
          /\ x % BlockCols \in 0 .. BlockCols - 1
      BY BlockPlaces
    <3> QED BY <3>1, Parameters
  <2> QED BY <1>1, <2>1
<1>4. /\ s[2] \div Width \in 0 .. Height - 1 /\ s[2] % Width \in 0 .. Width - 1
      /\ t[2] \div Width \in 0 .. Height - 1 /\ t[2] % Width \in 0 .. Width - 1
  BY <1>1, CellPlaces
<1>6. CASE Row(s) = Row(t)
  <2>0. (s[1] \div BlockCols) * Height + (s[2] \div Width)
            = (t[1] \div BlockCols) * Height + (t[2] \div Width)
    BY <1>6 DEF Row
  <2>1. /\ t[2] \div Width = s[2] \div Width
        /\ t[1] \div BlockCols = s[1] \div BlockCols
    BY <1>2, <1>3, <1>4, <2>0, SamePair
  <2>2. Index("r", t[2]) = Index("r", s[2])  BY <2>1 DEF Index
  <2>3. \E k \in 1 .. Others("r") : t[1] = Neighbors(s[1], "r")[k]
    <3>1. InLine(t[1], s[1], "r")  BY <2>1 DEF InLine
    <3>2. "r" \in Line  BY DEF Line
    <3>3. t[1] \in Block \ {s[1]}  BY <1>1
    <3> QED BY <1>1, <3>1, <3>2, <3>3, NeighborsAre
  <2> QED BY <2>2, <2>3 DEF Line
<1>7. CASE Column(s) = Column(t)
  <2>0. (s[1] % BlockCols) * Width + (s[2] % Width)
            = (t[1] % BlockCols) * Width + (t[2] % Width)
    BY <1>7 DEF Column
  <2>1. /\ t[2] % Width = s[2] % Width
        /\ t[1] % BlockCols = s[1] % BlockCols
    BY <1>2, <1>3, <1>4, <2>0, SamePair
  <2>2. Index("c", t[2]) = Index("c", s[2])  BY <2>1 DEF Index
  <2>3. \E k \in 1 .. Others("c") : t[1] = Neighbors(s[1], "c")[k]
    <3>1. InLine(t[1], s[1], "c")  BY <2>1 DEF InLine
    <3>2. "c" \in Line  BY DEF Line
    <3>3. t[1] \in Block \ {s[1]}  BY <1>1
    <3> QED BY <1>1, <3>1, <3>2, <3>3, NeighborsAre
  <2> QED BY <2>2, <2>3 DEF Line
<1> QED BY <1>6, <1>7 DEF SameUnit

(***************************************************************************)
(* A digit that is nowhere in the block, nor on the line of any neighbour, *)
(* may be placed.                                                          *)
(***************************************************************************)
LEMMA PlacedObeys ==
    ASSUME NEW board \in Board, Obeys(board),
           NEW b \in Block, NEW c \in Cell, NEW d \in Digit \ {0},
           \A e \in Cell : board[b][e] # d,
           \A line \in Line : \A k \in 1 .. Others(line) :
                \A e \in OnLine(line, Index(line, c)) :
                    board[Neighbors(b, line)[k]][e] # d
    PROVE  Obeys([board EXCEPT ![b][c] = d])
<1> DEFINE new == [board EXCEPT ![b][c] = d]
           u   == <<b, c>>
<1>1. u \in Squares /\ u[1] = b /\ u[2] = c  BY DEF Squares
<1>2. ASSUME NEW o \in Block, NEW e \in Cell
      PROVE  new[o][e] = IF o = b /\ e = c THEN d ELSE board[o][e]
  BY DEF Board
<1>3. ASSUME NEW t \in Squares, t # u, SameUnit(u, t)
      PROVE  board[t[1]][t[2]] # d
  <2>1. t[1] \in Block /\ t[2] \in Cell /\ t = <<t[1], t[2]>>  BY DEF Squares
  <2>2. CASE t[1] = b  BY <2>1, <2>2
  <2>3. CASE t[1] # b
    <3>1. PICK line \in Line :
            /\ Index(line, t[2]) = Index(line, c)
            /\ \E k \in 1 .. Others(line) : t[1] = Neighbors(b, line)[k]
      BY <1>1, <1>3, <2>3, SharedLine
    <3>2. t[2] \in OnLine(line, Index(line, c))  BY <2>1, <3>1 DEF OnLine
    <3> QED BY <3>1, <3>2
  <2> QED BY <2>2, <2>3
<1>4. ASSUME NEW s \in Squares, NEW t \in Squares, s # t, SameUnit(s, t),
             new[s[1]][s[2]] # 0
      PROVE  new[s[1]][s[2]] # new[t[1]][t[2]]
  <2>1. /\ s[1] \in Block /\ s[2] \in Cell /\ s = <<s[1], s[2]>>
        /\ t[1] \in Block /\ t[2] \in Cell /\ t = <<t[1], t[2]>>
    BY DEF Squares
  <2>2. SameUnit(t, s)  BY <1>4 DEF SameUnit
  <2>3. CASE s = u
    <3>1. new[s[1]][s[2]] = d /\ new[t[1]][t[2]] = board[t[1]][t[2]]
      BY <1>2, <1>4, <2>1, <2>3
    <3> QED BY <1>3, <1>4, <2>3, <3>1
  <2>4. CASE t = u
    <3>1. new[t[1]][t[2]] = d /\ new[s[1]][s[2]] = board[s[1]][s[2]]
      BY <1>2, <1>4, <2>1, <2>4
    <3> QED BY <1>3, <1>4, <2>2, <2>4, <3>1
  <2>5. CASE s # u /\ t # u
    <3>1. /\ new[t[1]][t[2]] = board[t[1]][t[2]]
          /\ new[s[1]][s[2]] = board[s[1]][s[2]]
      BY <1>2, <2>1, <2>5
    <3> QED BY <1>4, <3>1 DEF Obeys
  <2> QED BY <2>3, <2>4, <2>5
<1> HIDE DEF new
<1>5. Obeys(new)  BY <1>4 DEF Obeys
<1> QED BY <1>5 DEF new

(* Solutions obey, and puzzles as parts of them. *)
LEMMA GamesObey ==
    ASSUME NEW game \in Games
    PROVE  /\ game.A \in Board /\ game.S \in Board
           /\ Obeys(game.A) /\ Obeys(game.S)
<1>1. game.A \in Board /\ game.S \in Board  BY BoardAssumption
<1>2. /\ Obeys(game.S)
      /\ \A s \in Squares : game.A[s[1]][s[2]] \in {0, game.S[s[1]][s[2]]}
  BY BoardAssumption
<1>3. ASSUME NEW s \in Squares, NEW t \in Squares, s # t, SameUnit(s, t),
             game.A[s[1]][s[2]] # 0
      PROVE  game.A[s[1]][s[2]] # game.A[t[1]][t[2]]
  <2>1. /\ game.A[s[1]][s[2]] = game.S[s[1]][s[2]]
        /\ game.A[t[1]][t[2]] \in {0, game.S[t[1]][t[2]]}
    BY <1>2, <1>3
  <2>2. game.S[s[1]][s[2]] # game.S[t[1]][t[2]]
    BY <1>2, <1>3, <2>1 DEF Obeys
  <2> QED BY <1>3, <2>1, <2>2
<1> QED BY <1>1, <1>2, <1>3 DEF Obeys

-----------------------------------------------------------------------------
(* Tokens and queues                                                       *)

(* What the first letter of a token says of the rest. *)
LEMMA TokenKinds ==
    /\ \A x \in Tokens :
        /\ x.cmd = "number" => x \in Numbers
        /\ x.cmd = "p" => x.cell \in Cell /\ x.digit \in 1 .. MaxDigit
        /\ x.cmd \in Line =>
            /\ x.index \in Nat /\ x.digit \in Digit /\ x.reply \in Block
    /\ \A x \in Numbers :
        x.cmd = "number" /\ x.value \in Digit /\ x = Number(x.value)
    /\ \A x \in Placements : x.cmd = "p"
    /\ \A b \in Block : \A x \in RequestsOf(b) : x.cmd \in Line /\ x.reply = b
    /\ NewBoard.cmd = "n" /\ QuitCommand.cmd = "q"
<1>1. ASSUME NEW x \in Numbers
      PROVE  x.cmd = "number" /\ x.value \in Digit /\ x = Number(x.value)
  BY DEF Numbers, Number
<1>2. ASSUME NEW x \in Placements
      PROVE  x.cmd = "p" /\ x.cell \in Cell /\ x.digit \in 1 .. MaxDigit
  BY DEF Placements, Placement
<1>3. ASSUME NEW b \in Block, NEW x \in RequestsOf(b)
      PROVE  /\ x.cmd \in Line /\ x.reply = b
             /\ x.index \in Nat /\ x.digit \in Digit
  BY DEF RequestsOf, Request
<1>4. NewBoard.cmd = "n" /\ QuitCommand.cmd = "q"
  BY DEF NewBoard, QuitCommand
<1>5. ASSUME NEW x \in Tokens
      PROVE  \/ x \in Numbers \/ x \in Placements
             \/ x.cmd = "n" \/ x.cmd = "q"
             \/ \E b \in Block : x \in RequestsOf(b)
  BY <1>4 DEF Tokens
<1>6. ASSUME NEW x \in Tokens
      PROVE  /\ x.cmd = "number" => x \in Numbers
             /\ x.cmd = "p" => x.cell \in Cell /\ x.digit \in 1 .. MaxDigit
             /\ x.cmd \in Line =>
                /\ x.index \in Nat /\ x.digit \in Digit /\ x.reply \in Block
  <2>1. CASE x \in Numbers  BY <1>1, <2>1 DEF Line
  <2>2. CASE x \in Placements  BY <1>2, <2>2 DEF Line
  <2>3. CASE x.cmd = "n" \/ x.cmd = "q"  BY <2>3 DEF Line
  <2>4. ASSUME NEW b \in Block, x \in RequestsOf(b)
        PROVE  x.cmd \in Line /\ x.index \in Nat /\ x.digit \in Digit /\ x.reply \in Block
    BY <1>3, <2>4
  <2>5. CASE \E b \in Block : x \in RequestsOf(b)  BY <2>4, <2>5 DEF Line
  <2> QED BY <1>5, <2>1, <2>2, <2>3, <2>5
<1> QED BY <1>1, <1>2, <1>3, <1>4, <1>6

LEMMA TokensAre ==
    /\ Numbers \subseteq Tokens /\ Placements \subseteq Tokens
    /\ NewBoard \in Tokens /\ QuitCommand \in Tokens
    /\ \A b \in Block : RequestsOf(b) \subseteq Tokens
    /\ \A v \in Digit : Number(v) \in Numbers
    /\ \A c \in Cell, d \in 1 .. MaxDigit : Placement(c, d) \in Placements
    /\ \A line \in Line, k \in Nat, d \in Digit, b \in Block :
        Request(line, k, d, b) \in RequestsOf(b)
    /\ 0 \in Digit /\ 1 \in Digit
BY Parameters DEF Tokens, Numbers, Placements, RequestsOf, Digit

(* The first token and the rest. *)
LEMMA TakenFrom ==
    ASSUME NEW q \in Seq(Tokens), q # <<>>
    PROVE  /\ Len(q) \in Nat /\ Len(q) > 0 /\ DOMAIN q = 1 .. Len(q)
           /\ Head(q) = q[1] /\ Head(q) \in Tokens
           /\ Tail(q) \in Seq(Tokens) /\ Len(Tail(q)) = Len(q) - 1
           /\ DOMAIN Tail(q) = 1 .. Len(q) - 1
           /\ \A i \in 1 .. Len(q) - 1 : Tail(q)[i] = q[i + 1]
OBVIOUS

LEMMA AddedTo ==
    ASSUME NEW q \in Seq(Tokens), NEW x \in Tokens
    PROVE  /\ Len(q) \in Nat /\ DOMAIN q = 1 .. Len(q)
           /\ Append(q, x) \in Seq(Tokens) /\ Len(Append(q, x)) = Len(q) + 1
           /\ DOMAIN Append(q, x) = 1 .. Len(q) + 1
           /\ \A i \in 1 .. Len(q) : Append(q, x)[i] = q[i]
           /\ Append(q, x)[Len(q) + 1] = x
OBVIOUS

(* A queue of numbers with a token of one kind behind them, as it is read. *)
LEMMA EndsRead ==
    ASSUME NEW tokens, NEW q \in Seq(Tokens), q # <<>>, EndsIn(tokens, q)
    PROVE  /\ EndsIn(tokens, Tail(q))
           /\ Head(q) \in Numbers => (Quiet(Tail(q)) <=> Quiet(q))
           /\ Head(q) \notin Numbers =>
                Head(q) \in tokens /\ Tail(q) = <<>> /\ ~Quiet(q)
<1>1. /\ Len(q) \in Nat /\ Len(q) > 0 /\ DOMAIN q = 1 .. Len(q)
      /\ Head(q) = q[1]
      /\ Tail(q) \in Seq(Tokens) /\ Len(Tail(q)) = Len(q) - 1
      /\ DOMAIN Tail(q) = 1 .. Len(q) - 1
      /\ \A i \in 1 .. Len(q) - 1 : Tail(q)[i] = q[i + 1]
  BY TakenFrom
<1> DEFINE n == Len(q)
<1>0. n \in Nat /\ n > 0 /\ Len(Tail(q)) = n - 1  BY <1>1
<1> HIDE DEF n
<1>2. EndsIn(tokens, Tail(q))
  <2>1. ASSUME NEW i \in 1 .. Len(q) - 1
        PROVE  \/ Tail(q)[i] \in Numbers
               \/ i = Len(Tail(q)) /\ Tail(q)[i] \in tokens
    <3>1. i + 1 \in DOMAIN q /\ Tail(q)[i] = q[i + 1]  BY <1>1
    <3>2. q[i + 1] \in Numbers \/ (i + 1 = Len(q) /\ q[i + 1] \in tokens)
      BY <3>1 DEF EndsIn
    <3>3. ASSUME i + 1 = n PROVE i = Len(Tail(q))
      <4>1. i \in Int  OBVIOUS
      <4> QED BY <1>0, <3>3, <4>1
    <3> QED BY <3>1, <3>2, <3>3 DEF n
  <2> QED BY <1>1, <2>1 DEF EndsIn
<1>3. ASSUME Head(q) \in Numbers PROVE Quiet(Tail(q)) <=> Quiet(q)
  <2>1. ASSUME Quiet(q) PROVE Quiet(Tail(q))
    BY <1>1, <2>1 DEF Quiet, EndsIn
  <2>2. ASSUME Quiet(Tail(q)), NEW i \in 1 .. Len(q) PROVE q[i] \in Numbers
    <3>1. CASE i = 1  BY <1>1, <1>3, <3>1
    <3>2. CASE i # 1
      <4>1. i - 1 \in 1 .. Len(q) - 1 /\ (i - 1) + 1 = i  BY <1>1, <3>2
      <4>2. Tail(q)[i - 1] = q[i] /\ Tail(q)[i - 1] \in Numbers
        BY <1>1, <2>2, <4>1 DEF Quiet, EndsIn
      <4> QED BY <4>2
    <3> QED BY <3>1, <3>2
  <2> QED BY <1>1, <2>1, <2>2 DEF Quiet, EndsIn
<1>4. ASSUME Head(q) \notin Numbers
      PROVE  Head(q) \in tokens /\ Tail(q) = <<>> /\ ~Quiet(q)
  <2>1. 1 \in DOMAIN q  BY <1>1
  <2>2. Len(q) = 1 /\ Head(q) \in tokens /\ ~Quiet(q)
    BY <1>1, <1>4, <2>1 DEF EndsIn, Quiet
  <2> QED BY <1>1, <2>2
<1> QED BY <1>2, <1>3, <1>4

(* As it is written. *)
LEMMA EndsWritten ==
    ASSUME NEW tokens, NEW q \in Seq(Tokens), Quiet(q), NEW x \in Tokens
    PROVE  /\ x \in tokens => EndsIn(tokens, Append(q, x))
           /\ Quiet(Append(q, x)) <=> x \in Numbers
<1>1. /\ Len(q) \in Nat /\ DOMAIN q = 1 .. Len(q)
      /\ Append(q, x) \in Seq(Tokens) /\ Len(Append(q, x)) = Len(q) + 1
      /\ DOMAIN Append(q, x) = 1 .. Len(q) + 1
      /\ \A i \in 1 .. Len(q) : Append(q, x)[i] = q[i]
      /\ Append(q, x)[Len(q) + 1] = x
  BY AddedTo
<1>2. \A i \in 1 .. Len(q) : q[i] \in Numbers  BY <1>1 DEF Quiet, EndsIn
<1>3. \A i \in 1 .. Len(q) + 1 : i \in 1 .. Len(q) \/ i = Len(q) + 1  BY <1>1
<1>4. Len(q) + 1 \in 1 .. Len(q) + 1  BY <1>1
<1> QED BY <1>1, <1>2, <1>3, <1>4 DEF Quiet, EndsIn

LEMMA EndsWeaker ==
    ASSUME NEW tokens, NEW more, tokens \subseteq more, NEW q, EndsIn(tokens, q)
    PROVE  EndsIn(more, q)
BY DEF EndsIn

LEMMA QuietAre ==
    ASSUME NEW q \in Seq(Tokens), Quiet(q)
    PROVE  \A i \in DOMAIN q : q[i] \in Numbers
BY DEF Quiet, EndsIn

LEMMA QuietEnds ==
    ASSUME NEW tokens, NEW q, Quiet(q)
    PROVE  EndsIn(tokens, q)
BY DEF Quiet, EndsIn

-----------------------------------------------------------------------------
(* Types and counters, however commands overlap                            *)

(* The write that comes next: a cell of a block, or the n before them. *)
LEMMA Writing ==
    ASSUME sent \in Nat
    PROVE  /\ PerBlock \in Nat \ {0, 1} /\ Writes \in Nat \ {0}
           /\ sent < Writes => sent \div PerBlock \in Block
           /\ sent % PerBlock \in 0 .. PerBlock - 1
           /\ sent = (sent \div PerBlock) * PerBlock + (sent % PerBlock)
           /\ 0 \in Cell /\ 0 \in Block
           /\ \A i \in 1 .. PerBlock - 1 : i - 1 \in Cell
           /\ Cell = 0 .. PerBlock - 2
<1>1. /\ Height \in Nat /\ Width \in Nat /\ Height > 0 /\ Width > 0
      /\ BlockRows \in Nat /\ BlockCols \in Nat /\ BlockRows > 0 /\ BlockCols > 0
  BY Parameters
<1>2. /\ Height * Width \in Nat /\ 1 * Width <= Height * Width
      /\ BlockRows * BlockCols \in Nat /\ 1 * BlockCols <= BlockRows * BlockCols
  <2>1. 1 \in Nat /\ 1 <= Height /\ 1 <= BlockRows  BY <1>1
  <2> QED BY <1>1, <2>1, Products
<1>3. Height * Width > 0 /\ BlockRows * BlockCols > 0  BY <1>1, <1>2
<1> DEFINE n == BlockRows * BlockCols
<1>4. PerBlock \in Nat \ {0, 1}  BY <1>2, <1>3 DEF PerBlock
<1>5. n \in Nat /\ n > 0  BY <1>2, <1>3
<1>6. Writes = n * PerBlock  BY <1>1, <1>4 DEF Writes
<1>7. Block = 0 .. n - 1  BY DEF Block
<1>8. Cell = 0 .. PerBlock - 2  BY <1>2 DEF Cell, PerBlock
<1> HIDE DEF n
<1>9. Writes \in Nat \ {0}
  <2>1. 1 * PerBlock <= n * PerBlock /\ n * PerBlock \in Nat
    BY <1>4, <1>5, 1 \in Nat, Products
  <2> QED BY <1>4, <1>6, <2>1
<1>10. sent < Writes => sent \div PerBlock \in Block
  <2>1. n * PerBlock \in Nat  BY <1>6, <1>9
  <2>2. sent < Writes => sent \in 0 .. n * PerBlock - 1  BY <1>6, <2>1
  <2> QED BY <1>4, <1>5, <1>7, <2>2, Pairs
<1>11. /\ sent % PerBlock \in 0 .. PerBlock - 1
       /\ sent = (sent \div PerBlock) * PerBlock + (sent % PerBlock)
  BY <1>4, Division
<1>12. 0 \in Cell /\ 0 \in Block /\ \A i \in 1 .. PerBlock - 1 : i - 1 \in Cell
  BY <1>4, <1>5, <1>7, <1>8
<1> QED BY <1>4, <1>8, <1>9, <1>10, <1>11, <1>12

LEMMA PipeWritten ==
    ASSUME Types, NEW b \in Block, NEW x \in Tokens, Write(b, x)
    PROVE  /\ pipe' \in [Block -> Seq(Tokens)]
           /\ pipe'[b] = Append(pipe[b], x)
           /\ \A o \in Block \ {b} : pipe'[o] = pipe[o]
<1>1. pipe \in [Block -> Seq(Tokens)]  BY DEF Types
<1>2. Append(pipe[b], x) \in Seq(Tokens)  BY <1>1, AddedTo
<1>3. pipe' = [pipe EXCEPT ![b] = Append(pipe[b], x)]  BY DEF Write
<1> QED BY <1>1, <1>2, <1>3

LEMMA PipeRead ==
    ASSUME Types, NEW b \in Block, pipe[b] # <<>>, Consume(b)
    PROVE  /\ pipe' \in [Block -> Seq(Tokens)]
           /\ pipe'[b] = Tail(pipe[b])
           /\ \A o \in Block \ {b} : pipe'[o] = pipe[o]
<1>1. pipe \in [Block -> Seq(Tokens)]  BY DEF Types
<1>2. Tail(pipe[b]) \in Seq(Tokens)  BY <1>1, TakenFrom
<1>3. pipe' = [pipe EXCEPT ![b] = Tail(pipe[b])]  BY DEF Consume
<1> QED BY <1>1, <1>2, <1>3

Base == Types /\ Counters /\ Solved

(* Where a block stands has its type as long as it counts what is there. *)
LEMMA Moved ==
    ASSUME Base, NEW b \in Block,
           NEW to \in {"command", "board", "ask", "answers", "gone"},
           NEW n \in Nat, NEW m \in Moves,
           bpc' = [bpc EXCEPT ![b] = to], at' = [at EXCEPT ![b] = n],
           move' = [move EXCEPT ![b] = m],
           to = "command" => n = 0, to = "board" => n \in Cell,
           to \in {"ask", "answers"} => n < Others(m.line)
    PROVE  /\ bpc' \in [Block -> {"command", "board", "ask", "answers", "gone"}]
           /\ at' \in [Block -> Nat] /\ move' \in [Block -> Moves]
           /\ \A o \in Block :
                /\ bpc'[o] = "command" => at'[o] = 0
                /\ bpc'[o] = "board" => at'[o] \in Cell
                /\ bpc'[o] \in {"ask", "answers"} => at'[o] < Others(move'[o].line)
<1>1. /\ bpc \in [Block -> {"command", "board", "ask", "answers", "gone"}]
      /\ at \in [Block -> Nat] /\ move \in [Block -> Moves]
  BY DEF Base, Types
<1>2. /\ bpc' \in [Block -> {"command", "board", "ask", "answers", "gone"}]
      /\ at' \in [Block -> Nat] /\ move' \in [Block -> Moves]
  BY <1>1
<1>3. ASSUME NEW o \in Block
      PROVE  /\ bpc'[o] = "command" => at'[o] = 0
             /\ bpc'[o] = "board" => at'[o] \in Cell
             /\ bpc'[o] \in {"ask", "answers"} => at'[o] < Others(move'[o].line)
  <2>1. CASE o = b
    <3>1. bpc'[o] = to /\ at'[o] = n /\ move'[o] = m  BY <1>1, <2>1
    <3> QED BY <3>1
  <2>2. CASE o # b
    <3>1. bpc'[o] = bpc[o] /\ at'[o] = at[o] /\ move'[o] = move[o]
      BY <1>1, <2>2
    <3> QED BY <3>1 DEF Base, Counters
  <2> QED BY <2>1, <2>2
<1> QED BY <1>2, <1>3

(* Steps of blocks leave what the coordinator keeps as it is. *)
LEMMA BlockKeepsBase ==
    ASSUME Base, UNCHANGED coordinator,
           pipe' \in [Block -> Seq(Tokens)], A' \in Board, B' \in Board,
           bpc' \in [Block -> {"command", "board", "ask", "answers", "gone"}],
           at' \in [Block -> Nat], move' \in [Block -> Moves],
           \A o \in Block :
                /\ bpc'[o] = "command" => at'[o] = 0
                /\ bpc'[o] = "board" => at'[o] \in Cell
                /\ bpc'[o] \in {"ask", "answers"} => at'[o] < Others(move'[o].line)
    PROVE  Base'
BY DEF Base, Types, Counters, Solved, coordinator

(* The first state. *)
LEMMA InitBase ==
    ASSUME Init PROVE Base
<1>1. PICK game \in Games : A = game.A /\ S = game.S  BY DEF Init
<1>2. game.A \in Board /\ game.S \in Board /\ Obeys(game.S)  BY GamesObey
<1>3. \A b \in Block : pipe[b] = <<>> /\ <<>> \in Seq(Tokens)  BY DEF Init
<1>4. 0 \in Cell /\ 0 \in Digit
  <2>1. 0 \in Nat  OBVIOUS
  <2>2. 0 \in Cell  BY Writing DEF Init
  <2> QED BY <2>2, TokensAre
<1>5. script \in Seq(Key)  BY BoardAssumption DEF Init
<1>6. move \in [Block -> Moves]
  BY <1>4 DEF Init, Moves, Line
<1>7. Types  BY <1>1, <1>2, <1>3, <1>5, <1>6 DEF Init, Types
<1>8. Counters  BY DEF Init, Counters
<1> QED BY <1>1, <1>2, <1>7, <1>8 DEF Base, Solved

(* Commands and what the coordinator writes. *)
LEMMA CoordinatorBase ==
    ASSUME Base, Player \/ Sends
    PROVE  Base'
<1>1. /\ Types /\ Counters /\ Solved  BY DEF Base
<1>2. /\ pipe \in [Block -> Seq(Tokens)] /\ script \in Seq(Key)
      /\ sent \in Nat /\ sheet \in Board /\ S \in Board /\ overlapped \in BOOLEAN
  BY <1>1 DEF Types
<1>3. ASSUME NEW letter, Typed(letter)
      PROVE  /\ script' \in Seq(Key)
             /\ Head(script) \in Key /\ Head(script).letter = letter
  BY <1>2, <1>3 DEF Typed
<1>4. CASE NewGame
  <2>1. PICK game \in Games : SendNext(game.A) /\ S' = game.S
    BY <1>4 DEF NewGame
  <2>2. /\ game.A \in Board /\ game.S \in Board /\ Obeys(game.S)
    BY GamesObey
  <2>3. script' \in Seq(Key)  BY <1>3, <1>4 DEF NewGame
  <2>4. Writes > 0  BY <1>2, Writing
  <2>5. Types'  BY <1>1, <1>4, <2>1, <2>2, <2>3 DEF Types, NewGame, SendNext, blocks
  <2>6. Counters'
    BY <1>1, <1>4, <2>1, <2>4 DEF Counters, NewGame, SendNext, blocks
  <2> QED BY <2>1, <2>2, <2>5, <2>6 DEF Base, Solved
<1>5. CASE ShowSolution
  <2>3. script' \in Seq(Key)  BY <1>3, <1>5 DEF ShowSolution
  <2>4. Writes > 0  BY <1>2, Writing
  <2>5. Types'  BY <1>1, <1>5, <2>3 DEF Types, ShowSolution, SendNext, blocks
  <2>6. Counters'
    BY <1>1, <1>5, <2>4 DEF Counters, ShowSolution, SendNext, blocks
  <2> QED BY <1>1, <1>5, <2>5, <2>6 DEF Base, Solved, ShowSolution
<1>6. CASE PlaceDigit
  <2> DEFINE key == Head(script)
  <2>1. /\ script' \in Seq(Key) /\ key \in Key /\ key.letter = "p"
    BY <1>3, <1>6 DEF PlaceDigit
  <2>2. key.b \in Block /\ key.c \in Cell /\ key.d \in 1 .. MaxDigit
    BY <2>1 DEF Key
  <2>3. Placement(key.c, key.d) \in Tokens  BY <2>2, TokensAre
  <2>4. pipe' \in [Block -> Seq(Tokens)]
    BY <1>1, <1>6, <2>2, <2>3, PipeWritten DEF PlaceDigit
  <2>5. overlapped' \in BOOLEAN  BY <1>6 DEF PlaceDigit
  <2>6. UNCHANGED <<cpc, sent, sheet, S, blocks>>  BY <1>6 DEF PlaceDigit
  <2> QED BY <1>1, <2>1, <2>4, <2>5, <2>6
          DEF Base, Types, Counters, Solved, blocks
<1>7. CASE Quit
  <2>1. script' \in Seq(Key)  BY <1>3, <1>7 DEF Quit
  <2>2. 0 \in Block  BY <1>2, Writing
  <2> QED BY <1>1, <1>7, <2>1, <2>2
          DEF Base, Types, Counters, Solved, Quit, blocks
<1>8. CASE SendBoard
  <2> DEFINE b == sent \div PerBlock
             k == sent % PerBlock
             x == IF k = 0 THEN NewBoard ELSE Number(sheet[b][k - 1])
  <2>1. /\ cpc = "board" /\ Write(b, x)
        /\ sent' = sent + 1
        /\ cpc' = IF sent' = Writes THEN "prompt" ELSE "board"
        /\ UNCHANGED <<sheet, S, script, overlapped, blocks>>
    BY <1>8 DEF SendBoard, PerBlock, Writes
  <2>2. sent < Writes  BY <1>1, <2>1 DEF Counters
  <2>3. /\ b \in Block /\ k \in 0 .. PerBlock - 1 /\ Writes \in Nat
        /\ \A i \in 1 .. PerBlock - 1 : i - 1 \in Cell
        /\ PerBlock \in Nat
    BY <1>2, <2>2, Writing
  <2> HIDE DEF b, k
  <2>4. x \in Tokens
    <3>1. CASE k = 0  BY <3>1, TokensAre
    <3>2. CASE k # 0
      <4>1. k - 1 \in Cell  BY <2>3, <3>2
      <4>2. sheet[b][k - 1] \in Digit  BY <1>2, <2>3, <4>1 DEF Board, Digit
      <4> QED BY <3>2, <4>2, TokensAre
    <3> QED BY <3>1, <3>2
  <2> HIDE DEF x
  <2>5. pipe' \in [Block -> Seq(Tokens)]
    BY <1>1, <2>1, <2>3, <2>4, PipeWritten
  <2>6. cpc' = "board" => sent' < Writes  BY <1>2, <2>1, <2>2, <2>3
  <2> QED BY <1>1, <1>2, <2>1, <2>5, <2>6
          DEF Base, Types, Counters, Solved, blocks
<1>9. CASE SendQuit
  <2>1. sent \in Block  BY <1>1, <1>9 DEF Counters, SendQuit
  <2>2. pipe' \in [Block -> Seq(Tokens)]
    BY <1>1, <1>9, <2>1, PipeWritten, TokensAre DEF SendQuit
  <2>3. cpc' = "quit" => sent' \in Block
    <3>1. BlockRows * BlockCols \in Nat  BY Parameters, Products
    <3> QED BY <1>2, <1>9, <2>1, <3>1 DEF SendQuit, LastBlock, Block
  <2> QED BY <1>1, <1>2, <1>9, <2>2, <2>3
          DEF Base, Types, Counters, Solved, SendQuit, blocks
<1>10. CASE WaitForBlocks
  BY <1>1, <1>10 DEF Base, Types, Counters, Solved, WaitForBlocks, blocks
<1> QED BY <1>4, <1>5, <1>6, <1>7, <1>8, <1>9, <1>10 DEF Player, Sends

(* What a block has at the head of its pipe. *)
LEMMA Reading ==
    ASSUME Types, NEW b \in Block, pipe[b] # <<>>
    PROVE  Next_(b) \in Tokens
BY TakenFrom DEF Types, Next_

(* A token is read here and one written there. *)
LEMMA ReadAndWritten ==
    ASSUME NEW f \in [Block -> Seq(Tokens)], NEW b \in Block, f[b] # <<>>,
           NEW o \in Block, NEW x \in Tokens, NEW g,
           g = [f EXCEPT ![b] = Tail(@), ![o] = Append(@, x)]
    PROVE  /\ g \in [Block -> Seq(Tokens)]
           /\ o # b => g[b] = Tail(f[b]) /\ g[o] = Append(f[o], x)
           /\ \A p \in Block \ {b, o} : g[p] = f[p]
<1>1. Tail(f[b]) \in Seq(Tokens) /\ Append(f[o], x) \in Seq(Tokens)
  BY TakenFrom, AddedTo
<1>2. \A p \in Block \ {b, o} : g[p] = f[p]  OBVIOUS
<1>3. CASE o # b
  <2>1. g[b] = Tail(f[b])  BY <1>3
  <2>2. g[o] = Append(f[o], x)  BY <1>3
  <2>3. \A p \in Block : g[p] \in Seq(Tokens)  BY <1>1, <1>2, <2>1, <2>2
  <2>4. g = [p \in Block |-> g[p]]  OBVIOUS
  <2>5. g \in [Block -> Seq(Tokens)]  BY <2>3, <2>4
  <2> QED BY <1>2, <2>1, <2>2, <2>5
<1>4. CASE o = b
  <2>1. g[b] = Append(Tail(f[b]), x)  BY <1>4
  <2>2. g[b] \in Seq(Tokens)  BY <1>1, <2>1, AddedTo
  <2>3. \A p \in Block : g[p] \in Seq(Tokens)  BY <1>2, <1>4, <2>2
  <2>4. g = [p \in Block |-> g[p]]  OBVIOUS
  <2>5. g \in [Block -> Seq(Tokens)]  BY <2>3, <2>4
  <2> QED BY <1>2, <1>4, <2>5
<1> QED BY <1>3, <1>4

(* A block's place, when it stays or goes where its steps take it. *)
LEMMA Stays ==
    ASSUME Base, NEW b \in Block
    PROVE  /\ bpc = [bpc EXCEPT ![b] = bpc[b]]
           /\ at = [at EXCEPT ![b] = at[b]]
           /\ move = [move EXCEPT ![b] = move[b]]
           /\ bpc[b] \in {"command", "board", "ask", "answers", "gone"}
           /\ at[b] \in Nat /\ move[b] \in Moves
           /\ move[b].line \in Line /\ move[b].cell \in Cell
           /\ move[b].digit \in Digit
           /\ Len(Neighbors(b, move[b].line)) = Others(move[b].line)
           /\ Others(move[b].line) \in Nat \ {0}
           /\ \A line \in Line : Others(line) \in Nat \ {0}
<1>1. /\ bpc \in [Block -> {"command", "board", "ask", "answers", "gone"}]
      /\ at \in [Block -> Nat] /\ move \in [Block -> Moves]
  BY DEF Base, Types
<1>2. /\ bpc = [bpc EXCEPT ![b] = bpc[b]]
      /\ at = [at EXCEPT ![b] = at[b]]
      /\ move = [move EXCEPT ![b] = move[b]]
      /\ bpc[b] \in {"command", "board", "ask", "answers", "gone"}
      /\ at[b] \in Nat /\ move[b] \in Moves
  BY <1>1
<1>3. /\ move[b].line \in Line /\ move[b].cell \in Cell
      /\ move[b].digit \in Digit
  BY <1>2 DEF Moves
<1> QED BY <1>2, <1>3, NeighborsAre

(* A step that moves block b alone, and no board. *)
LEMMA OneMoved ==
    ASSUME Base, NEW b \in Block, UNCHANGED <<coordinator, A, B>>,
           pipe' \in [Block -> Seq(Tokens)],
           \/ UNCHANGED <<bpc, at, move>>
           \/ /\ UNCHANGED move
              /\ Goes(b, "gone") \/ Goes(b, "command") \/ Goes(b, "answers")
           \/ /\ Goes(b, "ask")
              /\ \E m \in Moves : move' = [move EXCEPT ![b] = m]
           \/ /\ Counts(b) /\ UNCHANGED move
              /\ bpc[b] \in {"ask", "answers"}
              /\ at[b] + 1 < Others(move[b].line)
    PROVE  Base'
<1>1. A' \in Board /\ B' \in Board  BY DEF Base, Types
<1>2. /\ move = [move EXCEPT ![b] = move[b]] /\ move[b] \in Moves
      /\ bpc = [bpc EXCEPT ![b] = bpc[b]]
      /\ at = [at EXCEPT ![b] = at[b]]
      /\ bpc[b] \in {"command", "board", "ask", "answers", "gone"}
      /\ at[b] \in Nat /\ Others(move[b].line) \in Nat \ {0}
      /\ \A line \in Line : Others(line) \in Nat \ {0}
  BY Stays
<1>3. CASE UNCHANGED <<bpc, at, move>>
  BY <1>3 DEF Base, Types, Counters, Solved, coordinator
<1>4. CASE /\ UNCHANGED move
           /\ Goes(b, "gone") \/ Goes(b, "command") \/ Goes(b, "answers")
  <2>1. PICK to \in {"gone", "command", "answers"} : Goes(b, to)  BY <1>4
  <2>2. /\ bpc' = [bpc EXCEPT ![b] = to] /\ at' = [at EXCEPT ![b] = 0]
        /\ move' = [move EXCEPT ![b] = move[b]]
    BY <1>2, <1>4, <2>1 DEF Goes
  <2>3. 0 \in Nat /\ 0 < Others(move[b].line)  BY <1>2
  <2>4. to \in {"command", "board", "ask", "answers", "gone"} /\ to # "board"
    BY <2>1
  <2> QED BY <1>1, <1>2, <2>2, <2>3, <2>4, Moved, BlockKeepsBase
<1>5. CASE /\ Goes(b, "ask")
           /\ \E m \in Moves : move' = [move EXCEPT ![b] = m]
  <2>1. PICK m \in Moves : move' = [move EXCEPT ![b] = m]  BY <1>5
  <2>2. bpc' = [bpc EXCEPT ![b] = "ask"] /\ at' = [at EXCEPT ![b] = 0]
    BY <1>5 DEF Goes
  <2>3. m.line \in Line  BY DEF Moves
  <2>4. 0 \in Nat /\ 0 < Others(m.line)  BY <1>2, <2>3
  <2> QED BY <1>1, <2>1, <2>2, <2>4, Moved, BlockKeepsBase
<1>6. CASE /\ Counts(b) /\ UNCHANGED move
           /\ bpc[b] \in {"ask", "answers"}
           /\ at[b] + 1 < Others(move[b].line)
  <2>1. /\ at' = [at EXCEPT ![b] = at[b] + 1]
        /\ bpc' = [bpc EXCEPT ![b] = bpc[b]]
        /\ move' = [move EXCEPT ![b] = move[b]]
    BY <1>2, <1>6 DEF Counts
  <2>2. at[b] + 1 \in Nat  BY <1>2
  <2> QED BY <1>1, <1>2, <1>6, <2>1, <2>2, Moved, BlockKeepsBase
<1> QED BY <1>3, <1>4, <1>5, <1>6

LEMMA LoadBoardBase ==
    ASSUME Base, NEW b \in Block, LoadBoard(b)
    PROVE  Base'
<1>1. /\ Types /\ Counters /\ sent \in Nat
      /\ pipe \in [Block -> Seq(Tokens)] /\ A \in Board /\ B \in Board
      /\ move \in [Block -> Moves]
  BY DEF Base, Types
<1>2. at[b] \in Cell
  <2>1. 0 \in Cell  BY <1>1, Writing
  <2> QED BY <1>1, <2>1 DEF LoadBoard, Reads, Counters
<1> DEFINE rest == IF bpc[b] = "board" THEN pipe[b] ELSE Tail(pipe[b])
           isNumber == Head(rest).cmd = "number"
<1>3. /\ rest # <<>>
      /\ A' = IF isNumber THEN [A EXCEPT ![b][at[b]] = Head(rest).value] ELSE A
      /\ pipe' = [pipe EXCEPT ![b] = IF isNumber THEN Tail(rest) ELSE rest]
      /\ B' = [B EXCEPT ![b][at[b]] = A'[b][at[b]]]
      /\ UNCHANGED <<coordinator, move>>
  BY DEF LoadBoard
<1>4. rest \in Seq(Tokens)
  <2>1. CASE bpc[b] = "board"  BY <1>1, <2>1
  <2>2. CASE bpc[b] # "board"
    <3>1. pipe[b] # <<>>  BY <2>2 DEF LoadBoard, Reads
    <3> QED BY <1>1, <2>2, <3>1, TakenFrom
  <2> QED BY <2>1, <2>2
<1> HIDE DEF rest
<1>5. Head(rest) \in Tokens /\ Tail(rest) \in Seq(Tokens)
  BY <1>3, <1>4, TakenFrom
<1>6. isNumber => Head(rest).value \in Digit  BY <1>5, TokenKinds
<1>7. pipe' \in [Block -> Seq(Tokens)]  BY <1>1, <1>3, <1>4, <1>5
<1>8. A' \in Board /\ B' \in Board
  <2>1. A' \in Board  BY <1>1, <1>2, <1>3, <1>6 DEF Board, Digit
  <2>2. A'[b][at[b]] \in Digit  BY <1>2, <2>1 DEF Board, Digit
  <2> QED BY <1>1, <1>2, <1>3, <2>1, <2>2 DEF Board, Digit
<1>9. move' = [move EXCEPT ![b] = move[b]] /\ move[b] \in Moves
  BY <1>1, <1>3
<1>10. CASE at[b] = Height * Width - 1
  <2>1. Goes(b, "command")  BY <1>10 DEF LoadBoard
  <2>2. bpc' = [bpc EXCEPT ![b] = "command"] /\ at' = [at EXCEPT ![b] = 0]
    BY <2>1 DEF Goes
  <2> QED BY <1>3, <1>7, <1>8, <1>9, <2>2, 0 \in Nat, Moved, BlockKeepsBase
<1>11. CASE at[b] # Height * Width - 1
  <2>1. /\ bpc' = [bpc EXCEPT ![b] = "board"]
        /\ at' = [at EXCEPT ![b] = at[b] + 1]
    BY <1>11 DEF LoadBoard
  <2>2. at[b] + 1 \in Cell /\ at[b] + 1 \in Nat
    <3>1. Height * Width \in Nat  BY Parameters, Products
    <3> QED BY <1>2, <1>11, <3>1 DEF Cell
  <2> QED BY <1>3, <1>7, <1>8, <1>9, <2>1, <2>2, Moved, BlockKeepsBase
<1> QED BY <1>10, <1>11

LEMMA PlacementBase ==
    ASSUME Base, NEW b \in Block,
           StartPlacement(b) \/ Ask(b) \/ ReadAnswer(b)
    PROVE  Base'
<1>1. /\ Types /\ Counters /\ pipe \in [Block -> Seq(Tokens)]
      /\ A \in Board /\ B \in Board
  BY DEF Base, Types
<1>2. /\ move = [move EXCEPT ![b] = move[b]]
      /\ at[b] \in Nat /\ move[b] \in Moves
      /\ move[b].line \in Line /\ move[b].cell \in Cell
      /\ move[b].digit \in Digit
      /\ Len(Neighbors(b, move[b].line)) = Others(move[b].line)
      /\ Others(move[b].line) \in Nat \ {0}
  BY Stays
<1>3. CASE StartPlacement(b)
  <2>1. /\ pipe[b] # <<>> /\ Next_(b).cmd = "p" /\ Consume(b)
        /\ UNCHANGED <<coordinator, A, B>>
        /\ \/ UNCHANGED <<bpc, at, move>>
           \/ /\ Goes(b, "ask")
              /\ move' = [move EXCEPT ![b] =
                    [cell |-> Next_(b).cell, digit |-> Next_(b).digit, line |-> "r"]]
    BY <1>3 DEF StartPlacement, Reads
  <2>2. Next_(b).cell \in Cell /\ Next_(b).digit \in 1 .. MaxDigit
    BY <1>1, <2>1, Reading, TokenKinds
  <2>3. [cell |-> Next_(b).cell, digit |-> Next_(b).digit, line |-> "r"] \in Moves
    BY <2>2, Parameters DEF Moves, Digit, Line
  <2>4. pipe' \in [Block -> Seq(Tokens)]  BY <1>1, <2>1, PipeRead
  <2> QED BY <2>1, <2>3, <2>4, OneMoved
<1>4. CASE Ask(b)
  <2> DEFINE m  == move[b]
             to == Neighbors(b, m.line)
             o  == to[at[b] + 1]
             x  == Request(m.line, Index(m.line, m.cell), m.digit, b)
  <2>1. /\ bpc[b] = "ask"
        /\ Tell(b, o, x, IF at[b] + 1 < Len(to) THEN Counts(b) ELSE Goes(b, "answers"))
        /\ UNCHANGED <<coordinator, A, B, move>>
    BY <1>4 DEF Ask
  <2>2. at[b] < Others(m.line)  BY <1>1, <2>1 DEF Counters
  <2>3. o \in Block
    <3>1. at[b] + 1 \in 1 .. Others(m.line)  BY <1>2, <2>2
    <3> QED BY <1>2, <3>1, NeighborsAre
  <2>4. x \in Tokens
    <3>1. Index(m.line, m.cell) \in Nat
      <4>1. m.cell \div Width \in Nat /\ m.cell % Width \in Nat
        <5>1. m.cell \div Width \in 0 .. Height - 1 /\ m.cell % Width \in 0 .. Width - 1
          BY <1>2, CellPlaces
        <5> QED BY <5>1, Parameters
      <4> QED BY <4>1 DEF Index
    <3> QED BY <1>2, <3>1, TokensAre
  <2>5. /\ UNCHANGED pipe \/ Write(o, x)
        /\ \/ at[b] + 1 < Others(m.line) /\ Counts(b)
           \/ Goes(b, "answers") \/ Goes(b, "gone")
    BY <1>2, <2>1 DEF Tell
  <2> HIDE DEF o, x, to, m
  <2>6. pipe' \in [Block -> Seq(Tokens)]
    BY <1>1, <2>3, <2>4, <2>5, PipeWritten
  <2> QED BY <2>1, <2>5, <2>6, OneMoved DEF m
<1>5. CASE ReadAnswer(b)
  <2>1. /\ pipe[b] # <<>> /\ bpc[b] = "answers"
        /\ Consume(b) \/ UNCHANGED pipe
        /\ UNCHANGED <<coordinator, A>>
        /\ \/ Goes(b, "command") /\ UNCHANGED <<B, move>>
           \/ /\ at[b] + 1 < Others(move[b].line)
              /\ Counts(b) /\ UNCHANGED <<B, move>>
           \/ LineFree(b)
    <3>1. /\ pipe[b] # <<>> /\ bpc[b] = "answers"
          /\ Consume(b) \/ UNCHANGED pipe
          /\ UNCHANGED <<coordinator, A>>
      BY <1>5 DEF ReadAnswer
    <3>2. PICK response \in Response(b) :
            CASE response # 0 -> Goes(b, "command") /\ UNCHANGED <<B, move>>
              [] response = 0 /\ at[b] + 1 < Len(Neighbors(b, move[b].line)) ->
                    Counts(b) /\ UNCHANGED <<B, move>>
              [] OTHER -> LineFree(b)
      BY <1>5 DEF ReadAnswer
    <3> QED BY <1>2, <3>1, <3>2
  <2>2. pipe' \in [Block -> Seq(Tokens)]  BY <1>1, <2>1, PipeRead
  <2>3. CASE Goes(b, "command") /\ UNCHANGED <<B, move>>
    BY <2>1, <2>2, <2>3, OneMoved
  <2>4. CASE /\ at[b] + 1 < Others(move[b].line)
             /\ Counts(b) /\ UNCHANGED <<B, move>>
    BY <2>1, <2>2, <2>4, OneMoved
  <2>5. CASE LineFree(b)
    <3>1. CASE move[b].line = "r"
      <4>1. /\ Goes(b, "ask") /\ UNCHANGED B
            /\ move' = [move EXCEPT ![b].line = "c"]
        BY <2>5, <3>1 DEF LineFree
      <4>2. [move[b] EXCEPT !.line = "c"] \in Moves  BY <1>2 DEF Moves, Line
      <4>3. move' = [move EXCEPT ![b] = [move[b] EXCEPT !.line = "c"]]
        BY <4>1
      <4> QED BY <2>1, <2>2, <4>1, <4>2, <4>3, OneMoved
    <3>2. CASE move[b].line # "r"
      <4>1. /\ Goes(b, "command") /\ UNCHANGED move
            /\ B' = [B EXCEPT ![b][move[b].cell] = move[b].digit]
        BY <2>5, <3>2 DEF LineFree
      <4>2. A' \in Board /\ B' \in Board
        BY <1>1, <1>2, <2>1, <4>1 DEF Board, Digit
      <4>3. /\ bpc' = [bpc EXCEPT ![b] = "command"] /\ at' = [at EXCEPT ![b] = 0]
            /\ move' = [move EXCEPT ![b] = move[b]]
        BY <1>2, <4>1 DEF Goes
      <4> QED BY <1>2, <2>1, <2>2, <4>2, <4>3, 0 \in Nat, Moved, BlockKeepsBase
    <3> QED BY <3>1, <3>2
  <2> QED BY <2>1, <2>3, <2>4, <2>5
<1> QED BY <1>3, <1>4, <1>5

LEMMA BlockBase ==
    ASSUME Base, NEW b \in Block, RunBlock(b)
    PROVE  Base'
<1>1. Types /\ pipe \in [Block -> Seq(Tokens)]  BY DEF Base, Types
<1>2. CASE SkipNumber(b)
  <2>1. /\ pipe[b] # <<>> /\ Consume(b)
        /\ UNCHANGED <<coordinator, A, B, bpc, at, move>>
    BY <1>2 DEF SkipNumber, Reads, blocks
  <2>2. pipe' \in [Block -> Seq(Tokens)]  BY <1>1, <2>1, PipeRead
  <2> QED BY <2>1, <2>2, OneMoved
<1>3. CASE AnswerNeighbor(b)
  <2> DEFINE q == Next_(b)
             verdict == Verdict(b, q.cmd, q.index, q.digit)
  <2>1. /\ pipe[b] # <<>> /\ q.cmd \in Line
        /\ UNCHANGED <<coordinator, A, B, move>>
        /\ \/ /\ pipe' = [pipe EXCEPT ![b] = Tail(@),
                                      ![q.reply] = Append(@, Number(verdict))]
              /\ UNCHANGED <<bpc, at>>
           \/ Consume(b) /\ (UNCHANGED <<bpc, at>> \/ Goes(b, "gone"))
    BY <1>3 DEF AnswerNeighbor, Line
  <2>2. q.reply \in Block  BY <1>1, <2>1, Reading, TokenKinds
  <2>3. Number(verdict) \in Tokens  BY TokensAre DEF Verdict
  <2> HIDE DEF q, verdict
  <2>4. pipe' \in [Block -> Seq(Tokens)]
    <3>1. CASE Consume(b)  BY <1>1, <2>1, <3>1, PipeRead
    <3>2. CASE pipe' = [pipe EXCEPT ![b] = Tail(@),
                                    ![q.reply] = Append(@, Number(verdict))]
      BY <1>1, <2>1, <2>2, <2>3, <3>2, ReadAndWritten
    <3> QED BY <2>1, <3>1, <3>2
  <2> QED BY <2>1, <2>4, OneMoved
<1>4. CASE Bye(b)
  <2>1. /\ pipe[b] # <<>> /\ Consume(b) /\ Goes(b, "gone")
        /\ UNCHANGED <<coordinator, A, B, move>>
    BY <1>4 DEF Bye, Reads
  <2>2. pipe' \in [Block -> Seq(Tokens)]  BY <1>1, <2>1, PipeRead
  <2> QED BY <2>1, <2>2, OneMoved
<1> QED BY <1>2, <1>3, <1>4, LoadBoardBase, PlacementBase DEF RunBlock

LEMMA StepBase == Base /\ [Next]_vars => Base'
<1>1. ASSUME Base, UNCHANGED vars PROVE Base'
  BY <1>1 DEF vars, coordinator, blocks, Base, Types, Counters, Solved
<1> QED BY <1>1, CoordinatorBase, BlockBase DEF Next

-----------------------------------------------------------------------------
(* A board is loaded                                                       *)

(* The share of a block in what was written. *)
LEMMA WrittenIs ==
    ASSUME sent \in Nat, NEW b \in Block
    PROVE  /\ Written(b) \in 0 .. PerBlock
           /\ b * PerBlock \in Nat /\ (b + 1) * PerBlock = b * PerBlock + PerBlock
           /\ b \in Nat
           /\ sent = 0 => Written(b) = 0
           /\ sent = Writes => Written(b) = PerBlock
<1>1. PerBlock \in Nat \ {0, 1}  BY Writing
<1>2. BlockRows \in Nat /\ BlockCols \in Nat  BY Parameters
<1> DEFINE n == BlockRows * BlockCols
<1>3. n \in Nat  BY <1>2, Products
<1>4. b \in Nat /\ b + 1 <= n  BY <1>3 DEF Block
<1>5. Writes = n * PerBlock  BY <1>1, <1>2 DEF Writes
<1> HIDE DEF n
<1>6. b * PerBlock \in Nat /\ (b + 1) * PerBlock = b * PerBlock + PerBlock
  BY <1>1, <1>4, Products
<1>7. (b + 1) * PerBlock <= Writes
  BY <1>1, <1>3, <1>4, <1>5, b + 1 \in Nat, Products
<1> DEFINE m == b * PerBlock
           w == (b + 1) * PerBlock
<1>8. m \in Nat /\ w = m + PerBlock /\ w <= Writes  BY <1>6, <1>7
<1>9. Written(b) = IF sent <= m THEN 0
                   ELSE IF sent >= w THEN PerBlock ELSE sent - m
  BY DEF Written
<1>10. Writes \in Nat  BY Writing
<1> HIDE DEF m, w
<1>11. /\ Written(b) \in 0 .. PerBlock
       /\ sent = 0 => Written(b) = 0
       /\ sent = Writes => Written(b) = PerBlock
  BY <1>1, <1>8, <1>9, <1>10
<1> QED BY <1>4, <1>6, <1>11

LEMMA WrittenNext ==
    ASSUME sent \in Nat, sent < Writes, sent' = sent + 1,
           NEW b, b = sent \div PerBlock, NEW k, k = sent % PerBlock
    PROVE  /\ Written(b) = k /\ Written(b)' = k + 1
           /\ \A o \in Block \ {b} : Written(o)' = Written(o)
<1>1. /\ PerBlock \in Nat \ {0, 1} /\ b \in Block
      /\ k \in 0 .. PerBlock - 1 /\ sent = b * PerBlock + k
  BY Writing
<1>2. /\ b * PerBlock \in Nat /\ (b + 1) * PerBlock = b * PerBlock + PerBlock
      /\ b \in Nat
  BY <1>1, WrittenIs
<1>3. Written(b) = k /\ Written(b)' = k + 1
  <2> DEFINE m == b * PerBlock
             w == (b + 1) * PerBlock
  <2>1. m \in Nat /\ w = m + PerBlock /\ sent = m + k  BY <1>1, <1>2
  <2>2. Written(b) = IF sent <= m THEN 0
                     ELSE IF sent >= w THEN PerBlock ELSE sent - m
    BY DEF Written
  <2>3. Written(b)' = IF sent' <= m THEN 0
                      ELSE IF sent' >= w THEN PerBlock ELSE sent' - m
    BY DEF Written
  <2> HIDE DEF m, w
  <2> QED BY <1>1, <2>1, <2>2, <2>3
<1>4. ASSUME NEW o \in Block \ {b} PROVE Written(o)' = Written(o)
  <2>1. /\ o * PerBlock \in Nat /\ (o + 1) * PerBlock = o * PerBlock + PerBlock
        /\ o \in Nat
    BY WrittenIs
  <2> DEFINE m == o * PerBlock
             w == (o + 1) * PerBlock
             x == b * PerBlock
  <2>2. Written(o) = IF sent <= m THEN 0
                     ELSE IF sent >= w THEN PerBlock ELSE sent - m
    BY DEF Written
  <2>3. Written(o)' = IF sent' <= m THEN 0
                      ELSE IF sent' >= w THEN PerBlock ELSE sent' - m
    BY DEF Written
  <2>4. m \in Nat /\ w = m + PerBlock /\ x \in Nat /\ sent = x + k
    BY <1>1, <1>2, <2>1
  <2>5. CASE o < b
    <3>1. m + PerBlock <= x  BY <1>1, <1>2, <2>1, <2>5, Products
    <3> HIDE DEF m, w, x
    <3> QED BY <1>1, <2>2, <2>3, <2>4, <3>1
  <2>6. CASE b < o
    <3>1. x + PerBlock <= m  BY <1>1, <1>2, <2>1, <2>6, Products
    <3> HIDE DEF m, w, x
    <3> QED BY <1>1, <2>2, <2>3, <2>4, <3>1
  <2> QED BY <1>2, <2>1, <2>5, <2>6
<1> QED BY <1>3, <1>4

(* What a block reads of the board. *)
LEMMA StreamIs ==
    ASSUME sent \in Nat, NEW b \in Block
    PROVE  /\ Stream(b)[1] = NewBoard
           /\ \A i \in 2 .. PerBlock : Stream(b)[i] = Number(sheet[b][i - 2])
<1>1. PerBlock \in Nat \ {0, 1}  BY Writing
<1>2. 1 \in 1 .. PerBlock /\ \A i \in 2 .. PerBlock : i \in 1 .. PerBlock /\ i # 1
  BY <1>1
<1> QED BY <1>2 DEF Stream

(* A block at rest can be anywhere when a board begins. *)
LEMMA LoadingStarts ==
    ASSUME Base, Idle, NEW board, Obeys(board), SendNext(board),
           UNCHANGED <<pipe, blocks>>
    PROVE  Loading'
<1>1. sent' = 0 /\ sheet' = board /\ cpc' = "board"  BY DEF SendNext
<1>2. ASSUME NEW b \in Block PROVE Unread(b)'
  <2>1. pipe[b] \in Seq(Tokens) /\ bpc[b] = "command"
    BY DEF Base, Types, Idle
  <2>2. ASSUME NEW i \in 1 .. Len(pipe[b]) PROVE pipe[b][i] \in Numbers
    <3>1. i \in DOMAIN pipe[b] /\ pipe[b][i] \in Tokens  BY <2>1
    <3>2. pipe[b][i].cmd = "number"  BY <3>1 DEF Idle
    <3> QED BY <3>1, <3>2, TokenKinds
  <2>3. Written(b)' = 0
    <3>1. b \in Nat /\ PerBlock \in Nat
      <4>1. sent \in Nat  BY DEF Base, Types
      <4> QED BY <4>1, WrittenIs, Writing
    <3>2. b * PerBlock \in Nat  BY <3>1, Products
    <3> QED BY <1>1, <3>2 DEF Written
  <2>4. Len(pipe[b]) \in Nat  BY <2>1
  <2>5. Len(pipe[b]) = Len(pipe[b]) + Written(b)'  BY <2>3, <2>4
  <2>6. pipe'[b] = pipe[b] /\ bpc'[b] = "command"  BY <2>1 DEF blocks
  <2>7. \A i \in 1 .. Written(b)' :
            pipe'[b][Len(pipe[b]) + i] = Stream(b)'[i]
    BY <2>3
  <2> QED BY <2>2, <2>4, <2>5, <2>6, <2>7 DEF Unread
<1>3. Obeys(board)  OBVIOUS
<1>4. (Obeys(sheet))'  BY <1>1, <1>3 DEF Obeys
<1> QED BY <1>1, <1>2, <1>4 DEF Loading

(* A board that has been loaded obeys the rule. *)
LEMMA LoadedObeys ==
    ASSUME Base, Idle, Loading
    PROVE  Obeys(B)
<1>1. sent \in Nat /\ sent = Writes /\ B \in Board /\ sheet \in Board
  BY DEF Base, Types, Idle, Loading
<1>2. ASSUME NEW b \in Block PROVE B[b] = sheet[b]
  <2>1. Written(b) = PerBlock /\ PerBlock \in Nat \ {0}
    BY <1>1, WrittenIs, Writing
  <2>2. bpc[b] = "command" /\ pipe[b] \in Seq(Tokens)
    BY DEF Idle, Base, Types
  <2>3. ~Unread(b)
    <3>1. SUFFICES ASSUME NEW old \in Nat, Len(pipe[b]) = old + PerBlock,
                          pipe[b][old + 1] = Stream(b)[1]
                   PROVE  FALSE
      BY <2>1, 1 \in 1 .. PerBlock DEF Unread
    <3>2. pipe[b][old + 1] = NewBoard  BY <1>1, <3>1, StreamIs
    <3>3. old + 1 \in DOMAIN pipe[b]  BY <2>1, <2>2, <3>1
    <3> QED BY <3>2, <3>3, TokenKinds DEF Idle
  <2>4. ~Halfway(b)  BY <2>2 DEF Halfway
  <2> QED BY <2>3, <2>4 DEF Loading, Loaded
<1>3. B = sheet  BY <1>1, <1>2 DEF Board
<1> QED BY <1>3 DEF Loading

(* The coordinator's next write, whether or not the block has begun to read. *)
LEMMA SendBoardLoads ==
    ASSUME Base, Loading, SendBoard
    PROVE  Loading'
<1> SUFFICES ASSUME NEW b, b = sent \div PerBlock, NEW k, k = sent % PerBlock,
                    NEW x, x = IF k = 0 THEN NewBoard ELSE Number(sheet[b][k - 1])
             PROVE  Loading'
  OBVIOUS
<1>1. /\ cpc = "board" /\ Write(b, x)
      /\ sent' = sent + 1
      /\ cpc' = IF sent' = Writes THEN "prompt" ELSE "board"
      /\ UNCHANGED <<sheet, S, script, overlapped, blocks>>
  BY DEF SendBoard, PerBlock, Writes
<1>2. Types /\ sent \in Nat /\ sent < Writes /\ sheet \in Board
  BY <1>1 DEF Base, Types, Counters
<1>3. /\ b \in Block /\ k \in 0 .. PerBlock - 1
      /\ PerBlock \in Nat \ {0, 1}
      /\ \A i \in 1 .. PerBlock - 1 : i - 1 \in Cell
      /\ Cell = 0 .. PerBlock - 2
  BY <1>2, Writing
<1>4. /\ Written(b) = k /\ Written(b)' = k + 1
      /\ \A o \in Block \ {b} : Written(o)' = Written(o)
  BY <1>1, <1>2, WrittenNext
<1>5. x \in Tokens
  <2>1. CASE k = 0  BY <2>1, TokensAre
  <2>2. CASE k # 0
    <3>1. k - 1 \in Cell  BY <1>3, <2>2
    <3>2. sheet[b][k - 1] \in Digit  BY <1>2, <1>3, <3>1 DEF Board, Digit
    <3> QED BY <2>2, <3>2, TokensAre
  <2> QED BY <2>1, <2>2
<1>6. x = Stream(b)[k + 1]
  <2>1. CASE k = 0  BY <1>2, <1>3, <2>1, StreamIs
  <2>2. CASE k # 0
    <3>1. k + 1 \in 2 .. PerBlock /\ (k + 1) - 2 = k - 1  BY <1>3, <2>2
    <3> QED BY <1>2, <1>3, <2>2, <3>1, StreamIs
  <2> QED BY <2>1, <2>2
<1>7. \A o \in Block : Stream(o)' = Stream(o)  BY <1>1 DEF Stream
<1>8. /\ pipe'[b] = Append(pipe[b], x)
      /\ \A o \in Block \ {b} : pipe'[o] = pipe[o]
  BY <1>1, <1>2, <1>3, <1>5, PipeWritten
<1>9. ASSUME NEW o \in Block \ {b} PROVE (Unread(o) \/ Halfway(o) \/ Loaded(o))'
  <2>1. /\ pipe'[o] = pipe[o] /\ Written(o)' = Written(o)
        /\ Stream(o)' = Stream(o)
        /\ bpc' = bpc /\ at' = at /\ B' = B /\ sheet' = sheet
    BY <1>1, <1>4, <1>7, <1>8 DEF blocks
  <2>2. Unread(o) \/ Halfway(o) \/ Loaded(o)  BY DEF Loading
  <2>3. ASSUME Unread(o) PROVE Unread(o)'  BY <2>1, <2>3 DEF Unread
  <2>4. ASSUME Halfway(o) PROVE Halfway(o)'  BY <2>1, <2>4 DEF Halfway
  <2>5. ASSUME Loaded(o) PROVE Loaded(o)'  BY <2>1, <2>5 DEF Loaded
  <2> QED BY <2>2, <2>3, <2>4, <2>5
<1>10. (Unread(b) \/ Halfway(b) \/ Loaded(b))'
  <2>1. bpc' = bpc /\ at' = at /\ B' = B /\ sheet' = sheet
    BY <1>1 DEF blocks
  <2>2. pipe[b] \in Seq(Tokens)  BY <1>2, <1>3 DEF Types
  <2>3. /\ Len(pipe[b]) \in Nat /\ DOMAIN pipe[b] = 1 .. Len(pipe[b])
        /\ Len(pipe'[b]) = Len(pipe[b]) + 1
        /\ DOMAIN pipe'[b] = 1 .. Len(pipe[b]) + 1
        /\ \A i \in 1 .. Len(pipe[b]) : pipe'[b][i] = pipe[b][i]
        /\ pipe'[b][Len(pipe[b]) + 1] = x
    BY <1>5, <1>8, <2>2, AddedTo
  <2>4. CASE Unread(b)
    <3>1. PICK old \in Nat :
            /\ Len(pipe[b]) = old + k
            /\ \A i \in 1 .. old : pipe[b][i] \in Numbers
            /\ \A i \in 1 .. k : pipe[b][old + i] = Stream(b)[i]
      BY <1>4, <2>4 DEF Unread
    <3>2. Len(pipe'[b]) = old + (k + 1)  BY <1>3, <2>3, <3>1
    <3>3. ASSUME NEW i \in 1 .. old PROVE pipe'[b][i] \in Numbers
      <4>1. i \in 1 .. Len(pipe[b])  BY <1>3, <3>1
      <4> QED BY <2>3, <3>1, <4>1
    <3>4. ASSUME NEW i \in 1 .. k + 1 PROVE pipe'[b][old + i] = Stream(b)'[i]
      <4>1. CASE i = k + 1
        <5>1. old + i = Len(pipe[b]) + 1  BY <1>3, <3>1, <4>1
        <5> QED BY <1>6, <1>7, <1>3, <2>3, <4>1, <5>1
      <4>2. CASE i # k + 1
        <5>1. i \in 1 .. k /\ old + i \in 1 .. Len(pipe[b])
          BY <1>3, <3>1, <4>2
        <5> QED BY <1>3, <1>7, <2>3, <3>1, <5>1
      <4> QED BY <4>1, <4>2
    <3>5. bpc'[b] = "command"  BY <2>1, <2>4 DEF Unread
    <3>6. Written(b)' = k + 1  BY <1>4
    <3> QED BY <3>2, <3>3, <3>4, <3>5, <3>6 DEF Unread
  <2>5. CASE Halfway(b)
    <3>1. /\ bpc[b] = "board" /\ at[b] \in Cell \ {0}
          /\ Len(pipe[b]) = k - at[b] - 1
          /\ \A i \in DOMAIN pipe[b] : pipe[b][i] = Number(sheet[b][at[b] + i - 1])
          /\ \A c \in Cell : c < at[b] => B[b][c] = sheet[b][c]
      BY <1>4, <2>5 DEF Halfway
    <3>2. at[b] \in Nat /\ at[b] > 0  BY <1>3, <3>1
    <3>3. Len(pipe'[b]) = (k + 1) - at[b] - 1  BY <1>3, <2>3, <3>1, <3>2
    <3>4. k # 0 /\ at[b] + (Len(pipe[b]) + 1) - 1 = k - 1
      <4>1. k \in Nat /\ Len(pipe[b]) \in Nat  BY <1>3, <2>3
      <4>2. Len(pipe[b]) = k - at[b] - 1  BY <3>1
      <4> QED BY ONLY <3>2, <4>1, <4>2
    <3>5. x = Number(sheet[b][at[b] + (Len(pipe[b]) + 1) - 1])
      BY <3>4
    <3>6. \A i \in DOMAIN pipe'[b] : pipe'[b][i] = Number(sheet[b][at[b] + i - 1])
      <4> SUFFICES ASSUME NEW i \in 1 .. Len(pipe[b]) + 1
                   PROVE  pipe'[b][i] = Number(sheet[b][at[b] + i - 1])
        BY <2>3
      <4>1. CASE i = Len(pipe[b]) + 1  BY <2>3, <3>5, <4>1
      <4>2. CASE i # Len(pipe[b]) + 1
        <5>1. i \in 1 .. Len(pipe[b])  BY <2>3, <4>2
        <5> QED BY <2>3, <3>1, <5>1
      <4> QED BY <4>1, <4>2
    <3>7. Written(b)' = k + 1  BY <1>4
    <3> QED BY <2>1, <3>1, <3>3, <3>6, <3>7 DEF Halfway
  <2>6. ~Loaded(b)  BY <1>3, <1>4 DEF Loaded
  <2> QED BY <1>3, <2>4, <2>5, <2>6 DEF Loading
<1>11. (Obeys(sheet))'
  BY <1>1 DEF Loading, Obeys
<1>12. cpc' = "prompt" => sent' = Writes  BY <1>1
<1> QED BY <1>9, <1>10, <1>11, <1>12 DEF Loading

(* Only block b moves; the others are where they were with the board. *)
LEMMA LoadingOthers ==
    ASSUME Loading, NEW b \in Block, UNCHANGED coordinator,
           \A o \in Block \ {b} :
                /\ pipe'[o] = pipe[o] /\ bpc'[o] = bpc[o] /\ at'[o] = at[o]
                /\ B'[o] = B[o],
           (Unread(b) \/ Halfway(b) \/ Loaded(b))'
    PROVE  Loading'
<1>1. sent' = sent /\ sheet' = sheet /\ cpc' = cpc  BY DEF coordinator
<1>2. \A o \in Block : Written(o)' = Written(o) /\ Stream(o)' = Stream(o)
  BY <1>1 DEF Written, Stream
<1>3. ASSUME NEW o \in Block \ {b} PROVE (Unread(o) \/ Halfway(o) \/ Loaded(o))'
  <2>1. /\ pipe'[o] = pipe[o] /\ Written(o)' = Written(o)
        /\ Stream(o)' = Stream(o)
        /\ bpc'[o] = bpc[o] /\ at'[o] = at[o] /\ B'[o] = B[o]
        /\ sheet' = sheet
    BY <1>1, <1>2
  <2>2. Unread(o) \/ Halfway(o) \/ Loaded(o)  BY DEF Loading
  <2>3. ASSUME Unread(o) PROVE Unread(o)'  BY <2>1, <2>3 DEF Unread
  <2>4. ASSUME Halfway(o) PROVE Halfway(o)'  BY <2>1, <2>4 DEF Halfway
  <2>5. ASSUME Loaded(o) PROVE Loaded(o)'  BY <2>1, <2>5 DEF Loaded
  <2> QED BY <2>2, <2>3, <2>4, <2>5
<1>4. (Obeys(sheet))'  BY <1>1 DEF Loading, Obeys
<1>5. (cpc = "prompt" => sent = Writes)'  BY <1>1 DEF Loading
<1>6. \A o \in Block : (Unread(o) \/ Halfway(o) \/ Loaded(o))'  BY <1>3
<1> QED BY <1>4, <1>5, <1>6 DEF Loading

(* What a block finds when it looks for a command. *)
LEMMA LoadingReads ==
    ASSUME Base, Loading, NEW b \in Block, bpc[b] = "command", pipe[b] # <<>>
    PROVE  /\ Unread(b)
           /\ \/ Next_(b) \in Numbers
              \/ /\ Next_(b) = NewBoard
                 /\ Len(pipe[b]) = Written(b)
                 /\ \A i \in 1 .. Written(b) : pipe[b][i] = Stream(b)[i]
<1>1. sent \in Nat /\ pipe[b] \in Seq(Tokens)  BY DEF Base, Types
<1>2. Unread(b)  BY DEF Loading, Halfway, Loaded
<1>3. PICK old \in Nat :
        /\ Len(pipe[b]) = old + Written(b)
        /\ \A i \in 1 .. old : pipe[b][i] \in Numbers
        /\ \A i \in 1 .. Written(b) : pipe[b][old + i] = Stream(b)[i]
  BY <1>2 DEF Unread
<1>4. Len(pipe[b]) \in Nat /\ Len(pipe[b]) > 0 /\ Next_(b) = pipe[b][1]
  BY <1>1, TakenFrom DEF Next_
<1>5. Written(b) \in Nat  BY <1>1, WrittenIs, Writing
<1>6. CASE old > 0  BY <1>2, <1>3, <1>4, <1>6
<1>7. CASE old = 0
  <2>1. Len(pipe[b]) = Written(b)  BY <1>3, <1>5, <1>7
  <2>2. \A i \in 1 .. Written(b) : pipe[b][i] = Stream(b)[i]
    BY <1>3, <1>5, <1>7
  <2>3. 1 \in 1 .. Written(b)  BY <1>4, <1>5, <2>1
  <2>4. Next_(b) = NewBoard  BY <1>1, <1>4, <2>2, <2>3, StreamIs
  <2> QED BY <1>2, <2>1, <2>2, <2>4
<1> QED BY <1>6, <1>7

LEMMA SkipLoads ==
    ASSUME Base, Loading, NEW b \in Block, SkipNumber(b)
    PROVE  Loading'
<1>1. /\ bpc[b] = "command" /\ pipe[b] # <<>> /\ Next_(b).cmd = "number"
      /\ Consume(b) /\ UNCHANGED <<coordinator, blocks>>
  BY DEF SkipNumber, Reads
<1>2. Types /\ sent \in Nat /\ pipe[b] \in Seq(Tokens)  BY DEF Base, Types
<1>3. PICK old \in Nat :
        /\ Len(pipe[b]) = old + Written(b)
        /\ \A i \in 1 .. old : pipe[b][i] \in Numbers
        /\ \A i \in 1 .. Written(b) : pipe[b][old + i] = Stream(b)[i]
  BY <1>1, LoadingReads DEF Unread
<1>4. /\ Len(pipe[b]) \in Nat /\ Len(pipe[b]) > 0 /\ Next_(b) = pipe[b][1]
      /\ Len(Tail(pipe[b])) = Len(pipe[b]) - 1
      /\ \A i \in 1 .. Len(pipe[b]) - 1 : Tail(pipe[b])[i] = pipe[b][i + 1]
  BY <1>1, <1>2, TakenFrom DEF Next_
<1>5. Written(b) \in Nat  BY <1>2, WrittenIs, Writing
<1>6. old > 0
  <2>1. SUFFICES ASSUME old = 0 PROVE FALSE  OBVIOUS
  <2>2. 1 \in 1 .. Written(b)  BY <1>3, <1>4, <1>5, <2>1
  <2>3. pipe[b][1] = NewBoard  BY <1>2, <1>3, <2>1, <2>2, StreamIs
  <2> QED BY <1>1, <1>4, <2>3, TokenKinds
<1>7. /\ pipe'[b] = Tail(pipe[b])
      /\ \A o \in Block \ {b} : pipe'[o] = pipe[o]
  BY <1>1, <1>2, PipeRead
<1>8. Written(b)' = Written(b) /\ Stream(b)' = Stream(b) /\ bpc' = bpc
  BY <1>1 DEF Written, Stream, coordinator, blocks
<1>9. Unread(b)'
  <2>1. old - 1 \in Nat  BY <1>6
  <2>2. Len(pipe'[b]) = (old - 1) + Written(b)
    BY <1>3, <1>4, <1>5, <1>7
  <2>3. ASSUME NEW i \in 1 .. old - 1 PROVE pipe'[b][i] \in Numbers
    <3>1. i \in 1 .. Len(pipe[b]) - 1 /\ i + 1 \in 1 .. old
      BY <1>3, <1>5, <1>6
    <3> QED BY <1>3, <1>4, <1>7, <3>1
  <2>4. ASSUME NEW i \in 1 .. Written(b)
        PROVE  pipe'[b][(old - 1) + i] = Stream(b)[i]
    <3>1. /\ (old - 1) + i \in 1 .. Len(pipe[b]) - 1
          /\ ((old - 1) + i) + 1 = old + i
      BY <1>3, <1>5, <1>6
    <3> QED BY <1>3, <1>4, <1>7, <3>1
  <2> QED BY <1>1, <1>8, <2>1, <2>2, <2>3, <2>4 DEF Unread
<1> QED BY <1>1, <1>7, <1>9, LoadingOthers DEF blocks

(* The number of a cell, taken over into the block. *)
TakesCell(b, rest, c) ==
    /\ Head(rest) = Number(sheet[b][c])
    /\ A' = [A EXCEPT ![b][c] = Head(rest).value]
    /\ B' = [B EXCEPT ![b][c] = A'[b][c]]
    /\ pipe' = [pipe EXCEPT ![b] = Tail(rest)]
    /\ UNCHANGED coordinator
    /\ IF c = Height * Width - 1
       THEN Goes(b, "command")
       ELSE bpc' = [bpc EXCEPT ![b] = "board"] /\ at' = [at EXCEPT ![b] = c + 1]

BeforeCell(b, rest, c) ==
    /\ Len(rest) = Written(b) - c - 1
    /\ \A i \in DOMAIN rest : rest[i] = Number(sheet[b][c + i - 1])
    /\ \A e \in Cell : e < c => B[b][e] = sheet[b][e]

LEMMA CellLoaded ==
    ASSUME Base, Loading, NEW b \in Block, NEW rest \in Seq(Tokens), rest # <<>>,
           NEW c \in Cell, BeforeCell(b, rest, c), TakesCell(b, rest, c)
    PROVE  Loading'
<1>1. /\ sent \in Nat /\ sheet \in Board /\ A \in Board /\ B \in Board
      /\ pipe \in [Block -> Seq(Tokens)] /\ at \in [Block -> Nat]
      /\ bpc \in [Block -> {"command", "board", "ask", "answers", "gone"}]
  BY DEF Base, Types
<1>2. /\ PerBlock \in Nat \ {0, 1} /\ Cell = 0 .. PerBlock - 2
      /\ Written(b) \in 0 .. PerBlock /\ PerBlock = Height * Width + 1
  BY <1>1, Writing, WrittenIs DEF PerBlock
<1>3. /\ Len(rest) \in Nat /\ Len(rest) > 0 /\ DOMAIN rest = 1 .. Len(rest)
      /\ Tail(rest) \in Seq(Tokens) /\ Len(Tail(rest)) = Len(rest) - 1
      /\ DOMAIN Tail(rest) = 1 .. Len(rest) - 1
      /\ \A i \in 1 .. Len(rest) - 1 : Tail(rest)[i] = rest[i + 1]
  BY TakenFrom
<1>4. /\ pipe'[b] = Tail(rest)
      /\ \A o \in Block \ {b} : pipe'[o] = pipe[o]
  BY <1>1 DEF TakesCell
<1>5. /\ A'[b][c] = sheet[b][c]
      /\ \A o \in Block \ {b} : B'[o] = B[o]
      /\ B'[b] = [B[b] EXCEPT ![c] = sheet[b][c]]
  <2>1. Head(rest).value = sheet[b][c]  BY DEF TakesCell, Number
  <2>2. /\ A' = [A EXCEPT ![b][c] = Head(rest).value]
        /\ B' = [B EXCEPT ![b][c] = A'[b][c]]
    BY DEF TakesCell
  <2>3. A'[b][c] = sheet[b][c]  BY <1>1, <2>1, <2>2 DEF Board
  <2> QED BY <1>1, <2>2, <2>3 DEF Board
<1>6. sheet[b] \in [Cell -> Digit] /\ B[b] \in [Cell -> Digit]
  BY <1>1 DEF Board, Digit
<1>7. \A e \in Cell : e <= c => B'[b][e] = sheet[b][e]
  <2>1. \A e \in Cell : e < c => B[b][e] = sheet[b][e]  BY DEF BeforeCell
  <2>2. \A e \in Cell : e <= c => e = c \/ e < c  BY <1>2
  <2> QED BY <1>5, <1>6, <2>1, <2>2
<1>8. /\ Written(b)' = Written(b) /\ sheet' = sheet
      /\ UNCHANGED coordinator
  BY DEF TakesCell, Written, coordinator
<1>9. c \in Nat /\ Len(rest) = Written(b) - c - 1 /\ Written(b) > c + 1
  BY <1>2, <1>3 DEF BeforeCell
<1>10. CASE c = PerBlock - 2
  <2>1. Goes(b, "command")
    <3>1. c = Height * Width - 1  BY <1>2, <1>10, Parameters, Products
    <3> QED BY <3>1 DEF TakesCell
  <2>2. /\ bpc'[b] = "command"
        /\ \A o \in Block \ {b} : bpc'[o] = bpc[o] /\ at'[o] = at[o]
    BY <1>1, <2>1 DEF Goes
  <2>3. Written(b) = PerBlock /\ Len(rest) = 1  BY <1>2, <1>9, <1>10
  <2>4. pipe'[b] = <<>>  BY <1>3, <1>4, <2>3
  <2>5. B'[b] = sheet[b]
    <3>1. \A e \in Cell : e <= c  BY <1>2, <1>10
    <3>2. \A e \in Cell : B'[b][e] = sheet[b][e]  BY <1>7, <3>1
    <3>3. B'[b] \in [Cell -> Digit]  BY <1>5, <1>6
    <3> QED BY <1>6, <3>2, <3>3
  <2>6. Loaded(b)'  BY <1>8, <2>2, <2>3, <2>4, <2>5 DEF Loaded
  <2> QED BY <1>4, <1>5, <1>8, <2>2, <2>6, LoadingOthers
<1>11. CASE c # PerBlock - 2
  <2>1. /\ bpc' = [bpc EXCEPT ![b] = "board"] /\ at' = [at EXCEPT ![b] = c + 1]
    <3>1. c # Height * Width - 1  BY <1>2, <1>11, Parameters, Products
    <3> QED BY <3>1 DEF TakesCell
  <2>2. /\ bpc'[b] = "board" /\ at'[b] = c + 1
        /\ \A o \in Block \ {b} : bpc'[o] = bpc[o] /\ at'[o] = at[o]
    BY <1>1, <2>1
  <2>3. c + 1 \in Cell \ {0}  BY <1>2, <1>9, <1>11
  <2>4. Len(pipe'[b]) = Written(b) - (c + 1) - 1  BY <1>2, <1>3, <1>4, <1>9
  <2>5. ASSUME NEW i \in 1 .. Len(rest) - 1
        PROVE  Tail(rest)[i] = Number(sheet[b][(c + 1) + i - 1])
    <3>1. i + 1 \in DOMAIN rest /\ c + (i + 1) - 1 = (c + 1) + i - 1
      BY <1>3, <1>9
    <3> QED BY <1>3, <3>1 DEF BeforeCell
  <2>6. \A e \in Cell : e < c + 1 => B'[b][e] = sheet[b][e]
    <3>1. \A e \in Cell : e < c + 1 => e <= c  BY <1>2
    <3> QED BY <1>7, <3>1
  <2>7. \A i \in DOMAIN pipe'[b] : pipe'[b][i] = Number(sheet[b][(c + 1) + i - 1])
    BY <1>3, <1>4, <2>5
  <2>8. Halfway(b)'
    BY <1>8, <2>2, <2>3, <2>4, <2>6, <2>7 DEF Halfway
  <2> QED BY <1>4, <1>5, <1>8, <2>2, <2>8, LoadingOthers
<1> QED BY <1>10, <1>11

LEMMA LoadBoardLoads ==
    ASSUME Base, Loading, NEW b \in Block, LoadBoard(b)
    PROVE  Loading'
<1>1. /\ Types /\ sent \in Nat /\ sheet \in Board
      /\ pipe \in [Block -> Seq(Tokens)] /\ pipe[b] \in Seq(Tokens)
  BY DEF Base, Types
<1>2. /\ PerBlock \in Nat \ {0, 1} /\ Written(b) \in 0 .. PerBlock
      /\ 0 \in Cell /\ Cell = 0 .. PerBlock - 2
  BY <1>1, Writing, WrittenIs
<1> SUFFICES ASSUME NEW rest,
                    rest = IF bpc[b] = "board" THEN pipe[b] ELSE Tail(pipe[b]),
                    NEW c, c = at[b]
             PROVE  Loading'
  OBVIOUS
<1>3. /\ rest # <<>>
      /\ A' = IF Head(rest).cmd = "number"
              THEN [A EXCEPT ![b][c] = Head(rest).value] ELSE A
      /\ pipe' = [pipe EXCEPT ![b] =
                    IF Head(rest).cmd = "number" THEN Tail(rest) ELSE rest]
      /\ B' = [B EXCEPT ![b][c] = A'[b][c]]
      /\ UNCHANGED coordinator
      /\ IF c = Height * Width - 1
         THEN Goes(b, "command")
         ELSE bpc' = [bpc EXCEPT ![b] = "board"] /\ at' = [at EXCEPT ![b] = c + 1]
  BY DEF LoadBoard
<1>4. /\ rest \in Seq(Tokens) /\ c \in Cell
      /\ Len(rest) = Written(b) - c - 1
      /\ \A i \in DOMAIN rest : rest[i] = Number(sheet[b][c + i - 1])
      /\ \A e \in Cell : e < c => B[b][e] = sheet[b][e]
  <2>1. CASE bpc[b] = "board"
    <3>1. Halfway(b)  BY <2>1 DEF Loading, Unread, Loaded
    <3> QED BY <1>1, <2>1, <3>1 DEF Halfway
  <2>2. CASE bpc[b] # "board"
    <3>1. bpc[b] = "command" /\ pipe[b] # <<>> /\ Next_(b).cmd = "n"
      BY <2>2 DEF LoadBoard, Reads
    <3>2. Next_(b) \notin Numbers  BY <3>1, TokenKinds
    <3>3. /\ Len(pipe[b]) = Written(b)
          /\ \A i \in 1 .. Written(b) : pipe[b][i] = Stream(b)[i]
      BY <3>1, <3>2, LoadingReads
    <3>4. c = 0  BY <3>1 DEF Base, Counters
    <3>5. /\ rest \in Seq(Tokens) /\ Len(rest) = Written(b) - 1
          /\ DOMAIN rest = 1 .. Written(b) - 1
          /\ \A i \in 1 .. Written(b) - 1 : rest[i] = pipe[b][i + 1]
      BY <1>1, <2>2, <3>1, <3>3, TakenFrom
    <3>6. ASSUME NEW i \in 1 .. Written(b) - 1
          PROVE  rest[i] = Number(sheet[b][c + i - 1])
      <4>1. /\ i + 1 \in 1 .. Written(b) /\ i + 1 \in 2 .. PerBlock
            /\ (i + 1) - 2 = c + i - 1
        BY <1>2, <3>4
      <4>2. rest[i] = Stream(b)[i + 1]  BY <3>3, <3>5, <4>1
      <4> QED BY <1>1, <4>1, <4>2, StreamIs
    <3>7. Len(rest) = Written(b) - c - 1  BY <1>2, <3>4, <3>5
    <3>8. \A e \in Cell : ~(e < c)  BY <1>2, <3>4
    <3> QED BY <1>2, <3>4, <3>5, <3>6, <3>7, <3>8
  <2> QED BY <2>1, <2>2
<1>5. Head(rest) = Number(sheet[b][c]) /\ Head(rest).cmd = "number"
  <2>1. Head(rest) = rest[1] /\ 1 \in DOMAIN rest  BY <1>3, <1>4, TakenFrom
  <2>2. c + 1 - 1 = c  BY <1>2, <1>4
  <2>3. Head(rest) = Number(sheet[b][c])  BY <1>4, <2>1, <2>2
  <2>4. Number(sheet[b][c]).cmd = "number"  BY DEF Number
  <2> QED BY <2>3, <2>4
<1>6. /\ A' = [A EXCEPT ![b][c] = Head(rest).value]
      /\ pipe' = [pipe EXCEPT ![b] = Tail(rest)]
  BY <1>3, <1>5
<1>7. BeforeCell(b, rest, c)  BY <1>4 DEF BeforeCell
<1>8. TakesCell(b, rest, c)  BY <1>3, <1>5, <1>6 DEF TakesCell
<1> QED BY <1>3, <1>4, <1>7, <1>8, CellLoaded

(* Whatever happens while a board is on its way, if no command is given. *)
LEMMA LoadingStep ==
    ASSUME Base, Loading, Sends \/ \E b \in Block : RunBlock(b),
           cpc \in {"prompt", "board"}
    PROVE  Loading'
<1>1. CASE Sends  BY <1>1, SendBoardLoads DEF Sends, SendQuit, WaitForBlocks
<1>2. ASSUME NEW b \in Block, RunBlock(b) PROVE Loading'
  <2>1. bpc[b] \in {"command", "board"}
    BY DEF Loading, Unread, Halfway, Loaded
  <2>2. ASSUME bpc[b] = "command", pipe[b] # <<>>
        PROVE  Next_(b).cmd \in {"number", "n"}
    BY <2>2, LoadingReads, TokenKinds
  <2>3. SkipNumber(b) \/ LoadBoard(b)
    BY <1>2, <2>1, <2>2
       DEF RunBlock, StartPlacement, Ask, ReadAnswer, AnswerNeighbor, Bye, Reads
  <2> QED BY <2>3, SkipLoads, LoadBoardLoads
<1> QED BY <1>1, <1>2

-----------------------------------------------------------------------------
(* A digit is placed                                                       *)

(* Numbers of blocks, as one more or fewer has still to answer. *)
LEMMA Counting ==
    ASSUME NEW P \in SUBSET Block, NEW o \in Block
    PROVE  /\ Cardinality(P) \in Nat
           /\ Cardinality({}) = 0 /\ (Cardinality(P) = 0 => P = {})
           /\ o \notin P => Cardinality(P \cup {o}) = Cardinality(P) + 1
           /\ o \in P => Cardinality(P \ {o}) = Cardinality(P) - 1
<1>1. IsFiniteSet(Block)
  <2>1. BlockRows * BlockCols \in Nat  BY Parameters, Products
  <2> QED BY <2>1, FS_Interval DEF Block
<1>2. IsFiniteSet(P)  BY <1>1, FS_Subset
<1> QED BY <1>2, FS_CardinalityType, FS_EmptySet, FS_AddElement, FS_RemoveElement

(* Whether a line is free depends on the boards and the digit. *)
LEMMA FreeKept ==
    ASSUME UNCHANGED B, NEW b \in Block, move'[b].cell = move[b].cell,
           move'[b].digit = move[b].digit, NEW o, NEW line
    PROVE  Free(o, b, line)' <=> Free(o, b, line)
BY DEF Free, Verdict, OnLine, Index

LEMMA FreeMeans ==
    ASSUME NEW o \in Block, NEW b \in Block, NEW line, Free(o, b, line)
    PROVE  \A e \in OnLine(line, Index(line, move[b].cell)) : B[o][e] # move[b].digit
BY DEF Free, Verdict

(* The question is a request. *)
LEMMA QuestionIs ==
    ASSUME Base, NEW b \in Block
    PROVE  /\ Question(b) \in RequestsOf(b) /\ Question(b) \in Tokens
           /\ Question(b) \notin Numbers
           /\ Question(b).cmd = move[b].line
           /\ Question(b).index = Index(move[b].line, move[b].cell)
           /\ Question(b).digit = move[b].digit /\ Question(b).reply = b
<1>1. move[b].line \in Line /\ move[b].cell \in Cell /\ move[b].digit \in Digit
  BY Stays
<1>2. Index(move[b].line, move[b].cell) \in Nat
  <2>1. /\ move[b].cell \div Width \in 0 .. Height - 1
        /\ move[b].cell % Width \in 0 .. Width - 1
    BY <1>1, CellPlaces
  <2>2. /\ move[b].cell \div Width \in Nat /\ move[b].cell % Width \in Nat
    BY <2>1, Parameters
  <2> QED BY <2>2 DEF Index
<1>3. Question(b) \in RequestsOf(b) /\ Question(b) \in Tokens
  BY <1>1, <1>2, TokensAre DEF Question
<1>4. /\ Question(b).cmd = move[b].line
      /\ Question(b).index = Index(move[b].line, move[b].cell)
      /\ Question(b).digit = move[b].digit /\ Question(b).reply = b
  BY DEF Question, Request
<1>5. Question(b) \notin Numbers  BY <1>1, <1>4, TokenKinds DEF Line
<1> QED BY <1>3, <1>4, <1>5

(* A command at rest makes its block the one that places. *)
LEMMA CommandTold ==
    ASSUME Base, Idle, Obeys(B), NEW b \in Block, NEW x \in Placements,
           Write(b, x), UNCHANGED <<cpc, blocks>>
    PROVE  Placing(b)'
<1>1. Types /\ x \in Tokens  BY TokensAre DEF Base
<1>2. ASSUME NEW o \in Block
      PROVE  Quiet(pipe[o]) /\ bpc[o] = "command" /\ pipe[o] \in Seq(Tokens)
  <2>1. pipe[o] \in Seq(Tokens)  BY <1>1 DEF Types
  <2>2. \A i \in DOMAIN pipe[o] : pipe[o][i] \in Tokens /\ pipe[o][i].cmd = "number"
    BY <2>1 DEF Idle
  <2> QED BY <2>1, <2>2, TokenKinds DEF Idle, Quiet, EndsIn
<1>3. /\ pipe'[b] = Append(pipe[b], x)
      /\ \A o \in Block \ {b} : pipe'[o] = pipe[o]
  BY <1>1, PipeWritten
<1>4. EndsIn(Placements, pipe'[b])  BY <1>1, <1>2, <1>3, EndsWritten
<1>5. \A o \in Block \ {b} : Quiet(pipe'[o])  BY <1>2, <1>3
<1>6. bpc' = bpc /\ B' = B /\ cpc' = cpc  BY DEF blocks
<1>7. Told(b)'  BY <1>2, <1>4, <1>5, <1>6 DEF Told
<1>8. (Obeys(B))'  BY <1>6 DEF Obeys
<1> QED BY <1>2, <1>6, <1>7, <1>8 DEF Placing, Idle

(* What a block finds when it looks for a command. *)
LEMMA PlacingReads ==
    ASSUME Base, NEW b \in Block, Placing(b), NEW x \in Block,
           bpc[x] = "command", pipe[x] # <<>>, Next_(x) \notin Numbers
    PROVE  /\ Tail(pipe[x]) = <<>> /\ ~Quiet(pipe[x])
           /\ \/ x = b /\ Told(b) /\ Next_(b) \in Placements
              \/ x # b /\ Asking(b) /\ Next_(x) = Question(b)
              \/ x # b /\ Done(b) /\ Next_(x) \in RequestsOf(b)
<1>1. pipe[x] \in Seq(Tokens)  BY DEF Base, Types
<1>2. ASSUME NEW tokens, EndsIn(tokens, pipe[x])
      PROVE  Next_(x) \in tokens /\ Tail(pipe[x]) = <<>> /\ ~Quiet(pipe[x])
  BY <1>1, <1>2, EndsRead DEF Next_
<1>3. ~Quiet(pipe[x])
  <2>1. ASSUME Quiet(pipe[x]) PROVE FALSE  BY <1>2, <2>1 DEF Quiet
  <2> QED BY <2>1
<1>4. CASE Told(b)
  <2>1. x = b  BY <1>3, <1>4 DEF Told
  <2> QED BY <1>2, <1>4, <2>1 DEF Told
<1>5. CASE Asking(b)
  <2>1. x # b  BY <1>3, <1>5 DEF Asking
  <2>2. EndsIn({Question(b)}, pipe[x])  BY <1>5, <2>1 DEF Asking
  <2> QED BY <1>2, <1>5, <2>1, <2>2
<1>6. CASE Done(b)
  <2>1. x # b  BY <1>3, <1>6 DEF Done
  <2>2. EndsIn(RequestsOf(b), pipe[x])  BY <1>6, <2>1 DEF Done
  <2> QED BY <1>2, <1>6, <2>1, <2>2
<1> QED BY <1>4, <1>5, <1>6 DEF Placing

(* An old answer is skipped. *)
LEMMA PlacingSkip ==
    ASSUME Base, NEW b \in Block, Placing(b), NEW x \in Block, SkipNumber(x)
    PROVE  Placing(b)'
<1>1. /\ bpc[x] = "command" /\ pipe[x] # <<>> /\ Next_(x).cmd = "number"
      /\ Consume(x) /\ UNCHANGED <<coordinator, blocks>>
  BY DEF SkipNumber, Reads
<1>2. Types /\ pipe[x] \in Seq(Tokens)  BY DEF Base, Types
<1>3. Head(pipe[x]) \in Numbers
  BY <1>1, <1>2, Reading, TokenKinds DEF Next_
<1>4. /\ pipe'[x] = Tail(pipe[x])
      /\ \A o \in Block \ {x} : pipe'[o] = pipe[o]
  BY <1>1, <1>2, PipeRead
<1>5. ASSUME NEW tokens, NEW o \in Block, EndsIn(tokens, pipe[o])
      PROVE  EndsIn(tokens, pipe'[o]) /\ (Quiet(pipe'[o]) <=> Quiet(pipe[o]))
  <2>1. CASE o = x  BY <1>1, <1>2, <1>3, <1>4, <1>5, <2>1, EndsRead
  <2>2. CASE o # x  BY <1>4, <1>5, <2>2
  <2> QED BY <2>1, <2>2
<1>6. ASSUME NEW o \in Block, Quiet(pipe[o]) PROVE Quiet(pipe'[o])
  BY <1>5, <1>6 DEF Quiet
<1>7. UNCHANGED <<cpc, A, B, bpc, at, move>>  BY <1>1 DEF coordinator, blocks
<1>8. (Obeys(B))'  BY <1>7 DEF Placing, Obeys
<1>9. CASE Told(b)
  <2>1. Told(b)'  BY <1>5, <1>6, <1>7, <1>9 DEF Told
  <2> QED BY <1>7, <1>8, <2>1 DEF Placing
<1>10. CASE Done(b)
  <2>1. Done(b)'  BY <1>5, <1>6, <1>7, <1>10 DEF Done
  <2> QED BY <1>7, <1>8, <2>1 DEF Placing
<1>11. CASE Asking(b)
  <2>1. x # b  BY <1>1, <1>11 DEF Asking
  <2>2. pipe'[b] = pipe[b]  BY <1>4, <2>1
  <2>3. \A o \in Block : Quiet(pipe'[o]) <=> Quiet(pipe[o])
    <3>1. ASSUME NEW o \in Block \ {b} PROVE Quiet(pipe'[o]) <=> Quiet(pipe[o])
      BY <1>5, <1>11 DEF Asking
    <3> QED BY <2>2, <3>1
  <2>4. Pending' = Pending  BY <2>3 DEF Pending
  <2>5. /\ Asked(b)' = Asked(b) /\ AskedUpTo(b)' = AskedUpTo(b)
        /\ Question(b)' = Question(b)
    BY <1>7 DEF Asked, AskedUpTo, Question
  <2>6. \A o \in Block \ {b} : EndsIn({Question(b)}, pipe'[o])
    BY <1>5, <1>11 DEF Asking
  <2>7. \A o, line : Free(o, b, line)' <=> Free(o, b, line)
    BY <1>7, FreeKept
  <2>8. Asking(b)'
    BY <1>7, <1>11, <2>2, <2>4, <2>5, <2>6, <2>7 DEF Asking
  <2> QED BY <1>7, <1>8, <2>8 DEF Placing
<1> QED BY <1>9, <1>10, <1>11 DEF Placing

(* The command is read: refused at once, or the first question is next. *)
LEMMA PlacingStart ==
    ASSUME Base, NEW b \in Block, Placing(b), NEW x \in Block, StartPlacement(x)
    PROVE  Placing(b)'
<1>1. /\ bpc[x] = "command" /\ pipe[x] # <<>> /\ Next_(x).cmd = "p" /\ Consume(x)
      /\ UNCHANGED <<coordinator, A, B>>
      /\ IF Refused(x, Next_(x).cell, Next_(x).digit)
         THEN UNCHANGED <<bpc, at, move>>
         ELSE /\ Goes(x, "ask")
              /\ move' = [move EXCEPT ![x] =
                    [cell |-> Next_(x).cell, digit |-> Next_(x).digit, line |-> "r"]]
  BY DEF StartPlacement, Reads
<1>2. Next_(x) \notin Numbers  BY <1>1, TokenKinds
<1>3. x = b /\ Told(b) /\ Tail(pipe[b]) = <<>> /\ Next_(b) \in Tokens
  <2>1. Types  BY DEF Base
  <2>2. Next_(x) \in Tokens  BY <1>1, <2>1, Reading
  <2>3. Next_(x).cmd \notin Line  BY <1>1 DEF Line
  <2>4. Next_(x) # Question(b) /\ Next_(x) \notin RequestsOf(b)
    BY <2>3, QuestionIs, TokenKinds
  <2> QED BY <1>1, <1>2, <2>2, <2>4, PlacingReads
<1>4. /\ pipe'[b] = <<>>
      /\ \A o \in Block \ {b} : pipe'[o] = pipe[o]
  BY <1>1, <1>3, PipeRead DEF Base
<1>5. \A o \in Block : Quiet(pipe'[o])
  <2>1. Quiet(<<>>)  BY DEF Quiet, EndsIn
  <2> QED BY <1>3, <1>4, <2>1 DEF Told
<1>6. (Obeys(B))' /\ cpc' = "prompt"  BY <1>1 DEF Placing, Obeys, coordinator
<1>7. CASE Refused(x, Next_(x).cell, Next_(x).digit)
  <2>1. UNCHANGED bpc  BY <1>1, <1>7
  <2>2. Done(b)'  BY <1>3, <1>5, <2>1, QuietEnds DEF Done, Told
  <2> QED BY <1>6, <2>1, <2>2 DEF Placing
<1>8. CASE ~Refused(x, Next_(x).cell, Next_(x).digit)
  <2> DEFINE c == Next_(b).cell
             d == Next_(b).digit
  <2>1. /\ bpc' = [bpc EXCEPT ![b] = "ask"] /\ at' = [at EXCEPT ![b] = 0]
        /\ move' = [move EXCEPT ![b] = [cell |-> c, digit |-> d, line |-> "r"]]
    BY <1>1, <1>3, <1>8 DEF Goes
  <2>2. /\ bpc \in [Block -> {"command", "board", "ask", "answers", "gone"}]
        /\ at \in [Block -> Nat] /\ move \in [Block -> Moves]
    BY DEF Base, Types
  <2>3. /\ bpc'[b] = "ask" /\ at'[b] = 0
        /\ \A o \in Block \ {b} : bpc'[o] = bpc[o]
        /\ move'[b] = [cell |-> c, digit |-> d, line |-> "r"]
    BY <2>1, <2>2
  <2>4. d \in 1 .. MaxDigit  BY <1>1, <1>3, TokenKinds
  <2>5. \A e \in Cell : B[b][e] # d  BY <1>3, <1>8 DEF Refused
  <2> HIDE DEF c, d
  <2>6. Pending' = {}  BY <1>5 DEF Pending
  <2>7. /\ move'[b].digit = d /\ move'[b].line = "r"  BY <2>3
  <2>8. AskedUpTo(b)' = 0  BY <2>3 DEF AskedUpTo
  <2>9. Asked(b)' = {}  BY <2>8 DEF Asked
  <2>10. Len(pipe'[b]) + Cardinality(Pending') = 0
    <3>1. Cardinality({}) = 0  BY FS_EmptySet
    <3>2. Len(<<>>) = 0  OBVIOUS
    <3> QED BY <1>4, <2>6, <3>1, <3>2
  <2>11. \A o \in Block \ {b} : EndsIn({Question(b)'}, pipe'[o])
    BY <1>5, QuietEnds
  <2>12. B' = B /\ d # 0  BY <1>1, <2>4
  <2>13. Quiet(pipe'[b])  BY <1>5
  <2>14. Pending' \subseteq Asked(b)'  BY <2>6
  <2>15. Len(pipe'[b]) + Cardinality(Pending') =
            AskedUpTo(b)' - (IF bpc'[b] = "ask" THEN 0 ELSE at'[b])
    BY <2>3, <2>8, <2>10
  <2>16. \A e \in Cell : B'[b][e] # move'[b].digit  BY <2>5, <2>7, <2>12
  <2>17. move'[b].digit # 0 /\ move'[b].line # "c"  BY <2>7, <2>12
  <2>18. \A o \in Asked(b)' : FALSE  BY <2>9
  <2>19. Asking(b)'
    BY <2>3, <2>11, <2>13, <2>14, <2>15, <2>16, <2>17, <2>18 DEF Asking
  <2>20. \A o \in Block \ {b} : bpc'[o] = "command"  BY <1>3, <2>3 DEF Placing
  <2> QED BY <1>6, <2>19, <2>20 DEF Placing
<1> QED BY <1>7, <1>8

(* Another neighbour is asked. *)
LEMMA PlacingAsk ==
    ASSUME Base, NEW b \in Block, Placing(b), NEW x \in Block, Ask(x)
    PROVE  Placing(b)'
<1>1. x = b /\ Asking(b) /\ bpc[b] = "ask"
  BY DEF Placing, Told, Done, Ask
<1> SUFFICES ASSUME NEW line, line = move[b].line, NEW n, n = at[b],
                    NEW o, o = Neighbors(b, line)[n + 1]
             PROVE  Placing(b)'
  OBVIOUS
<1>2. Types /\ Counters  BY DEF Base
<1>3. /\ line \in Line /\ n \in Nat /\ Others(line) \in Nat \ {0}
      /\ n < Others(line) /\ Len(Neighbors(b, line)) = Others(line)
  BY <1>1, <1>2, Stays DEF Counters
<1>4. o \in Block \ {b} /\ bpc[o] = "command"
  <2>1. n + 1 \in 1 .. Others(line)  BY <1>3
  <2>2. o \in Block \ {b}  BY <1>3, <2>1, NeighborsAre
  <2> QED BY <2>2 DEF Placing
<1>5. /\ Write(o, Question(b))
      /\ IF n + 1 < Others(line) THEN Counts(b) ELSE Goes(b, "answers")
      /\ UNCHANGED <<coordinator, A, B, move>>
  BY <1>1, <1>3, <1>4 DEF Ask, Tell, Question
<1>6. Asked(b) = {Neighbors(b, line)[i] : i \in 1 .. n}
  BY <1>1 DEF Asked, AskedUpTo
<1>7. o \notin Pending
  <2>1. o \notin Asked(b)
    <3>1. ASSUME NEW i \in 1 .. n PROVE Neighbors(b, line)[i] # o
      <4>1. i \in 1 .. Others(line) /\ n + 1 \in 1 .. Others(line) /\ i # n + 1
        BY <1>3
      <4> QED BY <1>3, <4>1, NeighborsAre
    <3> QED BY <1>6, <3>1
  <2> QED BY <1>1, <2>1 DEF Asking
<1>8. /\ pipe'[o] = Append(pipe[o], Question(b))
      /\ \A p \in Block \ {o} : pipe'[p] = pipe[p]
  BY <1>2, <1>4, <1>5, QuestionIs, PipeWritten
<1>9. EndsIn({Question(b)}, pipe'[o]) /\ ~Quiet(pipe'[o])
  <2>1. pipe[o] \in Seq(Tokens)  BY <1>2, <1>4 DEF Types
  <2>2. Quiet(pipe[o])  BY <1>4, <1>7 DEF Pending
  <2>3. /\ Question(b) \in Tokens /\ Question(b) \notin Numbers
        /\ Question(b) \in {Question(b)}
    BY QuestionIs
  <2> QED BY <1>8, <2>1, <2>2, <2>3, EndsWritten
<1>10. Pending' = Pending \cup {o}
  BY <1>4, <1>8, <1>9 DEF Pending
<1>11. UNCHANGED <<cpc, A, B, move>> /\ Question(b)' = Question(b)
  BY <1>5 DEF coordinator, Question
<1>12. /\ bpc'[b] \in {"ask", "answers"}
       /\ AskedUpTo(b)' = n + 1
       /\ AskedUpTo(b)' - (IF bpc'[b] = "ask" THEN 0 ELSE at'[b]) = n + 1
       /\ \A p \in Block \ {b} : bpc'[p] = bpc[p]
  <2>1. /\ at \in [Block -> Nat]
        /\ bpc \in [Block -> {"command", "board", "ask", "answers", "gone"}]
    BY <1>2 DEF Types
  <2>2. CASE n + 1 < Others(line)
    <3>1. /\ bpc'[b] = "ask" /\ at'[b] = n + 1 /\ bpc' = bpc
      BY <1>1, <1>5, <2>1, <2>2 DEF Counts
    <3> QED BY <1>3, <3>1 DEF AskedUpTo
  <2>3. CASE ~(n + 1 < Others(line))
    <3>1. /\ bpc'[b] = "answers" /\ at'[b] = 0
          /\ \A p \in Block \ {b} : bpc'[p] = bpc[p]
      BY <1>5, <2>1, <2>3 DEF Goes
    <3>2. n + 1 = Others(line)  BY <1>3, <2>3
    <3>3. move'[b].line = line  BY <1>11
    <3> QED BY <1>3, <3>1, <3>2, <3>3 DEF AskedUpTo
  <2> QED BY <2>2, <2>3
<1>13. Asked(b)' = Asked(b) \cup {o}
  <2>1. Asked(b)' = {Neighbors(b, line)[i] : i \in 1 .. n + 1}
    BY <1>11, <1>12 DEF Asked
  <2>2. 1 .. n + 1 = (1 .. n) \cup {n + 1}  BY <1>3
  <2> QED BY <1>6, <2>1, <2>2
<1>14. Asking(b)'
  <2>1. Quiet(pipe'[b]) /\ pipe'[b] = pipe[b]  BY <1>1, <1>4, <1>8 DEF Asking
  <2>2. \A p \in Block \ {b} : EndsIn({Question(b)'}, pipe'[p])
    BY <1>1, <1>8, <1>9, <1>11 DEF Asking
  <2>3. Pending' \subseteq Asked(b)'  BY <1>1, <1>10, <1>13 DEF Asking
  <2>4. Len(pipe'[b]) + Cardinality(Pending') =
            AskedUpTo(b)' - (IF bpc'[b] = "ask" THEN 0 ELSE at'[b])
    <3>1. Cardinality(Pending') = Cardinality(Pending) + 1
      BY <1>4, <1>7, <1>10, Counting DEF Pending
    <3>2. Cardinality(Pending) \in Nat  BY <1>4, Counting DEF Pending
    <3>3. Len(pipe[b]) + Cardinality(Pending) = n
      BY <1>1, <1>3 DEF Asking, AskedUpTo
    <3>4. pipe[b] \in Seq(Tokens)  BY <1>2 DEF Types
    <3>5. Len(pipe[b]) \in Nat  BY <3>4
    <3> QED BY <1>12, <2>1, <3>1, <3>2, <3>3, <3>5
  <2>5. \A p \in Asked(b)' :
            \/ p \in Pending'
            \/ Free(p, b, move[b].line)'
            \/ \E i \in DOMAIN pipe'[b] : pipe'[b][i] # Number(0)
    <3>1. ASSUME NEW p \in Asked(b)
          PROVE  \/ p \in Pending'
                 \/ Free(p, b, move[b].line)'
                 \/ \E i \in DOMAIN pipe'[b] : pipe'[b][i] # Number(0)
      <4>1. Free(p, b, line)' <=> Free(p, b, line)  BY <1>11, FreeKept
      <4>2. Free(p, b, move[b].line)' <=> Free(p, b, line)'  BY <1>11 DEF Free
      <4> QED BY <1>1, <1>10, <2>1, <4>1, <4>2 DEF Asking
    <3> QED BY <1>10, <1>13, <3>1
  <2>6. /\ move'[b].digit # 0
        /\ \A c \in Cell : B'[b][c] # move'[b].digit
    BY <1>1, <1>11 DEF Asking
  <2>7. move'[b].line = "c" =>
            \A i \in 1 .. Others("r") : Free(RowNeighbors(b)[i], b, "r")'
    <3>1. \A p : Free(p, b, "r")' <=> Free(p, b, "r")  BY <1>11, FreeKept
    <3> QED BY <1>1, <1>11, <3>1 DEF Asking
  <2> QED BY <1>12, <2>1, <2>2, <2>3, <2>4, <2>5, <2>6, <2>7 DEF Asking
<1>15. cpc' = "prompt" /\ (Obeys(B))' /\ \A p \in Block \ {b} : bpc'[p] = "command"
  BY <1>11, <1>12 DEF Placing, Obeys
<1> QED BY <1>14, <1>15 DEF Placing

(* A neighbour answers, to whoever asked. *)
LEMMA PlacingAnswer ==
    ASSUME Base, NEW b \in Block, Placing(b), NEW x \in Block, AnswerNeighbor(x)
    PROVE  Placing(b)'
<1> SUFFICES ASSUME NEW q, q = Next_(x),
                    NEW v, v = Verdict(x, q.cmd, q.index, q.digit)
             PROVE  Placing(b)'
  OBVIOUS
<1>1. /\ bpc[x] = "command" /\ pipe[x] # <<>> /\ q.cmd \in Line
      /\ UNCHANGED <<coordinator, A, B, move>>
      /\ bpc[q.reply] # "gone" =>
            /\ pipe' = [pipe EXCEPT ![x] = Tail(@), ![q.reply] = Append(@, Number(v))]
            /\ UNCHANGED <<bpc, at>>
  BY DEF AnswerNeighbor, Line
<1>2. Types /\ pipe[x] \in Seq(Tokens) /\ pipe[b] \in Seq(Tokens)
  BY DEF Base, Types
<1>3. q \notin Numbers /\ q \notin Placements
  BY <1>1, TokenKinds DEF Line
<1>4. /\ x # b /\ Tail(pipe[x]) = <<>> /\ ~Quiet(pipe[x])
      /\ (Asking(b) /\ q = Question(b)) \/ (Done(b) /\ q \in RequestsOf(b))
  BY <1>1, <1>3, PlacingReads
<1>5. q.reply = b  BY <1>4, QuestionIs, TokenKinds
<1>6. bpc[b] # "gone"  BY <1>4 DEF Asking, Done
<1>7. v \in {0, 1} /\ Number(v) \in Numbers /\ Number(v) \in Tokens
  BY TokensAre DEF Verdict
<1>8. /\ pipe'[x] = <<>> /\ pipe'[b] = Append(pipe[b], Number(v))
      /\ \A o \in Block \ {x, b} : pipe'[o] = pipe[o]
  <2>1. pipe \in [Block -> Seq(Tokens)]  BY <1>2 DEF Types
  <2>2. pipe' = [pipe EXCEPT ![x] = Tail(@), ![b] = Append(@, Number(v))]
    BY <1>1, <1>5, <1>6
  <2> QED BY <1>1, <1>4, <1>7, <2>1, <2>2, ReadAndWritten
<1>9. UNCHANGED <<cpc, A, B, bpc, at, move>>
  BY <1>1, <1>5, <1>6 DEF coordinator
<1>10. Quiet(pipe'[b]) /\ Quiet(pipe'[x])
  <2>1. Quiet(pipe[b])  BY <1>4 DEF Asking, Done
  <2>2. Quiet(pipe'[b])  BY <1>2, <1>7, <1>8, <2>1, EndsWritten
  <2> QED BY <1>8, <2>2 DEF Quiet, EndsIn
<1>11. ASSUME NEW tokens, \A o \in Block \ {b} : EndsIn(tokens, pipe[o])
       PROVE  \A o \in Block \ {b} : EndsIn(tokens, pipe'[o])
  BY <1>8, <1>10, <1>11, QuietEnds
<1>12. (Obeys(B))' /\ \A o \in Block \ {b} : bpc'[o] = "command"
  BY <1>9 DEF Placing, Obeys
<1>13. CASE Done(b)
  <2>1. Done(b)'  BY <1>9, <1>10, <1>11, <1>13 DEF Done
  <2> QED BY <1>9, <1>12, <2>1 DEF Placing
<1>14. CASE Asking(b) /\ q = Question(b)
  <2>1. x \in Pending /\ Pending' = Pending \ {x}
    <3>1. \A o \in Block : Quiet(pipe'[o]) <=> (o = x \/ Quiet(pipe[o]))
      BY <1>4, <1>8, <1>10, <1>14 DEF Asking
    <3> QED BY <1>4, <3>1 DEF Pending
  <2>2. /\ Asked(b)' = Asked(b) /\ AskedUpTo(b)' = AskedUpTo(b)
        /\ Question(b)' = Question(b)
    BY <1>9 DEF Asked, AskedUpTo, Question
  <2>3. \A o \in Block \ {b} : EndsIn({Question(b)'}, pipe'[o])
    BY <1>11, <1>14, <2>2 DEF Asking
  <2>4. /\ Len(pipe'[b]) = Len(pipe[b]) + 1 /\ Len(pipe[b]) \in Nat
        /\ DOMAIN pipe'[b] = 1 .. Len(pipe[b]) + 1
        /\ \A i \in DOMAIN pipe[b] : i \in DOMAIN pipe'[b] /\ pipe'[b][i] = pipe[b][i]
        /\ pipe'[b][Len(pipe[b]) + 1] = Number(v)
    BY <1>2, <1>7, <1>8, AddedTo
  <2>5. Len(pipe'[b]) + Cardinality(Pending') =
            AskedUpTo(b)' - (IF bpc'[b] = "ask" THEN 0 ELSE at'[b])
    <3>1. /\ Cardinality(Pending') = Cardinality(Pending) - 1
          /\ Cardinality(Pending) \in Nat
      BY <2>1, Counting DEF Pending
    <3>2. Len(pipe[b]) + Cardinality(Pending) =
            AskedUpTo(b) - (IF bpc[b] = "ask" THEN 0 ELSE at[b])
      BY <1>14 DEF Asking
    <3>3. Len(pipe'[b]) + Cardinality(Pending')
            = Len(pipe[b]) + Cardinality(Pending)
      <4>1. Len(pipe'[b]) = Len(pipe[b]) + 1 /\ Len(pipe[b]) \in Nat  BY <2>4
      <4> QED BY <3>1, <4>1, SMT
    <3> QED BY <1>9, <2>2, <3>2, <3>3
  <2>6. \A p, line : Free(p, b, line)' <=> Free(p, b, line)
    BY <1>9, FreeKept
  <2>7. ASSUME NEW p \in Asked(b)
        PROVE  \/ p \in Pending'
               \/ Free(p, b, move[b].line)'
               \/ \E i \in DOMAIN pipe'[b] : pipe'[b][i] # Number(0)
    <3>1. CASE p = x /\ v = 0
      <4>1. Free(p, b, move[b].line)  BY <1>14, <3>1, QuestionIs DEF Free
      <4>2. Free(p, b, move[b].line)'  BY <1>9, <4>1 DEF Free, Verdict, OnLine, Index
      <4> QED BY <4>2
    <3>2. CASE p = x /\ v = 1
      <4>1. Number(1) # Number(0)  BY DEF Number
      <4> QED BY <2>4, <3>2, <4>1
    <3>3. CASE p # x
      <4>1. CASE p \in Pending  BY <2>1, <3>3, <4>1
      <4>2. CASE Free(p, b, move[b].line)
        <5>1. Free(p, b, move[b].line)'  BY <1>9, <4>2 DEF Free, Verdict, OnLine, Index
        <5> QED BY <5>1
      <4>3. CASE \E i \in DOMAIN pipe[b] : pipe[b][i] # Number(0)
        BY <2>4, <4>3
      <4> QED BY <1>14, <4>1, <4>2, <4>3 DEF Asking
    <3> QED BY <1>7, <3>1, <3>2, <3>3
  <2>8. Asking(b)'
    BY <1>9, <1>10, <1>14, <2>1, <2>2, <2>3, <2>5, <2>6, <2>7 DEF Asking
  <2> QED BY <1>9, <1>12, <2>8 DEF Placing
<1> QED BY <1>4, <1>13, <1>14

(* The last answer of a line: every block of it has said the line is free. *)
LEMMA AllFree ==
    ASSUME Base, NEW b \in Block, Asking(b), bpc[b] = "answers",
           NEW line, line = move[b].line, at[b] + 1 = Others(line),
           pipe[b] # <<>>, Next_(b) = Number(0)
    PROVE  /\ Tail(pipe[b]) = <<>> /\ Pending = {}
           /\ \A i \in 1 .. Others(line) : Free(Neighbors(b, line)[i], b, line)
<1>1. pipe[b] \in Seq(Tokens) /\ at[b] \in Nat  BY DEF Base, Types
<1>2. /\ Len(pipe[b]) \in Nat /\ Len(pipe[b]) > 0 /\ DOMAIN pipe[b] = 1 .. Len(pipe[b])
      /\ Head(pipe[b]) = pipe[b][1]
      /\ Tail(pipe[b]) \in Seq(Tokens) /\ Len(Tail(pipe[b])) = Len(pipe[b]) - 1
  BY <1>1, TakenFrom
<1>3. AskedUpTo(b) = Others(line) /\ Others(line) \in Nat
  BY Stays DEF AskedUpTo
<1>4. Len(pipe[b]) + Cardinality(Pending) = Others(line) - at[b]
  BY <1>3 DEF Asking
<1>5. Cardinality(Pending) \in Nat /\ (Cardinality(Pending) = 0 => Pending = {})
  BY Counting DEF Pending
<1>6. Len(pipe[b]) = 1 /\ Cardinality(Pending) = 0
  <2>1. Len(pipe[b]) \in Nat /\ Len(pipe[b]) > 0 /\ Cardinality(Pending) \in Nat
    BY <1>2, <1>5
  <2>2. Len(pipe[b]) + Cardinality(Pending) = 1  BY <1>1, <1>3, <1>4
  <2>3. \A m, k \in Nat : m > 0 /\ m + k = 1 => m = 1 /\ k = 0  OBVIOUS
  <2> QED BY <2>1, <2>2, <2>3
<1>7. ASSUME NEW i \in 1 .. Others(line)
      PROVE  Free(Neighbors(b, line)[i], b, line)
  <2>1. Neighbors(b, line)[i] \in Asked(b)  BY <1>3 DEF Asked
  <2>2. \A j \in DOMAIN pipe[b] : pipe[b][j] = Number(0)
    BY <1>2, <1>6 DEF Next_
  <2> QED BY <1>5, <1>6, <2>1, <2>2 DEF Asking
<1>8. Tail(pipe[b]) = <<>>
  <2>1. Len(Tail(pipe[b])) = 0  BY <1>2, <1>6
  <2> QED BY <1>2, <2>1, EmptySeq
<1> QED BY <1>5, <1>6, <1>7, <1>8

(* An answer is read. *)
LEMMA PlacingRead ==
    ASSUME Base, NEW b \in Block, Placing(b), NEW x \in Block, ReadAnswer(x)
    PROVE  Placing(b)'
<1>1. x = b /\ Asking(b) /\ bpc[b] = "answers"
  BY DEF Placing, Told, Done, ReadAnswer
<1> SUFFICES ASSUME NEW line, line = move[b].line, NEW n, n = at[b],
                    NEW w, w = Next_(b).value
             PROVE  Placing(b)'
  OBVIOUS
<1>2. /\ pipe[b] # <<>> /\ UNCHANGED <<coordinator, A>>
      /\ Next_(b).cmd = "number" => Consume(b)
      /\ \E response \in Response(b) :
            CASE response # 0 -> Goes(b, "command") /\ UNCHANGED <<B, move>>
              [] response = 0 /\ n + 1 < Len(Neighbors(b, line)) ->
                    Counts(b) /\ UNCHANGED <<B, move>>
              [] OTHER -> LineFree(b)
  BY <1>1 DEF ReadAnswer
<1>3. Types /\ Counters /\ pipe[b] \in Seq(Tokens)  BY DEF Base, Types
<1>4. /\ line \in Line /\ n \in Nat /\ Others(line) \in Nat \ {0}
      /\ n < Others(line) /\ Len(Neighbors(b, line)) = Others(line)
      /\ at \in [Block -> Nat] /\ move \in [Block -> Moves]
      /\ bpc \in [Block -> {"command", "board", "ask", "answers", "gone"}]
  BY <1>1, <1>3, Stays DEF Counters, Types
<1>5. /\ Len(pipe[b]) \in Nat /\ Len(pipe[b]) > 0 /\ DOMAIN pipe[b] = 1 .. Len(pipe[b])
      /\ Head(pipe[b]) = pipe[b][1]
      /\ Len(Tail(pipe[b])) = Len(pipe[b]) - 1
      /\ DOMAIN Tail(pipe[b]) = 1 .. Len(pipe[b]) - 1
      /\ \A i \in 1 .. Len(pipe[b]) - 1 : Tail(pipe[b])[i] = pipe[b][i + 1]
  BY <1>2, <1>3, TakenFrom
<1>6. Next_(b) \in Numbers /\ w \in Digit /\ Next_(b) = Number(w)
  <2>1. Quiet(pipe[b])  BY <1>1 DEF Asking
  <2>2. pipe[b][1] \in Numbers  BY <1>3, <1>5, <2>1, QuietAre
  <2> QED BY <1>5, <2>2, TokenKinds DEF Next_
<1>7. Next_(b).cmd = "number" /\ Response(b) = {w}
  <2>1. Next_(b).cmd = "number"  BY <1>6, TokenKinds
  <2> QED BY <2>1 DEF Response
<1>8. /\ pipe'[b] = Tail(pipe[b])
      /\ \A o \in Block \ {b} : pipe'[o] = pipe[o]
  BY <1>2, <1>3, <1>7, PipeRead
<1>9. Quiet(pipe'[b])
  BY <1>1, <1>2, <1>3, <1>8, EndsRead DEF Asking, Quiet
<1>10. Pending' = Pending
  <2>1. \A o \in Block : Quiet(pipe'[o]) <=> Quiet(pipe[o])
    BY <1>1, <1>8, <1>9 DEF Asking
  <2> QED BY <2>1 DEF Pending
<1>11. cpc' = "prompt"  BY <1>2 DEF Placing, coordinator
<1>12. CASE w # 0
  <2>1. Goes(b, "command") /\ UNCHANGED <<B, move>>  BY <1>2, <1>7, <1>12
  <2>2. bpc'[b] = "command" /\ \A o \in Block \ {b} : bpc'[o] = bpc[o]
    BY <1>4, <2>1 DEF Goes
  <2>3. \A o \in Block \ {b} : EndsIn(RequestsOf(b), pipe'[o])
    BY <1>1, <1>8, QuestionIs, EndsWeaker DEF Asking
  <2>4. Done(b)'  BY <1>9, <2>2, <2>3 DEF Done
  <2>5. (Obeys(B))'  BY <2>1 DEF Placing, Obeys
  <2> QED BY <1>11, <2>2, <2>4, <2>5 DEF Placing
<1>13. CASE w = 0 /\ n + 1 < Others(line)
  <2>1. Counts(b) /\ UNCHANGED <<B, move>>  BY <1>2, <1>4, <1>7, <1>13
  <2>2. bpc' = bpc /\ at'[b] = n + 1  BY <1>4, <2>1 DEF Counts
  <2>3. /\ AskedUpTo(b)' = AskedUpTo(b) /\ Question(b)' = Question(b)
        /\ AskedUpTo(b) = Others(line)
    BY <1>1, <2>1, <2>2 DEF AskedUpTo, Question
  <2>4. Asked(b)' = Asked(b)  BY <2>1, <2>3 DEF Asked
  <2>5. \A o \in Block \ {b} : EndsIn({Question(b)'}, pipe'[o])
    BY <1>1, <1>8, <2>3 DEF Asking
  <2>6. Len(pipe'[b]) + Cardinality(Pending') =
            AskedUpTo(b)' - (IF bpc'[b] = "ask" THEN 0 ELSE at'[b])
    <3>1. Len(pipe[b]) + Cardinality(Pending) = Others(line) - n
      BY <1>1, <2>3 DEF Asking
    <3>2. Cardinality(Pending) \in Nat  BY Counting DEF Pending
    <3>3. Len(pipe'[b]) = Len(pipe[b]) - 1 /\ Len(pipe[b]) \in Nat  BY <1>5, <1>8
    <3>4. Len(pipe'[b]) + Cardinality(Pending') = Others(line) - (n + 1)
      <4>1. n \in Nat /\ Others(line) \in Nat  BY <1>4
      <4>2. Cardinality(Pending') = Cardinality(Pending)  BY <1>10
      <4>3. (Len(pipe[b]) - 1) + Cardinality(Pending) = Others(line) - (n + 1)
        <5>1. Len(pipe[b]) \in Nat  BY <3>3
        <5>2. Cardinality(Pending) \in Nat  BY <3>2
        <5>3. n \in Nat /\ Others(line) \in Nat  BY <4>1
        <5>4. Len(pipe[b]) + Cardinality(Pending) = Others(line) - n  BY <3>1
        <5> QED BY ONLY <5>1, <5>2, <5>3, <5>4
      <4> QED BY <3>3, <4>2, <4>3
    <3> QED BY <1>1, <2>2, <2>3, <3>4
  <2>7. ASSUME NEW p \in Asked(b)
        PROVE  \/ p \in Pending'
               \/ Free(p, b, move[b].line)'
               \/ \E i \in DOMAIN pipe'[b] : pipe'[b][i] # Number(0)
    <3>1. CASE p \in Pending  BY <1>10, <3>1
    <3>2. CASE Free(p, b, move[b].line)
      <4>1. Free(p, b, move[b].line)'  BY <2>1, <3>2 DEF Free, Verdict, OnLine, Index
      <4> QED BY <4>1
    <3>3. CASE \E i \in DOMAIN pipe[b] : pipe[b][i] # Number(0)
      <4>1. PICK i \in DOMAIN pipe[b] : pipe[b][i] # Number(0)  BY <3>3
      <4>2. pipe[b][1] = Number(0)  BY <1>5, <1>6, <1>13 DEF Next_
      <4>3. i - 1 \in 1 .. Len(pipe[b]) - 1 /\ (i - 1) + 1 = i
        BY <1>5, <4>1, <4>2
      <4>4. i - 1 \in DOMAIN pipe'[b] /\ pipe'[b][i - 1] = pipe[b][i]
        BY <1>5, <1>8, <4>3
      <4> QED BY <4>1, <4>4
    <3> QED BY <1>1, <3>1, <3>2, <3>3 DEF Asking
  <2>8. \A p, l : Free(p, b, l)' <=> Free(p, b, l)  BY <2>1, FreeKept
  <2>9. Asking(b)'
    BY <1>1, <1>9, <1>10, <2>1, <2>2, <2>4, <2>5, <2>6, <2>7, <2>8 DEF Asking
  <2>10. (Obeys(B))'  BY <2>1 DEF Placing, Obeys
  <2> QED BY <1>11, <2>2, <2>9, <2>10 DEF Placing
<1>14. CASE w = 0 /\ n + 1 = Others(line)
  <2>1. LineFree(b)  BY <1>2, <1>4, <1>7, <1>14
  <2>2. /\ pipe'[b] = <<>> /\ Pending = {}
        /\ \A i \in 1 .. Others(line) : Free(Neighbors(b, line)[i], b, line)
    BY <1>1, <1>2, <1>6, <1>8, <1>14, AllFree
  <2>3. \A o \in Block : Quiet(pipe'[o])
    BY <1>10, <2>2 DEF Pending
  <2>4. /\ move[b].cell \in Cell /\ move[b].digit \in Digit /\ move[b].digit # 0
        /\ \A e \in Cell : B[b][e] # move[b].digit
    BY <1>1, Stays DEF Asking
  <2>5. CASE line = "r"
    <3>1. /\ Goes(b, "ask") /\ UNCHANGED B
          /\ move' = [move EXCEPT ![b].line = "c"]
      BY <2>1, <2>5 DEF LineFree
    <3>2. /\ bpc'[b] = "ask" /\ at'[b] = 0
          /\ \A o \in Block \ {b} : bpc'[o] = bpc[o]
      BY <1>4, <3>1 DEF Goes
    <3>3. /\ move'[b].line = "c" /\ move'[b].cell = move[b].cell
          /\ move'[b].digit = move[b].digit
      BY <1>4, <3>1 DEF Moves
    <3>4. AskedUpTo(b)' = 0  BY <3>2 DEF AskedUpTo
    <3>5. Asked(b)' = {}  BY <3>4 DEF Asked
    <3>6. \A o \in Block \ {b} : EndsIn({Question(b)'}, pipe'[o])
      BY <2>3, QuietEnds
    <3>7. Len(pipe'[b]) + Cardinality(Pending') =
            AskedUpTo(b)' - (IF bpc'[b] = "ask" THEN 0 ELSE at'[b])
      <4>1. Cardinality({}) = 0  BY FS_EmptySet
      <4>2. Len(<<>>) = 0  OBVIOUS
      <4> QED BY <1>10, <2>2, <3>2, <3>4, <4>1, <4>2
    <3>8. \A i \in 1 .. Others("r") : Free(RowNeighbors(b)[i], b, "r")'
      <4>1. \A i \in 1 .. Others("r") : Free(RowNeighbors(b)[i], b, "r")
        BY <2>2, <2>5 DEF Neighbors
      <4>2. \A p : Free(p, b, "r")' <=> Free(p, b, "r")  BY <3>1, <3>3, FreeKept
      <4> QED BY <4>1, <4>2
    <3>9. Pending' \subseteq Asked(b)'  BY <1>10, <2>2
    <3>10. \A e \in Cell : B'[b][e] # move'[b].digit  BY <2>4, <3>1, <3>3
    <3>11. \A o \in Asked(b)' : FALSE  BY <3>5
    <3>12. Asking(b)'
      BY <1>9, <2>4, <3>2, <3>3, <3>6, <3>7, <3>8, <3>9, <3>10, <3>11 DEF Asking
    <3>13. (Obeys(B))'  BY <3>1 DEF Placing, Obeys
    <3> QED BY <1>11, <3>2, <3>12, <3>13 DEF Placing
  <2>6. CASE line = "c"
    <3>1. /\ Goes(b, "command")
          /\ B' = [B EXCEPT ![b][move[b].cell] = move[b].digit]
      BY <2>1, <2>6 DEF LineFree
    <3>2. bpc'[b] = "command" /\ \A o \in Block \ {b} : bpc'[o] = bpc[o]
      BY <1>4, <3>1 DEF Goes
    <3>3. Done(b)'
      <4>1. \A o \in Block \ {b} : EndsIn(RequestsOf(b), pipe'[o])
        BY <2>3, QuietEnds
      <4> QED BY <1>9, <3>2, <4>1 DEF Done
    <3>4. ASSUME NEW l \in Line, NEW k \in 1 .. Others(l)
          PROVE  \A e \in OnLine(l, Index(l, move[b].cell)) :
                    B[Neighbors(b, l)[k]][e] # move[b].digit
      <4>1. Free(Neighbors(b, l)[k], b, l)
        BY <1>1, <2>2, <2>6 DEF Line, Neighbors, Asking
      <4>2. Neighbors(b, l)[k] \in Block  BY NeighborsAre
      <4> QED BY <4>1, <4>2, FreeMeans
    <3>5. B \in Board /\ Obeys(B)  BY <1>3 DEF Types, Placing
    <3>6. Obeys([B EXCEPT ![b][move[b].cell] = move[b].digit])
      BY <2>4, <3>4, <3>5, PlacedObeys
    <3>7. (Obeys(B))'  BY <3>1, <3>6 DEF Obeys
    <3> QED BY <1>11, <3>2, <3>3, <3>7 DEF Placing
  <2> QED BY <1>4, <2>5, <2>6 DEF Line
<1> QED BY <1>4, <1>12, <1>13, <1>14

(* A placement goes on until it is made or refused, and then stays so. *)
LEMMA PlacingStep ==
    ASSUME Base, NEW b \in Block, Placing(b), NEW x \in Block, RunBlock(x)
    PROVE  Placing(b)'
<1>1. ~LoadBoard(x) /\ ~Bye(x)
  <2>1. ASSUME bpc[x] = "command", pipe[x] # <<>>, Next_(x).cmd \in {"n", "q"}
        PROVE  FALSE
    <3>1. Next_(x) \notin Numbers /\ Next_(x) \notin Placements
      BY <2>1, TokenKinds
    <3>2. Next_(x).cmd \notin Line  BY <2>1 DEF Line
    <3>3. Next_(x) # Question(b) /\ Next_(x) \notin RequestsOf(b)
      BY <3>2, QuestionIs, TokenKinds
    <3>4. \/ x = b /\ Told(b) /\ Next_(b) \in Placements
          \/ x # b /\ Asking(b) /\ Next_(x) = Question(b)
          \/ x # b /\ Done(b) /\ Next_(x) \in RequestsOf(b)
      BY <2>1, <3>1, PlacingReads
    <3> QED BY <3>1, <3>3, <3>4
  <2>2. bpc[x] # "board"  BY DEF Placing, Told, Asking, Done
  <2> QED BY <2>1, <2>2 DEF LoadBoard, Bye, Reads
<1> QED BY <1>1, PlacingSkip, PlacingStart, PlacingAsk, PlacingRead, PlacingAnswer
    DEF RunBlock

-----------------------------------------------------------------------------
(* The rule of the game                                                    *)

(* At rest the board is in order, whatever was done last. *)
LEMMA RestObeys ==
    ASSUME Base, OneAtATime, ~overlapped, Idle
    PROVE  Obeys(B)
<1>1. Loading \/ \E b \in Block : Placing(b)  BY DEF Idle, OneAtATime
<1> QED BY <1>1, LoadedObeys DEF Placing

(* A step of nobody. *)
LEMMA LoadingStays ==
    ASSUME UNCHANGED vars, Loading PROVE Loading'
<1>1. UNCHANGED <<cpc, sent, sheet, pipe, B, bpc, at>>
  BY DEF vars, coordinator, blocks
<1>2. (Obeys(sheet))'  BY <1>1 DEF Loading, Obeys
<1>3. ASSUME NEW b \in Block
      PROVE  /\ Unread(b)' <=> Unread(b)
             /\ Halfway(b)' <=> Halfway(b)
             /\ Loaded(b)' <=> Loaded(b)
  <2>1. Written(b)' = Written(b) /\ Stream(b)' = Stream(b)
    BY <1>1 DEF Written, Stream
  <2> QED BY <1>1, <2>1 DEF Unread, Halfway, Loaded
<1> QED BY <1>1, <1>2, <1>3 DEF Loading

LEMMA PlacingStays ==
    ASSUME UNCHANGED vars, NEW b \in Block, Placing(b) PROVE Placing(b)'
<1>1. UNCHANGED <<cpc, pipe, B, bpc, at, move>>
  BY DEF vars, coordinator, blocks
<1>2. (Obeys(B))'  BY <1>1 DEF Placing, Obeys
<1>3. Told(b)' <=> Told(b)  BY <1>1 DEF Told
<1>4. Done(b)' <=> Done(b)  BY <1>1 DEF Done
<1>5. Asking(b)' <=> Asking(b)
  <2>1. /\ Asked(b)' = Asked(b) /\ AskedUpTo(b)' = AskedUpTo(b)
        /\ Question(b)' = Question(b) /\ Pending' = Pending
    BY <1>1 DEF Asked, AskedUpTo, Question, Pending
  <2>2. \A o, line : Free(o, b, line)' <=> Free(o, b, line)
    BY <1>1, FreeKept
  <2>3. \A o : Free(o, b, move[b].line)' <=> Free(o, b, move[b].line)
    BY <1>1 DEF Free, Verdict, OnLine, Index
  <2> QED BY <1>1, <2>1, <2>2, <2>3 DEF Asking
<1> QED BY <1>1, <1>2, <1>3, <1>4, <1>5 DEF Placing

(* One thing is under way at a time, if the player waits. *)
LEMMA StepOne == Base /\ OneAtATime /\ [Next]_vars => OneAtATime'
<1> SUFFICES ASSUME Base, OneAtATime, [Next]_vars,
                    ~overlapped', cpc' \in {"prompt", "board"}
             PROVE  Loading' \/ \E b \in Block : Placing(b)'
  BY DEF OneAtATime
<1>1. CASE NewGame
  <2>1. PICK game \in Games : SendNext(game.A)  BY <1>1 DEF NewGame
  <2>2. Idle /\ UNCHANGED <<pipe, blocks>>  BY <1>1 DEF NewGame
  <2> QED BY <2>1, <2>2, GamesObey, LoadingStarts
<1>2. CASE ShowSolution
  <2>1. Idle /\ SendNext(S) /\ UNCHANGED <<pipe, blocks>>
    BY <1>2 DEF ShowSolution
  <2>2. Obeys(S)  BY DEF Base, Solved
  <2> QED BY <2>1, <2>2, LoadingStarts
<1>3. CASE PlaceDigit
  <2> SUFFICES ASSUME NEW key, key = Head(script)
               PROVE  \E b \in Block : Placing(b)'
    OBVIOUS
  <2>1. /\ Idle /\ ~overlapped
        /\ Write(key.b, Placement(key.c, key.d))
        /\ UNCHANGED <<cpc, blocks>>
    BY <1>3 DEF PlaceDigit
  <2>2. key.b \in Block /\ key.c \in Cell /\ key.d \in 1 .. MaxDigit
    <3>1. script \in Seq(Key) /\ script # <<>> /\ key.letter = "p"
      BY <1>3 DEF PlaceDigit, Typed, Base, Types
    <3>2. key \in Key  BY <3>1
    <3> QED BY <3>1, <3>2 DEF Key
  <2>3. Placement(key.c, key.d) \in Placements  BY <2>2, TokensAre
  <2>4. Obeys(B)  BY <2>1, RestObeys
  <2> QED BY <2>1, <2>2, <2>3, <2>4, CommandTold
<1>4. CASE Quit  BY <1>4 DEF Quit
<1>5. CASE SendBoard
  <2>1. cpc = "board" /\ ~overlapped  BY <1>5 DEF SendBoard
  <2>2. Loading  BY <2>1 DEF OneAtATime, Placing
  <2> QED BY <1>5, <2>2, SendBoardLoads
<1>6. CASE SendQuit  BY <1>6 DEF SendQuit
<1>7. CASE WaitForBlocks  BY <1>7 DEF WaitForBlocks
<1>8. ASSUME NEW x \in Block, RunBlock(x)
      PROVE  Loading' \/ \E b \in Block : Placing(b)'
  <2>1. UNCHANGED coordinator
    BY <1>8 DEF RunBlock, SkipNumber, LoadBoard, StartPlacement, Ask, ReadAnswer,
                AnswerNeighbor, Bye
  <2>2. cpc \in {"prompt", "board"} /\ ~overlapped  BY <2>1 DEF coordinator
  <2>3. CASE Loading  BY <1>8, <2>2, <2>3, LoadingStep
  <2>4. CASE \E b \in Block : Placing(b)  BY <1>8, <2>4, PlacingStep
  <2> QED BY <2>2, <2>3, <2>4 DEF OneAtATime
<1>9. CASE UNCHANGED vars
  <2>1. Loading \/ \E b \in Block : Placing(b)
    BY <1>9 DEF OneAtATime, vars, coordinator
  <2> QED BY <1>9, <2>1, LoadingStays, PlacingStays
<1> QED BY <1>1, <1>2, <1>3, <1>4, <1>5, <1>6, <1>7, <1>8, <1>9
    DEF Next, Player, Sends

LEMMA InitOne == Init => OneAtATime
<1> SUFFICES ASSUME Init PROVE \E b \in Block : Placing(b)
  BY DEF OneAtATime
<1>1. 0 \in Block  BY Writing, 0 \in Nat DEF Init
<1>2. Obeys(B)
  <2>1. \E game \in Games : B = game.A  BY DEF Init
  <2> QED BY <2>1, GamesObey
<1>3. \A b \in Block : bpc[b] = "command" /\ Quiet(pipe[b])
  BY DEF Init, Quiet, EndsIn
<1>4. Done(0)  BY <1>1, <1>3, QuietEnds DEF Done
<1>5. Placing(0)  BY <1>2, <1>3, <1>4 DEF Placing, Init
<1> QED BY <1>1, <1>5

(***************************************************************************)
(* No digit is twice in a row, a column or a block when the game rests and *)
(* commands were given one at a time (block.c:93-148): the blocks asked    *)
(* are all that share a row or a column with the cell, and each answers    *)
(* before the digit is placed.                                             *)
(***************************************************************************)
THEOREM RuleCorrect == Spec => []SudokuRule
<1>1. Init => IInv  BY InitBase, InitOne DEF Base, IInv
<1>2. IInv /\ [Next]_vars => IInv'  BY StepBase, StepOne DEF Base, IInv
<1>3. IInv => SudokuRule  BY RestObeys DEF Base, IInv, SudokuRule
<1> QED BY <1>1, <1>2, <1>3, PTL DEF Spec

=============================================================================
