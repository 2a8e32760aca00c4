------------------------------ MODULE MCFoodoku ------------------------------
(***************************************************************************)
(* Two bands of three blocks, each block two cells high and one wide: four *)
(* rows, three columns, four digits.                                       *)
(***************************************************************************)
EXTENDS Foodoku

(* Rows of a board, cut into blocks. *)
Cut(rows) ==
    [b \in Block |-> [c \in Cell |->
        rows[(b \div BlockCols) * Height + c \div Width + 1]
            [(b % BlockCols) * Width + (c % Width) + 1]]]

MCGames ==
    {[A |-> Cut(<< <<1, 0, 0>>, <<0, 3, 4>>, <<0, 4, 0>>, <<4, 0, 2>> >>),
      S |-> Cut(<< <<1, 2, 3>>, <<2, 3, 4>>, <<3, 4, 1>>, <<4, 1, 2>> >>)]}

n == [letter |-> "n"]
s == [letter |-> "s"]
q == [letter |-> "q"]
p(b, c, d) == [letter |-> "p", b |-> b, c |-> c, d |-> d]

(***************************************************************************)
(* Right; in conflict with a first neighbour, a second one, the block or   *)
(* the column; on a clue; and two that race in one band.                   *)
(***************************************************************************)
MCPlacements ==
    {p(0, 1, 2), p(0, 1, 3), p(0, 1, 4), p(1, 0, 3), p(2, 0, 2), p(0, 0, 2),
     p(3, 0, 3), p(5, 0, 3)}

MCScripts ==
    (MCPlacements \X MCPlacements) \cup
    {<<p(3, 0, 3), n>>, <<n, p(0, 1, 2)>>, <<s, q>>, <<p(3, 0, 3), q>>}
==============================================================================
