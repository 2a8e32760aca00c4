---------------------------- MODULE MCRestaurant ----------------------------
(* Customers at opening time and one shortly before closing time. *)
EXTENDS Restaurant

MCGuests == << [arrival |-> 0, count |-> 1], [arrival |-> 0, count |-> 2],
               [arrival |-> 230, count |-> 1], [arrival |-> 240, count |-> 1] >>
=============================================================================
