--------------------------- MODULE MCLeaderFollower ---------------------------
(* A leader that expects two followers, and a third one that comes too.    *)
EXTENDS LeaderFollower

MCFollower == {"a", "b", "c"}
MCNumbers  == {1, 2}
MCDigits   == {1}
=============================================================================
