------------------------------ MODULE MCTracker ------------------------------
(* White may be unable to move after one move, Black after two.            *)
EXTENDS Tracker

SomeDances == {<<White, 1>>, <<Black, 2>>}
=============================================================================
