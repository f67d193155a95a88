------------------------------ MODULE MCPlay ------------------------------
(***************************************************************************)
(* Play.tla with other players who are alike.  SpecInOrder is for the runs *)
(* that show what happens when the lines come in the order one expects:    *)
(* first what the event is, then the who infos.                            *)
(***************************************************************************)
EXTENDS Play, TLC

Alike == Permutations(Others)

WhosLast(said) ==
  \A i, j \in DOMAIN said : i < j /\ said[i].is = "who" => said[j].is = "who"

SpecInOrder == Init /\ [][Next /\ WhosLast(lines')]_vars
=============================================================================
