----------------------------- MODULE MatchScore -----------------------------
(***************************************************************************)
(* What a match is, seen from the score board: games are started and       *)
(* finished one after the other, each is worth at least a point to its     *)
(* winner, and under the Crawford rule one game of a match with a fixed    *)
(* length is played without the doubling cube, the first one that starts   *)
(* with exactly one opponent a single point away from winning.  Without    *)
(* the cube a game is worth three points at most.  Match.tla implements    *)
(* this specification.                                                     *)
(***************************************************************************)
EXTENDS Integers

CONSTANTS Players, Length

VARIABLES
  score,     \* the points of each player
  playing,   \* a game is in progress
  crawford   \* the Crawford game is "ahead", "now" or "past"

vars == <<score, playing, crawford>>

Won(p)   == Length > 0 /\ score[p] >= Length
Decided  == \E p \in Players : Won(p)

Leading(p)    == Length - score[p] = 1
OneLeads      == Length > 0 /\ \E p \in Players :
                   Leading(p) /\ \A q \in Players \ {p} : ~Leading(q)

Init ==
  /\ score = [p \in Players |-> 0]
  /\ playing = FALSE
  /\ crawford = "ahead"

StartGame ==
  /\ ~playing /\ ~Decided
  /\ playing' = TRUE
  /\ crawford' = CASE crawford = "ahead" /\ OneLeads -> "now"
                   [] crawford = "now"               -> "past"
                   [] OTHER                          -> crawford
  /\ UNCHANGED score

FinishGame(p) ==
  LET points == score'[p] - score[p] IN
  /\ playing
  /\ points > 0
  /\ crawford = "now" => points <= 3
  /\ playing' = FALSE
  /\ score' = [score EXCEPT ![p] = @ + points]
  /\ UNCHANGED crawford

Next == StartGame \/ \E p \in Players : FinishGame(p)

Spec == Init /\ [][Next]_vars
=============================================================================
