-------------------------------- MODULE Game --------------------------------
(***************************************************************************)
(* One game of backgammon as gibbon-game.c records it: a chain of          *)
(* snapshots, each an action, the side that took it and the position that  *)
(* resulted.  The module has no state; it gives, for every kind of action, *)
(* the guard of gibbon_game_add_XXX() and the game that the call leaves    *)
(* behind.  Match.tla keeps games in variables.                            *)
(*                                                                         *)
(* Abstractions.  The checkers are left out: a move either leaves the game *)
(* open or bears the last checker off, with the 1, 2 or 3 points of        *)
(* gibbon_position_game_over().  Dice are "on the table" or not.  Of the   *)
(* chain of snapshots only what later code reads is kept: the last action, *)
(* the current position, and the scores of the last but one snapshot.      *)
(***************************************************************************)
EXTENDS Integers, Sequences

White == 1
Black == -1
None  == 0                     \* GIBBON_POSITION_SIDE_NONE
Sides == {White, Black}

NoPoints == [s \in Sides |-> 0] \* the score at the start of a match

(***************************************************************************)
(* The position after gibbon_position_reset(): a new game at given scores. *)
(***************************************************************************)
ResetPosition(scores) ==
  [scores |-> scores, turn |-> None, dice |-> FALSE, cube |-> 1,
   mayDouble |-> [s \in Sides |-> TRUE], cubeTurned |-> None,
   resigned |-> 0, score |-> 0]

NoScores == [s \in Sides |-> -1]           \* "no such snapshot"
NoAction == [kind |-> "none", side |-> None]

(***************************************************************************)
(* gibbon_game_new(): no snapshots, nobody may double before the opening   *)
(* roll.  score is what gibbon_game_over() returns, positive when White    *)
(* won; previous is gibbon_game_get_nth_position (game, -2)->scores.       *)
(***************************************************************************)
NewGame(scores, crawford) ==
  [initial  |-> scores,
   position |-> [ResetPosition(scores) EXCEPT
                   !.mayDouble = [s \in Sides |-> FALSE]],
   previous |-> NoScores, last |-> NoAction,
   score    |-> 0, crawford |-> crawford, rolled |-> FALSE]

Over(g) == g.score # 0                     \* gibbon_game_over()

(* gibbon_game_add_snapshot(), with the score of the game afterwards.      *)
Snapshot(g, kind, side, pos, score) ==
  [g EXCEPT !.previous = IF g.last = NoAction THEN NoScores
                                              ELSE g.position.scores,
            !.last     = [kind |-> kind, side |-> side],
            !.position = pos,
            !.score    = score]

(* Mutant: an offered resignation need not be answered. *)
Admits_ForgetResign(g, kind) ==
  g.position.cubeTurned # None => kind \in {"take", "drop"}

(***************************************************************************)
(* The checks gibbon_game_add_action() makes before it dispatches: an      *)
(* offered resignation or double has to be answered first.                 *)
(***************************************************************************)
Admits(g, kind) ==
  /\ g.position.resigned # 0    => kind \in {"accept", "reject"}
  /\ g.position.cubeTurned # None => kind \in {"take", "drop"}

-----------------------------------------------------------------------------
(* gibbon_game_add_roll().  Before the opening roll is decided nobody is   *)
(* on turn, the dice may be thrown again after an opening double, and a    *)
(* roll without a side belongs to the player with the higher die.          *)
CanRoll(g, side) ==
  LET pos == g.position IN
  /\ Admits(g, "roll") /\ ~Over(g)
  /\ side = None => pos.turn = None
  /\ pos.turn # None => side = pos.turn /\ ~pos.dice

AddRoll(g, side, higher) ==
  LET pos    == g.position
      roller == IF side = None THEN higher ELSE side
      first  == ~g.rolled /\ ~g.crawford
  IN [Snapshot(g, "roll", roller,
        [pos EXCEPT !.turn = roller, !.dice = TRUE,
                    !.mayDouble = IF first THEN [s \in Sides |-> TRUE]
                                           ELSE @],
        g.score) EXCEPT !.rolled = TRUE]

(* gibbon_game_add_move() and gibbon_position_apply_move().  points is 0   *)
(* while the mover has checkers left, else 1, 2 (gammon) or 3 (backgammon).*)
CanMove(g, side) ==
  /\ Admits(g, "move") /\ ~Over(g)
  /\ side = g.position.turn /\ g.position.dice

Credit(scores, side, n) == [scores EXCEPT ![side] = @ + n]

AddMove(g, side, points) ==
  LET pos == g.position
      won == points * pos.cube
  IN Snapshot(g, "move", side,
       [pos EXCEPT !.dice = FALSE, !.turn = -side,
                   !.score = side * won, !.scores = Credit(@, side, won)],
       side * won)

-----------------------------------------------------------------------------
(* gibbon_game_add_double(), gibbon_game_add_take(), gibbon_game_add_drop() *)
CanDouble(g, side) ==
  LET pos == g.position IN
  /\ Admits(g, "double") /\ ~Over(g)
  /\ ~pos.dice
  /\ side = pos.turn
  /\ ~g.crawford
  /\ pos.mayDouble[side]

AddDouble(g, side) ==
  Snapshot(g, "double", side, [g.position EXCEPT !.cubeTurned = side], g.score)

CanAnswerDouble(g, side) ==
  /\ Admits(g, "take") /\ ~Over(g)
  /\ g.position.cubeTurned = -side

(* Mutant: the cube stays in the middle. *)
AddTake_KeepsCube(g, side) ==
  Snapshot(g, "take", side,
    [g.position EXCEPT !.cube = 2 * @, !.cubeTurned = None], g.score)

AddTake(g, side) ==
  Snapshot(g, "take", side,
    [g.position EXCEPT !.mayDouble = [s \in Sides |-> s = side],
                       !.cube = 2 * @, !.cubeTurned = None],
    g.score)

(* Mutant: the dropper is paid. *)
AddDrop_PaysDropper(g, side) ==
  LET pos == g.position IN
  Snapshot(g, "drop", side,
    [pos EXCEPT !.scores = Credit(@, side, pos.cube),
                !.score = side * pos.cube, !.cubeTurned = None],
    -side * pos.cube)

(* The sign of the position's own score is the opposite of the game's:     *)
(* the code has it that way, and only tests it against zero.               *)
AddDrop(g, side) ==
  LET pos == g.position IN
  Snapshot(g, "drop", side,
    [pos EXCEPT !.scores = Credit(@, -side, pos.cube),
                !.score = side * pos.cube, !.cubeTurned = None],
    -side * pos.cube)

-----------------------------------------------------------------------------
(* gibbon_game_add_resign(), gibbon_game_add_reject() and                  *)
(* gibbon_game_add_accept().  Either player may resign, on turn or not;    *)
(* the sign of resigned says who did.  An accepted offer stays in the      *)
(* final position.                                                         *)
CanResign(g, side, value) == Admits(g, "resign") /\ ~Over(g) /\ value # 0

AddResign(g, side, value) ==
  Snapshot(g, "resign", side,
           [g.position EXCEPT !.resigned = side * value], g.score)

CanAnswerResign(g, side) ==
  /\ Admits(g, "accept") /\ ~Over(g)
  /\ g.last = [kind |-> "resign", side |-> -side]

AddReject(g, side) ==
  Snapshot(g, "reject", side, [g.position EXCEPT !.resigned = 0], g.score)

(* Mutant: the sign of a resignation is read the wrong way round. *)
AddAccept_WrongSign(g, side) ==
  LET pos   == g.position
      value == side * pos.resigned
  IN Snapshot(g, "accept", side,
       [pos EXCEPT !.scores = Credit(@, side, value), !.score = value],
       side * value)

AddAccept(g, side) ==
  LET pos   == g.position
      value == -side * pos.resigned
  IN Snapshot(g, "accept", side,
       [pos EXCEPT !.scores = Credit(@, side, value), !.score = value],
       side * value)
=============================================================================
