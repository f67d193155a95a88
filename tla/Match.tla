-------------------------------- MODULE Match --------------------------------
(***************************************************************************)
(* A match as gibbon-match.c keeps it: the list of its games, of which the *)
(* last is the current one.  gibbon_match_add_action() records an action   *)
(* in the current game, or starts the next game first when there is none   *)
(* or when it is over; gibbon_match_add_game() starts a game, and decides  *)
(* from the scores whether it is the Crawford game.  Actions come from the *)
(* server through the match tracker, or from a match file; neither is      *)
(* trusted, so every action with every side is tried.                      *)
(***************************************************************************)
EXTENDS Game

CONSTANTS
  Length,      \* points to play for, 0 for an unlimited match
  Unfinished,  \* TRUE: a match file may start a game before the last ended
  MaxGames,    \* bound on the number of games
  MaxCube      \* bound on the value of the cube

ASSUME LengthAssumption  == Length \in Nat
ASSUME UnfinishedAssumption == Unfinished \in BOOLEAN
ASSUME BoundsAssumption  == MaxGames \in Nat /\ MaxCube \in Nat

VARIABLE games                   \* GibbonMatchPrivate.games, oldest first

-----------------------------------------------------------------------------
Current == games[Len(games)]     \* gibbon_match_get_current_game()

Scores == IF games = <<>> THEN NoPoints ELSE Current.position.scores

(* gibbon_position_match_over() *)
MatchOver == Length > 0 /\ \E s \in Sides : Scores[s] >= Length

(* Exactly one of the opponents is one point away from winning. *)
OneAway(scores, s) == Length - scores[s] = 1
CrawfordScore(scores) == OneAway(scores, White) # OneAway(scores, Black)

(* Mutant of the Crawford detection: the last position of the previous     *)
(* game is looked at instead of the last but one.                          *)
IsCrawford_LastPosition ==
  /\ Length > 0
  /\ CrawfordScore(Scores)
  /\ \/ \E s \in Sides : Scores[s] = 0
     \/ ~Current.crawford /\ \A s \in Sides : ~OneAway(Scores, s)

(***************************************************************************)
(* The Crawford detection of gibbon_match_add_game().  When the opponent   *)
(* of the leader has no points at all, this must be the first game at this *)
(* score.  Otherwise the last game tells: it was played before anybody was *)
(* one away, if its last action is the one that brought him there.         *)
(***************************************************************************)
IsCrawford ==
  /\ Length > 0
  /\ CrawfordScore(Scores)
  /\ \/ \E s \in Sides : Scores[s] = 0
     \/ /\ ~Current.crawford
        /\ Current.previous # NoScores
        /\ \A s \in Sides : ~OneAway(Current.previous, s)

MayAddGame == ~MatchOver /\ Len(games) < MaxGames

(***************************************************************************)
(* The snapshots of a game that is not the last one are never read again:  *)
(* of such a game only its scores and its result are kept.                 *)
(***************************************************************************)
Retired(g) ==
  [NewGame(g.initial, g.crawford) EXCEPT !.position.scores = g.position.scores,
                                         !.score = g.score]

WithNewGame ==
  Append([i \in DOMAIN games |-> Retired(games[i])],
         NewGame(Scores, IsCrawford))

-----------------------------------------------------------------------------
(* The first half of gibbon_match_add_action(): the game to record in.     *)
NeedsGame == IF games = <<>> THEN TRUE ELSE Over(Current)
Playable  == IF NeedsGame THEN MayAddGame ELSE TRUE
Ready     == IF NeedsGame THEN WithNewGame ELSE games
Target    == Ready[Len(Ready)]
Record(g) == games' = [Ready EXCEPT ![Len(Ready)] = g]

Roll(side, higher) ==
  /\ Playable /\ CanRoll(Target, side)
  /\ Record(AddRoll(Target, side, higher))

Move(side, points) ==
  /\ Playable /\ CanMove(Target, side)
  /\ Record(AddMove(Target, side, points))

Double(side) ==
  /\ Playable /\ CanDouble(Target, side)
  /\ Target.position.cube < MaxCube
  /\ Record(AddDouble(Target, side))

Take(side) ==
  /\ Playable /\ CanAnswerDouble(Target, side)
  /\ Record(AddTake(Target, side))

Drop(side) ==
  /\ Playable /\ CanAnswerDouble(Target, side)
  /\ Record(AddDrop(Target, side))

Resign(side, value) ==
  /\ Playable /\ CanResign(Target, side, value)
  /\ Record(AddResign(Target, side, value))

Reject(side) ==
  /\ Playable /\ CanAnswerResign(Target, side)
  /\ Record(AddReject(Target, side))

Accept(side) ==
  /\ Playable /\ CanAnswerResign(Target, side)
  /\ Record(AddAccept(Target, side))

(***************************************************************************)
(* gibbon_match_add_game() as the readers of match files call it, and also *)
(* what an action leaves behind that starts a game but is then refused.    *)
(***************************************************************************)
AddGame ==
  /\ NeedsGame \/ Unfinished
  /\ MayAddGame
  /\ games' = WithNewGame

-----------------------------------------------------------------------------
Init == games = <<>>             \* gibbon_match_new()

Next ==
  \/ \E side \in Sides \cup {None}, higher \in Sides \cup {None} :
       Roll(side, higher)
  \/ \E side \in Sides, points \in 0..3 : Move(side, points)
  \/ \E side \in Sides : Double(side) \/ Take(side) \/ Drop(side)
  \/ \E side \in Sides, k \in 1..3 : Resign(side, k * Target.position.cube)
  \/ \E side \in Sides : Reject(side) \/ Accept(side)
  \/ AddGame

Spec == Init /\ [][Next]_games

-----------------------------------------------------------------------------
ScoreSet == [Sides -> Nat]

PositionSet ==
  [scores : ScoreSet, turn : Sides \cup {None}, dice : BOOLEAN,
   cube : Nat \ {0}, mayDouble : [Sides -> BOOLEAN],
   cubeTurned : Sides \cup {None}, resigned : Int, score : Int]

ActionSet ==
  [kind : {"none", "roll", "move", "double", "take", "drop", "resign",
           "reject", "accept"},
   side : Sides \cup {None}]

GameSet ==
  [initial : ScoreSet, position : PositionSet,
   previous : ScoreSet \cup {NoScores}, last : ActionSet,
   score : Int, crawford : BOOLEAN, rolled : BOOLEAN]

(* Every game in the list is a record of the shape gibbon-game.c keeps.    *)
TypeOK == games \in Seq(GameSet)

-----------------------------------------------------------------------------
Winner(g) == IF g.score > 0 THEN White ELSE Black
Points(g) == IF g.score > 0 THEN g.score ELSE -g.score

(* A game has paid its points to its winner, once it is over.              *)
Paid(g) ==
  g.position.scores = IF Over(g) THEN Credit(g.initial, Winner(g), Points(g))
                                 ELSE g.initial

(***************************************************************************)
(* The bookkeeping is sound over the whole match: a finished game has paid *)
(* its points to its winner and nothing else has changed the scores, and   *)
(* every game starts with the scores its predecessor ended with.  The game *)
(* (gibbon_game_over()) and the position (scores[2]) are updated by        *)
(* separate statements in apply_move, add_drop and add_accept.             *)
(***************************************************************************)
ScoresAddUp ==
  \A i \in DOMAIN games :
    /\ Paid(games[i])
    /\ games[i].initial = IF i = 1 THEN NoPoints ELSE games[i - 1].position.scores

(***************************************************************************)
(* The two notions of "over" agree: gibbon_game_over() reads the score of  *)
(* the game, gibbon_position_game_over(), on which the recovery of missing *)
(* actions relies, the score of the position.                              *)
(***************************************************************************)
OverAgrees ==
  games # <<>> => (Over(Current) <=> Current.position.score # 0)

(***************************************************************************)
(* What is left of the Crawford rule (see ImplementsScoreBoard) when a     *)
(* file abandons games: a Crawford game starts at a Crawford score, and no *)
(* two of them are played to the end.                                      *)
(***************************************************************************)
OneFinishedCrawford ==
  /\ \A i \in DOMAIN games :
       games[i].crawford => CrawfordScore(games[i].initial)
  /\ \A i, j \in DOMAIN games :
       games[i].crawford /\ Over(games[i]) /\ games[j].crawford /\ Over(games[j])
         => i = j

(***************************************************************************)
(* The doubling cube (gibbon_game_add_roll/double/take()): nobody has it   *)
(* before the opening roll or in the Crawford game, both may use it while  *)
(* it is centred, and once turned it belongs to exactly one player; a      *)
(* double is on offer only by the player on turn, before he has rolled,    *)
(* and only if the cube was his to turn.                                   *)
(***************************************************************************)
CubeSound(g) ==
  LET pos == g.position
      may == {s \in Sides : pos.mayDouble[s]}
  IN /\ g.crawford \/ ~g.rolled => pos.cube = 1 /\ may = {}
     /\ g.rolled /\ ~g.crawford =>
          IF pos.cube = 1 THEN may = Sides ELSE \E s \in Sides : may = {s}
     /\ pos.cubeTurned # None =>
          /\ pos.cubeTurned = pos.turn /\ pos.turn \in may
          /\ ~pos.dice /\ ~Over(g) /\ pos.resigned = 0

CubeOwned == games # <<>> => CubeSound(Current)

(***************************************************************************)
(* Nobody is ever beyond the end: at most one opponent has reached the     *)
(* length of the match, and only the last game can have taken him there.   *)
(***************************************************************************)
EndOfMatch ==
  Length > 0 =>
    /\ \A i \in DOMAIN games, s \in Sides : games[i].initial[s] < Length
    /\ ~\A s \in Sides : Scores[s] >= Length

(***************************************************************************)
(* An offer is settled on its terms.  While a double or a resignation is   *)
(* on offer, the next thing recorded is the opponent's answer: a taken     *)
(* double moves the cube to him and costs nothing yet, a dropped one costs *)
(* the dropper the cube as it was, an accepted resignation costs the       *)
(* resigner what he offered, and a rejected one leaves no trace.           *)
(***************************************************************************)
Settles(g, h) ==
  LET pos == g.position
      d   == pos.cubeTurned
      r   == IF pos.resigned > 0 THEN White ELSE Black
      n   == IF pos.resigned > 0 THEN pos.resigned ELSE -pos.resigned
  IN IF d # None
     THEN \/ /\ h.last = [kind |-> "take", side |-> -d]
             /\ h.position = [pos EXCEPT !.cubeTurned = None, !.cube = 2 * @,
                                !.mayDouble = [s \in Sides |-> s = -d]]
             /\ h.score = 0
          \/ /\ h.last = [kind |-> "drop", side |-> -d]
             /\ h.position.scores = Credit(pos.scores, d, pos.cube)
             /\ h.score = d * pos.cube
     ELSE \/ h.last = [kind |-> "reject", side |-> -r]
             /\ h.position = [pos EXCEPT !.resigned = 0] /\ h.score = 0
          \/ /\ h.last = [kind |-> "accept", side |-> -r]
             /\ h.position.scores = Credit(pos.scores, -r, n)
             /\ h.score = -r * n

OnOffer(g) ==
  /\ ~Over(g)
  /\ g.position.cubeTurned # None \/ g.position.resigned # 0

OffersAreSettled ==
  [][games # <<>> /\ OnOffer(Current)
       => Len(games') = Len(games) /\ Settles(Current, Current')]_games

-----------------------------------------------------------------------------
(***************************************************************************)
(* The score board of a match whose games are all played to the end.       *)
(***************************************************************************)
Playing == games # <<>> /\ ~Over(Current)

CrawfordPhase ==
  IF games = <<>> THEN "ahead"
  ELSE IF Current.crawford THEN "now"
  ELSE IF \E i \in DOMAIN games : games[i].crawford THEN "past"
  ELSE "ahead"

Board == INSTANCE MatchScore WITH
           Players <- Sides, score <- Scores, playing <- Playing,
           crawford <- CrawfordPhase

(***************************************************************************)
(* Recording a match action by action, whatever is offered, refused, taken *)
(* or dropped on the way, amounts to starting and finishing games, one of  *)
(* them the Crawford game.                                                 *)
(***************************************************************************)
ImplementsScoreBoard == Board!Spec

=============================================================================
