---------------------------- MODULE TrackerProofs ----------------------------
(***************************************************************************)
(* Proofs about Tracker.tla, for matches of any length, any number of      *)
(* missed or misunderstood actions and any two players.                    *)
(*                                                                         *)
(* The scores of the recorded match follow the server's although the       *)
(* tracker never hears of actions, only of positions: it searches for      *)
(* actions that lead from the last position to the new one.  Why that is   *)
(* enough is said by Like(r, g): a position of the search is like a game   *)
(* when it counts what gibbon-game.c counts.  Every play of the search     *)
(* that the rules of gibbon-match.c accept keeps a position like the game  *)
(* (AppliedOK), so what Search finds can be recorded (SearchOK), and the   *)
(* game that is recorded ends with the scores that were searched for       *)
(* (RecordingsOK, UpdatedOK).                                              *)
(*                                                                         *)
(* IInv adds to that what the properties do not say: the matches are well  *)
(* formed, a resignation on offer carries the sign of who resigned, the    *)
(* file holds the match, and a game whose position says that it is over    *)
(* is over, unless the match was continued from the end of a game          *)
(* (Phantom).                                                              *)
(*                                                                         *)
(* The last section is about the moves themselves, Position.tla.           *)
(***************************************************************************)
EXTENDS Tracker, SequenceTheorems, TLAPS

WF == INSTANCE WellFoundedInduction

-----------------------------------------------------------------------------
(* What the games, positions and actions of the tracker look like.         *)
ScoreSet == [Sides -> Nat]

PositionSet ==
  [scores : ScoreSet, turn : Sides \cup {None}, dice : BOOLEAN,
   cube : Nat \ {0}, mayDouble : [Sides -> BOOLEAN],
   cubeTurned : Sides \cup {None}, resigned : Int, score : Int]

ActionSet ==
  [kind : {"none", "roll", "move", "double", "take", "drop", "resign",
           "reject", "accept"},
   side : Sides \cup {None}]

GameSet ==
  [initial : ScoreSet, position : PositionSet,
   previous : ScoreSet \cup {NoScores}, last : ActionSet,
   score : Int, crawford : BOOLEAN, rolled : BOOLEAN]

FullPosition ==
  [scores : ScoreSet, turn : Sides \cup {None}, dice : BOOLEAN,
   cube : Nat \ {0}, mayDouble : [Sides -> BOOLEAN],
   cubeTurned : Sides \cup {None}, resigned : Int, score : Int,
   men : Men, blocked : BOOLEAN]

Kinds == {"roll", "move", "double", "take", "drop", "resign", "reject", "accept"}

PlaySet ==
  {p \in [kind : Kinds, side : Sides \cup {None}, n : 0..3, blocked : BOOLEAN] :
     /\ p.kind # "roll" => p.side \in Sides
     /\ p.kind = "resign" => p.n > 0}

(* Some actions are never deduced: resignations, which the tracker only    *)
(* sees when they are accepted or rejected.                                *)
FoundSet == {p \in PlaySet : p.kind \notin {"resign", "reject"}}

-----------------------------------------------------------------------------
(* The current game of a match, its scores, whether it waits for a game,   *)
(* and the game in which the next action is recorded.                      *)
Cur(m) == m.games[Len(m.games)]
Sum(m) == IF m.games = <<>> THEN NoPoints ELSE Cur(m).position.scores
Waiting(m) == IF m.games = <<>> THEN TRUE ELSE Over(Cur(m))
Fresh(m) == NewGame(Sum(m), M(m.games)!IsCrawford)
Next1(m) == IF Waiting(m) THEN Fresh(m) ELSE Cur(m)

(* The sign of an offered resignation tells who resigned last. *)
Signed(g) ==
  g.last.kind = "resign" =>
    \/ g.last.side = White /\ g.position.resigned > 0
    \/ g.last.side = Black /\ g.position.resigned < 0

GameOK(g) == g \in GameSet /\ Signed(g) /\ (Over(g) => g.position.score # 0)

MatchOK(m) ==
  /\ m = [games |-> m.games, men |-> m.men, blocked |-> m.blocked]
  /\ m.games \in Seq(GameSet) /\ m.men \in Men /\ m.blocked \in BOOLEAN
  /\ m.games # <<>> => GameOK(Cur(m))
  /\ m.games = <<>> => m.men = <<>>

(* The game and its position agree that it is not over; not so when a      *)
(* match has been continued from the end of a game.                        *)
Honest(m) == m.games # <<>> => (Cur(m).position.score # 0 => Over(Cur(m)))
OnlyEmpty(m) == m.games = <<>> => m = Empty

(* There are dice to play: another roll is refused. *)
OnTable(m) == Cur(m).position.dice /\ Cur(m).position.turn \in Sides

Phantom ==
  following /\ ~Honest(match) => Waiting(server) \/ OnTable(match)

IInv ==
  /\ MatchOK(server) /\ Honest(server) /\ OnlyEmpty(server)
  /\ MatchOK(match) /\ OnlyEmpty(match)
  /\ MatchOK(file) /\ Honest(file)
  /\ {own, following, whole} \subseteq BOOLEAN /\ away \in 0..MaxAway
  /\ position \in FullPosition
  /\ following => position.scores = Sum(server)
  /\ following /\ position.score # 0 => Waiting(server)
  /\ following /\ match.games # <<>> => Sum(match) = Sum(server)
  /\ following /\ whole => file = match
  /\ Phantom
-----------------------------------------------------------------------------
LEMMA SameSets ==
  ASSUME NEW gs
  PROVE  M(gs)!GameSet = GameSet /\ M(gs)!PositionSet = PositionSet
  BY DEF M!GameSet, M!PositionSet, M!ActionSet, M!ScoreSet, M!NoScores, M!Sides,
         M!White, M!Black, M!None, GameSet, PositionSet, ActionSet, ScoreSet,
         NoScores, Sides, White, Black, None

LEMMA SameWords ==
  ASSUME NEW m
  PROVE  /\ M(m.games)!Current = Cur(m)
         /\ M(m.games)!Scores = Sum(m)
         /\ M(m.games)!NeedsGame <=> Waiting(m)
         /\ M(m.games)!MayAddGame => Len(m.games) < MaxGames
  BY DEF M!Current, M!Scores, M!NeedsGame, M!MayAddGame, M!NoPoints, M!Sides, M!White,
         M!Black, M!Over, Cur, Sum, Waiting, NoPoints, Sides, White, Black, Over

LEMMA TypesAgree ==
  ASSUME NEW m
  PROVE  M(m.games)!TypeOK <=> m.games \in Seq(GameSet)
  BY SameSets DEF M!TypeOK

LEMMA NewGameOK ==
  ASSUME NEW scores \in ScoreSet, NEW c \in BOOLEAN
  PROVE  LET g == NewGame(scores, c) IN
         /\ GameOK(g) /\ ~Over(g)
         /\ g.position.scores = scores /\ g.position.cube = 1
         /\ g.position.cubeTurned = None /\ g.position.resigned = 0
         /\ g.position.score = 0 /\ g.position.turn = None /\ ~g.position.dice
         /\ \A s \in Sides : ~g.position.mayDouble[s]
         /\ g.last = NoAction
  <1> DEFINE may == [s \in Sides |-> FALSE]
             all == [s \in Sides |-> TRUE]
             pos == [ResetPosition(scores) EXCEPT !.mayDouble = may]
             g == NewGame(scores, c)
  <1>0. may \in [Sides -> BOOLEAN] /\ all \in [Sides -> BOOLEAN] /\ \A s \in Sides : ~may[s]
    OBVIOUS
  <1>1. pos \in PositionSet
        /\ pos.scores = scores /\ pos.cube = 1 /\ pos.cubeTurned = None
        /\ pos.resigned = 0 /\ pos.score = 0 /\ pos.turn = None /\ ~pos.dice
        /\ pos.mayDouble = may
    <2> DEFINE reset == ResetPosition(scores)
    <2> HIDE DEF may, all
    <2>1. reset \in PositionSet /\ reset.scores = scores /\ reset.cube = 1
          /\ reset.cubeTurned = None /\ reset.resigned = 0 /\ reset.score = 0
          /\ reset.turn = None /\ ~reset.dice
      BY <1>0 DEF PositionSet, ResetPosition, all
    <2> HIDE DEF reset
    <2>2. pos = [reset EXCEPT !.mayDouble = may]
      BY DEF reset
    <2> QED BY <1>0, <2>1, <2>2 DEF PositionSet
  <1>2. \A s \in Sides : ~pos.mayDouble[s]
    BY <1>0, <1>1
  <1>3. g = [initial |-> scores, position |-> pos, previous |-> NoScores,
             last |-> NoAction, score |-> 0, crawford |-> c, rolled |-> FALSE]
    BY DEF NewGame
  <1>4. NoAction \in ActionSet /\ NoAction.kind # "resign"
    BY DEF NoAction, ActionSet
  <1> HIDE DEF pos, g, may
  <1>5. g \in GameSet
    BY <1>1, <1>3, <1>4 DEF GameSet
  <1>6. GameOK(g)
    BY <1>3, <1>4, <1>5 DEF GameOK, Signed, Over
  <1> QED BY <1>1, <1>2, <1>3, <1>6 DEF g, Over

(* The game in which the next action is recorded. *)
LEMMA FreshOK ==
  ASSUME NEW m, MatchOK(m)
  PROVE  Sum(m) \in ScoreSet /\ GameOK(Fresh(m)) /\ GameOK(Next1(m)) /\ ~Over(Next1(m))
         /\ Next1(m).position.scores = Sum(m)
  <1>1. Sum(m) \in ScoreSet
    BY DEF Sum, NoPoints, ScoreSet, MatchOK, GameOK, GameSet, PositionSet
  <1>2. M(m.games)!IsCrawford \in BOOLEAN
    BY DEF M!IsCrawford
  <1>3. GameOK(Fresh(m)) /\ ~Over(Fresh(m)) /\ Fresh(m).position.scores = Sum(m)
    BY <1>1, <1>2, NewGameOK DEF Fresh
  <1> QED BY <1>1, <1>3 DEF Next1, Waiting, MatchOK, Sum

LEMMA NewGamesOK ==
  ASSUME NEW m, MatchOK(m)
  PROVE  /\ M(m.games)!WithNewGame \in Seq(GameSet)
         /\ Len(M(m.games)!WithNewGame) = Len(m.games) + 1
         /\ M(m.games)!WithNewGame[Len(m.games) + 1] = Fresh(m)
  <1> DEFINE old == [i \in DOMAIN m.games |-> M(m.games)!Retired(m.games[i])]
  <1>1. ASSUME NEW g \in GameSet PROVE M(m.games)!Retired(g) \in GameSet
    <2> DEFINE n == NewGame(g.initial, g.crawford)
               pos == [n.position EXCEPT !.scores = g.position.scores]
    <2>1. M(m.games)!Retired(g) = [[n EXCEPT !.position = pos] EXCEPT !.score = g.score]
      BY DEF M!Retired, M!NewGame, M!ResetPosition, M!NoScores, M!NoAction, M!Sides,
             M!White, M!Black, M!None, NewGame, ResetPosition, NoScores, NoAction,
             Sides, White, Black, None
    <2>2. n \in GameSet
      BY NewGameOK DEF GameOK, GameSet
    <2>3. pos \in PositionSet
      BY <2>2 DEF GameSet, PositionSet
    <2> HIDE DEF n, pos
    <2> QED BY <2>1, <2>2, <2>3 DEF GameSet
  <1>2. m.games \in Seq(GameSet) /\ Len(m.games) \in Nat
    BY DEF MatchOK
  <1>3. old \in Seq(GameSet) /\ Len(old) = Len(m.games)
    BY <1>1, <1>2
  <1>4. M(m.games)!WithNewGame = Append(old, Fresh(m))
    BY SameWords DEF M!WithNewGame, Fresh, M!NewGame, M!ResetPosition, M!NoScores,
         M!NoAction, M!Sides, M!White, M!Black, M!None, NewGame, ResetPosition, NoScores,
         NoAction, Sides, White, Black, None
  <1>5. Fresh(m) \in GameSet
    BY FreshOK DEF GameOK
  <1> QED BY <1>2, <1>3, <1>4, <1>5

LEMMA ReadyOK ==
  ASSUME NEW m, MatchOK(m)
  PROVE  LET r == M(m.games)!Ready IN
         /\ r \in Seq(GameSet) /\ r # <<>>
         /\ r[Len(r)] = Next1(m) /\ M(m.games)!Target = Next1(m)
         /\ Waiting(m) => r = M(m.games)!WithNewGame
         /\ ~Waiting(m) => r = m.games
  <1>1. CASE Waiting(m)
    BY <1>1, NewGamesOK, SameWords DEF M!Ready, M!Target, Next1, MatchOK
  <1>2. CASE ~Waiting(m)
    BY <1>2, SameWords DEF M!Ready, M!Target, Next1, MatchOK, Waiting, Cur
  <1> QED BY <1>1, <1>2

-----------------------------------------------------------------------------
(* What each action makes of a game that is not over. *)
Sound(g, h) ==
  GameOK(h) /\ (g.position.score = 0 => (h.position.score # 0 => Over(h)))

LEMMA CreditType ==
  ASSUME NEW scores \in ScoreSet, NEW s \in Sides, NEW n \in Nat
  PROVE  /\ Credit(scores, s, n) \in ScoreSet
         /\ n = 0 => Credit(scores, s, n) = scores
  <1>1. scores \in [Sides -> Nat] /\ scores[s] \in Nat /\ scores[s] + n \in Nat
    BY DEF ScoreSet
  <1>2. Credit(scores, s, n) \in ScoreSet
    BY <1>1 DEF Credit, ScoreSet
  <1>3. n = 0 => scores[s] + n = scores[s]
    BY <1>1
  <1>4. n = 0 => Credit(scores, s, n) = scores
    BY <1>1, <1>3 DEF Credit
  <1> QED BY <1>2, <1>4

LEMMA SnapshotFields ==
  ASSUME NEW g \in GameSet, NEW kind, NEW side \in Sides \cup {None},
         [kind |-> kind, side |-> side] \in ActionSet,
         NEW pos \in PositionSet, NEW score \in Int
  PROVE  LET h == Snapshot(g, kind, side, pos, score)
         IN /\ h \in GameSet
            /\ h.last = [kind |-> kind, side |-> side]
            /\ h.position = pos
            /\ h.score = score
  BY DEF Snapshot, GameSet, PositionSet, ScoreSet, NoScores, NoAction

LEMMA RollOK ==
  ASSUME NEW g, GameOK(g), ~Over(g), NEW side \in Sides \cup {None}
  PROVE  LET h == AddRoll(g, side, side) IN
         /\ Sound(g, h) /\ ~Over(h)
         /\ h.position.scores = g.position.scores /\ h.position.cube = g.position.cube
         /\ h.position.cubeTurned = g.position.cubeTurned
         /\ h.position.resigned = g.position.resigned
         /\ h.position.score = g.position.score
         /\ h.position.turn = side /\ h.position.dice
  <1> DEFINE may == IF ~g.rolled /\ ~g.crawford THEN [s \in Sides |-> TRUE]
                    ELSE g.position.mayDouble
             pos == [g.position EXCEPT !.turn = side, !.dice = TRUE, !.mayDouble = may]
             snap == Snapshot(g, "roll", side, pos, g.score)
             h == AddRoll(g, side, side)
  <1>0. g \in GameSet /\ g.position \in PositionSet /\ g.score \in Int
    BY DEF GameOK, GameSet
  <1>1. may \in [Sides -> BOOLEAN]
    BY <1>0 DEF PositionSet
  <1>2. [kind |-> "roll", side |-> side] \in ActionSet
    BY DEF ActionSet
  <1>3. h = [snap EXCEPT !.rolled = TRUE]
    BY DEF AddRoll
  <1> HIDE DEF may
  <1>4. /\ pos \in PositionSet
        /\ pos.scores = g.position.scores /\ pos.score = g.position.score
        /\ pos.resigned = g.position.resigned /\ pos.cube = g.position.cube
        /\ pos.cubeTurned = g.position.cubeTurned /\ pos.turn = side /\ pos.dice
    BY <1>0, <1>1 DEF PositionSet
  <1> HIDE DEF pos, h
  <1>5. /\ snap \in GameSet
        /\ snap.position = pos
        /\ snap.score = g.score /\ snap.last = [kind |-> "roll", side |-> side]
    BY <1>0, <1>2, <1>4, SnapshotFields
  <1> HIDE DEF snap
  <1>6. /\ h \in GameSet /\ h.position = pos
        /\ h.score = g.score /\ h.last = [kind |-> "roll", side |-> side]
    BY <1>3, <1>5 DEF GameSet
  <1> QED BY <1>4, <1>6 DEF Sound, GameOK, Signed, Over, h

LEMMA DoubleOK ==
  ASSUME NEW g, GameOK(g), ~Over(g), NEW side \in Sides
  PROVE  LET h == AddDouble(g, side) IN
         /\ Sound(g, h) /\ ~Over(h)
         /\ h.position.scores = g.position.scores /\ h.position.cube = g.position.cube
         /\ h.position.cubeTurned = side
         /\ h.position.resigned = g.position.resigned
  <1> DEFINE pos == [g.position EXCEPT !.cubeTurned = side]
             h   == AddDouble(g, side)
  <1>1. g \in GameSet /\ g.position \in PositionSet /\ g.score \in Int
    BY DEF GameOK, GameSet
  <1>2. /\ pos \in PositionSet /\ pos.cubeTurned = side
        /\ pos.scores = g.position.scores /\ pos.score = g.position.score
        /\ pos.cube = g.position.cube /\ pos.resigned = g.position.resigned
    BY <1>1 DEF PositionSet
  <1> HIDE DEF pos
  <1>3. /\ h \in GameSet /\ h.position = pos
        /\ h.score = g.score /\ h.last = [kind |-> "double", side |-> side]
    BY <1>1, <1>2, SnapshotFields DEF AddDouble, ActionSet, pos
  <1> QED BY <1>2, <1>3 DEF Sound, GameOK, Signed, Over

LEMMA TakeOK ==
  ASSUME NEW g, GameOK(g), ~Over(g), NEW side \in Sides
  PROVE  LET h == AddTake(g, side) IN
         /\ Sound(g, h) /\ ~Over(h)
         /\ h.position.scores = g.position.scores /\ h.position.cube = 2 * g.position.cube
         /\ h.position.cubeTurned = None
         /\ h.position.resigned = g.position.resigned
  <1> DEFINE may == [s \in Sides |-> s = side]
             pos == [g.position EXCEPT !.mayDouble = may, !.cube = 2 * @, !.cubeTurned = None]
             h   == AddTake(g, side)
  <1>1. g \in GameSet /\ g.position \in PositionSet /\ g.score \in Int
    BY DEF GameOK, GameSet
  <1>2. may \in [Sides -> BOOLEAN]
    OBVIOUS
  <1>3. g.position.cube \in Nat \ {0} /\ 2 * g.position.cube \in Nat \ {0}
    BY <1>1 DEF PositionSet
  <1> HIDE DEF may
  <1>4. /\ pos \in PositionSet /\ pos.cubeTurned = None
        /\ pos.scores = g.position.scores /\ pos.score = g.position.score
        /\ pos.cube = 2 * g.position.cube /\ pos.resigned = g.position.resigned
    BY <1>1, <1>2, <1>3 DEF PositionSet
  <1> HIDE DEF pos
  <1>5. /\ h \in GameSet /\ h.position = pos
        /\ h.score = g.score /\ h.last = [kind |-> "take", side |-> side]
    BY <1>1, <1>4, SnapshotFields DEF AddTake, ActionSet, pos, may
  <1> QED BY <1>4, <1>5 DEF Sound, GameOK, Signed, Over

LEMMA ResignOK ==
  ASSUME NEW g, GameOK(g), ~Over(g), NEW side \in Sides, NEW value \in Nat \ {0}
  PROVE  LET h == AddResign(g, side, value) IN
         /\ Sound(g, h) /\ ~Over(h)
         /\ h.position.scores = g.position.scores
  <1> DEFINE offer == side * value
             pos   == [g.position EXCEPT !.resigned = offer]
             h     == AddResign(g, side, value)
  <1>1. g \in GameSet /\ g.position \in PositionSet /\ g.score \in Int
    BY DEF GameOK, GameSet
  <1>2. /\ offer \in Int
        /\ side = White => offer > 0
        /\ side = Black => offer < 0
    BY DEF Sides, White, Black
  <1> HIDE DEF offer
  <1>3. /\ pos \in PositionSet /\ pos.resigned = offer
        /\ pos.scores = g.position.scores /\ pos.score = g.position.score
    BY <1>1, <1>2 DEF PositionSet
  <1> HIDE DEF pos
  <1>4. /\ h \in GameSet /\ h.position = pos
        /\ h.score = g.score /\ h.last = [kind |-> "resign", side |-> side]
    BY <1>1, <1>3, SnapshotFields DEF AddResign, ActionSet, pos, offer
  <1> QED BY <1>2, <1>3, <1>4 DEF Sound, GameOK, Signed, Over, Sides

LEMMA RejectOK ==
  ASSUME NEW g, GameOK(g), ~Over(g), NEW side \in Sides
  PROVE  LET h == AddReject(g, side) IN
         /\ Sound(g, h) /\ ~Over(h)
         /\ h.position.scores = g.position.scores
  <1> DEFINE pos == [g.position EXCEPT !.resigned = 0]
             h   == AddReject(g, side)
  <1>1. g \in GameSet /\ g.position \in PositionSet /\ g.score \in Int
    BY DEF GameOK, GameSet
  <1>2. /\ pos \in PositionSet
        /\ pos.scores = g.position.scores /\ pos.score = g.position.score
    BY <1>1 DEF PositionSet
  <1> HIDE DEF pos
  <1>3. /\ h \in GameSet /\ h.position = pos
        /\ h.score = g.score /\ h.last = [kind |-> "reject", side |-> side]
    BY <1>1, <1>2, SnapshotFields DEF AddReject, ActionSet, pos
  <1> QED BY <1>2, <1>3 DEF Sound, GameOK, Signed, Over

LEMMA MoveOK ==
  ASSUME NEW g, GameOK(g), ~Over(g), NEW side \in Sides, NEW n \in 0..3
  PROVE  LET h == AddMove(g, side, n) IN
         /\ n * g.position.cube \in Nat
         /\ n * g.position.cube = 0 <=> n = 0
         /\ Sound(g, h)
         /\ Over(h) <=> n # 0
         /\ h.position.scores = Credit(g.position.scores, side, n * g.position.cube)
         /\ h.score = side * (n * g.position.cube)
         /\ h.position.cube = g.position.cube
         /\ h.position.cubeTurned = g.position.cubeTurned
         /\ h.position.resigned = g.position.resigned
  <1> DEFINE won    == n * g.position.cube
             scores == Credit(g.position.scores, side, won)
             score  == side * won
             pos    == [g.position EXCEPT !.dice = FALSE, !.turn = -side,
                                          !.score = score, !.scores = Credit(@, side, won)]
             h      == AddMove(g, side, n)
  <1>1. g \in GameSet /\ g.position \in PositionSet
    BY DEF GameOK, GameSet
  <1>2. g.position.cube \in Nat \ {0} /\ g.position.scores \in ScoreSet
    BY <1>1 DEF PositionSet
  <1>3. won \in Nat /\ (won = 0 <=> n = 0)
    <2>1. n = 0 \/ n = 1 \/ n = 2 \/ n = 3
      OBVIOUS
    <2> QED BY <1>2, <2>1
  <1> HIDE DEF won
  <1>4. score \in Int /\ (score # 0 <=> won # 0) /\ -side \in Sides
    BY <1>3 DEF Sides, White, Black
  <1>5. scores \in ScoreSet
    BY <1>2, <1>3, CreditType
  <1> HIDE DEF score
  <1>6. /\ pos \in PositionSet /\ pos.scores = scores /\ pos.score = score
        /\ pos.resigned = g.position.resigned /\ pos.cube = g.position.cube
        /\ pos.cubeTurned = g.position.cubeTurned
    <2> HIDE DEF Credit
    <2> QED BY <1>1, <1>4, <1>5 DEF PositionSet
  <1> HIDE DEF pos
  <1>7. /\ h \in GameSet /\ h.position = pos
        /\ h.score = score /\ h.last = [kind |-> "move", side |-> side]
    BY <1>1, <1>4, <1>6, SnapshotFields DEF AddMove, ActionSet, pos, won, score
  <1>8. Sound(g, h) /\ (Over(h) <=> n # 0)
    BY <1>3, <1>4, <1>6, <1>7 DEF Sound, GameOK, Signed, Over
  <1> QED BY <1>3, <1>6, <1>7, <1>8 DEF won, score

LEMMA DropOK ==
  ASSUME NEW g, GameOK(g), ~Over(g), NEW side \in Sides
  PROVE  LET h == AddDrop(g, side) IN
         /\ Sound(g, h) /\ Over(h)
         /\ h.position.scores = Credit(g.position.scores, -side, g.position.cube)
         /\ h.score = -side * g.position.cube
  <1> DEFINE cube   == g.position.cube
             scores == Credit(g.position.scores, -side, cube)
             debt   == side * cube
             pos    == [g.position EXCEPT !.scores = scores, !.score = debt, !.cubeTurned = None]
             score  == -side * cube
             h      == AddDrop(g, side)
  <1>1. g \in GameSet /\ g.position \in PositionSet
    BY DEF GameOK, GameSet
  <1>2. cube \in Nat \ {0} /\ g.position.scores \in ScoreSet /\ -side \in Sides
    BY <1>1 DEF PositionSet, Sides, White, Black
  <1>3. /\ score \in Int /\ score # 0
        /\ debt \in Int /\ debt # 0
    BY <1>2 DEF Sides, White, Black
  <1>4. scores \in ScoreSet
    BY <1>2, CreditType
  <1> HIDE DEF scores, debt, score
  <1>5. /\ pos \in PositionSet /\ pos.scores = scores /\ pos.score = debt
    BY <1>1, <1>3, <1>4 DEF PositionSet
  <1> HIDE DEF pos
  <1>6. /\ h \in GameSet /\ h.position = pos
        /\ h.score = score /\ h.last = [kind |-> "drop", side |-> side]
    BY <1>1, <1>3, <1>5, SnapshotFields DEF AddDrop, ActionSet, pos, scores, debt, score
  <1>7. Sound(g, h) /\ Over(h)
    BY <1>3, <1>5, <1>6 DEF Sound, GameOK, Signed, Over
  <1> QED BY <1>5, <1>6, <1>7 DEF scores, score

LEMMA AcceptOK ==
  ASSUME NEW g, GameOK(g), ~Over(g), NEW side \in Sides, CanAnswerResign(g, side)
  PROVE  LET h == AddAccept(g, side)
             value == -side * g.position.resigned
         IN
         /\ value \in Nat \ {0}
         /\ Sound(g, h) /\ Over(h)
         /\ h.position.scores = Credit(g.position.scores, side, value)
         /\ h.score = side * value
  <1> DEFINE value  == -side * g.position.resigned
             scores == Credit(g.position.scores, side, value)
             pos    == [g.position EXCEPT !.scores = scores, !.score = value]
             score  == side * value
             h      == AddAccept(g, side)
  <1>1. g \in GameSet /\ g.position \in PositionSet
    BY DEF GameOK, GameSet
  <1>2. value \in Nat \ {0} /\ g.position.scores \in ScoreSet
    <2>1. g.position.resigned \in Int /\ g.position.scores \in ScoreSet
      BY <1>1 DEF PositionSet
    <2>2. \/ side = Black /\ g.position.resigned > 0
          \/ side = White /\ g.position.resigned < 0
      BY DEF CanAnswerResign, GameOK, Signed, Sides, White, Black
    <2> QED BY <2>1, <2>2 DEF White, Black
  <1> HIDE DEF value
  <1>3. score \in Int /\ score # 0
    BY <1>2 DEF Sides, White, Black
  <1>4. scores \in ScoreSet /\ value \in Int
    BY <1>2, CreditType
  <1> HIDE DEF scores, score
  <1>5. /\ pos \in PositionSet /\ pos.scores = scores /\ pos.score = value
    BY <1>1, <1>4 DEF PositionSet
  <1> HIDE DEF pos
  <1>6. /\ h \in GameSet /\ h.position = pos
        /\ h.score = score /\ h.last = [kind |-> "accept", side |-> side]
    BY <1>1, <1>3, <1>5, SnapshotFields DEF AddAccept, ActionSet, pos, scores, score, value
  <1>7. Sound(g, h) /\ Over(h)
    BY <1>2, <1>3, <1>5, <1>6 DEF Sound, GameOK, Signed, Over
  <1> QED BY <1>2, <1>5, <1>6, <1>7 DEF scores, score, value


-----------------------------------------------------------------------------
(* gibbon_match_add_action() on any match that is well formed. *)
LEMMA PlayedOK ==
  ASSUME NEW g, GameOK(g), ~Over(g), NEW p \in PlaySet, Allows(g, p)
  PROVE  Sound(g, Played(g, p))
  <1>1. /\ p.kind \in Kinds /\ p.n \in 0..3 /\ p.side \in Sides \cup {None}
        /\ p.kind # "roll" => p.side \in Sides
        /\ p.kind = "resign" => p.n > 0
    BY DEF PlaySet
  <1>2. g.position.cube \in Nat \ {0}
    BY DEF GameOK, GameSet, PositionSet
  <1>3. CASE p.kind = "roll"
    BY <1>1, <1>3, RollOK DEF Played
  <1>4. CASE p.kind = "move"
    BY <1>1, <1>4, MoveOK DEF Played
  <1>5. CASE p.kind = "double"
    BY <1>1, <1>5, DoubleOK DEF Played
  <1>6. CASE p.kind = "take"
    BY <1>1, <1>6, TakeOK DEF Played
  <1>7. CASE p.kind = "drop"
    BY <1>1, <1>7, DropOK DEF Played
  <1>8. CASE p.kind = "resign"
    <2>1. p.n * g.position.cube \in Nat \ {0}
      <3>1. p.n = 1 \/ p.n = 2 \/ p.n = 3
        BY <1>1, <1>8
      <3> QED BY <1>2, <3>1
    <2> QED BY <1>1, <1>8, <2>1, ResignOK DEF Played
  <1>9. CASE p.kind = "accept"
    <2>1. CanAnswerResign(g, p.side)
      BY <1>9 DEF Allows
    <2> QED BY <1>1, <1>9, <2>1, AcceptOK DEF Played
  <1>10. CASE p.kind = "reject"
    BY <1>1, <1>10, RejectOK DEF Played
  <1> QED BY <1>1, <1>3, <1>4, <1>5, <1>6, <1>7, <1>8, <1>9, <1>10 DEF Kinds

LEMMA AcceptsNext ==
  ASSUME NEW m, MatchOK(m), NEW p, Accepts(m, p)
  PROVE  Allows(Next1(m), p) /\ (Waiting(m) => M(m.games)!MayAddGame)
  BY ReadyOK, SameWords DEF Accepts, M!Playable

LEMMA AddedOK ==
  ASSUME NEW m, MatchOK(m), NEW p \in PlaySet, Accepts(m, p)
  PROVE  LET a == Added(m, p) IN
         /\ MatchOK(a) /\ a.games # <<>>
         /\ Cur(a) = Played(Next1(m), p)
         /\ Sound(Next1(m), Cur(a))
         /\ Honest(m) => Honest(a)
  <1> DEFINE g == Next1(m)
             h == Played(g, p)
             r == M(m.games)!Ready
             new == [r EXCEPT ![Len(r)] = h]
             men == IF M(m.games)!NeedsGame THEN <<>>
                    ELSE IF p.kind = "move" /\ ~m.blocked
                    THEN Append(m.men, [side |-> p.side, n |-> p.n]) ELSE m.men
             blocked == IF p.kind = "roll" THEN p.blocked
                        ELSE p.kind # "move" /\ m.blocked
             a == Added(m, p)
  <1>1. GameOK(g) /\ ~Over(g) /\ Sound(g, h)
    BY FreshOK, AcceptsNext, PlayedOK
  <1>2. r \in Seq(GameSet) /\ r # <<>> /\ r[Len(r)] = g /\ Len(r) \in Nat \ {0}
    BY ReadyOK
  <1>3. h \in GameSet
    BY <1>1 DEF Sound, GameOK
  <1>4. new \in Seq(GameSet) /\ Len(new) = Len(r) /\ new[Len(new)] = h /\ new # <<>>
    <2> HIDE DEF r, h
    <2> QED BY <1>2, <1>3
  <1>5. PlayedInLast(r, p) = new
    BY <1>2 DEF PlayedInLast
  <1>6. a = [games |-> new, men |-> men, blocked |-> blocked]
    BY <1>5 DEF Added
  <1>7. men \in Men
    <2>1. CASE p.kind = "move"
      <3>1. [side |-> p.side, n |-> p.n] \in [side : Sides, n : 0..3]
        BY <2>1 DEF PlaySet
      <3>2. m.men \in Men /\ <<>> \in Men
        BY DEF MatchOK, Men
      <3>3. Append(m.men, [side |-> p.side, n |-> p.n]) \in Men
        BY <3>1, <3>2 DEF Men
      <3> QED BY <3>2, <3>3
    <2>2. CASE p.kind # "move"
      BY <2>2 DEF MatchOK, Men
    <2> QED BY <2>1, <2>2
  <1>8. blocked \in BOOLEAN
    BY DEF PlaySet, MatchOK
  <1> HIDE DEF new, men, blocked, a
  <1>9. a.games = new /\ a.men = men /\ a.blocked = blocked /\ Cur(a) = h
    BY <1>4, <1>6 DEF Cur
  <1>10. MatchOK(a) /\ a.games # <<>>
    BY <1>1, <1>4, <1>6, <1>7, <1>8, <1>9 DEF MatchOK, Sound
  <1>11. ASSUME Honest(m) PROVE Honest(a)
    <2>1. g.position.score = 0
      BY <1>1, <1>11, NewGameOK, FreshOK DEF Honest, Next1, Waiting, Fresh, Over, GameOK, M!IsCrawford
    <2> QED BY <1>1, <1>9, <2>1 DEF Honest, Sound
  <1> QED BY <1>1, <1>9, <1>10, <1>11 DEF a

-----------------------------------------------------------------------------
(* The file: a game line, then actions, each as the reader takes it. *)
LEMMA EmptyOK ==
  /\ MatchOK(Empty) /\ Honest(Empty) /\ OnlyEmpty(Empty) /\ Empty.games = <<>>
  /\ MatchOK(NoFile) /\ Honest(NoFile) /\ NoFile.games = <<>> /\ Empty # NoFile
  BY DEF MatchOK, Honest, OnlyEmpty, Empty, NoFile, Men

LEMMA GameLineOK ==
  ASSUME NEW f, MatchOK(f), Honest(f)
  PROVE  LET w == WithGameLine(f) IN
         /\ MatchOK(w) /\ Honest(w)
         /\ w # NoFile => /\ w.games = M(f.games)!WithNewGame /\ w.games # <<>>
                          /\ w.men = <<>> /\ ~w.blocked
                          /\ Cur(w) = Fresh(f) /\ ~Waiting(w)
  <1> DEFINE w == WithGameLine(f)
             gs == M(f.games)!WithNewGame
  <1>1. CASE w = NoFile
    BY <1>1, EmptyOK
  <1>2. CASE w # NoFile
    <2>1. w = [games |-> gs, men |-> <<>>, blocked |-> FALSE]
      BY <1>2 DEF WithGameLine
    <2>2. gs \in Seq(GameSet) /\ Len(gs) = Len(f.games) + 1 /\ gs[Len(gs)] = Fresh(f)
          /\ gs # <<>>
      BY NewGamesOK DEF MatchOK
    <2> HIDE DEF gs, w
    <2>3. GameOK(Fresh(f)) /\ ~Over(Fresh(f)) /\ Fresh(f).position.score = 0
      BY FreshOK, NewGameOK DEF Fresh, M!IsCrawford
    <2>4. Cur(w) = Fresh(f) /\ w.games = gs /\ w.men = <<>> /\ w.blocked = FALSE
      BY <2>1, <2>2 DEF Cur
    <2>5. <<>> \in Men
      BY DEF Men
    <2>6. MatchOK(w) /\ Honest(w)
      BY <2>1, <2>2, <2>3, <2>4, <2>5 DEF MatchOK, Honest
    <2>7. ~Waiting(w)
      BY <2>2, <2>3, <2>4 DEF Waiting
    <2> QED BY <2>2, <2>4, <2>6, <2>7 DEF w, gs
  <1> QED BY <1>1, <1>2

LEMMA ActionLineOK ==
  ASSUME NEW f, MatchOK(f), Honest(f), NEW p \in PlaySet
  PROVE  MatchOK(WithAction(f, p)) /\ Honest(WithAction(f, p))
  BY AddedOK, EmptyOK DEF WithAction, IfAccepted

(* A new game starts with a roll. *)
LEMMA FirstIsRoll ==
  ASSUME NEW m, MatchOK(m), Waiting(m), NEW p \in PlaySet, Accepts(m, p),
         p.kind # "resign"
  PROVE  p.kind = "roll"
  <1>1. Allows(Fresh(m), p)
    BY AcceptsNext DEF Next1
  <1>2. /\ Fresh(m).position.turn = None /\ Fresh(m).position.cubeTurned = None
        /\ Fresh(m).last = NoAction
    BY FreshOK, NewGameOK DEF Fresh, M!IsCrawford
  <1>3. p.kind # "roll" => p.side \in Sides /\ p.side # None /\ -p.side # None
    BY DEF PlaySet, Sides, White, Black, None
  <1>4. p.kind \in Kinds
    BY DEF PlaySet
  <1> DEFINE g == Fresh(m)
  <1> HIDE DEF g
  <1>5. p.kind = "move" => FALSE
    BY <1>1, <1>2, <1>3 DEF Allows, CanMove, g
  <1>6. p.kind = "double" => FALSE
    BY <1>1, <1>2, <1>3 DEF Allows, CanDouble, g
  <1>7. p.kind \in {"take", "drop"} => FALSE
    BY <1>1, <1>2, <1>3 DEF Allows, CanAnswerDouble, g
  <1>8. p.kind \in {"accept", "reject"} => FALSE
    <2>1. NoAction # [kind |-> "resign", side |-> -p.side]
      BY DEF NoAction
    <2>2. p.kind \in {"accept", "reject"} => CanAnswerResign(g, p.side)
      BY <1>1 DEF Allows, g
    <2>3. g.last = NoAction
      BY <1>2 DEF g
    <2> QED BY <2>1, <2>2, <2>3 DEF CanAnswerResign
  <1> QED BY <1>4, <1>5, <1>6, <1>7, <1>8 DEF Kinds

(* What is appended to the file is what was added to the match. *)
LEMMA Mirror ==
  ASSUME NEW m, MatchOK(m), Honest(m), OnlyEmpty(m), NEW p \in FoundSet, Accepts(m, p)
  PROVE  WithAction(IF Waiting(m) THEN WithGameLine(m) ELSE m, p) = Added(m, p)
  <1>1. p \in PlaySet /\ p.kind # "resign"
    BY DEF FoundSet
  <1>2. CASE ~Waiting(m)
    <2>1. m # NoFile
      BY <1>2, EmptyOK DEF Waiting
    <2> QED BY <1>2, <2>1 DEF WithAction, IfAccepted
  <1>3. CASE Waiting(m)
    <2> DEFINE w == WithGameLine(m)
    <2>1. m # NoFile
      BY EmptyOK DEF OnlyEmpty
    <2>2. M(m.games)!MayAddGame
      BY <1>3, AcceptsNext
    <2>3. w = [games |-> M(m.games)!WithNewGame, men |-> <<>>, blocked |-> FALSE]
      BY <2>1, <2>2 DEF WithGameLine
    <2>4. w # NoFile
      BY <2>3 DEF NoFile
    <2>5. /\ MatchOK(w) /\ w.games = M(m.games)!WithNewGame
          /\ w.men = <<>> /\ ~w.blocked /\ ~Waiting(w) /\ Cur(w) = Fresh(m)
      BY <2>4, GameLineOK
    <2>6. p.kind = "roll"
      BY <1>1, <1>3, FirstIsRoll
    <2> HIDE DEF w
    <2>7. M(w.games)!Ready = M(m.games)!Ready
      BY <1>3, <2>5, ReadyOK
    <2>8. M(w.games)!Target = M(m.games)!Target
      BY <2>7 DEF M!Target
    <2>9. Accepts(w, p)
      BY <2>5, <2>8, SameWords DEF Accepts, M!Playable
    <2>10. Added(w, p) = Added(m, p)
      BY <1>3, <2>5, <2>6, <2>7, SameWords DEF Added
    <2> QED BY <1>3, <2>4, <2>9, <2>10 DEF WithAction, IfAccepted, w
  <1> QED BY <1>2, <1>3

-----------------------------------------------------------------------------
(***************************************************************************)
(* Recording one action after the other.  That the functions of RecordAll  *)
(* and Search exist is shown by looking for a least number for which they  *)
(* do not.                                                                 *)
(***************************************************************************)
LEMMA LeastNumber ==
  ASSUME NEW T \in SUBSET Nat, T # {}
  PROVE  \E x \in T : \A y \in T : x <= y
  <1> DEFINE below == {ss \in Nat \X Nat : ss[1] < ss[2]}
  <1>1. WF!IsWellFoundedOn(below, Nat)
    BY WF!NatLessThanWellFounded DEF WF!OpToRel
  <1>2. PICK x \in T : \A y \in T : ~(<<y, x>> \in below)
    <2> HIDE DEF below
    <2> QED BY <1>1, WF!WFMin
  <1>3. ASSUME NEW y \in T PROVE x <= y
    <2>1. x \in Nat /\ y \in Nat
      OBVIOUS
    <2>2. y < x => <<y, x>> \in below
      BY <2>1
    <2>3. ~(y < x)
      BY <1>2, <2>2, Zenon
    <2> QED BY <2>1, <2>3
  <1> QED BY <1>3

NextOf(S, p) == {Recorded(o, p) : o \in {x \in S : Accepts(x.match, p)}}

Outcomes(out, plays, n, f) ==
  f = [i \in 0..n |-> IF i = 0 THEN {out} ELSE NextOf(f[i - 1], plays[i])]

LEMMA OutcomesExist ==
  ASSUME NEW out, NEW plays, NEW n \in Nat
  PROVE  \E f : Outcomes(out, plays, n, f)
  <1> DEFINE T == {k \in Nat : ~\E f : Outcomes(out, plays, k, f)}
  <1>1. SUFFICES ASSUME T # {} PROVE FALSE
    OBVIOUS
  <1>2. PICK k \in T : \A y \in T : k <= y
    <2>1. T \in SUBSET Nat
      OBVIOUS
    <2> HIDE DEF T
    <2> QED BY <1>1, <2>1, LeastNumber
  <1>3. k \in Nat /\ ~\E f : Outcomes(out, plays, k, f)
    OBVIOUS
  <1>4. k # 0
    <2>1. Outcomes(out, plays, 0, [i \in 0..0 |-> {out}])
      BY DEF Outcomes
    <2> QED BY <1>3, <2>1
  <1>5. k - 1 \in Nat /\ k - 1 \notin T
    BY <1>2, <1>3, <1>4
  <1>6. PICK f : Outcomes(out, plays, k - 1, f)
    BY <1>5
  <1> DEFINE g == [i \in 0..k |-> IF i = k THEN NextOf(f[k - 1], plays[k]) ELSE f[i]]
  <1>7. ASSUME NEW i \in 0..k
        PROVE  g[i] = IF i = 0 THEN {out} ELSE NextOf(g[i - 1], plays[i])
    <2>1. i # 0 => i - 1 \in 0..k /\ i - 1 # k
      BY <1>3
    <2>2. CASE i = k
      BY <2>1, <2>2, <1>4
    <2>3. CASE i # k
      <3>1. i \in 0..(k - 1) /\ g[i] = f[i]
        BY <1>3, <2>3
      <3>2. i # 0 => g[i - 1] = f[i - 1]
        BY <2>1
      <3>3. f[i] = IF i = 0 THEN {out} ELSE NextOf(f[i - 1], plays[i])
        BY <1>6, <3>1 DEF Outcomes
      <3> QED BY <3>1, <3>2, <3>3
    <2> QED BY <2>2, <2>3
  <1>8. Outcomes(out, plays, k, g)
    <2>1. g = [i \in 0..k |-> g[i]]
      OBVIOUS
    <2> HIDE DEF g
    <2>2. [i \in 0..k |-> g[i]]
            = [i \in 0..k |-> IF i = 0 THEN {out} ELSE NextOf(g[i - 1], plays[i])]
      BY <1>7
    <2> QED BY <2>1, <2>2 DEF Outcomes
  <1> QED BY <1>3, <1>8

LEMMA RecordIsOutcome ==
  ASSUME NEW out, NEW plays, Len(plays) \in Nat
  PROVE  \E f : Outcomes(out, plays, Len(plays), f) /\ RecordAll(out, plays) = f[Len(plays)]
  <1> DEFINE f == CHOOSE g : Outcomes(out, plays, Len(plays), g)
  <1>1. Outcomes(out, plays, Len(plays), f)
    BY OutcomesExist
  <1>2. RecordAll(out, plays) = f[Len(plays)]
    BY DEF RecordAll, Outcomes, NextOf
  <1> QED BY <1>1, <1>2

LEMMA RecordNone ==
  ASSUME NEW out
  PROVE  RecordAll(out, <<>>) = {out}
  <1>1. PICK f : Outcomes(out, <<>>, 0, f) /\ RecordAll(out, <<>>) = f[0]
    BY RecordIsOutcome
  <1> QED BY <1>1 DEF Outcomes

LEMMA RecordAppend ==
  ASSUME NEW out, NEW a \in Seq(PlaySet), NEW p \in PlaySet
  PROVE  RecordAll(out, Append(a, p)) = NextOf(RecordAll(out, a), p)
  <1> DEFINE b == Append(a, p)
             n == Len(a)
  <1>1. n \in Nat /\ Len(b) = n + 1 /\ b[n + 1] = p /\ \A i \in 1..n : b[i] = a[i]
    OBVIOUS
  <1>2. PICK f : Outcomes(out, a, n, f) /\ RecordAll(out, a) = f[n]
    BY <1>1, RecordIsOutcome
  <1> HIDE DEF b
  <1>3. PICK g : Outcomes(out, b, n + 1, g) /\ RecordAll(out, b) = g[n + 1]
    <2>1. Len(b) \in Nat /\ Len(b) = n + 1
      BY <1>1
    <2> QED BY <2>1, RecordIsOutcome
  <1>4. \A i \in 0..n : f[i] = IF i = 0 THEN {out} ELSE NextOf(f[i - 1], a[i])
    BY <1>2 DEF Outcomes
  <1>5. \A i \in 0..(n + 1) : g[i] = IF i = 0 THEN {out} ELSE NextOf(g[i - 1], b[i])
    BY <1>1, <1>3 DEF Outcomes
  <1>6. \A i \in 0..n : f[i] = g[i]
    <2> DEFINE T == {i \in 0..n : f[i] # g[i]}
    <2>1. SUFFICES ASSUME T # {} PROVE FALSE
      OBVIOUS
    <2>2. PICK k \in T : \A y \in T : k <= y
      <3>1. T \in SUBSET Nat
        OBVIOUS
      <3> HIDE DEF T
      <3> QED BY <2>1, <3>1, LeastNumber
    <2>3. k \in 0..n /\ f[k] # g[k]
      OBVIOUS
    <2>4. CASE k = 0
      <3>1. 0 \in 0..n /\ 0 \in 0..(n + 1)
        BY <1>1
      <3>2. f[0] = {out} /\ g[0] = {out}
        BY <1>4, <1>5, <3>1
      <3> HIDE DEF T
      <3> QED BY <2>3, <2>4, <3>2
    <2>5. CASE k # 0
      <3>1. k - 1 \in 0..n /\ k - 1 \notin T
        BY <1>1, <2>2, <2>3, <2>5
      <3>2. f[k - 1] = g[k - 1]
        BY <3>1
      <3>3. k \in 1..n /\ k \in 0..(n + 1) /\ a[k] = b[k]
        BY <1>1, <2>3, <2>5
      <3> QED BY <1>4, <1>5, <2>3, <2>5, <3>2, <3>3
    <2> QED BY <2>4, <2>5
  <1>7. g[n + 1] = NextOf(g[n], b[n + 1])
    BY <1>1, <1>5
  <1> QED BY <1>1, <1>2, <1>3, <1>6, <1>7 DEF b

(* What holds of a match and its file before and after recording. *)
Good(o) ==
  /\ o = Outcome(o.match, o.file, o.whole)
  /\ MatchOK(o.match) /\ OnlyEmpty(o.match)
  /\ MatchOK(o.file) /\ Honest(o.file)
  /\ o.whole \in BOOLEAN
  /\ o.whole => o.file = o.match

LEMMA RecordedOK ==
  ASSUME NEW o, Good(o), NEW p \in FoundSet, Accepts(o.match, p)
  PROVE  LET r == Recorded(o, p) IN
         /\ Good(r) /\ r.match = Added(o.match, p) /\ r.whole = o.whole
         /\ Honest(o.match) => Honest(r.match)
  <1> DEFINE m == o.match
             f == IF Waiting(m) THEN WithGameLine(o.file) ELSE o.file
             r == Recorded(o, p)
  <1>1. p \in PlaySet
    BY DEF FoundSet
  <1>2. r = Outcome(Added(m, p), WithAction(f, p), o.whole)
    BY SameWords DEF Recorded, Started, Waiting
  <1> HIDE DEF r
  <1>3. r.match = Added(m, p) /\ r.file = WithAction(f, p) /\ r.whole = o.whole
    BY <1>2 DEF Outcome
  <1>4. MatchOK(Added(m, p)) /\ OnlyEmpty(Added(m, p)) /\ (Honest(m) => Honest(Added(m, p)))
    BY <1>1, AddedOK DEF Good, OnlyEmpty
  <1>5. MatchOK(f) /\ Honest(f)
    BY GameLineOK DEF Good
  <1>6. MatchOK(WithAction(f, p)) /\ Honest(WithAction(f, p))
    <2> HIDE DEF f
    <2> QED BY <1>1, <1>5, ActionLineOK
  <1>7. ASSUME o.whole PROVE WithAction(f, p) = Added(m, p)
    <2>1. o.file = m /\ Honest(m) /\ MatchOK(m) /\ OnlyEmpty(m)
      BY <1>7 DEF Good
    <2> QED BY <2>1, Mirror
  <1>8. Good(r)
    BY <1>2, <1>3, <1>4, <1>6, <1>7 DEF Good
  <1> QED BY <1>3, <1>4, <1>8 DEF r

-----------------------------------------------------------------------------
(***************************************************************************)
(* The search works on positions, the match that records what is found on  *)
(* games.  A position is like a match if it has its scores, and the cube   *)
(* and the offers of the game in which the next action will be recorded.   *)
(***************************************************************************)
Norm(cur) == IF cur.score # 0 THEN Initial(cur.scores) ELSE cur

Like(cur, m) ==
  /\ cur.scores = Sum(m)
  /\ Norm(cur).cube = Next1(m).position.cube
  /\ Norm(cur).cubeTurned = Next1(m).position.cubeTurned
  /\ Norm(cur).resigned = Next1(m).position.resigned

(* What the search does to the position, the match does to its game. *)
Leads(cur, p, next) ==
  \A m : MatchOK(m) /\ Honest(m) /\ Like(cur, m) /\ Accepts(m, p)
           => Like(next, Added(m, p))

LEMMA InitialFields ==
  ASSUME NEW scores \in ScoreSet
  PROVE  /\ Initial(scores) \in FullPosition
         /\ Initial(scores).scores = scores /\ Initial(scores).cube = 1
         /\ Initial(scores).cubeTurned = None /\ Initial(scores).resigned = 0
         /\ Initial(scores).score = 0 /\ Initial(scores).turn = None
         /\ Initial(scores).dice = FALSE /\ Initial(scores).men = <<>>
         /\ Initial(scores).blocked = FALSE
  <1> DEFINE all == [s \in Sides |-> TRUE]
  <1>1. all \in [Sides -> BOOLEAN] /\ <<>> \in Men
    BY DEF Men
  <1>2. Initial(scores) =
          [scores |-> scores, turn |-> None, dice |-> FALSE, cube |-> 1,
           mayDouble |-> all, cubeTurned |-> None, resigned |-> 0,
           score |-> 0, men |-> <<>>, blocked |-> FALSE]
    BY DEF Initial, WithMen, ResetPosition
  <1> HIDE DEF all
  <1>3. None \in Sides \cup {None}
    OBVIOUS
  <1>4. Initial(scores) \in FullPosition
    BY <1>1, <1>2, <1>3 DEF FullPosition
  <1> QED BY <1>2, <1>4

LEMMA NormFields ==
  ASSUME NEW cur \in FullPosition
  PROVE  /\ Norm(cur) \in FullPosition /\ Norm(cur).score = 0
         /\ Norm(cur).scores = cur.scores
         /\ cur.score # 0 => /\ Norm(cur).cube = 1 /\ Norm(cur).cubeTurned = None
                             /\ Norm(cur).resigned = 0
  <1>1. cur.scores \in ScoreSet
    BY DEF FullPosition
  <1> QED BY <1>1, InitialFields DEF Norm

LEMMA LikeNorm ==
  ASSUME NEW cur \in FullPosition, NEW m, Like(cur, m)
  PROVE  Like(Norm(cur), m)
  <1>1. Norm(cur).score = 0 /\ Norm(cur).scores = cur.scores
    BY NormFields
  <1>2. Norm(Norm(cur)) = Norm(cur)
    BY <1>1 DEF Norm
  <1> QED BY <1>1, <1>2 DEF Like

LEMMA LikeAfter ==
  ASSUME NEW m, MatchOK(m), NEW p \in PlaySet, Accepts(m, p), NEW pos \in FullPosition,
         LET h == Played(Next1(m), p) IN
         /\ pos.scores = h.position.scores
         /\ Over(h) <=> pos.score # 0
         /\ ~Over(h) => /\ pos.cube = h.position.cube
                        /\ pos.cubeTurned = h.position.cubeTurned
                        /\ pos.resigned = h.position.resigned
  PROVE  Like(pos, Added(m, p))
  <1> DEFINE a == Added(m, p)
             h == Played(Next1(m), p)
  <1>1. MatchOK(a) /\ a.games # <<>> /\ Cur(a) = h
    BY AddedOK
  <1> HIDE DEF a, h
  <1>2. Sum(a) = h.position.scores
    BY <1>1 DEF Sum
  <1>3. CASE Over(h)
    <2>1. Next1(a) = Fresh(a)
      BY <1>1, <1>3 DEF Next1, Waiting
    <2>2. /\ Fresh(a).position.cube = 1 /\ Fresh(a).position.cubeTurned = None
          /\ Fresh(a).position.resigned = 0
      BY <1>1, FreshOK, NewGameOK DEF Fresh, M!IsCrawford
    <2>3. Norm(pos).cube = 1 /\ Norm(pos).cubeTurned = None /\ Norm(pos).resigned = 0
      BY <1>3, NormFields DEF h
    <2> QED BY <1>2, <2>1, <2>2, <2>3 DEF Like, a, h
  <1>4. CASE ~Over(h)
    <2>1. Next1(a) = h /\ Norm(pos) = pos
      BY <1>1, <1>4 DEF Next1, Waiting, Norm, h
    <2> QED BY <1>2, <1>4, <2>1 DEF Like, a, h
  <1> QED BY <1>3, <1>4

(* The steps of the search, one kind of action at a time. *)
LEMMA MenAppended ==
  ASSUME NEW men \in Men, NEW side \in Sides, NEW n \in 0..3
  PROVE  Append(men, [side |-> side, n |-> n]) \in Men
  <1>1. [side |-> side, n |-> n] \in [side : Sides, n : 0..3]
    OBVIOUS
  <1> QED BY <1>1 DEF Men

LEMMA WonPoints ==
  ASSUME NEW n \in 0..3, NEW cube \in Nat \ {0}, NEW side \in Sides
  PROVE  /\ n * cube \in Nat /\ (n * cube = 0 <=> n = 0)
         /\ side * (n * cube) \in Int /\ (side * (n * cube) = 0 <=> n = 0)
         /\ Size(side * (n * cube)) = n * cube
         /\ -side \in Sides
  <1> DEFINE w == n * cube
  <1>1. w \in Nat /\ (w = 0 <=> n = 0)
    <2>1. n = 0 \/ n = 1 \/ n = 2 \/ n = 3
      OBVIOUS
    <2> QED BY <2>1
  <1> HIDE DEF w
  <1>2. side * w \in Int /\ (side * w = 0 <=> w = 0) /\ Size(side * w) = w /\ -side \in Sides
    BY <1>1 DEF Sides, White, Black, Size
  <1> QED BY <1>1, <1>2 DEF w

LEMMA AppliedOK ==
  ASSUME NEW pos \in FullPosition, NEW side \in Sides, NEW n \in 0..3
  PROVE  LET a == Applied(pos, side, n) IN
         /\ a \in FullPosition
         /\ a.scores = Credit(pos.scores, side, n * pos.cube)
         /\ a.score = side * (n * pos.cube)
         /\ a.cube = pos.cube /\ a.cubeTurned = pos.cubeTurned
         /\ a.resigned = pos.resigned
  <1> DEFINE won    == n * pos.cube
             scores == Credit(pos.scores, side, won)
             score  == side * won
             men    == IF pos.blocked THEN pos.men
                       ELSE Append(pos.men, [side |-> side, n |-> n])
             moved  == [pos EXCEPT !.dice = FALSE, !.turn = -side,
                                   !.score = score, !.scores = scores]
             g      == [NewGame(NoPoints, FALSE) EXCEPT !.position = pos]
             a      == Applied(pos, side, n)
  <1>1. pos.cube \in Nat \ {0} /\ pos.scores \in ScoreSet /\ pos.men \in Men
    BY DEF FullPosition
  <1>2. won \in Nat /\ score \in Int /\ -side \in Sides
    BY <1>1, WonPoints
  <1>3. scores \in ScoreSet
    BY <1>1, <1>2, CreditType
  <1>4. men \in Men
    BY <1>1, MenAppended
  <1>5. g.position = pos
    BY DEF NewGame
  <1> HIDE DEF g
  <1>6. AddMove(g, side, n).position = moved
    <2>1. AddMove(g, side, n) = Snapshot(g, "move", side, moved, score)
      BY <1>1, <1>5 DEF AddMove, FullPosition
    <2> HIDE DEF moved, score
    <2>2. Snapshot(g, "move", side, moved, score).position = moved
      BY DEF Snapshot, g, NewGame
    <2> QED BY <2>1, <2>2
  <1> HIDE DEF score, scores, men
  <1>7. /\ moved \in FullPosition
        /\ moved.scores = scores /\ moved.score = score
        /\ moved.cube = pos.cube /\ moved.cubeTurned = pos.cubeTurned
        /\ moved.resigned = pos.resigned /\ moved.men = pos.men
    BY <1>2, <1>3 DEF FullPosition
  <1> HIDE DEF moved
  <1>8. a = [moved EXCEPT !.men = men, !.blocked = FALSE]
    BY <1>6, <1>7 DEF Applied, g, men
  <1> HIDE DEF a
  <1>9. /\ a \in FullPosition
        /\ a.scores = moved.scores /\ a.score = moved.score
        /\ a.cube = moved.cube /\ a.cubeTurned = moved.cubeTurned
        /\ a.resigned = moved.resigned
    BY <1>4, <1>7, <1>8 DEF FullPosition
  <1> QED BY <1>7, <1>9 DEF scores, score, a

FoundStep(cur, step) ==
  /\ step.pos \in FullPosition
  /\ \/ \E p \in FoundSet : step.plays = <<p>> /\ Leads(cur, p, step.pos)
     \/ \E p, q \in FoundSet, mid \in FullPosition :
          /\ step.plays = <<p, q>> /\ mid.score = 0
          /\ Leads(cur, p, mid) /\ Leads(mid, q, step.pos)

LEMMA PlayFound ==
  ASSUME NEW kind \in Kinds \ {"resign", "reject"}, NEW side \in Sides
  PROVE  Play(kind, side) \in FoundSet
  BY DEF Play, FoundSet, PlaySet, Kinds

LEMMA LeadsAfter ==
  ASSUME NEW cur, NEW p \in PlaySet, NEW pos \in FullPosition, cur.score = 0,
         \A g : /\ GameOK(g) /\ ~Over(g) /\ Allows(g, p)
                /\ g.position.scores = cur.scores /\ g.position.cube = cur.cube
                /\ g.position.cubeTurned = cur.cubeTurned
                /\ g.position.resigned = cur.resigned
                => LET h == Played(g, p) IN
                   /\ pos.scores = h.position.scores
                   /\ Over(h) <=> pos.score # 0
                   /\ ~Over(h) => /\ pos.cube = h.position.cube
                                  /\ pos.cubeTurned = h.position.cubeTurned
                                  /\ pos.resigned = h.position.resigned
  PROVE  Leads(cur, p, pos)
  <1>1. SUFFICES ASSUME NEW m, MatchOK(m), Honest(m), Like(cur, m), Accepts(m, p)
                 PROVE  Like(pos, Added(m, p))
    BY DEF Leads
  <1>2. Norm(cur) = cur
    BY DEF Norm
  <1>3. /\ GameOK(Next1(m)) /\ ~Over(Next1(m)) /\ Allows(Next1(m), p)
        /\ Next1(m).position.scores = cur.scores /\ Next1(m).position.cube = cur.cube
        /\ Next1(m).position.cubeTurned = cur.cubeTurned
        /\ Next1(m).position.resigned = cur.resigned
    BY <1>1, <1>2, FreshOK, AcceptsNext DEF Like
  <1> QED BY <1>1, <1>3, LikeAfter

LEMMA AcceptStep ==
  ASSUME NEW cur \in FullPosition, NEW target \in FullPosition, cur.score = 0,
         cur.resigned # 0, TryAccept(cur, target) # Stuck
  PROVE  FoundStep(cur, TryAccept(cur, target))
  <1> DEFINE winner == IF cur.resigned > 0 THEN Black ELSE White
             p == Play("accept", winner)
             scores == target.scores
             pos == [cur EXCEPT !.turn = None, !.scores = scores, !.score = cur.resigned]
  <1>1. /\ TryAccept(cur, target) = Step(<<p>>, pos)
        /\ scores = Credit(cur.scores, winner, Size(cur.resigned))
    BY DEF TryAccept
  <1>2. winner \in Sides /\ cur.resigned \in Int /\ -winner * cur.resigned = Size(cur.resigned)
    BY DEF Sides, White, Black, Size, FullPosition
  <1>3. p \in FoundSet /\ p \in PlaySet /\ p.kind = "accept" /\ p.side = winner
    BY <1>2, PlayFound DEF Kinds, FoundSet, Play
  <1>4. pos \in FullPosition /\ pos.scores = scores /\ pos.score = cur.resigned
    BY <1>2 DEF FullPosition
  <1> HIDE DEF pos, p, winner, scores
  <1>5. ASSUME NEW g, GameOK(g), ~Over(g), Allows(g, p),
               g.position.scores = cur.scores, g.position.resigned = cur.resigned
        PROVE  Over(Played(g, p)) /\ Played(g, p).position.scores = scores
    <2>1. CanAnswerResign(g, winner) /\ Played(g, p) = AddAccept(g, winner)
      BY <1>3, <1>5 DEF Allows, Played
    <2> QED BY <1>1, <1>2, <1>5, <2>1, AcceptOK
  <1>6. Leads(cur, p, pos)
    BY <1>3, <1>4, <1>5, LeadsAfter
  <1> QED BY <1>1, <1>3, <1>4, <1>6 DEF FoundStep, Step

LEMMA TakeStep ==
  ASSUME NEW cur \in FullPosition, NEW target \in FullPosition, cur.score = 0,
         cur.cubeTurned # None, TryTake(cur, target) # Stuck
  PROVE  FoundStep(cur, TryTake(cur, target))
  <1> DEFINE side == -cur.cubeTurned
             p == Play("take", side)
             may == [s \in Sides |-> s = -cur.cubeTurned]
             pos == [cur EXCEPT !.mayDouble = may, !.cubeTurned = None, !.cube = 2 * @]
  <1>1. TryTake(cur, target) = Step(<<p>>, pos)
    BY DEF TryTake
  <1>2. side \in Sides /\ cur.cube \in Nat \ {0} /\ 2 * cur.cube \in Nat \ {0}
    BY DEF Sides, White, Black, None, FullPosition
  <1>3. p \in FoundSet /\ p \in PlaySet /\ p.kind = "take" /\ p.side = side
    BY <1>2, PlayFound DEF Kinds, FoundSet, Play
  <1>4. may \in [Sides -> BOOLEAN]
    OBVIOUS
  <1> HIDE DEF may, p, side
  <1>5. /\ pos \in FullPosition /\ pos.scores = cur.scores /\ pos.score = 0
        /\ pos.cube = 2 * cur.cube /\ pos.cubeTurned = None
        /\ pos.resigned = cur.resigned
    BY <1>2, <1>4 DEF FullPosition
  <1> HIDE DEF pos
  <1>6. ASSUME NEW g, GameOK(g), ~Over(g)
        PROVE  LET h == Played(g, p) IN
               /\ h.position.scores = g.position.scores /\ ~Over(h)
               /\ h.position.cube = 2 * g.position.cube
               /\ h.position.cubeTurned = None
               /\ h.position.resigned = g.position.resigned
    BY <1>2, <1>3, <1>6, TakeOK DEF Played
  <1>7. Leads(cur, p, pos)
    BY <1>3, <1>5, <1>6, LeadsAfter
  <1> QED BY <1>1, <1>3, <1>5, <1>7 DEF FoundStep, Step

LEMMA DropStep ==
  ASSUME NEW cur \in FullPosition, cur.score = 0, cur.cubeTurned # None
  PROVE  FoundStep(cur, TryDrop(cur))
  <1> DEFINE side == -cur.cubeTurned
             p == Play("drop", side)
             scores == Credit(cur.scores, cur.cubeTurned, cur.cube)
             score == cur.cubeTurned * cur.cube
             pos == [cur EXCEPT !.scores = scores, !.score = score]
  <1>1. TryDrop(cur) = Step(<<p>>, pos)
    BY DEF TryDrop
  <1>2. /\ side \in Sides /\ cur.cubeTurned \in Sides /\ -side = cur.cubeTurned
        /\ cur.cube \in Nat \ {0} /\ cur.scores \in ScoreSet
    BY DEF Sides, White, Black, None, FullPosition
  <1>3. p \in FoundSet /\ p \in PlaySet /\ p.kind = "drop" /\ p.side = side
    BY <1>2, PlayFound DEF Kinds, FoundSet, Play
  <1>4. scores \in ScoreSet
    BY <1>2, CreditType
  <1>5. score \in Int /\ score # 0
    BY <1>2 DEF Sides, White, Black
  <1> HIDE DEF p, side, scores, score
  <1>6. pos \in FullPosition /\ pos.scores = scores /\ pos.score = score
    BY <1>4, <1>5 DEF FullPosition
  <1> HIDE DEF pos
  <1>7. ASSUME NEW g, GameOK(g), ~Over(g), g.position.scores = cur.scores,
               g.position.cube = cur.cube
        PROVE  Over(Played(g, p)) /\ Played(g, p).position.scores = scores
    <2>1. Played(g, p) = AddDrop(g, side)
      BY <1>3 DEF Played
    <2> QED BY <1>2, <1>7, <2>1, DropOK DEF scores
  <1>8. Leads(cur, p, pos)
    BY <1>3, <1>5, <1>6, <1>7, LeadsAfter
  <1> QED BY <1>1, <1>3, <1>6, <1>8 DEF FoundStep, Step

LEMMA DoubleStep ==
  ASSUME NEW cur \in FullPosition, NEW target \in FullPosition, cur.score = 0,
         TryDouble(cur, target) # Stuck
  PROVE  FoundStep(cur, TryDouble(cur, target))
  <1> DEFINE side == cur.turn
             p == Play("double", side)
             pos == [cur EXCEPT !.cubeTurned = side]
  <1>1. TryDouble(cur, target) = Step(<<p>>, pos) /\ side # None
    BY DEF TryDouble
  <1>2. side \in Sides
    BY <1>1 DEF FullPosition
  <1>3. p \in FoundSet /\ p \in PlaySet /\ p.kind = "double" /\ p.side = side
    BY <1>2, PlayFound DEF Kinds, FoundSet, Play
  <1> HIDE DEF p
  <1>4. /\ pos \in FullPosition /\ pos.scores = cur.scores /\ pos.score = 0
        /\ pos.cube = cur.cube /\ pos.cubeTurned = side
        /\ pos.resigned = cur.resigned
    BY <1>2 DEF FullPosition
  <1> HIDE DEF pos
  <1>5. ASSUME NEW g, GameOK(g), ~Over(g)
        PROVE  LET h == Played(g, p) IN
               /\ h.position.scores = g.position.scores /\ ~Over(h)
               /\ h.position.cube = g.position.cube
               /\ h.position.cubeTurned = side
               /\ h.position.resigned = g.position.resigned
    BY <1>2, <1>3, <1>5, DoubleOK DEF Played
  <1>6. Leads(cur, p, pos)
    BY <1>3, <1>4, <1>5, LeadsAfter
  <1> QED BY <1>1, <1>3, <1>4, <1>6 DEF FoundStep, Step

(* A roll changes neither the scores nor the cube. *)
LEMMA RollLeads ==
  ASSUME NEW cur, NEW pos \in FullPosition, cur.score = 0, NEW p \in PlaySet,
         p.kind = "roll", pos.scores = cur.scores, pos.score = 0, pos.cube = cur.cube,
         pos.cubeTurned = cur.cubeTurned, pos.resigned = cur.resigned
  PROVE  Leads(cur, p, pos)
  <1>1. p.side \in Sides \cup {None}
    BY DEF PlaySet
  <1>2. ASSUME NEW g, GameOK(g), ~Over(g)
        PROVE  LET h == Played(g, p) IN
               /\ h.position.scores = g.position.scores /\ ~Over(h)
               /\ h.position.cube = g.position.cube
               /\ h.position.cubeTurned = g.position.cubeTurned
               /\ h.position.resigned = g.position.resigned
    BY <1>1, <1>2, RollOK DEF Played
  <1> QED BY <1>2, LeadsAfter

LEMMA MoveStep ==
  ASSUME NEW cur \in FullPosition, NEW target \in FullPosition, cur.score = 0,
         cur.turn # None, TryMove(cur, target) # Stuck
  PROVE  LET step == TryMove(cur, target) IN
         /\ step.pos \in FullPosition
         /\ \E p \in FoundSet : step.plays = <<p>> /\ Leads(cur, p, step.pos)
  <1> DEFINE side == cur.turn
             won == Moves(cur, target, side)
             n == IF cur.blocked THEN 0 ELSE CHOOSE k \in won : TRUE
             p == [Play("move", side) EXCEPT !.n = n]
             pos == Applied(cur, side, n)
  <1>1. TryMove(cur, target) = Step(<<p>>, pos)
    BY DEF TryMove
  <1>2. ~cur.blocked => won # {}
    BY DEF TryMove
  <1>3. side \in Sides /\ cur.cube \in Nat \ {0}
    BY DEF FullPosition
  <1>4. won \subseteq 0..3
    <2>1. Values \subseteq 1..3
      BY TrackerAssumption
    <2>2. {0} \cup Values \subseteq 0..3
      BY <2>1
    <2> QED BY <2>2 DEF Moves
  <1>5. n \in 0..3
    <2> HIDE DEF won
    <2>1. ~cur.blocked => (CHOOSE k \in won : TRUE) \in won
      BY <1>2
    <2>2. 0 \in 0..3
      OBVIOUS
    <2> QED BY <1>4, <2>1, <2>2
  <1> HIDE DEF n
  <1>6. p \in FoundSet /\ p.kind = "move" /\ p.side = side /\ p.n = n
    BY <1>3, <1>5 DEF FoundSet, PlaySet, Play, Kinds
  <1> HIDE DEF p
  <1>7. /\ pos \in FullPosition
        /\ pos.scores = Credit(cur.scores, side, n * cur.cube)
        /\ pos.score = side * (n * cur.cube)
        /\ pos.cube = cur.cube /\ pos.cubeTurned = cur.cubeTurned
        /\ pos.resigned = cur.resigned
    BY <1>3, <1>5, AppliedOK
  <1> HIDE DEF pos
  <1>8. pos.score = 0 <=> n = 0
    BY <1>3, <1>5, <1>7, WonPoints
  <1>9. ASSUME NEW g, GameOK(g), ~Over(g), g.position.scores = cur.scores,
               g.position.cube = cur.cube
        PROVE  LET h == Played(g, p) IN
               /\ h.position.scores = Credit(cur.scores, side, n * cur.cube)
               /\ Over(h) <=> n # 0
               /\ h.position.cube = g.position.cube
               /\ h.position.cubeTurned = g.position.cubeTurned
               /\ h.position.resigned = g.position.resigned
    <2>1. Played(g, p) = AddMove(g, side, n)
      BY <1>6 DEF Played
    <2> QED BY <1>3, <1>5, <1>9, <2>1, MoveOK
  <1>10. Leads(cur, p, pos)
    <2>1. p \in PlaySet
      BY <1>6 DEF FoundSet
    <2> QED BY <1>7, <1>8, <1>9, <2>1, LeadsAfter
  <1> QED BY <1>1, <1>6, <1>7, <1>10 DEF Step

LEMMA OpeningOK ==
  ASSUME NEW cur \in FullPosition, NEW target \in FullPosition, NEW c \in Opening(cur, target)
  PROVE  /\ c \in FullPosition /\ c.scores = cur.scores /\ c.score = cur.score
         /\ c.cube = cur.cube /\ c.cubeTurned = cur.cubeTurned
         /\ c.resigned = cur.resigned
  <1> DEFINE moved == {s \in Sides : \E i \in DOMAIN target.men : target.men[i].side = s}
  <1>1. CASE cur.turn # None
    BY <1>1 DEF Opening
  <1>2. CASE cur.turn = None
    <2>1. moved # Sides
      <3>1. SUFFICES ASSUME moved = Sides PROVE FALSE
        OBVIOUS
      <3>2. White \in Sides
        BY DEF Sides
      <3>3. moved # {}
        BY <3>1, <3>2
      <3>4. Opening(cur, target) =
              CASE cur.turn # None -> {cur}
                [] cur.turn = None /\ moved = Sides -> {}
                [] cur.turn = None /\ moved = {} ->
                     {[cur EXCEPT !.turn = IF target.dice THEN target.turn ELSE None,
                                  !.mayDouble = target.mayDouble]}
                [] OTHER -> {[cur EXCEPT !.turn = CHOOSE s \in moved : TRUE]}
        BY DEF Opening
      <3> HIDE DEF moved
      <3> QED BY <1>2, <3>1, <3>3, <3>4
    <2>2. CASE moved = {}
      <3> DEFINE turn == IF target.dice THEN target.turn ELSE None
      <3>1. c = [cur EXCEPT !.turn = turn, !.mayDouble = target.mayDouble]
        BY <1>2, <2>1, <2>2 DEF Opening
      <3>2. turn \in Sides \cup {None} /\ target.mayDouble \in [Sides -> BOOLEAN]
        BY DEF FullPosition
      <3> HIDE DEF turn
      <3> QED BY <3>1, <3>2 DEF FullPosition
    <2>3. CASE moved # {}
      <3> DEFINE turn == CHOOSE s \in moved : TRUE
      <3>1. c = [cur EXCEPT !.turn = turn]
        BY <1>2, <2>1, <2>3 DEF Opening
      <3>2. turn \in Sides
        BY <2>3
      <3> HIDE DEF turn
      <3> QED BY <3>1, <3>2 DEF FullPosition
    <2> QED BY <2>2, <2>3
  <1> QED BY <1>1, <1>2

LEMMA LeadsSame ==
  ASSUME NEW a, NEW b, NEW p, NEW next, a.score = 0, b.score = 0, a.scores = b.scores,
         a.cube = b.cube, a.cubeTurned = b.cubeTurned, a.resigned = b.resigned,
         Leads(a, p, next)
  PROVE  Leads(b, p, next)
  BY DEF Leads, Like, Norm

LEMMA Pairs ==
  ASSUME NEW p, NEW q
  PROVE  <<p>> \o <<q>> = <<p, q>> /\ <<q>> # <<>>
  <1> DEFINE S == {p, q}
  <1>1. <<p>> \in Seq(S) /\ <<q>> \in Seq(S) /\ p \in S /\ q \in S
    OBVIOUS
  <1>2. Append(<<p>>, q) = <<p, q>>
    <2> DEFINE a == Append(<<p>>, q)
               b == <<p, q>>
    <2>1. a \in Seq(S) /\ Len(a) = 2 /\ a[1] = p /\ a[2] = q
      BY <1>1, AppendProperties
    <2>2. b \in Seq(S) /\ Len(b) = 2 /\ b[1] = p /\ b[2] = q
      OBVIOUS
    <2> HIDE DEF a, b
    <2>3. \A i \in 1..2 : a[i] = b[i]
      BY <2>1, <2>2
    <2>4. a = b
      BY <2>1, <2>2, <2>3, SeqEqual
    <2> QED BY <2>4 DEF a, b
  <1>3. Append(<<p>>, q) = <<p>> \o <<q>>
    BY <1>1, AppendProperties
  <1> QED BY <1>2, <1>3

Rolls(step) == Len(step.plays) > 0 /\ step.plays[1].kind = "roll"

LEMMA RollFromStep ==
  ASSUME NEW c \in FullPosition, NEW target \in FullPosition, NEW tryMove \in BOOLEAN,
         c.score = 0, RollFrom(c, target, tryMove) # Stuck
  PROVE  FoundStep(c, RollFrom(c, target, tryMove)) /\ Rolls(RollFrom(c, target, tryMove))
  <1> DEFINE step == RollFrom(c, target, tryMove)
  <1>1. CASE c.men = target.men /\ target.dice /\ target.turn = c.turn
    <2> DEFINE p == [Play("roll", c.turn) EXCEPT !.blocked = target.blocked]
               pos == [c EXCEPT !.dice = TRUE, !.blocked = target.blocked]
    <2>1. step = Step(<<p>>, pos)
      BY <1>1 DEF RollFrom
    <2>2. c.turn \in Sides \cup {None} /\ target.blocked \in BOOLEAN
      BY DEF FullPosition
    <2>3. p \in FoundSet /\ p.kind = "roll"
      BY <2>2 DEF Play, FoundSet, PlaySet, Kinds
    <2> HIDE DEF p
    <2>4. /\ pos \in FullPosition /\ pos.scores = c.scores /\ pos.score = 0
          /\ pos.cube = c.cube /\ pos.cubeTurned = c.cubeTurned
          /\ pos.resigned = c.resigned
      BY <2>2 DEF FullPosition
    <2> HIDE DEF pos
    <2>5. Leads(c, p, pos)
      BY <2>3, <2>4, RollLeads DEF FoundSet
    <2> QED BY <2>1, <2>3, <2>4, <2>5 DEF FoundStep, Rolls, Step
  <1>2. CASE ~(c.men = target.men /\ target.dice /\ target.turn = c.turn)
    <2> DEFINE dance == Dance(c, target, c.turn)
               p == [Play("roll", c.turn) EXCEPT !.blocked = dance]
               mid == [c EXCEPT !.dice = TRUE, !.blocked = dance]
               move == TryMove(mid, target)
    <2>1. c.turn # None
      BY <1>2 DEF RollFrom
    <2>2. step = [move EXCEPT !.plays = IF @ = <<>> THEN @ ELSE <<p>> \o @]
      <3>1. step = RollToMove(c, target, c.turn, dance)
        BY <1>2 DEF RollFrom
      <3> QED BY <3>1 DEF RollToMove
    <2>3. c.turn \in Sides /\ dance \in BOOLEAN
      BY <2>1 DEF FullPosition, Dance
    <2> HIDE DEF dance
    <2>4. p \in FoundSet /\ p.kind = "roll"
      BY <2>3 DEF Play, FoundSet, PlaySet, Kinds
    <2> HIDE DEF p
    <2>5. /\ mid \in FullPosition /\ mid.scores = c.scores /\ mid.score = 0
          /\ mid.cube = c.cube /\ mid.cubeTurned = c.cubeTurned
          /\ mid.resigned = c.resigned /\ mid.turn # None
      BY <2>1, <2>3 DEF FullPosition
    <2> HIDE DEF mid
    <2>6. Leads(c, p, mid)
      BY <2>4, <2>5, RollLeads DEF FoundSet
    <2>7. move # Stuck
      <3>1. SUFFICES ASSUME move = Stuck PROVE FALSE
        OBVIOUS
      <3>2. step = Stuck
        BY <2>2, <3>1 DEF Stuck
      <3> QED BY <3>2
    <2>8. PICK q \in FoundSet : move.plays = <<q>> /\ Leads(mid, q, move.pos)
      BY <2>5, <2>7, MoveStep
    <2>9. move.pos \in FullPosition
      BY <2>5, <2>7, MoveStep
    <2>10. move = [plays |-> move.plays, pos |-> move.pos]
      BY DEF TryMove, Step, Stuck
    <2> HIDE DEF move, step
    <2>11. step.plays = <<p, q>> /\ step.pos = move.pos
      <3>1. <<p>> \o <<q>> = <<p, q>> /\ <<q>> # <<>>
        BY Pairs
      <3> QED BY <2>2, <2>8, <2>10, <3>1
    <2>12. FoundStep(c, step)
      BY <2>4, <2>5, <2>6, <2>8, <2>9, <2>11 DEF FoundStep
    <2> QED BY <2>4, <2>11, <2>12 DEF Rolls, step
  <1> QED BY <1>1, <1>2

LEMMA RollStep ==
  ASSUME NEW cur \in FullPosition, NEW target \in FullPosition, NEW tryMove \in BOOLEAN,
         cur.score = 0, TryRoll(cur, target, tryMove) # Stuck
  PROVE  FoundStep(cur, TryRoll(cur, target, tryMove)) /\ Rolls(TryRoll(cur, target, tryMove))
  <1> DEFINE step == TryRoll(cur, target, tryMove)
             c == CHOOSE k \in Opening(cur, target) : TRUE
  <1>1. Opening(cur, target) # {} /\ step = RollFrom(c, target, tryMove)
    BY DEF TryRoll
  <1>2. c \in Opening(cur, target)
    BY <1>1
  <1> HIDE DEF c
  <1>3. /\ c \in FullPosition /\ c.scores = cur.scores /\ c.score = cur.score
        /\ c.cube = cur.cube /\ c.cubeTurned = cur.cubeTurned
        /\ c.resigned = cur.resigned
    BY <1>2, OpeningOK
  <1>4. FoundStep(c, step) /\ Rolls(step)
    BY <1>1, <1>3, RollFromStep
  <1> HIDE DEF step
  <1>5. \A p, next : Leads(c, p, next) => Leads(cur, p, next)
    BY <1>3, LeadsSame
  <1>6. FoundStep(cur, step)
    BY <1>4, <1>5 DEF FoundStep
  <1> QED BY <1>4, <1>6 DEF step

(* One round of the search. *)
LEMMA RoundStep ==
  ASSUME NEW cur \in FullPosition, NEW target \in FullPosition, NEW tryMove \in BOOLEAN,
         cur.score = 0
  PROVE  LET round == Round(cur, target, tryMove) IN
         /\ round.tryMove \in BOOLEAN
         /\ round.step # Stuck => FoundStep(cur, round.step)
         /\ round.step # Stuck /\ cur.resigned = 0 /\ cur.cubeTurned = None /\ cur.turn = None
              => Rolls(round.step)
  <1>1. TryRoll(cur, target, tryMove) # Stuck =>
          FoundStep(cur, TryRoll(cur, target, tryMove)) /\ Rolls(TryRoll(cur, target, tryMove))
    BY RollStep
  <1>2. CASE cur.resigned # 0
    BY <1>2, AcceptStep DEF Round, Try
  <1>3. CASE cur.resigned = 0 /\ cur.cubeTurned # None
    BY <1>3, TakeStep, DropStep DEF Round, Try, Else
  <1>4. CASE cur.resigned = 0 /\ cur.cubeTurned = None /\ ~cur.dice
    <2>1. cur.turn = None => TryDouble(cur, target) = Stuck
      BY DEF TryDouble
    <2> QED BY <1>1, <1>4, <2>1, DoubleStep DEF Round, Try, Else
  <1>5. CASE cur.resigned = 0 /\ cur.cubeTurned = None /\ cur.dice
    <2>1. cur.turn # None /\ TryMove(cur, target) # Stuck => FoundStep(cur, TryMove(cur, target))
      BY MoveStep DEF FoundStep
    <2> QED BY <1>1, <1>5, <2>1 DEF Round, Try
  <1> QED BY <1>2, <1>3, <1>4, <1>5

-----------------------------------------------------------------------------
(* The whole search, and the recording of what it has found. *)
Recording(out, plays, cur) ==
  \A o \in RecordAll(out, plays) :
    /\ Good(o)
    /\ Honest(out.match) => Honest(o.match) /\ Like(cur, o.match)

LEMMA OnePlay ==
  ASSUME NEW out, NEW plays \in Seq(FoundSet), NEW cur, NEW p \in FoundSet, NEW next,
         Recording(out, plays, cur), Leads(cur, p, next)
  PROVE  /\ Append(plays, p) \in Seq(FoundSet)
         /\ Append(plays, p) = plays \o <<p>>
         /\ Recording(out, Append(plays, p), next)
  <1>1. Append(plays, p) \in Seq(FoundSet) /\ Append(plays, p) = plays \o <<p>>
    BY AppendProperties, AppendIsConcat
  <1>2. FoundSet \subseteq PlaySet
    BY DEF FoundSet
  <1>3. plays \in Seq(PlaySet) /\ p \in PlaySet
    BY <1>2, SeqMonotonic
  <1>4. RecordAll(out, Append(plays, p)) = NextOf(RecordAll(out, plays), p)
    BY <1>3, RecordAppend
  <1>5. ASSUME NEW r \in NextOf(RecordAll(out, plays), p)
        PROVE  Good(r) /\ (Honest(out.match) => Honest(r.match) /\ Like(next, r.match))
    <2>1. PICK o \in RecordAll(out, plays) : Accepts(o.match, p) /\ r = Recorded(o, p)
      BY DEF NextOf
    <2>2. Good(o) /\ (Honest(out.match) => Honest(o.match) /\ Like(cur, o.match))
      BY DEF Recording
    <2>3. Good(r) /\ r.match = Added(o.match, p) /\ (Honest(o.match) => Honest(r.match))
      BY <2>1, <2>2, RecordedOK
    <2> QED BY <2>1, <2>2, <2>3 DEF Leads, Good
  <1>6. Recording(out, Append(plays, p), next)
    BY <1>4, <1>5 DEF Recording
  <1> QED BY <1>1, <1>6

LEMMA OneStep ==
  ASSUME NEW out, NEW plays \in Seq(FoundSet), NEW cur, NEW step,
         Recording(out, plays, cur), FoundStep(cur, step)
  PROVE  plays \o step.plays \in Seq(FoundSet)
         /\ Recording(out, plays \o step.plays, step.pos)
  <1>1. CASE \E p \in FoundSet : step.plays = <<p>> /\ Leads(cur, p, step.pos)
    <2>1. PICK p \in FoundSet : step.plays = <<p>> /\ Leads(cur, p, step.pos)
      BY <1>1
    <2>2. Append(plays, p) \in Seq(FoundSet) /\ Append(plays, p) = plays \o <<p>>
          /\ Recording(out, Append(plays, p), step.pos)
      BY <2>1, OnePlay
    <2> QED BY <2>1, <2>2
  <1>2. CASE \E p, q \in FoundSet, mid \in FullPosition :
               /\ step.plays = <<p, q>> /\ mid.score = 0
               /\ Leads(cur, p, mid) /\ Leads(mid, q, step.pos)
    <2>1. PICK p \in FoundSet, q \in FoundSet, mid \in FullPosition :
            step.plays = <<p, q>> /\ Leads(cur, p, mid) /\ Leads(mid, q, step.pos)
      BY <1>2
    <2> DEFINE one == Append(plays, p)
               two == Append(one, q)
    <2>2. one \in Seq(FoundSet) /\ one = plays \o <<p>> /\ Recording(out, one, mid)
      BY <2>1, OnePlay
    <2> HIDE DEF one
    <2>3. two \in Seq(FoundSet) /\ two = one \o <<q>> /\ Recording(out, two, step.pos)
      <3>1. one \in Seq(FoundSet) /\ Recording(out, one, mid)
        BY <2>2
      <3>2. Leads(mid, q, step.pos)
        BY <2>1
      <3> QED BY <3>1, <3>2, OnePlay
    <2> HIDE DEF two
    <2>4. two = plays \o (<<p>> \o <<q>>)
      <3>1. <<p>> \in Seq(FoundSet) /\ <<q>> \in Seq(FoundSet)
        OBVIOUS
      <3> QED BY <2>2, <2>3, <3>1, ConcatAssociative
    <2>5. two = plays \o step.plays
      BY <2>1, <2>4, Pairs
    <2> QED BY <2>3, <2>5
  <1> QED BY <1>1, <1>2 DEF FoundStep

StateSet ==
  [cur : FullPosition, plays : Seq(FoundSet), tryMove : BOOLEAN, stuck : BOOLEAN]

LEMMA FurtherOK ==
  ASSUME NEW out, NEW s \in StateSet, NEW target \in FullPosition,
         Recording(out, s.plays, s.cur)
  PROVE  LET t == Further(s, target) IN
         t \in StateSet /\ Recording(out, t.plays, t.cur)
  <1> DEFINE start == Norm(s.cur)
             round == Round(start, target, s.tryMove)
             t == Further(s, target)
  <1>1. /\ s.cur \in FullPosition /\ s.plays \in Seq(FoundSet) /\ s.tryMove \in BOOLEAN
        /\ start \in FullPosition /\ start.score = 0
    BY NormFields DEF StateSet
  <1>2. t = IF s.stuck \/ s.cur = target THEN s
            ELSE IF round.step = Stuck THEN [s EXCEPT !.stuck = TRUE]
            ELSE [cur |-> round.step.pos, plays |-> s.plays \o round.step.plays,
                  tryMove |-> round.tryMove, stuck |-> FALSE]
    BY DEF Further, Norm
  <1>3. round.tryMove \in BOOLEAN /\ (round.step # Stuck => FoundStep(start, round.step))
    BY <1>1, RoundStep
  <1>4. Recording(out, s.plays, start)
    BY <1>1, LikeNorm DEF Recording
  <1> SUFFICES t \in StateSet /\ Recording(out, t.plays, t.cur)
    OBVIOUS
  <1> HIDE DEF t, round, start
  <1>5. CASE s.stuck \/ s.cur = target
    BY <1>2, <1>5
  <1>6. CASE ~(s.stuck \/ s.cur = target) /\ round.step = Stuck
    BY <1>2, <1>6 DEF StateSet
  <1>7. CASE ~(s.stuck \/ s.cur = target) /\ round.step # Stuck
    <2>1. s.plays \o round.step.plays \in Seq(FoundSet)
          /\ Recording(out, s.plays \o round.step.plays, round.step.pos)
      BY <1>1, <1>3, <1>4, <1>7, OneStep
    <2>2. round.step.pos \in FullPosition
      BY <1>3, <1>7 DEF FoundStep
    <2> QED BY <1>2, <1>3, <1>7, <2>1, <2>2 DEF StateSet
  <1> QED BY <1>5, <1>6, <1>7

Begin(cur) == [cur |-> cur, plays |-> <<>>, tryMove |-> TRUE, stuck |-> FALSE]

Rounds(cur, target, n, f) ==
  f = [i \in 0..n |-> IF i = 0 THEN Begin(cur) ELSE Further(f[i - 1], target)]

LEMMA RoundsExist ==
  ASSUME NEW cur, NEW target, NEW n \in Nat
  PROVE  \E f : Rounds(cur, target, n, f)
  <1> DEFINE T == {k \in Nat : ~\E f : Rounds(cur, target, k, f)}
  <1>1. SUFFICES ASSUME T # {} PROVE FALSE
    OBVIOUS
  <1>2. PICK k \in T : \A y \in T : k <= y
    <2>1. T \in SUBSET Nat
      OBVIOUS
    <2> HIDE DEF T
    <2> QED BY <1>1, <2>1, LeastNumber
  <1>3. k \in Nat /\ ~\E f : Rounds(cur, target, k, f)
    OBVIOUS
  <1>4. k # 0
    <2>1. Rounds(cur, target, 0, [i \in 0..0 |-> Begin(cur)])
      BY DEF Rounds
    <2> QED BY <1>3, <2>1
  <1>5. k - 1 \in Nat /\ k - 1 \notin T
    BY <1>2, <1>3, <1>4
  <1>6. PICK f : Rounds(cur, target, k - 1, f)
    BY <1>5
  <1> DEFINE g == [i \in 0..k |-> IF i = k THEN Further(f[k - 1], target) ELSE f[i]]
  <1>7. ASSUME NEW i \in 0..k
        PROVE  g[i] = IF i = 0 THEN Begin(cur) ELSE Further(g[i - 1], target)
    <2>1. i # 0 => i - 1 \in 0..k /\ i - 1 # k
      BY <1>3
    <2>2. CASE i = k
      BY <2>1, <2>2, <1>4
    <2>3. CASE i # k
      <3>1. i \in 0..(k - 1) /\ g[i] = f[i]
        BY <1>3, <2>3
      <3>2. i # 0 => g[i - 1] = f[i - 1]
        BY <2>1
      <3>3. f[i] = IF i = 0 THEN Begin(cur) ELSE Further(f[i - 1], target)
        BY <1>6, <3>1 DEF Rounds
      <3> QED BY <3>1, <3>2, <3>3
    <2> QED BY <2>2, <2>3
  <1>8. Rounds(cur, target, k, g)
    <2>1. g = [i \in 0..k |-> g[i]]
      OBVIOUS
    <2> HIDE DEF g
    <2>2. [i \in 0..k |-> g[i]]
            = [i \in 0..k |-> IF i = 0 THEN Begin(cur) ELSE Further(g[i - 1], target)]
      BY <1>7
    <2> QED BY <2>1, <2>2 DEF Rounds
  <1> QED BY <1>3, <1>8

LEMMA SearchIsRounds ==
  ASSUME NEW cur, NEW target
  PROVE  \E f : /\ f[0] = Begin(cur)
                /\ \A i \in 1..MaxRounds : f[i] = Further(f[i - 1], target)
                /\ Search(cur, target) = f[MaxRounds]
  <1> DEFINE f == CHOOSE g : Rounds(cur, target, MaxRounds, g)
  <1>1. Rounds(cur, target, MaxRounds, f)
    BY RoundsExist DEF MaxRounds
  <1>2. Search(cur, target) = f[MaxRounds]
    BY DEF Search, Rounds, Begin
  <1> HIDE DEF f
  <1>3. f[0] = Begin(cur) /\ \A i \in 1..MaxRounds : f[i] = Further(f[i - 1], target)
    BY <1>1 DEF Rounds, MaxRounds
  <1> QED BY <1>2, <1>3

LEMMA SearchOK ==
  ASSUME NEW out, NEW cur \in FullPosition, NEW target \in FullPosition,
         Good(out), Honest(out.match) => Like(cur, out.match)
  PROVE  LET s == Search(cur, target) IN
         s \in StateSet /\ Recording(out, s.plays, s.cur)
  <1> DEFINE OK(s) == s \in StateSet /\ Recording(out, s.plays, s.cur)
  <1>1. PICK f : /\ f[0] = Begin(cur)
                 /\ \A i \in 1..MaxRounds : f[i] = Further(f[i - 1], target)
                 /\ Search(cur, target) = f[MaxRounds]
    BY SearchIsRounds
  <1>2. OK(f[0])
    <2>1. <<>> \in Seq(FoundSet)
      OBVIOUS
    <2>2. Begin(cur) \in StateSet
      BY <2>1 DEF Begin, StateSet
    <2>3. Recording(out, <<>>, cur)
      BY RecordNone DEF Recording
    <2> QED BY <1>1, <2>2, <2>3 DEF Begin
  <1>3. ASSUME NEW i \in 1..8, OK(f[i - 1]) PROVE OK(f[i])
    BY <1>1, <1>3, FurtherOK DEF MaxRounds
  <1> HIDE DEF OK
  <1>4. OK(f[1])
    BY <1>2, <1>3
  <1>5. OK(f[2])
    BY <1>3, <1>4
  <1>6. OK(f[3])
    BY <1>3, <1>5
  <1>7. OK(f[4])
    BY <1>3, <1>6
  <1>8. OK(f[5])
    BY <1>3, <1>7
  <1>9. OK(f[6])
    BY <1>3, <1>8
  <1>10. OK(f[7])
    BY <1>3, <1>9
  <1>11. OK(f[8])
    BY <1>3, <1>10
  <1> QED BY <1>1, <1>11 DEF MaxRounds, OK

(***************************************************************************)
(* A match that was continued from the end of a game is not over in its    *)
(* own eyes, although its position is.  The search, which starts the next  *)
(* game, always begins with a roll then.                                   *)
(***************************************************************************)
Opens(s, cur) ==
  \/ s.plays = <<>> /\ s.cur = cur
  \/ Len(s.plays) > 0 /\ s.plays[1].kind = "roll"

LEMMA FurtherOpens ==
  ASSUME NEW s \in StateSet, NEW cur \in FullPosition, NEW target \in FullPosition,
         cur.score # 0, Opens(s, cur)
  PROVE  Opens(Further(s, target), cur)
  <1> DEFINE start == Norm(s.cur)
             round == Round(start, target, s.tryMove)
             t == Further(s, target)
  <1>1. /\ s.cur \in FullPosition /\ s.plays \in Seq(FoundSet) /\ s.tryMove \in BOOLEAN
        /\ start \in FullPosition /\ start.score = 0
    BY NormFields DEF StateSet
  <1>2. t = IF s.stuck \/ s.cur = target THEN s
            ELSE IF round.step = Stuck THEN [s EXCEPT !.stuck = TRUE]
            ELSE [cur |-> round.step.pos, plays |-> s.plays \o round.step.plays,
                  tryMove |-> round.tryMove, stuck |-> FALSE]
    BY DEF Further, Norm
  <1>3. /\ round.step # Stuck => FoundStep(start, round.step)
        /\ round.step # Stuck /\ start.resigned = 0 /\ start.cubeTurned = None
             /\ start.turn = None => Rolls(round.step)
    BY <1>1, RoundStep
  <1>4. s.cur.score # 0 => /\ start.resigned = 0 /\ start.cubeTurned = None
                           /\ start.turn = None
    <2>1. s.cur.scores \in ScoreSet
      BY <1>1 DEF FullPosition
    <2> QED BY <2>1, InitialFields DEF Norm
  <1> SUFFICES Opens(t, cur)
    OBVIOUS
  <1> HIDE DEF t, round, start
  <1>5. CASE s.stuck \/ s.cur = target
    BY <1>2, <1>5
  <1>6. CASE ~(s.stuck \/ s.cur = target) /\ round.step = Stuck
    <2>1. t.plays = s.plays /\ t.cur = s.cur
      BY <1>2, <1>6 DEF StateSet
    <2> QED BY <2>1 DEF Opens
  <1>7. CASE ~(s.stuck \/ s.cur = target) /\ round.step # Stuck
    <2> DEFINE new == round.step.plays
    <2>1. new \in Seq(FoundSet)
      <3>1. FoundStep(start, round.step)
        BY <1>3, <1>7
      <3> HIDE DEF new
      <3>2. \/ \E p \in FoundSet : new = <<p>>
            \/ \E p, q \in FoundSet : new = <<p, q>>
        BY <3>1 DEF FoundStep, new
      <3>3. \A p, q \in FoundSet : <<p>> \in Seq(FoundSet) /\ <<p, q>> \in Seq(FoundSet)
        OBVIOUS
      <3> QED BY <3>2, <3>3
    <2>2. t.plays = s.plays \o new
      BY <1>2, <1>7
    <2>3. CASE s.plays = <<>> /\ s.cur = cur
      <3>1. Rolls(round.step)
        BY <1>3, <1>4, <1>7, <2>3
      <3>2. t.plays = new
        BY <2>1, <2>2, <2>3, ConcatEmptySeq
      <3> QED BY <3>1, <3>2 DEF Rolls, Opens
    <2>4. CASE Len(s.plays) > 0 /\ s.plays[1].kind = "roll"
      <3> HIDE DEF new
      <3>1. Len(t.plays) > 0 /\ t.plays[1] = s.plays[1]
        BY <1>1, <2>1, <2>2, <2>4, ConcatProperties
      <3> QED BY <2>4, <3>1 DEF Opens
    <2> QED BY <2>3, <2>4 DEF Opens
  <1> QED BY <1>5, <1>6, <1>7

LEMMA SearchOpens ==
  ASSUME NEW out, NEW cur \in FullPosition, NEW target \in FullPosition,
         Good(out), ~Honest(out.match), cur.score # 0
  PROVE  Opens(Search(cur, target), cur)
  <1> DEFINE OK(s) == s \in StateSet /\ Recording(out, s.plays, s.cur) /\ Opens(s, cur)
  <1>1. PICK f : /\ f[0] = Begin(cur)
                 /\ \A i \in 1..MaxRounds : f[i] = Further(f[i - 1], target)
                 /\ Search(cur, target) = f[MaxRounds]
    BY SearchIsRounds
  <1>2. OK(f[0])
    <2>1. <<>> \in Seq(FoundSet)
      OBVIOUS
    <2>2. Begin(cur) \in StateSet
      BY <2>1 DEF Begin, StateSet
    <2>3. Recording(out, <<>>, cur)
      BY RecordNone DEF Recording
    <2> QED BY <1>1, <2>2, <2>3 DEF Begin, Opens
  <1>3. ASSUME NEW i \in 1..8, OK(f[i - 1]) PROVE OK(f[i])
    BY <1>1, <1>3, FurtherOK, FurtherOpens DEF MaxRounds
  <1> HIDE DEF OK
  <1>4. OK(f[1])
    BY <1>2, <1>3
  <1>5. OK(f[2])
    BY <1>3, <1>4
  <1>6. OK(f[3])
    BY <1>3, <1>5
  <1>7. OK(f[4])
    BY <1>3, <1>6
  <1>8. OK(f[5])
    BY <1>3, <1>7
  <1>9. OK(f[6])
    BY <1>3, <1>8
  <1>10. OK(f[7])
    BY <1>3, <1>9
  <1>11. OK(f[8])
    BY <1>3, <1>10
  <1> QED BY <1>1, <1>11 DEF MaxRounds, OK

(* Nothing is recorded after an action that is refused. *)
LEMMA RefusedAtOnce ==
  ASSUME NEW out, NEW plays \in Seq(PlaySet), Len(plays) > 0, ~Accepts(out.match, plays[1])
  PROVE  RecordAll(out, plays) = {}
  <1> DEFINE n == Len(plays)
  <1>1. n \in Nat /\ n > 0
    OBVIOUS
  <1>2. PICK f : Outcomes(out, plays, n, f) /\ RecordAll(out, plays) = f[n]
    BY RecordIsOutcome
  <1>3. \A i \in 0..n : f[i] = IF i = 0 THEN {out} ELSE NextOf(f[i - 1], plays[i])
    BY <1>2 DEF Outcomes
  <1>4. f[1] = {}
    <2>1. 0 \in 0..n /\ 1 \in 0..n
      BY <1>1
    <2>2. f[0] = {out} /\ f[1] = NextOf(f[0], plays[1])
      BY <1>3, <2>1
    <2> QED BY <2>2 DEF NextOf
  <1> DEFINE T == {i \in 1..n : f[i] # {}}
  <1>5. SUFFICES ASSUME T # {} PROVE FALSE
    BY <1>1, <1>2
  <1>6. PICK k \in T : \A y \in T : k <= y
    <2>1. T \in SUBSET Nat
      OBVIOUS
    <2> HIDE DEF T
    <2> QED BY <1>5, <2>1, LeastNumber
  <1>7. k \in 1..n /\ f[k] # {}
    OBVIOUS
  <1>8. k # 1 /\ k - 1 \in 1..n /\ k - 1 \notin T
    BY <1>1, <1>4, <1>6, <1>7
  <1>9. f[k - 1] = {} /\ f[k] = NextOf(f[k - 1], plays[k])
    BY <1>3, <1>7, <1>8
  <1> QED BY <1>7, <1>9 DEF NextOf

LEMMA SamePosition ==
  ASSUME NEW a \in FullPosition, NEW b \in FullPosition, a.scores = b.scores,
         a.turn = b.turn, a.dice = b.dice, a.cube = b.cube, a.mayDouble = b.mayDouble,
         a.cubeTurned = b.cubeTurned, a.resigned = b.resigned, a.score = b.score,
         a.men = b.men, a.blocked = b.blocked
  PROVE  a = b
  <1>1. \A x \in FullPosition :
          x = [scores |-> x.scores, turn |-> x.turn, dice |-> x.dice, cube |-> x.cube,
               mayDouble |-> x.mayDouble, cubeTurned |-> x.cubeTurned,
               resigned |-> x.resigned, score |-> x.score, men |-> x.men,
               blocked |-> x.blocked]
    BY DEF FullPosition
  <1> QED BY <1>1

(* The first roll of the next game is found in one round. *)
LEMMA FirstRollFound ==
  ASSUME NEW cur \in FullPosition, NEW target \in FullPosition, cur.score # 0,
         target.scores = cur.scores, target.turn \in Sides, target.dice,
         target.cube = 1, target.cubeTurned = None, target.resigned = 0,
         target.score = 0, target.men = <<>>
  PROVE  \E p \in FoundSet : /\ p.kind = "roll" /\ p.side \in Sides
                             /\ Search(cur, target).plays = <<p>>
  <1> DEFINE p == [Play("roll", target.turn) EXCEPT !.blocked = target.blocked]
             start == Initial(cur.scores)
             c == [start EXCEPT !.turn = target.turn, !.mayDouble = target.mayDouble]
             next == [c EXCEPT !.dice = TRUE, !.blocked = target.blocked]
  <1>1. PICK f : /\ f[0] = Begin(cur)
                 /\ \A i \in 1..MaxRounds : f[i] = Further(f[i - 1], target)
                 /\ Search(cur, target) = f[MaxRounds]
    BY SearchIsRounds
  <1>2. /\ start \in FullPosition /\ start.scores = cur.scores
        /\ start.cube = 1 /\ start.cubeTurned = None /\ start.resigned = 0
        /\ start.score = 0 /\ start.turn = None /\ start.dice = FALSE
        /\ start.men = <<>> /\ start.blocked = FALSE
    BY InitialFields DEF FullPosition
  <1>3. target.mayDouble \in [Sides -> BOOLEAN] /\ target.blocked \in BOOLEAN
    BY DEF FullPosition
  <1>4. p \in FoundSet /\ p.kind = "roll" /\ p.side \in Sides
    BY <1>3 DEF Play, FoundSet, PlaySet, Kinds
  <1> HIDE DEF p, start
  <1>5. c \in FullPosition /\ c.men = <<>> /\ c.turn = target.turn
        /\ c.mayDouble = target.mayDouble /\ c.scores = target.scores /\ c.cube = 1
        /\ c.cubeTurned = None /\ c.resigned = 0 /\ c.score = 0
    BY <1>2, <1>3 DEF FullPosition
  <1>6. next = target
    <2> HIDE DEF c
    <2>1. next \in FullPosition
      BY <1>3, <1>5 DEF FullPosition
    <2>2. /\ next.men = target.men /\ next.turn = target.turn
          /\ next.mayDouble = target.mayDouble /\ next.scores = target.scores
          /\ next.cube = target.cube /\ next.cubeTurned = target.cubeTurned
          /\ next.resigned = target.resigned /\ next.score = target.score
          /\ next.blocked = target.blocked /\ next.dice = target.dice
      BY <1>3, <1>5 DEF FullPosition
    <2> HIDE DEF next
    <2> QED BY <2>1, <2>2, SamePosition
  <1>7. Opening(start, target) = {c}
    <2> DEFINE moved == {s \in Sides : \E i \in DOMAIN target.men : target.men[i].side = s}
    <2>1. moved = {} /\ moved # Sides
      BY DEF Sides
    <2>2. (IF target.dice THEN target.turn ELSE None) = target.turn
      OBVIOUS
    <2>3. Opening(start, target) =
            CASE start.turn # None -> {start}
              [] start.turn = None /\ moved = Sides -> {}
              [] start.turn = None /\ moved = {} -> {c}
              [] OTHER -> {[start EXCEPT !.turn = CHOOSE s \in moved : TRUE]}
      BY <2>2 DEF Opening
    <2> HIDE DEF moved, c
    <2> QED BY <1>2, <2>1, <2>3
  <1> HIDE DEF c
  <1>8. \A tryMove : TryRoll(start, target, tryMove) = Step(<<p>>, target)
    <2>1. (CHOOSE k \in {c} : TRUE) = c
      OBVIOUS
    <2>2. \A tryMove : TryRoll(start, target, tryMove) = RollFrom(c, target, tryMove)
      BY <1>7, <2>1 DEF TryRoll
    <2>3. \A tryMove : RollFrom(c, target, tryMove) = Step(<<p>>, next)
      BY <1>5 DEF RollFrom, p
    <2> QED BY <1>6, <2>2, <2>3
  <1>9. Step(<<p>>, target) # Stuck
    BY DEF Step, Stuck
  <1>10. Round(start, target, TRUE).step = Step(<<p>>, target)
    <2>1. TryDouble(start, target) = Stuck
      BY <1>2 DEF TryDouble
    <2> QED BY <1>2, <1>8, <2>1 DEF Round, Else, Try
  <1>11. f[1].cur = target /\ f[1].plays = <<p>>
    <2>1. f[1] = Further(Begin(cur), target)
      BY <1>1 DEF MaxRounds
    <2>2. cur # target
      OBVIOUS
    <2>3. Further(Begin(cur), target) =
            [cur |-> target, plays |-> <<>> \o <<p>>,
             tryMove |-> Round(start, target, TRUE).tryMove, stuck |-> FALSE]
      <3> DEFINE b == Begin(cur)
      <3>1. b.cur = cur /\ b.plays = <<>> /\ b.tryMove = TRUE /\ b.stuck = FALSE
        BY DEF Begin
      <3> HIDE DEF b
      <3>2. Further(b, target) =
              IF Round(start, target, TRUE).step = Stuck THEN [b EXCEPT !.stuck = TRUE]
              ELSE [cur |-> Round(start, target, TRUE).step.pos,
                    plays |-> <<>> \o Round(start, target, TRUE).step.plays,
                    tryMove |-> Round(start, target, TRUE).tryMove, stuck |-> FALSE]
        BY <2>2, <3>1 DEF Further, start
      <3>3. Step(<<p>>, target).pos = target /\ Step(<<p>>, target).plays = <<p>>
        BY DEF Step
      <3> QED BY <1>9, <1>10, <3>2, <3>3 DEF b
    <2>4. <<>> \o <<p>> = <<p>>
      OBVIOUS
    <2> QED BY <2>1, <2>3, <2>4
  <1>12. \A s : s.cur = target => Further(s, target) = s
    BY DEF Further
  <1>13. \A i \in 2..8 : f[i] = Further(f[i - 1], target)
    BY <1>1 DEF MaxRounds
  <1>14. f[2] = f[1]
    BY <1>11, <1>12, <1>13
  <1>15. f[3] = f[1]
    BY <1>11, <1>12, <1>13, <1>14
  <1>16. f[4] = f[1]
    BY <1>11, <1>12, <1>13, <1>15
  <1>17. f[5] = f[1]
    BY <1>11, <1>12, <1>13, <1>16
  <1>18. f[6] = f[1]
    BY <1>11, <1>12, <1>13, <1>17
  <1>19. f[7] = f[1]
    BY <1>11, <1>12, <1>13, <1>18
  <1>20. f[8] = f[1]
    BY <1>11, <1>12, <1>13, <1>19
  <1>21. Search(cur, target).plays = <<p>>
    BY <1>1, <1>11, <1>20 DEF MaxRounds
  <1> QED BY <1>4, <1>21

-----------------------------------------------------------------------------
(* Matches seen as positions, and positions continued as matches. *)
LEMMA ViewOK ==
  ASSUME NEW m, MatchOK(m), m.games # <<>>
  PROVE  LET v == View(m)
             pos == Cur(m).position
         IN /\ v \in FullPosition
            /\ pos \in PositionSet /\ pos.scores = Sum(m)
            /\ v.scores = pos.scores /\ v.turn = pos.turn /\ v.dice = pos.dice
            /\ v.cube = pos.cube /\ v.mayDouble = pos.mayDouble
            /\ v.cubeTurned = pos.cubeTurned /\ v.resigned = pos.resigned
            /\ v.score = pos.score /\ v.men = m.men /\ v.blocked = m.blocked
  <1> DEFINE pos == Cur(m).position
  <1>1. pos \in PositionSet /\ m.men \in Men /\ m.blocked \in BOOLEAN
    BY DEF MatchOK, GameOK, GameSet
  <1>2. View(m) = WithMen(pos, m.men, m.blocked)
    BY SameWords DEF View
  <1>3. pos.scores = Sum(m)
    BY DEF Sum
  <1> HIDE DEF pos
  <1>4. /\ WithMen(pos, m.men, m.blocked) \in FullPosition
        /\ WithMen(pos, m.men, m.blocked).scores = pos.scores
    BY <1>1 DEF WithMen, FullPosition, PositionSet
  <1>5. LET v == WithMen(pos, m.men, m.blocked) IN
        /\ v.scores = pos.scores /\ v.turn = pos.turn /\ v.dice = pos.dice
        /\ v.cube = pos.cube /\ v.mayDouble = pos.mayDouble
        /\ v.cubeTurned = pos.cubeTurned /\ v.resigned = pos.resigned
        /\ v.score = pos.score /\ v.men = m.men /\ v.blocked = m.blocked
    BY DEF WithMen
  <1> QED BY <1>1, <1>2, <1>3, <1>4, <1>5 DEF pos

LEMMA ShownOK ==
  ASSUME NEW m, MatchOK(m), m.games # <<>>
  PROVE  LET v == Shown(m)
             pos == Cur(m).position
         IN /\ v \in FullPosition
            /\ v.scores = Sum(m) /\ v.turn = pos.turn /\ v.dice = pos.dice
            /\ v.cube = pos.cube /\ v.resigned = 0 /\ v.score = 0
            /\ pos.cubeTurned = None => v.cubeTurned = None
            /\ v.men = m.men /\ v.blocked = m.blocked
  <1> DEFINE turned == IF View(m).cubeTurned = None THEN None ELSE White
  <1>1. turned \in Sides \cup {None} /\ (View(m).cubeTurned = None => turned = None)
    BY DEF Sides
  <1>2. Shown(m) = [View(m) EXCEPT !.cubeTurned = turned, !.resigned = 0, !.score = 0]
    <2>1. View(m) \in FullPosition
      BY ViewOK
    <2> QED BY <2>1 DEF Shown, FullPosition
  <1> HIDE DEF turned
  <1>3. View(m) \in FullPosition
    BY ViewOK
  <1> DEFINE v == View(m)
             w == [v EXCEPT !.cubeTurned = turned, !.resigned = 0, !.score = 0]
  <1>5. v \in FullPosition /\ Shown(m) = w
    BY <1>2, <1>3
  <1> HIDE DEF v
  <1>6. w \in FullPosition
    <2>1. w = [scores |-> v.scores, turn |-> v.turn, dice |-> v.dice, cube |-> v.cube,
               mayDouble |-> v.mayDouble, cubeTurned |-> turned, resigned |-> 0,
               score |-> 0, men |-> v.men, blocked |-> v.blocked]
      BY <1>5 DEF FullPosition
    <2>2. /\ v.scores \in ScoreSet /\ v.turn \in Sides \cup {None} /\ v.dice \in BOOLEAN
          /\ v.cube \in Nat \ {0} /\ v.mayDouble \in [Sides -> BOOLEAN]
          /\ v.men \in Men /\ v.blocked \in BOOLEAN
      BY <1>5 DEF FullPosition
    <2> HIDE DEF w
    <2> QED BY <1>1, <2>1, <2>2 DEF FullPosition
  <1>7. /\ w.scores = v.scores /\ w.turn = v.turn /\ w.dice = v.dice /\ w.cube = v.cube
        /\ w.resigned = 0 /\ w.score = 0 /\ w.cubeTurned = turned
        /\ w.men = v.men /\ w.blocked = v.blocked
    BY <1>5 DEF FullPosition
  <1> HIDE DEF w
  <1>4. /\ Shown(m) \in FullPosition /\ Shown(m).scores = View(m).scores
        /\ Shown(m).turn = View(m).turn /\ Shown(m).dice = View(m).dice
        /\ Shown(m).cube = View(m).cube /\ Shown(m).resigned = 0 /\ Shown(m).score = 0
        /\ Shown(m).cubeTurned = turned
        /\ Shown(m).men = View(m).men /\ Shown(m).blocked = View(m).blocked
    BY <1>5, <1>6, <1>7 DEF v
  <1> QED BY <1>1, <1>4, ViewOK

LEMMA StartLike ==
  ASSUME NEW m, MatchOK(m), OnlyEmpty(m)
  PROVE  LET last == IF Started(m) THEN View(m) ELSE Initial(NoPoints) IN
         /\ last \in FullPosition
         /\ last.scores = Sum(m)
         /\ Honest(m) => Like(last, m)
  <1> DEFINE last == IF Started(m) THEN View(m) ELSE Initial(NoPoints)
  <1>1. NoPoints \in ScoreSet
    BY DEF NoPoints, ScoreSet
  <1>2. last \in FullPosition
    BY <1>1, ViewOK, InitialFields DEF Started
  <1>3. last.scores = Sum(m)
    BY <1>1, ViewOK, InitialFields DEF Started, Sum
  <1>4. /\ Fresh(m).position.cube = 1 /\ Fresh(m).position.cubeTurned = None
        /\ Fresh(m).position.resigned = 0
    BY FreshOK, NewGameOK DEF Fresh, M!IsCrawford
  <1>5. CASE m.games = <<>>
    <2>1. Next1(m) = Fresh(m)
      BY <1>5 DEF Next1, Waiting
    <2>2. last = Initial(NoPoints)
      BY <1>5 DEF Started
    <2> QED BY <1>1, <1>2, <1>3, <1>4, <2>1, <2>2, InitialFields DEF Like, Norm
  <1>6. CASE m.games # <<>> /\ Honest(m)
    <2>1. last = View(m)
      BY <1>6 DEF Started
    <2>2. last.score = Cur(m).position.score
      BY <1>6, <2>1, ViewOK
    <2>3. CASE Over(Cur(m))
      <3>1. Next1(m) = Fresh(m)
        BY <2>3, <1>6 DEF Next1, Waiting
      <3>2. last.score # 0
        BY <1>6, <2>2, <2>3 DEF MatchOK, GameOK
      <3> HIDE DEF last
      <3> QED BY <1>2, <1>3, <1>4, <3>1, <3>2, NormFields DEF Like, last
    <2>4. CASE ~Over(Cur(m))
      <3>1. Next1(m) = Cur(m)
        BY <2>4, <1>6 DEF Next1, Waiting
      <3>2. last.score = 0
        BY <1>6, <2>2, <2>4 DEF Honest
      <3>3. /\ last.cube = Cur(m).position.cube /\ last.resigned = Cur(m).position.resigned
            /\ last.cubeTurned = Cur(m).position.cubeTurned
        BY <1>6, <2>1, ViewOK
      <3> HIDE DEF last
      <3>4. Like(last, m)
        BY <1>3, <3>1, <3>2, <3>3 DEF Like, Norm
      <3> QED BY <1>2, <1>3, <3>4 DEF last
    <2> QED BY <2>3, <2>4
  <1> QED BY <1>2, <1>3, <1>5, <1>6

LEMMA ContinuedOK ==
  ASSUME NEW pos \in FullPosition
  PROVE  LET c == Continued(pos) IN
         /\ MatchOK(c) /\ c.games # <<>> /\ Len(c.games) = 1
         /\ Sum(c) = pos.scores
         /\ pos.score = 0 => Honest(c)
  <1> DEFINE start == [f \in DOMAIN ResetPosition(NoPoints) |-> pos[f]]
             n == NewGame(pos.scores, FALSE)
             g == [n EXCEPT !.position = start]
             c == Continued(pos)
  <1>1. pos.scores \in ScoreSet /\ pos.men \in Men /\ pos.blocked \in BOOLEAN
    BY DEF FullPosition
  <1>2. GameOK(n) /\ ~Over(n) /\ n.last = NoAction
    BY <1>1, NewGameOK
  <1>3. start = [scores |-> pos.scores, turn |-> pos.turn, dice |-> pos.dice,
                 cube |-> pos.cube, mayDouble |-> pos.mayDouble,
                 cubeTurned |-> pos.cubeTurned, resigned |-> pos.resigned,
                 score |-> pos.score]
    BY DEF ResetPosition
  <1>4. c = [games |-> <<g>>, men |-> pos.men, blocked |-> pos.blocked]
    BY DEF Continued
  <1> HIDE DEF start, n, c
  <1>5. start \in PositionSet /\ start.scores = pos.scores /\ start.score = pos.score
    BY <1>3 DEF PositionSet, FullPosition
  <1>6. g \in GameSet /\ g.position = start /\ g.score = n.score /\ g.last = NoAction
    BY <1>2, <1>5 DEF GameSet, GameOK
  <1>7. GameOK(g) /\ ~Over(g)
    <2>1. NoAction.kind # "resign"
      BY DEF NoAction
    <2> QED BY <1>2, <1>6, <2>1 DEF GameOK, Over, Signed
  <1> HIDE DEF g
  <1>8. c.games = <<g>> /\ Len(c.games) = 1 /\ c.games # <<>> /\ Cur(c) = g
        /\ c.games \in Seq(GameSet)
    BY <1>4, <1>6 DEF Cur
  <1>9. MatchOK(c)
    BY <1>1, <1>4, <1>7, <1>8 DEF MatchOK
  <1>10. Sum(c) = pos.scores
    BY <1>5, <1>6, <1>8 DEF Sum
  <1>11. pos.score = 0 => Honest(c)
    BY <1>5, <1>6, <1>8 DEF Honest
  <1> QED BY <1>8, <1>9, <1>10, <1>11 DEF c

LEMMA SetupOK ==
  ASSUME NEW pos \in FullPosition
  PROVE  MatchOK(ReadSetup(pos)) /\ Honest(ReadSetup(pos))
  <1> DEFINE turned == pos.cubeTurned # None
             turn == IF ~turned THEN pos.turn ELSE IF pos.cube > 1
                     THEN pos.cubeTurned ELSE None
             cubeTurned == IF pos.cube > 1 THEN pos.cubeTurned ELSE None
             kept == [pos EXCEPT !.resigned = 0, !.score = 0, !.turn = turn,
                                 !.cubeTurned = cubeTurned]
             crawford == /\ \E s \in Sides : pos.scores[s] + 1 = Length
                         /\ pos.cube = 1 /\ ~\E s \in Sides : pos.mayDouble[s]
             f == Continued(kept)
             g == [f.games[1] EXCEPT !.crawford = crawford]
             r == [f EXCEPT !.games[1].crawford = crawford]
  <1>1. ReadSetup(pos) = r
    BY DEF ReadSetup, FullPosition
  <1>2. turn \in Sides \cup {None} /\ cubeTurned \in Sides \cup {None} /\ crawford \in BOOLEAN
    BY DEF FullPosition
  <1> HIDE DEF turn, cubeTurned, crawford
  <1>3. kept \in FullPosition /\ kept.score = 0
    <2> DEFINE zero == 0
               settled == [pos EXCEPT !.resigned = zero, !.score = zero]
    <2>1. zero = 0 /\ zero \in Int
      OBVIOUS
    <2>2. kept = [settled EXCEPT !.turn = turn, !.cubeTurned = cubeTurned]
      OBVIOUS
    <2> HIDE DEF zero, kept
    <2>3. settled \in FullPosition /\ settled.score = zero
      BY <2>1 DEF FullPosition
    <2> HIDE DEF settled
    <2> QED BY <1>2, <2>1, <2>2, <2>3 DEF FullPosition
  <1> HIDE DEF kept
  <1>4. MatchOK(f) /\ Len(f.games) = 1 /\ Honest(f) /\ f.games # <<>>
    BY <1>3, ContinuedOK
  <1> HIDE DEF f
  <1>5. /\ f.games \in Seq(GameSet) /\ Cur(f) = f.games[1] /\ GameOK(f.games[1])
        /\ f.men \in Men /\ f.blocked \in BOOLEAN
        /\ f = [games |-> f.games, men |-> f.men, blocked |-> f.blocked]
    BY <1>4 DEF MatchOK, Cur
  <1>6. /\ g \in GameSet /\ g.position = f.games[1].position
        /\ g.score = f.games[1].score /\ g.last = f.games[1].last
    BY <1>2, <1>5 DEF GameOK, GameSet
  <1> DEFINE new == [f.games EXCEPT ![1] = g]
  <1>7. r = [f EXCEPT !.games = new]
    BY <1>5
  <1> HIDE DEF g, r
  <1>8. new \in Seq(GameSet) /\ Len(new) = 1 /\ new[1] = g
    BY <1>4, <1>5, <1>6
  <1> HIDE DEF new
  <1>9. r.games = new /\ r.men = f.men /\ r.blocked = f.blocked /\ Cur(r) = g
        /\ r = [games |-> new, men |-> f.men, blocked |-> f.blocked]
    BY <1>5, <1>7, <1>8 DEF Cur
  <1>10. GameOK(g)
    BY <1>5, <1>6 DEF GameOK, Signed, Over
  <1>11. new # <<>>
    BY <1>8
  <1>12. MatchOK(r)
    BY <1>5, <1>8, <1>9, <1>10, <1>11 DEF MatchOK
  <1>13. Honest(r)
    BY <1>4, <1>5, <1>6, <1>9 DEF Honest, Over
  <1> QED BY <1>1, <1>12, <1>13

LEMMA RestartOK ==
  ASSUME NEW pos \in FullPosition
  PROVE  LET r == Restart(pos) IN
         /\ Good(r) /\ r.match.games # <<>> /\ Sum(r.match) = pos.scores
         /\ pos.score = 0 => Honest(r.match)
  <1>1. /\ Restart(pos).match = Continued(pos) /\ Restart(pos).file = ReadSetup(pos)
        /\ Restart(pos).whole = FALSE
    BY DEF Restart, Outcome
  <1>2. Restart(pos) = Outcome(Restart(pos).match, Restart(pos).file, Restart(pos).whole)
    BY <1>1 DEF Restart
  <1> QED BY <1>1, <1>2, ContinuedOK, SetupOK DEF Good, OnlyEmpty

(* The position after the first roll of the next game of a match. *)
FirstRoll(m, pos) ==
  /\ pos.scores = Sum(m) /\ pos.turn \in Sides /\ pos.dice /\ pos.cube = 1
  /\ pos.cubeTurned = None /\ pos.resigned = 0 /\ pos.score = 0 /\ pos.men = <<>>

(* What is recorded is well formed and has the scores of the position. *)
Records(o, pos) ==
  /\ Good(o)
  /\ o.match.games # <<>> => Sum(o.match) = pos.scores
  /\ ~Honest(o.match) => OnTable(o.match)

LEMMA FoundAre ==
  ASSUME NEW m, NEW target, NEW plays \in MissingActions(m, target)
  PROVE  LET last == IF Started(m) THEN View(m) ELSE Initial(NoPoints) IN
         \/ last = target /\ plays = <<>>
         \/ /\ last # target /\ Search(last, target).cur = target
            /\ plays = Search(last, target).plays
  BY DEF MissingActions, Missing

LEMMA RecordingsOK ==
  ASSUME NEW out, Good(out), NEW target \in FullPosition,
         ~Honest(out.match) => OnTable(out.match) \/ FirstRoll(out.match, target),
         NEW o \in Recordings(out, target)
  PROVE  Records(o, target)
  <1> DEFINE m == out.match
             last == IF Started(m) THEN View(m) ELSE Initial(NoPoints)
             s == Search(last, target)
  <1>1. PICK plays \in MissingActions(m, target) : o \in RecordAll(out, plays)
    BY DEF Recordings
  <1>2. /\ MatchOK(m) /\ OnlyEmpty(m)
        /\ last \in FullPosition /\ last.scores = Sum(m)
        /\ Honest(m) => Like(last, m)
    BY StartLike DEF Good
  <1>3. \/ last = target /\ plays = <<>>
        \/ last # target /\ s.cur = target /\ plays = s.plays
    BY FoundAre
  <1>4. s \in StateSet /\ Recording(out, s.plays, s.cur)
    BY <1>2, SearchOK
  <1>5. ~Honest(m) => m.games # <<>> /\ last = View(m) /\ last.score # 0 /\ ~Waiting(m)
    BY <1>2, ViewOK DEF Honest, Started, Waiting
  <1> HIDE DEF last, s
  <1>6. CASE last = target /\ plays = <<>> /\ (Honest(m) \/ OnTable(m))
    <2>1. o = out
      BY <1>1, <1>6, RecordNone
    <2> QED BY <1>2, <1>6, <2>1 DEF Records
  <1>7. CASE last # target /\ s.cur = target /\ plays = s.plays /\ Honest(m)
    <2>1. Good(o) /\ Honest(o.match) /\ Like(target, o.match)
      BY <1>1, <1>4, <1>7 DEF Recording
    <2> QED BY <2>1 DEF Records, Like
  <1>8. CASE last # target /\ s.cur = target /\ plays = s.plays /\ ~Honest(m) /\ OnTable(m)
    <2>1. Opens(s, last)
      BY <1>2, <1>5, <1>8, SearchOpens DEF s
    <2>2. Len(plays) > 0 /\ plays[1].kind = "roll"
      BY <1>8, <2>1 DEF Opens
    <2>3. plays \in Seq(PlaySet)
      <3>1. plays \in Seq(FoundSet) /\ FoundSet \subseteq PlaySet
        BY <1>4, <1>8 DEF StateSet, FoundSet
      <3> QED BY <3>1, SeqMonotonic
    <2>4. ~Accepts(m, plays[1])
      <3>1. Next1(m) = Cur(m)
        BY <1>5, <1>8 DEF Next1
      <3>2. SUFFICES ASSUME Accepts(m, plays[1]) PROVE FALSE
        OBVIOUS
      <3>3. CanRoll(Cur(m), plays[1].side)
        BY <1>2, <2>2, <3>1, <3>2, AcceptsNext DEF Allows
      <3> QED BY <1>8, <3>3 DEF CanRoll, OnTable, Sides, White, Black, None
    <2>5. RecordAll(out, plays) = {}
      BY <2>2, <2>3, <2>4, RefusedAtOnce
    <2> QED BY <1>1, <2>5
  <1>9. CASE ~Honest(m) /\ FirstRoll(m, target)
    <2>1. last # target /\ plays = s.plays
      BY <1>3, <1>5, <1>9 DEF FirstRoll
    <2>2. PICK p \in FoundSet : p.kind = "roll" /\ p.side \in Sides /\ plays = <<p>>
      BY <1>2, <1>5, <1>9, <2>1, FirstRollFound DEF FirstRoll, s
    <2>3. RecordAll(out, <<p>>) = NextOf({out}, p)
      <3>1. p \in PlaySet /\ <<>> \in Seq(PlaySet)
        BY DEF FoundSet
      <3>2. RecordAll(out, Append(<<>>, p)) = NextOf(RecordAll(out, <<>>), p)
        BY <3>1, RecordAppend
      <3>3. Append(<<>>, p) = <<p>>
        OBVIOUS
      <3> QED BY <3>2, <3>3, RecordNone
    <2>4. Accepts(m, p) /\ o = Recorded(out, p)
      BY <1>1, <2>2, <2>3 DEF NextOf
    <2>5. Good(o) /\ o.match = Added(m, p)
      BY <2>4, RecordedOK
    <2>6. Cur(o.match) = AddRoll(Next1(m), p.side, p.side) /\ o.match.games # <<>>
      <3>1. p \in PlaySet
        BY DEF FoundSet
      <3> QED BY <1>2, <2>2, <2>4, <2>5, <3>1, AddedOK DEF Played
    <2>7. /\ GameOK(Next1(m)) /\ ~Over(Next1(m)) /\ Next1(m).position.scores = Sum(m)
      BY <1>2, FreshOK
    <2>8. /\ Cur(o.match).position.scores = Sum(m)
          /\ Cur(o.match).position.dice /\ Cur(o.match).position.turn = p.side
      BY <2>2, <2>6, <2>7, RollOK
    <2>9. Sum(o.match) = target.scores
      BY <1>9, <2>6, <2>8 DEF Sum, FirstRoll
    <2> QED BY <2>2, <2>5, <2>8, <2>9 DEF Records, OnTable
  <1>10. last = target => ~FirstRoll(m, target) \/ Honest(m)
    BY <1>5 DEF FirstRoll
  <1> QED BY <1>3, <1>6, <1>7, <1>8, <1>9, <1>10

(* gibbon_match_tracker_update() as a whole. *)
Result(r, pos) ==
  /\ MatchOK(r.match) /\ OnlyEmpty(r.match)
  /\ MatchOK(r.file) /\ Honest(r.file)
  /\ r.whole \in BOOLEAN
  /\ ~Ended(r.match) /\ r.whole => r.file = r.match
  /\ r.match.games # <<>> => Sum(r.match) = pos.scores
  /\ ~Honest(r.match) => pos.score # 0 \/ OnTable(r.match)

LEMMA UpdatedOK ==
  ASSUME NEW out, Good(out), NEW target \in FullPosition,
         ~Honest(out.match) => OnTable(out.match) \/ FirstRoll(out.match, target)
  PROVE  Result(Updated(out, target), target)
  <1> DEFINE again == Restart(target)
  <1>1. Good(again) /\ Result(again, target)
    BY RestartOK DEF Good, Result
  <1>2. ASSUME NEW o \in Recordings(out, target)
        PROVE  Good(o) /\ Result(o, target)
    BY RecordingsOK DEF Records, Good, Result
  <1> HIDE DEF again
  <1>3. ASSUME NEW o, Good(o), Result(o, target) PROVE Result(Closed(o), target)
    <2>1. CASE ~Ended(o.match)
      BY <1>3, <2>1 DEF Closed
    <2>2. CASE Ended(o.match)
      <3>1. /\ Closed(o).match = o.match /\ Closed(o).file = NoFile
            /\ Closed(o).whole = o.whole
        BY <1>3, <2>2 DEF Closed, Good, Outcome
      <3> QED BY <1>3, <2>2, <3>1, EmptyOK DEF Result
    <2> QED BY <2>1, <2>2
  <1>4. CASE MissingActions(out.match, target) # {} /\ Recordings(out, target) = {}
    BY <1>1, <1>4 DEF Updated, again
  <1>5. CASE ~(MissingActions(out.match, target) # {} /\ Recordings(out, target) = {})
    <2> DEFINE o == AnyOf(Recordings(out, target), again)
    <2>1. Updated(out, target) = Closed(o)
      BY <1>5 DEF Updated, again
    <2>2. Good(o) /\ Result(o, target)
      BY <1>1, <1>2 DEF AnyOf
    <2> HIDE DEF o
    <2> QED BY <1>3, <2>1, <2>2
  <1> QED BY <1>4, <1>5

-----------------------------------------------------------------------------
(* The session's own position, line by line. *)
LEMMA AfterWinOK ==
  ASSUME NEW pos \in FullPosition, NEW p \in PlaySet, NEW winner \in Sides, NEW points \in Nat
  PROVE  LET a == AfterWin(pos, p, winner, points) IN
         a \in FullPosition /\ a.scores = Credit(pos.scores, winner, points)
  <1> DEFINE scores == Credit(pos.scores, winner, points)
             paid == [pos EXCEPT !.scores = Credit(@, winner, points)]
             last == p.kind = "move" /\ pos.dice
                     /\ pos.cubeTurned = None /\ pos.resigned = 0
             applied == Applied(paid, winner, p.n)
             moved == [applied EXCEPT !.scores = paid.scores]
             from == IF last THEN moved ELSE paid
             score == winner * points
             a == [from EXCEPT !.dice = FALSE, !.blocked = FALSE, !.score = score]
  <1>1. scores \in ScoreSet
    <2>1. pos.scores \in ScoreSet
      BY DEF FullPosition
    <2> QED BY <2>1, CreditType
  <1>2. score \in Int
    BY DEF Sides, White, Black
  <1> HIDE DEF score
  <1>3. AfterWin(pos, p, winner, points) = a
    BY DEF AfterWin, score
  <1>4. paid = [pos EXCEPT !.scores = scores]
    BY DEF FullPosition
  <1> HIDE DEF scores
  <1>5. paid \in FullPosition /\ paid.scores = scores
    BY <1>1, <1>4 DEF FullPosition
  <1> HIDE DEF paid
  <1>6. p.n \in 0..3
    BY DEF PlaySet
  <1>7. applied \in FullPosition
    BY <1>5, <1>6, AppliedOK
  <1> HIDE DEF applied
  <1>8. moved \in FullPosition /\ moved.scores = scores
    BY <1>1, <1>5, <1>7 DEF FullPosition
  <1> HIDE DEF moved
  <1>9. from \in FullPosition /\ from.scores = scores
    BY <1>5, <1>8
  <1> HIDE DEF from
  <1>10. a \in FullPosition /\ a.scores = scores
    BY <1>2, <1>9 DEF FullPosition
  <1> QED BY <1>3, <1>10 DEF scores

LEMMA AfterDanceOK ==
  ASSUME NEW pos \in FullPosition, NEW side \in Sides, own \in BOOLEAN
  PROVE  LET a == AfterDance(pos, side) IN
         a \in FullPosition /\ a.scores = pos.scores /\ a.score = pos.score
  <1> DEFINE dice == pos.dice /\ ~own
             blocked == pos.blocked /\ ~own
             turn == IF own THEN White ELSE Black
  <1>1. /\ dice \in BOOLEAN /\ blocked \in BOOLEAN /\ turn \in Sides /\ White \in Sides
        /\ turn \in Sides \cup {None} /\ White \in Sides \cup {None}
    BY DEF FullPosition, Sides
  <1>2. CASE side = Black
    <2> DEFINE white == White
               a == [pos EXCEPT !.turn = white, !.dice = dice, !.blocked = blocked]
    <2>1. AfterDance(pos, side) = a
      BY <1>2 DEF AfterDance, FullPosition
    <2>2. white \in Sides \cup {None}
      BY <1>1
    <2> HIDE DEF dice, blocked, white
    <2>3. a \in FullPosition /\ a.scores = pos.scores /\ a.score = pos.score
      BY <1>1, <2>2 DEF FullPosition
    <2> QED BY <2>1, <2>3
  <1>3. CASE side # Black
    <2> DEFINE a == [pos EXCEPT !.turn = turn]
    <2>1. AfterDance(pos, side) = a
      BY <1>3 DEF AfterDance
    <2> HIDE DEF turn
    <2>2. a \in FullPosition /\ a.scores = pos.scores /\ a.score = pos.score
      BY <1>1 DEF FullPosition
    <2> QED BY <2>1, <2>2
  <1> QED BY <1>2, <1>3

LEMMA AfterOfferOK ==
  ASSUME NEW pos \in FullPosition, NEW p \in PlaySet,
         p.kind \in {"double", "take", "resign", "reject"}
  PROVE  LET a == AfterOffer(pos, p) IN
         a \in FullPosition /\ a.scores = pos.scores /\ a.score = pos.score
  <1>1. p.side \in Sides /\ p.n \in 0..3
    BY DEF PlaySet
  <1>2. CASE p.kind = "double"
    <2> DEFINE a == [pos EXCEPT !.cubeTurned = p.side]
    <2>1. AfterOffer(pos, p) = a
      BY <1>2 DEF AfterOffer
    <2>2. a \in FullPosition /\ a.scores = pos.scores /\ a.score = pos.score
      BY <1>1 DEF FullPosition
    <2> QED BY <2>1, <2>2
  <1>3. CASE p.kind = "take"
    <2> DEFINE may == [s \in Sides |-> s = p.side]
               a == [pos EXCEPT !.cubeTurned = None, !.cube = 2 * @, !.mayDouble = may]
    <2>1. AfterOffer(pos, p) = a
      BY <1>3 DEF AfterOffer
    <2>2. may \in [Sides -> BOOLEAN]
      OBVIOUS
    <2>3. pos.cube \in Nat \ {0} /\ 2 * pos.cube \in Nat \ {0}
      BY DEF FullPosition
    <2> HIDE DEF may
    <2>4. a \in FullPosition /\ a.scores = pos.scores /\ a.score = pos.score
      BY <1>1, <2>2, <2>3 DEF FullPosition
    <2> QED BY <2>1, <2>4
  <1>4. CASE p.kind = "resign"
    <2> DEFINE offer == p.side * p.n
               a == [pos EXCEPT !.resigned = offer]
    <2>1. AfterOffer(pos, p) = a
      BY <1>4 DEF AfterOffer
    <2>2. offer \in Int
      BY <1>1 DEF Sides, White, Black
    <2> HIDE DEF offer
    <2>3. a \in FullPosition /\ a.scores = pos.scores /\ a.score = pos.score
      BY <2>2 DEF FullPosition
    <2> QED BY <2>1, <2>3
  <1>5. CASE p.kind = "reject"
    <2> DEFINE zero == 0
               a == [pos EXCEPT !.resigned = zero]
    <2>1. AfterOffer(pos, p) = a
      BY <1>5 DEF AfterOffer
    <2>2. zero \in Int
      OBVIOUS
    <2> HIDE DEF zero
    <2>3. a \in FullPosition /\ a.scores = pos.scores /\ a.score = pos.score
      BY <2>2 DEF FullPosition
    <2> QED BY <2>1, <2>3
  <1> QED BY <1>2, <1>3, <1>4, <1>5

(* A line about a running game, and the match as the server has it then. *)
LEMMA AfterOK ==
  ASSUME MatchOK(server), ~Waiting(server), own \in BOOLEAN,
         NEW p \in PlaySet, Accepts(server, p),
         NEW pos \in FullPosition, pos.scores = Sum(server), pos.score = 0
  PROVE  LET m == Added(server, p)
             a == After(pos, p, Size(M(m.games)!Current.score))
         IN /\ a \in FullPosition /\ a.scores = Sum(m)
            /\ a.score # 0 => Waiting(m)
  <1> DEFINE m == Added(server, p)
             g == Next1(server)
             h == Played(g, p)
             won == Size(h.score)
             a == After(pos, p, won)
  <1>1. GameOK(g) /\ ~Over(g) /\ g.position.scores = pos.scores
    BY FreshOK
  <1>2. Allows(g, p)
    BY AcceptsNext
  <1>3. m.games # <<>> /\ Cur(m) = h
    BY AddedOK
  <1> HIDE DEF m
  <1>4. Sum(m) = h.position.scores /\ (Waiting(m) <=> Over(h)) /\ M(m.games)!Current = h
    BY <1>3, SameWords DEF Sum, Waiting
  <1>5. /\ p.kind \in Kinds /\ p.n \in 0..3
        /\ p.kind # "roll" => p.side \in Sides
    BY DEF PlaySet
  <1>6. g.position.cube \in Nat \ {0}
    BY <1>1 DEF GameOK, GameSet, PositionSet
  <1>7. SUFFICES /\ a \in FullPosition /\ a.scores = h.position.scores
                 /\ a.score # 0 => Over(h)
    BY <1>4 DEF m
  <1>8. CASE p.kind = "roll"
    <2> DEFINE blk == p.blocked
               b == [pos EXCEPT !.dice = TRUE, !.blocked = blk]
    <2>1. a = b
      BY <1>8 DEF After, AfterRoll
    <2>2. blk \in BOOLEAN /\ p.side \in Sides \cup {None}
      BY DEF PlaySet
    <2> HIDE DEF blk
    <2>3. b \in FullPosition /\ b.scores = pos.scores /\ b.score = 0
      BY <2>2 DEF FullPosition
    <2>4. h.position.scores = g.position.scores
      BY <1>1, <1>8, <2>2, RollOK DEF Played
    <2> HIDE DEF a, b, h, g
    <2> QED BY <1>1, <2>1, <2>3, <2>4
  <1>9. CASE p.kind = "move"
    <2>1. h = AddMove(g, p.side, p.n)
      BY <1>9 DEF Played
    <2>2. /\ Over(h) <=> p.n # 0
          /\ h.position.scores = Credit(pos.scores, p.side, p.n * g.position.cube)
          /\ h.score = p.side * (p.n * g.position.cube)
      BY <1>1, <1>5, <1>9, <2>1, MoveOK
    <2>3. a = AfterMove(pos, p, won)
      BY <1>9 DEF After
    <2>4. won = p.n * g.position.cube /\ won \in Nat
      BY <1>5, <1>6, <1>9, <2>2, WonPoints
    <2> HIDE DEF a, h, g, won
    <2>5. CASE p.n # 0
      <3>1. a = AfterWin(pos, p, p.side, won)
        BY <2>3, <2>5 DEF AfterMove
      <3> QED BY <1>5, <1>9, <2>2, <2>4, <2>5, <3>1, AfterWinOK
    <2>6. CASE p.n = 0
      <3>1. h.position.scores = pos.scores
        <4>1. won = 0
          BY <1>6, <2>4, <2>6
        <4> QED BY <1>5, <1>9, <2>2, <2>4, <4>1, CreditType DEF FullPosition
      <3>2. CASE server.blocked
        <4>1. a = AfterDance(pos, p.side)
          BY <2>3, <2>6, <3>2 DEF AfterMove
        <4> QED BY <1>5, <1>9, <3>1, <4>1, AfterDanceOK
      <3>3. CASE ~server.blocked
        <4>1. a = Applied(pos, p.side, 0)
          BY <2>3, <2>6, <3>3 DEF AfterMove
        <4>2. pos.cube \in Nat \ {0} /\ pos.scores \in ScoreSet /\ 0 \in 0..3
          BY DEF FullPosition
        <4>3. 0 * pos.cube = 0 /\ p.side * (0 * pos.cube) = 0
          BY <1>5, <1>9, <4>2, WonPoints
        <4>4. a \in FullPosition /\ a.scores = Credit(pos.scores, p.side, 0) /\ a.score = 0
          <5> DEFINE b == Applied(pos, p.side, 0)
          <5>1. /\ b \in FullPosition
                /\ b.scores = Credit(pos.scores, p.side, 0 * pos.cube)
                /\ b.score = p.side * (0 * pos.cube)
            BY <1>5, <1>9, <4>2, AppliedOK
          <5> HIDE DEF b
          <5>2. b.scores = Credit(pos.scores, p.side, 0) /\ b.score = 0
            BY <4>3, <5>1
          <5> QED BY <4>1, <5>1, <5>2 DEF b
        <4> QED BY <1>5, <1>9, <3>1, <4>2, <4>4, CreditType
      <3> QED BY <3>2, <3>3
    <2> QED BY <2>5, <2>6
  <1>10. CASE p.kind \in {"double", "take", "resign", "reject"}
    <2>1. a = AfterOffer(pos, p)
      BY <1>10 DEF After
    <2>2. a \in FullPosition /\ a.scores = pos.scores /\ a.score = pos.score
      BY <1>10, <2>1, AfterOfferOK
    <2>3. h.position.scores = g.position.scores
      <3>1. CASE p.kind = "double"
        BY <1>1, <1>5, <3>1, DoubleOK DEF Played
      <3>2. CASE p.kind = "take"
        BY <1>1, <1>5, <3>2, TakeOK DEF Played
      <3>3. CASE p.kind = "resign"
        <4>1. p.n * g.position.cube \in Nat \ {0}
          <5>1. p.n = 1 \/ p.n = 2 \/ p.n = 3
            BY <1>5, <3>3 DEF PlaySet
          <5> QED BY <1>6, <5>1
        <4> QED BY <1>1, <1>5, <3>3, <4>1, ResignOK DEF Played
      <3>4. CASE p.kind = "reject"
        BY <1>1, <1>5, <3>4, RejectOK DEF Played
      <3> QED BY <1>10, <3>1, <3>2, <3>3, <3>4
    <2> HIDE DEF a, h, g
    <2> QED BY <1>1, <2>2, <2>3
  <1>11. CASE p.kind = "drop"
    <2> DEFINE turned == IF own /\ p.side = White THEN None ELSE pos.cubeTurned
               b == [pos EXCEPT !.cubeTurned = turned]
    <2>1. h = AddDrop(g, p.side)
      BY <1>11 DEF Played
    <2>2. p.side \in Sides /\ -p.side \in Sides
      BY <1>5, <1>11 DEF Sides, White, Black
    <2>3. /\ Over(h)
          /\ h.position.scores = Credit(pos.scores, -p.side, g.position.cube)
          /\ h.score = -p.side * g.position.cube
      BY <1>1, <2>1, <2>2, DropOK
    <2>4. a = AfterWin(b, p, -p.side, won)
      <3>1. a = AfterConcession(pos, p, won)
        BY <1>11 DEF After
      <3>2. b = [pos EXCEPT !.cubeTurned = IF own /\ p.side = White THEN None ELSE @]
        BY DEF FullPosition
      <3> HIDE DEF a, b, h, g, won
      <3> QED BY <1>11, <3>1, <3>2 DEF AfterConcession
    <2>5. won \in Nat /\ won = g.position.cube
      BY <1>6, <2>2, <2>3 DEF Size, Sides, White, Black
    <2>6. turned \in Sides \cup {None}
      BY DEF FullPosition
    <2> HIDE DEF turned
    <2>7. b \in FullPosition /\ b.scores = pos.scores
      BY <2>6 DEF FullPosition
    <2> HIDE DEF a, b, h, g, won
    <2> QED BY <2>2, <2>3, <2>4, <2>5, <2>7, AfterWinOK
  <1>12. CASE p.kind = "accept"
    <2> DEFINE kept == IF own /\ p.side = White THEN 0 ELSE pos.resigned
               b == [pos EXCEPT !.resigned = kept]
               value == -p.side * g.position.resigned
    <2>1. h = AddAccept(g, p.side) /\ CanAnswerResign(g, p.side)
      BY <1>2, <1>12 DEF Played, Allows
    <2>2. p.side \in Sides
      BY <1>5, <1>12
    <2>3. /\ Over(h) /\ value \in Nat \ {0}
          /\ h.position.scores = Credit(pos.scores, p.side, value)
          /\ h.score = p.side * value
      BY <1>1, <2>1, <2>2, AcceptOK
    <2>4. a = AfterWin(b, p, p.side, won)
      <3>1. a = AfterConcession(pos, p, won)
        BY <1>12 DEF After
      <3>2. b = [pos EXCEPT !.resigned = IF own /\ p.side = White THEN 0 ELSE @]
        BY DEF FullPosition
      <3> HIDE DEF a, b, h, g, won
      <3> QED BY <1>12, <3>1, <3>2 DEF AfterConcession
    <2> HIDE DEF value
    <2>5. won \in Nat /\ won = value
      BY <2>2, <2>3 DEF Size, Sides, White, Black
    <2>6. kept \in Int
      BY DEF FullPosition
    <2> HIDE DEF kept
    <2>7. b \in FullPosition /\ b.scores = pos.scores
      BY <2>6 DEF FullPosition
    <2> HIDE DEF a, b, h, g, won
    <2> QED BY <2>2, <2>3, <2>4, <2>5, <2>7, AfterWinOK
  <1> QED BY <1>5, <1>8, <1>9, <1>10, <1>11, <1>12 DEF Kinds

-----------------------------------------------------------------------------
(* The invariant, action by action. *)
LEMMA UpdateStep ==
  ASSUME NEW m, NEW f, NEW w, Good(Outcome(m, f, w)), NEW pos \in FullPosition,
         ~Honest(m) => OnTable(m) \/ FirstRoll(m, pos),
         Update(m, f, w, pos),
         MatchOK(server'), Honest(server'), OnlyEmpty(server'),
         pos.scores = Sum(server'), pos.score # 0 => Waiting(server'),
         own' \in BOOLEAN, away' \in 0..MaxAway
  PROVE  IInv'
  <1> DEFINE out == Outcome(m, f, w)
             r == Updated(out, pos)
  <1>1. out.match = m
    BY DEF Outcome
  <1>2. Result(r, pos)
    BY <1>1, UpdatedOK
  <1>3. /\ position' = pos /\ match' = r.match /\ file' = r.file /\ whole' = r.whole
        /\ following' = ~Ended(r.match)
    BY DEF Update, Set
  <1> HIDE DEF r
  <1>4. following' \in BOOLEAN
    BY <1>3
  <1>5. Phantom'
    BY <1>2, <1>3 DEF Phantom, Result
  <1> QED BY <1>2, <1>3, <1>4, <1>5 DEF IInv, Result

LEMMA OneMoreOK ==
  ASSUME away \in 0..MaxAway
  PROVE  OneMore \in 0..MaxAway /\ 0 \in 0..MaxAway /\ MaxAway \in 0..MaxAway
  <1>1. MaxAway \in Nat
    BY TrackerAssumption
  <1> QED BY <1>1 DEF OneMore

LEMMA EmptySum ==
  /\ Sum(Empty) = NoPoints /\ NoPoints \in ScoreSet
  /\ Initial(NoPoints) \in FullPosition /\ Initial(NoPoints).scores = NoPoints
  /\ Initial(NoPoints).score = 0
  <1>1. NoPoints \in ScoreSet
    BY DEF NoPoints, ScoreSet
  <1> QED BY <1>1, EmptyOK, InitialFields DEF Sum

LEMMA InitOK ==
  ASSUME Init
  PROVE  IInv
  <1>1. 0 \in 0..MaxAway
    BY TrackerAssumption
  <1>2. /\ server = Empty /\ match = Empty /\ file = NoFile
        /\ own \in BOOLEAN /\ following = FALSE /\ whole = TRUE
        /\ position = Initial(NoPoints) /\ away = 0
    BY DEF Init
  <1>3. {own, following, whole} \subseteq BOOLEAN
    BY <1>2
  <1> QED BY <1>1, <1>2, <1>3, EmptyOK, EmptySum DEF IInv, Phantom

(* The first line of a game shows a board with the dice of the roll. *)
LEMMA ShownFirst ==
  ASSUME NEW s, MatchOK(s), Waiting(s), NEW p \in PlaySet, Accepts(s, p),
         p.kind = "roll", p.side \in Sides
  PROVE  LET a == Added(s, p) IN
         /\ Sum(a) = Sum(s)
         /\ \A m : Sum(m) = Sum(s) => FirstRoll(m, Shown(a))
  <1> DEFINE a == Added(s, p)
             g == Fresh(s)
             h == AddRoll(g, p.side, p.side)
  <1>1. Next1(s) = g
    BY DEF Next1
  <1>2. MatchOK(a) /\ a.games # <<>> /\ Cur(a) = h
    BY <1>1, AddedOK DEF Played
  <1>3. a.men = <<>>
    BY SameWords DEF Added
  <1>4. /\ GameOK(g) /\ ~Over(g) /\ g.position.scores = Sum(s)
        /\ g.position.cube = 1 /\ g.position.cubeTurned = None
    BY FreshOK, NewGameOK DEF Fresh, M!IsCrawford
  <1> HIDE DEF a, g
  <1>5. /\ h.position.scores = Sum(s) /\ h.position.cube = 1
        /\ h.position.cubeTurned = None
        /\ h.position.turn = p.side /\ h.position.dice
    BY <1>4, RollOK
  <1>6. Sum(a) = Sum(s)
    BY <1>2, <1>5 DEF Sum
  <1>7. LET v == Shown(a) IN
        /\ v.scores = Sum(s) /\ v.turn = p.side /\ v.dice /\ v.cube = 1
        /\ v.cubeTurned = None /\ v.resigned = 0 /\ v.score = 0 /\ v.men = <<>>
    BY <1>2, <1>3, <1>5, <1>6, ShownOK
  <1> QED BY <1>6, <1>7 DEF FirstRoll, a

(* Lines that do not start a recording do not change the scores. *)
LEMMA UnannouncedSum ==
  ASSUME MatchOK(server), ~Waiting(server), NEW p \in PlaySet, Accepts(server, p),
         Unannounced(p), p.kind = "move" /\ server.blocked => p.n = 0
  PROVE  Sum(Added(server, p)) = Sum(server)
  <1> DEFINE g == Next1(server)
             a == Added(server, p)
  <1>1. GameOK(g) /\ ~Over(g) /\ g.position.scores = Sum(server)
    BY FreshOK
  <1>2. a.games # <<>> /\ Cur(a) = Played(g, p)
    BY AddedOK
  <1> HIDE DEF a, g
  <1>3. p.side \in Sides /\ p.n \in 0..3
    BY DEF Unannounced, PlaySet
  <1>4. CASE p.kind = "take"
    <2>1. Played(g, p).position.scores = g.position.scores
      BY <1>1, <1>3, <1>4, TakeOK DEF Played
    <2> QED BY <1>1, <1>2, <2>1 DEF Sum, a
  <1>5. CASE p.kind = "move" /\ p.n = 0
    <2>1. /\ Played(g, p) = AddMove(g, p.side, p.n)
          /\ g.position.cube \in Nat \ {0} /\ g.position.scores \in ScoreSet
      BY <1>1, <1>5 DEF Played, GameOK, GameSet, PositionSet
    <2>2. /\ Played(g, p).position.scores
               = Credit(g.position.scores, p.side, p.n * g.position.cube)
          /\ p.n * g.position.cube \in Nat /\ p.n * g.position.cube = 0
      BY <1>1, <1>3, <1>5, <2>1, MoveOK
    <2>3. Played(g, p).position.scores = g.position.scores
      BY <1>3, <2>1, <2>2, CreditType
    <2> QED BY <1>1, <1>2, <2>3 DEF Sum, a
  <1> QED BY <1>4, <1>5 DEF Unannounced

(* The line of an action of the server's match is handled. *)
LEMMA HandleStep ==
  ASSUME IInv, following, NEW p \in PlaySet, p.side \in Sides, Accepts(server, p),
         p.kind = "resign" => ~Waiting(server),
         p.kind = "move" /\ server.blocked => p.n = 0,
         server' = Added(server, p), Handle(p, Added(server, p)),
         own' = own, away' \in 0..MaxAway
  PROVE  IInv'
  <1> DEFINE a == Added(server, p)
             out == Outcome(match, file, whole)
  <1>1. /\ MatchOK(server) /\ Honest(server) /\ OnlyEmpty(server)
        /\ MatchOK(match) /\ OnlyEmpty(match) /\ MatchOK(file) /\ Honest(file)
        /\ own \in BOOLEAN /\ whole \in BOOLEAN
        /\ position \in FullPosition /\ position.scores = Sum(server)
        /\ position.score # 0 => Waiting(server)
        /\ match.games # <<>> => Sum(match) = Sum(server)
        /\ whole => file = match
        /\ ~Honest(match) => Waiting(server) \/ OnTable(match)
    BY DEF IInv, Phantom
  <1>2. MatchOK(a) /\ Honest(a) /\ OnlyEmpty(a) /\ a.games # <<>>
    BY <1>1, AddedOK DEF OnlyEmpty
  <1>3. Good(out)
    BY <1>1 DEF Good, Outcome
  <1>4. CASE Waiting(server)
    <2>1. p.kind = "roll"
      BY <1>1, <1>4, FirstIsRoll
    <2>2. ~Unannounced(p)
      BY <2>1 DEF Unannounced
    <2>3. Update(match, file, whole, Shown(a))
      BY <1>4, <2>2, SameWords DEF Handle
    <2>4. /\ Shown(a) \in FullPosition /\ Shown(a).scores = Sum(a) /\ Shown(a).score = 0
      BY <1>2, ShownOK
    <2>5. ~Honest(match) => FirstRoll(match, Shown(a))
      BY <1>1, <1>4, <2>1, ShownFirst DEF Honest
    <2> HIDE DEF a, out
    <2> QED BY <1>1, <1>2, <1>3, <2>3, <2>4, <2>5, UpdateStep DEF a, out
  <1>5. CASE ~Waiting(server)
    <2> DEFINE pos == After(position, p, Size(M(a.games)!Current.score))
    <2>1. pos \in FullPosition /\ pos.scores = Sum(a) /\ (pos.score # 0 => Waiting(a))
      BY <1>1, <1>5, AfterOK
    <2>2. IF Unannounced(p)
          THEN position' = pos /\ UNCHANGED <<following, match, file, whole>>
          ELSE Update(match, file, whole, pos)
      BY <1>5, SameWords DEF Handle
    <2>3. Unannounced(p) => Sum(a) = Sum(server)
      BY <1>1, <1>5, UnannouncedSum
    <2> HIDE DEF a, pos, out
    <2>4. CASE Unannounced(p)
      <3>1. /\ position' = pos /\ following' = following /\ match' = match
            /\ file' = file /\ whole' = whole /\ server' = a /\ Sum(a) = Sum(server)
        BY <2>2, <2>3, <2>4 DEF a
      <3>2. Phantom'
        BY <1>1, <1>5, <3>1 DEF Phantom
      <3>3. {own', following', whole'} \subseteq BOOLEAN
        BY <1>1, <3>1
      <3> QED BY <1>1, <1>2, <2>1, <3>1, <3>2, <3>3 DEF IInv
    <2>5. CASE ~Unannounced(p)
      <3>1. Update(match, file, whole, pos)
        BY <2>2, <2>5
      <3> QED BY <1>1, <1>2, <1>3, <1>5, <2>1, <3>1, UpdateStep DEF a, out
    <2> QED BY <2>4, <2>5
  <1> QED BY <1>4, <1>5

LEMMA AwayStep ==
  ASSUME IInv, Away, MatchOK(server'), Honest(server'), OnlyEmpty(server'),
         own' = own, away' \in 0..MaxAway
  PROVE  IInv'
  <1>1. /\ following' = FALSE /\ match' = Empty /\ position' = Initial(NoPoints)
        /\ file' = file /\ whole' = whole
    BY DEF Away
  <1>2. {own', following', whole'} \subseteq BOOLEAN
    BY <1>1 DEF IInv
  <1> QED BY <1>1, <1>2, EmptyOK, EmptySum DEF IInv, Phantom

LEMMA ActStep ==
  ASSUME IInv, NEW p \in PlaySet, p.side \in Sides,
         p.kind = "resign" => ~Waiting(server),
         p.kind = "move" /\ server.blocked => p.n = 0,
         Act(p)
  PROVE  IInv'
  <1>1. MatchOK(server) /\ Honest(server) /\ away \in 0..MaxAway
    BY DEF IInv
  <1>2. Accepts(server, p) /\ server' = Added(server, p) /\ own' = own
    BY DEF Act
  <1>3. MatchOK(server') /\ Honest(server') /\ OnlyEmpty(server')
    BY <1>1, <1>2, AddedOK DEF OnlyEmpty
  <1>4. OneMore \in 0..MaxAway /\ 0 \in 0..MaxAway
    BY <1>1, OneMoreOK
  <1>5. CASE following /\ Handle(p, Added(server, p))
             /\ away' = IF Unannounced(p) THEN OneMore ELSE 0
    BY <1>2, <1>4, <1>5, HandleStep
  <1>6. CASE following /\ Away /\ away' = OneMore
    BY <1>2, <1>3, <1>4, <1>6, AwayStep
  <1>7. CASE ~following /\ UNCHANGED <<following, position, match, file, whole>>
             /\ away' = OneMore
    BY <1>2, <1>3, <1>4, <1>7 DEF IInv, Phantom
  <1> QED BY <1>5, <1>6, <1>7 DEF Act

LEMMA RematchStep ==
  ASSUME IInv, Rematch
  PROVE  IInv'
  <1>1. MaxAway \in 0..MaxAway
    BY OneMoreOK DEF IInv
  <1> QED BY <1>1, EmptyOK DEF IInv, Phantom, Rematch

LEMMA NowPlayingStep ==
  ASSUME IInv, NowPlaying
  PROVE  IInv'
  <1>1. 0 \in 0..MaxAway
    BY OneMoreOK DEF IInv
  <1>2. /\ following' = TRUE /\ position' = Initial(NoPoints) /\ match' = Empty
        /\ file' = Empty /\ whole' = TRUE /\ away' = 0
        /\ server' = server /\ own' = own /\ server.games = <<>>
    BY DEF NowPlaying, Started
  <1>3. Sum(server) = NoPoints
    BY <1>2 DEF Sum
  <1>4. {own', following', whole'} \subseteq BOOLEAN
    BY <1>2 DEF IInv
  <1> QED BY <1>1, <1>2, <1>3, <1>4, EmptyOK, EmptySum DEF IInv, Phantom

LEMMA RunningIs ==
  ASSUME Running(server)
  PROVE  server.games # <<>> /\ ~Waiting(server)
  BY SameWords DEF Running, Started, Waiting

LEMMA BoardStep ==
  ASSUME IInv, Board
  PROVE  IInv'
  <1> DEFINE saved == IF Started(file) THEN file ELSE Empty
             m == IF following THEN match ELSE saved
             f == IF following THEN file ELSE saved
             w == (~following /\ ~Started(file)) \/ whole
             out == Outcome(m, f, w)
             pos == Shown(server)
  <1>1. /\ MatchOK(server) /\ Honest(server) /\ OnlyEmpty(server)
        /\ MatchOK(match) /\ OnlyEmpty(match) /\ MatchOK(file) /\ Honest(file)
        /\ own \in BOOLEAN /\ following \in BOOLEAN /\ whole \in BOOLEAN
        /\ following /\ whole => file = match
        /\ following /\ ~Honest(match) => Waiting(server) \/ OnTable(match)
    BY DEF IInv, Phantom
  <1>2. Update(m, f, w, pos) /\ server' = server /\ own' = own /\ away' = 0
    BY DEF Board
  <1>3. server.games # <<>> /\ ~Waiting(server)
    BY RunningIs DEF Board
  <1>4. 0 \in 0..MaxAway
    BY OneMoreOK DEF IInv
  <1>5. pos \in FullPosition /\ pos.scores = Sum(server) /\ pos.score = 0
    BY <1>1, <1>3, ShownOK
  <1>6. MatchOK(saved) /\ Honest(saved) /\ OnlyEmpty(saved)
    BY <1>1, EmptyOK DEF Started, OnlyEmpty
  <1> HIDE DEF saved, pos
  <1>7. Good(out) /\ (~Honest(m) => OnTable(m))
    <2>1. CASE following
      <3>1. m = match /\ f = file /\ w = whole
        BY <1>1, <2>1
      <3> HIDE DEF m, f, w
      <3>2. /\ MatchOK(m) /\ OnlyEmpty(m) /\ MatchOK(f) /\ Honest(f)
            /\ w \in BOOLEAN /\ (w => f = m) /\ (~Honest(m) => OnTable(m))
        BY <1>1, <1>3, <2>1, <3>1
      <3> QED BY <3>2 DEF Good, Outcome
    <2>2. CASE ~following
      <3>1. m = saved /\ f = saved /\ w \in BOOLEAN
        BY <2>2
      <3> HIDE DEF m, f, w
      <3> QED BY <1>6, <3>1 DEF Good, Outcome
    <2> QED BY <2>1, <2>2
  <1> HIDE DEF m, f, w
  <1> QED BY <1>1, <1>2, <1>4, <1>5, <1>7, UpdateStep

LEMMA LeaveStep ==
  ASSUME IInv, Leave
  PROVE  IInv'
  BY AwayStep DEF IInv, Leave

LEMMA NextOK ==
  ASSUME IInv, Next
  PROVE  IInv'
  <1>1. ASSUME NEW s \in Sides, NEW b \in BOOLEAN, Roll(s, b) PROVE IInv'
    <2> DEFINE p == [Play("roll", s) EXCEPT !.blocked = b]
    <2>1. p \in PlaySet /\ p.side \in Sides /\ p.kind = "roll"
      BY DEF Play, PlaySet, Kinds
    <2>2. Act(p)
      BY <1>1 DEF Roll
    <2> HIDE DEF p
    <2> QED BY <2>1, <2>2, ActStep
  <1>2. ASSUME NEW s \in Sides, Move(s) PROVE IInv'
    <2> DEFINE p == Play("move", s)
    <2>1. p \in PlaySet /\ p.side \in Sides /\ p.kind = "move" /\ p.n = 0
      BY DEF Play, PlaySet, Kinds
    <2>2. Act(p)
      BY <1>2 DEF Move
    <2> HIDE DEF p
    <2> QED BY <2>1, <2>2, ActStep
  <1>3. ASSUME NEW s \in Sides, Double(s) PROVE IInv'
    <2> DEFINE p == Play("double", s)
    <2>1. p \in PlaySet /\ p.side \in Sides /\ p.kind = "double"
      BY DEF Play, PlaySet, Kinds
    <2>2. Act(p)
      BY <1>3 DEF Double
    <2> HIDE DEF p
    <2> QED BY <2>1, <2>2, ActStep
  <1>4. ASSUME NEW s \in Sides, NEW n \in Values, BearOff(s, n) PROVE IInv'
    <2> DEFINE p == [Play("move", s) EXCEPT !.n = n]
    <2>1. n \in 0..3
      <3>1. Values \subseteq 1..3
        BY TrackerAssumption
      <3> QED BY <3>1
    <2>2. p \in PlaySet /\ p.side \in Sides /\ p.kind = "move"
      BY <2>1 DEF Play, PlaySet, Kinds
    <2>3. Act(p) /\ ~server.blocked
      BY <1>4 DEF BearOff
    <2> HIDE DEF p
    <2> QED BY <2>2, <2>3, ActStep
  <1>5. ASSUME NEW s \in Sides, NEW n \in Values, Resign(s, n) PROVE IInv'
    <2> DEFINE p == [Play("resign", s) EXCEPT !.n = n]
    <2>1. n \in 0..3 /\ n > 0
      <3>1. Values \subseteq 1..3
        BY TrackerAssumption
      <3> QED BY <3>1
    <2>2. p \in PlaySet /\ p.side \in Sides /\ p.kind = "resign"
      BY <2>1 DEF Play, PlaySet, Kinds
    <2>3. Act(p) /\ ~Waiting(server)
      BY <1>5, RunningIs DEF Resign
    <2> HIDE DEF p
    <2> QED BY <2>2, <2>3, ActStep
  <1>6. ASSUME NEW s \in Sides, NEW kind \in {"take", "drop", "accept", "reject"},
               Answer(s, kind)
        PROVE  IInv'
    <2> DEFINE p == Play(kind, s)
    <2>1. p \in PlaySet /\ p.side \in Sides /\ p.kind = kind
      BY DEF Play, PlaySet, Kinds
    <2>2. Act(p)
      BY <1>6 DEF Answer
    <2> HIDE DEF p
    <2> QED BY <2>1, <2>2, ActStep
  <1> QED BY <1>1, <1>2, <1>3, <1>4, <1>5, <1>6, RematchStep, NowPlayingStep, BoardStep,
             LeaveStep DEF Next

(***************************************************************************)
(* The invariant holds however long the match, whatever the stakes and     *)
(* however much of it is missed.                                           *)
(***************************************************************************)
THEOREM AlwaysTracked == Spec => []IInv
  <1>1. Init => IInv
    BY InitOK
  <1>2. IInv /\ [Next]_vars => IInv'
    <2>1. SUFFICES ASSUME IInv, [Next]_vars PROVE IInv'
      OBVIOUS
    <2>2. CASE Next
      BY <2>1, <2>2, NextOK
    <2>3. CASE UNCHANGED vars
      BY <2>1, <2>3 DEF IInv, Phantom, vars
    <2> QED BY <2>1, <2>2, <2>3
  <1> QED BY <1>1, <1>2, PTL DEF Spec

(***************************************************************************)
(* The match that is played, the match that is recorded and the file are   *)
(* matches, and the session's position is a position, in every state       *)
(* (gibbon_match_tracker_update(), gibbon_session_handle_board() and the   *)
(* other handlers of gibbon-session.c).                                    *)
(***************************************************************************)
THEOREM AlwaysTypeOK == Spec => []TypeOK
  <1>1. IInv => TypeOK
    BY TypesAgree DEF IInv, TypeOK, MatchSet, MatchOK, FullPosition, ScoreSet
  <1> QED BY <1>1, AlwaysTracked, PTL

(***************************************************************************)
(* Whatever was missed, misunderstood or started over, the match that is   *)
(* recorded has the scores of the match that is played: the search of      *)
(* gibbon_match_get_missing_actions() counts the points as gibbon-game.c   *)
(* does when it is given the actions that were found.                      *)
(***************************************************************************)
THEOREM ScoresAlwaysFollow == Spec => []ScoresFollow
  <1>1. IInv => ScoresFollow
    BY SameWords DEF IInv, ScoresFollow, Started
  <1> QED BY <1>1, AlwaysTracked, PTL

(***************************************************************************)
(* A complete record can be continued from its file at any time: reading   *)
(* it gives the match in memory, because every action that was added to    *)
(* the match was written, after a line for its game, and is accepted by    *)
(* the reader (gibbon_match_tracker_update(), gibbon-gmd-writer.c).        *)
(***************************************************************************)
THEOREM FileIsAlwaysMatch == Spec => []FileIsMatch
  <1>1. IInv => FileIsMatch
    BY DEF IInv, FileIsMatch
  <1> QED BY <1>1, AlwaysTracked, PTL

-----------------------------------------------------------------------------
(***************************************************************************)
(* The moves.  What the tracker calls a move is what                       *)
(* gibbon_position_check_move() reads off two positions: Position.tla, for *)
(* boards and dice of any size.  TLC tells on small boards that the check  *)
(* agrees with the rules; what is proved here is the part of it that       *)
(* everything else leans upon: whether a die can still be used, and that a *)
(* position and its two boards say the same.                               *)
(***************************************************************************)
CONSTANTS Points, Home

P == INSTANCE Position

R == INSTANCE Rules

\* A board as BoardOf() gives it, with any number of checkers.
BoardSet == [0..P!Bar -> Int]

\* What Position.tla assumes of its constants.
Sized == Points \in Nat /\ Home \in Nat \ {0} /\ Points > 2 * Home

LEMMA BarFacts ==
  ASSUME Sized
  PROVE  /\ Points \in Nat /\ Home \in Nat \ {0}
         /\ P!Bar = Points + 1 /\ P!Bar \in Nat
         /\ Points > 2 * Home /\ P!Bar > Home
BY DEF Sized, P!Bar

(***************************************************************************)
(* A set of points that is not empty has a highest one.                    *)
(***************************************************************************)
LEMMA Highest ==
  ASSUME Sized, NEW S \in SUBSET (1..P!Bar), S # {}
  PROVE  \E i \in S : \A j \in S : j <= i
<1> DEFINE T == {P!Bar - i : i \in S}
<1>1. T \subseteq Nat
  BY BarFacts
<1>2. T # {}
  OBVIOUS
<1>3. PICK x \in T : \A y \in T : x <= y
  <2> HIDE DEF T
  <2> QED  BY <1>1, <1>2, LeastNumber
<1>4. PICK i \in S : x = P!Bar - i
  BY <1>3
<1>5. ASSUME NEW j \in S PROVE j <= i
  <2>1. x <= P!Bar - j
    BY <1>3
  <2> QED  BY <2>1, <1>4, BarFacts
<1> QED  BY <1>5

(***************************************************************************)
(* What find_backmost_checker() finds.                                     *)
(***************************************************************************)
LEMMA BackmostFound ==
  ASSUME Sized, NEW b \in BoardSet
  PROVE  \/ /\ P!Backmost(b) \in 1..P!Bar /\ b[P!Backmost(b)] > 0
            /\ \A j \in 1..P!Bar : b[j] > 0 => j <= P!Backmost(b)
         \/ /\ P!Backmost(b) = P!Bar + 1
            /\ \A j \in 1..P!Bar : b[j] <= 0
<1> DEFINE mine == {i \in 1..P!Bar : b[i] > 0}
<1>1. CASE mine = {}
  <2>1. P!Backmost(b) = P!Bar + 1
    BY <1>1 DEF P!Backmost
  <2>2. \A j \in 1..P!Bar : b[j] \in Int /\ ~(b[j] > 0)
    BY <1>1, BarFacts DEF BoardSet
  <2> QED  BY <2>1, <2>2
<1>2. CASE mine # {}
  <2>1. P!Backmost(b) = CHOOSE i \in mine : \A j \in mine : j <= i
    BY <1>2 DEF P!Backmost
  <2>2. \E i \in mine : \A j \in mine : j <= i
    BY <1>2, Highest
  <2>3. P!Backmost(b) \in mine /\ \A j \in mine : j <= P!Backmost(b)
    <3> HIDE DEF mine
    <3> QED  BY <2>1, <2>2
  <2> QED  BY <2>3
<1> QED  BY <1>1, <1>2

(***************************************************************************)
(* gibbon_position_can_move() is right: it says that a die can be used if  *)
(* and only if the rules allow some checker to move by it.  The check of a *)
(* move rests on it wherever dice are left.                                *)
(***************************************************************************)
THEOREM CanMoveByRules ==
  ASSUME Sized, NEW b \in BoardSet, NEW die \in P!Dice
  PROVE  P!CanMove(b, die) <=> \E i \in 1..P!Bar : R!Legal(b, i, die)
<1>1. /\ die \in 1..Home /\ P!Bar \in 1..P!Bar /\ P!Bar > die
      /\ R!Start = P!Bar
  BY BarFacts DEF P!Dice, R!Start, P!Bar
<1>2. \A i \in 0..P!Bar : b[i] \in Int
  BY DEF BoardSet
<1>3. CASE b[P!Bar] > 0
  <2>1. P!CanMove(b, die) <=> b[P!Bar - die] >= -1
    BY <1>3 DEF P!CanMove
  <2>2. R!Legal(b, P!Bar, die) <=> b[P!Bar - die] >= -1
    BY <1>1, <1>3, BarFacts DEF R!Legal
  <2>3. \A i \in 1..P!Bar : R!Legal(b, i, die) => i = P!Bar
    BY <1>1, <1>3 DEF R!Legal
  <2> QED  BY <1>1, <2>1, <2>2, <2>3
<1>4. CASE ~(b[P!Bar] > 0)
  <2> DEFINE Within == \E i \in die + 1 .. Points : b[i] >= 1 /\ b[i - die] >= -1
             Off == P!Backmost(b) <= Home /\ (b[die] >= 1 \/ die > P!Backmost(b))
  <2>1. P!CanMove(b, die) <=> Within \/ Off
    BY <1>4 DEF P!CanMove
  <2>2. ASSUME Within PROVE \E i \in 1..P!Bar : R!Legal(b, i, die)
    <3>1. PICK i \in die + 1 .. Points : b[i] >= 1 /\ b[i - die] >= -1
      BY <2>2
    <3>2. i \in 1..P!Bar /\ i > die
      BY <1>1, BarFacts
    <3>3. b[i] > 0
      BY <3>1, <3>2, <1>2, BarFacts
    <3>4. R!Legal(b, i, die)
      BY <3>1, <3>2, <3>3, <1>1, <1>4, BarFacts DEF R!Legal
    <3> QED  BY <3>2, <3>4
  <2>3. ASSUME Off PROVE \E i \in 1..P!Bar : R!Legal(b, i, die)
    <3>1. /\ P!Backmost(b) \in 1..Home /\ b[P!Backmost(b)] > 0
          /\ \A j \in 1..P!Bar : b[j] > 0 => j <= P!Backmost(b)
      BY <2>3, BackmostFound, BarFacts
    <3>2. \A j \in Home + 1 .. P!Bar : b[j] <= 0
      <4>1. SUFFICES ASSUME NEW j \in Home + 1 .. P!Bar PROVE b[j] <= 0
        OBVIOUS
      <4>2. j \in 1..P!Bar /\ b[j] \in Int /\ ~(j <= P!Backmost(b))
        BY <3>1, <1>2, BarFacts
      <4> QED  BY <4>2, <3>1
    <3>3. CASE b[die] >= 1
      <4>1. die \in 1..P!Bar /\ b[die] \in Int
        BY <1>1, <1>2, BarFacts
      <4>2. R!Legal(b, die, die)
        BY <4>1, <3>2, <3>3, <1>1, <1>4 DEF R!Legal
      <4> QED  BY <4>1, <4>2
    <3>4. CASE die > P!Backmost(b)
      <4>1. P!Backmost(b) \in 1..P!Bar
        BY <3>1, BarFacts
      <4>2. \A j \in P!Backmost(b) + 1 .. Home : b[j] <= 0
        <5>1. SUFFICES ASSUME NEW j \in P!Backmost(b) + 1 .. Home PROVE b[j] <= 0
          OBVIOUS
        <5>2. j \in 1..P!Bar /\ b[j] \in Int /\ ~(j <= P!Backmost(b))
          BY <3>1, <1>2, BarFacts
        <5> QED  BY <5>2, <3>1
      <4>3. R!Legal(b, P!Backmost(b), die)
        <5>1. P!Backmost(b) <= die /\ ~(P!Backmost(b) > die)
          BY <3>1, <3>4, <1>1, BarFacts
        <5> QED  BY <5>1, <4>2, <3>1, <3>2, <1>1, <1>4 DEF R!Legal
      <4> QED  BY <4>1, <4>3
    <3> QED  BY <2>3, <3>3, <3>4
  <2>4. ASSUME NEW i \in 1..P!Bar, R!Legal(b, i, die) PROVE Within \/ Off
    <3>1. /\ b[i] > 0 /\ i # P!Bar /\ i \in 1..Points
          /\ i > die => b[i - die] >= -1
          /\ i <= die => /\ \A j \in Home + 1 .. P!Bar : b[j] <= 0
                         /\ i = die \/ \A j \in i + 1 .. Home : b[j] <= 0
      BY <2>4, <1>1, <1>4, BarFacts DEF R!Legal
    <3>2. b[i] \in Int /\ b[i] >= 1
      BY <3>1, <1>2, BarFacts
    <3>3. CASE i > die
      BY <3>1, <3>2, <3>3, <1>1, BarFacts
    <3>4. CASE i <= die
      <4>1. P!Backmost(b) \in 1..Home
        <5>1. b[P!Backmost(b)] > 0 /\ P!Backmost(b) \in 1..P!Bar
          BY <3>1, <3>2, BackmostFound
        <5>2. P!Backmost(b) \notin Home + 1 .. P!Bar
          BY <5>1, <3>1, <3>4, <1>2, BarFacts
        <5> QED  BY <5>1, <5>2, BarFacts
      <4>2. CASE i = die
        BY <4>1, <4>2, <3>2, BarFacts
      <4>3. CASE i < die
        <5>1. \A j \in i + 1 .. Home : b[j] <= 0
          BY <3>1, <3>4, <4>3, <1>1, BarFacts
        <5>2. b[P!Backmost(b)] > 0 /\ b[P!Backmost(b)] \in Int
          BY <4>1, <3>1, <3>2, <1>2, BackmostFound, BarFacts
        <5>3. P!Backmost(b) \notin i + 1 .. Home
          BY <5>1, <5>2
        <5>4. die > P!Backmost(b)
          BY <5>3, <4>1, <4>3, <1>1, BarFacts
        <5> QED  BY <5>4, <4>1, BarFacts
      <4> QED  BY <3>4, <4>2, <4>3, <1>1, BarFacts
    <3> QED  BY <3>3, <3>4, <1>1, BarFacts
  <2> HIDE DEF Within, Off
  <2> QED  BY <2>1, <2>2, <2>3, <2>4
<1> QED  BY <1>3, <1>4

(***************************************************************************)
(* The normalisation at the start of gibbon_position_check_move() loses    *)
(* nothing: from the board of either side the position can be read off     *)
(* again.  So two positions with the same board are the same, and checking *)
(* a move of Black on her board checks the move on the real one.           *)
(***************************************************************************)
CheckersSet == [points : [1..Points -> Int], bar : [P!Sides -> Nat]]

THEOREM BoardsAreFaithful ==
  ASSUME Sized, NEW pos \in CheckersSet, NEW s \in P!Sides
  PROVE  /\ P!BoardOf(pos, s) \in BoardSet
         /\ P!PositionOf(P!BoardOf(pos, s), s) = pos
<1> DEFINE b == P!BoardOf(pos, s)
           p2 == P!PositionOf(b, s)
<1>1. /\ pos = [points |-> pos.points, bar |-> pos.bar]
      /\ pos.points \in [1..Points -> Int] /\ pos.bar \in [P!Sides -> Nat]
  BY DEF CheckersSet
<1>2. /\ s \in {1, -1} /\ -s \in P!Sides /\ P!Sides = {1, -1}
  BY DEF P!Sides, P!White, P!Black
<1>3. b[0] = pos.bar[-s] /\ b[P!Bar] = pos.bar[s]
  BY BarFacts DEF P!BoardOf
<1>4. ASSUME NEW i \in 1..Points
      PROVE  b[i] = s * pos.points[IF s = P!White THEN i ELSE P!Bar - i]
  <2>1. i \in 0..P!Bar /\ i # 0 /\ i # P!Bar
    BY BarFacts
  <2> QED  BY <2>1 DEF P!BoardOf
<1>5. ASSUME NEW i \in 1..Points
      PROVE  b[i] = (IF s = P!White THEN pos.points[i] ELSE -pos.points[P!Bar - i])
             /\ P!Bar - i \in 1..Points
  <2>1. P!Bar - i \in 1..Points /\ pos.points[P!Bar - i] \in Int /\ pos.points[i] \in Int
    BY <1>1, BarFacts
  <2> QED  BY <1>4, <1>2, <2>1 DEF P!White
<1>6. b \in BoardSet
  <2>1. ASSUME NEW i \in 0..P!Bar PROVE b[i] \in Int
    <3>1. CASE i \in {0, P!Bar}
      BY <3>1, <1>1, <1>2, <1>3
    <3>2. CASE i \in 1..Points
      <4>1. pos.points[i] \in Int /\ pos.points[P!Bar - i] \in Int
        BY <3>2, <1>1, <1>5
      <4>2. b[i] = pos.points[i] \/ b[i] = -pos.points[P!Bar - i]
        BY <3>2, <1>5
      <4> HIDE DEF b
      <4> QED  BY <4>1, <4>2
    <3> QED  BY <3>1, <3>2, BarFacts
  <2>2. b = [i \in 0..P!Bar |-> b[i]]
    BY DEF P!BoardOf
  <2> HIDE DEF b
  <2> QED  BY <2>1, <2>2 DEF BoardSet
<1>7. p2.bar = pos.bar
  <2>1. p2.bar = [t \in P!Sides |-> IF t = s THEN b[P!Bar] ELSE b[0]]
    BY DEF P!PositionOf
  <2>2. ASSUME NEW t \in P!Sides PROVE p2.bar[t] = pos.bar[t]
    <3>1. t = s \/ t = -s
      BY <1>2
    <3>2. s # -s
      BY <1>2
    <3> QED  BY <2>1, <3>1, <3>2, <1>3
  <2> HIDE DEF p2
  <2> QED  BY <1>1, <2>1, <2>2
<1>8. p2.points = pos.points
  <2>1. p2.points = [p \in 1..Points |-> s * b[IF s = P!White THEN p ELSE P!Bar - p]]
    BY DEF P!PositionOf
  <2>2. ASSUME NEW p \in 1..Points PROVE p2.points[p] = pos.points[p]
    <3>1. P!Bar - p \in 1..Points /\ P!Bar - (P!Bar - p) = p /\ pos.points[p] \in Int
      BY <1>1, BarFacts
    <3>2. CASE s = P!White
      BY <2>1, <3>1, <3>2, <1>5 DEF P!White
    <3>3. CASE s # P!White
      <4>1. b[P!Bar - p] = -pos.points[p]
        BY <3>1, <3>3, <1>5
      <4>2. p2.points[p] = s * b[P!Bar - p] /\ s = -1
        BY <2>1, <3>3, <1>2 DEF P!White
      <4> QED  BY <4>1, <4>2, <3>1
    <3> QED  BY <3>2, <3>3
  <2> HIDE DEF p2
  <2> QED  BY <1>1, <2>1, <2>2
<1>9. p2 = [points |-> p2.points, bar |-> p2.bar]
  BY DEF P!PositionOf
<1>10. p2 = pos
  <2> HIDE DEF b, p2
  <2> QED  BY <1>1, <1>7, <1>8, <1>9
<1> QED  BY <1>6, <1>10


-----------------------------------------------------------------------------
(***************************************************************************)
(* Her checkers: those on the bar and those on the board.                  *)
(***************************************************************************)
Weight(i, x) == IF i = 0 THEN x ELSE IF x < 0 THEN -x ELSE 0

Hers(c) ==
  LET sum[n \in 0..P!Bar] ==
        IF n = 0 THEN Weight(0, c[0]) ELSE sum[n - 1] + Weight(n, c[n])
  IN sum[P!Bar]

IsSum(c, n, f) ==
  f = [i \in 0..n |-> IF i = 0 THEN Weight(0, c[0]) ELSE f[i - 1] + Weight(i, c[i])]

LEMMA SumsExist ==
  ASSUME NEW c, NEW n \in Nat
  PROVE  \E f : IsSum(c, n, f)
<1> DEFINE T == {k \in Nat : ~\E f : IsSum(c, k, f)}
<1>1. SUFFICES ASSUME T # {} PROVE FALSE
  OBVIOUS
<1>2. PICK k \in T : \A y \in T : k <= y
  <2>1. T \in SUBSET Nat
    OBVIOUS
  <2> HIDE DEF T
  <2> QED  BY <1>1, <2>1, LeastNumber
<1>3. k \in Nat /\ ~\E f : IsSum(c, k, f)
  OBVIOUS
<1>4. k # 0
  <2>1. IsSum(c, 0, [i \in 0..0 |-> Weight(0, c[0])])
    BY DEF IsSum
  <2> QED  BY <1>3, <2>1
<1>5. k - 1 \in Nat /\ k - 1 \notin T
  BY <1>2, <1>3, <1>4
<1>6. PICK f : IsSum(c, k - 1, f)
  BY <1>5
<1> DEFINE g == [i \in 0..k |-> IF i = k THEN f[k - 1] + Weight(k, c[k]) ELSE f[i]]
<1>7. ASSUME NEW i \in 0..k
      PROVE  g[i] = IF i = 0 THEN Weight(0, c[0]) ELSE g[i - 1] + Weight(i, c[i])
  <2>1. i # 0 => i - 1 \in 0..k /\ i - 1 # k
    BY <1>3
  <2>2. CASE i = k
    BY <2>1, <2>2, <1>4
  <2>3. CASE i # k
    <3>1. i \in 0..(k - 1) /\ g[i] = f[i]
      BY <1>3, <2>3
    <3>2. i # 0 => g[i - 1] = f[i - 1]
      BY <2>1
    <3>3. f[i] = IF i = 0 THEN Weight(0, c[0]) ELSE f[i - 1] + Weight(i, c[i])
      BY <1>6, <3>1 DEF IsSum
    <3> QED  BY <3>1, <3>2, <3>3
  <2> QED  BY <2>2, <2>3
<1>8. IsSum(c, k, g)
  <2>1. g = [i \in 0..k |-> g[i]]
    OBVIOUS
  <2> HIDE DEF g
  <2>2. [i \in 0..k |-> g[i]]
          = [i \in 0..k |-> IF i = 0 THEN Weight(0, c[0]) ELSE g[i - 1] + Weight(i, c[i])]
    BY <1>7
  <2> QED  BY <2>1, <2>2 DEF IsSum
<1> QED  BY <1>3, <1>8

LEMMA HersIsSum ==
  ASSUME Sized, NEW c
  PROVE  \E f : IsSum(c, P!Bar, f) /\ Hers(c) = f[P!Bar]
<1> DEFINE f == CHOOSE g : IsSum(c, P!Bar, g)
<1>1. IsSum(c, P!Bar, f)
  BY SumsExist, BarFacts
<1>2. Hers(c) = f[P!Bar]
  BY DEF Hers, IsSum
<1> QED  BY <1>1, <1>2

(***************************************************************************)
(* Changing one place changes the number by what is changed there.         *)
(***************************************************************************)
LEMMA HersChange ==
  ASSUME Sized, NEW c \in BoardSet, NEW d \in BoardSet, NEW k \in 0..P!Bar,
         \A i \in 0..P!Bar : i # k => d[i] = c[i]
  PROVE  /\ Hers(c) \in Int
         /\ Hers(d) = Hers(c) + Weight(k, d[k]) - Weight(k, c[k])
<1>1. PICK f : IsSum(c, P!Bar, f) /\ Hers(c) = f[P!Bar]
  BY HersIsSum
<1>2. PICK g : IsSum(d, P!Bar, g) /\ Hers(d) = g[P!Bar]
  BY HersIsSum
<1> DEFINE by == Weight(k, d[k]) - Weight(k, c[k])
           Follows(n) == /\ f[n] \in Int
                         /\ g[n] = f[n] + (IF n >= k THEN by ELSE 0)
           T == {n \in 0..P!Bar : ~Follows(n)}
<1>3. \A i \in 0..P!Bar : Weight(i, c[i]) \in Int /\ Weight(i, d[i]) \in Int
  <2>1. \A i \in 0..P!Bar : c[i] \in Int /\ d[i] \in Int
    BY DEF BoardSet
  <2> QED  BY <2>1 DEF Weight
<1>4. by \in Int
  BY <1>3
<1>5. ASSUME NEW n \in 0..P!Bar
      PROVE  /\ f[n] = IF n = 0 THEN Weight(0, c[0]) ELSE f[n - 1] + Weight(n, c[n])
             /\ g[n] = IF n = 0 THEN Weight(0, d[0]) ELSE g[n - 1] + Weight(n, d[n])
  BY <1>1, <1>2 DEF IsSum
<1>6. ASSUME NEW n \in 0..P!Bar
      PROVE  Weight(n, d[n]) = Weight(n, c[n]) + (IF n = k THEN by ELSE 0)
  <2>1. CASE n = k
    BY <2>1, <1>3
  <2>2. CASE n # k
    BY <2>2, <1>3
  <2> QED  BY <2>1, <2>2
<1> HIDE DEF by
<1>7. T = {}
  <2>1. SUFFICES ASSUME T # {} PROVE FALSE
    OBVIOUS
  <2>2. PICK n \in T : \A y \in T : n <= y
    <3>1. T \in SUBSET Nat
      BY BarFacts
    <3> HIDE DEF T
    <3> QED  BY <2>1, <3>1, LeastNumber
  <2>3. n \in 0..P!Bar /\ ~Follows(n)
    OBVIOUS
  <2>4. CASE n = 0
    <3>1. 0 \in 0..P!Bar
      BY BarFacts
    <3>2. Follows(0)
      BY <3>1, <1>3, <1>4, <1>5, <1>6, BarFacts
    <3> QED  BY <2>3, <2>4, <3>2
  <2>5. CASE n # 0
    <3>1. n - 1 \in 0..P!Bar /\ n - 1 < n
      BY <2>3, <2>5, BarFacts
    <3>2. n - 1 \notin T
      BY <2>2, <3>1, <2>3, BarFacts
    <3>3. Follows(n - 1)
      BY <3>1, <3>2
    <3>4. Follows(n)
      <4>1. f[n] = f[n - 1] + Weight(n, c[n]) /\ g[n] = g[n - 1] + Weight(n, d[n])
        BY <1>5, <2>3, <2>5
      <4>2. Weight(n, c[n]) \in Int
        BY <1>3, <2>3
      <4>3. Weight(n, d[n]) = Weight(n, c[n]) + (IF n = k THEN by ELSE 0)
        BY <1>6, <2>3
      <4> QED  BY <3>3, <4>1, <4>2, <4>3, <1>4, <2>3, <2>5, BarFacts
    <3> QED  BY <2>3, <3>4
  <2> QED  BY <2>4, <2>5
<1>8. P!Bar \in 0..P!Bar /\ P!Bar >= k
  BY BarFacts
<1>9. Follows(P!Bar)
  BY <1>7, <1>8
<1> QED  BY <1>1, <1>2, <1>8, <1>9 DEF by

(***************************************************************************)
(* A movement as gibbon_position_check_move() makes them up.               *)
(***************************************************************************)
Movements == {P!Movement(from, die) : from \in {f \in Int : f <= P!Bar}, die \in P!Dice}

LEMMA MovementFacts ==
  ASSUME Sized, NEW m \in Movements
  PROVE  /\ m.from \in Int /\ m.from <= P!Bar /\ m.to \in 0..Points
         /\ m.from > 0 => m.from \in 1..P!Bar /\ m.to < m.from
<1>1. PICK from \in {f \in Int : f <= P!Bar}, die \in P!Dice : m = P!Movement(from, die)
  BY DEF Movements
<1>2. die \in 1..Home /\ from \in Int /\ from <= P!Bar
  BY DEF P!Dice
<1>3. m.from = from /\ m.to = IF from > die THEN from - die ELSE 0
  BY <1>1 DEF P!Movement
<1> QED  BY <1>2, <1>3, BarFacts

(***************************************************************************)
(* A movement keeps her checkers, except that one that lifts a checker     *)
(* where I have none leaves one of hers.                                   *)
(***************************************************************************)
LEMMA HersPlayed ==
  ASSUME Sized, NEW c \in BoardSet, NEW m \in Movements, m.from > 0,
         m.to > 0 => ~(c[m.to] < -1)
  PROVE  /\ P!Played(c, m) \in BoardSet /\ Hers(c) \in Int
         /\ Hers(P!Played(c, m)) = Hers(c) + (IF c[m.from] > 0 THEN 0 ELSE 1)
<1> DEFINE from == m.from
           to == m.to
           left == [c EXCEPT ![from] = @ - 1]
           land == [left EXCEPT ![to] = IF c[to] = -1 THEN 1 ELSE @ + 1]
           hit == [land EXCEPT ![0] = @ + 1]
<1>1. /\ from \in 1..P!Bar /\ from \in 0..P!Bar /\ from # 0 /\ to < from
      /\ to \in 0..Points /\ to \in 0..P!Bar /\ 0 \in 0..P!Bar /\ to # from
  BY MovementFacts, BarFacts
<1>2. \A i \in 0..P!Bar : c[i] \in Int
  BY DEF BoardSet
<1>3. /\ left \in BoardSet /\ left[from] = c[from] - 1
      /\ \A i \in 0..P!Bar : i # from => left[i] = c[i]
  BY <1>1, <1>2 DEF BoardSet
<1>4. Hers(c) \in Int /\ Hers(left) = Hers(c) + (IF c[from] > 0 THEN 0 ELSE 1)
  <2>1. Hers(c) \in Int
        /\ Hers(left) = Hers(c) + Weight(from, left[from]) - Weight(from, c[from])
    <3> HIDE DEF left, from
    <3> QED  BY <1>1, <1>3, HersChange
  <2>2. Weight(from, left[from]) - Weight(from, c[from]) = IF c[from] > 0 THEN 0 ELSE 1
    <3>1. c[from] \in Int /\ left[from] = c[from] - 1 /\ from # 0
      BY <1>1, <1>2, <1>3
    <3> HIDE DEF left, from
    <3> QED  BY <3>1 DEF Weight
  <2>3. Weight(from, left[from]) \in Int /\ Weight(from, c[from]) \in Int
    <3>1. c[from] \in Int /\ left[from] = c[from] - 1 /\ from # 0
      BY <1>1, <1>2, <1>3
    <3> HIDE DEF left, from
    <3> QED  BY <3>1 DEF Weight
  <2> HIDE DEF left, from
  <2> QED  BY <2>1, <2>2, <2>3
<1>5. CASE to = 0
  <2>1. P!Played(c, m) = left
    BY <1>5 DEF P!Played
  <2> QED  BY <2>1, <1>3, <1>4
<1>6. CASE to # 0
  <2>1. /\ land \in BoardSet /\ land[to] = (IF c[to] = -1 THEN 1 ELSE c[to] + 1)
        /\ \A i \in 0..P!Bar : i # to => land[i] = left[i]
    <3>1. left \in BoardSet /\ left[to] = c[to] /\ c[to] \in Int
      BY <1>1, <1>2, <1>3
    <3> HIDE DEF left
    <3>2. (IF c[to] = -1 THEN 1 ELSE left[to] + 1) \in Int
      BY <3>1
    <3> QED  BY <3>1, <3>2, <1>1 DEF BoardSet
  <2>2. Hers(land) = Hers(left) + (IF c[to] = -1 THEN -1 ELSE 0)
    <3>1. Hers(left) \in Int
          /\ Hers(land) = Hers(left) + Weight(to, land[to]) - Weight(to, left[to])
      <4> HIDE DEF left, land, to
      <4> QED  BY <1>1, <1>3, <2>1, HersChange
    <3>2. c[to] \in Int /\ left[to] = c[to] /\ ~(c[to] < -1)
      BY <1>1, <1>2, <1>3, <1>6
    <3>3. Weight(to, land[to]) = 0 /\ Weight(to, left[to]) = IF c[to] = -1 THEN 1 ELSE 0
      <4> HIDE DEF left, land, to
      <4> QED  BY <3>2, <2>1, <1>6 DEF Weight
    <3> HIDE DEF left, land, to
    <3> QED  BY <3>1, <3>3
  <2>3. CASE c[to] = -1
    <3>1. P!Played(c, m) = hit
      BY <2>3, <1>1, <1>6 DEF P!Played
    <3>2. /\ hit \in BoardSet /\ hit[0] = land[0] + 1 /\ land[0] \in Int
          /\ \A i \in 0..P!Bar : i # 0 => hit[i] = land[i]
      <4> HIDE DEF land
      <4> QED  BY <2>1, <1>1 DEF BoardSet
    <3>3. Hers(land) \in Int /\ Hers(hit) = Hers(land) + Weight(0, hit[0]) - Weight(0, land[0])
      <4> HIDE DEF land, hit
      <4> QED  BY <1>1, <2>1, <3>2, HersChange
    <3>4. Hers(hit) = Hers(land) + 1
      <4> HIDE DEF land, hit
      <4> QED  BY <3>2, <3>3 DEF Weight
    <3> HIDE DEF left, land, hit
    <3> QED  BY <1>4, <2>2, <2>3, <3>1, <3>2, <3>4
  <2>4. CASE c[to] # -1
    <3>1. P!Played(c, m) = land
      BY <2>4, <1>6 DEF P!Played
    <3> HIDE DEF left, land
    <3> QED  BY <1>4, <2>1, <2>2, <2>4, <3>1
  <2> QED  BY <2>3, <2>4
<1> QED  BY <1>5, <1>6

(***************************************************************************)
(* Where a point of the board of a side is in the position.                *)
(***************************************************************************)
Place(s, i) == IF s = P!White THEN i ELSE P!Bar - i

LEMMA PlaceFacts ==
  ASSUME Sized, NEW s \in P!Sides
  PROVE  /\ Place(s, P!Bar) = P!BarOf(s) /\ Place(s, 0) = P!Bar - P!BarOf(s)
         /\ \A i \in 0..P!Bar : /\ Place(s, i) \in 0..P!Bar
                                /\ Place(s, Place(s, i)) = i
                                /\ Place(s, i) = P!BarOf(s) <=> i = P!Bar
                                /\ Place(s, i) = P!Bar - P!BarOf(s) <=> i = 0
         /\ \A i \in 1..Points : Place(s, i) \in 1..Points
BY BarFacts DEF Place, P!BarOf, P!Sides, P!White, P!Black

LEMMA PositionOfFields ==
  ASSUME Sized, NEW s \in P!Sides, NEW c \in BoardSet
  PROVE  LET p == P!PositionOf(c, s) IN
         /\ p = [points |-> p.points, bar |-> p.bar]
         /\ p.points \in [1..Points -> Int] /\ p.bar \in [P!Sides -> Int]
         /\ p.bar[s] = c[P!Bar] /\ p.bar[-s] = c[0]
         /\ \A i \in 1..Points : p.points[Place(s, i)] = s * c[i]
<1> DEFINE p == P!PositionOf(c, s)
<1>1. p = [points |-> [x \in 1..Points |-> s * c[Place(s, x)]],
           bar |-> [t \in P!Sides |-> IF t = s THEN c[P!Bar] ELSE c[0]]]
  BY DEF P!PositionOf, Place
<1>2. /\ \A i \in 0..P!Bar : c[i] \in Int
      /\ s \in {1, -1} /\ -s \in P!Sides /\ P!Sides = {1, -1} /\ s # -s
  BY DEF BoardSet, P!Sides, P!White, P!Black
<1>3. p.points = [x \in 1..Points |-> s * c[Place(s, x)]]
      /\ p.bar = [t \in P!Sides |-> IF t = s THEN c[P!Bar] ELSE c[0]]
  BY <1>1
<1>4. p.points \in [1..Points -> Int]
  <2>1. ASSUME NEW x \in 1..Points PROVE s * c[Place(s, x)] \in Int
    <3>1. Place(s, x) \in 1..Points
      BY PlaceFacts
    <3>2. c[Place(s, x)] \in Int
      BY <3>1, <1>2, BarFacts
    <3> QED  BY <3>2, <1>2
  <2> QED  BY <2>1, <1>3
<1>5. p.bar \in [P!Sides -> Int] /\ p.bar[s] = c[P!Bar] /\ p.bar[-s] = c[0]
  <2>1. c[P!Bar] \in Int /\ c[0] \in Int
    BY <1>2, BarFacts
  <2> QED  BY <2>1, <1>2, <1>3
<1>6. ASSUME NEW i \in 1..Points PROVE p.points[Place(s, i)] = s * c[i]
  <2>1. Place(s, i) \in 1..Points /\ Place(s, Place(s, i)) = i
    BY PlaceFacts, BarFacts
  <2> QED  BY <2>1, <1>3
<1> QED  BY <1>1, <1>3, <1>4, <1>5, <1>6

(***************************************************************************)
(* Two positions with the same boards are the same.                        *)
(***************************************************************************)
LEMMA SamePlaces ==
  ASSUME Sized, NEW s \in P!Sides,
         NEW pts1 \in [1..Points -> Int], NEW pts2 \in [1..Points -> Int],
         \A i \in 1..Points : pts1[Place(s, i)] = pts2[Place(s, i)]
  PROVE  pts1 = pts2
<1>1. ASSUME NEW x \in 1..Points PROVE pts1[x] = pts2[x]
  <2>1. Place(s, x) \in 1..Points /\ Place(s, Place(s, x)) = x
    BY PlaceFacts, BarFacts
  <2> QED  BY <2>1
<1>2. pts1 = [x \in 1..Points |-> pts1[x]] /\ pts2 = [x \in 1..Points |-> pts2[x]]
  OBVIOUS
<1>3. [x \in 1..Points |-> pts1[x]] = [x \in 1..Points |-> pts2[x]]
  BY <1>1, Zenon
<1> QED  BY <1>2, <1>3

LEMMA SameBars ==
  ASSUME NEW s \in P!Sides, NEW bar1 \in [P!Sides -> Int], NEW bar2 \in [P!Sides -> Int],
         bar1[s] = bar2[s], bar1[-s] = bar2[-s]
  PROVE  bar1 = bar2
<1>1. \A t \in P!Sides : t = s \/ t = -s
  BY DEF P!Sides, P!White, P!Black
<1> QED  BY <1>1

(***************************************************************************)
(* Lifting a checker of mine, and landing where she has no point.          *)
(***************************************************************************)
LEMMA LiftedOK ==
  ASSUME Sized, NEW s \in P!Sides, NEW c \in BoardSet, NEW i \in 1..P!Bar
  PROVE  P!Lifted(P!PositionOf(c, s), Place(s, i), s)
           = P!PositionOf([c EXCEPT ![i] = @ - 1], s)
<1> DEFINE d == [c EXCEPT ![i] = @ - 1]
           p == P!PositionOf(c, s)
           q == P!PositionOf(d, s)
           r == P!Lifted(p, Place(s, i), s)
<1>1. i \in 0..P!Bar /\ i # 0 /\ 0 \in 0..P!Bar /\ P!Bar \in 0..P!Bar
      /\ \A j \in 1..Points : j \in 0..P!Bar /\ j # P!Bar
  BY BarFacts
<1>2. \A j \in 0..P!Bar : c[j] \in Int
  BY DEF BoardSet
<1>3. d \in BoardSet /\ d[i] = c[i] - 1 /\ \A j \in 0..P!Bar : j # i => d[j] = c[j]
  BY <1>1, <1>2 DEF BoardSet
<1>4. /\ p = [points |-> p.points, bar |-> p.bar]
      /\ p.points \in [1..Points -> Int] /\ p.bar \in [P!Sides -> Int]
      /\ p.bar[s] = c[P!Bar] /\ p.bar[-s] = c[0]
      /\ \A j \in 1..Points : p.points[Place(s, j)] = s * c[j]
  BY PositionOfFields
<1>5. /\ q = [points |-> q.points, bar |-> q.bar]
      /\ q.points \in [1..Points -> Int] /\ q.bar \in [P!Sides -> Int]
      /\ q.bar[s] = d[P!Bar] /\ q.bar[-s] = d[0]
      /\ \A j \in 1..Points : q.points[Place(s, j)] = s * d[j]
  <2> HIDE DEF d
  <2> QED  BY <1>3, PositionOfFields
<1>6. s \in {1, -1} /\ -s \in P!Sides /\ s # -s
  BY DEF P!Sides, P!White, P!Black
<1>7. CASE i = P!Bar
  <2>1. Place(s, i) = P!BarOf(s)
    BY <1>7, PlaceFacts
  <2>2. r = [p EXCEPT !.bar[s] = @ - 1]
    BY <2>1 DEF P!Lifted
  <2> DEFINE bar == [p.bar EXCEPT ![s] = @ - 1]
  <2>3. r = [points |-> p.points, bar |-> bar]
    <3> HIDE DEF p
    <3> QED  BY <2>2, <1>4
  <2>4. bar \in [P!Sides -> Int] /\ bar[s] = c[P!Bar] - 1 /\ bar[-s] = c[0]
    <3> HIDE DEF p
    <3> QED  BY <1>1, <1>2, <1>4, <1>6
  <2>5. bar = q.bar
    <3> HIDE DEF bar, q, d
    <3> QED  BY <2>4, <1>1, <1>3, <1>5, <1>7, SameBars
  <2>6. p.points = q.points
    <3>1. \A j \in 1..Points : p.points[Place(s, j)] = q.points[Place(s, j)]
      <4> HIDE DEF p, q, d
      <4> QED  BY <1>1, <1>3, <1>4, <1>5, <1>7
    <3> HIDE DEF p, q, d
    <3> QED  BY <3>1, <1>4, <1>5, SamePlaces
  <2> HIDE DEF p, q, bar, r, d
  <2> QED  BY <2>3, <2>5, <2>6, <1>5 DEF r, q, p, d
<1>8. CASE i # P!Bar
  <2>1. i \in 1..Points /\ Place(s, i) # P!BarOf(s) /\ Place(s, i) \in 1..Points
    BY <1>1, <1>8, PlaceFacts, BarFacts
  <2>2. r = [p EXCEPT !.points[Place(s, i)] = @ - s]
    BY <2>1 DEF P!Lifted
  <2> DEFINE pts == [p.points EXCEPT ![Place(s, i)] = @ - s]
  <2>3. r = [points |-> pts, bar |-> p.bar]
    <3> HIDE DEF p
    <3> QED  BY <2>2, <1>4
  <2>4. /\ pts \in [1..Points -> Int] /\ pts[Place(s, i)] = p.points[Place(s, i)] - s
        /\ \A x \in 1..Points : x # Place(s, i) => pts[x] = p.points[x]
    <3>1. p.points[Place(s, i)] - s \in Int
      <4>1. p.points \in [1..Points -> Int]
        BY <1>4
      <4>2. p.points[Place(s, i)] \in Int
        <5> HIDE DEF p
        <5> QED  BY <2>1, <4>1
      <4>3. s \in Int
        BY <1>6
      <4> HIDE DEF p
      <4> QED  BY <4>2, <4>3
    <3> HIDE DEF p
    <3> QED  BY <2>1, <1>4, <3>1
  <2>5. ASSUME NEW j \in 1..Points PROVE pts[Place(s, j)] = q.points[Place(s, j)]
    <3>1. Place(s, j) \in 1..Points /\ (Place(s, j) = Place(s, i) => j = i)
      BY <2>1, <1>1, PlaceFacts
    <3>2. q.points[Place(s, j)] = s * d[j] /\ p.points[Place(s, j)] = s * c[j]
      BY <1>4, <1>5
    <3>3. c[j] \in Int /\ d[j] = IF j = i THEN c[j] - 1 ELSE c[j]
      BY <1>1, <1>2, <1>3
    <3> HIDE DEF p, q, d, pts
    <3> QED  BY <3>1, <3>2, <3>3, <2>1, <2>4, <1>6
  <2>6. pts = q.points
    <3> HIDE DEF pts, q
    <3> QED  BY <2>4, <2>5, <1>5, SamePlaces
  <2>7. p.bar = q.bar
    <3> HIDE DEF p, q, d
    <3> QED  BY <1>1, <1>3, <1>4, <1>5, <1>8, SameBars
  <2> HIDE DEF p, q, pts, r, d
  <2> QED  BY <2>3, <2>6, <2>7, <1>5 DEF r, q, p, d
<1> QED  BY <1>7, <1>8

LEMMA LandOK ==
  ASSUME Sized, NEW s \in P!Sides, NEW c \in BoardSet, NEW to \in 1..Points,
         ~(c[to] < -1)
  PROVE  P!Land(P!PositionOf(c, s), Place(s, to), s)
           = P!PositionOf(IF c[to] = -1 THEN [c EXCEPT ![to] = 1, ![0] = @ + 1]
                          ELSE [c EXCEPT ![to] = @ + 1], s)
<1> DEFINE at == Place(s, to)
           p == P!PositionOf(c, s)
           r == P!Land(p, at, s)
<1>1. to \in 0..P!Bar /\ to # 0 /\ 0 \in 0..P!Bar /\ P!Bar \in 0..P!Bar /\ P!Bar # to
      /\ P!Bar # 0 /\ \A j \in 1..Points : j \in 0..P!Bar /\ j # P!Bar /\ j # 0
  BY BarFacts
<1>2. \A j \in 0..P!Bar : c[j] \in Int
  BY DEF BoardSet
<1>3. s \in {1, -1} /\ -s \in P!Sides /\ s # -s /\ s \in P!Sides
  BY DEF P!Sides, P!White, P!Black
<1>4. /\ p = [points |-> p.points, bar |-> p.bar]
      /\ p.points \in [1..Points -> Int] /\ p.bar \in [P!Sides -> Int]
      /\ p.bar[s] = c[P!Bar] /\ p.bar[-s] = c[0]
      /\ \A j \in 1..Points : p.points[Place(s, j)] = s * c[j]
  BY PositionOfFields
<1>5. at \in 1..Points /\ p.points[at] = s * c[to]
  <2> HIDE DEF p
  <2> QED  BY <1>4, PlaceFacts
<1>6. ASSUME NEW j \in 1..Points PROVE Place(s, j) \in 1..Points /\ (Place(s, j) = at => j = to)
  BY <1>1, PlaceFacts
<1>7. CASE c[to] = -1
  <2> DEFINE d == [c EXCEPT ![to] = 1, ![0] = @ + 1]
             q == P!PositionOf(d, s)
             pts == [p.points EXCEPT ![at] = s]
             bar == [p.bar EXCEPT ![-s] = @ + 1]
  <2>1. /\ d \in BoardSet /\ d[to] = 1 /\ d[0] = c[0] + 1
        /\ \A j \in 0..P!Bar : j # to /\ j # 0 => d[j] = c[j]
    BY <1>1, <1>2 DEF BoardSet
  <2>2. /\ q = [points |-> q.points, bar |-> q.bar]
        /\ q.points \in [1..Points -> Int] /\ q.bar \in [P!Sides -> Int]
        /\ q.bar[s] = d[P!Bar] /\ q.bar[-s] = d[0]
        /\ \A j \in 1..Points : q.points[Place(s, j)] = s * d[j]
    <3> HIDE DEF d
    <3> QED  BY <2>1, PositionOfFields
  <2>3. r = [p EXCEPT !.points[at] = s, !.bar[-s] = @ + 1]
    <3>1. p.points[at] = -s /\ ~(s * p.points[at] >= 0)
      <4> HIDE DEF p, at
      <4> QED  BY <1>3, <1>5, <1>7
    <3> HIDE DEF p, at
    <3> QED  BY <3>1 DEF P!Land
  <2>4. r = [points |-> pts, bar |-> bar]
    <3> HIDE DEF p, at, r
    <3> QED  BY <2>3, <1>4
  <2>5. /\ pts \in [1..Points -> Int] /\ pts[at] = s
        /\ \A x \in 1..Points : x # at => pts[x] = p.points[x]
    <3>1. s \in Int
      BY <1>3
    <3> HIDE DEF p, at
    <3> QED  BY <1>4, <1>5, <3>1
  <2>6. bar \in [P!Sides -> Int] /\ bar[s] = c[P!Bar] /\ bar[-s] = c[0] + 1
    <3>1. c[0] + 1 \in Int
      BY <1>1, <1>2
    <3> HIDE DEF p
    <3> QED  BY <1>3, <1>4, <3>1
  <2>7. bar = q.bar
    <3> HIDE DEF bar, q, d
    <3> QED  BY <2>1, <2>2, <2>6, <1>1, SameBars
  <2>8. ASSUME NEW j \in 1..Points PROVE pts[Place(s, j)] = q.points[Place(s, j)]
    <3>1. q.points[Place(s, j)] = s * d[j] /\ p.points[Place(s, j)] = s * c[j]
      BY <1>4, <2>2
    <3>2. c[j] \in Int /\ d[j] = IF j = to THEN 1 ELSE c[j]
      BY <1>1, <1>2, <2>1
    <3>3. s * 1 = s
      BY <1>3
    <3> HIDE DEF p, q, d, pts
    <3> QED  BY <3>1, <3>2, <3>3, <2>5, <1>6 DEF at
  <2>9. pts = q.points
    <3> HIDE DEF pts, q
    <3> QED  BY <2>5, <2>8, <2>2, SamePlaces
  <2>10. r = q
    <3> HIDE DEF p, q, pts, r, d, bar, at
    <3> QED  BY <2>2, <2>4, <2>7, <2>9
  <2> QED  BY <2>10, <1>7
<1>8. CASE c[to] # -1
  <2> DEFINE d == [c EXCEPT ![to] = @ + 1]
             q == P!PositionOf(d, s)
             pts == [p.points EXCEPT ![at] = @ + s]
  <2>1. /\ d \in BoardSet /\ d[to] = c[to] + 1
        /\ \A j \in 0..P!Bar : j # to => d[j] = c[j]
    BY <1>1, <1>2 DEF BoardSet
  <2>2. /\ q = [points |-> q.points, bar |-> q.bar]
        /\ q.points \in [1..Points -> Int] /\ q.bar \in [P!Sides -> Int]
        /\ q.bar[s] = d[P!Bar] /\ q.bar[-s] = d[0]
        /\ \A j \in 1..Points : q.points[Place(s, j)] = s * d[j]
    <3> HIDE DEF d
    <3> QED  BY <2>1, PositionOfFields
  <2>3. r = [p EXCEPT !.points[at] = @ + s]
    <3>1. c[to] \in Int /\ c[to] >= 0
      BY <1>1, <1>2, <1>8
    <3>2. s * p.points[at] >= 0
      <4> HIDE DEF p, at
      <4> QED  BY <1>3, <1>5, <3>1
    <3> HIDE DEF p, at
    <3> QED  BY <3>2 DEF P!Land
  <2>4. r = [points |-> pts, bar |-> p.bar]
    <3> HIDE DEF p, at, r
    <3> QED  BY <2>3, <1>4
  <2>5. /\ pts \in [1..Points -> Int] /\ pts[at] = p.points[at] + s
        /\ \A x \in 1..Points : x # at => pts[x] = p.points[x]
    <3>1. p.points \in [1..Points -> Int] /\ at \in 1..Points
      BY <1>4, <1>5
    <3>2. p.points[at] \in Int
      <4> HIDE DEF p, at
      <4> QED  BY <3>1
    <3>3. s \in Int
      BY <1>3
    <3>4. p.points[at] + s \in Int
      <4> HIDE DEF p, at
      <4> QED  BY <3>2, <3>3
    <3> HIDE DEF p, at
    <3> QED  BY <3>1, <3>4
  <2>6. p.bar = q.bar
    <3> HIDE DEF p, q, d
    <3> QED  BY <2>1, <2>2, <1>4, <1>1, SameBars
  <2>7. ASSUME NEW j \in 1..Points PROVE pts[Place(s, j)] = q.points[Place(s, j)]
    <3>1. q.points[Place(s, j)] = s * d[j] /\ p.points[Place(s, j)] = s * c[j]
      BY <1>4, <2>2
    <3>2. c[j] \in Int /\ d[j] = IF j = to THEN c[j] + 1 ELSE c[j]
      BY <1>1, <1>2, <2>1
    <3>3. s * (c[j] + 1) = s * c[j] + s
      <4> HIDE DEF p
      <4> QED  BY <1>3, <3>2
    <3> HIDE DEF p, q, d, pts
    <3> QED  BY <3>1, <3>2, <3>3, <2>5, <1>6 DEF at
  <2>8. pts = q.points
    <3> HIDE DEF pts, q
    <3> QED  BY <2>5, <2>7, <2>2, SamePlaces
  <2>9. r = q
    <3> HIDE DEF p, q, pts, r, d, at
    <3> QED  BY <2>2, <2>4, <2>6, <2>8
  <2> QED  BY <2>9, <1>8
<1> QED  BY <1>7, <1>8

\* The movements of Black are counted from her own side.
Reverse(s) == s = P!Black

(***************************************************************************)
(* A movement that is_diff() can play and that lifts a checker of mine is  *)
(* played by apply_move(), with the same result.                           *)
(***************************************************************************)
LEMMA AppliedLikeDiff ==
  ASSUME Sized, NEW s \in P!Sides, NEW c \in BoardSet, NEW m \in Movements,
         m.from > 0, c[m.from] > 0, m.to > 0 => ~(c[m.to] < -1)
  PROVE  P!ApplyStep(P!PositionOf(c, s), m, s, Reverse(s)) = P!PositionOf(P!Played(c, m), s)
<1> DEFINE from == m.from
           to == m.to
           p == P!PositionOf(c, s)
           left == [c EXCEPT ![from] = @ - 1]
           n == P!Normalized(m, Reverse(s))
           r == P!ApplyStep(p, m, s, Reverse(s))
<1>1. /\ from \in 1..P!Bar /\ from \in 0..P!Bar /\ to \in 0..Points /\ to \in 0..P!Bar
      /\ to # from /\ to # P!Bar /\ 0 \in 0..P!Bar /\ P!Bar \in 0..P!Bar
  BY MovementFacts, BarFacts
<1>2. \A j \in 0..P!Bar : c[j] \in Int
  BY DEF BoardSet
<1>3. s \in {1, -1} /\ -s \in P!Sides /\ s # -s /\ (s = P!Black <=> s # P!White)
  BY DEF P!Sides, P!White, P!Black
<1>4. left \in BoardSet /\ \A j \in 0..P!Bar : j # from => left[j] = c[j]
  BY <1>1, <1>2 DEF BoardSet
<1>5. n.from = Place(s, from) /\ n.to = Place(s, to)
  <2>1. PICK f \in {x \in Int : x <= P!Bar}, die \in P!Dice : m = P!Movement(f, die)
    BY DEF Movements
  <2> QED  BY <2>1, <1>3 DEF Reverse, P!Normalized, P!Movement, Place
<1>6. /\ p = [points |-> p.points, bar |-> p.bar]
      /\ p.points \in [1..Points -> Int] /\ p.bar \in [P!Sides -> Int]
      /\ p.bar[s] = c[P!Bar] /\ p.bar[-s] = c[0]
      /\ \A j \in 1..Points : p.points[Place(s, j)] = s * c[j]
  BY PositionOfFields
<1>7. p # P!Failed
  <2>1. P!Failed.points = <<>>
    BY DEF P!Failed
  <2>2. DOMAIN p.points = 1..Points /\ 1 \in 1..Points
    <3>1. p.points \in [1..Points -> Int] /\ Points \in Nat /\ Points > 0
      BY <1>6, BarFacts
    <3> HIDE DEF p
    <3> QED  BY <3>1
  <2>3. DOMAIN <<>> = {}
    OBVIOUS
  <2> HIDE DEF p
  <2> QED  BY <2>1, <2>2, <2>3
<1>8. /\ n.from \in (1..Points) \cup {P!BarOf(s)}
      /\ n.from = P!BarOf(s) <=> from = P!Bar
      /\ n.to = P!Bar - P!BarOf(s) <=> to = 0
      /\ n.to \in (1..Points) \cup {P!Bar - P!BarOf(s)}
  <2>1. from = P!Bar \/ from \in 1..Points
    BY <1>1, BarFacts
  <2>2. to = 0 \/ to \in 1..Points
    BY <1>1, BarFacts
  <2> HIDE DEF n, from, to
  <2> QED  BY <2>1, <2>2, <1>1, <1>5, PlaceFacts
<1>9. ~(n.from = P!BarOf(s) /\ p.bar[s] = 0)
  <2> HIDE DEF p, n
  <2> QED  BY <1>8, <1>6, <1>1, <1>2
<1>10. ~(n.from # P!BarOf(s) /\ s * p.points[n.from] <= 0)
  <2>1. SUFFICES ASSUME n.from # P!BarOf(s) PROVE ~(s * p.points[n.from] <= 0)
    OBVIOUS
  <2>2. from \in 1..Points
    BY <2>1, <1>8, <1>1, BarFacts
  <2>3. p.points[n.from] = s * c[from] /\ c[from] \in Int /\ c[from] > 0
    <3> HIDE DEF p, n
    <3> QED  BY <2>2, <1>1, <1>2, <1>5, <1>6
  <2>4. s * (s * c[from]) = c[from]
    <3> HIDE DEF p, n, from
    <3> QED  BY <2>3, <1>3
  <2> HIDE DEF p, n, from
  <2> QED  BY <2>3, <2>4
<1>11. r = IF n.to = P!Bar - P!BarOf(s) THEN P!Lifted(p, n.from, s)
           ELSE P!Land(P!Lifted(p, n.from, s), n.to, s)
  <2> HIDE DEF p
  <2> QED  BY <1>7, <1>8, <1>9, <1>10 DEF P!ApplyStep
<1>12. P!Lifted(p, n.from, s) = P!PositionOf(left, s)
  BY <1>1, <1>5, LiftedOK
<1>13. CASE to = 0
  <2>1. P!Played(c, m) = left
    BY <1>13 DEF P!Played
  <2> HIDE DEF p, n, r, left
  <2> QED  BY <2>1, <1>8, <1>11, <1>12, <1>13 DEF r, p
<1>14. CASE to # 0
  <2> DEFINE d == IF left[to] = -1 THEN [left EXCEPT ![to] = 1, ![0] = @ + 1]
                  ELSE [left EXCEPT ![to] = @ + 1]
  <2>1. to \in 1..Points /\ left[to] = c[to] /\ ~(left[to] < -1)
    BY <1>1, <1>4, <1>14
  <2>2. P!Land(P!PositionOf(left, s), Place(s, to), s) = P!PositionOf(d, s)
    <3> HIDE DEF left, to
    <3> QED  BY <2>1, <1>4, LandOK
  <2>3. P!Played(c, m) = d
    BY <2>1, <1>14 DEF P!Played
  <2>4. r = P!Land(P!PositionOf(left, s), Place(s, to), s)
    <3> HIDE DEF p, n, r, left
    <3> QED  BY <1>5, <1>8, <1>11, <1>12, <1>14
  <2> HIDE DEF r, d, left
  <2> QED  BY <2>2, <2>3, <2>4 DEF r, p
<1> QED  BY <1>13, <1>14

-----------------------------------------------------------------------------
(***************************************************************************)
(* Both functions go through the movements one by one: f is what           *)
(* is_diff() has after each of them, g what apply_move() has.              *)
(***************************************************************************)
Runs(b, pos, s, moves, n, f, g) ==
  /\ f = [i \in 0..n |-> IF i = 0 THEN [board |-> b, status |-> "legal"]
                         ELSE P!DiffStep(f[i - 1], moves[i])]
  /\ g = [i \in 0..n |-> IF i = 0 THEN pos
                         ELSE P!ApplyStep(g[i - 1], moves[i], s, Reverse(s))]

LEMMA RunsExist ==
  ASSUME NEW b, NEW pos, NEW s, NEW moves, NEW n \in Nat
  PROVE  \E f, g : Runs(b, pos, s, moves, n, f, g)
<1> DEFINE start == [board |-> b, status |-> "legal"]
           T == {k \in Nat : ~\E f, g : Runs(b, pos, s, moves, k, f, g)}
<1>1. SUFFICES ASSUME T # {} PROVE FALSE
  OBVIOUS
<1>2. PICK k \in T : \A y \in T : k <= y
  <2>1. T \in SUBSET Nat
    OBVIOUS
  <2> HIDE DEF T
  <2> QED  BY <1>1, <2>1, LeastNumber
<1>3. k \in Nat /\ ~\E f, g : Runs(b, pos, s, moves, k, f, g)
  OBVIOUS
<1>4. k # 0
  <2>1. Runs(b, pos, s, moves, 0, [i \in 0..0 |-> start], [i \in 0..0 |-> pos])
    BY DEF Runs
  <2> QED  BY <1>3, <2>1
<1>5. k - 1 \in Nat /\ k - 1 \notin T
  BY <1>2, <1>3, <1>4
<1>6. PICK f, g : Runs(b, pos, s, moves, k - 1, f, g)
  BY <1>5
<1> DEFINE F == [i \in 0..k |-> IF i = k THEN P!DiffStep(f[k - 1], moves[k]) ELSE f[i]]
           G == [i \in 0..k |-> IF i = k THEN P!ApplyStep(g[k - 1], moves[k], s, Reverse(s))
                                ELSE g[i]]
<1>7. ASSUME NEW i \in 0..k
      PROVE  /\ F[i] = IF i = 0 THEN start ELSE P!DiffStep(F[i - 1], moves[i])
             /\ G[i] = IF i = 0 THEN pos
                       ELSE P!ApplyStep(G[i - 1], moves[i], s, Reverse(s))
  <2>1. i # 0 => i - 1 \in 0..k /\ i - 1 # k
    BY <1>3
  <2>2. CASE i = k
    BY <2>1, <2>2, <1>4
  <2>3. CASE i # k
    <3>1. i \in 0..(k - 1) /\ F[i] = f[i] /\ G[i] = g[i]
      BY <1>3, <2>3
    <3>2. i # 0 => F[i - 1] = f[i - 1] /\ G[i - 1] = g[i - 1]
      BY <2>1
    <3>3. /\ f[i] = IF i = 0 THEN start ELSE P!DiffStep(f[i - 1], moves[i])
          /\ g[i] = IF i = 0 THEN pos
                    ELSE P!ApplyStep(g[i - 1], moves[i], s, Reverse(s))
      BY <1>6, <3>1 DEF Runs
    <3> QED  BY <3>1, <3>2, <3>3
  <2> QED  BY <2>2, <2>3
<1>8. Runs(b, pos, s, moves, k, F, G)
  <2>1. F = [i \in 0..k |-> F[i]] /\ G = [i \in 0..k |-> G[i]]
    OBVIOUS
  <2> HIDE DEF F, G
  <2>2. [i \in 0..k |-> F[i]]
          = [i \in 0..k |-> IF i = 0 THEN start ELSE P!DiffStep(F[i - 1], moves[i])]
    BY <1>7
  <2>3. [i \in 0..k |-> G[i]]
          = [i \in 0..k |-> IF i = 0 THEN pos
                            ELSE P!ApplyStep(G[i - 1], moves[i], s, Reverse(s))]
    BY <1>7
  <2> QED  BY <2>1, <2>2, <2>3 DEF Runs
<1> QED  BY <1>3, <1>8

\* What the functions of Position.tla make of it.
Results(b, a, pos, s, moves, n, f, g) ==
  /\ Runs(b, pos, s, moves, n, f, g)
  /\ \/ P!IsDiff(b, a, moves) \in {"no", "blocked"}
     \/ f[n].status = P!IsDiff(b, a, moves) /\ f[n].board = a
  /\ P!ApplyMove(pos, moves, s, Reverse(s)) = g[n]

LEMMA RunsAre ==
  ASSUME NEW b, NEW a, NEW pos, NEW s, NEW moves, NEW n \in Nat, n = Len(moves)
  PROVE  \E f, g : Results(b, a, pos, s, moves, n, f, g)
<1> DEFINE IsF(f) == f = [i \in 0..n |-> IF i = 0 THEN [board |-> b, status |-> "legal"]
                                         ELSE P!DiffStep(f[i - 1], moves[i])]
           IsG(g) == g = [i \in 0..n |-> IF i = 0 THEN pos
                                ELSE P!ApplyStep(g[i - 1], moves[i], s, Reverse(s))]
           f == CHOOSE x : IsF(x)
           g == CHOOSE x : IsG(x)
<1>1. IsF(f) /\ IsG(g)
  <2>1. PICK x, y : Runs(b, pos, s, moves, n, x, y)
    BY RunsExist
  <2>2. IsF(x) /\ IsG(y)
    BY <2>1 DEF Runs
  <2> HIDE DEF IsF, IsG
  <2> QED  BY <2>2
<1>2. Runs(b, pos, s, moves, n, f, g)
  BY <1>1 DEF Runs
<1>3. P!IsDiff(b, a, moves)
        = IF f[n].status = "blocked" \/ f[n].board = a THEN f[n].status ELSE "no"
  BY DEF P!IsDiff
<1>4. P!ApplyMove(pos, moves, s, Reverse(s)) = g[n]
  BY DEF P!ApplyMove
<1> QED  BY <1>2, <1>3, <1>4 DEF Results

(***************************************************************************)
(* As long as her checkers have not become more, both have the same.       *)
(***************************************************************************)
Together(b, s, r, q) ==
  \/ r.status \in {"no", "blocked"}
  \/ /\ r.board \in BoardSet /\ Hers(r.board) \in Int /\ Hers(r.board) >= Hers(b)
     /\ Hers(r.board) = Hers(b) => q = P!PositionOf(r.board, s)

LEMMA StepTogether ==
  ASSUME Sized, NEW b \in BoardSet, Hers(b) \in Int, NEW s \in P!Sides,
         NEW m \in Movements, NEW r, NEW q, Together(b, s, r, q)
  PROVE  Together(b, s, P!DiffStep(r, m), P!ApplyStep(q, m, s, Reverse(s)))
<1> DEFINE c == r.board
           next == P!DiffStep(r, m)
<1>1. CASE r.status \in {"no", "blocked"}
  BY <1>1 DEF P!DiffStep, Together
<1>2. CASE r.status \notin {"no", "blocked"} /\ m.from <= 0
  <2>1. next = [r EXCEPT !.status = "no"]
    BY <1>2 DEF P!DiffStep
  <2> QED  BY <2>1 DEF Together
<1>3. CASE r.status \notin {"no", "blocked"} /\ ~(m.from <= 0) /\ m.to > 0 /\ c[m.to] < -1
  <2>1. next = [r EXCEPT !.status = "blocked"]
    BY <1>3 DEF P!DiffStep
  <2> QED  BY <2>1 DEF Together
<1>4. CASE r.status \notin {"no", "blocked"} /\ ~(m.from <= 0) /\ ~(m.to > 0 /\ c[m.to] < -1)
  <2>1. next.board = P!Played(c, m)
    BY <1>4 DEF P!DiffStep
  <2>2. /\ c \in BoardSet /\ Hers(c) \in Int /\ Hers(c) >= Hers(b)
        /\ Hers(c) = Hers(b) => q = P!PositionOf(c, s)
    BY <1>4 DEF Together
  <2>3. m.from > 0
    BY <1>4, MovementFacts
  <2>4. /\ P!Played(c, m) \in BoardSet
        /\ Hers(P!Played(c, m)) = Hers(c) + (IF c[m.from] > 0 THEN 0 ELSE 1)
    <3> HIDE DEF c
    <3> QED  BY <2>2, <2>3, <1>4, HersPlayed
  <2>5. Hers(P!Played(c, m)) \in Int /\ Hers(P!Played(c, m)) >= Hers(b)
    <3> HIDE DEF c
    <3> QED  BY <2>2, <2>4
  <2>6. ASSUME Hers(P!Played(c, m)) = Hers(b)
        PROVE  P!ApplyStep(q, m, s, Reverse(s)) = P!PositionOf(P!Played(c, m), s)
    <3>1. c[m.from] > 0 /\ Hers(c) = Hers(b)
      <4> HIDE DEF c
      <4> QED  BY <2>2, <2>4, <2>6
    <3>2. q = P!PositionOf(c, s)
      BY <2>2, <3>1
    <3> HIDE DEF c
    <3> QED  BY <2>2, <2>3, <3>1, <3>2, <1>4, AppliedLikeDiff
  <2> HIDE DEF c, next
  <2> QED  BY <2>1, <2>4, <2>5, <2>6 DEF Together, next
<1> QED  BY <1>1, <1>2, <1>3, <1>4

(***************************************************************************)
(* The movements that gibbon_position_is_diff() is content with are the    *)
(* move: gibbon_position_apply_move() plays them on the position before    *)
(* and gives the position after, for either side, whatever is said about   *)
(* bearing off.  What neither function looks at is whether there is a      *)
(* checker to be lifted; that follows from the opponent's checkers, which  *)
(* have not become more.                                                   *)
(***************************************************************************)
THEOREM FoundMovesApply ==
  ASSUME Sized, NEW before \in CheckersSet, NEW after \in CheckersSet,
         NEW s \in P!Sides, NEW moves \in Seq(Movements),
         Hers(P!BoardOf(after, s)) <= Hers(P!BoardOf(before, s)),
         P!IsDiff(P!BoardOf(before, s), P!BoardOf(after, s), moves)
           \notin {"no", "blocked"}
  PROVE  P!ApplyMove(before, moves, s, Reverse(s)) = after
<1> DEFINE b == P!BoardOf(before, s)
           a == P!BoardOf(after, s)
           n == Len(moves)
<1>1. /\ b \in BoardSet /\ P!PositionOf(b, s) = before
      /\ a \in BoardSet /\ P!PositionOf(a, s) = after
  BY BoardsAreFaithful
<1>2. n \in Nat /\ \A i \in 1..n : moves[i] \in Movements
  OBVIOUS
<1>3. PICK f, g : Results(b, a, before, s, moves, n, f, g)
  <2> HIDE DEF b, a
  <2> QED  BY <1>2, RunsAre
<1>4. Hers(b) \in Int
  <2> HIDE DEF b
  <2>1. 0 \in 0..P!Bar
    BY BarFacts
  <2> QED  BY <1>1, <2>1, HersChange
<1> DEFINE T == {i \in 0..n : ~Together(b, s, f[i], g[i])}
<1> HIDE DEF b, a
<1>5. T = {}
  <2>1. SUFFICES ASSUME T # {} PROVE FALSE
    OBVIOUS
  <2>2. PICK i \in T : \A y \in T : i <= y
    <3>1. T \in SUBSET Nat
      OBVIOUS
    <3> HIDE DEF T
    <3> QED  BY <2>1, <3>1, LeastNumber
  <2>3. i \in 0..n /\ ~Together(b, s, f[i], g[i])
    OBVIOUS
  <2>4. /\ f[i] = IF i = 0 THEN [board |-> b, status |-> "legal"]
                  ELSE P!DiffStep(f[i - 1], moves[i])
        /\ g[i] = IF i = 0 THEN before
                  ELSE P!ApplyStep(g[i - 1], moves[i], s, Reverse(s))
    BY <1>3, <2>3 DEF Results, Runs
  <2>5. CASE i = 0
    <3>1. f[i].board = b /\ g[i] = before
      BY <2>4, <2>5
    <3> QED  BY <3>1, <2>3, <1>1, <1>4 DEF Together
  <2>6. CASE i # 0
    <3>1. i - 1 \in 0..n /\ i - 1 < i /\ i \in 1..n
      BY <2>3, <2>6, <1>2
    <3>2. i - 1 \notin T
      BY <2>2, <2>3, <3>1
    <3>3. Together(b, s, f[i - 1], g[i - 1])
      BY <3>1, <3>2
    <3>4. moves[i] \in Movements
      BY <1>2, <3>1
    <3>5. Together(b, s, P!DiffStep(f[i - 1], moves[i]),
                   P!ApplyStep(g[i - 1], moves[i], s, Reverse(s)))
      BY <3>3, <3>4, <1>1, <1>4, StepTogether
    <3> QED  BY <3>5, <2>3, <2>4, <2>6
  <2> QED  BY <2>5, <2>6
<1>6. Together(b, s, f[n], g[n])
  BY <1>2, <1>5
<1>7. f[n].status \notin {"no", "blocked"} /\ f[n].board = a
  <2>1. P!IsDiff(b, a, moves) \notin {"no", "blocked"}
    BY DEF a, b
  <2> QED  BY <1>3, <2>1 DEF Results
<1>8. Hers(a) <= Hers(b)
  BY DEF a, b
<1>9. g[n] = P!PositionOf(a, s)
  BY <1>4, <1>6, <1>7, <1>8 DEF Together
<1> QED  BY <1>1, <1>3, <1>9 DEF Results, a, b
=============================================================================
