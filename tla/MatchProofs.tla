----------------------------- MODULE MatchProofs -----------------------------
(***************************************************************************)
(* Proofs about Match.tla, for matches of every length, any number of      *)
(* games and every value of the cube.                                      *)
(*                                                                         *)
(* The properties of Match.tla are not inductive: nothing in them says, for*)
(* example, that a resignation on offer carries the sign of the player who *)
(* resigned, without which accepting it could make a score negative.       *)
(* Healthy(g) below says what an action of a game relies on and keeps up;  *)
(* Consistent(gs) says it of the current game, and of all the games what   *)
(* links them.  There is a lemma for every function gibbon_game_add_XXX(), *)
(* one for the start of a game, and one for the replacement of the current *)
(* game in the list.                                                       *)
(***************************************************************************)
EXTENDS Match, SequenceTheorems, TLAPS

-----------------------------------------------------------------------------
(* The sign of an offered resignation tells who resigned last.             *)
SignedOffer(g) ==
  /\ g.last.kind = "resign" =>
       \/ g.last.side = White /\ g.position.resigned > 0
       \/ g.last.side = Black /\ g.position.resigned < 0
  /\ g.last.kind = "resign" => ~Over(g)

(* CubeSound(g) in terms of who may double, rather than of the set of them. *)
Cube(g) ==
  LET pos == g.position
      w   == pos.mayDouble[White]
      b   == pos.mayDouble[Black]
  IN /\ g.crawford \/ ~g.rolled => pos.cube = 1 /\ ~w /\ ~b
     /\ g.rolled /\ ~g.crawford => IF pos.cube = 1 THEN w /\ b ELSE ~(w <=> b)
     /\ pos.cubeTurned = White => w
     /\ pos.cubeTurned = Black => b
     /\ pos.cubeTurned # None =>
          pos.cubeTurned = pos.turn /\ ~pos.dice /\ ~Over(g) /\ pos.resigned = 0

Healthy(g) ==
  /\ g \in GameSet
  /\ Paid(g)
  /\ SignedOffer(g)
  /\ Cube(g)
  /\ Over(g) <=> g.position.score # 0

-----------------------------------------------------------------------------
LEMMA CreditType ==
  ASSUME NEW scores \in ScoreSet, NEW s \in Sides, NEW n \in Nat
  PROVE  /\ Credit(scores, s, n) \in ScoreSet
         /\ Credit(scores, s, n)[s] = scores[s] + n
         /\ Credit(scores, s, n)[-s] = scores[-s]
         /\ n = 0 => Credit(scores, s, n) = scores
  BY DEF Credit, ScoreSet, Sides, White, Black

LEMMA SnapshotFields ==
  ASSUME NEW g \in GameSet, NEW kind, NEW side \in Sides \cup {None},
         [kind |-> kind, side |-> side] \in ActionSet,
         NEW pos \in PositionSet, NEW score \in Int
  PROVE  LET h == Snapshot(g, kind, side, pos, score)
         IN /\ h \in GameSet
            /\ h.initial = g.initial /\ h.crawford = g.crawford /\ h.rolled = g.rolled
            /\ h.last = [kind |-> kind, side |-> side]
            /\ h.position = pos
            /\ h.score = score
  BY DEF Snapshot, GameSet, PositionSet, ScoreSet, NoScores, NoAction

LEMMA CubeSoundness ==
  ASSUME NEW g \in GameSet
  PROVE  Cube(g) <=> CubeSound(g)
  <1> USE DEF White, Black, None, Sides
  <1> DEFINE may == {s \in Sides : g.position.mayDouble[s]}
  <1>1. /\ White \in may <=> g.position.mayDouble[White]
        /\ Black \in may <=> g.position.mayDouble[Black]
        /\ may \subseteq {White, Black}
    OBVIOUS
  <1>2. g.position.cubeTurned \in {White, Black, None}
    BY DEF GameSet, PositionSet
  <1> HIDE DEF may
  <1>3. may = {} <=> White \notin may /\ Black \notin may
    BY <1>1
  <1>4. may = Sides <=> White \in may /\ Black \in may
    BY <1>1
  <1>5. (\E s \in Sides : may = {s}) <=> ~(White \in may <=> Black \in may)
    <2>1. White # Black  OBVIOUS
    <2> HIDE DEF White, Black
    <2>2. may = {White} <=> White \in may /\ Black \notin may  BY <1>1, <2>1, Zenon
    <2>3. may = {Black} <=> Black \in may /\ White \notin may  BY <1>1, <2>1, Zenon
    <2> QED BY <2>2, <2>3
  <1> QED BY <1>1, <1>2, <1>3, <1>4, <1>5 DEF Cube, CubeSound, may

LEMMA RollHealthy ==
  ASSUME NEW g, Healthy(g), NEW side \in Sides \cup {None}, NEW higher \in Sides \cup {None},
         CanRoll(g, side)
  PROVE  Healthy(AddRoll(g, side, higher)) /\ AddRoll(g, side, higher).initial = g.initial
  <1> DEFINE roller == IF side = None THEN higher ELSE side
             may == IF ~g.rolled /\ ~g.crawford THEN [s \in Sides |-> TRUE] ELSE g.position.mayDouble
             pos == [g.position EXCEPT !.turn = roller, !.dice = TRUE, !.mayDouble = may]
             snap == Snapshot(g, "roll", roller, pos, g.score)
             h == AddRoll(g, side, higher)
  <1>0. g \in GameSet /\ g.position \in PositionSet /\ g.score \in Int
    BY DEF Healthy, GameSet
  <1>1. may \in [Sides -> BOOLEAN] /\ roller \in Sides \cup {None}
    BY <1>0 DEF PositionSet
  <1>2. [kind |-> "roll", side |-> roller] \in ActionSet
    BY <1>1 DEF ActionSet
  <1>3. h = [snap EXCEPT !.rolled = TRUE]
    BY DEF AddRoll
  <1>4. IF ~g.rolled /\ ~g.crawford THEN may[White] /\ may[Black] ELSE may = g.position.mayDouble
    BY DEF Sides
  <1> HIDE DEF roller, may
  <1>5. /\ pos \in PositionSet
        /\ pos.scores = g.position.scores /\ pos.score = g.position.score
        /\ pos.mayDouble = may /\ pos.cube = g.position.cube
        /\ pos.cubeTurned = g.position.cubeTurned
    BY <1>0, <1>1 DEF PositionSet
  <1> HIDE DEF pos, h
  <1>6. /\ snap \in GameSet
        /\ snap.initial = g.initial /\ snap.position = pos /\ snap.crawford = g.crawford
        /\ snap.score = g.score /\ snap.last = [kind |-> "roll", side |-> roller]
    BY <1>0, <1>1, <1>2, <1>5, SnapshotFields
  <1> HIDE DEF snap
  <1>7. /\ h \in GameSet /\ h.rolled = TRUE
        /\ h.initial = g.initial /\ h.position = pos /\ h.crawford = g.crawford
        /\ h.score = g.score /\ h.last = [kind |-> "roll", side |-> roller]
    BY <1>3, <1>6 DEF GameSet
  <1>8. Cube(h)
    BY <1>0, <1>4, <1>5, <1>7 DEF Healthy, Cube, CanRoll, Admits, PositionSet, GameSet, None, Sides, White, Black
  <1> QED BY <1>5, <1>7, <1>8 DEF Healthy, Paid, SignedOffer, Over, Winner, Points, h

LEMMA DoubleHealthy ==
  ASSUME NEW g, Healthy(g), NEW side \in Sides, CanDouble(g, side)
  PROVE  Healthy(AddDouble(g, side)) /\ AddDouble(g, side).initial = g.initial
  <1> DEFINE pos == [g.position EXCEPT !.cubeTurned = side]
             h   == AddDouble(g, side)
  <1>1. g \in GameSet /\ g.position \in PositionSet /\ g.score \in Int
    BY DEF Healthy, GameSet
  <1>2. /\ pos \in PositionSet /\ pos.cubeTurned = side
        /\ pos.scores = g.position.scores /\ pos.score = g.position.score
        /\ pos.mayDouble = g.position.mayDouble /\ pos.cube = g.position.cube
        /\ pos.turn = g.position.turn /\ pos.dice = g.position.dice
        /\ pos.resigned = g.position.resigned
    BY <1>1 DEF PositionSet
  <1> HIDE DEF pos
  <1>3. /\ h \in GameSet /\ h.initial = g.initial /\ h.position = pos
        /\ h.rolled = g.rolled /\ h.crawford = g.crawford
        /\ h.score = g.score /\ h.last = [kind |-> "double", side |-> side]
    BY <1>1, <1>2, SnapshotFields DEF AddDouble, ActionSet, pos
  <1>4. Cube(h)
    BY <1>2, <1>3 DEF Healthy, Cube, CanDouble, Admits, Over, Sides, White, Black, None
  <1> QED BY <1>2, <1>3, <1>4 DEF Healthy, Paid, SignedOffer, Over, Winner, Points

LEMMA TakeHealthy ==
  ASSUME NEW g, Healthy(g), NEW side \in Sides, CanAnswerDouble(g, side)
  PROVE  Healthy(AddTake(g, side)) /\ AddTake(g, side).initial = g.initial
  <1> DEFINE may == [s \in Sides |-> s = side]
             pos == [g.position EXCEPT !.mayDouble = may, !.cube = 2 * @, !.cubeTurned = None]
             h   == AddTake(g, side)
  <1>1. g \in GameSet /\ g.position \in PositionSet /\ g.score \in Int
    BY DEF Healthy, GameSet
  <1>2. /\ may \in [Sides -> BOOLEAN]
        /\ may[White] <=> side = White
        /\ may[Black] <=> side = Black
    BY DEF Sides, White, Black
  <1>3. g.position.cube \in Nat \ {0} /\ 2 * g.position.cube \in Nat \ {0, 1}
    BY <1>1 DEF PositionSet
  <1> HIDE DEF may
  <1>4. /\ pos \in PositionSet /\ pos.cubeTurned = None
        /\ pos.scores = g.position.scores /\ pos.score = g.position.score
        /\ pos.mayDouble = may /\ pos.cube = 2 * g.position.cube
    BY <1>1, <1>2, <1>3 DEF PositionSet
  <1> HIDE DEF pos
  <1>5. /\ h \in GameSet /\ h.initial = g.initial /\ h.position = pos
        /\ h.rolled = g.rolled /\ h.crawford = g.crawford
        /\ h.score = g.score /\ h.last = [kind |-> "take", side |-> side]
    BY <1>1, <1>4, SnapshotFields DEF AddTake, ActionSet, pos, may
  <1>6. Cube(h)
    BY <1>2, <1>3, <1>4, <1>5
    DEF Healthy, Cube, CanAnswerDouble, Admits, Over, Sides, White, Black, None
  <1> QED BY <1>4, <1>5, <1>6 DEF Healthy, Paid, SignedOffer, Over, Winner, Points

LEMMA ResignHealthy ==
  ASSUME NEW g, Healthy(g), NEW side \in Sides, NEW value \in Nat, CanResign(g, side, value)
  PROVE  Healthy(AddResign(g, side, value)) /\ AddResign(g, side, value).initial = g.initial
  <1> DEFINE offer == side * value
             pos   == [g.position EXCEPT !.resigned = offer]
             h     == AddResign(g, side, value)
  <1>1. g \in GameSet /\ g.position \in PositionSet /\ g.score \in Int
    BY DEF Healthy, GameSet
  <1>2. /\ offer \in Int
        /\ side = White => offer > 0
        /\ side = Black => offer < 0
    BY DEF Sides, White, Black, CanResign
  <1> HIDE DEF offer
  <1>3. /\ pos \in PositionSet /\ pos.resigned = offer
        /\ pos.scores = g.position.scores /\ pos.score = g.position.score
        /\ pos.mayDouble = g.position.mayDouble /\ pos.cube = g.position.cube
        /\ pos.cubeTurned = g.position.cubeTurned
    BY <1>1, <1>2 DEF PositionSet
  <1> HIDE DEF pos
  <1>4. /\ h \in GameSet /\ h.initial = g.initial /\ h.position = pos
        /\ h.rolled = g.rolled /\ h.crawford = g.crawford
        /\ h.score = g.score /\ h.last = [kind |-> "resign", side |-> side]
    BY <1>1, <1>3, SnapshotFields DEF AddResign, ActionSet, pos, offer
  <1>5. Cube(h)
    BY <1>3, <1>4 DEF Healthy, Cube, CanResign, Admits, Over, None, White, Black
  <1> QED BY <1>2, <1>3, <1>4, <1>5
          DEF Healthy, Paid, SignedOffer, CanResign, Over, Winner, Points, Sides

LEMMA RejectHealthy ==
  ASSUME NEW g, Healthy(g), NEW side \in Sides, CanAnswerResign(g, side)
  PROVE  Healthy(AddReject(g, side)) /\ AddReject(g, side).initial = g.initial
  <1> DEFINE pos == [g.position EXCEPT !.resigned = 0]
             h   == AddReject(g, side)
  <1>1. g \in GameSet /\ g.position \in PositionSet /\ g.score \in Int
    BY DEF Healthy, GameSet
  <1>2. /\ pos \in PositionSet
        /\ pos.scores = g.position.scores /\ pos.score = g.position.score
        /\ pos.mayDouble = g.position.mayDouble /\ pos.cube = g.position.cube
        /\ pos.cubeTurned = g.position.cubeTurned
    BY <1>1 DEF PositionSet
  <1> HIDE DEF pos
  <1>3. /\ h \in GameSet /\ h.initial = g.initial /\ h.position = pos
        /\ h.rolled = g.rolled /\ h.crawford = g.crawford
        /\ h.score = g.score /\ h.last = [kind |-> "reject", side |-> side]
    BY <1>1, <1>2, SnapshotFields DEF AddReject, ActionSet, pos
  <1>4. Cube(h)
    BY <1>2, <1>3 DEF Healthy, Cube, CanAnswerResign, Admits, Over, None, White, Black
  <1> QED BY <1>2, <1>3, <1>4 DEF Healthy, Paid, SignedOffer, Over, Winner, Points

-----------------------------------------------------------------------------
(* What the actions have in common that may end a game: w gets n points.   *)
LEMMA PayOff ==
  ASSUME NEW g, Healthy(g), ~Over(g), NEW w \in Sides, NEW n \in Nat,
         NEW h, h.initial = g.initial, h.score = w * n,
         h.position.scores = Credit(g.position.scores, w, n)
  PROVE  /\ Paid(h)
         /\ Over(h) <=> n # 0
  <1>1. g.initial \in ScoreSet /\ g.position.scores = g.initial
    BY DEF Healthy, Paid, GameSet
  <1>2. n = 0 => h.position.scores = h.initial
    BY <1>1, CreditType
  <1>3. CASE n = 0
    BY <1>2, <1>3 DEF Paid, Over, Sides, White, Black
  <1>4. CASE n # 0
    <2>1. Over(h) /\ Winner(h) = w /\ Points(h) = n
      BY <1>4 DEF Over, Winner, Points, Sides, White, Black
    <2> QED BY <1>1, <1>4, <2>1 DEF Paid
  <1> QED BY <1>3, <1>4

LEMMA MoveHealthy ==
  ASSUME NEW g, Healthy(g), NEW side \in Sides, NEW points \in 0..3, CanMove(g, side)
  PROVE  Healthy(AddMove(g, side, points)) /\ AddMove(g, side, points).initial = g.initial
  <1> DEFINE won    == points * g.position.cube
             scores == Credit(g.position.scores, side, won)
             score  == side * won
             pos    == [g.position EXCEPT !.dice = FALSE, !.turn = -side,
                                          !.score = score, !.scores = Credit(@, side, won)]
             h      == AddMove(g, side, points)
  <1>1. g \in GameSet /\ g.position \in PositionSet
    BY DEF Healthy, GameSet
  <1>2. g.position.cube \in Nat /\ g.position.scores \in ScoreSet
    BY <1>1 DEF PositionSet
  <1>3. won \in Nat
    <2>1. points = 0 \/ points = 1 \/ points = 2 \/ points = 3
      OBVIOUS
    <2> QED BY <1>2, <2>1
  <1> HIDE DEF won
  <1>4. score \in Int /\ (score # 0 <=> won # 0) /\ -side \in Sides
    BY <1>3 DEF Sides, White, Black
  <1>5. scores \in ScoreSet
    BY <1>2, <1>3, CreditType
  <1> HIDE DEF score
  <1>6. /\ pos \in PositionSet /\ pos.scores = scores /\ pos.score = score
        /\ pos.mayDouble = g.position.mayDouble /\ pos.cube = g.position.cube
        /\ pos.cubeTurned = g.position.cubeTurned
    <2> HIDE DEF Credit
    <2> QED BY <1>1, <1>4, <1>5 DEF PositionSet
  <1> HIDE DEF pos
  <1>7. /\ h \in GameSet /\ h.initial = g.initial /\ h.position = pos
        /\ h.rolled = g.rolled /\ h.crawford = g.crawford
        /\ h.score = score /\ h.last = [kind |-> "move", side |-> side]
    BY <1>1, <1>4, <1>6, SnapshotFields DEF AddMove, ActionSet, pos, won, score
  <1>8. Paid(h) /\ (Over(h) <=> won # 0)
    BY <1>3, <1>6, <1>7, PayOff DEF CanMove, score
  <1>9. Cube(h)
    BY <1>6, <1>7 DEF Healthy, Cube, CanMove, Admits, None, White, Black
  <1> QED BY <1>4, <1>6, <1>7, <1>8, <1>9 DEF Healthy, SignedOffer, Over

LEMMA DropHealthy ==
  ASSUME NEW g, Healthy(g), NEW side \in Sides, CanAnswerDouble(g, side)
  PROVE  Healthy(AddDrop(g, side)) /\ AddDrop(g, side).initial = g.initial
  <1> DEFINE cube   == g.position.cube
             scores == Credit(g.position.scores, -side, cube)
             debt   == side * cube
             pos    == [g.position EXCEPT !.scores = scores, !.score = debt, !.cubeTurned = None]
             score  == -side * cube
             h      == AddDrop(g, side)
  <1>1. g \in GameSet /\ g.position \in PositionSet
    BY DEF Healthy, GameSet
  <1>2. cube \in Nat \ {0} /\ g.position.scores \in ScoreSet /\ -side \in Sides
    BY <1>1 DEF PositionSet, Sides, White, Black
  <1>3. /\ score \in Int /\ score # 0
        /\ debt \in Int /\ debt # 0
        /\ score = (-side) * cube
    BY <1>2 DEF Sides, White, Black
  <1>4. scores \in ScoreSet
    BY <1>2, CreditType
  <1> HIDE DEF scores, debt, score
  <1>5. /\ pos \in PositionSet /\ pos.scores = scores /\ pos.score = debt
        /\ pos.mayDouble = g.position.mayDouble /\ pos.cube = cube
        /\ pos.cubeTurned = None
    BY <1>1, <1>3, <1>4 DEF PositionSet
  <1> HIDE DEF pos
  <1>6. /\ h \in GameSet /\ h.initial = g.initial /\ h.position = pos
        /\ h.rolled = g.rolled /\ h.crawford = g.crawford
        /\ h.score = score /\ h.last = [kind |-> "drop", side |-> side]
    BY <1>1, <1>3, <1>5, SnapshotFields DEF AddDrop, ActionSet, pos, scores, debt, score
  <1>7. Paid(h) /\ Over(h)
    BY <1>2, <1>3, <1>5, <1>6, PayOff DEF CanAnswerDouble, scores
  <1>8. Cube(h)
    BY <1>5, <1>6 DEF Healthy, Cube, None, White, Black
  <1> QED BY <1>3, <1>5, <1>6, <1>7, <1>8 DEF Healthy, SignedOffer

LEMMA AcceptHealthy ==
  ASSUME NEW g, Healthy(g), NEW side \in Sides, CanAnswerResign(g, side)
  PROVE  Healthy(AddAccept(g, side)) /\ AddAccept(g, side).initial = g.initial
  <1> DEFINE value  == -side * g.position.resigned
             scores == Credit(g.position.scores, side, value)
             pos    == [g.position EXCEPT !.scores = scores, !.score = value]
             score  == side * value
             h      == AddAccept(g, side)
  <1>1. g \in GameSet /\ g.position \in PositionSet
    BY DEF Healthy, GameSet
  <1>2. value \in Nat \ {0} /\ g.position.scores \in ScoreSet
    <2>1. g.position.resigned \in Int /\ g.position.scores \in ScoreSet
      BY <1>1 DEF PositionSet
    <2>2. \/ side = Black /\ g.position.resigned > 0
          \/ side = White /\ g.position.resigned < 0
      BY DEF CanAnswerResign, Healthy, SignedOffer, Sides, White, Black
    <2> QED BY <2>1, <2>2 DEF White, Black
  <1> HIDE DEF value
  <1>3. score \in Int /\ score # 0
    BY <1>2 DEF Sides, White, Black
  <1>4. scores \in ScoreSet /\ value \in Int
    BY <1>2, CreditType
  <1> HIDE DEF scores, score
  <1>5. /\ pos \in PositionSet /\ pos.scores = scores /\ pos.score = value
        /\ pos.mayDouble = g.position.mayDouble /\ pos.cube = g.position.cube
        /\ pos.cubeTurned = g.position.cubeTurned
    BY <1>1, <1>4 DEF PositionSet
  <1> HIDE DEF pos
  <1>6. /\ h \in GameSet /\ h.initial = g.initial /\ h.position = pos
        /\ h.rolled = g.rolled /\ h.crawford = g.crawford
        /\ h.score = score /\ h.last = [kind |-> "accept", side |-> side]
    BY <1>1, <1>3, <1>5, SnapshotFields DEF AddAccept, ActionSet, pos, scores, score, value
  <1>7. Paid(h) /\ Over(h)
    BY <1>2, <1>5, <1>6, PayOff DEF CanAnswerResign, scores, score
  <1>8. Cube(h)
    BY <1>5, <1>6 DEF Healthy, Cube, CanAnswerResign, Admits
  <1> QED BY <1>2, <1>5, <1>6, <1>7, <1>8 DEF Healthy, SignedOffer

LEMMA NewGameHealthy ==
  ASSUME NEW scores \in ScoreSet, NEW crawford \in BOOLEAN
  PROVE  Healthy(NewGame(scores, crawford)) /\ NewGame(scores, crawford).initial = scores
  <1> DEFINE may == [s \in Sides |-> FALSE]
             pos == [ResetPosition(scores) EXCEPT !.mayDouble = may]
             g   == NewGame(scores, crawford)
  <1>1. may \in [Sides -> BOOLEAN] /\ ~may[White] /\ ~may[Black]
    BY DEF Sides
  <1> HIDE DEF may
  <1>2. /\ pos \in PositionSet
        /\ pos.scores = scores /\ pos.score = 0 /\ pos.cube = 1
        /\ pos.mayDouble = may /\ pos.cubeTurned = None
    <2> DEFINE all   == [s \in Sides |-> TRUE]
               reset == ResetPosition(scores)
    <2>1. all \in [Sides -> BOOLEAN]  OBVIOUS
    <2> HIDE DEF all
    <2>2. /\ reset \in PositionSet /\ reset.scores = scores
          /\ reset.score = 0 /\ reset.cube = 1 /\ reset.cubeTurned = None
      BY <2>1 DEF PositionSet, ResetPosition, all
    <2> HIDE DEF reset
    <2>3. pos = [reset EXCEPT !.mayDouble = may]
      BY DEF reset
    <2> QED BY <1>1, <2>2, <2>3 DEF PositionSet
  <1> HIDE DEF pos
  <1>3. /\ g \in GameSet /\ g.initial = scores /\ g.position = pos /\ ~g.rolled
        /\ g.score = 0 /\ g.last.kind = "none"
    BY <1>2 DEF NewGame, GameSet, ActionSet, NoAction, pos, may
  <1>4. Cube(g)
    BY <1>1, <1>2, <1>3 DEF Cube, White, Black, None
  <1> QED BY <1>2, <1>3, <1>4 DEF Healthy, Paid, SignedOffer, Over, Winner, Points

LEMMA RetiredGame ==
  ASSUME NEW g \in GameSet, Paid(g)
  PROVE  /\ Retired(g) \in GameSet
         /\ Paid(Retired(g))
         /\ Retired(g).initial = g.initial
         /\ Retired(g).position.scores = g.position.scores
  <1> DEFINE new == NewGame(g.initial, g.crawford)
             pos == [new.position EXCEPT !.scores = g.position.scores]
             r   == Retired(g)
  <1>1. g.initial \in ScoreSet /\ g.position.scores \in ScoreSet /\ g.crawford \in BOOLEAN /\ g.score \in Int
    BY DEF GameSet, PositionSet
  <1>2. new \in GameSet /\ new.initial = g.initial
    BY <1>1, NewGameHealthy DEF Healthy
  <1> HIDE DEF new
  <1>3. pos \in PositionSet /\ pos.scores = g.position.scores
    BY <1>1, <1>2 DEF GameSet, PositionSet
  <1> HIDE DEF pos
  <1>4. r = [new EXCEPT !.position = pos, !.score = g.score]
    BY DEF Retired, new, pos
  <1> HIDE DEF r
  <1>5. r \in GameSet /\ r.initial = g.initial /\ r.position = pos /\ r.score = g.score
    BY <1>1, <1>2, <1>3, <1>4 DEF GameSet
  <1> QED BY <1>3, <1>5 DEF Paid, Over, Winner, Points, r

-----------------------------------------------------------------------------
(* What holds of the list of games.                                        *)
Consistent(gs) ==
  /\ gs \in Seq(GameSet)
  /\ \A i \in 1..Len(gs) : Paid(gs[i])
  /\ \A i \in 1..Len(gs) :
       gs[i].initial = IF i = 1 THEN NoPoints ELSE gs[i - 1].position.scores
  /\ Length > 0 =>
       \A i \in 1..Len(gs) : \A s \in Sides : gs[i].initial[s] < Length
  /\ gs # <<>> => Healthy(gs[Len(gs)])

IInv == Consistent(games)

LEMMA ScoresType ==
  ASSUME IInv
  PROVE  Scores \in ScoreSet
  <1>1. NoPoints \in ScoreSet
    BY DEF NoPoints, ScoreSet
  <1>2. games # <<>> => Current \in GameSet
    BY DEF IInv, Consistent, Current
  <1> QED BY <1>1, <1>2 DEF Scores, GameSet, PositionSet

LEMMA NewGameConsistent ==
  ASSUME IInv, MayAddGame
  PROVE  Consistent(WithNewGame) /\ WithNewGame # <<>>
  <1> DEFINE retired == [i \in DOMAIN games |-> Retired(games[i])]
             new     == NewGame(Scores, IsCrawford)
             gs      == Append(retired, new)
             n       == Len(games)
  <1>1. games \in Seq(GameSet) /\ n \in Nat /\ DOMAIN games = 1..n
    BY DEF IInv, Consistent
  <1>2. Healthy(new) /\ new \in GameSet /\ new.initial = Scores
    <2>1. IsCrawford \in BOOLEAN  BY DEF IsCrawford
    <2> QED BY <2>1, ScoresType, NewGameHealthy DEF Healthy
  <1> HIDE DEF new
  <1>3. \A i \in 1..n : /\ games[i] \in GameSet
                        /\ Retired(games[i]) \in GameSet
                        /\ Paid(Retired(games[i]))
                        /\ Retired(games[i]).initial = games[i].initial
                        /\ Retired(games[i]).position.scores = games[i].position.scores
    BY <1>1, RetiredGame DEF IInv, Consistent
  <1>4. /\ retired \in Seq(GameSet) /\ Len(retired) = n
        /\ \A i \in 1..n : retired[i] = Retired(games[i])
    BY <1>1, <1>3
  <1> HIDE DEF retired
  <1>5. /\ gs \in Seq(GameSet) /\ gs # <<>> /\ Len(gs) = n + 1
        /\ \A i \in 1..n : gs[i] = Retired(games[i])
        /\ gs[n + 1] = new
    BY <1>2, <1>4, AppendProperties
  <1> HIDE DEF gs
  <1>6. Scores = IF n = 0 THEN NoPoints ELSE games[n].position.scores
    BY <1>1 DEF Scores, Current
  <1>7. ASSUME NEW i \in 1..(n + 1)
        PROVE  /\ Paid(gs[i])
               /\ gs[i].initial = IF i = 1 THEN NoPoints ELSE gs[i - 1].position.scores
               /\ Length > 0 => \A s \in Sides : gs[i].initial[s] < Length
    <2>1. CASE i \in 1..n
      <3>1. i # 1 => i - 1 \in 1..n
        BY <1>1, <2>1
      <3> QED BY <1>3, <1>5, <2>1, <3>1 DEF IInv, Consistent
    <2>2. CASE i = n + 1
      <3>1. i # 1 => n \in 1..n /\ i - 1 = n
        BY <1>1, <2>2
      <3>2. Length > 0 => \A s \in Sides : Scores[s] < Length
        <4>1. \A s \in Sides : Scores[s] \in Nat
          BY ScoresType DEF ScoreSet
        <4> QED BY <4>1, LengthAssumption DEF MayAddGame, MatchOver
      <3> QED BY <1>1, <1>2, <1>3, <1>5, <1>6, <2>2, <3>1, <3>2 DEF Healthy
    <2> QED BY <1>1, <2>1, <2>2
  <1>8. gs = WithNewGame
    BY DEF gs, retired, new, WithNewGame
  <1>9. Consistent(gs)
    BY <1>1, <1>2, <1>5, <1>7 DEF Consistent
  <1> QED BY <1>5, <1>8, <1>9

LEMMA ReadyConsistent ==
  ASSUME IInv, Playable
  PROVE  Consistent(Ready) /\ Ready # <<>> /\ Healthy(Target)
  <1>1. CASE NeedsGame
    BY <1>1, NewGameConsistent DEF Playable, Ready, Target, Consistent
  <1>2. CASE ~NeedsGame
    BY <1>2 DEF NeedsGame, Ready, Target, IInv, Consistent
  <1> QED BY <1>1, <1>2

LEMMA RecordConsistent ==
  ASSUME IInv, Playable,
         NEW g, Healthy(g), g.initial = Target.initial, Record(g)
  PROVE  IInv'
  <1> DEFINE n  == Len(Ready)
             gs == [Ready EXCEPT ![n] = g]
  <1>1. /\ Ready \in Seq(GameSet) /\ n \in Nat /\ n \in 1..n
        /\ Consistent(Ready) /\ g \in GameSet
    BY ReadyConsistent DEF Consistent, Healthy
  <1>2. /\ gs \in Seq(GameSet) /\ Len(gs) = n
        /\ \A i \in 1..n : gs[i] = IF i = n THEN g ELSE Ready[i]
    BY <1>1, ExceptSeq
  <1> HIDE DEF gs
  <1>3. ASSUME NEW i \in 1..n
        PROVE  /\ Paid(gs[i])
               /\ gs[i].initial = IF i = 1 THEN NoPoints ELSE gs[i - 1].position.scores
               /\ Length > 0 => \A s \in Sides : gs[i].initial[s] < Length
    <2>1. gs[i].initial = Ready[i].initial /\ Paid(gs[i])
      BY <1>1, <1>2 DEF Target, Consistent, Healthy
    <2>2. i # 1 => i - 1 \in 1..n /\ gs[i - 1] = Ready[i - 1]
      BY <1>1, <1>2
    <2> QED BY <1>1, <2>1, <2>2 DEF Consistent
  <1>4. Consistent(gs)
    BY <1>1, <1>2, <1>3 DEF Consistent
  <1>5. games' = gs
    BY DEF Record, gs
  <1> QED BY <1>4, <1>5 DEF IInv

-----------------------------------------------------------------------------
(* The empty list of gibbon_match_new() is consistent.                     *)
LEMMA InitConsistent == Init => IInv
  BY EmptySeq DEF Init, IInv, Consistent

(* Every action of the match, and the start of a game, keeps it so.        *)
LEMMA NextConsistent == IInv /\ [Next]_games => IInv'
  <1> SUFFICES ASSUME IInv, [Next]_games PROVE IInv'
    OBVIOUS
  <1>1. ASSUME NEW side \in Sides \cup {None}, NEW higher \in Sides \cup {None}, Roll(side, higher)
        PROVE  IInv'
    BY <1>1, ReadyConsistent, RollHealthy, RecordConsistent DEF Roll
  <1>2. ASSUME NEW side \in Sides, NEW points \in 0..3, Move(side, points)
        PROVE  IInv'
    BY <1>2, ReadyConsistent, MoveHealthy, RecordConsistent DEF Move
  <1>3. ASSUME NEW side \in Sides, Double(side)
        PROVE  IInv'
    BY <1>3, ReadyConsistent, DoubleHealthy, RecordConsistent DEF Double
  <1>4. ASSUME NEW side \in Sides, Take(side)
        PROVE  IInv'
    BY <1>4, ReadyConsistent, TakeHealthy, RecordConsistent DEF Take
  <1>5. ASSUME NEW side \in Sides, Drop(side)
        PROVE  IInv'
    BY <1>5, ReadyConsistent, DropHealthy, RecordConsistent DEF Drop
  <1>6. ASSUME NEW side \in Sides, NEW k \in 1..3, Resign(side, k * Target.position.cube)
        PROVE  IInv'
    <2>1. Target.position.cube \in Nat
      BY <1>6, ReadyConsistent DEF Resign, Healthy, GameSet, PositionSet
    <2>2. k = 1 \/ k = 2 \/ k = 3
      OBVIOUS
    <2>3. k * Target.position.cube \in Nat
      BY <2>1, <2>2
    <2> QED BY <1>6, <2>3, ReadyConsistent, ResignHealthy, RecordConsistent DEF Resign
  <1>7. ASSUME NEW side \in Sides, Reject(side)
        PROVE  IInv'
    BY <1>7, ReadyConsistent, RejectHealthy, RecordConsistent DEF Reject
  <1>8. ASSUME NEW side \in Sides, Accept(side)
        PROVE  IInv'
    BY <1>8, ReadyConsistent, AcceptHealthy, RecordConsistent DEF Accept
  <1>9. CASE AddGame
    BY <1>9, NewGameConsistent DEF AddGame, IInv
  <1>10. CASE UNCHANGED games
    BY <1>10 DEF IInv
  <1> QED BY <1>1, <1>2, <1>3, <1>4, <1>5, <1>6, <1>7, <1>8, <1>9, <1>10 DEF Next

(* The list of games is consistent, whatever is recorded.                  *)
THEOREM AlwaysConsistent == Spec => []IInv
  BY InitConsistent, NextConsistent, PTL DEF Spec

-----------------------------------------------------------------------------
(* Every game is a record of the shape gibbon-game.c keeps; in particular  *)
(* no score ever becomes negative.                                         *)
THEOREM TypeCorrect == Spec => []TypeOK
  <1>1. IInv => TypeOK
    BY DEF IInv, Consistent, TypeOK
  <1> QED BY <1>1, AlwaysConsistent, PTL

(* apply_move, add_drop and add_accept keep the scores, and add_game hands *)
(* them on: the bookkeeping adds up in every match.                        *)
THEOREM BookkeepingCorrect == Spec => []ScoresAddUp
  <1>1. IInv => ScoresAddUp
    BY DEF IInv, Consistent, ScoresAddUp
  <1> QED BY <1>1, AlwaysConsistent, PTL

(* gibbon_game_over() and the score of the position always agree.          *)
THEOREM OverCorrect == Spec => []OverAgrees
  <1>1. IInv => OverAgrees
    BY DEF IInv, Consistent, Healthy, Current, OverAgrees
  <1> QED BY <1>1, AlwaysConsistent, PTL

(* The cube belongs to whom the rules give it, in every match.             *)
THEOREM CubeCorrect == Spec => []CubeOwned
  <1>1. IInv => CubeOwned
    BY CubeSoundness DEF IInv, Consistent, Healthy, Current, CubeOwned
  <1> QED BY <1>1, AlwaysConsistent, PTL

(* No match goes on beyond its length, and none has two winners.           *)
THEOREM EndCorrect == Spec => []EndOfMatch
  <1>1. ASSUME IInv, Length > 0, games # <<>>
        PROVE  ~\A s \in Sides : Scores[s] >= Length
    <2> DEFINE g == Current
    <2>1. /\ Healthy(g) /\ g \in GameSet
          /\ \A s \in Sides : g.initial[s] < Length
      BY <1>1 DEF IInv, Consistent, Current
    <2>2. g.initial \in ScoreSet /\ g.score \in Int
      BY <2>1 DEF GameSet
    <2>3. Winner(g) \in Sides /\ -Winner(g) \in Sides /\ Points(g) \in Nat
      <3>1. Points(g) \in Nat  BY <2>2 DEF Points
      <3>2. Winner(g) = 1 \/ Winner(g) = -1  BY DEF Winner, White, Black
      <3> QED BY <3>1, <3>2 DEF Sides, White, Black
    <2>4. CASE Over(g)
      <3>1. g.position.scores[-Winner(g)] = g.initial[-Winner(g)]
        BY <2>1, <2>2, <2>3, <2>4, CreditType DEF Healthy, Paid
      <3> HIDE DEF g
      <3>2. g.initial[-Winner(g)] < Length /\ g.initial[-Winner(g)] \in Nat
        BY <2>1, <2>2, <2>3 DEF ScoreSet
      <3> QED BY <1>1, <2>3, <3>1, <3>2, LengthAssumption DEF Scores, g
    <2>5. CASE ~Over(g)
      <3>1. g.position.scores = g.initial
        BY <2>1, <2>5 DEF Healthy, Paid
      <3> HIDE DEF g
      <3>2. g.initial[White] < Length /\ g.initial[White] \in Nat /\ White \in Sides
        BY <2>1, <2>2 DEF ScoreSet, Sides
      <3> QED BY <1>1, <3>1, <3>2, LengthAssumption DEF Scores, g
    <2> QED BY <2>4, <2>5
  <1>2. ASSUME IInv, Length > 0, games = <<>>
        PROVE  ~\A s \in Sides : Scores[s] >= Length
    BY <1>2, LengthAssumption DEF Scores, NoPoints, Sides
  <1>3. IInv => EndOfMatch
    BY <1>1, <1>2 DEF IInv, Consistent, EndOfMatch
  <1> QED BY <1>3, AlwaysConsistent, PTL

-----------------------------------------------------------------------------
(***************************************************************************)
(* Proofs about Match.tla that look at more than one game: the Crawford    *)
(* rule, offers and their answers, and the score board.                    *)
(*                                                                         *)
(* gibbon_match_add_game() keeps no flag for the Crawford game; it guesses *)
(* from the last but one snapshot of the previous game.  Why the guess is  *)
(* right: until a game is over its snapshots all carry the scores it began *)
(* with (Fresh), and a match that has a finished Crawford game behind it   *)
(* is at a score at which the leader is one away and nobody is at zero any *)
(* more (Behind).                                                          *)
(*                                                                         *)
(* Turn(g, h) is what all actions have in common; PlayStep reduces every   *)
(* step of the match to the start of a game and one turn.                  *)
(***************************************************************************)
(* The current game: what came before its last snapshot. *)
Fresh(g) ==
  /\ g.previous \in {NoScores, g.initial}
  /\ g.last = NoAction => ~g.position.dice /\ g.position.cubeTurned = None
  /\ Over(g) => g.previous = g.initial
  /\ g.crawford => g.position.resigned \in -3..3

(* Turn h of the game g. *)
Turn(g, h) ==
  /\ ~Over(g)
  /\ h.crawford = g.crawford
  /\ h.previous = IF g.last = NoAction THEN NoScores ELSE g.position.scores
  /\ h.last # NoAction
  /\ Over(h) => g.last # NoAction
  /\ g.crawford => h.position.resigned \in -3..3
  /\ g.crawford /\ Over(h) => Points(h) <= 3

LEMMA TurnKeepsFresh ==
  ASSUME NEW g, NEW h, Healthy(g), Fresh(g), Turn(g, h), h.initial = g.initial
  PROVE  Fresh(h)
  BY DEF Healthy, Paid, Fresh, Turn

LEMMA QuietTurn ==
  ASSUME NEW g, Healthy(g), Fresh(g), ~Over(g), NEW kind, NEW side, kind # "none",
         NEW pos, pos.resigned = g.position.resigned \/ pos.resigned = 0
  PROVE  Turn(g, Snapshot(g, kind, side, pos, g.score))
  <1> DEFINE h == Snapshot(g, kind, side, pos, g.score)
  <1>1. g \in GameSet
    BY DEF Healthy
  <1>2. /\ h.crawford = g.crawford /\ h.position = pos /\ h.score = g.score
        /\ h.last # NoAction
        /\ h.previous = IF g.last = NoAction THEN NoScores ELSE g.position.scores
    BY <1>1 DEF Snapshot, GameSet, NoAction
  <1> HIDE DEF h
  <1>3. ~Over(h)
    BY <1>2 DEF Over
  <1>4. g.crawford => h.position.resigned \in -3..3
    BY <1>2 DEF Fresh
  <1> QED BY <1>2, <1>3, <1>4 DEF Turn, h

LEMMA RollTurn ==
  ASSUME NEW g, Healthy(g), Fresh(g), NEW side, NEW higher, CanRoll(g, side)
  PROVE  Turn(g, AddRoll(g, side, higher))
  <1> DEFINE roller == IF side = None THEN higher ELSE side
             pos == [g.position EXCEPT !.turn = roller, !.dice = TRUE,
                       !.mayDouble = IF ~g.rolled /\ ~g.crawford
                                     THEN [s \in Sides |-> TRUE] ELSE @]
             snap == Snapshot(g, "roll", roller, pos, g.score)
             h == AddRoll(g, side, higher)
  <1>1. g \in GameSet /\ g.position \in PositionSet
    BY DEF Healthy, GameSet
  <1>2. pos.resigned = g.position.resigned
    BY <1>1 DEF PositionSet
  <1>3. h = [snap EXCEPT !.rolled = TRUE]
    BY DEF AddRoll
  <1> HIDE DEF pos, roller
  <1>4. Turn(g, snap)
    BY <1>2, QuietTurn DEF CanRoll
  <1>5. /\ h.crawford = snap.crawford /\ h.previous = snap.previous /\ h.last = snap.last
        /\ h.position = snap.position /\ h.score = snap.score
    BY <1>1, <1>3 DEF Snapshot, GameSet
  <1> QED BY <1>4, <1>5 DEF Turn, Over, Points

LEMMA DoubleTurn ==
  ASSUME NEW g, Healthy(g), Fresh(g), NEW side, CanDouble(g, side)
  PROVE  Turn(g, AddDouble(g, side))
  <1>1. [g.position EXCEPT !.cubeTurned = side].resigned = g.position.resigned
    BY DEF Healthy, GameSet, PositionSet
  <1> QED BY <1>1, QuietTurn DEF CanDouble, AddDouble

LEMMA TakeTurn ==
  ASSUME NEW g, Healthy(g), Fresh(g), NEW side, CanAnswerDouble(g, side)
  PROVE  Turn(g, AddTake(g, side))
  <1> DEFINE pos == [g.position EXCEPT !.mayDouble = [s \in Sides |-> s = side],
                                       !.cube = 2 * @, !.cubeTurned = None]
  <1>1. pos.resigned = g.position.resigned
    BY DEF Healthy, GameSet, PositionSet
  <1> HIDE DEF pos
  <1>2. Turn(g, Snapshot(g, "take", side, pos, g.score))
    BY <1>1, QuietTurn DEF CanAnswerDouble
  <1> QED BY <1>2 DEF AddTake, pos

LEMMA RejectTurn ==
  ASSUME NEW g, Healthy(g), Fresh(g), NEW side, CanAnswerResign(g, side)
  PROVE  Turn(g, AddReject(g, side))
  <1>1. [g.position EXCEPT !.resigned = 0].resigned = 0
    BY DEF Healthy, GameSet, PositionSet
  <1> QED BY <1>1, QuietTurn DEF CanAnswerResign, AddReject

(* Up to three times the cube is offered; in the Crawford game it is 1. *)
LEMMA ResignTurn ==
  ASSUME NEW g, Healthy(g), Fresh(g), NEW side \in Sides, NEW k \in 1..3,
         CanResign(g, side, k * g.position.cube)
  PROVE  Turn(g, AddResign(g, side, k * g.position.cube))
  <1> DEFINE offer == side * (k * g.position.cube)
             pos == [g.position EXCEPT !.resigned = offer]
             h == Snapshot(g, "resign", side, pos, g.score)
  <1>1. pos.resigned = offer
    BY DEF Healthy, GameSet, PositionSet
  <1>2. g.crawford => offer \in -3..3
    BY DEF Healthy, Cube, Sides, White, Black
  <1> HIDE DEF offer, pos
  <1>3. /\ h.crawford = g.crawford /\ h.position = pos /\ h.score = g.score
        /\ h.last # NoAction
        /\ h.previous = IF g.last = NoAction THEN NoScores ELSE g.position.scores
    BY DEF Healthy, Snapshot, GameSet, NoAction
  <1>4. h = AddResign(g, side, k * g.position.cube)
    BY DEF AddResign, pos, offer
  <1> HIDE DEF h
  <1> QED BY <1>1, <1>2, <1>3, <1>4 DEF Turn, CanResign, Over

-----------------------------------------------------------------------------
(* The three actions that may end a game. *)
LEMMA MoveTurn ==
  ASSUME NEW g, Healthy(g), Fresh(g), NEW side \in Sides, NEW points \in 0..3, CanMove(g, side)
  PROVE  Turn(g, AddMove(g, side, points))
  <1> DEFINE won == points * g.position.cube
             pos == [g.position EXCEPT !.dice = FALSE, !.turn = -side, !.score = side * won,
                                       !.scores = Credit(@, side, won)]
             h == Snapshot(g, "move", side, pos, side * won)
  <1>1. g \in GameSet /\ g.position \in PositionSet
    BY DEF Healthy, GameSet
  <1>2. pos.resigned = g.position.resigned
    BY <1>1 DEF PositionSet
  <1>3. g.crawford => won \in 0..3
    BY DEF Healthy, Cube
  <1>8. won \in Nat
    <2>1. g.position.cube \in Nat
      BY <1>1 DEF PositionSet
    <2>2. points = 0 \/ points = 1 \/ points = 2 \/ points = 3
      OBVIOUS
    <2> QED BY <2>1, <2>2
  <1> HIDE DEF pos, won
  <1>4. /\ h.crawford = g.crawford /\ h.position = pos /\ h.score = side * won
        /\ h.last # NoAction
        /\ h.previous = IF g.last = NoAction THEN NoScores ELSE g.position.scores
    BY <1>1 DEF Snapshot, GameSet, NoAction
  <1>5. h = AddMove(g, side, points)
    BY DEF AddMove, pos, won
  <1> HIDE DEF h
  <1>6. g.crawford => Points(h) <= 3 /\ h.position.resigned \in -3..3
    BY <1>2, <1>3, <1>4, <1>8 DEF Points, Fresh, Sides, White, Black
  <1>7. g.last # NoAction
    BY DEF CanMove, Fresh
  <1> QED BY <1>4, <1>5, <1>6, <1>7 DEF Turn, CanMove

LEMMA DropTurn ==
  ASSUME NEW g, Healthy(g), Fresh(g), NEW side \in Sides, CanAnswerDouble(g, side)
  PROVE  Turn(g, AddDrop(g, side))
  <1> DEFINE pos == [g.position EXCEPT !.scores = Credit(@, -side, g.position.cube),
                                       !.score = side * g.position.cube, !.cubeTurned = None]
             score == -side * g.position.cube
             h == Snapshot(g, "drop", side, pos, score)
  <1>1. g \in GameSet /\ g.position.cubeTurned \in Sides
    BY DEF Healthy, CanAnswerDouble, Sides, White, Black
  <1>2. ~g.crawford /\ g.last # NoAction
    BY <1>1 DEF Healthy, Cube, Fresh, Sides, White, Black, None
  <1> HIDE DEF pos, score
  <1>3. /\ h.crawford = g.crawford /\ h.last # NoAction
        /\ h.previous = IF g.last = NoAction THEN NoScores ELSE g.position.scores
    BY <1>1 DEF Snapshot, GameSet, NoAction
  <1>4. h = AddDrop(g, side)
    BY DEF AddDrop, pos, score
  <1> HIDE DEF h
  <1> QED BY <1>2, <1>3, <1>4 DEF Turn, CanAnswerDouble

LEMMA AcceptTurn ==
  ASSUME NEW g, Healthy(g), Fresh(g), NEW side \in Sides, CanAnswerResign(g, side)
  PROVE  Turn(g, AddAccept(g, side))
  <1> DEFINE value == -side * g.position.resigned
             pos == [g.position EXCEPT !.scores = Credit(@, side, value), !.score = value]
             h == Snapshot(g, "accept", side, pos, side * value)
  <1>1. g \in GameSet /\ g.position \in PositionSet /\ g.position.resigned \in Int
    BY DEF Healthy, GameSet, PositionSet
  <1>2. pos.resigned = g.position.resigned
    BY <1>1 DEF PositionSet
  <1>3. g.crawford => side * value \in -3..3
    BY DEF Fresh, Sides, White, Black
  <1>8. side * value \in Int
    BY <1>1 DEF Sides, White, Black
  <1> HIDE DEF pos, value
  <1>4. /\ h.crawford = g.crawford /\ h.position = pos /\ h.score = side * value
        /\ h.last # NoAction
        /\ h.previous = IF g.last = NoAction THEN NoScores ELSE g.position.scores
    BY <1>1 DEF Snapshot, GameSet, NoAction
  <1>5. h = AddAccept(g, side)
    BY DEF AddAccept, pos, value
  <1> HIDE DEF h
  <1>6. g.crawford => Points(h) <= 3 /\ h.position.resigned \in -3..3
    BY <1>2, <1>3, <1>4, <1>8 DEF Points, Fresh
  <1>7. g.last # NoAction
    BY DEF CanAnswerResign, NoAction
  <1> QED BY <1>4, <1>5, <1>6, <1>7 DEF Turn, CanAnswerResign

(***************************************************************************)
(* Every step starts a game, or it is a turn of the game it is recorded in.*)
(***************************************************************************)
PlayTurn ==
  /\ Playable
  /\ \E h : /\ Turn(Target, h) /\ Healthy(h) /\ h.initial = Target.initial
            /\ Record(h)

LEMMA PlayStep ==
  ASSUME IInv, Playable => Fresh(Target), Next
  PROVE  AddGame \/ PlayTurn
  <1>0. Playable => Healthy(Target)
    BY ReadyConsistent
  <1>1. ASSUME NEW side \in Sides \cup {None}, NEW higher \in Sides \cup {None}, Roll(side, higher)
        PROVE  PlayTurn
    BY <1>0, <1>1, RollHealthy, RollTurn DEF Roll, PlayTurn
  <1>2. ASSUME NEW side \in Sides, NEW points \in 0..3, Move(side, points)
        PROVE  PlayTurn
    BY <1>0, <1>2, MoveHealthy, MoveTurn DEF Move, PlayTurn
  <1>3. ASSUME NEW side \in Sides, Double(side) PROVE PlayTurn
    BY <1>0, <1>3, DoubleHealthy, DoubleTurn DEF Double, PlayTurn
  <1>4. ASSUME NEW side \in Sides, Take(side) PROVE PlayTurn
    BY <1>0, <1>4, TakeHealthy, TakeTurn DEF Take, PlayTurn
  <1>5. ASSUME NEW side \in Sides, Drop(side) PROVE PlayTurn
    BY <1>0, <1>5, DropHealthy, DropTurn DEF Drop, PlayTurn
  <1>6. ASSUME NEW side \in Sides, NEW k \in 1..3, Resign(side, k * Target.position.cube)
        PROVE  PlayTurn
    <2>1. k * Target.position.cube \in Nat
      <3>1. Target.position.cube \in Nat
        BY <1>0, <1>6 DEF Resign, Healthy, GameSet, PositionSet
      <3>2. k = 1 \/ k = 2 \/ k = 3
        OBVIOUS
      <3> QED BY <3>1, <3>2
    <2> QED BY <1>0, <1>6, <2>1, ResignHealthy, ResignTurn DEF Resign, PlayTurn
  <1>7. ASSUME NEW side \in Sides, Reject(side) PROVE PlayTurn
    BY <1>0, <1>7, RejectHealthy, RejectTurn DEF Reject, PlayTurn
  <1>8. ASSUME NEW side \in Sides, Accept(side) PROVE PlayTurn
    BY <1>0, <1>8, AcceptHealthy, AcceptTurn DEF Accept, PlayTurn
  <1> QED BY <1>1, <1>2, <1>3, <1>4, <1>5, <1>6, <1>7, <1>8 DEF Next

-----------------------------------------------------------------------------
(* The score after a finished Crawford game. *)
Behind(scores) ==
  /\ \E s \in Sides : OneAway(scores, s)
  /\ \A s \in Sides : scores[s] > 0

(* The Crawford game in the list of games. *)
Chronicle(gs) ==
  /\ \A i \in 1..Len(gs) :
       gs[i].crawford => Length > 0 /\ CrawfordScore(gs[i].initial)
  /\ \A i, j \in 1..Len(gs) :
       i < j /\ gs[i].crawford /\ Over(gs[i]) => ~gs[j].crawford /\ Behind(gs[j].initial)
  /\ gs # <<>> => Fresh(gs[Len(gs)])

History == IInv /\ Chronicle(games)

LEMMA WhoWon ==
  ASSUME NEW g, g.score \in Int
  PROVE  /\ Winner(g) \in Sides /\ -Winner(g) \in Sides /\ Winner(g) # -Winner(g)
         /\ Sides = {Winner(g), -Winner(g)}
         /\ Points(g) \in Nat /\ (Over(g) => Points(g) # 0)
  <1>1. Points(g) \in Nat /\ (Over(g) => Points(g) # 0)
    BY DEF Points, Over
  <1>2. CASE g.score > 0
    <2>1. Winner(g) = 1 BY <1>2 DEF Winner, White
    <2> QED BY <1>1, <2>1 DEF Sides, White, Black
  <1>3. CASE ~(g.score > 0)
    <2>1. Winner(g) = -1 BY <1>3 DEF Winner, Black
    <2>2. Winner(g) \in Int /\ Winner(g) + 1 = 0 BY <2>1
    <2>4. -Winner(g) = 1 BY <2>2
    <2>3. Sides = {1, -1} BY DEF Sides, White, Black
    <2> QED BY <1>1, <2>1, <2>3, <2>4
  <1> QED BY <1>2, <1>3

(* A player who is one away and has won again has won the match. *)
LEMMA AfterCrawford ==
  ASSUME NEW g \in GameSet, Paid(g), Over(g), g.crawford, Length > 0,
         CrawfordScore(g.initial), \A s \in Sides : g.initial[s] < Length,
         \A s \in Sides : g.position.scores[s] < Length
  PROVE  Behind(g.position.scores)
  <1> DEFINE w == Winner(g)
             a == g.initial
             b == g.position.scores
  <1>1. /\ a \in ScoreSet /\ g.score \in Int /\ g.score # 0
        /\ White \in Sides /\ Black \in Sides /\ Length \in Nat
    BY LengthAssumption DEF GameSet, Over, Sides
  <1>2. /\ w \in Sides /\ -w \in Sides /\ w # -w /\ Sides = {w, -w}
        /\ Points(g) \in Nat \ {0}
    BY <1>1, WhoWon
  <1>3. b[w] = a[w] + Points(g) /\ b[-w] = a[-w]
    <2>1. b = Credit(a, w, Points(g))
      BY DEF Paid
    <2> HIDE DEF a, b, w
    <2> QED BY <1>1, <1>2, <2>1, CreditType
  <1>4. a[w] \in Nat /\ a[-w] \in Nat
    BY <1>1, <1>2 DEF ScoreSet
  <1> HIDE DEF w, a, b
  <1>5. OneAway(a, w) # OneAway(a, -w)
    BY <1>2 DEF CrawfordScore, Sides, White, Black, a
  <1>6. ~OneAway(a, w)
    BY <1>1, <1>2, <1>3, <1>4 DEF OneAway, b
  <1>7. OneAway(b, -w)
    BY <1>3, <1>5, <1>6 DEF OneAway
  <1>8. b[-w] > 0
    <2>1. a[w] < Length /\ a[w] # Length - 1 /\ b[-w] = Length - 1
      BY <1>1, <1>2, <1>4, <1>6, <1>7, <1>3 DEF OneAway, a
    <2> QED BY <2>1, <1>1, <1>4
  <1> QED BY <1>1, <1>2, <1>3, <1>4, <1>7, <1>8 DEF Behind, b

(* Once behind, always behind, and never a Crawford game. *)
LEMMA StaysBehind ==
  ASSUME NEW g \in GameSet, Paid(g), Behind(g.initial), Length > 0,
         \A s \in Sides : g.position.scores[s] < Length
  PROVE  Behind(g.position.scores)
  <1> DEFINE a == g.initial
             b == g.position.scores
  <1>1. /\ a \in ScoreSet /\ b \in ScoreSet /\ Length \in Nat
    BY LengthAssumption DEF GameSet, PositionSet
  <1>2. \A s \in Sides : a[s] \in Nat /\ b[s] \in Nat /\ b[s] >= a[s]
    <2>1. g.score \in Int
      BY DEF GameSet
    <2>2. Winner(g) \in Sides /\ -Winner(g) \in Sides /\ Sides = {Winner(g), -Winner(g)}
      BY <2>1, WhoWon
    <2>3. Points(g) \in Nat
      BY <2>1, WhoWon
    <2>4. CASE Over(g)
      <3>1. b[Winner(g)] = a[Winner(g)] + Points(g) /\ b[-Winner(g)] = a[-Winner(g)]
        <4>1. b = Credit(a, Winner(g), Points(g))
          BY <2>4 DEF Paid
        <4> HIDE DEF a, b
        <4> QED BY <1>1, <2>2, <2>3, <4>1, CreditType
      <3> HIDE DEF a, b
      <3> QED BY <1>1, <2>2, <2>3, <3>1 DEF ScoreSet
    <2>5. CASE ~Over(g)
      BY <1>1, <2>5 DEF Paid, ScoreSet
    <2> QED BY <2>4, <2>5
  <1> HIDE DEF a, b
  <1>3. PICK s \in Sides : a[s] = Length - 1
    BY <1>1, <1>2 DEF Behind, OneAway, a
  <1>4. b[s] = Length - 1
    BY <1>1, <1>2, <1>3 DEF b
  <1> QED BY <1>1, <1>2, <1>4 DEF Behind, OneAway, a, b

(* Retiring a game keeps what the Crawford rule looks at. *)
LEMMA RetiredRecord ==
  ASSUME NEW g \in GameSet
  PROVE  /\ Retired(g).initial = g.initial /\ Retired(g).crawford = g.crawford
         /\ Retired(g).score = g.score
         /\ Retired(g).position.scores = g.position.scores
  BY DEF Retired, NewGame, ResetPosition

(* The list of games with the next one, entry by entry. *)
LEMMA WithNewGameEntries ==
  ASSUME IInv
  PROVE  LET n == Len(games)
         IN /\ n \in Nat /\ Len(WithNewGame) = n + 1 /\ WithNewGame # <<>>
            /\ \A i \in 1..n : WithNewGame[i] = Retired(games[i])
            /\ WithNewGame[n + 1] = NewGame(Scores, IsCrawford)
  <1> DEFINE retired == [i \in DOMAIN games |-> Retired(games[i])]
             new == NewGame(Scores, IsCrawford)
             n == Len(games)
  <1>1. games \in Seq(GameSet) /\ n \in Nat /\ DOMAIN games = 1..n
    BY DEF IInv, Consistent
  <1>2. \A i \in 1..n : Retired(games[i]) \in GameSet
    BY <1>1, RetiredGame DEF IInv, Consistent
  <1>3. /\ retired \in Seq(GameSet) /\ Len(retired) = n
        /\ \A i \in 1..n : retired[i] = Retired(games[i])
    BY <1>1, <1>2
  <1>4. new \in GameSet
    <2>1. IsCrawford \in BOOLEAN  BY DEF IsCrawford
    <2> QED BY <2>1, ScoresType, NewGameHealthy DEF Healthy
  <1> HIDE DEF retired, new
  <1>5. /\ Len(Append(retired, new)) = n + 1 /\ Append(retired, new) # <<>>
        /\ \A i \in 1..n : Append(retired, new)[i] = retired[i]
        /\ Append(retired, new)[n + 1] = new
    BY <1>3, <1>4, AppendProperties
  <1> QED BY <1>1, <1>3, <1>5 DEF WithNewGame, retired, new

LEMMA NewGameFresh ==
  ASSUME NEW scores, NEW crawford
  PROVE  LET g == NewGame(scores, crawford)
         IN /\ Fresh(g) /\ ~Over(g) /\ g.crawford = crawford /\ g.initial = scores
            /\ g.last = NoAction /\ g.position.scores = scores
  BY DEF NewGame, ResetPosition, Fresh, Over, None, NoAction

(* After a finished Crawford game there is no other. *)
LEMMA NoSecondCrawford ==
  ASSUME History, MayAddGame, NEW i \in 1..Len(games), games[i].crawford, Over(games[i])
  PROVE  ~IsCrawford /\ Behind(Scores)
  <1> DEFINE n == Len(games)
  <1>1. /\ games \in Seq(GameSet) /\ n \in Nat \ {0} /\ games # <<>>
        /\ Current = games[n] /\ Scores = games[n].position.scores
        /\ games[n] \in GameSet /\ Paid(games[n]) /\ Healthy(games[n]) /\ Fresh(games[n])
        /\ Length > 0
    BY DEF History, Chronicle, IInv, Consistent, Current, Scores
  <1>2. \A s \in Sides : Scores[s] \in Nat /\ Scores[s] < Length
    <2>1. Scores \in ScoreSet
      BY ScoresType DEF History
    <2> QED BY <1>1, <2>1, LengthAssumption DEF MayAddGame, MatchOver, ScoreSet
  <1>3. CASE i = n
    <2>1. Behind(Scores)
      <3>1. CrawfordScore(games[n].initial) /\ \A s \in Sides : games[n].initial[s] < Length
        BY <1>1, <1>3 DEF History, Chronicle, IInv, Consistent
      <3> QED BY <1>1, <1>2, <1>3, <3>1, AfterCrawford
    <2>2. ~IsCrawford
      BY <1>1, <1>2, <1>3, <2>1 DEF IsCrawford, Behind
    <2> QED BY <2>1, <2>2
  <1>4. CASE i < n
    <2>1. Behind(games[n].initial)
      BY <1>1, <1>4 DEF History, Chronicle
    <2>2. Behind(Scores)
      BY <1>1, <1>2, <2>1, StaysBehind
    <2>3. ~IsCrawford
      BY <1>1, <1>2, <2>1, <2>2 DEF IsCrawford, Behind, Fresh
    <2> QED BY <2>2, <2>3
  <1> QED BY <1>1, <1>3, <1>4

LEMMA NewGameChronicle ==
  ASSUME History, MayAddGame
  PROVE  Chronicle(WithNewGame)
  <1> DEFINE n  == Len(games)
             gs == WithNewGame
  <1>1. /\ n \in Nat /\ Len(gs) = n + 1 /\ gs # <<>>
        /\ \A i \in 1..n : gs[i] = Retired(games[i])
        /\ gs[n + 1] = NewGame(Scores, IsCrawford)
    BY WithNewGameEntries DEF History
  <1>2. /\ Fresh(gs[n + 1]) /\ ~Over(gs[n + 1])
        /\ gs[n + 1].crawford = IsCrawford /\ gs[n + 1].initial = Scores
    BY <1>1, NewGameFresh
  <1>3. \A i \in 1..n : /\ gs[i].initial = games[i].initial /\ gs[i].crawford = games[i].crawford
                        /\ Over(gs[i]) <=> Over(games[i])
    BY <1>1, RetiredRecord DEF History, IInv, Consistent, Over
  <1> HIDE DEF gs
  <1>4. ASSUME NEW i \in 1..(n + 1), gs[i].crawford
        PROVE  Length > 0 /\ CrawfordScore(gs[i].initial)
    <2>1. CASE i \in 1..n
      BY <1>3, <1>4, <2>1 DEF History, Chronicle
    <2>2. CASE i = n + 1
      BY <1>2, <1>4, <2>2 DEF IsCrawford
    <2> QED BY <1>1, <2>1, <2>2
  <1>5. ASSUME NEW i \in 1..(n + 1), NEW j \in 1..(n + 1), i < j, gs[i].crawford, Over(gs[i])
        PROVE  ~gs[j].crawford /\ Behind(gs[j].initial)
    <2>1. i \in 1..n
      BY <1>1, <1>5
    <2>2. CASE j \in 1..n
      BY <1>3, <1>5, <2>1, <2>2 DEF History, Chronicle
    <2>3. CASE j = n + 1
      BY <1>2, <1>3, <1>5, <2>1, <2>3, NoSecondCrawford
    <2> QED BY <1>1, <2>2, <2>3
  <1> QED BY <1>1, <1>2, <1>4, <1>5 DEF Chronicle, gs

LEMMA ReadyChronicle ==
  ASSUME History, Playable
  PROVE  Chronicle(Ready) /\ Fresh(Target)
  <1>1. Chronicle(Ready) /\ Ready # <<>>
    BY NewGameChronicle, ReadyConsistent DEF History, Playable, Ready
  <1> QED BY <1>1 DEF Chronicle, Target

LEMMA TurnChronicle ==
  ASSUME History, PlayTurn
  PROVE  Chronicle(games')
  <1> PICK h : Turn(Target, h) /\ Healthy(h) /\ h.initial = Target.initial /\ Record(h)
    BY DEF PlayTurn
  <1> DEFINE n  == Len(Ready)
             gs == [Ready EXCEPT ![n] = h]
  <1>1. /\ Ready \in Seq(GameSet) /\ n \in Nat /\ n \in 1..n /\ h \in GameSet
        /\ Target = Ready[n] /\ Healthy(Target) /\ Chronicle(Ready) /\ Fresh(Target)
    BY ReadyConsistent, ReadyChronicle DEF History, PlayTurn, Consistent, Healthy, Target
  <1>2. /\ gs \in Seq(GameSet) /\ Len(gs) = n
        /\ \A i \in 1..n : gs[i] = IF i = n THEN h ELSE Ready[i]
    BY <1>1, ExceptSeq
  <1> HIDE DEF gs
  <1>3. /\ \A i \in 1..n : gs[i].initial = Ready[i].initial /\ gs[i].crawford = Ready[i].crawford
        /\ \A i \in 1..n : i < n => gs[i] = Ready[i]
    BY <1>1, <1>2 DEF Turn
  <1>4. Fresh(h)
    BY <1>1, TurnKeepsFresh
  <1>5. ASSUME NEW i \in 1..n, NEW j \in 1..n, i < j, gs[i].crawford, Over(gs[i])
        PROVE  ~gs[j].crawford /\ Behind(gs[j].initial)
    <2>1. i < n /\ Over(Ready[i])
      BY <1>1, <1>3, <1>5
    <2> QED BY <1>1, <1>3, <1>5, <2>1 DEF Chronicle
  <1>6. Chronicle(gs)
    BY <1>1, <1>2, <1>3, <1>4, <1>5 DEF Chronicle
  <1> QED BY <1>6 DEF Record, gs

LEMMA NextHistory == History /\ [Next]_games => History'
  <1> SUFFICES ASSUME History, [Next]_games PROVE History'
    OBVIOUS
  <1>1. IInv'
    BY NextConsistent DEF History
  <1>2. CASE UNCHANGED games
    BY <1>1, <1>2 DEF History
  <1>3. CASE AddGame
    BY <1>1, <1>3, NewGameChronicle DEF AddGame, History
  <1>4. CASE PlayTurn
    BY <1>1, <1>4, TurnChronicle DEF History
  <1> QED BY <1>2, <1>3, <1>4, PlayStep, ReadyChronicle DEF History

LEMMA InitHistory == Init => History
  BY InitConsistent, EmptySeq DEF Init, History, Chronicle

(* The chronicle of the Crawford game is kept, even if games are abandoned. *)
THEOREM AlwaysHistory == Spec => []History
  BY InitHistory, NextHistory, PTL DEF Spec

(***************************************************************************)
(* However a file abandons games, a Crawford game starts at a Crawford     *)
(* score, and at most one of them is played to the end.                    *)
(***************************************************************************)
THEOREM CrawfordCorrect == Spec => []OneFinishedCrawford
  <1>1. History => OneFinishedCrawford
    <2> SUFFICES ASSUME History PROVE OneFinishedCrawford
      OBVIOUS
    <2>1. DOMAIN games = 1..Len(games) /\ Len(games) \in Nat
      BY DEF History, IInv, Consistent
    <2>2. ASSUME NEW i \in DOMAIN games, NEW j \in DOMAIN games,
                 games[i].crawford, Over(games[i]), games[j].crawford, Over(games[j])
          PROVE  i = j
      BY <2>1, <2>2 DEF History, Chronicle
    <2> QED BY <2>1, <2>2 DEF History, Chronicle, OneFinishedCrawford
  <1> QED BY <1>1, AlwaysHistory, PTL

-----------------------------------------------------------------------------
(* The four answers, each on the terms of its offer. *)
LEMMA TakeSettles ==
  ASSUME NEW g, Healthy(g), OnOffer(g), NEW side \in Sides, CanAnswerDouble(g, side)
  PROVE  Settles(g, AddTake(g, side))
  <1> DEFINE d   == g.position.cubeTurned
             may == [s \in Sides |-> s = side]
             pos == [g.position EXCEPT !.mayDouble = may, !.cube = 2 * @, !.cubeTurned = None]
             h   == AddTake(g, side)
  <1>1. g \in GameSet /\ g.position \in PositionSet /\ g.score = 0
    BY DEF Healthy, GameSet, OnOffer, Over
  <1>2. d # None /\ side = -d
    BY DEF CanAnswerDouble, Sides, White, Black, None
  <1>3. pos = [g.position EXCEPT !.cubeTurned = None, !.cube = 2 * @, !.mayDouble = may]
    BY <1>1 DEF PositionSet
  <1> HIDE DEF may, pos
  <1>4. h.last = [kind |-> "take", side |-> side] /\ h.position = pos /\ h.score = 0
    BY <1>1 DEF AddTake, Snapshot, GameSet, pos, may
  <1> HIDE DEF h
  <1> QED BY <1>2, <1>3, <1>4 DEF Settles, may, h

LEMMA DropSettles ==
  ASSUME NEW g, Healthy(g), OnOffer(g), NEW side \in Sides, CanAnswerDouble(g, side)
  PROVE  Settles(g, AddDrop(g, side))
  <1> DEFINE d     == g.position.cubeTurned
             cube  == g.position.cube
             pos   == [g.position EXCEPT !.scores = Credit(@, -side, cube),
                                         !.score = side * cube, !.cubeTurned = None]
             h     == AddDrop(g, side)
  <1>1. g \in GameSet /\ g.position \in PositionSet /\ cube \in Int
    BY DEF Healthy, GameSet, PositionSet
  <1>2. d # None /\ side = -d /\ d = -side
    BY DEF CanAnswerDouble, Sides, White, Black, None
  <1>3. pos.scores = Credit(g.position.scores, -side, cube)
    BY <1>1 DEF PositionSet
  <1>4. h.last = [kind |-> "drop", side |-> side] /\ h.position = pos /\ h.score = -side * cube
    BY <1>1 DEF AddDrop, Snapshot, GameSet
  <1> HIDE DEF pos, h
  <1>5. -side * cube = d * cube
    BY <1>1, <1>2 DEF Sides, White, Black
  <1>6. /\ h.last = [kind |-> "drop", side |-> -d]
        /\ h.position.scores = Credit(g.position.scores, d, cube)
        /\ h.score = d * cube
    BY <1>2, <1>3, <1>4, <1>5
  <1> QED BY <1>2, <1>6 DEF Settles, h

(* Who resigned is told by the sign of the offer as well as by the last action. *)
LEMMA Resigner ==
  ASSUME NEW g, Healthy(g), NEW side \in Sides, CanAnswerResign(g, side)
  PROVE  /\ g.position.cubeTurned = None
         /\ side = -(IF g.position.resigned > 0 THEN White ELSE Black)
         /\ g.position.resigned \in Int
         /\ -side * g.position.resigned
              = IF g.position.resigned > 0 THEN g.position.resigned ELSE -g.position.resigned
  <1>1. g.position.resigned \in Int
    BY DEF Healthy, GameSet, PositionSet
  <1>2. \/ side = Black /\ g.position.resigned > 0
        \/ side = White /\ g.position.resigned < 0
    BY DEF CanAnswerResign, Healthy, SignedOffer, Sides, White, Black
  <1> QED BY <1>1, <1>2 DEF CanAnswerResign, Admits, White, Black

LEMMA RejectSettles ==
  ASSUME NEW g, Healthy(g), OnOffer(g), NEW side \in Sides, CanAnswerResign(g, side)
  PROVE  Settles(g, AddReject(g, side))
  <1> DEFINE h == AddReject(g, side)
  <1>1. g \in GameSet /\ g.score = 0
    BY DEF Healthy, OnOffer, Over
  <1>2. /\ h.last = [kind |-> "reject", side |-> side]
        /\ h.position = [g.position EXCEPT !.resigned = 0] /\ h.score = 0
    BY <1>1 DEF AddReject, Snapshot, GameSet
  <1> HIDE DEF h
  <1> QED BY <1>2, Resigner DEF Settles, h

LEMMA AcceptSettles ==
  ASSUME NEW g, Healthy(g), OnOffer(g), NEW side \in Sides, CanAnswerResign(g, side)
  PROVE  Settles(g, AddAccept(g, side))
  <1> DEFINE value == -side * g.position.resigned
             pos   == [g.position EXCEPT !.scores = Credit(@, side, value), !.score = value]
             h     == AddAccept(g, side)
  <1>1. g \in GameSet /\ g.position \in PositionSet
    BY DEF Healthy, GameSet
  <1>2. pos.scores = Credit(g.position.scores, side, value)
    BY <1>1 DEF PositionSet
  <1>3. h.last = [kind |-> "accept", side |-> side] /\ h.position = pos /\ h.score = side * value
    BY <1>1 DEF AddAccept, Snapshot, GameSet
  <1> HIDE DEF pos, h, value
  <1>4. /\ g.position.cubeTurned = None
        /\ side = -(IF g.position.resigned > 0 THEN White ELSE Black)
        /\ value = IF g.position.resigned > 0 THEN g.position.resigned ELSE -g.position.resigned
        /\ g.position.resigned \in Int
    BY Resigner DEF value
  <1>5. CASE g.position.resigned > 0
    <2>1. /\ h.last = [kind |-> "accept", side |-> -White]
          /\ h.position.scores = Credit(g.position.scores, -White, g.position.resigned)
          /\ h.score = -White * g.position.resigned
      BY <1>2, <1>3, <1>4, <1>5 DEF White
    <2> QED BY <1>4, <1>5, <2>1 DEF Settles, h
  <1>6. CASE ~(g.position.resigned > 0)
    <2>1. /\ h.last = [kind |-> "accept", side |-> -Black]
          /\ h.position.scores = Credit(g.position.scores, -Black, -g.position.resigned)
          /\ h.score = -Black * (-g.position.resigned)
      BY <1>2, <1>3, <1>4, <1>6 DEF Black
    <2> QED BY <1>4, <1>6, <2>1 DEF Settles, h
  <1> QED BY <1>5, <1>6

LEMMA RecordCurrent ==
  ASSUME IInv, games # <<>>, ~Over(Current), NEW h, Record(h)
  PROVE  Len(games') = Len(games) /\ Current' = h /\ Target = Current
  <1>1. /\ Ready = games /\ Target = Current /\ games \in Seq(GameSet)
        /\ Len(games) \in Nat \ {0}
    BY EmptySeq DEF NeedsGame, Ready, Target, Current, IInv, Consistent
  <1>2. games' = [games EXCEPT ![Len(games)] = h]
    BY <1>1 DEF Record
  <1>3. Len(games') = Len(games) /\ games'[Len(games)] = h
    BY <1>1, <1>2
  <1> QED BY <1>1, <1>3 DEF Current

(***************************************************************************)
(* When the games of a match are played to the end, an offered double or   *)
(* resignation is answered next, and settled on its terms.                 *)
(***************************************************************************)
THEOREM OffersSettled == ASSUME ~Unfinished PROVE Spec => OffersAreSettled
  <1> DEFINE Answered == Len(games') = Len(games) /\ Settles(Current, Current')
  <1>1. ASSUME IInv, Next, games # <<>>, OnOffer(Current)
        PROVE  Answered
    <2>1. ~NeedsGame /\ Target = Current /\ Healthy(Current) /\ ~Over(Current)
      BY <1>1 DEF NeedsGame, Ready, Target, Current, OnOffer, IInv, Consistent
    <2> DEFINE g == Current
    <2>2. \/ g.position.cubeTurned # None \/ g.position.resigned # 0
      BY <1>1 DEF OnOffer
    <2>3. ASSUME NEW side \in Sides, Take(side) PROVE Answered
      <3>1. CanAnswerDouble(g, side) /\ Record(AddTake(g, side))
        BY <2>1, <2>3 DEF Take
      <3> QED BY <1>1, <2>1, <3>1, TakeSettles, RecordCurrent
    <2>4. ASSUME NEW side \in Sides, Drop(side) PROVE Answered
      <3>1. CanAnswerDouble(g, side) /\ Record(AddDrop(g, side))
        BY <2>1, <2>4 DEF Drop
      <3> QED BY <1>1, <2>1, <3>1, DropSettles, RecordCurrent
    <2>5. ASSUME NEW side \in Sides, Reject(side) PROVE Answered
      <3>1. CanAnswerResign(g, side) /\ Record(AddReject(g, side))
        BY <2>1, <2>5 DEF Reject
      <3> QED BY <1>1, <2>1, <3>1, RejectSettles, RecordCurrent
    <2>6. ASSUME NEW side \in Sides, Accept(side) PROVE Answered
      <3>1. CanAnswerResign(g, side) /\ Record(AddAccept(g, side))
        BY <2>1, <2>6 DEF Accept
      <3> QED BY <1>1, <2>1, <3>1, AcceptSettles, RecordCurrent
    <2>7. /\ \A side, higher : ~Roll(side, higher)
          /\ \A side, points : ~Move(side, points)
          /\ \A side : ~Double(side)
          /\ \A side, value : ~Resign(side, value)
      BY <2>1, <2>2 DEF Roll, Move, Double, Resign, CanRoll, CanMove, CanDouble, CanResign, Admits
    <2>8. ~AddGame
      BY <2>1 DEF AddGame
    <2> QED BY <1>1, <2>3, <2>4, <2>5, <2>6, <2>7, <2>8 DEF Next
  <1>2. IInv /\ [Next]_games =>
          [games # <<>> /\ OnOffer(Current) => Answered]_games
    BY <1>1
  <1> QED BY <1>2, AlwaysConsistent, PTL DEF Spec, OffersAreSettled

-----------------------------------------------------------------------------
(***************************************************************************)
(* The proof that Match.tla implements MatchScore.tla, for matches of      *)
(* every length.  A match is recorded without gaps unless Unfinished is    *)
(* set: every game but the last is over, and whenever a game started at a  *)
(* Crawford score, it or an earlier one was the Crawford game (Complete).  *)
(*                                                                         *)
(* The heart of it is Detection: what gibbon_match_add_game() guesses from *)
(* two snapshots of the previous game is what the rules say about all of   *)
(* the games.  A step of the match then starts a game, ends one, or leaves *)
(* the score board alone.                                                  *)
(***************************************************************************)
Complete(gs) ==
  /\ \A i \in 1..Len(gs) : i < Len(gs) => Over(gs[i])
  /\ \A i \in 1..Len(gs) :
       Length > 0 /\ CrawfordScore(gs[i].initial) => \E j \in 1..i : gs[j].crawford

Whole == History /\ Complete(games)

LEMMA WholeGames ==
  ASSUME Whole
  PROVE  /\ games \in Seq(GameSet) /\ Len(games) \in Nat /\ DOMAIN games = 1..Len(games)
         /\ games # <<>> =>
              /\ Len(games) \in 1..Len(games) /\ Current = games[Len(games)]
              /\ Scores = Current.position.scores
              /\ Current \in GameSet /\ Healthy(Current) /\ Fresh(Current)
              /\ Length > 0 => \A s \in Sides : Current.initial[s] < Length
         /\ games = <<>> => Len(games) = 0 /\ Scores = NoPoints
  BY EmptySeq DEF Whole, History, Chronicle, IInv, Consistent, Current, Scores

(* Somebody leads, and the other does not: the two ways to say so agree. *)
LEMMA OneLeader == Board!OneLeads <=> Length > 0 /\ CrawfordScore(Scores)
  <1>1. /\ White \in Sides /\ Black \in Sides /\ White # Black
        /\ \A s \in Sides : s = White \/ s = Black
    BY DEF Sides, White, Black
  <1>2. /\ Board!Leading(White) = OneAway(Scores, White)
        /\ Board!Leading(Black) = OneAway(Scores, Black)
    BY DEF Board!Leading, OneAway
  <1>3. /\ OneAway(Scores, White) \in BOOLEAN /\ OneAway(Scores, Black) \in BOOLEAN
    BY DEF OneAway
  <1> QED BY <1>1, <1>2, <1>3 DEF Board!OneLeads, CrawfordScore

(* A game that was played to the end before anybody was one away shows it. *)
LEMMA LastGameTells ==
  ASSUME Whole, games # <<>>, Over(Current), MayAddGame, Length > 0,
         ~CrawfordScore(Current.initial)
  PROVE  /\ Current.previous # NoScores
         /\ \A s \in Sides : ~OneAway(Current.previous, s)
  <1> DEFINE g == Current
             w == Winner(g)
  <1>1. /\ g \in GameSet /\ Paid(g) /\ g.previous = g.initial /\ Scores = g.position.scores
        /\ g.initial \in ScoreSet /\ g.score \in Int
        /\ \A s \in Sides : g.initial[s] < Length
    BY WholeGames DEF Healthy, Fresh, GameSet
  <1>2. /\ w \in Sides /\ -w \in Sides /\ Points(g) \in Nat \ {0}
    BY <1>1, WhoWon
  <1>3. g.initial # NoScores
    BY <1>1 DEF ScoreSet, NoScores, Sides
  <1>4. Scores[w] = g.initial[w] + Points(g) /\ g.initial[w] \in Nat
    <2>1. Scores = Credit(g.initial, w, Points(g))
      BY <1>1 DEF Paid
    <2> HIDE DEF g, w
    <2> QED BY <1>1, <1>2, <2>1, CreditType DEF ScoreSet
  <1>5. ~OneAway(g.initial, w)
    <2>1. Scores[w] < Length
      BY <1>2, <1>4, LengthAssumption DEF MayAddGame, MatchOver
    <2> QED BY <1>2, <1>4, <2>1, LengthAssumption DEF OneAway
  <1> HIDE DEF w
  <1>6. \A s \in Sides : ~OneAway(g.initial, s)
    BY <1>2, <1>5 DEF CrawfordScore, Sides, White, Black
  <1> QED BY <1>1, <1>3, <1>6

(***************************************************************************)
(* The guess is right: a new game is taken for the Crawford game exactly   *)
(* if one player is one away and there has not been a Crawford game yet.   *)
(***************************************************************************)
LEMMA Detection ==
  ASSUME Whole, NeedsGame, MayAddGame
  PROVE  IsCrawford <=> Board!OneLeads /\ \A i \in 1..Len(games) : ~games[i].crawford
  <1>1. ASSUME IsCrawford PROVE Board!OneLeads
    BY <1>1, OneLeader DEF IsCrawford
  <1>2. ASSUME IsCrawford, NEW i \in 1..Len(games), games[i].crawford PROVE FALSE
    <2>1. Over(games[i])
      BY WholeGames DEF NeedsGame, Whole, Complete
    <2> QED BY <1>2, <2>1, NoSecondCrawford DEF Whole
  <1>3. ASSUME Board!OneLeads, \A i \in 1..Len(games) : ~games[i].crawford
        PROVE  IsCrawford
    <2>1. Length > 0 /\ CrawfordScore(Scores)
      BY <1>3, OneLeader
    <2>2. games # <<>>
      BY <2>1, WholeGames DEF CrawfordScore, OneAway, NoPoints, Sides
    <2>3. ~CrawfordScore(Current.initial) /\ ~Current.crawford
      BY <1>3, <2>1, <2>2, WholeGames DEF Whole, Complete
    <2>4. Over(Current)
      BY <2>2 DEF NeedsGame
    <2> QED BY <2>1, <2>2, <2>3, <2>4, LastGameTells DEF IsCrawford
  <1> QED BY <1>1, <1>2, <1>3

-----------------------------------------------------------------------------
(* Starting a game leaves the record complete. *)
LEMMA NewGameComplete ==
  ASSUME Whole, NeedsGame, MayAddGame
  PROVE  Complete(WithNewGame)
  <1> DEFINE n  == Len(games)
             gs == WithNewGame
  <1>1. /\ n \in Nat /\ Len(gs) = n + 1
        /\ \A i \in 1..n : gs[i] = Retired(games[i])
        /\ gs[n + 1] = NewGame(Scores, IsCrawford)
    BY WithNewGameEntries DEF Whole, History
  <1>2. \A i \in 1..n : /\ gs[i].initial = games[i].initial /\ gs[i].crawford = games[i].crawford
                        /\ Over(gs[i]) <=> Over(games[i])
    BY <1>1, WholeGames, RetiredRecord DEF Over
  <1>3. gs[n + 1].initial = Scores /\ gs[n + 1].crawford = IsCrawford
    BY <1>1, NewGameFresh
  <1> HIDE DEF gs
  <1>4. \A i \in 1..n : Over(games[i])
    BY WholeGames DEF NeedsGame, Whole, Complete
  <1>5. ASSUME NEW i \in 1..(n + 1), Length > 0, CrawfordScore(gs[i].initial)
        PROVE  \E j \in 1..i : gs[j].crawford
    <2>1. CASE i \in 1..n
      BY <1>1, <1>2, <1>5, <2>1 DEF Whole, Complete
    <2>2. CASE i = n + 1
      <3>1. IsCrawford \/ \E j \in 1..n : games[j].crawford
        BY <1>3, <1>5, <2>2, Detection, OneLeader
      <3> QED BY <1>1, <1>2, <1>3, <2>2, <3>1
    <2> QED BY <1>1, <2>1, <2>2
  <1> QED BY <1>1, <1>2, <1>4, <1>5 DEF Complete, gs

LEMMA TurnComplete ==
  ASSUME Whole, Playable, NEW h, h.crawford = Target.crawford,
         h.initial = Target.initial, Record(h)
  PROVE  Complete(games')
  <1> DEFINE n  == Len(Ready)
             gs == [Ready EXCEPT ![n] = h]
  <1>1. Complete(Ready) /\ Ready \in Seq(GameSet) /\ n \in Nat /\ n \in 1..n /\ Target = Ready[n]
    BY ReadyConsistent, NewGameComplete
    DEF Whole, History, Playable, Ready, Target, Consistent, IInv
  <1>2. Len(gs) = n /\ \A i \in 1..n : gs[i] = IF i = n THEN h ELSE Ready[i]
    BY <1>1
  <1> HIDE DEF gs
  <1>3. \A i \in 1..n : gs[i].initial = Ready[i].initial /\ gs[i].crawford = Ready[i].crawford
    BY <1>1, <1>2
  <1>4. Complete(gs)
    BY <1>1, <1>2, <1>3 DEF Complete
  <1> QED BY <1>4 DEF Record, gs

LEMMA NextWhole == ASSUME ~Unfinished, Whole, [Next]_games PROVE Whole'
  <1>1. History'
    BY NextHistory DEF Whole
  <1>2. CASE UNCHANGED games
    BY <1>1, <1>2 DEF Whole
  <1>3. CASE AddGame
    BY <1>1, <1>3, NewGameComplete DEF AddGame, Whole
  <1>4. CASE PlayTurn
    BY <1>1, <1>4, TurnComplete DEF PlayTurn, Turn, Whole
  <1> QED BY <1>2, <1>3, <1>4, PlayStep, ReadyChronicle DEF Whole, History

LEMMA InitWhole == Init => Whole
  BY InitHistory, EmptySeq DEF Init, Whole, Complete

(* A match recorded without gaps stays complete. *)
THEOREM AlwaysWhole == ASSUME ~Unfinished PROVE Spec => []Whole
  <1>1. Whole /\ [Next]_games => Whole'
    BY NextWhole
  <1> QED BY <1>1, InitWhole, PTL DEF Spec

-----------------------------------------------------------------------------
(* The step that adds a game, with or without a first action in it. *)
LEMMA GameStarts ==
  ASSUME Whole, NeedsGame, MayAddGame, games' \in Seq(GameSet),
         Len(games') = Len(games) + 1,
         \A i \in 1..Len(games) : games'[i].crawford = games[i].crawford,
         games'[Len(games) + 1].crawford = IsCrawford,
         ~Over(games'[Len(games) + 1]),
         games'[Len(games) + 1].position.scores = Scores
  PROVE  Board!StartGame
  <1> DEFINE n == Len(games)
  <1>1. /\ n \in Nat /\ DOMAIN games = 1..n /\ DOMAIN games' = 1..(n + 1)
        /\ games' # <<>> /\ Current' = games'[n + 1]
    BY WholeGames DEF Current
  <1>2. Scores' = Scores /\ Playing' /\ ~Playing
    BY <1>1 DEF Scores, Playing, NeedsGame
  <1>3. ~Board!Decided
    BY DEF MayAddGame, MatchOver, Board!Decided, Board!Won
  <1>4. CrawfordPhase' =
          IF IsCrawford THEN "now"
          ELSE IF \E i \in 1..n : games[i].crawford THEN "past" ELSE "ahead"
    <2>1. Current'.crawford = IsCrawford
      BY <1>1
    <2>2. (\E i \in 1..(n + 1) : games'[i].crawford)
            <=> IsCrawford \/ \E i \in 1..n : games[i].crawford
      BY <1>1
    <2> QED BY <1>1, <2>1, <2>2 DEF CrawfordPhase
  <1>5. CrawfordPhase = IF games # <<>> /\ Current.crawford THEN "now"
                        ELSE IF \E i \in 1..n : games[i].crawford THEN "past" ELSE "ahead"
    BY <1>1, WholeGames DEF CrawfordPhase
  <1>6. games # <<>> /\ Current.crawford => \E i \in 1..n : games[i].crawford
    BY WholeGames
  <1>7. CrawfordPhase' = CASE CrawfordPhase = "ahead" /\ Board!OneLeads -> "now"
                           [] CrawfordPhase = "now"                     -> "past"
                           [] OTHER                                     -> CrawfordPhase
    <2> HIDE DEF n
    <2>1. IsCrawford <=> Board!OneLeads /\ ~\E i \in 1..n : games[i].crawford
      BY Detection DEF n
    <2> HIDE DEF IsCrawford, Board!OneLeads, CrawfordPhase
    <2> QED BY <1>4, <1>5, <1>6, <2>1
  <1> QED BY <1>2, <1>3, <1>7 DEF Board!StartGame

(* A turn of the game in progress: it goes on, or it is over and paid. *)
LEMMA GameGoesOn ==
  ASSUME Whole, ~NeedsGame, NEW h, Turn(Current, h), Healthy(h),
         h.initial = Current.initial, Record(h)
  PROVE  [Board!Next]_(Board!vars)
  <1> DEFINE n == Len(games)
             g == Current
             w == Winner(h)
  <1>1. /\ games # <<>> /\ ~Over(g) /\ Ready = games /\ Target = g
        /\ n \in 1..n /\ n \in Nat /\ games \in Seq(GameSet) /\ g = games[n]
        /\ Healthy(g) /\ Scores = g.position.scores /\ DOMAIN games = 1..n
        /\ h \in GameSet /\ h.crawford = g.crawford
    BY WholeGames DEF NeedsGame, Ready, Target, Current, Healthy, Turn
  <1>2. /\ games' = [games EXCEPT ![n] = h] /\ Len(games') = n /\ games' # <<>>
        /\ Current' = h /\ Scores' = h.position.scores /\ DOMAIN games' = 1..n
        /\ \A i \in 1..n : games'[i].crawford = games[i].crawford
    <2>1. games' = [games EXCEPT ![n] = h]
      BY <1>1 DEF Record
    <2>2. /\ games' \in Seq(GameSet) /\ Len(games') = n
          /\ \A i \in 1..n : games'[i] = IF i = n THEN h ELSE games[i]
      BY <1>1, <2>1, ExceptSeq
    <2> QED BY <1>1, <2>1, <2>2, EmptySeq DEF Current, Scores
  <1>3. Playing /\ (Playing' <=> ~Over(h))
    BY <1>1, <1>2 DEF Playing
  <1>4. CrawfordPhase' = CrawfordPhase
    <2>1. (\E i \in DOMAIN games' : games'[i].crawford)
            <=> \E i \in DOMAIN games : games[i].crawford
      BY <1>1, <1>2
    <2> QED BY <1>1, <1>2, <2>1 DEF CrawfordPhase
  <1>5. Scores = h.initial
    BY <1>1 DEF Healthy, Paid
  <1>6. CASE ~Over(h)
    <2>1. Scores' = Scores /\ Playing' = Playing
      BY <1>2, <1>3, <1>5, <1>6, Zenon DEF Healthy, Paid, Playing
    <2> QED BY <1>4, <2>1 DEF Board!vars
  <1>7. CASE Over(h)
    <2>1. h.initial \in ScoreSet /\ h.score \in Int
      BY <1>1 DEF GameSet
    <2>2. w \in Sides /\ Points(h) \in Nat \ {0}
      BY <1>7, <2>1, WhoWon
    <2>3. Scores' = Credit(Scores, w, Points(h))
      BY <1>2, <1>5, <1>7 DEF Healthy, Paid
    <2> HIDE DEF w, g
    <2>4. Scores'[w] = Scores[w] + Points(h) /\ Scores[w] \in Nat
      BY <1>5, <2>1, <2>2, <2>3, CreditType DEF ScoreSet
    <2>5. Scores'[w] - Scores[w] = Points(h)
      BY <2>2, <2>4
    <2>6. Scores' = [Scores EXCEPT ![w] = @ + (Scores'[w] - Scores[w])]
      BY <2>3, <2>5 DEF Credit
    <2>7. CrawfordPhase = "now" => Points(h) <= 3
      <3>1. CrawfordPhase = "now" => g.crawford
        BY DEF CrawfordPhase, g
      <3> QED BY <1>7, <3>1 DEF Turn, g
    <2>8. Playing = TRUE /\ Playing' = FALSE
      BY <1>3, <1>7, Zenon DEF Playing
    <2>9. Scores'[w] - Scores[w] > 0 /\ (CrawfordPhase = "now" => Scores'[w] - Scores[w] <= 3)
      BY <2>2, <2>5, <2>7
    <2> HIDE DEF Scores, Playing, CrawfordPhase
    <2>10. Board!FinishGame(w)
      BY <1>4, <2>6, <2>8, <2>9 DEF Board!FinishGame
    <2> QED BY <2>2, <2>10 DEF Board!Next
  <1> QED BY <1>6, <1>7

LEMMA BoardStep ==
  ASSUME ~Unfinished, Whole, Whole', [Next]_games
  PROVE  [Board!Next]_(Board!vars)
  <1>1. CASE UNCHANGED games
    BY <1>1 DEF Board!vars, Scores, Playing, CrawfordPhase, Current
  <1>2. CASE AddGame
    <2> DEFINE n == Len(games)
    <2>1. NeedsGame /\ MayAddGame /\ games' = WithNewGame
      BY <1>2 DEF AddGame
    <2>2. /\ Len(games') = n + 1
          /\ \A i \in 1..n : games'[i] = Retired(games[i])
          /\ games'[n + 1] = NewGame(Scores, IsCrawford)
      BY <2>1, WithNewGameEntries DEF Whole, History
    <2>3. \A i \in 1..n : games'[i].crawford = games[i].crawford
      BY <2>2, WholeGames, RetiredRecord
    <2>4. games' \in Seq(GameSet)
      BY DEF Whole, History, IInv, Consistent
    <2> QED BY <2>1, <2>2, <2>3, <2>4, NewGameFresh, GameStarts DEF Board!Next
  <1>3. CASE PlayTurn /\ NeedsGame
    <2> DEFINE n == Len(games)
    <2>1. PICK h : Turn(Target, h) /\ Healthy(h) /\ h.initial = Target.initial /\ Record(h)
      BY <1>3 DEF PlayTurn
    <2>2. /\ MayAddGame /\ Ready = WithNewGame /\ n \in Nat /\ games' \in Seq(GameSet)
      BY <1>3, WholeGames DEF PlayTurn, Playable, Ready, Whole, History, IInv, Consistent
    <2>3. /\ Len(Ready) = n + 1
          /\ \A i \in 1..n : Ready[i] = Retired(games[i])
          /\ Ready[n + 1] = NewGame(Scores, IsCrawford)
      BY <2>2, WithNewGameEntries DEF Whole, History
    <2>4. Ready \in Seq(GameSet)
      BY <1>3, ReadyConsistent DEF PlayTurn, Whole, History, Consistent
    <2>5. /\ Len(games') = n + 1
          /\ \A i \in 1..n : games'[i] = Retired(games[i])
          /\ games'[n + 1] = h
      BY <2>1, <2>2, <2>3, <2>4 DEF Record
    <2>6. /\ Target.last = NoAction /\ Target.initial = Scores /\ Target.crawford = IsCrawford
      BY <2>3, NewGameFresh DEF Target
    <2>7. ~Over(h) /\ h.crawford = IsCrawford /\ h.position.scores = Scores
      BY <2>1, <2>6 DEF Turn, Healthy, Paid
    <2>8. \A i \in 1..n : games'[i].crawford = games[i].crawford
      BY <2>5, WholeGames, RetiredRecord
    <2> QED BY <1>3, <2>2, <2>5, <2>7, <2>8, GameStarts DEF Board!Next
  <1>4. CASE PlayTurn /\ ~NeedsGame
    <2>1. Target = Current
      BY <1>4 DEF Target, Ready, Current
    <2> QED BY <1>4, <2>1, GameGoesOn DEF PlayTurn
  <1> QED BY <1>1, <1>2, <1>3, <1>4, PlayStep, ReadyChronicle DEF Whole, History

(***************************************************************************)
(* A match that is recorded without gaps, whatever its length and whatever *)
(* is doubled, taken, dropped or resigned on the way, is a sequence of     *)
(* games on the score board, one of them the Crawford game.                *)
(***************************************************************************)
THEOREM BoardImplemented == ASSUME ~Unfinished PROVE Spec => ImplementsScoreBoard
  <1>1. Init => Board!Init
    BY Zenon DEF Init, Board!Init, Scores, NoPoints, Playing, CrawfordPhase
  <1>2. Whole /\ Whole' /\ [Next]_games => [Board!Next]_(Board!vars)
    BY BoardStep
  <1> QED BY <1>1, <1>2, AlwaysWhole, PTL DEF Spec, ImplementsScoreBoard, Board!Spec
=============================================================================
