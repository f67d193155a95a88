------------------------------ MODULE Position ------------------------------
(***************************************************************************)
(* The checkers: what gibbon-position.c makes of two positions, one before *)
(* and one after a move.  gibbon_position_check_move() finds the movements *)
(* that lead from one to the other and judges them by the rules, without   *)
(* ever listing the legal moves: it guesses candidates from the points     *)
(* that lost checkers, tries each of them, and then asks whether more, or  *)
(* another die, could have been used.  gibbon_position_apply_move() plays  *)
(* the movements it found.  The module has no state; Rules.tla says what   *)
(* the answer should be, Board.tla asks the questions.                     *)
(*                                                                         *)
(* Abstraction: a board may have fewer points, a smaller home and dice to  *)
(* match.  In the program Points is 24 and Home is 6.                      *)
(***************************************************************************)
EXTENDS Integers, Sequences, FiniteSets

LOCAL INSTANCE FiniteSetsExt
LOCAL INSTANCE SequencesExt

CONSTANTS
  Points,  \* the points of the board
  Home     \* the points of the home board, and the faces of a die

ASSUME PointsAssumption == Points \in Nat /\ Points > 2 * Home
ASSUME HomeAssumption == Home \in Nat \ {0}

White == 1
Black == -1
Sides == {White, Black}
Dice  == 1..Home

(***************************************************************************)
(* A position: checkers of White count positive, those of Black negative.  *)
(* A board is the same seen by the side on move: her checkers on the bar   *)
(* at 0, mine at Bar, and the points in between in the order in which I    *)
(* leave them.                                                             *)
(***************************************************************************)
Bar == Points + 1

BoardOf(pos, side) ==
  [i \in 0..Bar |->
     CASE i = 0   -> pos.bar[-side]
       [] i = Bar -> pos.bar[side]
       [] OTHER   -> side * pos.points[IF side = White THEN i ELSE Bar - i]]

PositionOf(b, s) ==   \* the inverse of BoardOf
  [points |-> [p \in 1..Points |-> s * b[IF s = White THEN p ELSE Bar - p]],
   bar    |-> [t \in Sides |-> IF t = s THEN b[Bar] ELSE b[0]]]

\* find_backmost_checker ()
Backmost(b) ==
  LET mine == {i \in 1..Bar : b[i] > 0}
  IN IF mine = {} THEN Bar + 1 ELSE CHOOSE i \in mine : \A j \in mine : j <= i

(***************************************************************************)
(* Can any checker, a certain checker, or both dice in this order, be      *)
(* moved?  gibbon_position_can_move2() starts with moves within the board  *)
(* only, never with bearing off, and does not look for the backmost        *)
(* checker again before it moves the same one on.                          *)
(***************************************************************************)
CanMove_NoWaste(b, die) ==
  IF b[Bar] > 0 THEN b[Bar - die] >= -1
  ELSE \/ \E i \in die + 1 .. Points : b[i] >= 1 /\ b[i - die] >= -1
       \/ Backmost(b) <= Home /\ b[die] >= 1

CanMove(b, die) ==
  IF b[Bar] > 0 THEN b[Bar - die] >= -1
  ELSE \/ \E i \in die + 1 .. Points : b[i] >= 1 /\ b[i - die] >= -1
       \/ Backmost(b) <= Home /\ (b[die] >= 1 \/ die > Backmost(b))

CanMoveChecker(b, point, backmost, die) ==
  /\ b[point] >= 1
  /\ IF point > die THEN b[point - die] >= -1
     ELSE backmost <= Home /\ (point = die \/ die > backmost)

Hop(b, from, die) ==
  [b EXCEPT ![from] = @ - 1, ![from - die] = IF @ < 0 THEN 1 ELSE @ + 1]

CanMove2(b, die1, die2) ==
  IF b[Bar] > 0
  THEN b[Bar] = 1 /\ b[Bar - die1] >= -1 /\ CanMove(Hop(b, Bar, die1), die2)
  ELSE \E i \in die1 + 1 .. Points :
         /\ CanMoveChecker(b, i, Backmost(b), die1)
         /\ \/ CanMoveChecker(Hop(b, i, die1), i, Backmost(b), die2)
            \/ CanMove(Hop(b, i, die1), die2)

(***************************************************************************)
(* The candidates: sequences of movements, made from the points that have  *)
(* lost checkers, highest first.                                           *)
(***************************************************************************)
Movement(from, die) ==
  [from |-> from, to |-> IF from > die THEN from - die ELSE 0, die |-> die]

Froms(b, a) == SetToSortSeq({i \in 1..Bar : a[i] < b[i]}, >)

Swapped(s, i, j) == [s EXCEPT ![i] = s[j], ![j] = s[i]]

\* order_movements (): one pass, from the first movement to the last
OrderMovements(moves) ==
  FoldLeft(LAMBDA s, i : IF i > 1 /\ s[i].from > s[i - 1].from
                         THEN Swapped(s, i, i - 1) ELSE s,
           moves, [i \in DOMAIN moves |-> i])

FindNonDouble(froms, die1, die2) ==
  LET lo == Min({die1, die2})
      hi == Max({die1, die2})
      f  == froms[1]
      M(p, d) == Movement(p, d)
  IN CASE Len(froms) = 0 -> << <<>> >>
       [] Len(froms) = 2 -> << <<M(f, lo), M(froms[2], hi)>>,
                               <<M(f, hi), M(froms[2], lo)>> >>
       [] OTHER ->
            (IF f > lo THEN << <<M(f, lo), M(f - lo, hi)>> >> ELSE <<>>)
            \o (IF f > hi THEN << <<M(f, hi), M(f - hi, lo)>> >> ELSE <<>>)
            \o << <<M(f, lo)>>, <<M(f, hi)>>, <<M(f, lo), M(f, hi)>> >>
(***************************************************************************)
(* move_patterns1 to move_patterns4: how a double can have been used when  *)
(* checkers have left one, two, three or four points.  <<i, n>> takes one  *)
(* checker n steps from the i-th of them.                                  *)
(***************************************************************************)
MovePatterns ==
  << << <<<<1, 4>>>>, <<<<1, 3>>, <<1, 1>>>>, <<<<1, 2>>, <<1, 2>>>>,
        <<<<1, 2>>, <<1, 1>>, <<1, 1>>>>,
        <<<<1, 1>>, <<1, 1>>, <<1, 1>>, <<1, 1>>>>,
        <<<<1, 3>>>>, <<<<1, 1>>, <<1, 1>>, <<1, 1>>>>,
        <<<<1, 2>>>>, <<<<1, 1>>, <<1, 1>>>>,
        <<<<1, 1>>>> >>,
     << <<<<1, 3>>, <<2, 1>>>>, <<<<1, 2>>, <<2, 2>>>>, <<<<1, 1>>, <<2, 3>>>>,
        <<<<1, 1>>, <<1, 2>>, <<2, 1>>>>, <<<<1, 1>>, <<2, 2>>, <<2, 1>>>>,
        <<<<1, 2>>, <<2, 1>>, <<2, 1>>>>, <<<<1, 1>>, <<1, 1>>, <<2, 2>>>>,
        <<<<1, 1>>, <<1, 1>>, <<1, 1>>, <<2, 1>>>>,
        <<<<1, 1>>, <<1, 1>>, <<2, 1>>, <<2, 1>>>>,
        <<<<1, 1>>, <<2, 1>>, <<2, 1>>, <<2, 1>>>>,
        <<<<1, 1>>, <<1, 1>>, <<2, 1>>>>, <<<<1, 1>>, <<2, 1>>, <<2, 1>>>>,
        <<<<1, 2>>, <<2, 1>>>>, <<<<1, 1>>, <<2, 2>>>>,
        <<<<1, 1>>, <<2, 1>>>> >>,
     << <<<<1, 2>>, <<2, 1>>, <<3, 1>>>>, <<<<1, 1>>, <<2, 2>>, <<3, 1>>>>,
        <<<<1, 1>>, <<2, 1>>, <<3, 2>>>>,
        <<<<1, 1>>, <<1, 1>>, <<2, 1>>, <<3, 1>>>>,
        <<<<1, 1>>, <<2, 1>>, <<2, 1>>, <<3, 1>>>>,
        <<<<1, 1>>, <<2, 1>>, <<3, 1>>, <<3, 1>>>>,
        <<<<1, 1>>, <<2, 1>>, <<3, 1>>>> >>,
     << <<<<1, 1>>, <<2, 1>>, <<3, 1>>, <<4, 1>>>> >> >>

FindDouble(froms, die) ==
  LET Steps(p) == [j \in 1..p[2] |-> Movement(froms[p[1]] - (j - 1) * die, die)]
      Moves(pattern) == FlattenSeq([i \in DOMAIN pattern |-> Steps(pattern[i])])
      BearsOff(pattern) == \E i \in DOMAIN pattern :
                             froms[pattern[i][1]] <= pattern[i][2] * die
      Found(pattern) == IF BearsOff(pattern) THEN OrderMovements(Moves(pattern))
                        ELSE Moves(pattern)
  IN IF froms = <<>> THEN << <<>> >>
     ELSE LET patterns == MovePatterns[Min({Len(froms), 4})]
          IN [i \in DOMAIN patterns |-> Found(patterns[i])]
(***************************************************************************)
(* gibbon_position_is_diff(): do the movements lead from b to a?  "no" or  *)
(* "blocked" if they do not, otherwise what is to be said about bearing    *)
(* off: "legal", "premature" or "waste".                                   *)
(***************************************************************************)
BearOffStatus(c, m, so_far) ==
  CASE m.to > 0 -> so_far
    [] m.to = 0 /\ Backmost(c) > Home -> "premature"
    [] m.to = 0 /\ Backmost(c) <= Home
         /\ m.from \notin {m.die, Backmost(c)} -> "waste"
    [] OTHER -> so_far

Played(c, m) ==
  LET left == [c EXCEPT ![m.from] = @ - 1]
  IN IF m.to = 0 THEN left
     ELSE IF c[m.to] = -1 THEN [left EXCEPT ![m.to] = 1, ![0] = @ + 1]
     ELSE [left EXCEPT ![m.to] = @ + 1]

DiffStep(r, m) ==
  IF r.status \in {"no", "blocked"} THEN r
  ELSE IF m.from <= 0 THEN [r EXCEPT !.status = "no"]
  ELSE IF m.to > 0 /\ r.board[m.to] < -1 THEN [r EXCEPT !.status = "blocked"]
  ELSE [board |-> Played(r.board, m),
        status |-> BearOffStatus(r.board, m, r.status)]

IsDiff(b, a, moves) ==
  LET after[i \in 0..Len(moves)] ==
        IF i = 0 THEN [board |-> b, status |-> "legal"]
        ELSE DiffStep(after[i - 1], moves[i])
      end == after[Len(moves)]
  IN IF end.status = "blocked" \/ end.board = a THEN end.status ELSE "no"

(***************************************************************************)
(* What follows when a candidate is right: have I entered from the bar     *)
(* first, and used as many dice as I can, the higher one in doubt?         *)
(***************************************************************************)
Verdict(b, a, die1, die2, moves) ==
  LET n     == Len(moves)
      this  == IF moves[1].die = die1 THEN die1 ELSE die2
      other == IF moves[1].die = die1 THEN die2 ELSE die1
  IN CASE a[Bar] > 0 /\ \E i \in DOMAIN moves : moves[i].from # Bar -> "dancing"
       [] OTHER ->
          IF die1 = die2
          THEN IF n # 4 /\ CanMove(a, die1) THEN "use all" ELSE "legal"
          ELSE IF n = 0
          THEN IF CanMove(a, die1) \/ CanMove(a, die2) THEN "use all" ELSE "legal"
          ELSE IF n = 1
          THEN IF CanMove(a, other) THEN "use all"
               ELSE IF CanMove2(b, die1, die2) \/ CanMove2(b, die2, die1)
               THEN "try swap"
               ELSE IF this < other /\ CanMove(b, other)
                       /\ ~(moves[1].to = 0 /\ this >= Backmost(b))
               THEN "use higher"
               ELSE "legal"
          ELSE "legal"

(***************************************************************************)
(* gibbon_position_check_move(): the first legal candidate, or else the    *)
(* first that leads to the position at all.  A fifth starting point would  *)
(* be written behind the end of froms[4] before it is refused; more than   *)
(* four checkers never leave their points in what Board.tla asks.          *)
(***************************************************************************)
CheckMove(before, after, die1, die2, side) ==
  LET b == BoardOf(before, side)
      a == BoardOf(after, side)
      froms == Froms(b, a)
      found == IF die1 = die2 THEN FindDouble(froms, die1)
               ELSE FindNonDouble(froms, die1, die2)
      status == [i \in DOMAIN found |-> IsDiff(b, a, found[i])]
      legal == {i \in DOMAIN found : status[i] = "legal"}
      hits  == {i \in DOMAIN found : status[i] \notin {"no", "blocked"}}
  IN CASE Len(froms) > 4 -> [status |-> "too many", moves |-> <<>>]
       [] Len(froms) <= 4 /\ legal # {} ->
            LET moves == found[Min(legal)]
            IN [status |-> Verdict(b, a, die1, die2, moves), moves |-> moves]
       [] Len(froms) <= 4 /\ legal = {} /\ hits # {} ->
            [status |-> status[Min(hits)], moves |-> found[Min(hits)]]
       [] OTHER -> [status |-> "illegal", moves |-> <<>>]

(***************************************************************************)
(* gibbon_position_apply_move(): the movements of side, counted from her   *)
(* own side when reverse is true, played on a position.  It gives up at    *)
(* the first movement that does not fit; a blocked target only loses the   *)
(* checker, with a complaint.                                              *)
(***************************************************************************)
Failed == [points |-> <<>>, bar |-> <<>>]

Normalized(m, reverse) ==
  IF reverse THEN [m EXCEPT !.from = Bar - @, !.to = Bar - @] ELSE m

Land_NoBar(pos, to, side) ==
  IF side * pos.points[to] >= 0 THEN [pos EXCEPT !.points[to] = @ + side]
  ELSE IF pos.points[to] = -side THEN [pos EXCEPT !.points[to] = side]
  ELSE pos

Land(pos, to, side) ==
  IF side * pos.points[to] >= 0 THEN [pos EXCEPT !.points[to] = @ + side]
  ELSE IF pos.points[to] = -side
  THEN [pos EXCEPT !.points[to] = side, !.bar[-side] = @ + 1]
  ELSE pos

\* Her own bar is as far as she can be from home.
BarOf(side) == IF side = White THEN Bar ELSE 0

Lifted(pos, from, side) ==
  IF from = BarOf(side) THEN [pos EXCEPT !.bar[side] = @ - 1]
  ELSE [pos EXCEPT !.points[from] = @ - side]

ApplyStep(pos, move, side, reverse) ==
  LET m   == Normalized(move, reverse)
      off == Bar - BarOf(side)
  IN IF \/ pos = Failed
        \/ m.from \notin (1..Points) \cup {BarOf(side)}
        \/ m.to \notin (1..Points) \cup {off}
        \/ m.from = BarOf(side) /\ pos.bar[side] = 0
        \/ m.from # BarOf(side) /\ side * pos.points[m.from] <= 0
     THEN Failed
     ELSE IF m.to = off THEN Lifted(pos, m.from, side)
     ELSE Land(Lifted(pos, m.from, side), m.to, side)

ApplyMove(pos, moves, side, reverse) ==
  LET after[i \in 0..Len(moves)] ==
        IF i = 0 THEN pos ELSE ApplyStep(after[i - 1], moves[i], side, reverse)
  IN after[Len(moves)]
=============================================================================
