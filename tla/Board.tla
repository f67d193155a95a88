------------------------------- MODULE Board -------------------------------
(***************************************************************************)
(* From clicks to a move: the user plays a roll on the board by clicking   *)
(* checkers, the bar or the bear-off tray (gibbon-board.c) and picks up    *)
(* the dice; the session then compares the board with the position of the  *)
(* match, and sends the move, explains what is wrong with it, or swaps the *)
(* dice (gibbon_session_on_dice_picked_up()).  Meanwhile the same check is *)
(* asked about the other side: Black's move is read off a later position,  *)
(* with dice that are guessed, and after missed lines that position may be *)
(* anything a few steps away (gibbon_match_try_roll() and try_move()).     *)
(*                                                                         *)
(* Bounds: one roll; at most MaxMine checkers of the side on move and      *)
(* MaxHers points of the other side; Black's position is at most MaxSteps  *)
(* steps away, by dice that are on the table.                              *)
(***************************************************************************)
EXTENDS Position

LOCAL INSTANCE FiniteSetsExt
LOCAL INSTANCE SequencesExt

CONSTANTS MaxMine, MaxHers, MaxSteps

Backgammon == INSTANCE Rules

VARIABLES
  side,      \* who is on move
  position,  \* self->priv->position: points and bar
  dice,      \* its dice
  board,     \* what the board shows, or the position that is read off
  unused,    \* its unused_dice, without the zeros
  swapped,   \* dice_swapped
  steps,     \* how many steps Black is away
  sent       \* the move has been sent

vars == <<side, position, dice, board, unused, swapped, steps, sent>>

\* gibbon_position_reset_unused_dice ()
AllDice(d) == IF d[1] = d[2] THEN <<d[1], d[1], d[1], d[1]>> ELSE d

-----------------------------------------------------------------------------
(***************************************************************************)
(* Clicks.  They are only looked at when White is on move and dice are     *)
(* left.  Which die the button means depends on dice_swapped; a left click *)
(* that fails tries the other die.                                         *)
(***************************************************************************)
MayClick == side = White /\ unused # <<>> /\ sent = FALSE

Mine(pos) == {p \in 1..Points : pos.points[p] > 0}

Show(pos, left) ==
  /\ board' = pos
  /\ unused' = left
  /\ UNCHANGED <<side, position, dice, swapped, steps, sent>>

\* A checker from a point, by the k-th unused die.
Playable(point, pips) ==
  IF point - pips < 1
  THEN /\ \A p \in Mine(board) : p <= Home
       /\ point = pips \/ \A p \in Mine(board) : p <= point
  ELSE board.points[point - pips] >= -1

Placed(pos, point) ==
  IF pos.points[point] = -1
  THEN [pos EXCEPT !.points[point] = 1, !.bar[Black] = @ + 1]
  ELSE [pos EXCEPT !.points[point] = @ + 1]

Advanced(point, pips) ==
  LET left == [board EXCEPT !.points[point] = @ - 1]
  IN IF point - pips < 1 THEN left
     ELSE Placed(left, point - pips)

\* The die that button (1 is left, 3 is right) stands for.
Die(button) ==
  IF Len(unused) = 1 \/ (button = 1) # swapped THEN 1 ELSE 2

PointClick(point, button) ==
  LET first == Die(button)
      second == Die(3)
      good(k) == Playable(point, unused[k])
      fallback == /\ button = 1 /\ Len(unused) > 1
                  /\ unused[1] # unused[2]
  IN /\ MayClick
     /\ board.bar[White] = 0
     /\ board.points[point] > 0
     /\ \/ /\ good(first)
           /\ Show(Advanced(point, unused[first]), RemoveAt(unused, first))
        \/ /\ ~good(first) /\ fallback /\ good(second)
           /\ Show(Advanced(point, unused[second]), RemoveAt(unused, second))

\* A checker from the bar; dice_swapped plays no part here.
BarClick(button) ==
  LET first == IF Len(unused) = 1 \/ button = 1 THEN 1 ELSE 2
      good(k) == board.points[Bar - unused[k]] >= -1
      k == IF ~good(first) /\ button = 1 /\ Len(unused) > 1 THEN 2 ELSE first
  IN /\ MayClick
     /\ board.bar[White] > 0
     /\ good(k)
     /\ Show(Placed([board EXCEPT !.bar[White] = @ - 1], Bar - unused[k]),
             RemoveAt(unused, k))
-----------------------------------------------------------------------------
(***************************************************************************)
(* A click on the bear-off tray bears off one checker with every die that  *)
(* is left, exactly or with waste.  A single die is taken for exact only   *)
(* if three checkers stand on its point, and two dice of a double bear off *)
(* two checkers where there may be one: the board then shows a checker of  *)
(* Black.  With waste neither the point of the die nor the ace point is    *)
(* looked at.                                                              *)
(***************************************************************************)
Without(pos, point) == [pos EXCEPT !.points[point] = @ - 1]

Exact ==
  LET needed == <<3, 1, 3, 4>>[Len(unused)]
  IN \A k \in DOMAIN unused : board.points[unused[k]] >= needed

BearOffExact ==
  /\ Exact
  /\ Show(FoldLeft(Without, board, unused), <<>>)

\* gibbon_board_quick_bear_off_with_waste ()
BearOffWaste ==
  LET die == unused[1]
      Take(r, p) ==
        LET n == Max({0, Min({r.left, r.pos.points[p]})})
        IN [pos |-> [r.pos EXCEPT !.points[p] = @ - n], left |-> r.left - n]
      below == [i \in 1 .. die - 2 |-> die - i]   \* not the ace point
  IN /\ ~Exact
     /\ \A k \in DOMAIN unused : unused[k] = die
     /\ \A p \in Mine(board) : p <= die
     /\ Show(FoldLeft(Take, [pos |-> board, left |-> Len(unused)], below).pos, <<>>)

\* gibbon_board_quick_bear_off_with_waste2 (): two different dice, of which
\* one may be exact.  If it is the left one, the right one is used twice.
BearOffWaste2 ==
  LET right == unused[2]
      left  == unused[1]
      Below(r) ==    \* bear off the highest checker below a die, if any
        LET lower == {p \in Mine(r.pos) : p < r.die}
        IN IF r.die = 0 \/ lower = {} THEN r
           ELSE [pos |-> Without(r.pos, Max(lower)), die |-> 0]
      after == IF board.points[right] > 0
               THEN [pos |-> Without(board, right), left |-> left, right |-> 0]
               ELSE IF board.points[left] > 0
               THEN [pos |-> Without(board, left), left |-> right, right |-> right]
               ELSE [pos |-> board, left |-> Max({left, right}),
                     right |-> Min({left, right})]
      once  == Below([pos |-> after.pos, die |-> after.right])
      twice == Below([pos |-> once.pos, die |-> after.left])
      dice_left == SelectSeq(<<twice.die, once.die>>, LAMBDA d : d # 0)
  IN /\ ~Exact
     /\ Len(unused) = 2 /\ left # right
     /\ dice_left = <<>> \/ Mine(twice.pos) = {}
     /\ Show(twice.pos, IF twice.die = 0 THEN <<>> ELSE dice_left)

QuickBearOff ==
  /\ MayClick
  /\ board.bar[White] = 0
  /\ \A p \in Mine(board) : p <= Home
  /\ BearOffExact \/ BearOffWaste \/ BearOffWaste2

-----------------------------------------------------------------------------
(***************************************************************************)
(* gibbon_session_on_dice_picked_up(): a legal move is sent and shown.     *)
(* Otherwise the board is put back, and if dice are left the user is taken *)
(* to want them swapped; if not, he is told what is wrong.                 *)
(***************************************************************************)
DicePickedUp ==
  LET check == CheckMove(position, board, dice[1], dice[2], White)
  IN /\ side = White /\ sent = FALSE
     /\ \/ /\ check.status = "legal"
           /\ sent' = TRUE
           /\ position' = board /\ dice' = <<0, 0>> /\ unused' = <<>>
           /\ UNCHANGED <<board, swapped>>
        \/ /\ check.status # "legal"
           /\ board' = position /\ unused' = AllDice(dice)
           /\ swapped' = IF unused = <<>> THEN swapped ELSE ~swapped
           /\ UNCHANGED <<position, dice, sent>>
     /\ UNCHANGED <<side, steps>>

(***************************************************************************)
(* Black's checkers move on the server, and not always by one roll: the    *)
(* client may have missed what was in between.                             *)
(***************************************************************************)
BlackStep(i, die) ==
  /\ side = Black /\ steps < MaxSteps
  /\ LET b == BoardOf(board, Black)
     IN /\ b[i] > 0
        /\ i > die => b[i - die] >= -1
        /\ board' = PositionOf(Backgammon!Moved(b, i, die), Black)
  /\ steps' = steps + 1
  /\ UNCHANGED <<side, position, dice, unused, swapped, sent>>

-----------------------------------------------------------------------------
\* All boards with at most MaxMine of my checkers and MaxHers of her points.
Boards ==
  LET Count(s, p) == Cardinality({k \in DOMAIN s : s[k] = p})
      Hers == UNION {[S -> {1, 2}] : S \in {T \in SUBSET (1..Points) :
                                              Cardinality(T) <= MaxHers}}
      Board(s, h) == [p \in 0..Bar |-> CASE p \in DOMAIN h -> -h[p]
                                         [] p = 0 -> 0
                                         [] OTHER -> Count(s, p)]
      Apart(s, h) == \A k \in DOMAIN s : s[k] \notin DOMAIN h
      Own == {s \in [1..MaxMine -> 0..Bar] : \E k \in DOMAIN s : s[k] # 0}
  IN UNION {{Board(s, h) : h \in {g \in Hers : Apart(s, g)}} : s \in Own}

Init ==
  /\ side \in Sides
  /\ \E b \in Boards : position = PositionOf(b, side)
  /\ dice \in {d \in Dice \X Dice : side = White \/ d[1] >= d[2]}
  /\ board = position /\ unused = AllDice(dice)
  /\ swapped \in {FALSE, side = White}   \* by a preference, or right to left
  /\ steps = 0 /\ sent = FALSE

Next ==
  \/ \E point \in 1..Points, button \in {1, 3} : PointClick(point, button)
  \/ \E button \in {1, 3} : BarClick(button)
  \/ QuickBearOff
  \/ DicePickedUp
  \/ \E i \in 1..Bar, die \in {dice[1], dice[2]} : BlackStep(i, die)

Spec == Init /\ [][Next]_vars

-----------------------------------------------------------------------------
Check == CheckMove(position, board, dice[1], dice[2], side)

\* The bear-off tray has not put a checker of Black on the board.
HersShown ==
  \A p \in 1..Points : board.points[p] < 0 => position.points[p] < 0

Result ==
  BoardOf(board, side)
    \in Backgammon!Results(BoardOf(position, side), dice[1], dice[2])

(***************************************************************************)
(* "@GIBBON_MOVE_LEGAL: legal move" (gibbon-move.h).                       *)
(***************************************************************************)
LegalIsLegal == ~sent /\ Check.status = "legal" => Result

(***************************************************************************)
(* Except for what the bear-off tray does to Black's checkers: whatever    *)
(* the user has clicked together, and wherever the other side is found,    *)
(* the check says legal if and only if a turn by the rules of backgammon   *)
(* can end there.                                                          *)
(***************************************************************************)
LegalIffRules ==
  ~sent /\ (side = White => HersShown) => (Check.status = "legal" <=> Result)

(***************************************************************************)
(* With the same exception: the movements that were found are the move     *)
(* that was made.  Played on the old position, from either side, they lead *)
(* to the new one, and nothing on the way is refused.  The match record    *)
(* and the server get them.                                                *)
(***************************************************************************)
MoveApplies ==
  ~sent /\ (side = White => HersShown) /\ Check.status = "legal" =>
    ApplyMove(position, Check.moves, side, side = Black) = board
=============================================================================
