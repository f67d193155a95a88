------------------------------- MODULE Rules -------------------------------
(***************************************************************************)
(* The rules of backgammon on a board as Position.tla's BoardOf() shows    *)
(* it: my checkers positive, at Bar when they are on the bar, hers         *)
(* negative, and 0 her bar.  Results(b, die1, die2) is the set of boards   *)
(* at which a legal turn may end.  This is the specification that          *)
(* gibbon_position_check_move() is held against; it shares no definition   *)
(* with it.                                                                *)
(***************************************************************************)
EXTENDS Integers

CONSTANTS Points, Home

Start == Points + 1

\* One checker is moved by one die: from the bar if one is there, not onto
\* two of hers, and off the board only when all are at home, exactly or
\* when none is farther away.
Legal(b, i, die) ==
  /\ b[i] > 0
  /\ b[Start] > 0 => i = Start
  /\ i > die => b[i - die] >= -1
  /\ i <= die => /\ \A j \in Home + 1 .. Start : b[j] <= 0
                 /\ i = die \/ \A j \in i + 1 .. Home : b[j] <= 0

Moved(b, i, die) ==
  LET hit == i > die /\ b[i - die] = -1
  IN [j \in DOMAIN b |->
        CASE j = i -> b[j] - 1
          [] j = 0 -> IF hit THEN b[j] + 1 ELSE b[j]
          [] j = i - die /\ j # 0 -> IF hit THEN 1 ELSE b[j] + 1
          [] OTHER -> b[j]]

\* All boards one move on from those of S.
After(S, die) ==
  UNION {{Moved(b, i, die) : i \in {k \in 1..Start : Legal(b, k, die)}} : b \in S}

\* As many dice as possible are used; if only one of two can be, the higher.
Results(b, die1, die2) ==
  LET once(d)  == After({b}, d)
      lo == IF die1 < die2 THEN die1 ELSE die2
      hi == IF die1 < die2 THEN die2 ELSE die1
      both == After(once(lo), hi) \cup After(once(hi), lo)
      times[n \in 0..4] == IF n = 0 THEN {b} ELSE After(times[n - 1], die1)
      most == CHOOSE n \in 0..4 : /\ times[n] # {}
                                  /\ n = 4 \/ times[n + 1] = {}
  IN IF die1 = die2 THEN times[most]
     ELSE IF both # {} THEN both
     ELSE IF once(hi) # {} THEN once(hi)
     ELSE IF once(lo) # {} THEN once(lo)
     ELSE {b}
=============================================================================
