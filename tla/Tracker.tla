------------------------------- MODULE Tracker -------------------------------
(***************************************************************************)
(* How Gibbon records a match that is played on the server                 *)
(* (gibbon-match-tracker.c, gibbon_match_get_missing_actions() of          *)
(* gibbon-match.c, and the handlers of gibbon-session.c that keep the      *)
(* session's own position and call gibbon_match_tracker_update()).         *)
(*                                                                         *)
(* The server plays a match between White, the user or the player he       *)
(* watches, and Black.  While the client follows the match every line      *)
(* changes the session's position, and the tracker deduces from it which   *)
(* actions have to be recorded.  It does so as well when lines were missed *)
(* while the client was away.  Where no sequence of actions fits, the      *)
(* recorded match is archived and a new one starts in the middle.  Every   *)
(* action is appended to the file of the match, and the file is what is    *)
(* left when the client stops.                                             *)
(*                                                                         *)
(* Checkers are represented by the sequence of moves that brought them     *)
(* where they are; a roll is "blocked" when it cannot be played.  Not      *)
(* modelled: automatic swapping of the dice, opening doubles, ranks.       *)
(***************************************************************************)
EXTENDS Game

CONSTANTS
  Length,      \* points to play for
  MaxMoves,    \* bound on the moves of a game
  MaxCube,     \* bound on the value of the cube
  MaxGames,    \* bound on the games of a match
  MaxAway,     \* how many missed actions are counted
  Values,      \* a game is won, or resigned, for so many times the cube
  Dances       \* <<side, n>>: side may be blocked after n moves

ASSUME TrackerAssumption ==
  /\ {Length, MaxMoves, MaxCube, MaxGames, MaxAway} \subseteq Nat \ {0}
  /\ MaxAway > 2
  /\ Values \subseteq 1..3
  /\ Dances \subseteq Sides \X Nat

VARIABLES
  server,     \* the match as it is really played
  own,        \* TRUE: White is the user, FALSE: he is watched
  following,  \* priv->tracker exists
  position,   \* GibbonSessionPrivate.position
  match,      \* gibbon_app_get_match()
  file,       \* what reading the saved file back gives
  whole,      \* the record has been kept since the start of the match
  away        \* actions that have not been looked at for recording yet

vars == <<server, own, following, position, match, file, whole, away>>

-----------------------------------------------------------------------------
(***************************************************************************)
(* Match.tla works on the list of games; the checkers of the current game  *)
(* are kept beside it.                                                     *)
(***************************************************************************)
M(gs) == INSTANCE Match WITH games <- gs, Unfinished <- TRUE

Empty  == [games |-> <<>>, men |-> <<>>, blocked |-> FALSE]
NoFile == [games |-> <<>>, men |-> <<>>, blocked |-> TRUE]

Size(n) == IF n > 0 THEN n ELSE -n
Started(m) == m.games # <<>>
Play(kind, side) == [kind |-> kind, side |-> side, n |-> 0, blocked |-> FALSE]

(* A position with its checkers, all that equals_technically() sees. *)
WithMen(pos, men, blocked) ==
  [scores |-> pos.scores, turn |-> pos.turn, dice |-> pos.dice,
   cube |-> pos.cube, mayDouble |-> pos.mayDouble,
   cubeTurned |-> pos.cubeTurned, resigned |-> pos.resigned,
   score |-> pos.score, men |-> men, blocked |-> blocked]

(* gibbon_match_get_current_position() *)
View(m) == WithMen(M(m.games)!Current.position, m.men, m.blocked)
Ended(m) == Started(m) /\ M(m.games)!MatchOver

Initial(scores) == WithMen(ResetPosition(scores), <<>>, FALSE)

Allows(g, p) ==
  CASE p.kind = "roll"   -> CanRoll(g, p.side)
    [] p.kind = "move"   -> CanMove(g, p.side)
    [] p.kind = "double" -> CanDouble(g, p.side)
    [] p.kind \in {"take", "drop"}     -> CanAnswerDouble(g, p.side)
    [] p.kind = "resign"               -> CanResign(g, p.side, p.n)
    [] p.kind \in {"accept", "reject"} -> CanAnswerResign(g, p.side)

Accepts(m, p) == M(m.games)!Playable /\ Allows(M(m.games)!Target, p)

(* gibbon_game_add_action(); n is the size of a win or of a resignation    *)
Played(g, p) ==
  CASE p.kind = "roll"   -> AddRoll(g, p.side, p.side)
    [] p.kind = "move"   -> AddMove(g, p.side, p.n)
    [] p.kind = "double" -> AddDouble(g, p.side)
    [] p.kind = "take"   -> AddTake(g, p.side)
    [] p.kind = "drop"   -> AddDrop(g, p.side)
    [] p.kind = "resign" -> AddResign(g, p.side, p.n * g.position.cube)
    [] p.kind = "accept" -> AddAccept(g, p.side)
    [] p.kind = "reject" -> AddReject(g, p.side)

PlayedInLast(gs, p) == [gs EXCEPT ![Len(gs)] = Played(@, p)]

(* gibbon_match_add_action() *)
Added(m, p) ==
  [games   |-> PlayedInLast(M(m.games)!Ready, p),
   men     |-> IF M(m.games)!NeedsGame THEN <<>>
               ELSE IF p.kind = "move" /\ ~m.blocked
               THEN Append(m.men, [side |-> p.side, n |-> p.n]) ELSE m.men,
   blocked |-> IF p.kind = "roll" THEN p.blocked
               ELSE p.kind # "move" /\ m.blocked]

-----------------------------------------------------------------------------
(***************************************************************************)
(* The recovery of missing actions.  A step gives the actions found and    *)
(* the position they lead to; no actions means that there are none.        *)
(***************************************************************************)
Stuck == [plays |-> <<>>, pos |-> NoAction]
Step(plays, pos) == [plays |-> plays, pos |-> pos]

(* gibbon_position_apply_move() *)
Applied(pos, side, n) ==
  [AddMove([NewGame(NoPoints, FALSE) EXCEPT !.position = pos],
           side, n).position EXCEPT
     !.men = IF pos.blocked THEN @ ELSE Append(@, [side |-> side, n |-> n]),
     !.blocked = FALSE]

(* gibbon_match_try_accept() *)
TryAccept(cur, target) ==
  LET winner == IF cur.resigned > 0 THEN Black ELSE White IN
  IF target.scores # Credit(cur.scores, winner, Size(cur.resigned)) THEN Stuck
  ELSE Step(<<Play("accept", winner)>>,
            [cur EXCEPT !.turn = None, !.scores = target.scores,
                        !.score = cur.resigned])

(* gibbon_match_try_double() *)
TryDouble(cur, target) ==
  LET side == cur.turn IN
  IF /\ side # None
     /\ cur.mayDouble[side]
     /\ IF target.cubeTurned # None THEN target.cubeTurned = side
        ELSE IF target.cube = 1
             THEN target.scores = Credit(cur.scores, side, cur.cube)
             ELSE target.cube = 2 * cur.cube
  THEN Step(<<Play("double", side)>>, [cur EXCEPT !.cubeTurned = side])
  ELSE Stuck

(* Mutant: the taker does not get the cube. *)
TryTake_NoOwner(cur, target) ==
  IF target.cube # 2 * cur.cube THEN Stuck
  ELSE Step(<<Play("take", -cur.cubeTurned)>>,
            [cur EXCEPT !.cubeTurned = None, !.cube = 2 * @])

(* gibbon_match_try_take() *)
TryTake(cur, target) ==
  IF target.cube # 2 * cur.cube THEN Stuck
  ELSE Step(<<Play("take", -cur.cubeTurned)>>,
            [cur EXCEPT !.mayDouble = [s \in Sides |-> s = -cur.cubeTurned],
                        !.cubeTurned = None, !.cube = 2 * @])

(* gibbon_match_try_drop() *)
TryDrop(cur) ==
  Step(<<Play("drop", -cur.cubeTurned)>>,
       [cur EXCEPT !.scores = Credit(@, cur.cubeTurned, cur.cube),
                   !.score = cur.cubeTurned * cur.cube])

(* gibbon_position_check_move(): how the checkers of one position come to  *)
(* stand like those of the other, with the dice on the table or some dice. *)
Moves(cur, target, side) ==
  {n \in {0} \cup Values : target.men = Append(cur.men, [side |-> side, n |-> n])}

(* gibbon_match_try_move() *)
TryMove(cur, target) ==
  LET side == cur.turn
      won  == Moves(cur, target, side)
      n    == IF cur.blocked THEN 0 ELSE CHOOSE k \in won : TRUE
  IN IF IF cur.blocked THEN cur.men = target.men ELSE won # {}
     THEN Step(<<[Play("move", side) EXCEPT !.n = n]>>, Applied(cur, side, n))
     ELSE Stuck

(* gibbon_match_try_roll(), before the dice: who has won the opening roll? *)
Opening(cur, target) ==
  LET moved == {s \in Sides : \E i \in DOMAIN target.men : target.men[i].side = s}
  IN CASE cur.turn # None     -> {cur}
       [] cur.turn = None /\ moved = Sides -> {}
       [] cur.turn = None /\ moved = {} ->
            {[cur EXCEPT !.turn = IF target.dice THEN target.turn ELSE None,
                         !.mayDouble = target.mayDouble]}
       [] OTHER -> {[cur EXCEPT !.turn = CHOOSE s \in moved : TRUE]}

Dance(cur, target, side) ==
  cur.men = target.men /\ <<side, Len(cur.men)>> \in Dances

RollToMove(cur, target, side, dance) ==
  LET move == TryMove([cur EXCEPT !.dice = TRUE, !.blocked = dance], target)
  IN [move EXCEPT !.plays = IF @ = <<>> THEN @ ELSE
                            <<[Play("roll", side) EXCEPT !.blocked = dance]>> \o @]

(* Mutant: the dice are copied whoever is on turn. *)
RollFrom_AnyTurn(cur, target, tryMove) ==
  IF cur.men = target.men /\ target.dice
  THEN Step(<<[Play("roll", cur.turn) EXCEPT !.blocked = target.blocked]>>,
            [cur EXCEPT !.turn = target.turn, !.dice = TRUE,
                        !.blocked = target.blocked])
  ELSE Stuck

(* Without dice to copy, every roll is tried that could have been played   *)
(* to the target position.                                                 *)
RollFrom(cur, target, tryMove) ==
  IF cur.men = target.men /\ target.dice /\ target.turn = cur.turn
  THEN Step(<<[Play("roll", cur.turn) EXCEPT !.blocked = target.blocked]>>,
            [cur EXCEPT !.dice = TRUE, !.blocked = target.blocked])
  ELSE IF tryMove /\ cur.turn # None
  THEN RollToMove(cur, target, cur.turn, Dance(cur, target, cur.turn))
  ELSE Stuck

(* gibbon_match_try_roll() *)
TryRoll(cur, target, tryMove) ==
  IF Opening(cur, target) = {} THEN Stuck
  ELSE RollFrom(CHOOSE c \in Opening(cur, target) : TRUE, target, tryMove)

(* One round of _gibbon_match_get_missing_actions(): the step, and whether *)
(* a move may still be tried after it.                                     *)
Else(one, other) == IF one.step # Stuck THEN one ELSE other
Try(step, again) == [step |-> step, tryMove |-> again]

Round(cur, target, tryMove) ==
  IF cur.resigned # 0 THEN Try(TryAccept(cur, target), tryMove)
  ELSE IF cur.cubeTurned # None
  THEN Else(Try(TryTake(cur, target), tryMove), Try(TryDrop(cur), tryMove))
  ELSE IF ~cur.dice
  THEN Else(Try(TryDouble(cur, target), tryMove),
            Try(TryRoll(cur, target, tryMove), FALSE))
  ELSE IF cur.turn = None THEN Try(TryRoll(cur, target, tryMove), tryMove)
  ELSE IF tryMove THEN Try(TryMove(cur, target), FALSE)
  ELSE Try(Stuck, FALSE)

(* _gibbon_match_get_missing_actions() calls itself until the target is    *)
(* reached or no step is found.  A move is tried once, and it takes less   *)
(* than MaxRounds rounds from one move to either end.                      *)
MaxRounds == 8

Further(s, target) ==
  LET start == IF s.cur.score # 0 THEN Initial(s.cur.scores) ELSE s.cur
      round == Round(start, target, s.tryMove)
  IN IF s.stuck \/ s.cur = target THEN s
     ELSE IF round.step = Stuck THEN [s EXCEPT !.stuck = TRUE]
     ELSE [cur |-> round.step.pos, plays |-> s.plays \o round.step.plays,
           tryMove |-> round.tryMove, stuck |-> FALSE]

Search(cur, target) ==
  LET start == [cur |-> cur, plays |-> <<>>, tryMove |-> TRUE, stuck |-> FALSE]
      after[i \in 0..MaxRounds] ==
        IF i = 0 THEN start ELSE Further(after[i - 1], target)
  IN after[MaxRounds]

(* The check for pairs of positions that obviously do not fit.             *)
Fits(last, target) ==
  LET gain == [s \in Sides |-> target.scores[s] - last.scores[s]] IN
  /\ \E s \in Sides : gain[s] = 0
  /\ \A s \in Sides : gain[s] \in 0..(6 * last.cube)

Missing(last, target, check) ==
  IF last = target THEN {<<>>}
  ELSE IF check => Fits(last, target)
  THEN {s.plays : s \in {x \in {Search(last, target)} : x.cur = target}}
  ELSE {}

(***************************************************************************)
(* gibbon_match_get_missing_actions(): {} when it fails.                   *)
(***************************************************************************)
MissingActions(m, target) ==
  Missing(IF Started(m) THEN View(m) ELSE Initial(NoPoints), target, Started(m))

-----------------------------------------------------------------------------
(***************************************************************************)
(* The saved file, represented by what gibbon-gmd-reader.c makes of it.    *)
(* A file whose next line would be refused is no match any more.           *)
(***************************************************************************)
WithGameLine(f) ==
  IF f # NoFile /\ M(f.games)!MayAddGame
  THEN [games |-> M(f.games)!WithNewGame, men |-> <<>>, blocked |-> FALSE]
  ELSE NoFile

IfAccepted(f, p) == IF Accepts(f, p) THEN Added(f, p) ELSE NoFile
WithAction(f, p) == IF f = NoFile THEN NoFile ELSE IfAccepted(f, p)

(* init_match() with a start position: a game that begins there.           *)
Continued(pos) ==
  LET start == [f \in DOMAIN ResetPosition(NoPoints) |-> pos[f]] IN
  [games   |-> <<[NewGame(pos.scores, FALSE) EXCEPT !.position = start]>>,
   men     |-> pos.men,
   blocked |-> pos.blocked]

(* What gibbon_gmd_writer_write_setup() and the reader keep of a position: *)
(* an offered resignation and the result are not written, an offered       *)
(* double only once the cube has been turned before, and then in place of  *)
(* the player on turn.                                                     *)
ReadSetup(pos) ==
  LET turned == pos.cubeTurned # None
      kept   == [pos EXCEPT !.resigned = 0, !.score = 0,
                   !.turn = IF ~turned THEN @ ELSE IF pos.cube > 1
                            THEN pos.cubeTurned ELSE None,
                   !.cubeTurned = IF pos.cube > 1 THEN @ ELSE None]
      crawford == /\ \E s \in Sides : pos.scores[s] + 1 = Length
                  /\ pos.cube = 1 /\ ~\E s \in Sides : pos.mayDouble[s]
      f == Continued(kept)
  IN [f EXCEPT !.games[1].crawford = crawford]

-----------------------------------------------------------------------------
(***************************************************************************)
(* gibbon_match_tracker_update(): the outcome of recording, as a record of *)
(* the new match, file and wholeness.                                      *)
(***************************************************************************)
Outcome(m, f, w) == [match |-> m, file |-> f, whole |-> w]

Restart(target) == Outcome(Continued(target), ReadSetup(target), FALSE)

(* One action: a line "Game:" before the first action of a match and after *)
(* the first of any later game, which the reader wants to see before it.   *)
Recorded(out, p) ==
  LET newGame == ~Started(out.match) \/ M(out.match.games)!NeedsGame
  IN Outcome(Added(out.match, p),
             WithAction(IF newGame THEN WithGameLine(out.file) ELSE out.file, p),
             out.whole)

(* All of them, or {} when the match refuses one. *)
RecordAll(out, plays) ==
  LET upTo[i \in 0..Len(plays)] ==
        IF i = 0 THEN {out}
        ELSE {Recorded(o, plays[i]) :
                o \in {x \in upTo[i - 1] : Accepts(x.match, plays[i])}}
  IN upTo[Len(plays)]

Recordings(out, target) ==
  UNION {RecordAll(out, plays) : plays \in MissingActions(out.match, target)}

Closed(out) == IF Ended(out.match) THEN [out EXCEPT !.file = NoFile] ELSE out
AnyOf(outs, otherwise) == IF outs = {} THEN otherwise ELSE CHOOSE o \in outs : TRUE

(* Mutant: a position that cannot be reached is ignored. *)
Updated_KeepsOn(out, target) == Closed(AnyOf(Recordings(out, target), out))

(* A match that is over is archived, but not when it refused an action.    *)
Updated(out, target) ==
  IF MissingActions(out.match, target) # {} /\ Recordings(out, target) = {}
  THEN Restart(target)
  ELSE Closed(AnyOf(Recordings(out, target), Restart(target)))

(* gibbon_session_update_tracker() *)
Set(out) ==
  /\ match' = out.match
  /\ file'  = out.file
  /\ whole' = out.whole
  /\ following' = ~Ended(out.match)

Update(m, f, w, pos) == position' = pos /\ Set(Updated(Outcome(m, f, w), pos))

(***************************************************************************)
(* The lines of the server and what the session's handlers make of them.   *)
(* Shown(m) is the board the server sends of a running game.               *)
(***************************************************************************)
Running(m) == Started(m) /\ ~Over(M(m.games)!Current) /\ View(m).turn # None

(* gibbon_clip_reader_set_result_from_raw_board(): the flag "was doubled"  *)
(* does not tell by whom, and becomes White.                               *)
Shown(m) ==
  [View(m) EXCEPT !.cubeTurned = IF @ = None THEN None ELSE White,
                  !.resigned = 0, !.score = 0]

(* Mutant: the points are taken from the loser. *)
AfterWin_LoserPays(pos, p, winner, points) ==
  [pos EXCEPT !.scores = Credit(@, -winner, -points), !.dice = FALSE,
              !.blocked = FALSE, !.score = winner * points]

(* gibbon_session_handle_win_game(): a last move that was not announced is *)
(* completed when the dice are on the table and nothing is on offer.       *)
AfterWin(pos, p, winner, points) ==
  LET paid  == [pos EXCEPT !.scores = Credit(@, winner, points)]
      last  == p.kind = "move" /\ pos.dice
               /\ pos.cubeTurned = None /\ pos.resigned = 0
      moved == [Applied(paid, winner, p.n) EXCEPT !.scores = paid.scores]
  IN [(IF last THEN moved ELSE paid) EXCEPT !.dice = FALSE, !.blocked = FALSE,
                                            !.score = winner * points]

(* gibbon_session_handle_cannot_move(); what is done to the dice, and who  *)
(* is put on turn, depends on whose line it is.                            *)
AfterDance(pos, side) ==
  IF side = Black
  THEN [pos EXCEPT !.turn = White, !.dice = @ /\ ~own, !.blocked = @ /\ ~own]
  ELSE [pos EXCEPT !.turn = IF own THEN White ELSE Black]

(* The position after the line that reports p; won is by how much a game   *)
(* that ends with it is won.                                               *)
AfterRoll(pos, p) == [pos EXCEPT !.dice = TRUE, !.blocked = p.blocked]

AfterMove(pos, p, won) ==
  IF p.n # 0 THEN AfterWin(pos, p, p.side, won)
  ELSE IF server.blocked THEN AfterDance(pos, p.side)
  ELSE Applied(pos, p.side, 0)

(* Mutant: the right to double stays with the player who has doubled. *)
AfterOffer_DoublerKeeps(pos, p) ==
  CASE p.kind = "double" -> [pos EXCEPT !.cubeTurned = p.side]
    [] p.kind = "take"   -> [pos EXCEPT !.cubeTurned = None, !.cube = 2 * @,
                                        !.mayDouble = [s \in Sides |-> s = -p.side]]
    [] p.kind = "resign" -> [pos EXCEPT !.resigned = p.side * p.n]
    [] p.kind = "reject" -> [pos EXCEPT !.resigned = 0]

AfterOffer(pos, p) ==
  CASE p.kind = "double" -> [pos EXCEPT !.cubeTurned = p.side]
    [] p.kind = "take"   -> [pos EXCEPT !.cubeTurned = None, !.cube = 2 * @,
                                        !.mayDouble = [s \in Sides |-> s = p.side]]
    [] p.kind = "resign" -> [pos EXCEPT !.resigned = p.side * p.n]
    [] p.kind = "reject" -> [pos EXCEPT !.resigned = 0]

(* What the user himself answers is noted before the game is counted: see  *)
(* on_cube_dropped() and on_resignation_accepted().                        *)
AfterConcession(pos, p, won) ==
  LET user == own /\ p.side = White IN
  IF p.kind = "drop"
  THEN AfterWin([pos EXCEPT !.cubeTurned = IF user THEN None ELSE @],
                p, -p.side, won)
  ELSE AfterWin([pos EXCEPT !.resigned = IF user THEN 0 ELSE @], p, p.side, won)

After(pos, p, won) ==
  CASE p.kind = "roll" -> AfterRoll(pos, p)
    [] p.kind = "move" -> AfterMove(pos, p, won)
    [] p.kind \in {"double", "take", "resign", "reject"} -> AfterOffer(pos, p)
    [] p.kind \in {"drop", "accept"} -> AfterConcession(pos, p, won)

(* Dances and taken doubles change the position, but do not start a        *)
(* recording: their actions are recovered with the next line.              *)
Unannounced(p) ==
  \/ p.kind = "take"
  \/ p.kind = "move" /\ server.blocked

(* The line of action p, which has taken the server's match to m.          *)
Handle(p, m) ==
  LET pos == IF M(server.games)!NeedsGame THEN Shown(m)
             ELSE After(position, p, Size(M(m.games)!Current.score))
  IN IF Unannounced(p)
     THEN position' = pos /\ UNCHANGED <<following, match, file, whole>>
     ELSE Update(match, file, whole, pos)

(* The connection is lost, or the client stops, before a line is handled.  *)
Away == following' = FALSE /\ match' = Empty /\ position' = Initial(NoPoints)
        /\ UNCHANGED <<file, whole>>

-----------------------------------------------------------------------------
Init ==
  /\ server = Empty /\ own \in BOOLEAN /\ following = FALSE
  /\ position = Initial(NoPoints) /\ match = Empty /\ file = NoFile
  /\ whole = TRUE /\ away = 0

(***************************************************************************)
(* One player acts.  His own match does not go on without the user.        *)
(***************************************************************************)
OneMore == IF away < MaxAway THEN away + 1 ELSE away

Act(p) ==
  /\ Accepts(server, p) /\ ~Ended(server)
  /\ own => following
  /\ server' = Added(server, p)
  /\ IF following
     THEN \/ /\ Handle(p, Added(server, p))
             /\ away' = IF Unannounced(p) THEN OneMore ELSE 0
          \/ Away /\ away' = OneMore
     ELSE /\ UNCHANGED <<following, position, match, file, whole>>
          /\ away' = OneMore
  /\ UNCHANGED own

Roll(side, blocked) ==
  /\ blocked => ~M(server.games)!NeedsGame /\ <<side, Len(server.men)>> \in Dances
  /\ Act([Play("roll", side) EXCEPT !.blocked = blocked])

Move(side) ==
  /\ Len(server.men) < MaxMoves \/ server.blocked
  /\ Act(Play("move", side))

BearOff(side, n) ==
  /\ ~server.blocked
  /\ Act([Play("move", side) EXCEPT !.n = n])

Double(side) ==
  /\ Started(server) /\ View(server).cube < MaxCube
  /\ Act(Play("double", side))

Answer(side, kind) ==
  /\ kind \in {"take", "drop", "accept", "reject"}
  /\ Act(Play(kind, side))

Resign(side, n) ==
  /\ Running(server)
  /\ Act([Play("resign", side) EXCEPT !.n = n])

(* The next match of the two opponents. *)
Rematch ==
  /\ Ended(server) /\ ~following
  /\ server' = Empty /\ away' = MaxAway
  /\ UNCHANGED <<own, following, position, match, file, whole>>

(* gibbon_session_handle_now_playing(): our match begins. *)
NowPlaying ==
  /\ own /\ ~following /\ ~Started(server)
  /\ following' = TRUE /\ position' = Initial(NoPoints)
  /\ match' = Empty /\ file' = Empty /\ whole' = TRUE /\ away' = 0
  /\ UNCHANGED <<server, own>>

(* Mutant: the file of a resumed match is replaced, not appended to. *)
Board_Truncates ==
  /\ Running(server)
  /\ Update(IF following THEN match ELSE IF Started(file) THEN file ELSE Empty,
            IF following THEN file ELSE Empty,
            (~following /\ ~Started(file)) \/ whole, Shown(server))
  /\ away' = 0 /\ UNCHANGED <<server, own>>

(***************************************************************************)
(* gibbon_session_handle_board(): the first board of a match that is       *)
(* resumed or watched creates the tracker, which continues the saved file  *)
(* if there is a match in it.  The server may also send a board at any     *)
(* later time.                                                             *)
(***************************************************************************)
Board ==
  /\ Running(server)
  /\ LET saved == IF Started(file) THEN file ELSE Empty IN
     Update(IF following THEN match ELSE saved,
            IF following THEN file ELSE saved,
            (~following /\ ~Started(file)) \/ whole, Shown(server))
  /\ away' = 0 /\ UNCHANGED <<server, own>>

(* unwatching, leaving, a crash or the end of the connection. *)
Leave == following /\ Away /\ UNCHANGED <<server, own, away>>

Next ==
  \/ \E s \in Sides, b \in BOOLEAN : Roll(s, b)
  \/ \E s \in Sides : Move(s) \/ Double(s)
  \/ \E s \in Sides, n \in Values : BearOff(s, n) \/ Resign(s, n)
  \/ \E s \in Sides, kind \in {"take", "drop", "accept", "reject"} :
       Answer(s, kind)
  \/ Rematch \/ NowPlaying \/ Board \/ Leave

Spec == Init /\ [][Next]_vars

-----------------------------------------------------------------------------
Men == Seq([side : Sides, n : 0..3])

MatchSet(m) ==
  /\ M(m.games)!TypeOK
  /\ m.men \in Men /\ m.blocked \in BOOLEAN

(* The record, the file and the session's position keep their shape.       *)
TypeOK ==
  /\ MatchSet(server) /\ MatchSet(match) /\ MatchSet(file)
  /\ {own, following, whole, position.dice, position.blocked} \subseteq BOOLEAN
  /\ position.men \in Men
  /\ position.scores \in [Sides -> Nat]
  /\ position.mayDouble \in [Sides -> BOOLEAN]
  /\ {position.turn, position.cubeTurned} \subseteq Sides \cup {None}
  /\ away \in 0..MaxAway

-----------------------------------------------------------------------------
(***************************************************************************)
(* Whatever was missed, misunderstood or started over, the match that is   *)
(* recorded always has the scores of the match that is played              *)
(* (gibbon_match_tracker_update(), gibbon_session_handle_win_game()).      *)
(***************************************************************************)
ScoresFollow ==
  following /\ Started(match) =>
    M(match.games)!Scores = M(server.games)!Scores

(***************************************************************************)
(* A record that is complete can be continued from its file at any time:   *)
(* what gibbon_match_tracker_resume() would read back is the match in      *)
(* memory, with all its games and the last position.                       *)
(***************************************************************************)
FileIsMatch == following /\ whole => file = match

(***************************************************************************)
(* What is added to a complete record is true: the deduced actions lead    *)
(* the match, which applies them by rules of its own in gibbon-game.c, to  *)
(* the position of the server.  Left out is what is on offer, which the    *)
(* board does not tell.                                                    *)
(***************************************************************************)
Settled(v) == [v EXCEPT !.resigned = 0, !.cubeTurned = None]

RecordedTruly ==
  [][following' /\ whole' /\ match' # match /\ match'.games # <<>>
       => Settled(View(match))' = Settled(View(server))']_vars

(***************************************************************************)
(* A record that begins in the middle of a game has not seen the cube      *)
(* being turned, and may grant a right to double that is none (see         *)
(* OwnerDoubles below); but it never denies one and has the right cube, so *)
(* that the double which the server reports next is not refused            *)
(* (gibbon_match_tracker_update(), gibbon_game_add_roll()).                *)
(***************************************************************************)
MayDouble(v) == {s \in Sides : v.mayDouble[s]}

RightsKept ==
  [][following' /\ match' # match /\ match'.games # <<>>
       => /\ View(match)'.cube = View(server)'.cube
          /\ MayDouble(View(server))' \subseteq MayDouble(View(match))']_vars

(***************************************************************************)
(* A complete record stays complete while every line is handled, and still *)
(* when it is continued in the same game after at most two actions that    *)
(* were not recorded.  The lines that do break it: a resignation, and one  *)
(* that is accepted; a cube that the user himself drops; a board that is   *)
(* sent while Black's double is on offer; any line after the user cannot   *)
(* move, and a double after a watched player cannot.                       *)
(***************************************************************************)
LastAct == IF Started(server) THEN M(server.games)!Current.last ELSE NoAction
BlackDoubled == [kind |-> "double", side |-> Black]
Danced == position.blocked /\ ~server.blocked

Breaks ==
  \/ LastAct'.kind \in {"resign", "accept"}
  \/ own /\ LastAct' = [kind |-> "drop", side |-> White]
  \/ LastAct' = BlackDoubled /\ server' = server
  \/ Danced /\ (own \/ LastAct'.kind = "double")

LittleMissed == away <= 2 /\ Started(file) /\ Len(server.games) = Len(file.games)

RecordStaysWhole ==
  [][whole /\ following' /\ (following \/ LittleMissed) => whole' \/ Breaks]_vars

-----------------------------------------------------------------------------
(* What the documentation says, and the code does not do. *)

(***************************************************************************)
(* "A #GibbonMatchTracker records all relevant match actions": when the    *)
(* line that announces a resignation is handled, the resignation is what   *)
(* has been recorded last (gibbon_session_handle_resigns(),                *)
(* _gibbon_match_get_missing_actions()).                                   *)
(***************************************************************************)
LastRecorded == IF Started(match) THEN M(match.games)!Current.last ELSE NoAction

ResignationsAreRecorded ==
  [][following /\ following' /\ server' # server /\ LastAct'.kind = "resign"
       => LastRecorded' = LastAct']_vars

(***************************************************************************)
(* "@may_double: %TRUE if respective player may double, %FALSE otherwise": *)
(* once the cube is turned, this is its owner only, in the position of the *)
(* record as well, be it complete or continued in the middle of a game     *)
(* (gibbon_match_tracker_update(), gibbon_game_add_roll()).                *)
(***************************************************************************)
OwnerDoubles ==
  [][following' /\ match' # match /\ match'.games # <<>> /\ View(server)'.cube > 1
       => View(match)'.mayDouble = View(server)'.mayDouble]_vars
=============================================================================
