--------------------------------- MODULE Play ---------------------------------
(***************************************************************************)
(* The session while matches are played, watched, left and resumed:        *)
(* gibbon-session.c with its opponent, the player it watches, the tracker  *)
(* that records a match, and the player list; gibbon-archive.c with what   *)
(* it books on the reliability of players.  The server is not part of the  *)
(* repository: it is modelled as the handlers see it, the truth they       *)
(* should agree with.                                                      *)
(*                                                                         *)
(* A line is a record [is, a, b], the players in a and b.  Lines arrive in *)
(* order.  What the client does depends on that order only, and not on how *)
(* long they are underway, so that the next event happens when the lines   *)
(* of the last one have been handled.  Positions are reduced to the names  *)
(* of the players; that of the tracker is the match it records, see        *)
(* Tracker.tla for what it does with positions.                            *)
(***************************************************************************)
EXTENDS Integers, Sequences, FiniteSets, SequencesExt

CONSTANTS
  Me,         \* the login name
  Others,     \* names of other players
  None,       \* no player
  MaxEvents   \* bound on what happens on the server

ASSUME NamesAssumption  == Me \notin Others /\ None \notin Others \cup {Me}
ASSUME AbsentAssumption == "absent" \notin Others \cup {Me, None}
ASSUME FiniteAssumption == IsFiniteSet(Others)
ASSUME BoundsAssumption == MaxEvents \in Nat

VARIABLES
  \* gibbon-session.c
  opponent,   \* the player I play with, or the opponent of the one I watch
  watching,   \* the player I watch
  tracker,    \* <<white, black>>: the match that is recorded, or None
  board,      \* <<white, black>>: the players of the position, or None
  list,       \* player list: a player's opponent as far as known
  saved,      \* saved_games: opponents of saved matches
  asked,      \* expect_who_infos
  boardAsked, \* the command "board" is underway
  alive,      \* FALSE: the session is gone, or uses freed memory from here on
  \* gibbon-archive.c
  droppers,   \* keys of the interrupted matches
  booked,     \* activities booked: wins, drops and resumes of each player
  \* the server
  lines, online, playing, suspended, seen,
  \* what really happened
  truth,      \* for each player: matches finished among others, finished with
              \* me, dropped by logging out, left with me as the opponent or by
              \* me, and matches that either of the two players broke off
  events

session == <<opponent, watching, tracker, board, list, saved, asked, boardAsked, alive>>
archive == <<droppers, booked>>
server  == <<online, playing, suspended, seen, truth, events>>
vars    == <<session, archive, lines, server>>

Players == Others \cup {Me}
Pairs   == {{x, y} : x, y \in Players} \ {{x} : x \in Players}
Busy(x) == \E m \in playing : x \in m
Against(x) == IF Busy(x) THEN CHOOSE y \in Players : {x, y} \in playing ELSE None

-----------------------------------------------------------------------------
(* gibbon-archive.c *)

Add(what, who) == booked' = [booked EXCEPT ![what] = [x \in Players |-> @[x] + IF x \in who THEN 1 ELSE 0]]

(* The key under which a drop is remembered is built without a colon       *)
(* between the port and the dropper, the key that is looked up with one.   *)
Key(colon, x, y) == <<colon, x, y>>

(* gibbon_archive_save_win(), gibbon_archive_remove_from_droppers() *)
SaveWin(winner, loser) ==
  /\ droppers' = droppers \ {Key(TRUE, winner, loser), Key(TRUE, loser, winner)}
  /\ Add("wins", {winner, loser})

(* gibbon_archive_save_drop() *)
SaveDrop(dropper, victim) ==
  /\ droppers' = droppers \cup {Key(FALSE, dropper, victim)}
  /\ Add("drops", {dropper})

(* gibbon_archive_save_resume(), for players that are not robots. *)
SaveResume(x, y) ==
  LET keys == {Key(TRUE, x, y), Key(TRUE, y, x)} \cap droppers
      key  == IF Key(TRUE, x, y) \in keys THEN Key(TRUE, x, y) ELSE Key(TRUE, y, x)
  IN IF keys = {} THEN UNCHANGED archive
     ELSE droppers' = droppers \ {key} /\ Add("resumes", {key[2]})

-----------------------------------------------------------------------------
(* Handlers of gibbon-session.c.  Receive(kind) takes a line. *)
Receive(kind) ==
  /\ alive /\ lines # <<>> /\ Head(lines).is = kind
  /\ lines' = Tail(lines)
  /\ UNCHANGED server

A == Head(lines).a
B == Head(lines).b

Session(o, w, t) == opponent' = o /\ watching' = w /\ tracker' = t

(* gibbon_session_stop_playing() *)
StopPlaying == Session(None, None, None)

(* gibbon_session_update_tracker(): a position of other players makes the  *)
(* tracker begin a new match; over: the match has come to its end.         *)
UpdateTracker(t, over) ==
  IF t = None THEN UNCHANGED <<opponent, watching, tracker>>
  ELSE IF over THEN StopPlaying
  ELSE tracker' = board /\ UNCHANGED <<opponent, watching>>

(* Mutant: only a who info of a player who is free gets into the list. *)
HandleWhoInfo_FreeOnly ==
  /\ Receive("who")
  /\ asked' = asked \ {A}
  /\ list' = [list EXCEPT ![A] = IF B[1] = None THEN None ELSE @]
  /\ IF A = Me
     THEN IF B = <<IF watching = None THEN opponent ELSE None, watching>>
          THEN UNCHANGED <<opponent, watching, tracker>>
          ELSE Session(B[1], B[2], None)
     ELSE UNCHANGED <<opponent, watching, tracker>>
  /\ UNCHANGED <<board, saved, boardAsked, alive, archive>>

(* Mutant: a dash is taken for an opponent. *)
HandleWhoInfo_Dash ==
  /\ Receive("who")
  /\ asked' = asked \ {A}
  /\ list' = [list EXCEPT ![A] = IF B[1] = None THEN "-" ELSE B[1]]
  /\ UNCHANGED <<opponent, watching, tracker, board, saved, boardAsked, alive, archive>>

(* gibbon_session_clip_who_info(): B is the opponent and the player that A *)
(* watches.  stop_playing() forgets the opponent, too, before a change of  *)
(* the player watched is stored.                                           *)
HandleWhoInfo ==
  /\ Receive("who")
  /\ asked' = asked \ {A}
  /\ list' = [list EXCEPT ![A] = B[1]]
  /\ IF A = Me
     THEN LET o == IF B[1] = opponent THEN <<opponent, watching, tracker>>
                                      ELSE <<B[1], None, None>>
          IN IF B[2] = o[2] THEN Session(o[1], o[2], o[3]) ELSE Session(None, B[2], None)
     ELSE UNCHANGED <<opponent, watching, tracker>>
  /\ UNCHANGED <<board, saved, boardAsked, alive, archive>>

(* gibbon_session_clip_login() *)
HandleLogin ==
  /\ Receive("login")
  /\ asked' = asked \cup {A}
  /\ UNCHANGED <<opponent, watching, tracker, board, list, saved, boardAsked, alive, archive>>

(* Mutant: the player stays in the list. *)
HandleLogout_Listed ==
  /\ Receive("logout")
  /\ asked' = asked \ {A} /\ UNCHANGED list
  /\ IF list[A] \in Players THEN SaveDrop(A, list[A]) ELSE UNCHANGED archive
  /\ IF A \in {watching, opponent} THEN StopPlaying ELSE UNCHANGED <<opponent, watching, tracker>>
  /\ UNCHANGED <<board, saved, boardAsked, alive>>

(* gibbon_session_clip_logout() *)
HandleLogout ==
  /\ Receive("logout")
  /\ list' = [list EXCEPT ![A] = "absent"]
  /\ IF list[A] \in Players
     THEN asked' = (asked \ {A}) \cup {list[A]} /\ SaveDrop(A, list[A])
     ELSE asked' = asked \ {A} /\ UNCHANGED archive
  /\ IF A \in {watching, opponent} THEN StopPlaying ELSE UNCHANGED <<opponent, watching, tracker>>
  /\ saved' = IF A = opponent /\ watching = None THEN saved \cup {A} ELSE saved
  /\ UNCHANGED <<board, boardAsked, alive>>

(* gibbon_session_handle_no_such_user() *)
HandleNoSuchUser ==
  /\ Receive("unknown")
  /\ asked' = asked \ {A} /\ list' = [list EXCEPT ![A] = "absent"]
  /\ UNCHANGED <<opponent, watching, tracker, board, saved, boardAsked, alive, archive>>

(* gibbon_session_handle_board(), with gibbon_session_start_playing(). *)
HandleBoard ==
  LET stop == A = Me /\ watching # None
      w    == IF stop THEN None ELSE watching
      t    == IF stop THEN None ELSE tracker
      mine == A = Me \/ (w # None /\ w = A)
  IN /\ Receive("board")
     /\ board' = <<A, B>>
     /\ Session(B, w, IF mine THEN board' ELSE t)
     /\ UNCHANGED <<list, saved, asked, boardAsked, alive, archive>>

(* gibbon_session_handle_youre_watching() *)
HandleYoureWatching ==
  /\ Receive("watching")
  /\ Session(None, A, None)
  /\ UNCHANGED <<board, list, saved, asked, boardAsked, alive, archive>>

(* GIBBON_CLIP_STOP_WATCHING in gibbon_session_process_server_line(), like *)
(* the start of a match of others, does not touch the session.             *)
HandleStopWatching ==
  /\ Receive("unwatched")
  /\ UNCHANGED <<session, archive>>

(***************************************************************************)
(* gibbon_session_handle_now_playing().  It frees the name of the player   *)
(* watched and keeps the pointer, which is freed again later.              *)
(***************************************************************************)
HandleNowPlaying ==
  /\ Receive("playing")
  /\ Session(A, watching, <<Me, A>>)
  /\ alive' = (watching = None)
  /\ board' = None /\ saved' = saved \ {A}
  /\ UNCHANGED <<list, asked, boardAsked, archive>>

(* Mutant: what went before is not stopped. *)
HandleResume_NoStop ==
  /\ Receive("resuming")
  /\ Session(A, watching, tracker)
  /\ board' = None /\ boardAsked' = TRUE
  /\ SaveResume(Me, A)
  /\ UNCHANGED <<list, saved, asked, alive>>

(* gibbon_session_handle_resume() *)
HandleResume ==
  /\ Receive("resuming")
  /\ Session(A, None, None)
  /\ board' = None /\ boardAsked' = TRUE
  /\ SaveResume(Me, A)
  /\ UNCHANGED <<list, saved, asked, alive>>

(***************************************************************************)
(* gibbon_session_handle_rolls(), moves(), doubles(), resigns() for a      *)
(* player who is known, by whatever name; of no consequence otherwise.     *)
(***************************************************************************)
HandleAction ==
  /\ Receive("acts")
  /\ IF A \in {Me, opponent, watching} THEN UpdateTracker(tracker, FALSE)
                                       ELSE UNCHANGED <<opponent, watching, tracker>>
  /\ UNCHANGED <<board, list, saved, asked, boardAsked, alive, archive>>

(* gibbon_session_handle_win_game() for the last game of a match. *)
HandleWinGame ==
  /\ Receive("wins")
  /\ IF A \in {Me, opponent, watching} THEN UpdateTracker(tracker, TRUE)
                                       ELSE UNCHANGED <<opponent, watching, tracker>>
  /\ UNCHANGED <<board, list, saved, asked, boardAsked, alive, archive>>

(* gibbon_session_handle_win_match() *)
HandleWinMatch ==
  /\ Receive("winsMatch")
  /\ IF opponent # None /\ watching = None
     THEN asked' = asked \cup {opponent, Me} /\ SaveWin(opponent, Me)
     ELSE UNCHANGED <<asked, archive>>
  /\ UNCHANGED <<opponent, watching, tracker, board, list, saved, boardAsked, alive>>

(* gibbon_session_handle_async_win_match() *)
HandleAsyncWinMatch ==
  /\ Receive("finished")
  /\ asked' = asked \cup {A, B} /\ SaveWin(A, B)
  /\ UNCHANGED <<opponent, watching, tracker, board, list, saved, boardAsked, alive>>

(* gibbon_session_handle_resume_match() *)
HandleResumeMatch ==
  /\ Receive("resumed")
  /\ asked' = asked \cup {A, B} /\ SaveResume(A, B)
  /\ UNCHANGED <<opponent, watching, tracker, board, list, saved, boardAsked, alive>>

(***************************************************************************)
(* gibbon_session_handle_left_game(), for GIBBON_CLIP_LEFT_GAME and        *)
(* GIBBON_CLIP_DROPS_GAME: whoever has left, the drop is booked on me.     *)
(***************************************************************************)
HandleLeftGame ==
  /\ Receive("left")
  /\ IF watching = None /\ A \in {opponent, Me} /\ opponent # None
     THEN /\ saved' = IF A = opponent THEN saved \cup {A} ELSE saved
          /\ asked' = asked \cup {Me, opponent}
          /\ SaveDrop(Me, opponent)
          /\ opponent' = None
     ELSE UNCHANGED <<saved, asked, archive, opponent>>
  /\ UNCHANGED <<watching, tracker, board, list, boardAsked, alive>>

(***************************************************************************)
(* gibbon_session_finalize(), when the user disconnects or quits, or the   *)
(* connection is lost: a drop is booked even when the opponent is that of  *)
(* the player I watch.                                                     *)
(***************************************************************************)
Finalize ==
  /\ alive /\ alive' = FALSE
  /\ IF opponent # None THEN SaveDrop(Me, opponent) ELSE UNCHANGED archive
  /\ UNCHANGED <<opponent, watching, tracker, board, list, saved, asked, boardAsked,
                 lines, server>>

Handle ==
  \/ HandleWhoInfo \/ HandleLogin \/ HandleLogout \/ HandleNoSuchUser
  \/ HandleBoard \/ HandleYoureWatching \/ HandleStopWatching
  \/ HandleNowPlaying \/ HandleResume \/ HandleAction
  \/ HandleWinGame \/ HandleWinMatch \/ HandleAsyncWinMatch
  \/ HandleResumeMatch \/ HandleLeftGame \/ Finalize

-----------------------------------------------------------------------------
(***************************************************************************)
(* The server.  An event tells those it concerns, in lines of its own, and *)
(* broadcasts the who infos of the players whose opponent has changed, and *)
(* mine when I begin or stop watching, in any order, before the other      *)
(* lines or after them.                                                    *)
(***************************************************************************)
Line(is, a, b) == [is |-> is, a |-> a, b |-> b]

Watched(x) == IF x = Me THEN seen ELSE None
WhoInfo(x) == Line("who", x, <<Against(x), Watched(x)>>)

Quiet == alive /\ lines = <<>>

Event(told, changed) ==
  /\ Quiet /\ events < MaxEvents /\ events' = events + 1
  /\ \E whos \in SetToSeqs({WhoInfo(x)' : x \in changed}) :
       lines' = told \o whos \/ lines' = whos \o told
  /\ UNCHANGED <<session, archive>>

(* new: for some of the counters, whose number goes up. *)
Count(new) ==
  truth' = [k \in DOMAIN truth |-> [x \in Players |->
              truth[k][x] + IF k \in DOMAIN new /\ x \in new[k] THEN 1 ELSE 0]]

LogsIn(x) ==
  /\ x \in Others \ online /\ online' = online \cup {x}
  /\ UNCHANGED <<playing, suspended, seen, truth>>
  /\ Event(<<Line("login", x, None)>>, {})

(* A player logs out, in the middle of a match perhaps; my opponent is     *)
(* announced in two lines.                                                 *)
LogsOut(x) ==
  /\ x \in Others \cap online /\ online' = online \ {x}
  /\ LET match == {m \in playing : x \in m}
     IN /\ playing' = playing \ match /\ suspended' = suspended \cup match
        /\ IF match = {} THEN UNCHANGED truth
           ELSE Count([dropped |-> {x}, broken |-> UNION match])
        /\ seen' = IF seen = x THEN None ELSE seen
        /\ \E told \in {<<"logout">>} \cup (IF {x, Me} \in match
                       THEN {<<"left", "logout">>, <<"logout", "left">>} ELSE {}) :
             Event([i \in DOMAIN told |-> Line(told[i], x, None)],
                   ((UNION match) \cup IF seen = x THEN {Me} ELSE {}) \ {x})

(* Two others begin a match, or resume one. *)
Begin(x, y) ==
  /\ x # y /\ {x, y} \subseteq Others \cap online /\ ~Busy(x) /\ ~Busy(y)
  /\ playing' = playing \cup {{x, y}} /\ suspended' = suspended \ {{x, y}}
  /\ UNCHANGED <<online, seen, truth>>
  /\ \/ Event(<<>>, {x, y})
     \/ {x, y} \in suspended /\ Event(<<Line("resumed", x, y)>>, {x, y})

(* I begin a match, or resume one, and do not watch any longer. *)
IBegin(y) ==
  /\ y \in online /\ ~Busy(Me) /\ ~Busy(y)
  /\ playing' = playing \cup {{Me, y}} /\ suspended' = suspended \ {{Me, y}}
  /\ seen' = None /\ UNCHANGED <<online, truth>>
  /\ LET stop == IF seen = None THEN <<>> ELSE <<Line("unwatched", seen, None)>>
     IN \/ Event(stop \o <<Line("playing", y, None), Line("board", Me, y)>>, {Me, y})
        \/ /\ {Me, y} \in suspended
           /\ Event(stop \o <<Line("resuming", y, None)>>, {Me, y})

(* x wins against y. *)
Finish(x, y) ==
  /\ {x, y} \in playing /\ playing' = playing \ {{x, y}}
  /\ Count(IF Me \in {x, y} THEN [mine |-> {x, y}] ELSE [finished |-> {x, y}])
  /\ UNCHANGED <<online, suspended, seen>>
  /\ LET told == IF Me \in {x, y}
                 THEN <<Line("wins", x, None), Line("winsMatch", x, None)>>
                 ELSE (IF seen \in {x, y} THEN <<Line("wins", x, None)>> ELSE <<>>)
                      \o <<Line("finished", x, y)>>
     IN Event(told, {x, y})

(* x leaves the match with y, without logging out. *)
Leave(x, y) ==
  /\ {x, y} \in playing /\ playing' = playing \ {{x, y}}
  /\ suspended' = suspended \cup {{x, y}}
  /\ Count([left |-> IF Me \in {x, y} THEN {x} ELSE {}, broken |-> {x, y}])
  /\ UNCHANGED <<online, seen>>
  /\ Event(IF Me \in {x, y} THEN <<Line("left", x, None)>> ELSE <<>>, {x, y})

IWatch(x) ==
  /\ x \in online /\ ~Busy(Me) /\ seen' = x
  /\ UNCHANGED <<online, playing, suspended, truth>>
  /\ Event(<<Line("watching", x, None)>>, {Me})

IUnwatch ==
  /\ seen # None /\ seen' = None
  /\ UNCHANGED <<online, playing, suspended, truth>>
  /\ Event(<<Line("unwatched", seen, None)>>, {Me})

(* A turn of the match that I play or watch. *)
Turn ==
  LET x == IF Busy(Me) THEN Me ELSE seen
      y == Against(x)
  IN /\ x # None /\ y # None
     /\ \E l \in {Line("acts", x, None), Line("acts", y, None), Line("board", x, y)} :
          Event(<<l>>, {})
     /\ UNCHANGED <<online, playing, suspended, seen, truth>>

(* Replies, which do not count as events.  A who info may come at any time *)
(* for anybody: the question may have been settled by a broadcast.         *)
Reply(line) ==
  /\ Quiet /\ lines' = <<line>>
  /\ UNCHANGED <<opponent, watching, tracker, board, list, saved, asked, alive, archive, server>>

ReplyWho(x) ==
  /\ UNCHANGED boardAsked
  /\ Reply(IF x \in online \cup {Me} THEN WhoInfo(x) ELSE Line("unknown", x, None))

ReplyBoard ==
  LET x == IF Busy(Me) THEN Me ELSE seen
  IN /\ boardAsked /\ boardAsked' = FALSE
     /\ IF x # None /\ Against(x) # None
        THEN Reply(Line("board", x, Against(x)))
        ELSE Quiet /\ UNCHANGED <<opponent, watching, tracker, board, list, saved, asked,
                                  alive, archive, lines, server>>

-----------------------------------------------------------------------------
Zero == [x \in Players |-> 0]

(* After the login, when everybody else is offline. *)
Init ==
  /\ opponent = None /\ watching = None /\ tracker = None /\ board = None
  /\ list = [x \in Players |-> IF x = Me THEN None ELSE "absent"]
  /\ saved = {} /\ asked = {} /\ boardAsked = FALSE /\ alive = TRUE
  /\ droppers = {} /\ booked = [wins |-> Zero, drops |-> Zero, resumes |-> Zero]
  /\ lines = <<>> /\ online = {} /\ playing = {} /\ suspended = {} /\ seen = None
  /\ truth = [finished |-> Zero, mine |-> Zero, dropped |-> Zero, left |-> Zero,
              broken |-> Zero]
  /\ events = 0

Serve ==
  \/ \E x \in Others : LogsIn(x) \/ LogsOut(x) \/ IBegin(x) \/ IWatch(x)
  \/ \E x, y \in Players : Begin(x, y) \/ Finish(x, y) \/ Leave(x, y)
  \/ IUnwatch \/ Turn \/ ReplyBoard
  \/ \E x \in Players : ReplyWho(x)

Next == Handle \/ Serve

Spec == Init /\ [][Next]_vars

-----------------------------------------------------------------------------
TypeOK ==
  /\ opponent \in Players \cup {None} /\ watching \in Others \cup {None}
  /\ tracker \in {None} \cup (Players \X Players)
  /\ board \in {None} \cup (Players \X Players)
  /\ list \in [Players -> Players \cup {None, "absent"}]
  /\ saved \subseteq Others /\ asked \subseteq Players
  /\ boardAsked \in BOOLEAN /\ alive \in BOOLEAN
  /\ droppers \subseteq BOOLEAN \X Players \X Players

(***************************************************************************)
(* When everything the server has said is handled, the session agrees with *)
(* it: it knows the match that I play, it does not think that I watch      *)
(* meanwhile, and the player list knows who is there and plays with whom.  *)
(* A player who is missing from the list has been asked for.               *)
(***************************************************************************)
Agreement ==
  Quiet =>
    /\ Busy(Me) => opponent = Against(Me) /\ watching = None
    /\ watching # None => watching = seen
    /\ \A x \in Others :
         IF list[x] = "absent" THEN x \in online => x \in asked
                               ELSE x \in online /\ list[x] = Against(x)

(***************************************************************************)
(* Three variables that many handlers change never contradict each other:  *)
(* the match that is recorded is one between the opponent and me, or the   *)
(* player I watch, whatever went before, and never one of mine while I     *)
(* watch.                                                                  *)
(***************************************************************************)
RecordsRightMatch ==
  alive /\ tracker # None /\ opponent # None =>
    tracker = <<IF watching = None THEN Me ELSE watching, opponent>>

(***************************************************************************)
(* Nothing is booked twice on the reliability of a player, and what the    *)
(* client can tell is not forgotten, although it learns of it from lines   *)
(* that do not say so: each match among others that is finished, and each  *)
(* match they drop by logging out, is booked exactly once on them.         *)
(* Whoever leaves a match with me without logging out is charged at most   *)
(* once for it, and so am I for each match of mine that is broken off; the *)
(* end of a match of mine is booked at most once.                          *)
(***************************************************************************)
BookedOnce ==
  Quiet =>
    /\ \A x \in Others : booked.drops[x] - truth.dropped[x] \in 0..truth.left[x]
    /\ \A x \in Others : booked.wins[x] - truth.finished[x] \in 0..truth.mine[x]
    /\ booked.drops[Me] <= truth.broken[Me] /\ booked.wins[Me] <= truth.mine[Me]

-----------------------------------------------------------------------------
(* What the documentation says, and the code does not do. *)

(***************************************************************************)
(* "Whenever somebody terminates a match prematurely, this is considered a *)
(* drop", and "the dropper gets a malus of one point"                      *)
(* (gibbon_session_handle_left_game(), gibbon_archive_save_drop()): who    *)
(* leaves a match or logs out in the middle of it is charged once, and     *)
(* nobody else.  Matches that others leave are not counted, the server     *)
(* does not tell who left.                                                 *)
(***************************************************************************)
DropsOnTheDropper ==
  Quiet => \A x \in Players : booked.drops[x] = truth.dropped[x] + truth.left[x]

(***************************************************************************)
(* "Every player that finishes a match is assigned one point.": so are my  *)
(* opponent and I (gibbon_session_handle_win_match()).                     *)
(***************************************************************************)
WinsAreBooked ==
  Quiet => \A x \in Players : booked.wins[x] = truth.finished[x] + truth.mine[x]

(***************************************************************************)
(* "A resume is honored with 1.5 points but only if the associated drop    *)
(* happened while our session.": when x has dropped a match against y      *)
(* before, the line that says that the two have resumed it honors one of   *)
(* them (gibbon_archive_save_resume()).                                    *)
(***************************************************************************)
Resumes(x, y) ==
  /\ lines # <<>> /\ lines' = Tail(lines)
  /\ \/ Head(lines).is = "resumed" /\ {A, B} = {x, y}
     \/ Head(lines).is = "resuming" /\ {Me, A} = {x, y}

HonorsResumes ==
  \A x, y \in Players : Key(FALSE, x, y) \in droppers /\ Resumes(x, y)
    => \E z \in {x, y} : booked'.resumes[z] = booked.resumes[z] + 1

ResumesAreHonored == [][HonorsResumes]_vars

(* All of it, as gibbon-archive.c describes the reliability of a player:   *)
(* after every step the books are in order, and each resume is honored.    *)
ReliabilityDeserved ==
  [][DropsOnTheDropper' /\ WinsAreBooked' /\ HonorsResumes]_vars
=============================================================================
