------------------------------- MODULE Settings -------------------------------
(***************************************************************************)
(* What the session (gibbon-session.c) asks of the server after the login: *)
(* the list of saved matches, the settings it depends upon, the who info   *)
(* of players, the number of their saved games, its own mail address.      *)
(* Everything it waits for is an expectation; one request is sent at a     *)
(* time, the next one when a reply comes or when the reply timer fires.    *)
(*                                                                         *)
(* Commands and lines travel in order (Connection.tla).  A saved match is  *)
(* a version number, 0 when there is none; the local file of a match is    *)
(* stale when the server has another version of it.  The user may type     *)
(* commands of his own.  Left out: games being played meanwhile, whether   *)
(* a line is shown in the server console, and the guest login.             *)
(***************************************************************************)
EXTENDS Integers, Sequences, FiniteSets, SequencesExt

CONSTANTS
  Me,         \* the login name
  Others,     \* names of other players
  Opponents,  \* players with whom there may be a saved match
  Mails,      \* mail addresses, "-" for none
  BadMails,   \* addresses the server does not take
  Reported,   \* players of whom the server sends who infos unasked
  EarlyUser,  \* TRUE: the user may change the board style before the client
              \* has been greeted by the server
  MaxUser,    \* bound on the user's commands
  MaxEvents,  \* bound on what other players do
  MaxLate     \* how many times the timer fires before the reply is there

ASSUME NamesAssumption  == Me \notin Others /\ Reported \subseteq Others \cup {Me}
ASSUME FiniteAssumption == IsFiniteSet(Opponents)
ASSUME MailsAssumption  == "-" \in Mails /\ BadMails \subseteq Mails \ {"-"}
ASSUME EarlyAssumption  == EarlyUser \in BOOLEAN
ASSUME BoundsAssumption == MaxUser \in Nat /\ MaxEvents \in Nat /\ MaxLate \in Nat

VARIABLES
  \* gibbon-session.c
  expect,       \* the expect_XXX fields
  timer,        \* timeout_id: the reply timer runs
  initialized,  \* the list of players has been received
  checked,      \* address_checked
  players,      \* whom the player list has
  saved,        \* saved_games, as far as received
  files,        \* the local files of saved matches
  mail,         \* the address in the preferences
  \* between client and server, and the server
  commands, lines, style, notify, autoboard, stored, address,
  \* what is left of the bounds
  user, events, late

session == <<expect, timer, initialized, checked, players, saved, files, mail>>
server  == <<style, notify, autoboard, stored, address>>
bounds  == <<user, events, late>>
vars    == <<session, commands, lines, server, bounds>>

Names    == Others \cup {Me}
Versions == 0..2

-----------------------------------------------------------------------------
(* Mutants: the board style is set before the saved matches are asked for; *)
(* the timer does not care for who infos.                                  *)
Request_StyleFirst(w) ==
  IF w.boardstyle THEN <<[ask |-> "boardstyle", of |-> 3]>>
  ELSE IF w.saved THEN <<[ask |-> "saved"]>>
  ELSE IF w.notify THEN <<[ask |-> "notify"]>>
  ELSE IF w.autoboard THEN <<[ask |-> "autoboard"]>>
  ELSE IF w.counts # <<>> THEN <<[ask |-> "count", of |-> Head(w.counts)]>>
  ELSE IF w.who # <<>> THEN <<[ask |-> "who", of |-> Head(w.who)]>>
  ELSE IF w.address /\ mail # "-" THEN <<[ask |-> "address", of |-> mail]>>
  ELSE <<>>

Idle_ForgetsWho(w) ==
  ~(w.saved \/ w.boardstyle \/ w.notify \/ w.autoboard \/ w.address \/ w.counts # <<>>)

(* The session expects nothing. *)
Idle(w) ==
  /\ ~(w.saved \/ w.boardstyle \/ w.notify \/ w.autoboard \/ w.address)
  /\ w.counts = <<>> /\ w.who = <<>>

(* The command that gibbon_session_check_expect_queues() queues. *)
Request(w) ==
  IF w.saved THEN <<[ask |-> "saved"]>>
  ELSE IF w.boardstyle THEN <<[ask |-> "boardstyle", of |-> 3]>>
  ELSE IF w.notify THEN <<[ask |-> "notify"]>>
  ELSE IF w.autoboard THEN <<[ask |-> "autoboard"]>>
  ELSE IF w.counts # <<>> THEN <<[ask |-> "count", of |-> Head(w.counts)]>>
  ELSE IF w.who # <<>> THEN <<[ask |-> "who", of |-> Head(w.who)]>>
  ELSE IF w.address /\ mail # "-" THEN <<[ask |-> "address", of |-> mail]>>
  ELSE <<>>

(* An address that is not configured is not expected any longer. *)
Remaining(w) ==
  IF w.address /\ mail = "-" /\ Idle([w EXCEPT !.address = FALSE])
  THEN [w EXCEPT !.address = FALSE] ELSE w

(* Mutant: the timer is no reason to wait. *)
MustWait_Never(force, armed) == FALSE

(* Somebody waits for a reply already. *)
MustWait(force, armed) == ~force /\ armed

(***************************************************************************)
(* gibbon_session_check_expect_queues(): given the expectations w, the     *)
(* commands the caller has queued and whether the timer runs.              *)
(***************************************************************************)
CheckExpectQueues(force, w, queued, armed) ==
  IF MustWait(force, armed)
  THEN expect' = w /\ commands' = commands \o queued /\ timer' = armed
  ELSE /\ expect' = Remaining(w)
       /\ commands' = commands \o queued \o Request(w)
       /\ timer' = (armed \/ ~Idle(w))

(* Mutant: who is asked for twice is asked twice. *)
QueueWho_Twice(w, name) == [w EXCEPT !.who = <<name>> \o @]

(* gibbon_session_queue_who_request(), which also starts the timer. *)
QueueWho(w, name) ==
  IF name \in ToSet(w.who) THEN w ELSE [w EXCEPT !.who = <<name>> \o @]

(* gibbon_session_unqueue_who_request(), for a list without duplicates. *)
UnqueueWho(w, name) == [w EXCEPT !.who = RemoveFirst(@, name)]

-----------------------------------------------------------------------------
(* Handlers of the lines of the server.  Receive(kind) takes a line.       *)
Receive(kind) ==
  /\ lines # <<>> /\ Head(lines).is = kind
  /\ lines' = Tail(lines)
  /\ UNCHANGED <<server, bounds>>

Value == Head(lines).value

(* gibbon_session_clip_own_info(), sent once after the login. *)
HandleOwnInfo ==
  /\ Receive("own")
  /\ expect' = [expect EXCEPT !.notify = @ \/ ~Value.notify,
                              !.autoboard = @ \/ ~Value.autoboard]
  /\ UNCHANGED <<timer, initialized, checked, players, saved, files, mail, commands>>

(* gibbon_session_clip_who_info_end() *)
HandleWhoInfoEnd ==
  /\ Receive("whoEnd")
  /\ IF initialized
     THEN UNCHANGED <<session, commands>>
     ELSE /\ initialized' = TRUE
          /\ CheckExpectQueues(TRUE,
               QueueWho([expect EXCEPT !.boardstyle = TRUE, !.saved = TRUE], Me),
               <<>>, TRUE)
          /\ UNCHANGED <<checked, players, saved, files, mail>>

(* The server does not know the address in the preferences yet. *)
Contradicts(remote) == mail # remote /\ ~checked

(***************************************************************************)
(* gibbon_session_check_address(): the first time, the server is told the  *)
(* address in the preferences, later on it is the other way round.         *)
(***************************************************************************)
CheckAddress(remote) ==
  /\ checked' = TRUE
  /\ IF Contradicts(remote)
     THEN commands' = Append(commands, [ask |-> "address", of |-> mail]) /\ UNCHANGED mail
     ELSE mail' = remote /\ UNCHANGED commands

(* gibbon_session_clip_who_info() *)
HandleWhoInfo ==
  /\ Receive("who")
  /\ players' = players \cup {Value.name}
  /\ LET w == UnqueueWho(expect, Value.name) IN
     IF Value.name = Me
     THEN /\ CheckAddress(Value.mail)
          /\ expect' = [w EXCEPT !.address = @ \/ Contradicts(Value.mail)]
     ELSE expect' = w /\ UNCHANGED <<mail, checked, commands>>
  /\ UNCHANGED <<timer, initialized, saved, files>>

(* gibbon_session_handle_no_such_user() *)
HandleNoSuchUser ==
  /\ Receive("noUser")
  /\ players' = players \ {Value}
  /\ expect' = UnqueueWho(expect, Value)
  /\ UNCHANGED <<timer, initialized, checked, saved, files, mail, commands>>

(* Mutant: the reply to the command changes nothing in the preferences. *)
HandleShowAddress_Ignored ==
  /\ Receive("address")
  /\ expect' = [expect EXCEPT !.address = FALSE]
  /\ UNCHANGED <<timer, initialized, checked, players, saved, files, mail, commands>>

(* gibbon_session_handle_show_address() *)
HandleShowAddress ==
  /\ Receive("address")
  /\ CheckAddress(Value)
  /\ expect' = [expect EXCEPT !.address = FALSE]
  /\ UNCHANGED <<timer, initialized, players, saved, files>>

(* gibbon_session_handle_invalid_address() *)
HandleInvalidAddress ==
  /\ Receive("badAddress")
  /\ expect' = [expect EXCEPT !.address = FALSE]
  /\ UNCHANGED <<timer, initialized, checked, players, saved, files, mail, commands>>

(* gibbon_session_clip_login() *)
HandleLogin ==
  /\ Receive("login")
  /\ expect' = QueueWho(expect, Value)
  /\ timer' = TRUE
  /\ UNCHANGED <<initialized, checked, players, saved, files, mail, commands>>

(* gibbon_session_clip_logout().  Whoever played with the one who is gone  *)
(* is asked for; the player list may know of such an opponent or not.      *)
HandleLogout ==
  /\ Receive("logout")
  /\ players' = players \ {Value}
  /\ LET w == UnqueueWho(expect, Value) IN
     \/ expect' = w /\ UNCHANGED timer
     \/ \E opponent \in Names \ {Value} :
          expect' = QueueWho(w, opponent) /\ timer' = TRUE
  /\ UNCHANGED <<initialized, checked, saved, files, mail, commands>>

(* gibbon_session_handle_invitation() *)
HandleInvitation ==
  /\ Receive("invitation")
  /\ LET known == Value \in players
         asked == IF known THEN expect ELSE QueueWho(expect, Value)
     IN CheckExpectQueues(FALSE, [asked EXCEPT !.counts = Append(@, Value)],
          IF known THEN <<>> ELSE <<[ask |-> "who", of |-> Value]>>,
          timer \/ ~known)
  /\ UNCHANGED <<initialized, checked, players, saved, files, mail>>

(* gibbon_session_handle_show_saved_count() *)
HandleSavedCount ==
  /\ Receive("count")
  /\ CheckExpectQueues(FALSE, [expect EXCEPT !.counts = RemoveFirst(@, Value)],
                       <<>>, timer)
  /\ UNCHANGED <<initialized, checked, players, saved, files, mail>>

(* Mutant: a file is stale only when the server has no match at all.       *)
CleanSaved_ByName == [o \in Opponents |-> IF saved[o] # 0 THEN files[o] ELSE 0]

(* gibbon_session_clean_saved(): the local files left over. *)
CleanSaved ==
  [o \in Opponents |-> IF files[o] = saved[o] THEN files[o] ELSE 0]

(* gibbon_session_handle_show_setting() *)
HandleShowSetting ==
  /\ Receive("boardstyle")
  /\ LET w == [expect EXCEPT !.boardstyle = Value # 3] IN
     IF expect.boardstyle \/ w.boardstyle
     THEN CheckExpectQueues(TRUE, w, <<>>, timer)
     ELSE UNCHANGED <<expect, timer, commands>>
  /\ files' = IF expect.boardstyle THEN CleanSaved ELSE files
  /\ UNCHANGED <<initialized, checked, players, saved, mail>>

(* Mutant: only what was expected is looked at. *)
ShowToggle_OnlyExpected(expected, w) ==
  IF expected
  THEN CheckExpectQueues(TRUE, w, <<>>, timer)
  ELSE UNCHANGED <<expect, timer, commands>>

(* gibbon_session_handle_show_toggle(): the expectation before and after.  *)
ShowToggle(expected, w) ==
  IF expected \/ ~Value
  THEN CheckExpectQueues(TRUE, w, <<>>, timer)
  ELSE expect' = w /\ UNCHANGED <<timer, commands>>

HandleShowToggle ==
  /\ \/ /\ Receive("notify")
        /\ ShowToggle(expect.notify, [expect EXCEPT !.notify = ~Value])
     \/ /\ Receive("autoboard")
        /\ ShowToggle(expect.autoboard, [expect EXCEPT !.autoboard = ~Value])
  /\ UNCHANGED <<initialized, checked, players, saved, files, mail>>

(* The heading of the list of saved matches, or the news that it is empty. *)
HandleStartSaved ==
  /\ Receive("savedStart")
  /\ IF expect.saved
     THEN CheckExpectQueues(TRUE, [expect EXCEPT !.saved = FALSE], <<>>, timer)
     ELSE UNCHANGED <<expect, timer, commands>>
  /\ UNCHANGED <<initialized, checked, players, saved, files, mail>>

(* gibbon_session_handle_show_saved(); the heading has come before. *)
HandleShowSaved ==
  /\ Receive("saved")
  /\ IF expect.saved
     THEN /\ commands' = commands \o Request(expect)
          /\ timer' = TRUE
          /\ expect' = [expect EXCEPT !.saved = FALSE]
     ELSE UNCHANGED <<expect, timer, commands>>
  /\ saved' = [saved EXCEPT ![Value.name] = Value.version]
  /\ UNCHANGED <<initialized, checked, players, files, mail>>

-----------------------------------------------------------------------------
(* gibbon_session_timeout(), with replies underway only MaxLate times. *)
Timeout ==
  /\ timer
  /\ late' = IF commands \o lines = <<>> THEN late ELSE late - 1
  /\ late' >= 0
  /\ IF Idle(expect)
     THEN timer' = FALSE /\ UNCHANGED <<expect, commands>>
     ELSE CheckExpectQueues(TRUE, expect, <<>>, TRUE)
  /\ UNCHANGED <<initialized, checked, players, saved, files, mail, lines, server,
                 user, events>>

(* gibbon_session_get_saved_count(), when the user is about to invite.     *)
GetSavedCount(name) ==
  /\ user > 0 /\ user' = user - 1
  /\ expect' = [expect EXCEPT !.counts = Append(@, name)]
  /\ commands' = Append(commands, [ask |-> "count", of |-> name])
  /\ UNCHANGED <<timer, initialized, checked, players, saved, files, mail, lines,
                 server, events, late>>

(* The user types a command. *)
UserCommand(command) ==
  /\ user > 0 /\ user' = user - 1
  /\ command.ask = "boardstyle" => initialized \/ EarlyUser
  /\ commands' = Append(commands, command)
  /\ UNCHANGED <<session, lines, server, events, late>>

UserCommands ==
  {[ask |-> "notify"], [ask |-> "autoboard"]} \cup
  {[ask |-> "boardstyle", of |-> v] : v \in {2, 3}}

-----------------------------------------------------------------------------
(* The server: what it says, and what it does with a command. *)
Says(kind, value) == [is |-> kind, value |-> value]

WhoLines(name) ==
  IF name = Me THEN <<Says("who", [name |-> Me, mail |-> address]), Says("whoEnd", 0)>>
               ELSE <<Says("who", [name |-> name]), Says("whoEnd", 0)>>

SavedLines ==
  <<Says("savedStart", 0)>> \o
  SetToSeq({Says("saved", [name |-> o, version |-> stored[o]]) :
              o \in {p \in Opponents : stored[p] # 0}})

Reply(said) == lines' = lines \o said

ServerAnswers ==
  /\ commands # <<>>
  /\ commands' = Tail(commands)
  /\ LET c == Head(commands) IN
     \/ c.ask = "saved" /\ Reply(SavedLines) /\ UNCHANGED server
     \/ /\ c.ask = "boardstyle"
        /\ style' = c.of /\ Reply(<<Says("boardstyle", c.of)>>)
        /\ UNCHANGED <<notify, autoboard, stored, address>>
     \/ /\ c.ask = "notify"
        /\ notify' = ~notify /\ Reply(<<Says("notify", notify')>>)
        /\ UNCHANGED <<style, autoboard, stored, address>>
     \/ /\ c.ask = "autoboard"
        /\ autoboard' = ~autoboard /\ Reply(<<Says("autoboard", autoboard')>>)
        /\ UNCHANGED <<style, notify, stored, address>>
     \/ c.ask = "count" /\ Reply(<<Says("count", c.of)>>) /\ UNCHANGED server
     \/ c.ask = "who" /\ Reply(WhoLines(c.of)) /\ UNCHANGED server
     \/ /\ c.ask = "who" /\ c.of # Me
        /\ Reply(<<Says("noUser", c.of)>>) /\ UNCHANGED server
     \/ /\ c.ask = "address" /\ c.of \notin BadMails
        /\ address' = c.of /\ Reply(<<Says("address", c.of)>>)
        /\ UNCHANGED <<style, notify, autoboard, stored>>
     \/ /\ c.ask = "address" /\ c.of \in BadMails
        /\ Reply(<<Says("badAddress", 0)>>) /\ UNCHANGED server
  /\ UNCHANGED <<session, bounds>>

(* Other players log in and out and invite; players change their state. *)
ServerReports ==
  /\ events > 0 /\ events' = events - 1
  /\ \/ \E kind \in {"login", "logout", "invitation"}, name \in Others :
          Reply(<<Says(kind, name)>>)
     \/ \E name \in Reported : Reply(WhoLines(name))
  /\ UNCHANGED <<session, commands, server, user, late>>

-----------------------------------------------------------------------------
(* gibbon_session_init(); the server has welcomed the user, and begins     *)
(* with his settings and the list of the players, maybe himself among them.*)
Nothing == [saved |-> FALSE, boardstyle |-> FALSE, notify |-> FALSE,
            autoboard |-> FALSE, address |-> FALSE, counts |-> <<>>, who |-> <<>>]

Init ==
  /\ expect = Nothing /\ timer = FALSE /\ initialized = FALSE /\ checked = FALSE
  /\ players = {} /\ saved = [o \in Opponents |-> 0] /\ commands = <<>>
  /\ files \in [Opponents -> Versions] /\ stored \in [Opponents -> Versions]
  /\ mail \in Mails /\ address \in Mails \ BadMails
  /\ style \in 1..3 /\ notify \in BOOLEAN /\ autoboard \in BOOLEAN
  /\ \E who \in {<<Says("whoEnd", 0)>>, WhoLines(Me)} :
       lines = <<Says("own", [notify |-> notify, autoboard |-> autoboard])>> \o who
  /\ user = MaxUser /\ events = MaxEvents /\ late = MaxLate

Handle ==
  \/ HandleOwnInfo \/ HandleWhoInfoEnd \/ HandleWhoInfo \/ HandleNoSuchUser
  \/ HandleShowAddress \/ HandleInvalidAddress
  \/ HandleLogin \/ HandleLogout \/ HandleInvitation \/ HandleSavedCount
  \/ HandleShowSetting \/ HandleShowToggle \/ HandleStartSaved \/ HandleShowSaved

Next ==
  \/ Handle
  \/ Timeout
  \/ \E name \in Others : GetSavedCount(name)
  \/ \E command \in UserCommands : UserCommand(command)
  \/ ServerAnswers \/ ServerReports

Spec == Init /\ [][Next]_vars

(***************************************************************************)
(* Lines are handled, commands answered, and the timer fires.  The last    *)
(* needs a server that reports no login for 2.5 seconds now and then, for  *)
(* every login restarts the timer.                                         *)
(***************************************************************************)
FairSpec == Spec /\ WF_vars(Handle) /\ WF_vars(ServerAnswers) /\ WF_vars(Timeout)

-----------------------------------------------------------------------------
TypeOK ==
  /\ expect \in [saved : BOOLEAN, boardstyle : BOOLEAN, notify : BOOLEAN,
                 autoboard : BOOLEAN, address : BOOLEAN,
                 counts : Seq(Others), who : Seq(Names)]
  /\ IsInjective(expect.who)
  /\ timer \in BOOLEAN /\ initialized \in BOOLEAN /\ checked \in BOOLEAN
  /\ players \subseteq Names /\ mail \in Mails /\ address \in Mails \ BadMails
  /\ saved \in [Opponents -> Versions] /\ files \in [Opponents -> Versions]
  /\ stored \in [Opponents -> Versions]
  /\ style \in 1..3 /\ notify \in BOOLEAN /\ autoboard \in BOOLEAN

(***************************************************************************)
(* An expectation is not forgotten: from the greeting on, the reply timer  *)
(* runs while the session waits for a setting, the saved matches or a who  *)
(* info, whatever it waits for besides.                                    *)
(***************************************************************************)
TimerRuns ==
  initialized =>
    timer \/ [expect EXCEPT !.counts = <<>>, !.address = FALSE] = Nothing

(***************************************************************************)
(* In the end the server has the settings the client depends upon, and the *)
(* client waits for nothing, whatever the user and others do meanwhile and *)
(* even if some replies are late and their requests are sent twice.        *)
(***************************************************************************)
EverythingSettles ==
  <>[](style = 3 /\ notify /\ autoboard /\ expect = Nothing /\ ~timer)

(***************************************************************************)
(* As long as replies are in time and the user has not interfered, no      *)
(* toggle is sent once too often: the server never switches one off.       *)
(***************************************************************************)
Undisturbed == user = MaxUser /\ late = MaxLate

NeverToggledOff ==
  [][Undisturbed' => (notify => notify') /\ (autoboard => autoboard')]_vars

(***************************************************************************)
(* "Locally saved match is stale.  Archive it.": only files that differ    *)
(* from what the server has saved are archived.                            *)
(***************************************************************************)
OnlyStaleArchived ==
  [][\A o \in Opponents : files'[o] # files[o] => files[o] # stored[o]]_vars

(* And they all are: no file is kept that contradicts the server.          *)
StaleFilesGo == <>[](\A o \in Opponents : files[o] \in {0, stored[o]})

(***************************************************************************)
(* In the end the preferences and the server have the same address, unless *)
(* the server rejects the one in the preferences: who infos and replies    *)
(* that are outdated when they arrive, each of which may overwrite the     *)
(* preferences (gibbon_session_check_address()) or have an address sent    *)
(* again (gibbon_session_timeout()), neither leave them apart nor keep     *)
(* them overwriting each other.                                            *)
(***************************************************************************)
AddressesAgree == <>[](mail = address \/ mail \in BadMails)

-----------------------------------------------------------------------------
(* What a comment says, and the code does not always do. *)

(***************************************************************************)
(* "Send user configured address to the server.": the two agree upon the   *)
(* address that was in the preferences, unless the server rejects it.      *)
(***************************************************************************)
AddressArrives ==
  \A m \in Mails \ BadMails : mail = m => <>[](mail = m /\ address = m)
=============================================================================
