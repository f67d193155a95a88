# A formal model of Gibbon

Gibbon is a GTK+ client for FIBS, the First Internet Backgammon Server.  This
directory holds TLA+ modules for its core logic, TLC configurations that check
them on small instances, and TLAPS proofs.  The program's own sources are in
`src/src`; `src/gibbon-0.2.0` is a packaged copy of an earlier state and is
not looked at.

## The system

The program has one main thread: a GLib main loop dispatches socket callbacks,
timers and user input, and every handler runs to its end before the next one
starts (unless it opens a dialog, which has a main loop of its own).  The
importer alone has a second thread.  What makes the program hard is the *order*
in which callbacks, lines of the server, timers and clicks take turns, and the
long sequences of legal calls that a match record has to survive.

    FIBS server <--- bytes ---> Connection ---- lines ----> Session <---- Board
                                    ^                          |
                                    |  commands                |  positions,
                                    +--------------------------+  actions
                                                               v
       readers of match files ---> Match <--------------- Match tracker
                                     |                          |
                              Games, Positions              match files

       Session, importer ---> Archive ---> Database <--- update of countries

| Component | State it keeps | Operations | What makes it correct |
|---|---|---|---|
| Game (`gibbon-game.c` and the actions) | chain of snapshots: action, side, position; score; Crawford flag | one `add` function per action | offers are settled on their terms, the cube has the right owner, game and position agree on the score |
| Match (`gibbon-match.c`) | list of games, length, rules | `add_action`, `add_game` | points add up, exactly one Crawford game, nothing is played after the end |
| Position (`gibbon-position.c`) | checkers, dice, cube, scores | check and apply a move, compare | "legal" means legal by the rules, and the movements found are the move |
| Board (`gibbon-board.c`) | the position shown, unused dice | clicks on points, bar and tray | whatever is clicked together is judged rightly when the dice are picked up |
| Connection (`gibbon-connection.c`, `gibbon-fibs-command.c`) | login state, command queue, offset, `out_ready` | queue a command, callbacks for input and output | commands arrive whole, in order, all of them |
| Match tracker (`gibbon-match-tracker.c`) | match in progress and its output file | update, resume, archive | the record never contradicts the server; a crash loses nothing that was written |
| Session: settings and requests (`gibbon-session.c`) | expectations, reply timer, saved games | request, reply, time-out | every expectation is met; no toggle is undone; only stale matches are archived |
| Session: registration (`gibbon-session.c`) | registration state, timer | prompts, errors, time-out | no command is repeated or misdirected, success is true, it ends |
| Session: playing and watching (`gibbon-session.c`) | opponent, watching, position, tracker | start, resume, board, win, drop, log out | the variables agree with each other and with the server |
| Reliability and archive (`gibbon-archive.c`, `gibbon-reliability.c`) | droppers, activities | save win, drop, resume | every finished and every dropped match is booked once, on the right player (it is not: finding 3) |
| Database (`gibbon-database.c`, `gibbon-geo-ip-updater.c`) | `in_transaction`, tables, updater | one transaction per operation, an update over many callbacks | what was confirmed is stored; nothing stays open; the countries are replaced as a whole |
| JavaFIBS importer (`gibbon-java-fibs-importer.c`) | task queue, two counters, a worker thread | work, poll, Stop, OK | it ends, and when it ends by itself it is complete |
| CLIP reader, windows, readers and writers of match files, analysis, libraries | | | not modelled; the reasons are in `PROJECT.json` |

`PROJECT.json` also lists the hazards: what is hard to test in this code, line
by line, and which property covers it.

## The modules

| Module | Models | Uses |
|---|---|---|
| `Game` | one game: the guard and the effect of every `gibbon_game_add_XXX()` | |
| `Match` | a match: `gibbon_match_add_action()`, `gibbon_match_add_game()`, the Crawford detection | extends `Game`, instantiates `MatchScore` |
| `MatchScore` | abstract: what a match is on the score board | |
| `Tracker` | the record of a match on the server: update, recovery of missed actions, file, restart | extends `Game`, instantiates `Match` |
| `Position` | operators: `gibbon_position_check_move()` with its helpers, `gibbon_position_apply_move()` | |
| `Rules` | abstract: the rules of moving in backgammon | |
| `Board` | clicks, the bear-off tray, picking up the dice, and the same check for the other side | extends `Position`, instantiates `Rules` |
| `Connection` | `gibbon-connection.c` once the socket is connected, with `gibbon-fibs-command.c` | |
| `Settings` | the expectations of `gibbon-session.c`, the requests, the reply timer and the clean-up of saved matches | |
| `Registration` | the guest login, its prompts, dialogs and timer | |
| `Play` | opponent, watching, tracker, player list; what is booked on reliabilities | |
| `Database` | transactions and operations of `gibbon-database.c`, the update of the countries | |
| `Importer` | worker, queue, poll and buttons of the JavaFIBS import | |
| `MatchProofs`, `ConnectionProofs`, `DatabaseProofs`, `RegistrationProofs`, `PlayProofs`, `SettingsProofs`, `ImporterProofs` | theorems about `Match`, `Connection`, ... | each extends its module |
| `TrackerProofs` | theorems about `Tracker`, and about `Position`, which the tracker's moves come from | extends `Tracker`, instantiates `Position` and `Rules` |
| `MCXxx` | `Xxx` on a small instance, given by one or two `.cfg` files | |

`PROJECT.json` maps every definition to the lines it models.  `MatchScore` and
`Rules` are specifications, not translations, and are not mapped.

### Games and matches

`games` is the list of games of a match, oldest first.  A game is a record:
the scores it started with (`initial`), the current `position`, the `last`
action, the scores of the last but one snapshot (`previous`; the Crawford
detection reads it), the `score` that `gibbon_game_over()` returns, and the
flags `crawford` and `rolled`.  A position keeps what decides about turns,
doubles, resignations and points; the checkers are left out.  A move therefore
either leaves the game open or bears the last checker off for one, two or three
times the cube.  White is 1 and Black is -1, as in the code.

`CanXXX(g, side)` is the guard of `gibbon_game_add_xxx()` together with the
checks `gibbon_game_add_action()` makes before it dispatches (`Admits`), and
`AddXXX(g, side)` is the game it leaves behind.  An action of `Match` first
finds the game to record in (`Ready`: the current one, or a new one when there is
none or it is over), then checks the guard, then records.  A call that the code
refuses is not a step, with one exception: `gibbon_match_add_action()` starts
the next game before it looks at the action, so a refused action may leave an
empty game behind.  `AddGame` is that case, and the readers of match files that
start games themselves.  The actions come from a server or from a file that is
not trusted, so all kinds, sides and values are tried.

Input is restricted in two ways.  Resignations are offered for one to three
times the cube, as FIBS and the file formats have it.  A roll without a side
(`side` is `None`) only comes before the opening roll is decided.

The snapshots of finished games are never read again, so `Retired` keeps only
their scores and results.

### Positions, the board and the rules

`BoardOf(pos, side)` is the normalised board of 26 numbers on which
`gibbon_position_check_move()` works.  The code never lists the legal moves: it
looks which points have lost checkers, makes candidates from them (`FindNonDouble`,
`FindDouble` with the table of patterns), tries them with `IsDiff`, and then asks with
`CanMove` and `CanMove2` whether more dice, or the higher one, could have been
used (`Verdict`).  `Rules` says in a few lines what the result should be, by
playing every legal turn, and shares no definition with `Position`.

`Board` produces the questions.  For White they are what a user can click
together from a roll (`PointClick`, `BarClick`, `QuickBearOff`), with the fall-back
to the other die and `dice_swapped` as in the code.  For Black they are what the
recovery of missed actions asks: positions up to four single steps away, legal
turns or not.  `DicePickedUp` is `gibbon_session_on_dice_picked_up()`.

The number of points and the size of the home board are parameters (24 and 6 in the
program), so that all boards of a small size can be tried; one roll is played.

### The tracker

`server` is the match that is really played, a list of games recorded by the
operators of `Match`.  `position` is the session's own position, which the handlers of
lines change (`AfterRoll`, `AfterMove`, `AfterOffer`, `AfterWin`, ...), `match` is the record,
and `file` what reading its file back would give.  Every handled line ends with
`Update`: `gibbon_match_get_missing_actions()` searches, action by action, for a
sequence that leads from the record to the position (`Search`, `TryMove`, `TryRoll`, ...);
what it finds is recorded by the rules of `Match`, and where it finds nothing, or the match refuses
what was found, the record is archived and a new one starts in the middle of a game (`Restart`).
The code's recursion is the recursive function inside `Search`, with at most `MaxRounds` = 8 rounds: a move is tried only
once, and without it a round can only answer an offer, offer the cube or copy the dice, each of which excludes to do
it again; TLC sees no search of more than six rounds.  `Away` is a client
that leaves, is killed or crashes; `Act` goes on meanwhile, and `Board` brings the client
back, continuing the file.  Checkers are represented by the moves that brought
them where they are; whether a roll can be played is a parameter.

Assumed of the server, from how the handlers use it: a match starts with a board, the
opening roll included, and the last move of a game is announced by the line about the
win only.  Left out: automatic swapping of the dice, opening doubles, ranks,
failures to write the file, and that two sequences of moves may by chance lead to
the same checkers.

### The connection

Commands are numbers in the order they are queued; number 1 is the login.
`queue`, `offset`, `outReady` and `state` are the fields of the same meaning in
the code; `writing` is `write_cancellable` with the moment between the end of
a write and its callback made visible, since other callbacks may run in between.
`HandleLine`, `HandlePrompt` and `HandleEndOfFile` are the cases of
`gibbon_connection_handle_input()`, `HandleOutput` is
`gibbon_connection_handle_output()`, `QueueCommand` is
`gibbon_connection_queue_command()`; each of them ends with the call of
`gibbon_connection_send_chunk()` that the code ends with.  `Finalize` is what
dropping the connection does.  The socket accepts chunks of any size; `wire` is
everything it accepted.  The result of a write is stored in a `gsize`, so the
arithmetic on the offset is modulo `Word`, and -1 is `Word - 1`.

A read that brings several lines is several steps.  This allows more
interleavings than the program has, which is safe for properties that hold; in
the counterexample every line comes with a read of its own.  A failed *read*
is left out: its result is stored in an unsigned number as well and used as an
index, and from there on nothing is defined.

### The settings

`expect` is the record of the `expect_XXX` fields.  `CheckExpectQueues` is
`gibbon_session_check_expect_queues()`; its arguments are `force`, the
expectations at that moment, the commands the calling handler has queued before,
and whether the timer runs, for the handlers differ in what they do to these
first.  There is an action for each kind of line (`HandleXXX`), one for the
timer, two for the user and two for the server.  `commands` and `lines` are the
two directions of the connection, in order, as `Connection` justifies.

The server is modelled as the client sees it: a toggle flips and is reported,
a setting is stored and reported, a who info is a line with an end marker (the
own one carries the mail address as it was when the line was *sent*), the list
of saved matches is a heading and a line for each, addresses may be rejected, and
an unknown player gives an error line.  It starts with any of its settings,
any saved matches and any local files.  Versions of a saved match are 0 (none), 1
and 2.  The server's own list of saved matches does not change.

### Playing and watching

An event on the server (somebody logs in or out, a match begins, is resumed, ends or is left,
the user starts or stops watching) puts lines on their way: those about the event, and
the who infos of every player whose opponent has changed, in every order, before the
others or after them.  There is one action for each handler of `gibbon-session.c`.  `truth`
counts what really happened to each player, `booked` what the archive was told.

Assumed of the server: it broadcasts these who infos, it sends a board when a match starts,
and the next event happens when the lines of the last one are handled (replies to
requests may come at any time).  The formula for the average, invitations and chat are left out.

### The registration

`rstate`, `timer`, `queue`, `ready` and `writing` are the fields of the session and the
connection; `dialogs` is the stack of messages that are open, each with a main loop in
which callbacks go on.  The server accepts, refuses with or without an explanation,
sends lines nobody asked for, hangs up or is silent.

### The database

`db` is the connection: the flag `in_transaction`, whether SQLite has a transaction open, what
the connection reads (`view`) and what is on the disk (`disk`).  An operation is one
action, since it runs in one callback; it begins, executes and commits with the
outcomes SQLite may give, and takes the error paths of the code.  The update of the countries is one
transaction over several callbacks (`OnOpen`, `OnRead`, `OnEndOfFile`, ...), and operations
happen in between.  `CreateRelation` is two actions, because another program may get in
between its check and its insertion.  Other programs may read, write and add users; the
program may be killed at any moment.

### The importer

An action of the worker or of the poll is what happens under one lock of the mutex, which
is where the two threads see each other.  The contents of the files are drawn in `Init`.
The worker goes through the file of ratings line by line: a rating that differs from the one
before (`Interesting`) is counted under one lock and queued under another, the others are skipped.

## What is checked

| Run | Constants | Distinct states | What it shows |
|---|---|---|---|
| `match` | match to 5, up to 9 games, cube up to 4 | 590,566 | bookkeeping, cube, offers; implements `MatchScore`, the Crawford rule included |
| `board` | 7 points, home of 3, 3 own checkers, one point of hers, 4 steps | 532,681 | the check of a move agrees with the rules, and finds the move |
| `tracker` | match to 2, 2 games of up to 2 moves, cube up to 2, 3 missed actions | 1,009,884 | the record follows the match, is true, and can be continued |
| `connection` | 4 commands of 3 bytes, 3 unsolicited lines underway, breakdowns | 3,268 | order on the wire, nothing forgotten, everything arrives, breakdowns are noticed |
| `settings` | one other player with any combination of saved matches, three mail addresses of which one is rejected; either two events (others, own who infos), or two commands of the user and two late replies (`Apart`) | 2,301,631 | the requests, the timer, the toggles, the archiving, the addresses; everything settles |
| `registration` | two lines that nobody asked for | 15,324 | no command is repeated or misdirected, success is true, it ends |
| `play` | three other players, nine events | 2,703,230 (up to symmetry) | session, player list and tracker agree with the server; nothing is booked twice or forgotten |
| `database` | two players, four operations, three steps of other programs, one crash | 608,861 | nothing confirmed is lost, no transaction is left, countries whole, the update ends |
| `importer` | two groups of up to one name, two matches, two ratings | 848,130 | it ends, and is complete when it ends by itself |
| `connection_lost`, `board_tray` | see the `.cfg` | | violations, see *Findings* |
| `play_reliability` | two other players, six events, who infos after the other lines (`SpecInOrder`) | | violation: what the archive and the manual say of reliabilities |

Five more configurations are not among the runs; each shows that one documented claim does not hold, see *Findings* and *Known divergences*:
`MCPlayWins.cfg`, `MCPlayResumes.cfg`, `MCSettingsMail.cfg`, `MCTrackerResign.cfg` and `MCTrackerOwner.cfg`.

**Why the bounds are enough.**  In a match to 5, games end with 1 to 12 points, so
that the score jumps over, lands on and passes "one away" from either side and by
both at once; the Crawford score can be reached from 0, with the trailing player at
0 or not, and there is room for the Crawford game, post-Crawford games (where the
cube is allowed again) and the end.  With a cube of up to 4 it changes hands twice.
No position keeps a memory that is longer than one game except the scores and the
Crawford flag of the previous game, so longer matches repeat these cases; and the
theorems below hold for all of them.

Seven points with a home of three leave a checker room to enter, to cross the board
in several steps of a double and to bear off, exactly and with waste; three checkers
leave up to three points at once.  Every verdict but two is reached: "too many", which
takes five starting points, and "dancing", which clicks cannot produce because a point is
not movable while a checker is on the bar.
The same properties were checked, outside of the listed runs, on 6 points with a home of
2, four own checkers and one point of hers (467,891 states), three checkers and two points
(452,233), on 8 points with a home of 3, and on the real board of 24 points and 6 with two
checkers (259,553).

In the tracker, two games make a finished one and one under way, so that a client can
come back in the same game, in the next one, and after the match; two moves per game
give a first and a later one by either side; three missed actions are more than
the two after which a record can be expected to be continued (`away` counts up to `MaxAway` and stays there;
only its being at most two is ever asked).

Four commands are enough for
the login, one that is being written, one behind it and one that is queued
meanwhile; three bytes give a first, an inner and a last chunk.  In the settings,
handlers for different players only share the queue of names and the timer; the
user himself and one other player have two names in the queue.  In `play`, three others
are the opponent, a watched player and his opponent, and nine events let a match
begin, be left, resumed and finished, and another one after it.  In the database,
operations only interact through the transaction, the update and the rows of one player; four
operations fit before, into and after an update.  Two matches and two ratings make the
importer's loops go round.

Deadlock is not checked: a match ends, a roll is played, a connection is dropped, and settings settle.

### Safety

 * `ScoresAddUp`: every finished game has paid its winner what it was worth and
   the other player nothing, and every game starts at the score at which the last one ended.
   Three functions write three places each (score of the game, score and
   scores of the position), with signs of their own.
 * `CubeOwned`: who may double, and when a double can be on offer.
 * `OffersAreSettled`: the next action after an offer is its answer, on its terms.
 * `ImplementsScoreBoard`: all that, seen from the score board, is starting and
   finishing games, exactly one of them under the Crawford rule.  The code keeps no flag for it; it
   guesses from the last but one snapshot of the previous game.
 * `LegalIffRules`: whatever was clicked together, and wherever the other side is found,
   the check says "legal" if and only if a legal turn can end there.  `MoveApplies`: the
   movements it found, which go to the server and into the record, lead there.  Both leave out what
   the bear-off tray does to the other side's checkers, see `board_tray`.
 * `ScoresFollow`: whatever was missed or started over, the record has the scores of the match.
   `FileIsMatch`: a complete record can be continued from its file at any time.
   `RecordedTruly`: the actions deduced for a complete record lead to the position of the server,
   by the rules of `gibbon-game.c`.  `RecordStaysWhole`: it stays complete, except at the lines the
   property lists (`Breaks`); each of these is a known divergence below.  When a resignation or one of the others
   makes the record start over, `ScoresFollow` still says that no points get lost.
   `RightsKept`: a record that begins in mid-game may grant a right to double that is none, but denies none, and its cube is right.
 * `WireInOrder`, `NoForgottenWrite`: what the server gets is the queued
   commands, in order and in one piece; a write is in progress exactly if there is
   something to write and the output is ready.
 * `TimerRuns`: from the greeting on, the reply timer runs as long as a reply is
   expected (the number of saved games excepted, which `GetSavedCount` asks for without
   starting the timer, and the address).
 * `NeverToggledOff`: no toggle is sent once too often, although several handlers may ask for it again, as long as the replies
   are in time and the user has not interfered.  When a reply is late a toggle may be sent twice; what
   holds then is that it ends up on all the same (`EverythingSettles`).
 * `AddressesAgree` (liveness): who infos and replies that are outdated when they arrive may overwrite the preferences, and the
   preferences are sent again; in the end the preferences and the server have the same address all the same.
   That it is the one the user has entered (`AddressArrives`) does not always hold, see *Known divergences*.
 * `OnlyStaleArchived`: only files that differ from the server's match are archived.
 * `AnswersThePrompt`, `SuccessIsTrue`: see `registration`.
 * `Agreement`: when all lines are handled, opponent, watching and player list agree with the server.
   `RecordsRightMatch`: the tracker records the match of the opponent the session knows, in
   every state.  `BookedOnce`: every match that others finish among themselves, or drop by logging out, is booked
   exactly once; a player who leaves a match with the user without logging out, the user himself for each match of his that is broken off,
   and either of them for the end of a match of the user, are booked at most once.  Beside the books the model keeps what really
   happened (`truth`); the property does not say that the right player is charged, which is false: `ReliabilityDeserved` states what is documented, see *Findings* 3.
 * `KeepsPromises`, `NothingLeaks`, `CountriesWhole`: see `database`.
 * `EndsComplete`: when two counters of two threads end the import, every task was done exactly once.

### Liveness and fairness

Every fairness condition is weak, and each is one of these:

 * The main loop runs a callback that is due (`HandleLine`, `HandlePrompt`,
   `HandleEndOfFile`, `HandleOutput`, `Handle`, the steps of `Update` in the database, `PollTask` and
   `PollCheck`): handlers do not block, and GLib dispatches all sources of one priority in turn.
 * The worker thread of the importer runs (`Work`).
 * The socket accepts something or fails (`Write`, `SocketWrites`).
 * The server answers commands and sends its prompt (`Answer`, `ServerPrompt`, `ServerAnswers`).  There is
   no such condition in `registration`: `RegistrationEnds` holds for a server that falls silent.
 * A timer fires (`Timeout`).  In the settings every login restarts it, so
   this needs a server that reports no login for 2.5 seconds now and then.
 * The user closes a message (`CloseDialog`), in `registration` only.
 * For `EverythingArrives` and `BreakdownIsNoticed` (`ChattySpec`): the server says something unasked now and
   again.  Without that the first is false, see `connection_lost`.

In `settings` the timer may fire `MaxLate` times while a reply is still underway;
a toggle may then be sent twice, and the reply that tells that it is off
makes the client send it a third time.  `UpdateEnds` needs nothing of the user: a bad, missing or
cancelled file ends the update as well.

## Findings

 1. `connection_lost`: the flag `out_ready` is cleared by the callback of the write
    (`gibbon-connection.c:626`), which may run after the reply to that very command has been
    handled.  The reply is forgotten, and the next command waits for an unrelated line.
 2. `board_tray`: with two dice of a double left and a single checker on their point, a click on the
    bear-off tray takes two checkers from it (`gibbon-board.c:372`).  The board then
    shows a checker of Black, the check of the move calls this legal (`gibbon-position.c:647` takes
    checkers from empty points), and the move is sent to the server.
 3. `play_reliability`: the archive says "Every player that finishes a match is assigned one point.  For each drop, the dropper gets a
    malus of one point.  A resume is honored with 1.5 points but only if the associated drop happened while our session."
    (`gibbon-archive.c:33`), and the manual "Whenever somebody terminates a match prematurely, this is considered a drop"
    (`help/C/droppers.page:34`).  In the run, the opponent logs out in the middle of a match; the line about the match books the drop on
    the user (`gibbon-session.c:2476`), who has not left it.  An opponent who leaves without logging out is not charged at all.
    The other two sentences are parts of the same property, and each of them is violated on its own:

     * `WinsAreBooked` (`MCPlayWins.cfg`): the line that ends the last game ends the tracker and forgets the opponent, so
       that the line about the match (`gibbon-session.c:1817`) finds none and books nothing.
     * `ResumesAreHonored` (`MCPlayResumes.cfg`): the key under which a drop is stored lacks a colon
       (`gibbon-archive.c:436`); it is never found (`:463`), and no resume is honored.

### Known divergences

What the code does although a comment, the manual or the context says otherwise, met while modelling.
The models do what the code does; where a property had to be stated around one, it says so.

*Connection and settings*

 * Any line of the server, a shout included, makes the output ready (`gibbon-connection.c:465`), although the comment at
   line 706 says that it waits for a reply.
 * The result of a write is unsigned (`:597`); a failed write moves the offset by `(gsize) -1` and violates the assertion in
   `gibbon-fibs-command.c:135`.  The breakdown is noticed by the reading side.
 * The reply to a board style command is taken for the end of the list of saved matches
   (`gibbon-session.c:2204`).  When the user types one before the greeting is complete, matches are archived that
   the server still has.  (`EarlyUser = TRUE`, `MaxUser = 1`, `MaxEvents = 0`, `Reported = {p, me}`, `Mails = {"-", "a"}`: TLC finds
   `OnlyStaleArchived` violated.)
 * A who info that is outdated, sent before the server has read the new mail address or asked for twice because a reply is late,
   counts as a change on the server (`gibbon-session.c:3844`): the preferences get the old address, and the next request that is
   repeated (`:3009`) sends it to the server.  What the user has entered is lost, although the comment at 3857 says "Send user
   configured address to the server." (`AddressArrives`, violated with `MCSettingsMail.cfg`.)

*Registration*

 * No timer runs before the first prompt, so the case "Give another round" (`gibbon-session.c:2944`) is never
   used, and a server that is silent after "guest" is waited for for ever.
 * While the message about a timeout is shown the registration goes on, and may succeed; the session is then gone when the
   message returns (`:2953`).

*Playing and watching*

 * Drops, wins and resumes: finding 3.  The logout of an opponent charges both him and the user.
 * Disconnecting books a drop even when the user only watches (`:303`); starting a match while watching frees the watched name
   and keeps the pointer (`:1700`, the model stops there).
 * When the watched match ends the session forgets that it watches; each own who info while watching stops the tracker.

*Tracker*

 * No step of the recovery offers a resignation (the comment at `gibbon-match.c:686` relies on a caller that does not exist): every
   resignation seen live archives the record and starts another (`ResignationsAreRecorded`, violated with
   `MCTrackerResign.cfg`), although the tracker "records all relevant match actions" (`gibbon-match-tracker.c:26`).  Accepting the opponent's resignation and dropping his
   cube clear the offer before the update (`gibbon-session.c:3495`), with the same effect.
 * The field "was doubled" of a board always becomes a double of White (`gibbon-clip-reader.c:491`).
 * "You cannot move" gives White the turn (`gibbon-session.c:2512`); a dance of a watched player leaves his dice on the table.
 * A record that starts in the middle of a game has seen no roll; the next one gives both players the right to double
   (`gibbon-game.c:329`), in the Crawford game and with a turned cube as well
   (`OwnerDoubles`, violated with `MCTrackerOwner.cfg`; `gibbon-position.h:70` says "%TRUE if respective player may double").
 * The file loses a pending resignation, the points of the game and a double at cube 1 (`gibbon-gmd-writer.c:310`).
 * `dice_swapped` is part of the comparison of positions, so that automatic swapping breaks the record at each such roll.

*Board and positions*

 * The quick bear-off takes a single die for exact only if three checkers stand on its point, and with waste looks neither there
   nor at the ace point; with two dice of which the left one is exact, it bears off three checkers (`gibbon-board.c:480`).
   It ignores `dice_swapped` (`TODO:112` knows), as does a click on the bar.
 * `froms[4]` is written before a fifth starting point is refused (`gibbon-position.c:387`).
 * `can_move2` never starts with a bear-off; only the reason that is reported changes.

*Database, archive, importer*

 * When another program adds the relation between the check and the insertion, the early return at
   `gibbon-database.c:1892` leaves the transaction open (with "relations" in `Interference`, TLC finds `NothingLeaks` violated); the
   comments at 1423 and 1804 say this cannot hurt.
 * The callback of a cancelled update runs on a freed updater (`gibbon-geo-ip-updater.c:263`).
 * The archive passes the arguments of a match in the wrong order (`gibbon-archive.c:1140`): two matches between the same players
   with the same score are one record.
 * `gibbon_database_void_activity()` names a table that does not exist and always fails.
 * The importer's thread is never joined (`gibbon-java-fibs-importer.c:226`), and the counts of friends and villains stay zero.

## What is proved

The theorems hold for every value of the constants that satisfies the named assumptions of the modules, which TLC
evaluates in the runs: types and bounds, that sets of players, names and files are finite, and that the names the models give to nobody
are not names of players.  Some need more, and say so in their statement:

 * `OffersSettled`, `AlwaysWhole` and `BoardImplemented`: no file abandons games (`~Unfinished`);
 * the theorems of `DatabaseProofs`: no other program adds relations;
 * `StaleOnlyArchived`: the user does not ask for the board style before the greeting (`~EarlyUser`), whose reply would pass for the one that
   ends the list of saved matches.

| Module | Theorem | Property |
|---|---|---|
| `MatchProofs` | `AlwaysConsistent` | the inductive invariant `IInv` |
| | `TypeCorrect` | `TypeOK`; in particular no score is negative |
| | `BookkeepingCorrect` | `ScoresAddUp` |
| | `OverCorrect` | `OverAgrees`: `gibbon_game_over()` and the position's own score never disagree |
| | `CubeCorrect` | `CubeOwned` |
| | `EndCorrect` | `EndOfMatch`: no game starts after the end, no match has two winners |
| | `AlwaysHistory`, `CrawfordCorrect` | `OneFinishedCrawford`: also when games are abandoned, only one Crawford game is played to its end |
| | `OffersSettled` | `OffersAreSettled` |
| | `AlwaysWhole`, `BoardImplemented` | `ImplementsScoreBoard`, the refinement |
| `ConnectionProofs` | `AlwaysOrderly` | the inductive invariant |
| | `ConnectionTypes`, `CommandsInOrder`, `WritesGoOn` | `TypeOK`, `WireInOrder`, `NoForgottenWrite` |
| `DatabaseProofs` | `AlwaysQuietOrBetween` | the inductive invariant |
| | `DatabaseTypes`, `PromisesKept`, `NoLeak`, `CountriesReplacedWhole` | `TypeOK`, `KeepsPromises`, `NothingLeaks`, `CountriesWhole` |
| `RegistrationProofs` | `AlwaysInBalance` | the inductive invariant |
| | `OnlyPromptsAnswered`, `SuccessIsNeverFeigned` | `AnswersThePrompt`, `SuccessIsTrue` |
| `PlayProofs` | `AlwaysBehind` | the inductive invariant |
| | `TypesCorrect`, `AgreesAtRest`, `RightMatchRecorded`, `BooksOnce` | `TypeOK`, `Agreement`, `RecordsRightMatch`, `BookedOnce` |
| `SettingsProofs` | `AlwaysAsking` | the inductive invariant |
| | `TypesCorrect`, `NothingForgotten`, `StaleOnlyArchived`, `TogglesStayOn` | `TypeOK`, `TimerRuns`, `OnlyStaleArchived`, `NeverToggledOff` |
| `ImporterProofs` | `AlwaysBalanced` | the inductive invariant |
| | `TypesCorrect`, `EverythingImported` | `TypeOK`, `EndsComplete` |
| `TrackerProofs` | `AlwaysTracked` | the inductive invariant |
| | `AlwaysTypeOK`, `ScoresAlwaysFollow`, `FileIsAlwaysMatch` | `TypeOK`, `ScoresFollow`, `FileIsMatch` |
| | `CanMoveByRules` | on a board of any size, `CanMove` holds exactly if the rules allow some checker to move |
| | `BoardsAreFaithful` | normalising a position loses nothing |
| | `FoundMovesApply` | the movements that `gibbon_position_is_diff()` accepts lead `gibbon_position_apply_move()` to the same position, if the opponent's checkers have not become more |

What `BooksOnce` proves is what `BookedOnce` says: it does not claim that the right player is charged, nor that matches of the user's own
are booked, which is false (finding 3).

`OverAgrees`, `EndOfMatch` and `OneFinishedCrawford` are stated in `Match` and proved; no run checks them.

**Matches.**  The properties themselves are not inductive.  That accepting a resignation pays the right player
a positive number of points depends on the sign of the offer, which was set by an earlier
action: `SignedOffer` says that the sign belongs to the player who made the last `resign`.
That at most one player reaches the length depends on both having been below it when the game started
*and* on a game paying only one of them: hence the bound on the initial scores and `Paid` for
every game, not only the finished ones.  `Healthy(g)` collects what the current game needs,
`Consistent(gs)` adds what links the games.  The proof goes bottom-up: a lemma for every `AddXXX`, `PayOff` for the
three that end a game, `NewGameHealthy` and `RetiredGame` for the start of
a game, `ReadyConsistent` and `RecordConsistent` for replacing the last game of the list; `NextConsistent`
then has one step per action.

**The Crawford rule** needs the past.  `Chronicle` says that a Crawford game starts at a Crawford score, that after a
finished one no other follows and both players have points (`Behind`), and that the last but one snapshot of the current
game still carries the scores it started with where the detection reads it (`Fresh`).  `OneFinishedCrawford` follows.
For a match without gaps, `Complete` adds that every game but the last is over and that a Crawford score never goes by
without the Crawford game; `Detection` then shows that what `gibbon_match_add_game()` guesses from two snapshots is what
the rules say about all games, and each action of `Match` maps to a step of `MatchScore` or to a stutter.

**The connection.**  `Orderly` ties the write in progress to the queue and `out_ready`; `Flow` says, as long as the socket works,
that the queue holds the last commands without a gap and that the wire holds `Size` bytes for each command that is gone, plus
the offset, plus the result of the write whose callback is due.  `DivMod` carries the arithmetic, for
commands and chunks of any size.

**The database.**  Between two calls the connection is `Quiet` (the flag is not set, and nothing on the disk is missing from what it reads),
or, while an update is reading, `Between` (flag and transaction are set, the disk is intact): then every operation that wants a transaction is
refused.  Each operation leads from quiet to quiet (`Worked`).

**The registration.**  The client never looks at what the server made of a command.  That it answers prompts and nothing
else follows from a balance: prompts and answers take turns, so that a prompt on its way is the only one and none is while an answer is underway;
and `rstate` tells how much of the script (guest, name, password, password) has been issued.  A prompt that comes a second time
therefore finds the client further on, and unasked lines do not count.

**Playing and watching.**  `Agreement` and `BookedOnce` speak of a session that has handled everything.  The invariant
behind them must say what is true before: every line underway is `Truthful` about the server as it was, and wherever the session differs from
the server (who is listed, who the opponent is, whom I watch, what the tracker records, what is booked) there is a line
underway that corrects it, and none after it that spoils it again.  Who infos come before or after the other lines of the same event, so
each of these parts has to allow for either.  One lemma per kind of line and per event of the server shows that the debt is
paid exactly when the correcting line is handled.

**Settings and requests.**  `IInv` says that the greeting comes first (`Greeted`: the list of settings and of players precedes
everything else, and until they are handled nothing is expected) and that from then on the timer runs unless the session is
`Calm`.  A lemma per handler sums up what it sends and what it stops to expect (`Effect`, `Sends`), and one per command what the server answers
(`Answers`); the other two invariants build on these.  `Stale`: a saved match is on the disk with the version the server has
(or none), and the list of saved matches comes before any reply about the board style, for it was asked for first.
`Chained`: at most one request for a setting is underway, and a toggle is asked for only while it is off; it holds until the user
or a late reply interferes, which uses up some of the bounds (`SpendOnly`).

**The importer.**  The poll compares `jobs` with `finished`.  `Balance` says what their difference is: the stages that are
left, matches to parse, matches to save, ratings in the queue, and one that is counted and not queued yet.  `Split` says that what is
handled, what is queued and what is ahead of the worker are disjoint, without repetition, and together everything there is.  When the
difference is zero and the queue empty, nothing can be ahead, whatever the worker is about to do; both hold across Stop, and until OK
empties the queue.  `TypesCorrect` is more than types: the counters of the two threads are bounded by the files.

**The tracker.**  The search works on positions, by the rules in `gibbon-match.c` that try one action after the other;
what it finds is recorded in a match, by the rules of `gibbon-game.c`, which keep a game and a position of their own.  That the
recorded scores are those of the server therefore needs a simulation between the two: `Like(r, m)` says that a position of the search and
a match have the same scores, and the same cube and offers in the game in which the next action will be recorded.  A round of the
search whose actions the match accepts keeps them alike (`AcceptStep`, ..., `RollStep`, and `RoundStep` for all of them); `SearchOK` extends that to
any number of rounds, and `RecordedOK` to the file, which sees the same lines.  `SearchOpens` and `RefusedAtOnce` deal with the exception:
a record that was continued from the end of a game carries a position that says that the game is over and a game that does not (a *phantom*).
Nothing can be alike then; but the server is waiting for the next game, or the dice are on the table, and the first thing the search
would have the match record is a roll, which is refused.  So recording starts over.  `IInv` states all that: matches well formed
(`MatchOK`: the sign of a resignation tells who resigned, an over game has a score), `Honest` for the matches that are never phantoms, the scores of
position, record and server equal, the file equal to the record while it is whole, and `Phantom`.  There is a lemma for each kind of
line (`UpdatedOK`, `AfterOK`, `AfterWinOK`, `ShownOK`, `ContinuedOK`, `SetupOK`) and one step for each action of `Next`.
The functions of `Search` and `RecordAll` are recursive; that they exist and keep what one step keeps is shown
by looking at the least number for which they would not (`LeastNumber`, `OutcomesExist`, `RoundsExist`), for the induction theorems of the library cannot be used.

**Positions.**  `CanMoveByRules` rests on `BackmostFound`, which uses that a set of numbers has a least one.
`FoundMovesApply` is the part of `MoveApplies` that holds for any sequence of movements, however it was found, and for boards of any
size.  The two functions do not look at the same things: `is_diff` never asks whether there is a checker where it lifts one, `apply_move`
fails if there is none.  What makes them agree is a count: lifting a checker where I have none leaves one of the opponent's, hitting moves
one of hers to the bar, and nothing takes one away (`HersPlayed`).  So if hers are not more at the end, every lift was sound, and after
each movement the one has the board of the other's position (`Together`, `AppliedLikeDiff`).  The hypothesis is needed: it is what the
bear-off tray can break, when it leaves a checker of Black on the board (see *Findings*).  The theorems carry the assumptions
of `Position` on the size of the board as a hypothesis (`Sized`).

Only model-checked:

 * of the tracker, `RecordedTruly` and `RecordStaysWhole`: that what was deduced is what was played, and that a complete record stays complete.  They
   are about what the search does *not* miss, and depend on `Dances` and on the assumption that the sequence of moves identifies the checkers;
 * the rest of the check of a move (`LegalIffRules`, `MoveApplies`: the candidates of a double are a table, which TLC tries on
   whole boards, and putting them in order is a fold; nothing but the candidates stands between `MoveApplies` and
   `FoundMovesApply`, and that clicks keep the opponent's checkers);
 * all liveness.  Liveness under fairness and ENABLED are outside of what the proof system handles.

## What is not modelled

`PROJECT.json` lists the reason for each component.  Left out on purpose: text (the lexer of server lines, the
readers and writers of match files), pixels (windows, views, drawing), libraries, and arithmetic on real numbers (the match
equity table, the average reliability).  Most of the repository's lines are generated scanners and parsers, bundled
libraries, and the packaged copy of release 0.2.0; none of these have behaviour of their own to model.  What is left of
`src/src` outside the models is mostly creating widgets, GObject boilerplate and formatting.  Within the modelled components:
pip counts and the text of moves, time stamps and analyses, resolving and connecting, creating and migrating tables,
whether a line is shown in the console, invitations and chat, and games played while settings are being requested.

## Plan

Done: everything that was planned, in this order: games and matches, connection, settings, database, importer, play, tracker,
registration, positions and the board, with the proofs listed above.

Open, should the project go on: the two action properties of `Tracker`, starting from `Like` extended by the checkers,
the turn and the dice; for `LegalIffRules`, that what
`IsDiff` calls legal is a sequence of legal steps of `Rules`; and the text formats, as relations between a match
and what is read back, beyond what `Tracker` has of them.
