----------------------------- MODULE Registration -----------------------------
(***************************************************************************)
(* Registering a new user with the server: the guest login of              *)
(* gibbon-connection.c and the part of gibbon-session.c that talks to the  *)
(* server meanwhile.  The client answers the server's prompts with "guest",*)
(* the name, the password and the password again; anything unexpected ends *)
(* the registration, and so does a timer that every prompt restarts.       *)
(*                                                                         *)
(* Messages to the user are dialogs with a main loop of their own.  The    *)
(* connection is closed when the user has closed the dialog; until then    *)
(* the callbacks go on, reading only if it was not a line from the server  *)
(* that opened the dialog.                                                 *)
(*                                                                         *)
(* A command is sent in one piece here (see Connection for the chunks).    *)
(* The server and the user are modelled as the code sees them.             *)
(***************************************************************************)
EXTENDS Integers, Sequences, SequencesExt

CONSTANT MaxNotices    \* bound on the lines that nobody asked for

ASSUME NoticesAssumption == MaxNotices \in Nat

VARIABLES
  rstate,    \* rstate; "login" while the connection waits for that prompt
  timer,     \* timeout_id # 0
  queue,     \* out_queue
  ready,     \* out_ready
  writing,   \* write_cancellable: "no", "busy", or "done" before the callback
  dialogs,   \* open dialogs, the last one on top: <<message, opened by>>
  told,      \* what the user has been told
  alive,     \* the connection and its session exist
  \* the server
  stage,     \* what it has asked for
  wire,      \* the commands it was sent
  answered,  \* how many of them it has answered
  lines,     \* lines and prompts on their way to the client
  notices,
  account    \* the user is registered

client == <<rstate, timer, queue, ready, writing, dialogs, told, alive>>
server == <<stage, wire, answered, lines, notices, account>>
vars   == <<client, server>>

-----------------------------------------------------------------------------
(* gibbon_connection_send_chunk() *)
SendChunk(q, r, w) == IF q # <<>> /\ w = "no" /\ r THEN "busy" ELSE w

(* gibbon_connection_queue_command() in answer to a prompt *)
Queue(command) ==
  /\ ready' = TRUE
  /\ queue' = Append(queue, command)
  /\ writing' = SendChunk(queue', TRUE, writing)

(* A message: the timer is stopped, and then the dialog blocks the caller. *)
Tell(message, by) ==
  /\ timer' = FALSE
  /\ dialogs' = Append(dialogs, <<message, by>>)
  /\ told' = told \cup {message}

(* gibbon_connection_finalize() and gibbon_session_finalize() *)
Finalize ==
  /\ alive' = FALSE /\ timer' = FALSE
  /\ queue' = <<>> /\ writing' = "no"

Reading == alive /\ \A i \in DOMAIN dialogs : dialogs[i][2] # "input"

Receive(line) ==
  /\ Reading /\ lines # <<>> /\ Head(lines) = line
  /\ lines' = Tail(lines)
  /\ UNCHANGED <<stage, wire, answered, notices, account>>

Fail(message) ==
  Tell(message, "input") /\ UNCHANGED <<rstate, queue, ready, writing, alive>>

-----------------------------------------------------------------------------
(* A network error, which does not stop the timer. *)
NetworkError ==
  /\ dialogs' = Append(dialogs, <<"Network error", "input">>)
  /\ told' = told \cup {"Network error"}
  /\ UNCHANGED <<rstate, timer, queue, ready, writing, alive>>

HandleEndOfFile == Receive("end of file") /\ NetworkError

(* gibbon_connection_handle_input(): "login: ", for the first time or again *)
HandleLoginPrompt ==
  /\ Receive("login: ")
  /\ IF rstate = "login"
     THEN /\ Queue("guest") /\ rstate' = "init"
          /\ UNCHANGED <<timer, dialogs, told, alive>>
     ELSE NetworkError

Ignored(line) ==
  \/ rstate \in {"init", "prompt"}
  \/ rstate = "password" /\ line = "Your name will be"

(* Mutant: any line confirms. *)
HandleLine_Confirms(line) ==
  /\ Receive(line)
  /\ IF rstate = "login" THEN UNCHANGED client
     ELSE IF rstate = "confirmation" THEN Fail("Registration successful")
     ELSE IF ~Ignored(line) THEN Fail("Registration failure")
     ELSE /\ ready' = TRUE /\ writing' = SendChunk(queue, TRUE, writing)
          /\ UNCHANGED <<rstate, timer, queue, dialogs, told, alive>>

(***************************************************************************)
(* gibbon_session_process_server_line() of a guest, and what the           *)
(* connection does after it.                                               *)
(***************************************************************************)
HandleLine(line) ==
  /\ Receive(line)
  /\ IF rstate = "login" THEN UNCHANGED client
     ELSE IF rstate = "confirmation" /\ line = "You are registered"
     THEN Fail("Registration successful")
     ELSE IF ~Ignored(line) THEN Fail("Registration failure")
     ELSE /\ ready' = TRUE /\ writing' = SendChunk(queue, TRUE, writing)
          /\ UNCHANGED <<rstate, timer, queue, dialogs, told, alive>>

Restart(command) ==
  Queue(command) /\ timer' = TRUE /\ UNCHANGED <<dialogs, told, alive>>

Confused ==
  /\ ready' = TRUE
  /\ Tell("Registration failed", "input")
  /\ UNCHANGED <<rstate, queue, writing, alive>>

(* gibbon_session_handle_prompt() *)
HandlePrompt ==
  /\ Receive("> ")
  /\ IF rstate \in {"init", "prompt"}
     THEN rstate' = "password" /\ Restart("name")
     ELSE Confused

(* Mutants: the timer is not started again; the state is not looked at.    *)
HandlePwPrompt_NoTimer ==
  /\ Receive("password: ")
  /\ IF rstate \in {"password", "password2"}
     THEN /\ rstate' = IF rstate = "password" THEN "password2" ELSE "confirmation"
          /\ Queue("password") /\ timer' = FALSE
          /\ UNCHANGED <<dialogs, told, alive>>
     ELSE Confused

HandlePwPrompt_AnyState ==
  /\ Receive("password: ")
  /\ rstate' = IF rstate = "password" THEN "password2" ELSE "confirmation"
  /\ Restart("password")

(* gibbon_session_handle_pw_prompt() *)
HandlePwPrompt ==
  /\ Receive("password: ")
  /\ IF rstate \in {"password", "password2"}
     THEN /\ rstate' = IF rstate = "password" THEN "password2" ELSE "confirmation"
          /\ Restart("password")
     ELSE Confused

(* gibbon_connection_handle_output() *)
HandleOutput ==
  /\ alive /\ writing = "done"
  /\ queue' = Tail(queue) /\ ready' = FALSE /\ writing' = "no"
  /\ UNCHANGED <<rstate, timer, dialogs, told, alive, server>>

(***************************************************************************)
(* gibbon_session_timeout().  No prompt, no timer: the first case, which   *)
(* is meant to give another round, is not reached.                         *)
(***************************************************************************)
Timeout ==
  /\ alive /\ timer
  /\ IF rstate = "init"
     THEN /\ rstate' = "prompt" /\ timer' = FALSE
          /\ UNCHANGED <<dialogs, told>>
     ELSE Tell("Timeout", "timer") /\ UNCHANGED rstate
  /\ UNCHANGED <<queue, ready, writing, alive, server>>

(***************************************************************************)
(* The user closes the dialog on top, and gibbon_app_disconnect() is       *)
(* called.  After a dialog further down the session is asked for the       *)
(* application, which is undefined once the session is gone: nothing is    *)
(* modelled from there on.  The signal of a network error keeps the        *)
(* connection until its own dialog is closed.                              *)
(***************************************************************************)
CloseDialog ==
  /\ alive /\ dialogs # <<>>
  /\ dialogs' = Front(dialogs)
  /\ IF \E i \in DOMAIN dialogs' : dialogs'[i][1] = "Network error"
     THEN UNCHANGED <<alive, timer, queue, writing>>
     ELSE Finalize
  /\ UNCHANGED <<rstate, ready, told, server>>

(* The user disconnects; he cannot while a dialog is open. *)
Disconnect ==
  /\ alive /\ dialogs = <<>>
  /\ Finalize
  /\ UNCHANGED <<rstate, ready, dialogs, told, server>>

-----------------------------------------------------------------------------
(* The socket accepts the command. *)
SocketWrites ==
  /\ alive /\ writing = "busy"
  /\ writing' = "done" /\ wire' = Append(wire, Head(queue))
  /\ UNCHANGED <<rstate, timer, queue, ready, dialogs, told, alive,
                 stage, answered, lines, notices, account>>

PromptOf(s) ==
  CASE s = "login" -> "login: "
    [] s \in {"guest", "registered"} -> "> "
    [] s \in {"password", "password2"} -> "password: "

Send(out) == lines' = lines \o out

Open == "end of file" \notin ToSet(lines)

(* The banner, with the first prompt. *)
ServerGreets ==
  /\ stage = "connected" /\ Open
  /\ stage' = "login" /\ Send(<<"text", "login: ">>)
  /\ UNCHANGED <<client, wire, answered, notices, account>>

Answers == Open /\ answered < Len(wire) /\ answered' = answered + 1

(* The command asked for, which the server may accept. *)
Asked(s, command) ==
  \/ s = "login" /\ command = "guest"
  \/ s = "guest" /\ command = "name"
  \/ s \in {"password", "password2"} /\ command = "password"

ServerAccepts ==
  /\ Answers /\ Asked(stage, wire[answered'])
  /\ stage' = CASE stage = "login"     -> "guest"
                [] stage = "guest"     -> "password"
                [] stage = "password"  -> "password2"
                [] stage = "password2" -> "registered"
  /\ Send((CASE stage = "login"     -> <<"text">>
             [] stage = "guest"     -> <<"Your name will be">>
             [] stage = "password"  -> <<>>
             [] stage = "password2" -> <<"You are registered">>)
          \o <<PromptOf(stage')>>)
  /\ account' = (account \/ stage' = "registered")
  /\ UNCHANGED <<client, wire, notices>>

(* It asks again, with or without an explanation. *)
ServerRefuses(explanation) ==
  /\ Answers
  /\ Send(explanation \o <<PromptOf(stage)>>)
  /\ UNCHANGED <<client, stage, wire, notices, account>>

(* A line for everybody. *)
ServerNotice ==
  /\ Open /\ stage # "connected" /\ notices < MaxNotices
  /\ notices' = notices + 1 /\ Send(<<"text">>)
  /\ UNCHANGED <<client, stage, wire, answered, account>>

ServerHangsUp ==
  /\ Open /\ Send(<<"end of file">>)
  /\ UNCHANGED <<client, stage, wire, answered, notices, account>>

-----------------------------------------------------------------------------
Init ==
  /\ rstate = "login" /\ timer = FALSE /\ queue = <<>> /\ ready = FALSE
  /\ writing = "no" /\ dialogs = <<>> /\ told = {} /\ alive = TRUE
  /\ stage = "connected" /\ wire = <<>> /\ answered = 0 /\ lines = <<>>
  /\ notices = 0 /\ account = FALSE

Handle ==
  \/ HandleLoginPrompt \/ HandlePrompt \/ HandlePwPrompt \/ HandleEndOfFile
  \/ \E line \in {"text", "Your name will be", "You are registered"} :
       HandleLine(line)

Server ==
  \/ ServerGreets \/ ServerAccepts \/ ServerNotice \/ ServerHangsUp
  \/ \E explanation \in {<<>>, <<"text">>} : ServerRefuses(explanation)

Next ==
  \/ Handle \/ HandleOutput \/ Timeout \/ CloseDialog \/ Disconnect
  \/ SocketWrites \/ Server

(* The main loop runs what is due, and the user closes dialogs.  The       *)
(* server need not do anything.                                            *)
Spec ==
  /\ Init /\ [][Next]_vars
  /\ WF_vars(Handle) /\ WF_vars(HandleOutput) /\ WF_vars(SocketWrites)
  /\ WF_vars(Timeout) /\ WF_vars(CloseDialog)

-----------------------------------------------------------------------------
(***************************************************************************)
(* Every command is the answer to what the server has asked for, and none  *)
(* is given twice: whatever the server sends, and whatever arrives while a *)
(* dialog is open, a name or a password that was refused is not sent       *)
(* again, and the password is sent to nothing but its prompt.              *)
(***************************************************************************)
AnswersThePrompt ==
  /\ IsPrefix(wire, <<"guest", "name", "password", "password">>)
  /\ \A i \in answered + 1 .. Len(wire) : Asked(stage, wire[i])

(***************************************************************************)
(* The user is told that he is registered only if he is, and a running     *)
(* timer never outlives the session it will call.                          *)
(***************************************************************************)
SuccessIsTrue ==
  /\ "Registration successful" \in told => account
  /\ timer => alive

(***************************************************************************)
(* Once the server has asked for the name the registration ends, whatever  *)
(* the server does or fails to do from there on.                           *)
(***************************************************************************)
RegistrationEnds == rstate \notin {"login", "init"} ~> ~alive
=============================================================================
