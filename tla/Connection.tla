------------------------------ MODULE Connection ------------------------------
(***************************************************************************)
(* The connection to the server, gibbon-connection.c, once the socket is   *)
(* connected.  Everything runs in the main loop of the program: reads and  *)
(* writes are asynchronous, their completion callbacks, the session and    *)
(* the user take turns.  Commands wait in a queue; the first one is handed *)
(* to the socket in as many chunks as the socket likes; when it is gone,   *)
(* out_ready is cleared, and the next line from the server sets it again.  *)
(*                                                                         *)
(* Commands are numbered in the order they are queued; number 1 is the     *)
(* login command.  Of the text of a line it only matters whether it is the *)
(* login prompt, the CLIP welcome, or something else.  The socket and the  *)
(* server are not part of the repository: they are modelled as the code    *)
(* sees them.  A read that brings several lines is as many steps, which    *)
(* allows more interleavings than the loop in handle_input does.           *)
(***************************************************************************)
EXTENDS Integers, Sequences

CONSTANTS
  MaxCommands,   \* bound on the commands queued
  MaxLines,      \* bound on the lines underway that nobody asked for
  Size,          \* bytes of a command
  Word,          \* the modulus of a gsize
  Failures       \* TRUE: the connection may break down

ASSUME SizeAssumption   == Size \in Nat \ {0} /\ Word \in Nat /\ Word > Size
ASSUME BoundsAssumption == MaxCommands \in Nat \ {0} /\ MaxLines \in Nat
ASSUME ErrorsAssumption == Failures \in BOOLEAN

VARIABLES
  \* gibbon-connection.c and gibbon-fibs-command.c
  state,      \* "login", "welcome" or "commands": what the client waits for
  queue,      \* out_queue
  offset,     \* how much of the first command is written
  outReady,   \* out_ready
  alive,      \* the connection object exists; a network error ends it
  writing,    \* write_cancellable: "no", "busy", or "done" when the socket
              \* has finished and the callback has not run yet
  result,     \* the result of the finished write
  queued,     \* the number of commands queued so far
  \* the socket and the server
  broken,     \* the socket does not work any more
  wire,       \* every byte the socket accepted: <<command, position>>
  lines,      \* lines on their way to the client
  prompted,   \* the server has sent the login prompt
  answered    \* how many commands the server has answered

client == <<state, queue, offset, outReady, alive, writing, result, queued>>
server == <<broken, wire, lines, prompted, answered>>
vars   == <<client, server>>

-----------------------------------------------------------------------------
(* Mutants: what is written already is not subtracted; a command counts as *)
(* written after its first chunk; only an empty queue sets off a write.    *)
Pending_WholeCommand(off) == Size

Pending_FirstChunk(off) == IF off > 0 THEN 0 ELSE Size

SendChunk_OnlyFirst(q, ready, w) ==
  IF Len(q) = 1 /\ w = "no" /\ ready THEN "busy" ELSE w

(* gibbon_fibs_command_get_pending() *)
Pending(off) == IF off >= Size THEN 0 ELSE Size - off

(* gibbon_connection_send_chunk(): the write in progress afterwards. *)
SendChunk(q, ready, w) == IF q # <<>> /\ w = "no" /\ ready THEN "busy" ELSE w

(***************************************************************************)
(* gibbon_connection_queue_command(), called by the session or the user,   *)
(* who are let in when the login is complete.                              *)
(***************************************************************************)
QueueCommand ==
  /\ alive /\ state = "commands"
  /\ queued < MaxCommands
  /\ queued' = queued + 1
  /\ queue' = Append(queue, queued')
  /\ writing' = SendChunk(queue', outReady, writing)
  /\ UNCHANGED <<state, offset, outReady, alive, result, server>>

(***************************************************************************)
(* gibbon_connection_handle_input() for a complete line: the session looks *)
(* at it first, and may queue n commands in response.  Any line, whether   *)
(* it answers a command or not, makes the output ready.                    *)
(***************************************************************************)
HandleLine(n) ==
  /\ alive /\ lines # <<>> /\ Head(lines) # "prompt"
  /\ lines' = Tail(lines)
  /\ IF state = "login"
     THEN /\ n = 0
          /\ UNCHANGED client
     ELSE /\ state' = IF Head(lines) = "welcome" THEN "commands" ELSE state
          /\ state' = "commands" \/ n = 0
          /\ queued + n <= MaxCommands
          /\ queued' = queued + n
          /\ queue' = queue \o [i \in 1..n |-> queued + i]
          /\ outReady' = TRUE
          /\ writing' = SendChunk(queue', TRUE, writing)
          /\ UNCHANGED <<offset, alive, result>>
  /\ UNCHANGED <<broken, wire, prompted, answered>>

(***************************************************************************)
(* gibbon_connection_finalize(), after the user or gibbon_app_disconnect() *)
(* has dropped the connection.                                             *)
(***************************************************************************)
Finalize ==
  /\ alive' = FALSE /\ queue' = <<>> /\ offset' = 0
  /\ writing' = "no" /\ result' = 0
  /\ UNCHANGED <<state, outReady, queued>>

Disconnect == alive /\ Finalize /\ UNCHANGED server

(***************************************************************************)
(* gibbon_connection_handle_input() for the login prompt, which ends       *)
(* without a line feed.  When it comes a second time, the login has        *)
(* failed; the network error that is signalled makes the application       *)
(* disconnect.                                                             *)
(***************************************************************************)
HandlePrompt ==
  /\ alive /\ lines # <<>> /\ Head(lines) = "prompt"
  /\ lines' = Tail(lines)
  /\ \/ /\ state = "login"
        /\ outReady' = TRUE
        /\ queued' = queued + 1
        /\ queue' = Append(queue, queued')
        /\ writing' = SendChunk(queue', TRUE, writing)
        /\ state' = "welcome"
        /\ UNCHANGED <<offset, alive, result>>
     \/ state = "welcome" /\ Finalize
  /\ UNCHANGED <<broken, wire, prompted, answered>>

(* Mutant: the end of the input is a matter of course before the login.    *)
HandleEndOfFile_LoggedIn ==
  /\ alive /\ broken /\ lines = <<>> /\ state = "commands"
  /\ Finalize
  /\ UNCHANGED server

(* The same at the end of the input: zero bytes read are a network error. *)
HandleEndOfFile ==
  /\ alive /\ broken /\ lines = <<>>
  /\ Finalize
  /\ UNCHANGED server

(***************************************************************************)
(* gibbon_connection_handle_output(), the callback of a finished write.    *)
(* bytes_written is unsigned, so the error branch is dead and a result of  *)
(* -1 is added to the offset as Word - 1.                                  *)
(***************************************************************************)
HandleOutput ==
  LET off == (offset + result) % Word
  IN /\ alive /\ writing = "done"
     /\ result' = 0
     /\ IF Pending(off) = 0
        THEN /\ queue' = Tail(queue)
             /\ offset' = 0
             /\ outReady' = FALSE
        ELSE /\ offset' = off
             /\ UNCHANGED <<queue, outReady>>
     /\ writing' = SendChunk(queue', outReady', "no")
     /\ UNCHANGED <<state, alive, queued, server>>

-----------------------------------------------------------------------------
(* The socket accepts the next n bytes of the first command. *)
SocketWrites(n) ==
  /\ writing = "busy" /\ ~broken
  /\ n <= Pending(offset)
  /\ wire' = wire \o [i \in 1..n |-> <<Head(queue), offset + i>>]
  /\ writing' = "done" /\ result' = n
  /\ UNCHANGED <<state, queue, offset, outReady, alive, queued,
                 broken, lines, prompted, answered>>

(* The write fails. *)
SocketFails ==
  /\ writing = "busy" /\ broken
  /\ writing' = "done" /\ result' = -1
  /\ UNCHANGED <<state, queue, offset, outReady, alive, queued, server>>

(***************************************************************************)
(* The connection breaks down, which the client sees as the end of the     *)
(* input and as writes that fail.  A read that fails is left out: its      *)
(* result, too, is stored in an unsigned number, which is then used as an  *)
(* index into the read buffer, and nothing is defined from there on.       *)
(***************************************************************************)
SocketBreaks ==
  /\ Failures /\ ~broken
  /\ broken' = TRUE
  /\ UNCHANGED <<client, wire, lines, prompted, answered>>

(* How many commands have reached the server as a whole. *)
Arrived == Len(wire) \div Size

(***************************************************************************)
(* The server greets and prompts for a login, sends lines of its own, and  *)
(* answers one command after the other; a login with the welcome or with   *)
(* another prompt, every other command with a line.                        *)
(***************************************************************************)
ServerNotice ==
  /\ ~broken /\ Len(lines) < MaxLines
  /\ lines' = Append(lines, "line")
  /\ UNCHANGED <<client, broken, wire, prompted, answered>>

ServerPrompt ==
  /\ ~broken /\ ~prompted
  /\ prompted' = TRUE
  /\ lines' = Append(lines, "prompt")
  /\ UNCHANGED <<client, broken, wire, answered>>

ServerAnswer(line) ==
  /\ ~broken /\ answered < Arrived
  /\ (line = "line") <=> (answered > 0)
  /\ answered' = answered + 1
  /\ lines' = Append(lines, line)
  /\ UNCHANGED <<client, broken, wire, prompted>>

-----------------------------------------------------------------------------
(* gibbon_connection_init(), and the read begun in on_connect. *)
Init ==
  /\ state = "login" /\ queue = <<>> /\ offset = 0 /\ outReady = FALSE
  /\ alive = TRUE /\ writing = "no" /\ result = 0 /\ queued = 0
  /\ broken = FALSE /\ wire = <<>> /\ lines = <<>> /\ prompted = FALSE /\ answered = 0

Answer == \E line \in {"line", "welcome", "prompt"} : ServerAnswer(line)

Write == SocketFails \/ \E n \in 1..Size : SocketWrites(n)

Next ==
  \/ QueueCommand
  \/ \E n \in 0..1 : HandleLine(n)
  \/ HandlePrompt \/ HandleEndOfFile
  \/ HandleOutput
  \/ Disconnect
  \/ Write \/ SocketBreaks
  \/ ServerNotice \/ ServerPrompt \/ Answer

Spec == Init /\ [][Next]_vars

(***************************************************************************)
(* The main loop runs every callback that is due, the socket is never      *)
(* blocked for ever, and the server answers what it is asked.              *)
(***************************************************************************)
Fairness ==
  /\ WF_vars(\E n \in 0..1 : HandleLine(n))
  /\ WF_vars(HandlePrompt) /\ WF_vars(HandleEndOfFile)
  /\ WF_vars(HandleOutput)
  /\ WF_vars(Write)
  /\ WF_vars(ServerPrompt)
  /\ WF_vars(Answer)

FairSpec == Spec /\ Fairness

(* On top of that, there is always somebody who logs in, out, or shouts. *)
ChattySpec == FairSpec /\ WF_vars(ServerNotice)

-----------------------------------------------------------------------------
TypeOK ==
  /\ state \in {"login", "welcome", "commands"}
  /\ queue \in Seq(1..MaxCommands)
  /\ offset \in 0..(Word - 1)
  /\ outReady \in BOOLEAN /\ alive \in BOOLEAN /\ broken \in BOOLEAN /\ prompted \in BOOLEAN
  /\ writing \in {"no", "busy", "done"}
  /\ result \in -1..Size
  /\ queued \in 0..MaxCommands
  /\ wire \in Seq((1..MaxCommands) \X (1..Size))
  /\ lines \in Seq({"line", "welcome", "prompt"})
  /\ answered \in Nat

(***************************************************************************)
(* What the server receives is the queued commands, in the order they were *)
(* queued, without a gap, a repetition or an interleaving, however the     *)
(* socket cuts them into chunks and whatever is queued meanwhile.          *)
(***************************************************************************)
WireInOrder ==
  \A i \in DOMAIN wire : wire[i] = <<1 + ((i - 1) \div Size), 1 + ((i - 1) % Size)>>

(***************************************************************************)
(* Nothing gets stuck between two callbacks.  A write is in progress only  *)
(* for a command that may be sent; it is in progress whenever there is     *)
(* such a command; and a command that is partly written is being written   *)
(* on, so that nothing else gets in between.                               *)
(***************************************************************************)
NoForgottenWrite ==
  alive =>
    /\ writing # "no" <=> outReady /\ queue # <<>>
    /\ offset > 0 => writing # "no"

(***************************************************************************)
(* Every command that is queued reaches the server, or the connection is   *)
(* dropped, provided that lines keep coming from the server.               *)
(***************************************************************************)
EverythingArrives ==
  \A c \in 1..MaxCommands : queued >= c ~> Arrived >= c \/ ~alive

(***************************************************************************)
(* A breakdown of the connection is noticed, whatever the client is doing. *)
(***************************************************************************)
BreakdownIsNoticed == broken ~> ~alive

-----------------------------------------------------------------------------
(***************************************************************************)
(* "First wait for a reply from FIBS before sending the next command": the *)
(* reply releases the next command, so that every command gets its turn.   *)
(* It does not always, see the run connection_lost.                        *)
(***************************************************************************)
Begun == (Len(wire) + Size - 1) \div Size

ReplyReleasesNext ==
  \A c \in 1..MaxCommands :
    queued = c /\ answered = Begun /\ lines = <<>> ~> Begun >= c \/ ~alive
=============================================================================
