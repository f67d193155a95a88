------------------------------ MODULE MCSettings ------------------------------
(***************************************************************************)
(* Settings.tla with a few players and commands.  Others act and the       *)
(* server reports in any state of the client and with any saved matches;   *)
(* the user and late replies interfere with the client alone, while no     *)
(* match is saved and the server takes the address.                        *)
(***************************************************************************)
EXTENDS Settings

NoMatch == \A o \in Opponents : files[o] = 0 /\ stored[o] = 0
Apart   == Undisturbed \/ (events = MaxEvents /\ NoMatch /\ mail \notin BadMails)

NextApart ==
  \/ Handle
  \/ Timeout /\ Apart'
  \/ \E name \in Others : GetSavedCount(name) /\ Apart'
  \/ \E command \in UserCommands : UserCommand(command) /\ Apart'
  \/ ServerAnswers
  \/ ServerReports /\ Apart'

FairSpecApart ==
  /\ Init /\ [][NextApart]_vars
  /\ WF_vars(Handle) /\ WF_vars(ServerAnswers) /\ WF_vars(Timeout)
=============================================================================
