-------------------------- MODULE RegistrationProofs --------------------------
(***************************************************************************)
(* Proofs about Registration.tla, for any number of lines that nobody      *)
(* asked for.                                                              *)
(*                                                                         *)
(* The client never looks at what the server has made of a command; that   *)
(* it answers prompts and nothing else follows from a balance.  Prompts    *)
(* and answers take turns (Balance): a prompt on its way to the client is  *)
(* the only one, and there is none while an answer is underway.  What the  *)
(* client has issued by now is told by rstate (Issued), and so a prompt    *)
(* that comes again finds the client further on than before.               *)
(***************************************************************************)
EXTENDS Registration, SequenceTheorems, TLAPS

-----------------------------------------------------------------------------
Commands == {"guest", "name", "password"}
Prompts  == {"login: ", "> ", "password: "}
Line     == Prompts \cup {"text", "Your name will be", "You are registered", "end of file"}

RStates == {"login", "init", "prompt", "password", "password2", "confirmation"}
Stages  == {"connected", "login", "guest", "password", "password2", "registered"}

(* What a registration consists of, and how much of it has been issued.    *)
Script(i) == CASE i = 1 -> "guest" [] i = 2 -> "name" [] OTHER -> "password"

Issued ==
  CASE rstate = "login" -> 0
    [] rstate \in {"init", "prompt"} -> 1
    [] rstate = "password"  -> 2
    [] rstate = "password2" -> 3
    [] rstate = "confirmation" -> 4

(* How many commands the server has accepted. *)
Level ==
  CASE stage \in {"connected", "login"} -> 0
    [] stage = "guest" -> 1
    [] stage = "password"  -> 2
    [] stage = "password2" -> 3
    [] stage = "registered" -> 4

Types ==
  /\ rstate \in RStates /\ stage \in Stages
  /\ queue \in Seq(Commands) /\ wire \in Seq(Commands) /\ lines \in Seq(Line)
  /\ writing \in {"no", "busy", "done"} /\ answered \in Nat
  /\ alive \in BOOLEAN /\ timer \in BOOLEAN

(* The queue holds the end of what was issued, the wire what comes before  *)
(* it; a command that was written stays in the queue until its callback.   *)
Written == IF writing = "done" THEN 1 ELSE 0

InStep ==
  /\ \A i \in 1..Len(wire) : wire[i] = Script(i)
  /\ Len(wire) <= Issued /\ answered <= Len(wire)
  /\ writing # "no" => queue # <<>>
  /\ alive => /\ Len(wire) = Issued - Len(queue) + Written
              /\ \A i \in 1..Len(queue) : queue[i] = Script(Issued - Len(queue) + i)

(* The prompts on their way to the client. *)
Prompted == {i \in 1..Len(lines) : lines[i] \in Prompts}

Balance ==
  /\ \A i \in Prompted : /\ lines[i] = PromptOf(stage) /\ stage # "connected"
                         /\ answered = Issued
  /\ \A i, j \in Prompted : i = j
  /\ Issued \in {answered, answered + 1}
  /\ Issued = answered + 1 => Asked(stage, Script(Issued))
  /\ Level <= answered
  /\ stage = "connected" => Issued = 0

(* The line that confirms the registration, and the message it leads to.   *)
Confirms(line) == line = "You are registered"
Congratulated  == "Registration successful" \in told

Truth ==
  /\ \A i \in 1..Len(lines) : Confirms(lines[i]) => account
  /\ Congratulated => account
  /\ timer => alive

IInv == Types /\ InStep /\ Balance /\ Truth

-----------------------------------------------------------------------------
LEMMA IssuedRange == rstate \in RStates => Issued \in 0..4
BY DEF Issued, RStates

LEMMA LevelRange == stage \in Stages => Level \in 0..4
BY DEF Level, Stages

(* What the messages say about the user. *)
LEMMA ToldNothing == UNCHANGED told => (Congratulated' <=> Congratulated)
BY Zenon DEF Congratulated

LEMMA ToldTrouble ==
  ASSUME NEW message \in {"Network error", "Registration failed", "Registration failure",
                          "Timeout"},
         told' = told \cup {message}
  PROVE  Congratulated' => Congratulated
<1>1. message # "Registration successful"
  BY Zenon
<1> QED  BY <1>1, Zenon DEF Congratulated

LEMMA InitIInv == Init => IInv
<1> SUFFICES ASSUME Init PROVE IInv
  OBVIOUS
<1>1. \A S : <<>> \in Seq(S) /\ Len(<<>>) = 0
  BY EmptySeq
<1>2. Types
  BY <1>1, Zenon DEF Init, Types, RStates, Stages
<1>3. Issued = 0 /\ Level = 0
  BY DEF Init, Issued, Level
<1>4. Prompted = {}
  BY <1>1 DEF Init, Prompted
<1>5. InStep
  <2>1. Written = 0
    BY DEF Init, Written
  <2>2. Len(wire) = 0 /\ Len(queue) = 0
    BY <1>1 DEF Init
  <2>3. writing = "no" /\ answered = 0
    BY DEF Init
  <2> QED  BY <1>3, <2>1, <2>2, <2>3 DEF InStep
<1>6. Balance
  BY <1>1, <1>3, <1>4 DEF Init, Balance
<1>7. Truth
  BY <1>1 DEF Init, Truth, Congratulated
<1> QED  BY <1>2, <1>5, <1>6, <1>7 DEF IInv

(***************************************************************************)
(* The client takes a line.  A prompt was the only one, and it finds all   *)
(* that was issued answered.                                               *)
(***************************************************************************)
LEMMA LineTaken ==
  ASSUME IInv, NEW line, Receive(line)
  PROVE  /\ lines' \in Seq(Line)
         /\ line \in Line
         /\ line \in Prompts => /\ Prompted' = {} /\ answered = Issued
                                /\ line = PromptOf(stage) /\ stage # "connected"
         /\ rstate' \in RStates /\ Issued' = Issued => Balance'
         /\ \A i \in 1..Len(lines') : Confirms(lines'[i]) => account'
         /\ Confirms(line) => account
<1>1. /\ lines \in Seq(Line) /\ lines # <<>> /\ lines' = Tail(lines) /\ Head(lines) = line
      /\ UNCHANGED <<stage, wire, answered, account>>
  BY DEF Receive, IInv, Types
<1>2. /\ lines' \in Seq(Line) /\ line \in Line
      /\ Len(lines') = Len(lines) - 1 /\ Len(lines) \in Nat \ {0}
      /\ \A i \in 1..Len(lines') : lines'[i] = lines[i + 1] /\ i + 1 \in 1..Len(lines)
  <2>1. lines' \in Seq(Line) /\ line \in Line /\ Len(lines') = Len(lines) - 1
    BY <1>1, HeadTailProperties
  <2>2. Len(lines) \in Nat \ {0}
    BY <1>1, EmptySeq
  <2>3. \A i \in 1..Len(lines') : lines'[i] = lines[i + 1]
    BY <1>1, HeadTailProperties
  <2> QED  BY <2>1, <2>2, <2>3
<1>3. line = lines[1] /\ 1 \in 1..Len(lines)
  BY <1>1, <1>2
<1>4. \A i \in Prompted' : i + 1 \in Prompted /\ i \in Nat \ {0}
                           /\ lines'[i] = lines[i + 1]
  BY <1>2 DEF Prompted
<1>5. line \in Prompts => 1 \in Prompted
  BY <1>3 DEF Prompted
<1>6. line \in Prompts => Prompted' = {}
  <2>1. \A i \in Nat \ {0} : i + 1 # 1
    OBVIOUS
  <2> QED  BY <1>4, <1>5, <2>1 DEF IInv, Balance
<1>7. line \in Prompts => /\ answered = Issued /\ line = PromptOf(stage)
                          /\ stage # "connected"
  BY <1>3, <1>5 DEF IInv, Balance
<1>8. ASSUME Issued' = Issued PROVE Balance'
  <2>1. Level' = Level
    BY <1>1 DEF Level
  <2>2. \A i \in Prompted' : /\ lines'[i] = PromptOf(stage') /\ stage' # "connected"
                             /\ answered' = Issued'
    BY <1>1, <1>4, <1>8 DEF IInv, Balance, PromptOf
  <2>3. \A i, j \in Prompted' : i = j
    <3> SUFFICES ASSUME NEW i \in Prompted', NEW j \in Prompted' PROVE i = j
      OBVIOUS
    <3>1. i + 1 = j + 1
      BY <1>4 DEF IInv, Balance
    <3> QED  BY <1>4, <3>1
  <2>4. Asked(stage', Script(Issued')) = Asked(stage, Script(Issued))
    BY <1>1, <1>8
  <2> QED  BY <1>1, <1>8, <2>1, <2>2, <2>3, <2>4 DEF IInv, Balance
<1>9. /\ \A i \in 1..Len(lines') : Confirms(lines'[i]) => account'
      /\ Confirms(line) => account
  BY <1>1, <1>2, <1>3 DEF IInv, Truth
<1> QED  BY <1>2, <1>6, <1>7, <1>8, <1>9

(***************************************************************************)
(* The client answers the prompt it has taken with the next command.       *)
(***************************************************************************)
LEMMA Answered ==
  ASSUME IInv, NEW line \in Prompts, Receive(line), NEW command \in Commands,
         Queue(command), rstate' \in RStates, Issued' = Issued + 1,
         command = Script(Issued'), Asked(stage, command), alive' = alive
  PROVE  /\ queue' \in Seq(Commands) /\ writing' \in {"no", "busy", "done"}
         /\ InStep' /\ Balance'
<1>1. /\ queue \in Seq(Commands) /\ wire \in Seq(Commands) /\ answered \in Nat
      /\ writing \in {"no", "busy", "done"} /\ Len(wire) \in Nat /\ Len(queue) \in Nat
      /\ Issued \in Nat
  BY LenProperties, IssuedRange DEF IInv, Types
<1>2. /\ wire' = wire /\ answered' = answered /\ stage' = stage
      /\ queue' = Append(queue, command)
      /\ alive
  BY DEF Receive, Queue, Reading
<1>3. /\ queue' \in Seq(Commands) /\ queue' # <<>> /\ Len(queue') = Len(queue) + 1
      /\ \A i \in 1..Len(queue) : queue'[i] = queue[i]
      /\ queue'[Len(queue) + 1] = command
  BY <1>1, <1>2, AppendProperties
<1>4. /\ writing' \in {"no", "busy", "done"}
      /\ Written' = Written /\ Written \in {0, 1}
  BY <1>1 DEF Queue, SendChunk, Written
<1>5. InStep'
  <2>1. \A i \in 1..Len(queue') : queue'[i] = Script(Issued' - Len(queue') + i)
    <3> SUFFICES ASSUME NEW i \in 1..Len(queue')
                 PROVE  queue'[i] = Script(Issued' - Len(queue') + i)
      OBVIOUS
    <3>1. Issued' - Len(queue') + i = Issued - Len(queue) + i
      BY <1>1, <1>3
    <3>2. CASE i \in 1..Len(queue)
      BY <3>1, <3>2, <1>2, <1>3 DEF IInv, InStep
    <3>3. CASE i = Len(queue) + 1
      <4>1. Issued' - Len(queue') + i = Issued'
        BY <1>1, <1>3, <3>3
      <4> QED  BY <3>3, <4>1, <1>3
    <3> QED  BY <1>1, <1>3, <3>2, <3>3
  <2>2. \A i \in 1..Len(wire') : wire'[i] = Script(i)
    BY <1>2 DEF IInv, InStep
  <2>3. /\ Len(wire) <= Issued /\ answered <= Len(wire)
        /\ Len(wire) = Issued - Len(queue) + Written
    BY <1>2 DEF IInv, InStep
  <2>4. Len(wire') = Issued' - Len(queue') + Written'
    <3>1. Len(wire') = Len(wire) /\ Len(queue') = Len(queue) + 1
      BY <1>2, <1>3
    <3>2. Written' = Written /\ Written \in Int
      BY <1>4
    <3> QED  BY <2>3, <1>1, <3>1, <3>2
  <2>5. Len(wire') <= Issued' /\ answered' <= Len(wire')
    BY <2>3, <1>1, <1>2
  <2> HIDE DEF IInv
  <2> QED  BY <2>1, <2>2, <2>4, <2>5, <1>3 DEF InStep
<1>6. Balance'
  <2>1. Prompted' = {} /\ answered = Issued /\ stage # "connected"
    BY LineTaken
  <2>2. Level' = Level
    BY <1>2 DEF Level
  <2> QED  BY <2>1, <2>2, <1>1, <1>2 DEF IInv, Balance
<1> QED  BY <1>3, <1>4, <1>5, <1>6

(***************************************************************************)
(* A line or a prompt that is not answered, whatever the user is told.     *)
(***************************************************************************)
LEMMA Unanswered ==
  ASSUME IInv, NEW line \in Line, Receive(line), rstate' = rstate, queue' = queue,
         alive' = alive, timer' \in BOOLEAN,
         writing' = writing \/ writing' = SendChunk(queue, TRUE, writing),
         Congratulated' =>
           Congratulated \/ Confirms(line)
  PROVE  IInv'
<1>1. /\ UNCHANGED <<stage, wire, answered, account>> /\ alive
  BY DEF Receive, Reading
<1>2. Issued' = Issued /\ rstate' \in RStates
  BY DEF Issued, IInv, Types
<1>3. /\ lines' \in Seq(Line) /\ Balance'
      /\ \A i \in 1..Len(lines') : Confirms(lines'[i]) => account'
      /\ Confirms(line) => account
  BY <1>2, LineTaken
<1>4. /\ writing' \in {"no", "busy", "done"} /\ Written' = Written
      /\ writing' # "no" => queue # <<>>
  BY DEF IInv, Types, InStep, SendChunk, Written
<1>5. Types'
  BY <1>1, <1>2, <1>3, <1>4 DEF IInv, Types
<1>6. InStep'
  BY <1>1, <1>2, <1>4 DEF IInv, InStep
<1>7. Truth'
  BY <1>1, <1>3 DEF IInv, Truth
<1> QED  BY <1>3, <1>5, <1>6, <1>7 DEF IInv

(* A prompt that is answered. *)
LEMMA AnsweredStep ==
  ASSUME IInv, NEW line \in Prompts, Receive(line), NEW command \in Commands,
         Queue(command), rstate' \in RStates, Issued' = Issued + 1,
         command = Script(Issued'), Asked(stage, command),
         UNCHANGED <<told, alive>>, timer' \in BOOLEAN
  PROVE  IInv'
<1>1. /\ UNCHANGED <<stage, wire, answered, account>> /\ alive
  BY DEF Receive, Reading
<1>2. /\ queue' \in Seq(Commands) /\ writing' \in {"no", "busy", "done"}
      /\ InStep' /\ Balance'
  BY Answered
<1>3. /\ lines' \in Seq(Line)
      /\ \A i \in 1..Len(lines') : Confirms(lines'[i]) => account'
  BY LineTaken
<1>4. Types'
  BY <1>1, <1>2, <1>3 DEF IInv, Types
<1>5. Truth'
  BY <1>1, <1>3, ToldNothing DEF IInv, Truth
<1> QED  BY <1>2, <1>4, <1>5 DEF IInv

LEMMA NetworkErrorStep ==
  ASSUME IInv, NEW line \in Line, Receive(line), NetworkError
  PROVE  IInv'
<1>1. Congratulated' => Congratulated
  BY ToldTrouble, Zenon DEF NetworkError
<1> QED  BY <1>1, Unanswered DEF NetworkError, IInv, Types

LEMMA ConfusedStep ==
  ASSUME IInv, NEW line \in Line, Receive(line), Confused
  PROVE  IInv'
<1>1. Congratulated' => Congratulated
  BY ToldTrouble, Zenon DEF Confused, Tell
<1>2. timer' = FALSE /\ UNCHANGED <<rstate, queue, writing, alive>>
  BY Zenon DEF Confused, Tell
<1> QED  BY <1>1, <1>2, Unanswered DEF IInv, Types

LEMMA LoginPromptStep == IInv /\ HandleLoginPrompt => IInv'
<1> SUFFICES ASSUME IInv, HandleLoginPrompt PROVE IInv'
  OBVIOUS
<1>1. Receive("login: ") /\ "login: " \in Prompts /\ "login: " \in Line
  BY DEF HandleLoginPrompt, Prompts, Line
<1>2. CASE rstate = "login"
  <2>1. Queue("guest") /\ rstate' = "init" /\ UNCHANGED timer /\ UNCHANGED <<told, alive>>
    BY <1>2 DEF HandleLoginPrompt
  <2>2. Issued' = Issued + 1 /\ Script(Issued') = "guest"
    BY <1>2, <2>1 DEF Issued, Script
  <2>3. "login: " = PromptOf(stage) /\ stage # "connected"
    BY <1>1, LineTaken
  <2>4. Asked(stage, "guest")
    BY <2>3 DEF PromptOf, Asked, IInv, Types, Stages
  <2>5. "guest" \in Commands /\ "init" \in RStates /\ timer' \in BOOLEAN
    BY <2>1 DEF Commands, RStates, IInv, Types
  <2> QED  BY <1>1, <2>1, <2>2, <2>4, <2>5, AnsweredStep
<1>3. CASE rstate # "login"
  BY <1>1, <1>3, NetworkErrorStep DEF HandleLoginPrompt
<1> QED  BY <1>2, <1>3

LEMMA PromptStep == IInv /\ HandlePrompt => IInv'
<1> SUFFICES ASSUME IInv, HandlePrompt PROVE IInv'
  OBVIOUS
<1>1. Receive("> ") /\ "> " \in Prompts /\ "> " \in Line
  BY DEF HandlePrompt, Prompts, Line
<1>2. CASE rstate \in {"init", "prompt"}
  <2>1. /\ Queue("name") /\ rstate' = "password" /\ timer' = TRUE
        /\ UNCHANGED <<told, alive>>
    BY <1>2 DEF HandlePrompt, Restart
  <2>2. Issued = 1 /\ Issued' = Issued + 1 /\ Script(Issued') = "name"
    BY <1>2, <2>1 DEF Issued, Script
  <2>3. "> " = PromptOf(stage) /\ stage # "connected" /\ answered = 1
    BY <1>1, <2>2, LineTaken
  <2>4. Level <= 1
    BY <2>3 DEF IInv, Balance
  <2>5. Asked(stage, "name")
    <3>1. stage \in {"login", "guest", "password", "password2", "registered"}
      BY <2>3 DEF IInv, Types, Stages
    <3>2. stage \in {"guest", "registered"}
      BY <2>3, <3>1 DEF PromptOf
    <3>3. stage # "registered"
      BY <2>4 DEF Level
    <3> QED  BY <3>2, <3>3 DEF Asked
  <2>6. "name" \in Commands /\ "password" \in RStates /\ timer' \in BOOLEAN
    BY <2>1 DEF Commands, RStates
  <2> QED  BY <1>1, <2>1, <2>2, <2>5, <2>6, AnsweredStep
<1>3. CASE rstate \notin {"init", "prompt"}
  BY <1>1, <1>3, ConfusedStep DEF HandlePrompt
<1> QED  BY <1>2, <1>3

LEMMA PwPromptStep == IInv /\ HandlePwPrompt => IInv'
<1> SUFFICES ASSUME IInv, HandlePwPrompt PROVE IInv'
  OBVIOUS
<1>1. Receive("password: ") /\ "password: " \in Prompts /\ "password: " \in Line
  BY DEF HandlePwPrompt, Prompts, Line
<1>2. CASE rstate \in {"password", "password2"}
  <2>1. /\ Queue("password") /\ timer' = TRUE /\ UNCHANGED <<told, alive>>
        /\ rstate' = IF rstate = "password" THEN "password2" ELSE "confirmation"
    BY <1>2 DEF HandlePwPrompt, Restart
  <2>2. Issued \in {2, 3} /\ Issued' = Issued + 1 /\ Script(Issued') = "password"
    BY <1>2, <2>1 DEF Issued, Script
  <2>3. "password: " = PromptOf(stage) /\ stage # "connected"
    BY <1>1, LineTaken
  <2>4. Asked(stage, "password")
    BY <2>3 DEF PromptOf, Asked, IInv, Types, Stages
  <2>5. "password" \in Commands /\ rstate' \in RStates /\ timer' \in BOOLEAN
    BY <2>1 DEF Commands, RStates
  <2> QED  BY <1>1, <2>1, <2>2, <2>4, <2>5, AnsweredStep
<1>3. CASE rstate \notin {"password", "password2"}
  BY <1>1, <1>3, ConfusedStep DEF HandlePwPrompt
<1> QED  BY <1>2, <1>3

LEMMA EndOfFileStep == IInv /\ HandleEndOfFile => IInv'
BY NetworkErrorStep, "end of file" \in Line DEF HandleEndOfFile, Line

LEMMA LineStep == ASSUME NEW line \in Line PROVE IInv /\ HandleLine(line) => IInv'
<1> SUFFICES ASSUME IInv, HandleLine(line) PROVE IInv'
  OBVIOUS
<1> DEFINE success == Fail("Registration successful") /\ Confirms(line)
           failure == Fail("Registration failure")
           goOn    == /\ writing' = SendChunk(queue, TRUE, writing)
                      /\ UNCHANGED <<rstate, timer, queue, dialogs, told, alive>>
<1>1. Receive(line) /\ (UNCHANGED client \/ success \/ failure \/ goOn)
  BY Zenon DEF HandleLine, Confirms
<1>2. success \/ failure => UNCHANGED <<rstate, queue, writing, alive>> /\ timer' = FALSE
  BY Zenon DEF Fail, Tell
<1>3. success => Confirms(line)
  OBVIOUS
<1>4. failure => (Congratulated' => Congratulated)
  BY ToldTrouble, Zenon DEF Fail, Tell
<1> HIDE DEF success, failure
<1>5. CASE success \/ failure
  <2>1. timer' \in BOOLEAN
    BY <1>2, <1>5
  <2> QED  BY <1>1, <1>2, <1>3, <1>4, <1>5, <2>1, Unanswered
<1>6. CASE UNCHANGED client
  <2>1. UNCHANGED <<rstate, timer, queue, writing, told, alive>>
    BY <1>6 DEF client
  <2>2. timer' \in BOOLEAN
    BY <2>1 DEF IInv, Types
  <2> QED  BY <1>1, <2>1, <2>2, ToldNothing, Unanswered
<1>7. CASE goOn
  <2>1. timer' \in BOOLEAN
    BY <1>7 DEF IInv, Types
  <2> QED  BY <1>1, <1>7, <2>1, ToldNothing, Unanswered
<1> QED  BY <1>1, <1>5, <1>6, <1>7

-----------------------------------------------------------------------------
LEMMA OutputStep == IInv /\ HandleOutput => IInv'
<1> SUFFICES ASSUME IInv, HandleOutput PROVE IInv'
  OBVIOUS
<1>1. /\ alive /\ writing = "done" /\ writing' = "no" /\ queue' = Tail(queue)
      /\ UNCHANGED <<rstate, timer, told, alive, stage, wire, answered, lines, account>>
  BY DEF HandleOutput, server
<1>2. /\ queue \in Seq(Commands) /\ queue # <<>> /\ Len(queue) \in Nat \ {0}
      /\ Len(wire) \in Nat /\ Issued \in Nat /\ answered \in Nat
  <2>1. queue \in Seq(Commands) /\ queue # <<>>
    BY <1>1 DEF IInv, Types, InStep
  <2> QED  BY <2>1, EmptySeq, LenProperties, IssuedRange DEF IInv, Types
<1>3. /\ queue' \in Seq(Commands) /\ Len(queue') = Len(queue) - 1
      /\ \A i \in 1..Len(queue') : queue'[i] = queue[i + 1]
  BY <1>1, <1>2, HeadTailProperties
<1>4. Issued' = Issued /\ Level' = Level /\ Prompted' = Prompted
      /\ Written = 1 /\ Written' = 0
  BY <1>1 DEF Issued, Level, Prompted, Written
<1>5. Types'
  BY <1>1, <1>3 DEF IInv, Types
<1>6. InStep'
  <2>1. Len(wire) = Issued - Len(queue) + 1
    BY <1>1, <1>4 DEF IInv, InStep
  <2>2. Len(wire') = Issued' - Len(queue') + Written'
    <3>1. Len(wire') = Len(wire)
      BY <1>1
    <3> QED  BY <2>1, <3>1, <1>2, <1>3, <1>4
  <2>3. ASSUME NEW i \in 1..Len(queue')
        PROVE  queue'[i] = Script(Issued' - Len(queue') + i)
    <3>1. i + 1 \in 1..Len(queue) /\ queue'[i] = queue[i + 1]
      BY <1>2, <1>3
    <3>2. queue[i + 1] = Script(Issued - Len(queue) + (i + 1))
      BY <3>1, <1>1 DEF IInv, InStep
    <3>3. Issued - Len(queue) + (i + 1) = Issued' - Len(queue') + i
      BY <1>2, <1>3, <1>4
    <3> QED  BY <3>1, <3>2, <3>3
  <2>4. /\ \A i \in 1..Len(wire') : wire'[i] = Script(i)
        /\ Len(wire') <= Issued' /\ answered' <= Len(wire')
    BY <1>1, <1>4 DEF IInv, InStep
  <2> QED  BY <1>1, <2>2, <2>3, <2>4 DEF InStep
<1>7. Balance'
  BY <1>1, <1>4 DEF IInv, Balance
<1>8. Truth'
  BY <1>1, ToldNothing DEF IInv, Truth
<1> QED  BY <1>5, <1>6, <1>7, <1>8 DEF IInv

LEMMA SocketStep == IInv /\ SocketWrites => IInv'
<1> SUFFICES ASSUME IInv, SocketWrites PROVE IInv'
  OBVIOUS
<1>1. /\ alive /\ writing = "busy" /\ writing' = "done" /\ wire' = Append(wire, Head(queue))
      /\ UNCHANGED <<rstate, timer, queue, told, alive, stage, answered, lines, account>>
  BY DEF SocketWrites
<1>2. /\ queue \in Seq(Commands) /\ queue # <<>> /\ Len(queue) \in Nat \ {0}
      /\ wire \in Seq(Commands) /\ Len(wire) \in Nat /\ Issued \in Nat /\ answered \in Nat
  <2>1. queue \in Seq(Commands) /\ queue # <<>>
    BY <1>1 DEF IInv, Types, InStep
  <2> QED  BY <2>1, EmptySeq, LenProperties, IssuedRange DEF IInv, Types
<1>3. Head(queue) = queue[1] /\ Head(queue) \in Commands
  BY <1>2, HeadTailProperties
<1>4. /\ wire' \in Seq(Commands) /\ Len(wire') = Len(wire) + 1
      /\ \A i \in 1..Len(wire) : wire'[i] = wire[i]
      /\ wire'[Len(wire) + 1] = queue[1]
  BY <1>1, <1>2, <1>3, AppendProperties
<1>5. Issued' = Issued /\ Level' = Level /\ Prompted' = Prompted
      /\ Written = 0 /\ Written' = 1
  BY <1>1 DEF Issued, Level, Prompted, Written
<1>6. Types'
  BY <1>1, <1>4 DEF IInv, Types
<1>7. InStep'
  <2>1. Len(wire) = Issued - Len(queue) + 0 /\ answered <= Len(wire)
    BY <1>1, <1>5 DEF IInv, InStep
  <2>2. queue[1] = Script(Len(wire) + 1)
    <3>1. queue[1] = Script(Issued - Len(queue) + 1)
      BY <1>1, <1>2 DEF IInv, InStep
    <3>2. Issued - Len(queue) + 1 = Len(wire) + 1
      BY <1>2, <2>1
    <3> QED  BY <3>1, <3>2
  <2>3. ASSUME NEW i \in 1..Len(wire') PROVE wire'[i] = Script(i)
    <3>1. CASE i \in 1..Len(wire)
      BY <3>1, <1>4 DEF IInv, InStep
    <3>2. CASE i = Len(wire) + 1
      BY <3>2, <2>2, <1>4
    <3> QED  BY <1>2, <1>4, <3>1, <3>2
  <2>4. /\ Len(wire') = Issued' - Len(queue') + Written'
        /\ Len(wire') <= Issued' /\ answered' <= Len(wire')
    <3>1. Len(queue') = Len(queue) /\ answered' = answered
      BY <1>1
    <3> QED  BY <2>1, <3>1, <1>2, <1>4, <1>5
  <2>5. \A i \in 1..Len(queue') : queue'[i] = Script(Issued' - Len(queue') + i)
    BY <1>1, <1>5 DEF IInv, InStep
  <2> QED  BY <1>1, <1>2, <2>3, <2>4, <2>5 DEF InStep
<1>8. Balance'
  BY <1>1, <1>5 DEF IInv, Balance
<1>9. Truth'
  BY <1>1, ToldNothing DEF IInv, Truth
<1> QED  BY <1>6, <1>7, <1>8, <1>9 DEF IInv

LEMMA TimeoutStep == IInv /\ Timeout => IInv'
<1> SUFFICES ASSUME IInv, Timeout PROVE IInv'
  OBVIOUS
<1>1. /\ UNCHANGED <<queue, writing, alive, stage, wire, answered, lines, account>>
      /\ timer' = FALSE
      /\ \/ rstate = "init" /\ rstate' = "prompt"
         \/ rstate' = rstate
  BY DEF Timeout, Tell, server
<1>8. Congratulated' => Congratulated
  <2>1. told' = told \/ told' = told \cup {"Timeout"}
    BY DEF Timeout, Tell
  <2> QED  BY <2>1, ToldNothing, ToldTrouble, Zenon
<1>2. Issued' = Issued /\ rstate' \in RStates
  BY <1>1 DEF Issued, RStates, IInv, Types
<1>3. Level' = Level /\ Prompted' = Prompted /\ Written' = Written
  BY <1>1 DEF Level, Prompted, Written
<1>4. Types'
  BY <1>1, <1>2 DEF IInv, Types
<1>5. InStep'
  BY <1>1, <1>2, <1>3 DEF IInv, InStep
<1>6. Balance'
  BY <1>1, <1>2, <1>3 DEF IInv, Balance
<1>7. Truth'
  BY <1>1, <1>8 DEF IInv, Truth
<1> QED  BY <1>4, <1>5, <1>6, <1>7 DEF IInv

(* The connection goes, with whatever was left in its queue. *)
LEMMA FinalizeStep ==
  ASSUME IInv, Finalize, UNCHANGED <<rstate, told, server>>
  PROVE  IInv'
<1>1. /\ UNCHANGED <<rstate, told, stage, wire, answered, lines, account>>
      /\ ~alive' /\ alive' = FALSE /\ timer' = FALSE /\ queue' = <<>> /\ writing' = "no"
  BY DEF Finalize, server
<1>2. queue' \in Seq(Commands)
  BY <1>1, EmptySeq
<1>3. Issued' = Issued /\ Level' = Level /\ Prompted' = Prompted
  BY <1>1 DEF Issued, Level, Prompted
<1>4. Types'
  BY <1>1, <1>2 DEF IInv, Types
<1>5. InStep'
  BY <1>1, <1>3 DEF IInv, InStep
<1>6. Balance'
  BY <1>1, <1>3 DEF IInv, Balance
<1>7. Truth'
  BY <1>1, ToldNothing DEF IInv, Truth
<1> QED  BY <1>4, <1>5, <1>6, <1>7 DEF IInv

(* Nothing that the invariant is about changes. *)
LEMMA Idle ==
  ASSUME IInv, UNCHANGED <<rstate, timer, queue, writing, told, alive, server>>
  PROVE  IInv'
<1>1. Issued' = Issued /\ Level' = Level /\ Prompted' = Prompted /\ Written' = Written
  BY DEF Issued, Level, Prompted, Written, server
<1>2. Types' /\ InStep'
  BY <1>1 DEF IInv, Types, InStep, server
<1>3. Balance' /\ Truth'
  BY <1>1, ToldNothing DEF IInv, Balance, Truth, server
<1> QED  BY <1>2, <1>3 DEF IInv

LEMMA CloseDialogStep == IInv /\ CloseDialog => IInv'
BY FinalizeStep, Idle DEF CloseDialog

LEMMA DisconnectStep == IInv /\ Disconnect => IInv'
BY FinalizeStep DEF Disconnect

-----------------------------------------------------------------------------
(***************************************************************************)
(* The server speaks: lines without a prompt at any time, a prompt last of *)
(* all when it has asked nothing yet, or in answer to a command.           *)
(***************************************************************************)
LEMMA LinesAppended ==
  ASSUME Types, NEW out \in Seq(Line), Send(out)
  PROVE  /\ lines' \in Seq(Line)
         /\ Len(lines) \in Nat /\ Len(out) \in Nat
         /\ \A i \in 1..Len(lines') : \/ i \in 1..Len(lines) /\ lines'[i] = lines[i]
                                      \/ /\ i - Len(lines) \in 1..Len(out)
                                         /\ lines'[i] = out[i - Len(lines)]
<1>1. lines \in Seq(Line) /\ Len(lines) \in Nat /\ Len(out) \in Nat
  BY LenProperties DEF Types
<1>2. /\ lines' \in Seq(Line) /\ Len(lines') = Len(lines) + Len(out)
      /\ \A i \in 1..Len(lines) + Len(out) :
           lines'[i] = IF i <= Len(lines) THEN lines[i] ELSE out[i - Len(lines)]
  BY <1>1, ConcatProperties DEF Send
<1> QED  BY <1>1, <1>2

LEMMA NoticeStep ==
  ASSUME IInv, NEW line \in Line \ Prompts, ~Confirms(line), Send(<<line>>),
         UNCHANGED <<client, stage, wire, answered, account>>
  PROVE  IInv'
<1> DEFINE out == <<line>>
<1>0. line \in Line /\ line \notin Prompts /\ ~Confirms(line)
  OBVIOUS
<1>1. out \in Seq(Line) /\ Len(out) = 1 /\ out[1] = line
  BY <1>0
<1> HIDE DEF out
<1>2. /\ lines' \in Seq(Line)
      /\ \A i \in 1..Len(lines') : \/ i \in 1..Len(lines) /\ lines'[i] = lines[i]
                                   \/ lines'[i] = line
  <2>1. Send(out)
    BY DEF out
  <2>2. \A k \in 1..Len(out) : out[k] = line
    <3>1. 1..Len(out) = {1}
      BY <1>1
    <3> QED  BY <3>1, <1>1
  <2>3. /\ lines' \in Seq(Line)
        /\ \A i \in 1..Len(lines') : \/ i \in 1..Len(lines) /\ lines'[i] = lines[i]
                                     \/ /\ i - Len(lines) \in 1..Len(out)
                                        /\ lines'[i] = out[i - Len(lines)]
    BY <1>1, <2>1, LinesAppended DEF IInv
  <2> QED  BY <2>2, <2>3
<1>3. /\ Issued' = Issued /\ Level' = Level /\ Written' = Written
      /\ UNCHANGED <<rstate, timer, queue, writing, told, alive>>
  BY DEF Issued, Level, Written, client
<1>4. \A i \in Prompted' : i \in Prompted /\ lines'[i] = lines[i]
  BY <1>0, <1>2 DEF Prompted
<1>5. Types'
  BY <1>2, <1>3 DEF IInv, Types
<1>6. InStep'
  BY <1>3 DEF IInv, InStep
<1>7. Balance'
  <2>1. \A i \in Prompted' : /\ lines'[i] = PromptOf(stage') /\ stage' # "connected"
                             /\ answered' = Issued'
    BY <1>3, <1>4 DEF IInv, Balance
  <2>2. \A i, j \in Prompted' : i = j
    BY <1>4 DEF IInv, Balance
  <2> QED  BY <2>1, <2>2, <1>3 DEF IInv, Balance
<1>8. Truth'
  BY <1>0, <1>2, <1>3, ToldNothing DEF IInv, Truth
<1> QED  BY <1>5, <1>6, <1>7, <1>8 DEF IInv

LEMMA AskedStep ==
  ASSUME IInv, NEW out \in Seq(Line), Send(out), out # <<>>,
         \A i \in 1..Len(out) : /\ out[i] \in Prompts => i = Len(out)
                                /\ Confirms(out[i]) => account',
         out[Len(out)] = PromptOf(stage'),
         stage' \in Stages \ {"connected"}, answered' \in Nat, Level' <= answered',
         Prompted = {}, answered' = Issued, answered' <= Len(wire),
         account => account',
         UNCHANGED <<client, wire>>
  PROVE  IInv'
<1>1. /\ Issued' = Issued /\ Written' = Written /\ Issued \in Nat
      /\ UNCHANGED <<rstate, timer, queue, writing, told, alive, wire>>
  BY IssuedRange DEF Issued, Written, client, IInv, Types
<1>2. /\ lines' \in Seq(Line)
      /\ Len(lines) \in Nat /\ Len(out) \in Nat
      /\ \A i \in 1..Len(lines') : \/ i \in 1..Len(lines) /\ lines'[i] = lines[i]
                                   \/ /\ i - Len(lines) \in 1..Len(out)
                                      /\ lines'[i] = out[i - Len(lines)]
  BY LinesAppended DEF IInv
<1>3. \A i \in Prompted' : i = Len(lines) + Len(out) /\ lines'[i] = PromptOf(stage')
  <2> SUFFICES ASSUME NEW i \in Prompted'
               PROVE  i = Len(lines) + Len(out) /\ lines'[i] = PromptOf(stage')
    OBVIOUS
  <2>1. i \in 1..Len(lines') /\ lines'[i] \in Prompts
    BY DEF Prompted
  <2>2. ~(i \in 1..Len(lines) /\ lines'[i] = lines[i])
    BY <2>1 DEF Prompted
  <2>3. i - Len(lines) \in 1..Len(out) /\ lines'[i] = out[i - Len(lines)]
    BY <1>2, <2>1, <2>2
  <2>4. i - Len(lines) = Len(out)
    BY <2>1, <2>3
  <2>5. i \in Int
    <3>1. Len(lines') \in Nat
      BY <1>2, LenProperties
    <3> QED  BY <2>1, <3>1
  <2>6. i = Len(lines) + Len(out)
    BY <2>4, <2>5, <1>2
  <2> QED  BY <2>3, <2>4, <2>6
<1>4. Types'
  BY <1>1, <1>2 DEF IInv, Types
<1>5. InStep'
  BY <1>1 DEF IInv, InStep
<1>6. Balance'
  <2>1. \A i, j \in Prompted' : i = j
    BY <1>3
  <2>2. Issued' = answered' /\ Issued' # answered' + 1
    BY <1>1
  <2>3. stage' # "connected"
    OBVIOUS
  <2> QED  BY <1>3, <2>1, <2>2, <2>3 DEF Balance
<1>7. Truth'
  <2>1. \A i \in 1..Len(lines') : Confirms(lines'[i]) => account'
    BY <1>2 DEF IInv, Truth
  <2> QED  BY <1>1, <2>1, ToldNothing DEF IInv, Truth
<1> QED  BY <1>4, <1>5, <1>6, <1>7 DEF IInv

LEMMA ShortLines ==
  ASSUME NEW l, NEW p
  PROVE  <<>> \o <<p>> = <<p>> /\ <<l>> \o <<p>> = <<l, p>>
<1>1. <<l>> \in Seq({l, p}) /\ <<p>> \in Seq({l, p}) /\ p \in {l, p}
  OBVIOUS
<1>2. <<>> \o <<p>> = <<p>>
  BY <1>1, ConcatEmptySeq, Zenon
<1>3. <<l>> \o <<p>> = Append(<<l>>, p)
  BY <1>1, AppendIsConcat, Zenon
<1>4. Append(<<l>>, p) = <<l, p>>
  <2>1. /\ Append(<<l>>, p) \in Seq({l, p}) /\ Len(Append(<<l>>, p)) = 2
        /\ Append(<<l>>, p)[1] = l /\ Append(<<l>>, p)[2] = p
    <3>1. Len(<<l>>) = 1 /\ <<l>>[1] = l
      OBVIOUS
    <3> QED  BY <1>1, <3>1, AppendProperties
  <2>2. <<l, p>> \in Seq({l, p}) /\ Len(<<l, p>>) = 2 /\ <<l, p>>[1] = l /\ <<l, p>>[2] = p
    OBVIOUS
  <2>3. \A i \in 1..2 : i = 1 \/ i = 2
    OBVIOUS
  <2> QED  BY <2>1, <2>2, <2>3, SeqEqual
<1> QED  BY <1>2, <1>3, <1>4

(* An explanation, perhaps, and the prompt of the stage. *)
LEMMA AskStep ==
  ASSUME IInv, NEW said \in {<<>>} \cup {<<l>> : l \in Line \ Prompts},
         Send(said \o <<PromptOf(stage')>>),
         \A l : said = <<l>> /\ Confirms(l) => account',
         stage' \in Stages \ {"connected"}, answered' \in Nat, Level' <= answered',
         Prompted = {}, answered' = Issued, answered' <= Len(wire),
         account => account',
         UNCHANGED <<client, wire>>
  PROVE  IInv'
<1> DEFINE prompt == PromptOf(stage')
           out == said \o <<prompt>>
<1>1. prompt \in Prompts /\ prompt \in Line /\ ~Confirms(prompt)
  BY Zenon DEF PromptOf, Stages, Prompts, Line, Confirms
<1> HIDE DEF prompt
<1>2. /\ out \in Seq(Line) /\ out # <<>> /\ out[Len(out)] = prompt
      /\ \A i \in 1..Len(out) : /\ out[i] \in Prompts => i = Len(out)
                                /\ Confirms(out[i]) => account'
  <2>1. CASE said = <<>>
    <3>1. out = <<prompt>>
      BY <2>1
    <3> HIDE DEF out
    <3>2. Len(out) = 1 /\ out[1] = prompt /\ out \in Seq(Line) /\ out # <<>>
      BY <3>1, <1>1
    <3>3. \A i \in 1..Len(out) : i = 1
      BY <3>2
    <3> QED  BY <1>1, <3>2, <3>3
  <2>2. ASSUME NEW l \in Line \ Prompts, said = <<l>> PROVE <1>2!:
    <3>1. out = <<l, prompt>>
      BY <2>2, ShortLines, Zenon
    <3> HIDE DEF out
    <3>2. /\ Len(out) = 2 /\ out[1] = l /\ out[2] = prompt /\ out \in Seq(Line)
          /\ out # <<>>
      BY <3>1, <1>1
    <3>3. \A i \in 1..Len(out) : i = 1 \/ i = 2
      BY <3>2
    <3>4. Confirms(l) => account'
      BY <2>2
    <3> QED  BY <1>1, <3>2, <3>3, <3>4
  <2> QED  BY <2>1, <2>2
<1> HIDE DEF out
<1>3. Send(out) /\ out[Len(out)] = PromptOf(stage')
  BY <1>2 DEF out, prompt
<1> QED  BY <1>2, <1>3, AskedStep, Zenon

LEMMA NoPrompt ==
  ASSUME IInv, Answers
  PROVE  /\ Prompted = {} /\ answered' = Issued /\ answered' <= Len(wire)
         /\ answered' = answered + 1 /\ answered' \in Nat
         /\ stage \in Stages \ {"connected"}
         /\ Level <= answered
         /\ wire[answered'] = Script(Issued)
<1>1. /\ answered \in Nat /\ Issued \in Nat /\ Len(wire) \in Nat
      /\ answered < Len(wire) /\ answered' = answered + 1
  <2>1. answered < Len(wire) /\ answered' = answered + 1
    BY Zenon DEF Answers
  <2>2. answered \in Nat /\ wire \in Seq(Commands) /\ rstate \in RStates
    BY DEF IInv, Types
  <2>3. Issued \in 0..4 /\ Len(wire) \in Nat
    BY <2>2, LenProperties, IssuedRange, Zenon
  <2> QED  BY <2>1, <2>2, <2>3
<1>2. Len(wire) <= Issued /\ Issued \in {answered, answered + 1}
  BY DEF IInv, InStep, Balance
<1>3. Issued = answered + 1 /\ answered' <= Len(wire)
  BY <1>1, <1>2
<1>4. Prompted = {}
  <2>1. \A i \in Prompted : answered = Issued
    BY DEF IInv, Balance
  <2>2. answered # Issued
    BY <1>1, <1>3
  <2> QED  BY <2>1, <2>2
<1>5. stage \in Stages /\ stage # "connected"
  <2>1. stage = "connected" => Issued = 0
    BY DEF IInv, Balance
  <2>2. Issued # 0
    BY <1>1, <1>3
  <2> QED  BY <2>1, <2>2 DEF IInv, Types
<1>6. wire[answered'] = Script(Issued)
  <2>1. answered' \in 1..Len(wire)
    BY <1>1, <1>3
  <2> QED  BY <2>1, <1>1, <1>3 DEF IInv, InStep
<1> QED  BY <1>1, <1>3, <1>4, <1>5, <1>6 DEF IInv, Balance

LEMMA GreetsStep == IInv /\ ServerGreets => IInv'
<1> SUFFICES ASSUME IInv, ServerGreets PROVE IInv'
  OBVIOUS
<1>1. /\ stage = "connected" /\ stage' = "login" /\ UNCHANGED <<client, wire>>
      /\ answered' = answered /\ account' = account
  BY Zenon DEF ServerGreets
<1>2. Send(<<"text">> \o <<PromptOf(stage')>>)
  <2>1. PromptOf(stage') = "login: "
    BY <1>1, Zenon DEF PromptOf
  <2> QED  BY <2>1, ShortLines, Zenon DEF ServerGreets
<1>3. "text" \in Line \ Prompts /\ ~Confirms("text")
  BY Zenon DEF Line, Prompts, Confirms
<1>4. <<"text">> \in {<<>>} \cup {<<l>> : l \in Line \ Prompts}
  BY <1>3
<1>5. \A l : <<"text">> = <<l>> /\ Confirms(l) => account'
  <2>1. \A l : <<"text">> = <<l>> => l = "text"
    OBVIOUS
  <2> QED  BY <1>3, <2>1
<1>6. Issued = 0 /\ answered = 0 /\ Len(wire) \in Nat
  <2>1. Issued = 0 /\ Issued \in {answered, answered + 1} /\ answered \in Nat
    BY <1>1 DEF IInv, Balance, Types
  <2> QED  BY <2>1, LenProperties DEF IInv, Types
<1>7. Prompted = {}
  BY <1>1 DEF IInv, Balance
<1>8. Level' <= answered'
  BY <1>1, <1>6 DEF Level
<1>9. stage' \in Stages \ {"connected"}
  BY <1>1 DEF Stages
<1> HIDE DEF PromptOf
<1> QED  BY <1>1, <1>2, <1>4, <1>5, <1>6, <1>7, <1>8, <1>9, AskStep

LEMMA RefusesStep ==
  ASSUME NEW explanation \in {<<>>, <<"text">>}
  PROVE  IInv /\ ServerRefuses(explanation) => IInv'
<1> SUFFICES ASSUME IInv, ServerRefuses(explanation) PROVE IInv'
  OBVIOUS
<1>1. /\ Answers /\ UNCHANGED <<client, wire>> /\ stage' = stage /\ account' = account
      /\ Send(explanation \o <<PromptOf(stage')>>)
  BY Zenon DEF ServerRefuses
<1>2. "text" \in Line \ Prompts /\ ~Confirms("text")
  BY Zenon DEF Line, Prompts, Confirms
<1>3. explanation \in {<<>>} \cup {<<l>> : l \in Line \ Prompts}
  BY <1>2
<1>4. \A l : explanation = <<l>> /\ Confirms(l) => account'
  <2>1. \A l : explanation = <<l>> => l = "text"
    OBVIOUS
  <2> QED  BY <1>2, <2>1
<1>5. /\ Prompted = {} /\ answered' = Issued /\ answered' <= Len(wire)
      /\ answered' = answered + 1 /\ answered' \in Nat
      /\ stage' \in Stages \ {"connected"} /\ Level <= answered
  BY <1>1, NoPrompt
<1>6. Level' <= answered'
  <2>1. Level' = Level
    BY <1>1 DEF Level
  <2>2. Level \in Int /\ answered \in Int
    BY LevelRange DEF IInv, Types
  <2> QED  BY <1>5, <2>1, <2>2
<1> QED  BY <1>1, <1>3, <1>4, <1>5, <1>6, AskStep

LEMMA AcceptsStep == IInv /\ ServerAccepts => IInv'
<1> SUFFICES ASSUME IInv, ServerAccepts PROVE IInv'
  OBVIOUS
<1>1. /\ Answers /\ Asked(stage, wire[answered']) /\ UNCHANGED <<client, wire>>
      /\ account => account'
  BY Zenon DEF ServerAccepts
<1>2. /\ Prompted = {} /\ answered' = Issued /\ answered' <= Len(wire)
      /\ answered' = answered + 1 /\ answered' \in Nat
      /\ stage \in Stages \ {"connected"} /\ Level <= answered
  BY <1>1, NoPrompt
<1>3. stage \in {"login", "guest", "password", "password2"}
  BY <1>1 DEF Asked
<1>4. /\ stage = "login"     => stage' = "guest"
      /\ stage = "guest"     => stage' = "password"
      /\ stage = "password"  => stage' = "password2"
      /\ stage = "password2" => stage' = "registered" /\ account'
  BY Zenon DEF ServerAccepts
<1>5. stage' \in Stages \ {"connected"} /\ Level' <= answered'
  <2>1. stage' \in Stages \ {"connected"}
    BY <1>3, <1>4 DEF Stages
  <2>2. Level \in Nat /\ Level' = Level + 1
    BY <1>3, <1>4 DEF Level
  <2>3. answered \in Nat
    BY DEF IInv, Types
  <2> QED  BY <2>1, <2>2, <2>3, <1>2
<1>6. PICK said \in {<<>>} \cup {<<l>> : l \in Line \ Prompts} :
        /\ Send(said \o <<PromptOf(stage')>>)
        /\ \A l : said = <<l>> /\ Confirms(l) => account'
  <2> DEFINE p == PromptOf(stage')
             name == "Your name will be"
             confirmed == "You are registered"
  <2>1. /\ stage = "login"     => Send(<<"text">> \o <<p>>)
        /\ stage = "guest"     => Send(<<name>> \o <<p>>)
        /\ stage = "password"  => Send(<<>> \o <<p>>)
        /\ stage = "password2" => Send(<<confirmed>> \o <<p>>)
    BY Zenon DEF ServerAccepts
  <2>2. /\ {"text", name, confirmed} \subseteq Line \ Prompts
        /\ ~Confirms("text") /\ ~Confirms(name)
    BY Zenon DEF Line, Prompts, Confirms
  <2> HIDE DEF p, name, confirmed
  <2>3. \A l, m : <<m>> = <<l>> => l = m
    OBVIOUS
  <2>4. CASE stage = "login"
    BY <2>1, <2>2, <2>3, <2>4 DEF p
  <2>5. CASE stage = "guest"
    BY <2>1, <2>2, <2>3, <2>5 DEF p
  <2>6. CASE stage = "password"
    <3>1. \A l : <<>> # <<l>>
      OBVIOUS
    <3> QED  BY <2>1, <2>6, <3>1 DEF p
  <2>7. CASE stage = "password2"
    BY <2>1, <2>2, <2>7, <1>4 DEF p
  <2> QED  BY <1>3, <2>4, <2>5, <2>6, <2>7
<1> QED  BY <1>1, <1>2, <1>5, <1>6, AskStep

LEMMA ServerStep == IInv /\ Server => IInv'
<1> SUFFICES ASSUME IInv, Server PROVE IInv'
  OBVIOUS
<1>1. CASE ServerGreets
  BY <1>1, GreetsStep
<1>2. CASE ServerAccepts
  BY <1>2, AcceptsStep
<1>3. CASE ServerNotice
  <2>1. "text" \in Line \ Prompts /\ ~Confirms("text")
    BY Zenon DEF Line, Prompts, Confirms
  <2>2. Send(<<"text">>) /\ UNCHANGED <<client, stage, wire, answered, account>>
    BY <1>3, Zenon DEF ServerNotice
  <2> QED  BY <2>1, <2>2, NoticeStep
<1>4. CASE ServerHangsUp
  <2> DEFINE end == "end of file"
  <2>1. end \in Line \ Prompts /\ ~Confirms(end)
    BY Zenon DEF Line, Prompts, Confirms
  <2>2. Send(<<end>>) /\ UNCHANGED <<client, stage, wire, answered, account>>
    BY <1>4, Zenon DEF ServerHangsUp
  <2> HIDE DEF end
  <2> QED  BY <2>1, <2>2, NoticeStep
<1>5. ASSUME NEW explanation \in {<<>>, <<"text">>}, ServerRefuses(explanation)
      PROVE  IInv'
  BY <1>5, RefusesStep
<1> QED  BY <1>1, <1>2, <1>3, <1>4, <1>5, Zenon DEF Server

-----------------------------------------------------------------------------
LEMMA NextStep == IInv /\ [Next]_vars => IInv'
<1> SUFFICES ASSUME IInv, [Next]_vars PROVE IInv'
  OBVIOUS
<1>1. CASE Handle
  <2>1. {"text", "Your name will be", "You are registered"} \subseteq Line
    BY Zenon DEF Line
  <2>2. (\E line \in {"text", "Your name will be", "You are registered"} : HandleLine(line))
        => IInv'
    BY <2>1, LineStep, Zenon
  <2> QED  BY <1>1, <2>2, LoginPromptStep, PromptStep, PwPromptStep, EndOfFileStep, Zenon
              DEF Handle
<1>2. CASE UNCHANGED vars
  BY <1>2, Idle DEF vars, client
<1> QED  BY <1>1, <1>2, OutputStep, TimeoutStep, CloseDialogStep, DisconnectStep,
            SocketStep, ServerStep, Zenon DEF Next

(***************************************************************************)
(* What the client issues, what the server has answered and what it asks   *)
(* for next always balance.                                                *)
(***************************************************************************)
THEOREM AlwaysInBalance == Spec => []IInv
BY InitIInv, NextStep, PTL DEF Spec

(***************************************************************************)
(* Only prompts are answered, each with the command it asks for, and no    *)
(* name or password is sent twice (gibbon_session_handle_prompt(),         *)
(* gibbon_session_handle_pw_prompt()).                                     *)
(***************************************************************************)
THEOREM OnlyPromptsAnswered == Spec => []AnswersThePrompt
<1>1. IInv => AnswersThePrompt
  <2> SUFFICES ASSUME IInv PROVE AnswersThePrompt
    OBVIOUS
  <2> DEFINE script == <<"guest", "name", "password", "password">>
  <2>1. /\ wire \in Seq(Commands) /\ Len(wire) \in Nat /\ Issued \in 0..4
        /\ answered \in Nat /\ Len(wire) <= Issued
        /\ \A i \in 1..Len(wire) : wire[i] = Script(i)
    BY LenProperties, IssuedRange DEF IInv, Types, InStep
  <2>2. /\ script \in Seq(Commands) /\ Len(script) = 4
        /\ \A i \in 1..4 : script[i] = Script(i)
    BY DEF Script, Commands
  <2>3. IsPrefix(wire, script)
    <3> HIDE DEF script
    <3>1. Len(wire) <= Len(script)
      BY <2>1, <2>2
    <3>2. /\ SubSeq(wire, 1, Len(wire)) = [i \in 1..Len(wire) |-> wire[i]]
          /\ SubSeq(script, 1, Len(wire)) = [i \in 1..Len(wire) |-> script[i]]
      BY <2>1, <2>2, <3>1
    <3>3. \A i \in 1..Len(wire) : wire[i] = script[i]
      BY <2>1, <2>2
    <3> QED  BY <3>1, <3>2, <3>3 DEF IsPrefix
  <2>4. ASSUME NEW i \in answered + 1 .. Len(wire) PROVE Asked(stage, wire[i])
    <3>1. Issued \in {answered, answered + 1}
      BY DEF IInv, Balance
    <3>2. i = Issued /\ Issued = answered + 1 /\ i \in 1..Len(wire)
      BY <2>1, <3>1
    <3> QED  BY <2>1, <3>2 DEF IInv, Balance
  <2> QED  BY <2>3, <2>4 DEF AnswersThePrompt
<1> QED  BY <1>1, AlwaysInBalance, PTL

(***************************************************************************)
(* Nobody is told that he is registered who is not, and the reply timer    *)
(* is gone with the session (gibbon_session_registration_success()).       *)
(***************************************************************************)
THEOREM SuccessIsNeverFeigned == Spec => []SuccessIsTrue
<1>1. IInv => SuccessIsTrue
  BY Zenon DEF IInv, Truth, Congratulated, SuccessIsTrue
<1> QED  BY <1>1, AlwaysInBalance, PTL
=============================================================================
