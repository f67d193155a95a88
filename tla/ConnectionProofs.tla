--------------------------- MODULE ConnectionProofs ---------------------------
(***************************************************************************)
(* Proofs about Connection.tla, for any number of commands of any size.    *)
(*                                                                         *)
(* That the bytes on the wire are in order says nothing about the next     *)
(* ones.  As long as the socket works, the client knows exactly how far it *)
(* is: Flow below says that the queue holds the last of the numbered       *)
(* commands, and that the wire ends where the offset is, with the result   *)
(* of a finished write that has not been accounted for added.              *)
(***************************************************************************)
EXTENDS Connection, SequenceTheorems, TLAPS

USE SizeAssumption, BoundsAssumption, ErrorsAssumption

-----------------------------------------------------------------------------
(* The commands that have left the queue. *)
Gone == queued - Len(queue)

(* How the variables of the client hang together. *)
Orderly ==
  /\ state = "login" => queued = 0
  /\ ~alive => writing = "no" /\ queue = <<>> /\ offset = 0
  /\ writing # "no" => queue # <<>>
  /\ writing # "done" => result = 0
  /\ NoForgottenWrite

(* What the client knows about the wire while the socket works. *)
Flow ==
  ~broken /\ alive =>
    /\ Gone >= 0
    /\ \A i \in 1..Len(queue) : queue[i] = Gone + i
    /\ offset < Size /\ result >= 0 /\ offset + result <= Size
    /\ Len(wire) = Size * Gone + offset + result

IInv == TypeOK /\ Orderly /\ WireInOrder /\ Flow

-----------------------------------------------------------------------------

LEMMA DivMod ==
  ASSUME NEW d \in Nat \ {0}, NEW n \in Nat, NEW r \in 0..(d - 1)
  PROVE  (d * n + r) \div d = n /\ (d * n + r) % d = r
  <1> DEFINE a == d * n + r
             q == a \div d
             m == a % d
  <1>1. a \in Nat /\ d * n \in Nat BY SMT
  <1> HIDE DEF a
  <1>2. q \in Int /\ m \in 0..(d-1) /\ a = d * q + m
    BY <1>1, SMT
  <1> HIDE DEF q, m
  <1>3. CASE q >= n + 1
    <2>1. PICK k \in Nat : q = n + 1 + k  BY <1>2, <1>3, SMT
    <2>2. d * q = d * n + d + d * k /\ d * k >= 0 BY <2>1, SMT
    <2> QED BY <2>2, <1>1, <1>2, SMT DEF a
  <1>4. CASE q <= n - 1
    <2>1. PICK k \in Nat : q = n - 1 - k  BY <1>2, <1>4, SMT
    <2>2. d * q = d * n - d - d * k /\ d * k >= 0 BY <2>1, SMT
    <2> QED BY <2>2, <1>1, <1>2, SMT DEF a
  <1> QED BY <1>2, <1>3, <1>4, <1>1, SMT DEF a, q, m

LEMMA SmallMod ==
  ASSUME NEW d \in Nat \ {0}
  PROVE  /\ \A a \in Int : a % d \in 0..(d - 1)
         /\ \A a \in 0..(d - 1) : a % d = a
  OBVIOUS

-----------------------------------------------------------------------------
LEMMA InitIInv == Init => IInv
  <1> SUFFICES ASSUME Init PROVE IInv
    OBVIOUS
  <1>0. \A S : <<>> \in Seq(S) /\ Len(<<>>) = 0
    BY EmptySeq
  <1>1. /\ queue \in Seq(1..MaxCommands) /\ Len(queue) = 0
        /\ wire \in Seq((1..MaxCommands) \X (1..Size)) /\ Len(wire) = 0 /\ wire = <<>>
        /\ lines \in Seq({"line", "welcome", "prompt"})
    BY <1>0, Zenon DEF Init
  <1>2. /\ outReady \in BOOLEAN /\ alive \in BOOLEAN
        /\ broken \in BOOLEAN /\ prompted \in BOOLEAN
    BY Zenon DEF Init
  <1>6. offset \in 0..(Word - 1) /\ result \in -1..Size /\ queued \in 0..MaxCommands
    BY DEF Init
  <1>7. TypeOK
    BY <1>1, <1>2, <1>6, Zenon DEF Init, TypeOK
  <1>3. Orderly
    BY DEF Init, Orderly, NoForgottenWrite
  <1>4. WireInOrder
    BY <1>1 DEF WireInOrder
  <1>5. Flow
    BY <1>1, Size * 0 = 0 DEF Init, Flow, Gone
  <1> QED
    BY <1>3, <1>4, <1>5, <1>7 DEF IInv

(* Commands join the queue while a write may be going on. *)
LEMMA QueueGrows ==
  ASSUME IInv, alive, alive' = alive, NEW n \in Nat, queued + n <= MaxCommands,
         queued' = queued + n, queue' = queue \o [i \in 1..n |-> queued + i],
         state' = "login" => queued' = 0,
         outReady' \in BOOLEAN, outReady => outReady',
         writing' = SendChunk(queue', outReady', writing),
         UNCHANGED <<offset, result, broken, wire>>
  PROVE  /\ queue' \in Seq(1..MaxCommands) /\ queued' \in 0..MaxCommands
         /\ writing' \in {"no", "busy", "done"}
         /\ Orderly' /\ WireInOrder' /\ Flow'
  <1> DEFINE more == [i \in 1..n |-> queued + i]
  <1> USE DEF IInv
  <1>1. queue \in Seq(1..MaxCommands) /\ queued \in Nat /\ queued' \in 0..MaxCommands
    BY DEF TypeOK
  <1>2. more \in Seq(1..MaxCommands) /\ Len(more) = n
    BY <1>1
  <1>3. \A i \in 1..n : more[i] = queued + i
    OBVIOUS
  <1> HIDE DEF more
  <1>4. /\ queue' \in Seq(1..MaxCommands)
        /\ Len(queue') = Len(queue) + n /\ Len(queue) \in Nat
        /\ \A i \in 1..(Len(queue) + n) :
             queue'[i] = IF i <= Len(queue) THEN queue[i] ELSE more[i - Len(queue)]
    BY <1>1, <1>2, ConcatProperties, LenProperties DEF more
  <1>5. queue # <<>> => queue' # <<>>
    BY <1>1, <1>4, EmptySeq
  <1>6. /\ writing \in {"no", "busy", "done"}
        /\ writing' = IF queue' # <<>> /\ writing = "no" /\ outReady' THEN "busy" ELSE writing
    BY DEF SendChunk, TypeOK
  <1>7. Orderly'
    BY <1>5, <1>6 DEF Orderly, NoForgottenWrite, TypeOK
  <1>8. Gone' = Gone
    BY <1>1, <1>4 DEF Gone
  <1>9. ASSUME NEW i \in 1..Len(queue'), ~broken PROVE queue'[i] = Gone + i
    <2>1. CASE i <= Len(queue)
      BY <1>1, <1>4, <1>9, <2>1 DEF Flow
    <2>2. CASE i > Len(queue)
      BY <1>1, <1>3, <1>4, <2>2 DEF Gone
    <2> QED BY <1>4, <2>1, <2>2
  <1>10. Flow'
    BY <1>8, <1>9 DEF Flow
  <1> QED
    BY <1>1, <1>4, <1>6, <1>7, <1>10 DEF WireInOrder

LEMMA QueueCommandStep == IInv /\ QueueCommand => IInv'
  <1> SUFFICES ASSUME IInv, QueueCommand PROVE IInv'
    OBVIOUS
  <1>1. /\ queued \in 0..(MaxCommands - 1) /\ queued' = queued + 1
        /\ queue \in Seq(1..MaxCommands) /\ queue' = Append(queue, queued + 1)
    BY DEF QueueCommand, IInv, TypeOK
  <1>2. queue' = queue \o [i \in 1..1 |-> queued + i]
    <2>1. [i \in 1..1 |-> queued + i] = <<queued + 1>>
      BY <1>1
    <2> QED BY <1>1, <2>1, AppendIsConcat
  <1>3. /\ queue' \in Seq(1..MaxCommands) /\ queued' \in 0..MaxCommands
        /\ writing' \in {"no", "busy", "done"}
        /\ Orderly' /\ WireInOrder' /\ Flow'
    <2> HIDE DEF IInv
    <2>1. outReady \in BOOLEAN
      BY DEF IInv, TypeOK
    <2> QED BY <1>1, <1>2, <2>1, QueueGrows, 1 \in Nat DEF QueueCommand, server
  <1> QED
    BY <1>3 DEF QueueCommand, IInv, TypeOK, server

(* A line is handled: up to one command joins the queue. *)
LEMMA HandleLineStep == ASSUME NEW n \in 0..1 PROVE IInv /\ HandleLine(n) => IInv'
  <1> SUFFICES ASSUME IInv, HandleLine(n) PROVE IInv'
    OBVIOUS
  <1>1. lines' \in Seq({"line", "welcome", "prompt"})
    BY HeadTailProperties DEF HandleLine, IInv, TypeOK
  <1>2. CASE state = "login"
    BY <1>1, <1>2 DEF HandleLine, client, IInv, TypeOK, Orderly, NoForgottenWrite, WireInOrder, Flow, Gone
  <1>3. CASE state # "login"
    <2>1. state' \in {"welcome", "commands"}
      BY <1>3 DEF HandleLine, IInv, TypeOK
    <2>2. /\ queue' \in Seq(1..MaxCommands) /\ queued' \in 0..MaxCommands
          /\ writing' \in {"no", "busy", "done"}
          /\ Orderly' /\ WireInOrder' /\ Flow'
      BY <1>3, <2>1, QueueGrows, n \in Nat, TRUE \in BOOLEAN DEF HandleLine
    <2> QED
      BY <1>1, <1>3, <2>1, <2>2 DEF HandleLine, IInv, TypeOK
  <1> QED BY <1>2, <1>3

(* The connection is dropped. *)
LEMMA FinalizeStep ==
  ASSUME IInv, Finalize, UNCHANGED <<broken, wire, prompted, answered>>,
         lines' \in Seq({"line", "welcome", "prompt"})
  PROVE  IInv'
  <1>1. queue' \in Seq(1..MaxCommands) /\ queue' = <<>>
    BY EmptySeq DEF Finalize
  <1>2. offset' \in 0..(Word - 1) /\ result' \in -1..Size
    BY DEF Finalize
  <1>3. TypeOK'
    BY <1>1, <1>2, Zenon DEF Finalize, IInv, TypeOK
  <1>4. Orderly' /\ Flow'
    BY <1>1 DEF Finalize, IInv, Orderly, NoForgottenWrite, Flow
  <1> QED
    BY <1>3, <1>4 DEF IInv, WireInOrder

LEMMA HandlePromptStep == IInv /\ HandlePrompt => IInv'
  <1> SUFFICES ASSUME IInv, HandlePrompt PROVE IInv'
    OBVIOUS
  <1>1. lines' \in Seq({"line", "welcome", "prompt"})
    BY HeadTailProperties DEF HandlePrompt, IInv, TypeOK
  <1>2. CASE Finalize
    BY <1>1, <1>2, FinalizeStep DEF HandlePrompt
  <1>3. CASE ~Finalize
    <2>1. /\ queued' = queued + 1 /\ queue' = Append(queue, queued + 1)
          /\ queued = 0 /\ queue \in Seq(1..MaxCommands)
      BY <1>3 DEF HandlePrompt, IInv, TypeOK, Orderly
    <2>2. queue' = queue \o [i \in 1..1 |-> queued + i]
      <3>1. [i \in 1..1 |-> queued + i] = <<queued + 1>>
        BY <2>1
      <3> QED BY <2>1, <3>1, AppendIsConcat
    <2>3. /\ outReady' = TRUE
          /\ writing' = SendChunk(queue', outReady', writing)
          /\ state' # "login" /\ alive /\ alive' = alive
          /\ UNCHANGED <<offset, result, broken, wire>>
      BY <1>3, Zenon DEF HandlePrompt
    <2>4. /\ queue' \in Seq(1..MaxCommands) /\ queued' \in 0..MaxCommands
          /\ writing' \in {"no", "busy", "done"}
          /\ Orderly' /\ WireInOrder' /\ Flow'
      <3>1. queued + 1 <= MaxCommands /\ (state' = "login" => queued' = 0)
        BY <2>1, <2>3
      <3>2. outReady' \in BOOLEAN /\ outReady => outReady'
        BY <2>3, Zenon
      <3> QED BY <2>1, <2>2, <2>3, <3>1, <3>2, QueueGrows, 1 \in Nat
    <2> QED
      BY <1>1, <1>3, <2>4 DEF HandlePrompt, IInv, TypeOK
  <1> QED BY <1>2, <1>3

(* A write is finished: the offset moves on, or the next command's turn comes. *)
LEMMA HandleOutputStep == IInv /\ HandleOutput => IInv'
  <1> DEFINE off == (offset + result) % Word
  <1> SUFFICES ASSUME IInv, HandleOutput PROVE IInv'
    OBVIOUS
  <1>0. /\ alive /\ writing = "done" /\ outReady /\ queue # <<>>
    BY DEF HandleOutput, IInv, Orderly, NoForgottenWrite
  <1>1. /\ queue \in Seq(1..MaxCommands) /\ queued \in Nat
        /\ offset \in Int /\ result \in Int /\ offset + result \in Int
        /\ Word \in Nat \ {0}
    BY DEF IInv, TypeOK
  <1>6. off \in 0..(Word - 1)
    BY <1>1, SmallMod
  <1>2. /\ Tail(queue) \in Seq(1..MaxCommands)
        /\ Len(queue) \in Nat \ {0} /\ Len(Tail(queue)) = Len(queue) - 1
        /\ \A i \in 1..Len(Tail(queue)) : Tail(queue)[i] = queue[i + 1]
    BY <1>0, <1>1, HeadTailProperties, EmptySeq, LenProperties
  <1>3. ~broken => /\ off = offset + result /\ off <= Size
                   /\ Gone >= 0 /\ \A i \in 1..Len(queue) : queue[i] = Gone + i
                   /\ Len(wire) = Size * Gone + off
    <2> SUFFICES ASSUME ~broken
                 PROVE  /\ off = offset + result /\ off <= Size
                        /\ Gone >= 0 /\ \A i \in 1..Len(queue) : queue[i] = Gone + i
                        /\ Len(wire) = Size * Gone + off
      OBVIOUS
    <2>1. offset + result \in 0..Size
      BY <1>0, <1>1 DEF IInv, Flow, TypeOK
    <2>2. off = offset + result
      <3>1. offset + result \in 0..(Word - 1)
        BY <2>1
      <3> QED BY <3>1, <1>1, SmallMod
    <2> HIDE DEF off
    <2> QED BY <1>0, <1>1, <2>1, <2>2 DEF IInv, Flow, Gone
  <1> HIDE DEF off
  <1>4. CASE Pending(off) = 0
    <2>1. /\ queue' = Tail(queue) /\ offset' = 0 /\ ~outReady' /\ outReady' \in BOOLEAN
          /\ result' = 0 /\ writing' = "no"
      BY <1>4 DEF HandleOutput, SendChunk, off
    <2>2. TypeOK'
      <3>1. offset' \in 0..(Word - 1) /\ result' \in -1..Size
        BY <2>1
      <3> QED BY <1>2, <2>1, <3>1, Zenon DEF HandleOutput, IInv, TypeOK, server
    <2>3. Orderly'
      BY <1>0, <2>1 DEF HandleOutput, IInv, Orderly, NoForgottenWrite
    <2>4. Gone' = Gone + 1 /\ Gone \in Int
      <3>1. queued' = queued /\ Len(queue') = Len(queue) - 1
        BY <1>2, <2>1 DEF HandleOutput
      <3> QED BY <3>1, <1>1, <1>2 DEF Gone
    <2>5. ~broken => off = Size
      BY <1>3, <1>4, <1>6 DEF Pending
    <2>6. ~broken => Len(wire) = Size * Gone' + 0 + 0
      BY <1>3, <2>4, <2>5
    <2>7. ~broken => \A i \in 1..Len(queue') : queue'[i] = Gone' + i
      BY <1>2, <1>3, <2>1, <2>4
    <2>8. Flow'
      BY <1>3, <2>1, <2>4, <2>6, <2>7 DEF HandleOutput, server, Flow
    <2> QED
      BY <2>2, <2>3, <2>8 DEF HandleOutput, server, IInv, WireInOrder
  <1>5. CASE Pending(off) # 0
    <2>1. /\ queue' = queue /\ offset' = off /\ outReady' = outReady
          /\ result' = 0 /\ writing' = "busy"
      BY <1>0, <1>5 DEF HandleOutput, SendChunk, off
    <2>2. off < Size
      BY <1>5, <1>6 DEF Pending
    <2>3. TypeOK'
      <3>1. offset' \in 0..(Word - 1) /\ result' \in -1..Size
        BY <1>6, <2>1
      <3> QED BY <2>1, <3>1, Zenon DEF HandleOutput, IInv, TypeOK, server
    <2>4. Orderly'
      BY <1>0, <2>1 DEF HandleOutput, IInv, Orderly, NoForgottenWrite
    <2>5. Gone' = Gone
      BY <2>1 DEF HandleOutput, Gone
    <2>6. ~broken => Len(wire) = Size * Gone' + off + 0
      BY <1>1, <1>3, <2>5
    <2>7. Flow'
      BY <1>3, <1>6, <2>1, <2>2, <2>5, <2>6 DEF HandleOutput, server, Flow
    <2> QED
      BY <2>3, <2>4, <2>7 DEF HandleOutput, server, IInv, WireInOrder
  <1> QED BY <1>4, <1>5

(* The socket takes the next bytes of the first command. *)
LEMMA SocketWritesStep ==
  ASSUME NEW n \in 1..Size PROVE IInv /\ SocketWrites(n) => IInv'
  <1> DEFINE chunk == [i \in 1..n |-> <<Head(queue), offset + i>>]
             B == (1..MaxCommands) \X (1..Size)
  <1> SUFFICES ASSUME IInv, SocketWrites(n) PROVE IInv'
    OBVIOUS
  <1>1. /\ writing = "busy" /\ ~broken /\ alive /\ queue # <<>> /\ result = 0
        /\ n <= Pending(offset) /\ wire' = wire \o chunk
    BY DEF SocketWrites, IInv, Orderly
  <1>2. /\ queue \in Seq(1..MaxCommands) /\ queued \in Nat /\ offset \in Nat
        /\ wire \in Seq(B)
    BY DEF IInv, TypeOK
  <1>3. /\ Head(queue) \in 1..MaxCommands /\ Len(queue) \in Nat \ {0} /\ Head(queue) = queue[1]
    BY <1>1, <1>2, HeadTailProperties, EmptySeq
  <1>4. /\ offset < Size /\ offset + n <= Size /\ Gone \in Nat /\ Head(queue) = Gone + 1
        /\ Len(wire) = Size * Gone + offset
    <2>1. offset < Size /\ offset + n <= Size
      BY <1>1, <1>2 DEF Pending
    <2> QED BY <1>1, <1>2, <1>3, <2>1 DEF IInv, Flow, Gone
  <1>5. n \in Nat /\ chunk \in [1..n -> B]
    <2>1. \A i \in 1..n : offset + i \in 1..Size
      BY <1>2, <1>4
    <2> QED BY <1>3, <2>1
  <1>6. \A i \in 1..n : chunk[i] = <<Gone + 1, offset + i>>
    BY <1>4
  <1> HIDE DEF chunk, B
  <1>12. chunk \in Seq(B) /\ Len(chunk) = n
    <2>1. chunk \in Seq(B)
      BY <1>5, SeqDef
    <2> QED BY <1>5, <2>1, LenProperties
  <1>7. /\ wire' \in Seq(B) /\ Len(wire) \in Nat
        /\ Len(wire') = Len(wire) + n /\ DOMAIN wire' = 1..(Len(wire) + n)
        /\ \A i \in 1..(Len(wire) + n) :
             wire'[i] = IF i <= Len(wire) THEN wire[i] ELSE chunk[i - Len(wire)]
    <2>1. wire \in Seq(B) /\ wire' = wire \o chunk
      BY <1>1, <1>2
    <2>2. /\ wire' \in Seq(B) /\ Len(wire) \in Nat /\ Len(wire') = Len(wire) + n
          /\ \A i \in 1..(Len(wire) + n) :
               wire'[i] = IF i <= Len(wire) THEN wire[i] ELSE chunk[i - Len(wire)]
      BY <1>12, <2>1, ConcatProperties, LenProperties
    <2> QED BY <2>2, LenProperties
  <1>8. TypeOK'
    <2>1. result' \in -1..Size /\ writing' \in {"no", "busy", "done"}
      BY <1>5 DEF SocketWrites
    <2> QED BY <1>7, <2>1, Zenon DEF SocketWrites, IInv, TypeOK, B
  <1>9. Orderly'
    BY <1>1 DEF SocketWrites, IInv, Orderly, NoForgottenWrite
  <1>10. WireInOrder'
    <2> SUFFICES ASSUME NEW i \in 1..(Len(wire) + n)
                 PROVE  wire'[i] = <<1 + ((i - 1) \div Size), 1 + ((i - 1) % Size)>>
      BY <1>7 DEF WireInOrder
    <2>1. CASE i <= Len(wire)
      <3>1. DOMAIN wire = 1..Len(wire)
        BY <1>2, LenProperties
      <3>2. i \in DOMAIN wire
        BY <1>7, <2>1, <3>1
      <3>3. wire'[i] = wire[i]
        BY <1>7, <2>1
      <3> QED BY <3>2, <3>3, Zenon DEF IInv, WireInOrder
    <2>2. CASE i > Len(wire)
      <3> DEFINE j == i - Len(wire)
      <3>1. j \in 1..n /\ i = Len(wire) + j
        BY <1>5, <1>7, <2>2
      <3> HIDE DEF j
      <3>2. wire'[i] = <<Gone + 1, offset + j>>
        BY <1>6, <1>7, <2>2, <3>1 DEF j
      <3>3. i - 1 = Size * Gone + (offset + j - 1) /\ offset + j - 1 \in 0..(Size - 1)
        BY <1>2, <1>4, <3>1
      <3>4. (i - 1) \div Size = Gone /\ (i - 1) % Size = offset + j - 1
        <4> DEFINE r == offset + j - 1
        <4>1. r \in 0..(Size - 1) /\ Gone \in Nat /\ i - 1 = Size * Gone + r
          BY <1>4, <3>3
        <4> HIDE DEF r
        <4>2. (Size * Gone + r) \div Size = Gone /\ (Size * Gone + r) % Size = r
          BY <4>1, DivMod
        <4> QED BY <4>1, <4>2, Zenon DEF r
      <3>5. 1 + (offset + j - 1) = offset + j /\ 1 + Gone = Gone + 1
        BY <1>2, <1>4, <3>1
      <3> QED BY <3>2, <3>4, <3>5, Zenon
    <2> QED BY <1>7, <2>1, <2>2
  <1>11. Flow'
    <2>1. Gone' = Gone
      BY DEF SocketWrites, Gone
    <2>2. Len(wire') = Size * Gone' + offset + n
      BY <1>2, <1>4, <1>7, <2>1
    <2> QED BY <1>2, <1>4, <2>1, <2>2 DEF SocketWrites, IInv, Flow
  <1> QED BY <1>8, <1>9, <1>10, <1>11 DEF IInv

(* What the rest of the world does: the socket fails, the server speaks. *)
LEMMA SocketFailsStep == IInv /\ SocketFails => IInv'
  BY DEF SocketFails, server, IInv, TypeOK, Orderly, NoForgottenWrite, WireInOrder, Flow

LEMMA ServerStep ==
  ASSUME IInv, UNCHANGED <<client, wire>>, broken => broken', TypeOK'
  PROVE  IInv'
  BY DEF client, IInv, Orderly, NoForgottenWrite, WireInOrder, Flow, Gone

LEMMA NextIInv == IInv /\ [Next]_vars => IInv'
  <1> SUFFICES ASSUME IInv, [Next]_vars PROVE IInv'
    OBVIOUS
  <1>1. CASE QueueCommand  BY <1>1, QueueCommandStep
  <1>2. CASE \E n \in 0..1 : HandleLine(n)  BY <1>2, HandleLineStep
  <1>3. CASE HandlePrompt  BY <1>3, HandlePromptStep
  <1>4. CASE HandleEndOfFile \/ Disconnect
    BY <1>4, FinalizeStep DEF HandleEndOfFile, Disconnect, server, IInv, TypeOK
  <1>5. CASE HandleOutput  BY <1>5, HandleOutputStep
  <1>6. CASE Write  BY <1>6, SocketFailsStep, SocketWritesStep DEF Write
  <1>7. CASE SocketBreaks
    <2>1. broken' \in BOOLEAN /\ broken'
      BY <1>7, Zenon DEF SocketBreaks
    <2> QED BY <1>7, <2>1, ServerStep DEF SocketBreaks, client, IInv, TypeOK
  <1>8. CASE ServerNotice
    <2>1. lines' \in Seq({"line", "welcome", "prompt"})
      BY <1>8, AppendProperties DEF ServerNotice, IInv, TypeOK
    <2> QED BY <1>8, <2>1, ServerStep DEF ServerNotice, client, IInv, TypeOK
  <1>9. CASE ServerPrompt
    <2>1. lines' \in Seq({"line", "welcome", "prompt"})
      BY <1>9, AppendProperties DEF ServerPrompt, IInv, TypeOK
    <2>2. prompted' \in BOOLEAN
      BY <1>9, Zenon DEF ServerPrompt
    <2> QED BY <1>9, <2>1, <2>2, ServerStep DEF ServerPrompt, client, IInv, TypeOK
  <1>10. CASE Answer
    <2>1. PICK line \in {"line", "welcome", "prompt"} : ServerAnswer(line)
      BY <1>10 DEF Answer
    <2>2. lines' \in Seq({"line", "welcome", "prompt"})
      BY <2>1, AppendProperties DEF ServerAnswer, IInv, TypeOK
    <2> QED BY <2>1, <2>2, ServerStep DEF ServerAnswer, client, IInv, TypeOK
  <1>11. CASE UNCHANGED vars
    BY <1>11, ServerStep DEF vars, client, server, IInv, TypeOK
  <1> QED
    BY <1>1, <1>2, <1>3, <1>4, <1>5, <1>6, <1>7, <1>8, <1>9, <1>10, <1>11 DEF Next

-----------------------------------------------------------------------------
(***************************************************************************)
(* gibbon-connection.c as a whole: IInv is an invariant, for every number  *)
(* of commands, every size of them, and with or without a breakdown.       *)
(***************************************************************************)
THEOREM AlwaysOrderly == Spec => []IInv
  BY InitIInv, NextIInv, PTL DEF Spec

(* Every variable of the connection keeps its type; the offset is a gsize. *)
THEOREM ConnectionTypes == Spec => []TypeOK
  BY AlwaysOrderly, PTL DEF IInv

(* The commands reach the server in order and in one piece. *)
THEOREM CommandsInOrder == Spec => []WireInOrder
  BY AlwaysOrderly, PTL DEF IInv

(* A write is in progress exactly if there is something that may be sent. *)
THEOREM WritesGoOn == Spec => []NoForgottenWrite
  <1>1. IInv => NoForgottenWrite
    BY DEF IInv, Orderly
  <1> QED BY <1>1, AlwaysOrderly, PTL
=============================================================================
