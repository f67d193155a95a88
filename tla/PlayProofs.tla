------------------------------ MODULE PlayProofs ------------------------------
(***************************************************************************)
(* Proofs about Play.tla, for any number of players and of events.         *)
(*                                                                         *)
(* The session is compared with the server when everything the server has  *)
(* said is handled.  Until then it lags behind, and what makes up for it   *)
(* are the lines that are still to come: every line tells the truth about  *)
(* the server (Truthful), and wherever the session is wrong, there is a    *)
(* line to correct it (Heard, Opposed, Watches, Recording, Booked).        *)
(***************************************************************************)
EXTENDS Play, SequenceTheorems, FiniteSetTheorems, TLAPS

-----------------------------------------------------------------------------
Somebody == Players \cup {None}
Kinds == {"who", "login", "logout", "unknown", "board", "watching", "unwatched",
          "playing", "resuming", "acts", "wins", "winsMatch", "finished",
          "resumed", "left"}
AnyLine == [is : Kinds, a : Players, b : Somebody \cup (Somebody \X Somebody)]
Ledger(kinds) == [kinds -> [Players -> Nat]]
Truths == {"finished", "mine", "dropped", "left", "broken"}

Types ==
  /\ opponent \in Others \cup {None} /\ watching \in Others \cup {None}
  /\ tracker \in {None} \cup (Players \X Players)
  /\ board \in {None} \cup (Players \X Players)
  /\ list \in [Players -> Players \cup {None, "absent"}]
  /\ saved \subseteq Others /\ asked \subseteq Players
  /\ boardAsked \in BOOLEAN /\ alive \in BOOLEAN
  /\ droppers \subseteq BOOLEAN \X Players \X Players
  /\ booked \in Ledger({"wins", "drops", "resumes"})
  /\ truth \in Ledger(Truths)
  /\ lines \in Seq(AnyLine)

(* The server: a player plays one match at a time, and does not watch      *)
(* another one meanwhile.                                                  *)
Matching(P) ==
  /\ \A m \in P : \E x, y \in Players : x # y /\ m = {x, y}
  /\ \A m, n \in P : m \cap n # {} => m = n

Serving ==
  /\ online \subseteq Others /\ Matching(playing)
  /\ \A m \in playing : m \subseteq online \cup {Me}
  /\ seen \in online \cup {None}
  /\ Busy(Me) => seen = None

(* What is still to come. *)
Said == {lines[i] : i \in 1..Len(lines)}
Coming(kinds, x) == \E l \in Said : l.is \in kinds /\ l.a = x

(* What a line says is so. *)
True(l) ==
  /\ l.is = "who" => l.a \in online \cup {Me} /\ l.b = <<Against(l.a), Watched(l.a)>>
  /\ l.is = "login" => l.a \in online /\ list[l.a] = "absent" /\ ~Busy(l.a)
  /\ l.is = "logout" => l.a \in Others \ online
  /\ l.is = "unknown" => l.a \in Others \ online
  /\ l.is = "board" =>
       IF Busy(Me) THEN l.a = Me /\ l.b = Against(Me)
                   ELSE l.a = seen /\ l.b \in Others /\ l.b = Against(seen)
  /\ l.is = "watching" => ~Busy(Me) /\ l.a = seen
  /\ l.is \in {"playing", "resuming"} => Busy(Me) /\ l.a = Against(Me)
  /\ l.is \in {"wins", "winsMatch", "left"} => ~Busy(Me)
  /\ l.is = "finished" => {l.a, l.b} \subseteq Others
  /\ l.is = "resumed" => {l.a, l.b} \subseteq Others

Once  == {"login", "logout", "winsMatch", "finished", "left"}
Alone(l) == l.is \in {"login", "unknown"} \/ (l.is = "board" /\ l.a # Me)

Truthful ==
  /\ \A l \in Said : True(l)
  /\ \A l \in Said : Alone(l) => Said = {l}
  /\ \A i, j \in 1..Len(lines) : lines[i].is = lines[j].is /\ lines[i].is \in Once => i = j
  /\ \A l, m \in Said : l.is = "winsMatch" => m.is # "finished"

(* The player list is right about a player, or a line will correct it. *)
ListRight(x) ==
  IF list[x] = "absent" THEN x \in online => x \in asked /\ ~Busy(x)
                        ELSE x \in online /\ list[x] = Against(x)

Heard == \A x \in Others :
           ListRight(x) \/ Coming({"who", "login", "logout", "unknown"}, x)

(* So is the session about its opponent, and about whom it watches. *)
Opposed ==
  Busy(Me) => \/ opponent = Against(Me) /\ watching = None
              \/ \E l \in Said : l.is \in {"playing", "resuming"}

Watches == watching # None => watching = seen \/ Coming({"who"}, Me)

(* The tracker. *)
Recording ==
  tracker # None =>
    /\ \E o \in Players : /\ tracker = <<IF watching = None THEN Me ELSE watching, o>>
                          /\ opponent \in {None, o}
    /\ board \in {None, tracker}
    /\ seen # None /\ watching = None => Coming({"who"}, Me)

(* The reliability: what is booked, and what a line is going to book. *)
DropDue(x) == Coming({"logout"}, x) /\ list[x] \in Players
WinDue(x)  == \E l \in Said : l.is = "finished" /\ x \in {l.a, l.b}
Won        == \E l \in Said : l.is = "winsMatch"
Left       == \E l \in Said : l.is = "left"

Booked ==
  /\ \A x \in Others :
       /\ DropDue(x)  => booked.drops[x] + 1 = truth.dropped[x]
       /\ ~DropDue(x) => booked.drops[x] = truth.dropped[x]
       /\ WinDue(x) =>
            /\ truth.finished[x] <= booked.wins[x] + 1
            /\ booked.wins[x] + 1 <= truth.finished[x] + truth.mine[x]
       /\ ~WinDue(x) =>
            /\ truth.finished[x] <= booked.wins[x]
            /\ booked.wins[x] <= truth.finished[x] + truth.mine[x]
       /\ Won /\ x = opponent => booked.wins[x] < truth.finished[x] + truth.mine[x]
  /\ booked.drops[Me] <= truth.broken[Me] /\ booked.wins[Me] <= truth.mine[Me]
  /\ Left => booked.drops[Me] < truth.broken[Me]
  /\ Won  => booked.wins[Me] < truth.mine[Me]

IInv ==
  /\ Types /\ Serving
  /\ alive => Truthful /\ Heard /\ Opposed /\ Watches /\ Recording /\ Booked

-----------------------------------------------------------------------------
(* Who plays with whom. *)
Has(P, x)     == \E m \in P : x \in m
Partner(P, x) == IF Has(P, x) THEN CHOOSE y \in Players : {x, y} \in P ELSE None

LEMMA Names ==
  /\ Me \in Players /\ Others \subseteq Players /\ Me \notin Others
  /\ None \notin Players /\ "absent" \notin Somebody
BY NamesAssumption, AbsentAssumption DEF Players, Somebody

LEMMA PartnerOf ==
  ASSUME NEW P, Matching(P), NEW x, NEW y, {x, y} \in P
  PROVE  /\ x \in Players /\ y \in Players /\ x # y
         /\ Has(P, x) /\ Partner(P, x) = y
<1>1. PICK v, w \in Players : v # w /\ {x, y} = {v, w}
  BY DEF Matching
<1>2. x \in Players /\ y \in Players /\ x # y
  BY <1>1
<1>3. \A z \in Players : {x, z} \in P => z = y
  <2> SUFFICES ASSUME NEW z \in Players, {x, z} \in P PROVE z = y
    OBVIOUS
  <2>1. x \in {x, z} \cap {x, y}
    OBVIOUS
  <2>2. {x, z} = {x, y}
    BY <2>1 DEF Matching
  <2> QED  BY <1>2, <2>2
<1>4. Has(P, x)
  BY DEF Has
<1>5. (CHOOSE z \in Players : {x, z} \in P) = y
  BY <1>2, <1>3
<1> QED  BY <1>2, <1>4, <1>5 DEF Partner

LEMMA PartnerIn ==
  ASSUME NEW P, Matching(P), NEW x
  PROVE  IF Has(P, x) THEN Partner(P, x) \in Players \ {x} /\ {x, Partner(P, x)} \in P
                      ELSE Partner(P, x) = None
<1>1. ASSUME Has(P, x) PROVE \E y : {x, y} \in P
  <2>1. PICK m \in P : x \in m
    BY <1>1 DEF Has
  <2>2. PICK v, w \in Players : m = {v, w}
    BY <2>1 DEF Matching
  <2>3. m = {x, w} \/ m = {x, v}
    BY <2>1, <2>2
  <2> QED  BY <2>3
<1>2. \A y : {x, y} \in P => Partner(P, x) = y /\ y \in Players /\ x # y
  BY PartnerOf
<1> QED  BY <1>1, <1>2 DEF Partner

LEMMA PartnerSame ==
  ASSUME NEW P, NEW Q, Matching(P), Matching(Q), NEW x,
         \A y : {x, y} \in P <=> {x, y} \in Q
  PROVE  (Has(P, x) <=> Has(Q, x)) /\ Partner(P, x) = Partner(Q, x)
<1>1. \A y : {x, y} \in P => Has(P, x) /\ Partner(P, x) = y
  BY PartnerOf
<1>2. \A y : {x, y} \in Q => Has(Q, x) /\ Partner(Q, x) = y
  BY PartnerOf
<1>3. CASE Has(P, x)
  <2>1. {x, Partner(P, x)} \in P
    BY <1>3, PartnerIn
  <2> QED  BY <2>1, <1>1, <1>2
<1>4. CASE Has(Q, x)
  <2>1. {x, Partner(Q, x)} \in Q
    BY <1>4, PartnerIn
  <2> QED  BY <2>1, <1>1, <1>2
<1> QED  BY <1>3, <1>4 DEF Partner

LEMMA Playing ==
  ASSUME Serving, NEW x
  PROVE  /\ Busy(x) => /\ Against(x) \in Players \ {x} /\ {x, Against(x)} \in playing
                       /\ x \in online \cup {Me} /\ Against(x) \in online \cup {Me}
         /\ ~Busy(x) => Against(x) = None
         /\ \A y : {x, y} \in playing => Busy(x) /\ Against(x) = y
<1>1. (Busy(x) <=> Has(playing, x)) /\ Against(x) = Partner(playing, x)
  BY DEF Busy, Has, Against, Partner
<1>2. Matching(playing)
  BY DEF Serving
<1>3. ASSUME Busy(x) PROVE /\ Against(x) \in Players \ {x} /\ {x, Against(x)} \in playing
                           /\ x \in online \cup {Me} /\ Against(x) \in online \cup {Me}
  <2>1. Against(x) \in Players \ {x} /\ {x, Against(x)} \in playing
    BY <1>1, <1>2, <1>3, PartnerIn
  <2> QED  BY <2>1 DEF Serving
<1>4. \A y : {x, y} \in playing => Busy(x) /\ Against(x) = y
  BY <1>1, <1>2, PartnerOf
<1> QED  BY <1>1, <1>2, <1>3, <1>4, PartnerIn

-----------------------------------------------------------------------------
(* Handlers: what is known of the line that is handled and of the others.  *)
LEMMA ServerStays ==
  ASSUME UNCHANGED server, NEW x
  PROVE  Against(x)' = Against(x) /\ (Busy(x)' <=> Busy(x)) /\ Watched(x)' = Watched(x)
BY DEF server, Against, Busy, Watched

LEMMA Tailed ==
  ASSUME lines \in Seq(AnyLine), lines # <<>>, lines' = Tail(lines)
  PROVE  /\ Head(lines) \in AnyLine /\ Head(lines) \in Said
         /\ Said' \subseteq Said /\ Said \subseteq Said' \cup {Head(lines)}
         /\ lines' \in Seq(AnyLine)
         /\ Len(lines') \in Nat /\ Len(lines) = Len(lines') + 1
         /\ Head(lines) = lines[1] /\ \A i \in 1..Len(lines') : lines'[i] = lines[i + 1]
<1>1. /\ lines' \in Seq(AnyLine) /\ Head(lines) \in AnyLine
      /\ Len(lines) \in Nat /\ Len(lines') = Len(lines) - 1 /\ Len(lines) # 0
      /\ Head(lines) = lines[1] /\ \A i \in 1..Len(lines') : lines'[i] = lines[i + 1]
  BY HeadTailProperties, LenProperties, EmptySeq
<1>2. Len(lines) \in Nat /\ Len(lines') \in Nat
  BY <1>1
<1>3. Said' \subseteq Said
  <2> SUFFICES ASSUME NEW i \in 1..Len(lines') PROVE lines'[i] \in Said
    BY DEF Said
  <2>1. i + 1 \in 1..Len(lines)
    BY <1>1
  <2> QED  BY <1>1, <2>1 DEF Said
<1>4. Said \subseteq Said' \cup {Head(lines)}
  <2> SUFFICES ASSUME NEW i \in 1..Len(lines) PROVE lines[i] \in Said' \cup {Head(lines)}
    BY DEF Said
  <2>1. CASE i = 1
    BY <2>1, <1>1
  <2>2. CASE i # 1
    <3>1. i - 1 \in 1..Len(lines') /\ lines'[i - 1] = lines[i]
      BY <2>2, <1>1
    <3> QED  BY <3>1 DEF Said
  <2> QED  BY <2>1, <2>2
<1>5. Head(lines) \in Said
  <2>1. 1 \in 1..Len(lines)
    BY <1>1
  <2> QED  BY <2>1, <1>1 DEF Said
<1> QED  BY <1>1, <1>2, <1>3, <1>4, <1>5

LEMMA Received ==
  ASSUME IInv, NEW kind, Receive(kind)
  PROVE  /\ alive /\ Truthful /\ Heard /\ Opposed /\ Watches /\ Recording /\ Booked
         /\ Types /\ Serving /\ UNCHANGED server
         /\ Head(lines) \in AnyLine /\ A \in Players /\ Head(lines).is = kind
         /\ Head(lines) \in Said /\ True(Head(lines))
         /\ Said' \subseteq Said /\ Said \subseteq Said' \cup {Head(lines)}
         /\ lines' \in Seq(AnyLine)
         /\ kind \in Once => \A l \in Said' : l.is # kind
         /\ Serving' /\ Truthful'
<1>1. /\ alive /\ lines # <<>> /\ lines' = Tail(lines) /\ UNCHANGED server
      /\ Head(lines).is = kind
  BY DEF Receive
<1>2. lines \in Seq(AnyLine) /\ Truthful
  BY <1>1 DEF IInv, Types
<1>3. /\ Head(lines) \in AnyLine /\ Head(lines) \in Said
      /\ Said' \subseteq Said /\ Said \subseteq Said' \cup {Head(lines)}
      /\ lines' \in Seq(AnyLine)
      /\ Len(lines') \in Nat /\ Len(lines) = Len(lines') + 1
      /\ Head(lines) = lines[1] /\ \A i \in 1..Len(lines') : lines'[i] = lines[i + 1]
  BY <1>1, <1>2, Tailed
<1>4. Serving'
  <2>1. Serving /\ UNCHANGED <<online, playing, seen>>
    BY <1>1 DEF IInv, server
  <2> QED  BY <2>1 DEF Serving, Busy
<1>5. \A i \in 1..Len(lines') : i + 1 \in 1..Len(lines) /\ 1 \in 1..Len(lines) /\ i + 1 # 1
  BY <1>3
<1>6. kind \in Once => \A l \in Said' : l.is # kind
  <2> SUFFICES ASSUME kind \in Once, NEW i \in 1..Len(lines') PROVE lines'[i].is # kind
    BY DEF Said
  <2> QED  BY <1>1, <1>2, <1>3, <1>5 DEF Truthful
<1>7. \A l \in Said' : l.is # "login"
  <2> SUFFICES ASSUME NEW l \in Said', l.is = "login" PROVE FALSE
    OBVIOUS
  <2>1. Said = {l}
    BY <1>2, <1>3 DEF Truthful, Alone
  <2>2. kind = "login"
    BY <2>1, <1>1, <1>3
  <2> QED  BY <2>2, <1>6 DEF Once
<1>8. ASSUME NEW l \in Said' PROVE True(l)'
  <2>1. True(l)
    BY <1>2, <1>3 DEF Truthful
  <2>2. \A x : Against(x)' = Against(x) /\ (Busy(x)' <=> Busy(x)) /\ Watched(x)' = Watched(x)
    BY <1>1, ServerStays
  <2>3. online' = online /\ seen' = seen
    BY <1>1 DEF server
  <2> QED  BY <2>1, <2>2, <2>3, <1>7 DEF True
<1>9. Truthful'
  <2>1. \A l \in Said' : Alone(l)' => Said' = {l}
    BY <1>2, <1>3 DEF Truthful, Alone
  <2>2. \A i, j \in 1..Len(lines') :
           lines'[i].is = lines'[j].is /\ lines'[i].is \in Once => i = j
    <3> SUFFICES ASSUME NEW i \in 1..Len(lines'), NEW j \in 1..Len(lines'),
                        lines'[i].is = lines'[j].is, lines'[i].is \in Once
                 PROVE  i = j
      OBVIOUS
    <3>1. i + 1 = j + 1
      BY <1>2, <1>3, <1>5 DEF Truthful
    <3> QED  BY <3>1
  <2>3. \A l, m \in Said' : l.is = "winsMatch" => m.is # "finished"
    BY <1>2, <1>3 DEF Truthful
  <2> QED  BY <1>8, <2>1, <2>2, <2>3 DEF Truthful, Once
<1>10. A \in Players
  BY <1>3 DEF A, AnyLine
<1>11. True(Head(lines))
  BY <1>2, <1>3 DEF Truthful
<1> QED  BY <1>1, <1>3, <1>4, <1>6, <1>9, <1>10, <1>11 DEF IInv

(* Parts of the invariant that a handler keeps. *)
LEMMA HeardOn ==
  ASSUME IInv, NEW kind, Receive(kind), list' = list, asked \subseteq asked',
         kind \notin {"who", "login", "logout", "unknown"}
  PROVE  Heard'
<1> SUFFICES ASSUME NEW x \in Others
             PROVE  (ListRight(x) \/ Coming({"who", "login", "logout", "unknown"}, x))'
  BY DEF Heard
<1>1. ListRight(x) \/ Coming({"who", "login", "logout", "unknown"}, x)
  BY Received DEF Heard
<1>2. Against(x)' = Against(x) /\ (Busy(x)' <=> Busy(x)) /\ online' = online
  BY Received, ServerStays DEF server
<1>3. ListRight(x) => ListRight(x)'
  BY <1>2 DEF ListRight
<1>4. Coming({"who", "login", "logout", "unknown"}, x)
        => Coming({"who", "login", "logout", "unknown"}, x)'
  BY Received DEF Coming
<1> QED  BY <1>1, <1>3, <1>4

(* The list is right about others when the player of the line is seen to. *)
LEMMA HeardOf ==
  ASSUME IInv, NEW kind, Receive(kind), NEW a, a = A,
         \A x \in Others \ {a} : list'[x] = list[x] /\ (x \in asked => x \in asked'),
         a \in Others => ListRight(a)'
  PROVE  Heard'
<1> SUFFICES ASSUME NEW x \in Others \ {a}
             PROVE  (ListRight(x) \/ Coming({"who", "login", "logout", "unknown"}, x))'
  BY DEF Heard
<1>1. ListRight(x) \/ Coming({"who", "login", "logout", "unknown"}, x)
  BY Received DEF Heard
<1>2. Against(x)' = Against(x) /\ (Busy(x)' <=> Busy(x)) /\ online' = online
  BY Received, ServerStays DEF server
<1>3. ListRight(x) => ListRight(x)'
  BY <1>2 DEF ListRight
<1>4. Coming({"who", "login", "logout", "unknown"}, x)
        => Coming({"who", "login", "logout", "unknown"}, x)'
  BY Received DEF Coming, A
<1> QED  BY <1>1, <1>3, <1>4

LEMMA OpposedOn ==
  ASSUME IInv, NEW kind, Receive(kind), kind \notin {"playing", "resuming"},
         Busy(Me) /\ opponent = Against(Me) /\ watching = None
           => opponent' = Against(Me) /\ watching' = None
  PROVE  Opposed'
<1>1. Against(Me)' = Against(Me) /\ (Busy(Me)' <=> Busy(Me))
  BY Received, ServerStays
<1>2. Opposed /\ Head(lines).is = kind /\ Said \subseteq Said' \cup {Head(lines)}
  BY Received
<1> QED  BY <1>1, <1>2 DEF Opposed

LEMMA WatchesOn ==
  ASSUME IInv, NEW kind, Receive(kind), kind # "who", watching' \in {watching, None}
  PROVE  Watches'
<1>1. /\ Watches /\ Head(lines).is = kind /\ seen' = seen
      /\ Said \subseteq Said' \cup {Head(lines)}
  BY Received DEF server
<1>2. Coming({"who"}, Me) => Coming({"who"}, Me)'
  BY <1>1 DEF Coming
<1> QED  BY <1>1, <1>2 DEF Watches

LEMMA RecordingOn ==
  ASSUME IInv, NEW kind, Receive(kind), kind # "who", watching' = watching,
         opponent' \in {opponent, None}, tracker' \in {tracker, None},
         board' = board
  PROVE  Recording'
<1>1. /\ Recording /\ Head(lines).is = kind /\ seen' = seen
      /\ Said \subseteq Said' \cup {Head(lines)}
  BY Received DEF server
<1>2. Coming({"who"}, Me) => Coming({"who"}, Me)'
  BY <1>1 DEF Coming
<1> QED  BY <1>1, <1>2 DEF Recording

LEMMA BookedOn ==
  ASSUME IInv, NEW kind, Receive(kind), kind \notin {"logout", "finished"},
         \A x \in Others : Coming({"logout"}, x) => list'[x] = list[x],
         booked'["wins"] = booked["wins"], booked'["drops"] = booked["drops"],
         Won => opponent' \in {opponent, None}
  PROVE  Booked'
<1>1. /\ Booked /\ Head(lines).is = kind /\ truth' = truth
      /\ Said' \subseteq Said /\ Said \subseteq Said' \cup {Head(lines)}
  BY Received, ServerStays DEF server
<1>2. \A x \in Others : DropDue(x)' <=> DropDue(x)
  BY <1>1 DEF DropDue, Coming
<1>3. \A x \in Others : WinDue(x)' <=> WinDue(x)
  BY <1>1 DEF WinDue
<1>4. (Won' => Won) /\ (Left' => Left)
  BY <1>1 DEF Won, Left
<1>5. None \notin Others
  BY Names
<1> QED  BY <1>1, <1>2, <1>3, <1>4, <1>5 DEF Booked

LEMMA Kept ==
  ASSUME IInv, NEW kind, Receive(kind),
         Types', Heard', Opposed', Watches', Recording', Booked'
  PROVE  IInv'
BY Received DEF IInv

-----------------------------------------------------------------------------
(* The handlers, one by one. *)
LEMMA LoginStep == IInv /\ HandleLogin => IInv'
<1> SUFFICES ASSUME IInv, HandleLogin PROVE IInv'
  OBVIOUS
<1>1. /\ Receive("login") /\ asked' = asked \cup {A}
      /\ UNCHANGED <<opponent, watching, tracker, board, list, saved, boardAsked, alive, archive>>
  BY DEF HandleLogin
<1>2. /\ A \in Players /\ Types /\ True(Head(lines)) /\ Head(lines).is = "login"
      /\ lines' \in Seq(AnyLine) /\ UNCHANGED server
  BY <1>1, Received
<1>3. Types'
  BY <1>1, <1>2 DEF Types, archive, server
<1>4. Heard'
  <2>1. PICK a : a = A
    OBVIOUS
  <2>2. list[a] = "absent" /\ ~Busy(a) /\ (Busy(a)' <=> Busy(a))
    BY <2>1, <1>2, ServerStays DEF True, A
  <2>3. ListRight(a)'
    BY <1>1, <2>1, <2>2 DEF ListRight
  <2> QED  BY <1>1, <2>1, <2>3, HeardOf
<1>5. Opposed' /\ Watches' /\ Recording' /\ Booked'
  BY <1>1, OpposedOn, WatchesOn, RecordingOn, BookedOn DEF archive
<1> QED  BY <1>1, <1>3, <1>4, <1>5, Kept

LEMMA NoSuchUserStep == IInv /\ HandleNoSuchUser => IInv'
<1> SUFFICES ASSUME IInv, HandleNoSuchUser PROVE IInv'
  OBVIOUS
<1>1. /\ Receive("unknown") /\ asked' = asked \ {A} /\ list' = [list EXCEPT ![A] = "absent"]
      /\ UNCHANGED <<opponent, watching, tracker, board, saved, boardAsked, alive, archive>>
  BY DEF HandleNoSuchUser
<1>2. /\ A \in Players /\ Types /\ True(Head(lines)) /\ Head(lines).is = "unknown"
      /\ lines' \in Seq(AnyLine) /\ UNCHANGED server /\ Truthful /\ Head(lines) \in Said
  BY <1>1, Received
<1>3. Types'
  BY <1>1, <1>2 DEF Types, archive, server
<1>4. Heard'
  <2>1. PICK a : a = A
    OBVIOUS
  <2>2. a \in Players /\ a \notin online /\ online' = online
    BY <2>1, <1>2 DEF True, A, server
  <2>3. ListRight(a)'
    BY <1>1, <1>2, <2>1, <2>2 DEF ListRight, Types
  <2>4. \A x \in Others \ {a} : list'[x] = list[x] /\ (x \in asked => x \in asked')
    BY <1>1, <1>2, <2>1, Names DEF Types
  <2> QED  BY <1>1, <2>1, <2>3, <2>4, HeardOf
<1>5. \A x \in Others : Coming({"logout"}, x) => list'[x] = list[x]
  <2>1. Said = {Head(lines)}
    BY <1>2 DEF Truthful, Alone
  <2> QED  BY <2>1, <1>2 DEF Coming
<1>6. Opposed' /\ Watches' /\ Recording' /\ Booked'
  BY <1>1, <1>5, OpposedOn, WatchesOn, RecordingOn, BookedOn DEF archive
<1> QED  BY <1>1, <1>3, <1>4, <1>6, Kept

LEMMA StopWatchingStep == IInv /\ HandleStopWatching => IInv'
<1> SUFFICES ASSUME IInv, HandleStopWatching PROVE IInv'
  OBVIOUS
<1>1. Receive("unwatched") /\ UNCHANGED <<session, archive>>
  BY DEF HandleStopWatching
<1>2. Types /\ lines' \in Seq(AnyLine) /\ UNCHANGED server
  BY <1>1, Received
<1>3. Types'
  BY <1>1, <1>2 DEF Types, session, archive, server
<1>4. Heard' /\ Opposed' /\ Watches' /\ Recording' /\ Booked'
  BY <1>1, HeardOn, OpposedOn, WatchesOn, RecordingOn, BookedOn DEF session, archive
<1> QED  BY <1>1, <1>3, <1>4, Kept

LEMMA YoureWatchingStep == IInv /\ HandleYoureWatching => IInv'
<1> SUFFICES ASSUME IInv, HandleYoureWatching PROVE IInv'
  OBVIOUS
<1>1. /\ Receive("watching") /\ opponent' = None /\ watching' = A /\ tracker' = None
      /\ UNCHANGED <<board, list, saved, asked, boardAsked, alive, archive>>
  BY DEF HandleYoureWatching, Session
<1>2. /\ A \in Players /\ Types /\ Serving /\ True(Head(lines)) /\ Head(lines).is = "watching"
      /\ lines' \in Seq(AnyLine) /\ UNCHANGED server
  BY <1>1, Received
<1>3. ~Busy(Me) /\ A = seen /\ A \in Others
  BY <1>2, Names DEF True, A, Serving
<1>4. Types'
  BY <1>1, <1>2, <1>3 DEF Types, archive, server
<1>5. Opposed'
  BY <1>1, <1>3, OpposedOn
<1>6. Watches'
  BY <1>1, <1>2, <1>3 DEF Watches, server
<1>7. Heard' /\ Recording' /\ Booked'
  BY <1>1, HeardOn, BookedOn DEF archive, Recording
<1> QED  BY <1>1, <1>4, <1>5, <1>6, <1>7, Kept

LEMMA ActionStep == IInv /\ HandleAction => IInv'
<1> SUFFICES ASSUME IInv, HandleAction PROVE IInv'
  OBVIOUS
<1>1. /\ Receive("acts") /\ opponent' = opponent /\ watching' = watching
      /\ tracker' = tracker \/ (tracker # None /\ tracker' = board)
      /\ UNCHANGED <<board, list, saved, asked, boardAsked, alive, archive>>
  BY DEF HandleAction, UpdateTracker
<1>2. Types /\ lines' \in Seq(AnyLine) /\ UNCHANGED server /\ Recording
  BY <1>1, Received
<1>3. Types'
  BY <1>1, <1>2 DEF Types, archive, server
<1>4. tracker' \in {tracker, None}
  BY <1>1, <1>2 DEF Recording
<1>5. Heard' /\ Opposed' /\ Watches' /\ Recording' /\ Booked'
  BY <1>1, <1>4, HeardOn, OpposedOn, WatchesOn, RecordingOn, BookedOn DEF archive
<1> QED  BY <1>1, <1>3, <1>5, Kept

LEMMA WinGameStep == IInv /\ HandleWinGame => IInv'
<1> SUFFICES ASSUME IInv, HandleWinGame PROVE IInv'
  OBVIOUS
<1>1. /\ Receive("wins")
      /\ \/ opponent' = opponent /\ watching' = watching /\ tracker' = tracker
         \/ opponent' = None /\ watching' = None /\ tracker' = None
      /\ UNCHANGED <<board, list, saved, asked, boardAsked, alive, archive>>
  BY DEF HandleWinGame, UpdateTracker, StopPlaying, Session
<1>2. /\ Types /\ True(Head(lines)) /\ Head(lines).is = "wins"
      /\ lines' \in Seq(AnyLine) /\ UNCHANGED server
  BY <1>1, Received
<1>3. ~Busy(Me)
  BY <1>2 DEF True
<1>4. Types'
  BY <1>1, <1>2 DEF Types, archive, server
<1>5. Recording'
  BY <1>1, RecordingOn DEF Recording
<1>6. Heard' /\ Opposed' /\ Watches' /\ Booked'
  BY <1>1, <1>3, HeardOn, OpposedOn, WatchesOn, BookedOn DEF archive
<1> QED  BY <1>1, <1>4, <1>5, <1>6, Kept

(* What the archive books. *)
LEMMA Added ==
  ASSUME booked \in Ledger({"wins", "drops", "resumes"}),
         NEW what \in {"wins", "drops", "resumes"}, NEW who, Add(what, who)
  PROVE  /\ booked' \in Ledger({"wins", "drops", "resumes"})
         /\ \A k \in {"wins", "drops", "resumes"} \ {what} : booked'[k] = booked[k]
         /\ \A x \in Players : /\ x \in who => booked'[what][x] = booked[what][x] + 1
                               /\ x \notin who => booked'[what][x] = booked[what][x]
<1>1. booked' = [booked EXCEPT ![what] =
                   [x \in Players |-> @[x] + IF x \in who THEN 1 ELSE 0]]
  BY DEF Add
<1>2. /\ \A x \in Players : booked[what][x] \in Nat
      /\ \A k \in {"wins", "drops", "resumes"} : booked[k] \in [Players -> Nat]
  BY DEF Ledger
<1>3. booked'[what] = [x \in Players |-> booked[what][x] + IF x \in who THEN 1 ELSE 0]
  BY <1>1 DEF Ledger
<1>4. \A k \in {"wins", "drops", "resumes"} \ {what} : booked'[k] = booked[k]
  BY <1>1 DEF Ledger
<1>5. booked'[what] \in [Players -> Nat]
  BY <1>2, <1>3
<1>6. booked' \in Ledger({"wins", "drops", "resumes"})
  BY <1>1, <1>2, <1>3, <1>5 DEF Ledger
<1>7. \A x \in Players : /\ x \in who => booked'[what][x] = booked[what][x] + 1
                         /\ x \notin who => booked'[what][x] = booked[what][x]
  BY <1>2, <1>3
<1> QED  BY <1>4, <1>6, <1>7

LEMMA Dropped ==
  ASSUME Types, NEW x \in Players, NEW y \in Players, SaveDrop(x, y)
  PROVE  /\ booked' \in Ledger({"wins", "drops", "resumes"})
         /\ booked'["wins"] = booked["wins"]
         /\ booked'["drops"][x] = booked["drops"][x] + 1
         /\ \A z \in Players \ {x} : booked'["drops"][z] = booked["drops"][z]
         /\ droppers' \subseteq BOOLEAN \X Players \X Players
<1>1. booked \in Ledger({"wins", "drops", "resumes"}) /\ droppers \subseteq BOOLEAN \X Players \X Players
  BY DEF Types
<1>2. Add("drops", {x}) /\ droppers' = droppers \cup {<<FALSE, x, y>>}
  BY DEF SaveDrop, Key
<1>3. /\ booked' \in Ledger({"wins", "drops", "resumes"})
      /\ \A k \in {"wins", "drops", "resumes"} \ {"drops"} : booked'[k] = booked[k]
      /\ \A z \in Players : /\ z \in {x} => booked'["drops"][z] = booked["drops"][z] + 1
                            /\ z \notin {x} => booked'["drops"][z] = booked["drops"][z]
  BY <1>1, <1>2, Added
<1>4. droppers' \subseteq BOOLEAN \X Players \X Players
  <2>1. <<FALSE, x, y>> \in BOOLEAN \X Players \X Players
    BY Zenon
  <2> QED  BY <1>1, <1>2, <2>1, Zenon
<1>5. booked'["wins"] = booked["wins"]
  BY <1>3
<1>6. /\ booked'["drops"][x] = booked["drops"][x] + 1
      /\ \A z \in Players \ {x} : booked'["drops"][z] = booked["drops"][z]
  BY <1>3
<1> QED  BY <1>3, <1>4, <1>5, <1>6

LEMMA Resumed ==
  ASSUME Types, NEW x \in Players, NEW y \in Players, SaveResume(x, y)
  PROVE  /\ booked' \in Ledger({"wins", "drops", "resumes"})
         /\ booked'["wins"] = booked["wins"] /\ booked'["drops"] = booked["drops"]
         /\ droppers' \subseteq BOOLEAN \X Players \X Players
<1>1. booked \in Ledger({"wins", "drops", "resumes"}) /\ droppers \subseteq BOOLEAN \X Players \X Players
  BY DEF Types
<1>2. CASE UNCHANGED archive
  BY <1>1, <1>2 DEF archive
<1>3. CASE ~ UNCHANGED archive
  <2>1. PICK key, who : droppers' = droppers \ {key} /\ Add("resumes", who)
    BY <1>3 DEF SaveResume
  <2>2. /\ booked' \in Ledger({"wins", "drops", "resumes"})
        /\ \A k \in {"wins", "drops", "resumes"} \ {"resumes"} : booked'[k] = booked[k]
    BY <1>1, <2>1, Added
  <2> QED  BY <1>1, <2>1, <2>2
<1> QED  BY <1>2, <1>3

LEMMA ResumeMatchStep == IInv /\ HandleResumeMatch => IInv'
<1> SUFFICES ASSUME IInv, HandleResumeMatch PROVE IInv'
  OBVIOUS
<1>1. /\ Receive("resumed") /\ asked' = asked \cup {A, B} /\ SaveResume(A, B)
      /\ UNCHANGED <<opponent, watching, tracker, board, list, saved, boardAsked, alive>>
  BY DEF HandleResumeMatch
<1>2. /\ A \in Players /\ B \in Players /\ Types
      /\ lines' \in Seq(AnyLine) /\ UNCHANGED server
  BY <1>1, Received, Names DEF True, A, B
<1>3. /\ booked' \in Ledger({"wins", "drops", "resumes"})
      /\ booked'["wins"] = booked["wins"] /\ booked'["drops"] = booked["drops"]
      /\ droppers' \subseteq BOOLEAN \X Players \X Players
  BY <1>1, <1>2, Resumed
<1>4. Types'
  BY <1>1, <1>2, <1>3 DEF Types, server
<1>5. Heard' /\ Opposed' /\ Watches' /\ Recording' /\ Booked'
  BY <1>1, <1>3, HeardOn, OpposedOn, WatchesOn, RecordingOn, BookedOn
<1> QED  BY <1>1, <1>4, <1>5, Kept

(* I begin a match, or resume one. *)
LEMMA MineBegins ==
  ASSUME IInv, NEW kind \in {"playing", "resuming"}, Receive(kind)
  PROVE  /\ Busy(Me) /\ Busy(Me)' /\ A = Against(Me) /\ A \in Others /\ Against(Me)' = A
         /\ seen = None /\ seen' = None /\ ~Won
<1>1. /\ True(Head(lines)) /\ Head(lines).is = kind /\ Serving /\ Truthful /\ UNCHANGED server
  BY Received
<1>2. Busy(Me) /\ A = Against(Me)
  BY <1>1 DEF True, A
<1>3. A \in Others /\ seen = None
  BY <1>1, <1>2, Playing DEF Serving, Players
<1>4. ~Won
  BY <1>1, <1>2 DEF Won, Truthful, True
<1>5. (Busy(Me)' <=> Busy(Me)) /\ Against(Me)' = Against(Me) /\ seen' = seen
  BY <1>1, ServerStays DEF server
<1> QED  BY <1>2, <1>3, <1>4, <1>5

LEMMA NowPlayingStep == IInv /\ HandleNowPlaying => IInv'
<1> SUFFICES ASSUME IInv, HandleNowPlaying PROVE IInv'
  OBVIOUS
<1>1. /\ Receive("playing") /\ opponent' = A /\ watching' = watching /\ tracker' = <<Me, A>>
      /\ alive' = (watching = None) /\ board' = None /\ saved' = saved \ {A}
      /\ UNCHANGED <<list, asked, boardAsked, archive>>
  BY DEF HandleNowPlaying, Session
<1>2. /\ Types /\ lines' \in Seq(AnyLine) /\ UNCHANGED server /\ Serving' /\ Truthful'
  BY <1>1, Received
<1>3. PICK a : a = A
  OBVIOUS
<1>4. /\ a \in Others /\ Busy(Me)' /\ Against(Me)' = a /\ seen' = None /\ ~Won
  BY <1>1, <1>3, MineBegins
<1>5. Types'
  BY <1>1, <1>2, <1>3, <1>4, Names DEF Types, archive, server
<1>6. CASE watching # None
  BY <1>1, <1>2, <1>5, <1>6 DEF IInv
<1>7. CASE watching = None
  <2>1. Opposed' /\ Watches'
    BY <1>1, <1>3, <1>4, <1>7 DEF Opposed, Watches
  <2>2. Recording'
    BY <1>1, <1>3, <1>4, <1>7, Names DEF Recording
  <2>3. Heard' /\ Booked'
    BY <1>1, <1>4, HeardOn, BookedOn DEF archive
  <2> QED  BY <1>1, <1>5, <2>1, <2>2, <2>3, Kept
<1> QED  BY <1>6, <1>7

LEMMA ResumeStep == IInv /\ HandleResume => IInv'
<1> SUFFICES ASSUME IInv, HandleResume PROVE IInv'
  OBVIOUS
<1>1. /\ Receive("resuming") /\ opponent' = A /\ watching' = None /\ tracker' = None
      /\ board' = None /\ boardAsked' = TRUE /\ SaveResume(Me, A)
      /\ UNCHANGED <<list, saved, asked, alive>>
  BY DEF HandleResume, Session
<1>2. /\ Types /\ lines' \in Seq(AnyLine) /\ UNCHANGED server
  BY <1>1, Received
<1>3. PICK a : a = A
  OBVIOUS
<1>4. /\ a \in Others /\ Busy(Me)' /\ Against(Me)' = a /\ seen' = None /\ ~Won
  BY <1>1, <1>3, MineBegins
<1>5. /\ booked' \in Ledger({"wins", "drops", "resumes"})
      /\ booked'["wins"] = booked["wins"] /\ booked'["drops"] = booked["drops"]
      /\ droppers' \subseteq BOOLEAN \X Players \X Players
  BY <1>1, <1>2, <1>3, <1>4, Names, Resumed
<1>6. Types'
  BY <1>1, <1>2, <1>3, <1>4, <1>5, Names DEF Types, server
<1>7. Opposed' /\ Watches' /\ Recording'
  BY <1>1, <1>3, <1>4 DEF Opposed, Watches, Recording
<1>8. Heard' /\ Booked'
  BY <1>1, <1>4, <1>5, HeardOn, BookedOn
<1> QED  BY <1>1, <1>6, <1>7, <1>8, Kept

LEMMA BoardStep == IInv /\ HandleBoard => IInv'
<1> SUFFICES ASSUME IInv, HandleBoard PROVE IInv'
  OBVIOUS
<1>1. PICK a, b : a = A /\ b = B
  OBVIOUS
<1>2. /\ Receive("board") /\ board' = <<a, b>> /\ opponent' = b
      /\ watching' = IF a = Me /\ watching # None THEN None ELSE watching
      /\ \/ (a = Me \/ (watching # None /\ watching = a)) /\ tracker' = <<a, b>>
         \/ (a # Me /\ ~(watching # None /\ watching = a)) /\ tracker' = tracker
      /\ UNCHANGED <<list, saved, asked, boardAsked, alive, archive>>
  BY <1>1, Names DEF HandleBoard, Session
<1>3. /\ Types /\ Serving /\ Truthful /\ Watches /\ Opposed /\ Recording
      /\ Head(lines).is = "board" /\ True(Head(lines)) /\ Head(lines) \in Said
      /\ lines' \in Seq(AnyLine) /\ UNCHANGED server /\ a \in Players
  BY <1>1, <1>2, Received
<1>4. Busy(Me) => a = Me /\ b = Against(Me) /\ b \in Others /\ seen = None
  BY <1>1, <1>3, Playing DEF True, A, B, Serving, Players
<1>5. ~Busy(Me) => /\ a = seen /\ a \in Others /\ b \in Others
                   /\ ~Coming({"who"}, Me)
  <2> SUFFICES ASSUME ~Busy(Me) PROVE a = seen /\ a \in Others /\ b \in Others
                                      /\ ~Coming({"who"}, Me)
    OBVIOUS
  <2>1. a = seen /\ b \in Others
    BY <1>1, <1>3 DEF True, A, B
  <2>2. a \in Others
    BY <1>3, <2>1, Names DEF Serving
  <2>3. Said = {Head(lines)}
    BY <1>1, <1>3, <2>2, Names DEF Truthful, Alone, A
  <2> QED  BY <1>3, <2>1, <2>2, <2>3 DEF Coming
<1>6. b \in Others
  BY <1>4, <1>5
<1>7. ~Busy(Me) => watching \in {None, a} /\ (watching = None => tracker = None)
  BY <1>3, <1>5, Names DEF Watches, Recording
<1>8. Types'
  BY <1>2, <1>3, <1>6, Names DEF Types, archive, server
<1>9. Opposed'
  BY <1>2, <1>4, Names, OpposedOn
<1>10. Watches'
  BY <1>2, WatchesOn
<1>11. Recording'
  <2>1. CASE Busy(Me)
    <3>1. a = Me /\ watching' = None /\ tracker' = <<Me, b>> /\ board' = tracker' /\ seen' = None
      BY <1>2, <1>3, <1>4, <2>1 DEF server
    <3> QED  BY <1>2, <1>6, <3>1, Names DEF Recording
  <2>2. CASE ~Busy(Me) /\ watching = None
    <3>1. tracker' = None
      BY <1>2, <1>5, <1>7, <2>2, Names
    <3> QED  BY <3>1 DEF Recording
  <2>3. CASE ~Busy(Me) /\ watching # None
    <3>1. watching = a /\ a # Me /\ watching' = a /\ tracker' = <<a, b>> /\ board' = tracker'
      BY <1>2, <1>5, <1>7, <2>3, Names
    <3>2. a # None
      BY <1>3, Names
    <3> QED  BY <1>2, <1>6, <3>1, <3>2, Names DEF Recording
  <2> QED  BY <2>1, <2>2, <2>3
<1>12. Heard'
  BY <1>2, HeardOn
<1>13. ~Won
  <2>1. CASE Busy(Me)
    BY <2>1, <1>3 DEF Won, Truthful, True
  <2>2. CASE ~Busy(Me)
    <3>1. Said = {Head(lines)}
      BY <1>1, <1>3, <1>5, <2>2, Names DEF Truthful, Alone, A
    <3> QED  BY <3>1, <1>3 DEF Won
  <2> QED  BY <2>1, <2>2
<1>14. Booked'
  BY <1>2, <1>13, BookedOn DEF archive
<1> QED  BY <1>2, <1>8, <1>9, <1>10, <1>11, <1>12, <1>14, Kept

LEMMA FinalizeStep == IInv /\ Finalize => IInv'
<1> SUFFICES ASSUME IInv, Finalize PROVE IInv'
  OBVIOUS
<1>1. /\ alive' = FALSE
      /\ UNCHANGED archive \/ (opponent # None /\ SaveDrop(Me, opponent))
      /\ UNCHANGED <<opponent, watching, tracker, board, list, saved, asked, boardAsked,
                     lines, server>>
  BY DEF Finalize
<1>2. Types /\ Serving
  BY DEF IInv
<1>3. /\ booked' \in Ledger({"wins", "drops", "resumes"})
      /\ droppers' \subseteq BOOLEAN \X Players \X Players
  <2>1. CASE UNCHANGED archive
    BY <1>2, <2>1 DEF Types, archive
  <2>2. CASE opponent # None /\ SaveDrop(Me, opponent)
    BY <1>2, <2>2, Dropped, Names DEF Types
  <2> QED  BY <1>1, <2>1, <2>2
<1>4. Types'
  BY <1>1, <1>2, <1>3 DEF Types, server
<1>5. Serving'
  BY <1>1, <1>2 DEF Serving, server, Busy
<1> QED  BY <1>1, <1>4, <1>5 DEF IInv

LEMMA WinMatchStep == IInv /\ HandleWinMatch => IInv'
<1> SUFFICES ASSUME IInv, HandleWinMatch PROVE IInv'
  OBVIOUS
<1>1. /\ Receive("winsMatch")
      /\ \/ /\ opponent # None /\ asked' = asked \cup {opponent, Me}
            /\ SaveWin(opponent, Me)
         \/ UNCHANGED <<asked, archive>>
      /\ UNCHANGED <<opponent, watching, tracker, board, list, saved, boardAsked, alive>>
  BY DEF HandleWinMatch
<1>2. /\ Types /\ Booked /\ Truthful /\ lines' \in Seq(AnyLine) /\ UNCHANGED server
      /\ Head(lines).is = "winsMatch" /\ Head(lines) \in Said
      /\ Said' \subseteq Said /\ Said \subseteq Said' \cup {Head(lines)}
      /\ \A l \in Said' : l.is # "winsMatch"
  BY <1>1, Received DEF Once
<1>3. asked \subseteq asked' /\ asked' \subseteq Players
  BY <1>1, <1>2, Names DEF Types
<1>4. Heard' /\ Opposed' /\ Watches' /\ Recording'
  BY <1>1, <1>3, HeardOn, OpposedOn, WatchesOn, RecordingOn
<1>5. CASE UNCHANGED archive
  <2>1. Types'
    BY <1>1, <1>2, <1>3, <1>5 DEF Types, archive, server
  <2>2. Booked'
    BY <1>1, <1>5, BookedOn DEF archive
  <2> QED  BY <1>1, <1>4, <2>1, <2>2, Kept
<1>6. CASE opponent # None /\ SaveWin(opponent, Me)
  <2>1. PICK o \in Others : o = opponent
    BY <1>2, <1>6 DEF Types
  <2>2. Add("wins", {o, Me}) /\ droppers' \subseteq droppers
    BY <1>6, <2>1 DEF SaveWin
  <2>3. /\ booked' \in Ledger({"wins", "drops", "resumes"})
        /\ booked'["drops"] = booked["drops"]
        /\ \A x \in Players : /\ x \in {o, Me} => booked'["wins"][x] = booked["wins"][x] + 1
                              /\ x \notin {o, Me} => booked'["wins"][x] = booked["wins"][x]
    BY <1>2, <2>2, Added DEF Types
  <2>4. Types'
    BY <1>1, <1>2, <1>3, <2>2, <2>3 DEF Types, server
  <2>5. Won /\ ~Won'
    BY <1>2 DEF Won
  <2>6. \A x \in Others : ~WinDue(x) /\ ~WinDue(x)'
    BY <1>2 DEF WinDue, Truthful
  <2>7. (Left' => Left) /\ truth' = truth
    BY <1>2 DEF Left, server
  <2>8. \A x \in Others : DropDue(x)' <=> DropDue(x)
    BY <1>1, <1>2 DEF DropDue, Coming
  <2>9. \A x \in Players : /\ booked["wins"][x] \in Nat /\ truth["finished"][x] \in Nat
                           /\ truth["mine"][x] \in Nat
    BY <1>2 DEF Types, Ledger, Truths
  <2>10. Booked'
    BY <1>2, <2>1, <2>3, <2>5, <2>6, <2>7, <2>8, <2>9, Names DEF Booked
  <2> QED  BY <1>1, <1>4, <2>4, <2>10, Kept
<1> QED  BY <1>1, <1>5, <1>6 DEF archive

LEMMA AsyncWinMatchStep == IInv /\ HandleAsyncWinMatch => IInv'
<1> SUFFICES ASSUME IInv, HandleAsyncWinMatch PROVE IInv'
  OBVIOUS
<1>1. PICK a, b : a = A /\ b = B
  OBVIOUS
<1>2. /\ Receive("finished") /\ asked' = asked \cup {a, b} /\ SaveWin(a, b)
      /\ UNCHANGED <<opponent, watching, tracker, board, list, saved, boardAsked, alive>>
  BY <1>1 DEF HandleAsyncWinMatch
<1>3. /\ Types /\ Booked /\ Truthful /\ lines' \in Seq(AnyLine) /\ UNCHANGED server
      /\ Head(lines).is = "finished" /\ Head(lines) \in Said /\ True(Head(lines))
      /\ Said' \subseteq Said /\ Said \subseteq Said' \cup {Head(lines)}
      /\ \A l \in Said' : l.is # "finished"
  BY <1>2, Received DEF Once
<1>4. {a, b} \subseteq Others /\ asked \subseteq asked' /\ asked' \subseteq Players
  BY <1>1, <1>2, <1>3, Names DEF Types, True, A, B
<1>5. Heard' /\ Opposed' /\ Watches' /\ Recording'
  BY <1>2, <1>4, HeardOn, OpposedOn, WatchesOn, RecordingOn
<1>6. Add("wins", {a, b}) /\ droppers' \subseteq droppers
  BY <1>2 DEF SaveWin
<1>7. /\ booked' \in Ledger({"wins", "drops", "resumes"})
      /\ booked'["drops"] = booked["drops"]
      /\ \A x \in Players : /\ x \in {a, b} => booked'["wins"][x] = booked["wins"][x] + 1
                            /\ x \notin {a, b} => booked'["wins"][x] = booked["wins"][x]
  BY <1>3, <1>6, Added DEF Types
<1>8. Types'
  BY <1>2, <1>3, <1>4, <1>6, <1>7 DEF Types, server
<1>9. ~Won /\ ~Won'
  BY <1>3 DEF Won, Truthful
<1>10. \A x \in Others : (WinDue(x) <=> x \in {a, b}) /\ ~WinDue(x)'
  <2>1. \A l \in Said : l.is = "finished" => l = Head(lines)
    BY <1>3
  <2> QED  BY <1>1, <1>3, <2>1 DEF WinDue, A, B
<1>11. (Left' => Left) /\ truth' = truth /\ Me \notin {a, b}
  BY <1>3, <1>4, Names DEF Left, server
<1>12. \A x \in Others : DropDue(x)' <=> DropDue(x)
  BY <1>2, <1>3 DEF DropDue, Coming
<1>13. Booked'
  BY <1>3, <1>7, <1>9, <1>10, <1>11, <1>12, Names DEF Booked
<1> QED  BY <1>2, <1>5, <1>8, <1>13, Kept

LEMMA LeftGameStep == IInv /\ HandleLeftGame => IInv'
<1> SUFFICES ASSUME IInv, HandleLeftGame PROVE IInv'
  OBVIOUS
<1>1. PICK a : a = A
  OBVIOUS
<1>2. /\ Receive("left")
      /\ \/ /\ opponent # None /\ asked' = asked \cup {Me, opponent}
            /\ saved' = IF a = opponent THEN saved \cup {a} ELSE saved
            /\ SaveDrop(Me, opponent) /\ opponent' = None
         \/ UNCHANGED <<saved, asked, archive, opponent>>
      /\ UNCHANGED <<watching, tracker, board, list, boardAsked, alive>>
  BY <1>1 DEF HandleLeftGame
<1>3. /\ Types /\ Booked /\ Truthful /\ lines' \in Seq(AnyLine) /\ UNCHANGED server
      /\ Head(lines).is = "left" /\ Head(lines) \in Said /\ True(Head(lines))
      /\ Said' \subseteq Said /\ Said \subseteq Said' \cup {Head(lines)}
      /\ \A l \in Said' : l.is # "left"
  BY <1>2, Received DEF Once
<1>4. ~Busy(Me) /\ Left /\ ~Left' /\ truth' = truth /\ (Won' => Won)
  BY <1>3 DEF True, Left, Won, server
<1>5. asked \subseteq asked' /\ asked' \subseteq Players /\ saved' \subseteq Others
  BY <1>2, <1>3, Names DEF Types
<1>6. Heard' /\ Opposed' /\ Watches' /\ Recording'
  BY <1>2, <1>4, <1>5, HeardOn, OpposedOn, WatchesOn, RecordingOn
<1>7. CASE UNCHANGED <<archive, opponent>>
  <2>1. Types'
    BY <1>2, <1>3, <1>5, <1>7 DEF Types, archive, server
  <2>2. Booked'
    BY <1>2, <1>7, BookedOn DEF archive
  <2> QED  BY <1>2, <1>6, <2>1, <2>2, Kept
<1>8. CASE opponent # None /\ SaveDrop(Me, opponent) /\ opponent' = None
  <2>1. opponent \in Players
    BY <1>3, <1>8, Names DEF Types
  <2>2. /\ booked' \in Ledger({"wins", "drops", "resumes"})
        /\ booked'["wins"] = booked["wins"]
        /\ booked'["drops"][Me] = booked["drops"][Me] + 1
        /\ \A z \in Players \ {Me} : booked'["drops"][z] = booked["drops"][z]
        /\ droppers' \subseteq BOOLEAN \X Players \X Players
    BY <1>3, <1>8, <2>1, Dropped, Names
  <2>3. Types'
    BY <1>2, <1>3, <1>5, <1>8, <2>2 DEF Types, server
  <2>4. \A x \in Others : /\ DropDue(x)' <=> DropDue(x)
                          /\ WinDue(x)' <=> WinDue(x)
    BY <1>2, <1>3 DEF DropDue, Coming, WinDue
  <2>5. booked["drops"][Me] \in Nat /\ truth["broken"][Me] \in Nat
    BY <1>3, Names DEF Types, Ledger, Truths
  <2>6. booked'["drops"][Me] <= truth'["broken"][Me]
    BY <1>3, <1>4, <2>2, <2>5 DEF Booked
  <2>7. Booked'
    BY <1>3, <1>4, <1>8, <2>2, <2>4, <2>6, Names DEF Booked
  <2> QED  BY <1>2, <1>6, <2>3, <2>7, Kept
<1> QED  BY <1>2, <1>7, <1>8

LEMMA WhoInfoStep == IInv /\ HandleWhoInfo => IInv'
<1> SUFFICES ASSUME IInv, HandleWhoInfo PROVE IInv'
  OBVIOUS
<1>1. PICK a, o, w : a = A /\ o = B[1] /\ w = B[2]
  OBVIOUS
<1>2. /\ Receive("who") /\ asked' = asked \ {a} /\ list' = [list EXCEPT ![a] = o]
      /\ UNCHANGED <<board, saved, boardAsked, alive, archive>>
      /\ a # Me => UNCHANGED <<opponent, watching, tracker>>
      /\ a = Me => \/ /\ o = opponent /\ w = watching
                      /\ UNCHANGED <<opponent, watching, tracker>>
                   \/ /\ o # opponent /\ w = None
                      /\ opponent' = o /\ watching' = None /\ tracker' = None
                   \/ /\ w # (IF o = opponent THEN watching ELSE None)
                      /\ opponent' = None /\ watching' = w /\ tracker' = None
  BY <1>1 DEF HandleWhoInfo, Session
<1>3. /\ Types /\ Serving /\ Truthful /\ Watches /\ Opposed /\ Recording /\ Booked
      /\ Head(lines).is = "who" /\ True(Head(lines)) /\ Head(lines) \in Said
      /\ Said' \subseteq Said /\ Said \subseteq Said' \cup {Head(lines)}
      /\ lines' \in Seq(AnyLine) /\ UNCHANGED server /\ a \in Players
  BY <1>1, <1>2, Received
<1>4. o = Against(a) /\ w = Watched(a) /\ a \in online \cup {Me}
  BY <1>1, <1>3 DEF True, A, B
<1>5. o \in Players \cup {None} /\ (a = Me => o \in Others \cup {None} /\ w = seen)
  BY <1>3, <1>4, Playing DEF Watched, Players
<1>6. seen \in Others \cup {None} /\ seen' = seen /\ online' = online
  BY <1>3 DEF Serving, server
<1>7. Types'
  <2>1. opponent' \in Others \cup {None} /\ watching' \in Others \cup {None}
    BY <1>2, <1>3, <1>5, <1>6 DEF Types
  <2>2. tracker' \in {None} \cup (Players \X Players)
    BY <1>2, <1>3 DEF Types
  <2>3. list' \in [Players -> Players \cup {None, "absent"}] /\ asked' \subseteq Players
    BY <1>2, <1>3, <1>5 DEF Types
  <2> QED  BY <1>2, <1>3, <2>1, <2>2, <2>3 DEF Types, archive, server
<1>8. Heard'
  <2>1. ASSUME a \in Others PROVE ListRight(a)'
    <3>1. list'[a] = Against(a) /\ list'[a] # "absent" /\ a \in online'
      BY <1>2, <1>3, <1>4, <1>5, <1>6, <2>1, Names DEF Types, Somebody
    <3>2. Against(a)' = Against(a)
      BY <1>3, ServerStays
    <3> QED  BY <3>1, <3>2 DEF ListRight
  <2>2. \A x \in Others \ {a} : list'[x] = list[x] /\ (x \in asked => x \in asked')
    BY <1>2, <1>3, Names DEF Types
  <2> QED  BY <1>1, <1>2, <2>1, <2>2, HeardOf
<1>9. Opposed'
  <2> SUFFICES ASSUME Busy(Me), opponent = Against(Me), watching = None
               PROVE  opponent' = Against(Me) /\ watching' = None
    BY <1>2, OpposedOn
  <2>1. seen = None
    BY <1>3 DEF Serving
  <2> QED  BY <1>2, <1>4, <1>5, <2>1
<1>10. Watches'
  <2>1. CASE a = Me
    BY <1>2, <1>5, <1>6, <2>1 DEF Watches
  <2>2. CASE a # Me
    <3>1. Coming({"who"}, Me) => Coming({"who"}, Me)'
      BY <1>1, <1>3, <2>2 DEF Coming, A
    <3> QED  BY <1>2, <1>3, <1>6, <2>2, <3>1 DEF Watches
  <2> QED  BY <2>1, <2>2
<1>11. Recording'
  <2>1. CASE tracker' = None
    BY <2>1 DEF Recording
  <2>2. CASE a = Me /\ w = watching /\ UNCHANGED <<opponent, watching, tracker>>
    BY <1>2, <1>3, <1>5, <1>6, <2>2 DEF Recording
  <2>3. CASE a # Me
    <3>1. Coming({"who"}, Me) => Coming({"who"}, Me)'
      BY <1>1, <1>3, <2>3 DEF Coming, A
    <3> QED  BY <1>2, <1>3, <1>6, <2>3, <3>1 DEF Recording
  <2> QED  BY <1>2, <2>1, <2>2, <2>3
<1>12. Booked'
  <2>1. \A x \in Others : Coming({"logout"}, x) => list'[x] = list[x]
    <3> SUFFICES ASSUME NEW x \in Others, Coming({"logout"}, x) PROVE list'[x] = list[x]
      OBVIOUS
    <3>1. x \notin online
      BY <1>3 DEF Coming, Truthful, True
    <3>2. x # a
      BY <1>4, <3>1, Names
    <3> QED  BY <1>2, <1>3, <3>2, Names DEF Types
  <2>2. Won => opponent' \in {opponent, None}
    <3>1. Won => ~Busy(Me)
      BY <1>3 DEF Won, Truthful, True
    <3>2. a = Me /\ ~Busy(Me) => o = None
      BY <1>3, <1>4, Playing
    <3> QED  BY <1>2, <3>1, <3>2
  <2> QED  BY <1>2, <2>1, <2>2, BookedOn DEF archive
<1> QED  BY <1>2, <1>7, <1>8, <1>9, <1>10, <1>11, <1>12, Kept

LEMMA LogoutStep == IInv /\ HandleLogout => IInv'
<1> SUFFICES ASSUME IInv, HandleLogout PROVE IInv'
  OBVIOUS
<1>1. PICK a : a = A
  OBVIOUS
<1>2. /\ Receive("logout") /\ list' = [list EXCEPT ![a] = "absent"]
      /\ \/ /\ list[a] \in Players /\ asked' = (asked \ {a}) \cup {list[a]}
            /\ SaveDrop(a, list[a])
         \/ list[a] \notin Players /\ asked' = asked \ {a} /\ UNCHANGED archive
      /\ \/ a \in {watching, opponent} /\ opponent' = None /\ watching' = None /\ tracker' = None
         \/ a \notin {watching, opponent} /\ UNCHANGED <<opponent, watching, tracker>>
      /\ saved' \subseteq saved \cup {a}
      /\ UNCHANGED <<board, boardAsked, alive>>
  BY <1>1 DEF HandleLogout, StopPlaying, Session
<1>3. /\ Types /\ Serving /\ Truthful /\ Booked
      /\ Head(lines).is = "logout" /\ True(Head(lines)) /\ Head(lines) \in Said
      /\ Said' \subseteq Said /\ Said \subseteq Said' \cup {Head(lines)}
      /\ \A l \in Said' : l.is # "logout"
      /\ lines' \in Seq(AnyLine) /\ UNCHANGED server
  BY <1>2, Received DEF Once
<1>4. a \in Others /\ a \notin online /\ a \in Players /\ online' = online /\ truth' = truth
  BY <1>1, <1>3, Names DEF True, A, server
<1>5. /\ list' \in [Players -> Players \cup {None, "absent"}] /\ asked' \subseteq Players
      /\ saved' \subseteq Others
  BY <1>2, <1>3, <1>4 DEF Types
<1>6. /\ booked' \in Ledger({"wins", "drops", "resumes"})
      /\ booked'["wins"] = booked["wins"]
      /\ list[a] \in Players => booked'["drops"][a] = booked["drops"][a] + 1
      /\ list[a] \notin Players => booked'["drops"][a] = booked["drops"][a]
      /\ \A z \in Players \ {a} : booked'["drops"][z] = booked["drops"][z]
      /\ droppers' \subseteq BOOLEAN \X Players \X Players
  <2>1. CASE list[a] \in Players /\ SaveDrop(a, list[a])
    BY <1>3, <1>4, <2>1, Dropped
  <2>2. CASE list[a] \notin Players /\ UNCHANGED archive
    BY <1>3, <1>4, <2>2 DEF Types, archive
  <2> QED  BY <1>2, <2>1, <2>2
<1>7. Types'
  BY <1>2, <1>3, <1>5, <1>6 DEF Types, server
<1>8. Heard'
  <2>1. ListRight(a)'
    BY <1>2, <1>3, <1>4 DEF ListRight, Types
  <2>2. \A x \in Others \ {a} : list'[x] = list[x] /\ (x \in asked => x \in asked')
    BY <1>2, <1>3, Names DEF Types
  <2> QED  BY <1>1, <1>2, <2>1, <2>2, HeardOf
<1>9. Opposed'
  <2> SUFFICES ASSUME Busy(Me), opponent = Against(Me), watching = None
               PROVE  opponent' = Against(Me) /\ watching' = None
    BY <1>2, OpposedOn
  <2>1. a # opponent /\ a # watching
    BY <1>3, <1>4, Playing, Names
  <2> QED  BY <1>2, <2>1
<1>10. Watches'
  BY <1>2, WatchesOn
<1>11. Recording'
  <2>1. CASE tracker' = None
    BY <2>1 DEF Recording
  <2>2. CASE UNCHANGED <<opponent, watching, tracker>>
    BY <1>2, <2>2, RecordingOn
  <2> QED  BY <1>2, <2>1, <2>2
<1>12. Booked'
  <2>1. \A x \in Others : /\ DropDue(x) <=> x = a /\ list[a] \in Players
                          /\ ~DropDue(x)'
    <3>1. \A l \in Said : l.is = "logout" => l = Head(lines)
      BY <1>3
    <3> QED  BY <1>1, <1>3, <3>1 DEF DropDue, Coming, A
  <2>2. \A x \in Others : WinDue(x)' <=> WinDue(x)
    BY <1>3 DEF WinDue
  <2>3. (Won' => Won) /\ (Left' => Left)
    BY <1>3 DEF Won, Left
  <2>4. opponent' \in {opponent, None}
    BY <1>2
  <2>5. Me # a
    BY <1>4, Names
  <2> QED  BY <1>3, <1>4, <1>6, <2>1, <2>2, <2>3, <2>4, <2>5, Names DEF Booked
<1> QED  BY <1>2, <1>7, <1>8, <1>9, <1>10, <1>11, <1>12, Kept

-----------------------------------------------------------------------------
(* The server.  Its lines, in the order in which they are sent.            *)
Elements(s) == {s[i] : i \in 1..Len(s)}
OnlyOnce(s) == \A i, j \in 1..Len(s) : s[i].is = s[j].is /\ s[i].is \in Once => i = j

LEMMA Ordered ==
  ASSUME NEW S, IsFiniteSet(S), NEW s \in SetToSeqs(S)
  PROVE  s \in Seq(S) /\ Elements(s) = S
<1> DEFINE n == Cardinality(S)
<1>1. n \in Nat /\ IsFiniteSet(1..n) /\ Cardinality(1..n) = n
  <2>1. n \in Nat
    BY FS_CardinalityType
  <2>2. IsFiniteSet(1..n) /\ Cardinality(1..n) = IF 1 > n THEN 0 ELSE n - 1 + 1
    BY <2>1, FS_Interval
  <2> QED  BY <2>1, <2>2
<1>2. s \in [1..n -> S] /\ \A i, j \in 1..n : i # j => s[i] # s[j]
  BY DEF SetToSeqs
<1>3. s \in Injection(1..n, S)
  BY <1>2 DEF Injection, IsInjective
<1> HIDE DEF n
<1>4. s \in Surjection(1..n, S)
  <2>1. Cardinality(1..n) = Cardinality(S)
    BY <1>1 DEF n
  <2> QED  BY <1>3, <2>1, FS_Injection
<1>5. s \in Seq(S) /\ Len(s) = n
  BY <1>1, <1>2
<1>6. \A x \in S : \E i \in 1..n : s[i] = x
  BY <1>4 DEF Surjection
<1> QED  BY <1>2, <1>5, <1>6 DEF Elements

LEMMA Joined ==
  ASSUME NEW S, NEW s \in Seq(S), NEW t \in Seq(S)
  PROVE  /\ s \o t \in Seq(S)
         /\ Elements(s \o t) = Elements(s) \cup Elements(t)
         /\ OnlyOnce(s) /\ (\A x \in Elements(t) : x.is \notin Once) => OnlyOnce(s \o t)
         /\ OnlyOnce(s) /\ (\A x \in Elements(t) : x.is \notin Once) => OnlyOnce(t \o s)
<1>1. /\ Len(s) \in Nat /\ Len(t) \in Nat
      /\ s \o t \in Seq(S) /\ Len(s \o t) = Len(s) + Len(t)
      /\ t \o s \in Seq(S) /\ Len(t \o s) = Len(t) + Len(s)
  BY ConcatProperties, LenProperties
<1>2. /\ \A i \in 1..Len(s) + Len(t) : (s \o t)[i] = IF i <= Len(s) THEN s[i] ELSE t[i - Len(s)]
      /\ \A i \in 1..Len(t) + Len(s) : (t \o s)[i] = IF i <= Len(t) THEN t[i] ELSE s[i - Len(t)]
  BY ConcatProperties
<1>3. Elements(s \o t) = Elements(s) \cup Elements(t)
  <2>1. ASSUME NEW i \in 1..Len(s) PROVE s[i] \in Elements(s \o t)
    <3>1. i \in 1..Len(s \o t) /\ (s \o t)[i] = s[i]
      BY <1>1, <1>2
    <3> QED  BY <3>1 DEF Elements
  <2>2. ASSUME NEW i \in 1..Len(t) PROVE t[i] \in Elements(s \o t)
    <3>1. i + Len(s) \in 1..Len(s \o t) /\ (s \o t)[i + Len(s)] = t[i]
      BY <1>1, <1>2
    <3> QED  BY <3>1 DEF Elements
  <2>3. ASSUME NEW i \in 1..Len(s \o t) PROVE (s \o t)[i] \in Elements(s) \cup Elements(t)
    <3>1. CASE i <= Len(s)
      BY <1>1, <1>2, <3>1 DEF Elements
    <3>2. CASE ~(i <= Len(s))
      <4>1. i - Len(s) \in 1..Len(t) /\ (s \o t)[i] = t[i - Len(s)]
        BY <1>1, <1>2, <3>2
      <4> QED  BY <4>1 DEF Elements
    <3> QED  BY <3>1, <3>2
  <2> QED  BY <2>1, <2>2, <2>3 DEF Elements
<1>4. ASSUME OnlyOnce(s), \A x \in Elements(t) : x.is \notin Once
      PROVE  OnlyOnce(s \o t) /\ OnlyOnce(t \o s)
  <2>1. \A i \in 1..Len(t) : t[i].is \notin Once
    BY <1>4 DEF Elements
  <2>2. ASSUME NEW i \in 1..Len(s \o t), NEW j \in 1..Len(s \o t),
               (s \o t)[i].is = (s \o t)[j].is, (s \o t)[i].is \in Once
        PROVE  i = j
    <3>1. \A k \in 1..Len(s \o t) : ~(k <= Len(s)) => (s \o t)[k].is \notin Once
      <4> SUFFICES ASSUME NEW k \in 1..Len(s \o t), ~(k <= Len(s))
                   PROVE  (s \o t)[k].is \notin Once
        OBVIOUS
      <4>1. k - Len(s) \in 1..Len(t) /\ (s \o t)[k] = t[k - Len(s)]
        BY <1>1, <1>2
      <4> QED  BY <2>1, <4>1
    <3>2. i <= Len(s) /\ j <= Len(s)
      BY <2>2, <3>1
    <3> QED  BY <1>1, <1>2, <1>4, <2>2, <3>2 DEF OnlyOnce
  <2>3. ASSUME NEW i \in 1..Len(t \o s), NEW j \in 1..Len(t \o s),
               (t \o s)[i].is = (t \o s)[j].is, (t \o s)[i].is \in Once
        PROVE  i = j
    <3>1. ~(i <= Len(t)) /\ ~(j <= Len(t))
      BY <1>1, <1>2, <2>1, <2>3
    <3>2. i - Len(t) = j - Len(t)
      BY <1>1, <1>2, <1>4, <2>3, <3>1 DEF OnlyOnce
    <3> QED  BY <1>1, <3>2
  <2> QED  BY <2>2, <2>3 DEF OnlyOnce
<1> QED  BY <1>1, <1>3, <1>4

LEMMA PlayingNext ==
  ASSUME Serving', NEW x
  PROVE  /\ Busy(x)' => Against(x)' \in Players \ {x}
         /\ ~Busy(x)' => Against(x)' = None
         /\ \A y : {x, y} \in playing' => Busy(x)' /\ Against(x)' = y
<1>1. (Busy(x)' <=> Has(playing', x)) /\ Against(x)' = Partner(playing', x)
  BY DEF Busy, Has, Against, Partner
<1>2. Matching(playing')
  BY DEF Serving
<1>3. \A y : {x, y} \in playing' => Busy(x)' /\ Against(x)' = y
  BY <1>1, <1>2, PartnerOf
<1> QED  BY <1>1, <1>2, <1>3, PartnerIn

LEMMA Told ==
  ASSUME IInv, Serving', NEW told \in Seq(AnyLine), OnlyOnce(told),
         NEW changed \in SUBSET Players, Event(told, changed)
  PROVE  /\ lines' \in Seq(AnyLine) /\ OnlyOnce(lines')
         /\ Said' = Elements(told) \cup {WhoInfo(x)' : x \in changed}
<1> DEFINE whoOf(x) == WhoInfo(x)'
           S == {whoOf(x) : x \in changed}
<1>1. PICK whos \in SetToSeqs(S) : lines' = told \o whos \/ lines' = whos \o told
  BY DEF Event
<1>2. IsFiniteSet(changed)
  <2>1. IsFiniteSet(Players)
    BY FiniteAssumption, FS_AddElement DEF Players
  <2> QED  BY <2>1, FS_Subset
<1>3. IsFiniteSet(S)
  <2> DEFINE f == [x \in changed |-> whoOf(x)]
  <2>1. f \in Surjection(changed, S)
    <3> HIDE DEF whoOf
    <3> QED  BY DEF Surjection
  <2> QED  BY <1>2, <2>1, FS_Surjection
<1>4. S \subseteq AnyLine /\ \A l \in S : l.is = "who"
  <2> SUFFICES ASSUME NEW x \in changed PROVE whoOf(x) \in AnyLine /\ whoOf(x).is = "who"
    OBVIOUS
  <2>1. whoOf(x) = [is |-> "who", a |-> x, b |-> <<Against(x)', Watched(x)'>>]
    BY DEF WhoInfo, Line
  <2>2. Against(x)' \in Somebody /\ Watched(x)' \in Somebody
    BY PlayingNext, Names DEF Somebody, Watched, Serving
  <2>3. "who" \in Kinds /\ x \in Players /\ <<Against(x)', Watched(x)'>> \in Somebody \X Somebody
    BY <2>2 DEF Kinds
  <2> QED  BY <2>1, <2>3 DEF AnyLine
<1>5. whos \in Seq(S) /\ Elements(whos) = S
  BY <1>1, <1>3, Ordered
<1> HIDE DEF S
<1>6. whos \in Seq(AnyLine) /\ \A l \in Elements(whos) : l.is \notin Once
  BY <1>4, <1>5, SeqMonotonic DEF Once
<1>7. /\ lines' \in Seq(AnyLine) /\ OnlyOnce(lines')
      /\ Elements(lines') = Elements(told) \cup S
  <2>1. CASE lines' = told \o whos
    BY <1>5, <1>6, <2>1, Joined
  <2>2. CASE lines' = whos \o told
    <3>1. whos \o told \in Seq(AnyLine) /\ Elements(whos \o told) = S \cup Elements(told)
      BY <1>5, <1>6, Joined
    <3>2. OnlyOnce(whos \o told)
      BY <1>6, Joined
    <3> QED  BY <2>2, <3>1, <3>2
  <2> QED  BY <1>1, <2>1, <2>2
<1>8. Said' = Elements(lines')
  BY DEF Said, Elements
<1> QED  BY <1>7, <1>8 DEF S

(* When everything the server has said is handled, there is nothing that   *)
(* a line could make up for.                                               *)
LEMMA AtRest ==
  ASSUME IInv, Quiet
  PROVE  /\ Types /\ Serving /\ Said = {} /\ Recording
         /\ \A x \in Others : ListRight(x)
         /\ Busy(Me) => opponent = Against(Me) /\ watching = None
         /\ watching # None => watching = seen
         /\ seen # None /\ watching = None => tracker = None
         /\ \A x \in Others :
              /\ booked["drops"][x] = truth["dropped"][x]
              /\ truth["finished"][x] <= booked["wins"][x]
              /\ booked["wins"][x] <= truth["finished"][x] + truth["mine"][x]
         /\ booked["drops"][Me] <= truth["broken"][Me]
         /\ booked["wins"][Me] <= truth["mine"][Me]
<1>1. /\ Types /\ Serving /\ alive /\ lines = <<>>
      /\ Truthful /\ Heard /\ Opposed /\ Watches /\ Recording /\ Booked
  BY DEF IInv, Quiet
<1>2. Said = {}
  <2>1. Len(lines) = 0
    BY <1>1
  <2> QED  BY <2>1 DEF Said
<1>3. \A x \in Others : ListRight(x)
  BY <1>1, <1>2 DEF Heard, Coming
<1>4. /\ Busy(Me) => opponent = Against(Me) /\ watching = None
      /\ watching # None => watching = seen
      /\ seen # None /\ watching = None => tracker = None
  BY <1>1, <1>2 DEF Opposed, Watches, Recording, Coming
<1>5. \A x \in Others : ~DropDue(x) /\ ~WinDue(x)
  BY <1>2 DEF DropDue, WinDue, Coming
<1> QED  BY <1>1, <1>2, <1>3, <1>4, <1>5 DEF Booked

(* An event: the lines tell the truth about what has changed, and nobody   *)
(* is forgotten whom it concerns.                                          *)
LEMMA EventStep ==
  ASSUME IInv, NEW told \in Seq(AnyLine), NEW changed \in SUBSET Players,
         Event(told, changed), OnlyOnce(told), Serving',
         truth' \in Ledger(Truths),
         changed \subseteq (online \cup {Me})',
         \A l \in Elements(told) : True(l)',
         \A l \in Elements(told) : Alone(l) => Elements(told) = {l} /\ changed = {},
         \A l, m \in Elements(told) : l.is = "winsMatch" => m.is # "finished",
         \A x \in Others \ changed :
           \/ /\ Against(x)' = Against(x) /\ (Busy(x)' <=> Busy(x))
              /\ x \in online' <=> x \in online
           \/ \E l \in Elements(told) : l.is \in {"login", "logout"} /\ l.a = x,
         Me \notin changed =>
           seen' = seen /\ Against(Me)' = Against(Me) /\ (Busy(Me)' <=> Busy(Me)),
         Me \in changed /\ Busy(Me)' =>
           \E l \in Elements(told) : l.is \in {"playing", "resuming"},
         Booked'
  PROVE  IInv'
<1>1. Quiet /\ UNCHANGED <<session, archive>>
  BY DEF Event
<1>2. /\ Types /\ Serving /\ Said = {} /\ Recording
      /\ \A x \in Others : ListRight(x)
      /\ Busy(Me) => opponent = Against(Me) /\ watching = None
      /\ watching # None => watching = seen
      /\ seen # None /\ watching = None => tracker = None
  BY <1>1, AtRest
<1>3. /\ lines' \in Seq(AnyLine) /\ OnlyOnce(lines')
      /\ Said' = Elements(told) \cup {WhoInfo(x)' : x \in changed}
  BY Told
<1>4. Types'
  BY <1>1, <1>2, <1>3 DEF Types, session, archive
<1>5. ASSUME NEW x \in changed
      PROVE  /\ WhoInfo(x)'.is = "who" /\ WhoInfo(x)'.a = x
             /\ WhoInfo(x)'.b = <<Against(x)', Watched(x)'>> /\ WhoInfo(x)' \in Said'
  BY <1>3 DEF WhoInfo, Line
<1>6. Truthful'
  <2>1. ASSUME NEW l \in Said' PROVE True(l)'
    <3>1. CASE l \in Elements(told)
      BY <3>1
    <3>2. ASSUME NEW x \in changed, l = WhoInfo(x)' PROVE True(l)'
      <4>1. l.is = "who" /\ l.a = x /\ l.b = <<Against(x)', Watched(x)'>> /\ x \in (online \cup {Me})'
        BY <1>5, <3>2
      <4> QED  BY <4>1 DEF True
    <3> QED  BY <1>3, <3>1, <3>2
  <2>2. ASSUME NEW l \in Said', Alone(l) PROVE Said' = {l}
    <3>1. l \in Elements(told)
      BY <1>3, <1>5, <2>2 DEF Alone
    <3> QED  BY <1>3, <2>2, <3>1
  <2>3. \A l, m \in Said' : l.is = "winsMatch" => m.is # "finished"
    BY <1>3, <1>5
  <2>4. \A l : Alone(l)' <=> Alone(l)
    BY DEF Alone
  <2> QED  BY <1>3, <2>1, <2>2, <2>3, <2>4 DEF Truthful, OnlyOnce
<1>7. Heard'
  <2> SUFFICES ASSUME NEW x \in Others
               PROVE  (ListRight(x) \/ Coming({"who", "login", "logout", "unknown"}, x))'
    BY DEF Heard
  <2>1. CASE x \in changed
    BY <1>5, <2>1 DEF Coming
  <2>2. CASE /\ x \notin changed /\ Against(x)' = Against(x) /\ (Busy(x)' <=> Busy(x))
             /\ x \in online' <=> x \in online
    BY <1>1, <1>2, <2>2 DEF ListRight, session
  <2>3. CASE \E l \in Elements(told) : l.is \in {"login", "logout"} /\ l.a = x
    BY <1>3, <2>3 DEF Coming
  <2> QED  BY <2>1, <2>2, <2>3
<1>8. Me \in changed => Coming({"who"}, Me)'
  BY <1>5 DEF Coming
<1>9. UNCHANGED <<opponent, watching, tracker, board>>
  BY <1>1 DEF session
<1>10. Opposed'
  BY <1>2, <1>3, <1>9 DEF Opposed
<1>11. Watches' /\ Recording'
  BY <1>2, <1>8, <1>9 DEF Watches, Recording
<1> QED  BY <1>4, <1>6, <1>7, <1>10, <1>11 DEF IInv

(* What an event adds to the truth, and what is booked.                    *)
LEMMA BookedAfter ==
  ASSUME IInv, Quiet, UNCHANGED <<booked, opponent>>,
         truth' \in Ledger(Truths),
         \A x \in Others :
           /\ DropDue(x)'  => truth'["dropped"][x] = truth["dropped"][x] + 1
           /\ ~DropDue(x)' => truth'["dropped"][x] = truth["dropped"][x]
           /\ WinDue(x)'  => truth'["finished"][x] = truth["finished"][x] + 1
           /\ ~WinDue(x)' => truth'["finished"][x] = truth["finished"][x]
           /\ truth["mine"][x] <= truth'["mine"][x]
           /\ Won' /\ x = opponent => truth["mine"][x] < truth'["mine"][x],
         truth["mine"][Me] <= truth'["mine"][Me],
         Won' => truth["mine"][Me] < truth'["mine"][Me],
         truth["broken"][Me] <= truth'["broken"][Me],
         Left' => truth["broken"][Me] < truth'["broken"][Me],
         Won' => \A x \in Others : ~WinDue(x)'
  PROVE  Booked'
<1>1. /\ Types
      /\ \A x \in Others :
              /\ booked["drops"][x] = truth["dropped"][x]
              /\ truth["finished"][x] <= booked["wins"][x]
              /\ booked["wins"][x] <= truth["finished"][x] + truth["mine"][x]
      /\ booked["drops"][Me] <= truth["broken"][Me]
      /\ booked["wins"][Me] <= truth["mine"][Me]
  BY AtRest
<1>2. /\ \A x \in Players : /\ booked["drops"][x] \in Nat /\ booked["wins"][x] \in Nat
                            /\ truth["finished"][x] \in Nat /\ truth["mine"][x] \in Nat
                            /\ truth["dropped"][x] \in Nat /\ truth["broken"][x] \in Nat
      /\ \A x \in Players : /\ truth'["finished"][x] \in Nat /\ truth'["mine"][x] \in Nat
                            /\ truth'["dropped"][x] \in Nat /\ truth'["broken"][x] \in Nat
  BY <1>1 DEF Types, Ledger, Truths
<1>3. ASSUME NEW x \in Others
      PROVE  /\ DropDue(x)'  => booked["drops"][x] + 1 = truth'["dropped"][x]
             /\ ~DropDue(x)' => booked["drops"][x] = truth'["dropped"][x]
             /\ WinDue(x)' => /\ truth'["finished"][x] <= booked["wins"][x] + 1
                              /\ booked["wins"][x] + 1 <= truth'["finished"][x] + truth'["mine"][x]
             /\ ~WinDue(x)' => /\ truth'["finished"][x] <= booked["wins"][x]
                               /\ booked["wins"][x] <= truth'["finished"][x] + truth'["mine"][x]
             /\ Won' /\ x = opponent => booked["wins"][x] < truth'["finished"][x] + truth'["mine"][x]
  BY <1>1, <1>2, Names
<1>4. /\ booked["drops"][Me] <= truth'["broken"][Me]
      /\ booked["wins"][Me] <= truth'["mine"][Me]
      /\ Left' => booked["drops"][Me] < truth'["broken"][Me]
      /\ Won' => booked["wins"][Me] < truth'["mine"][Me]
  BY <1>1, <1>2, Names
<1> QED  BY <1>3, <1>4 DEF Booked

(* How a match begins and ends. *)
LEMMA SamePlaying ==
  ASSUME playing' = playing, NEW x
  PROVE  Against(x)' = Against(x) /\ (Busy(x)' <=> Busy(x))
BY DEF Against, Busy

LEMMA MatchBegins ==
  ASSUME Serving, NEW x \in Players, NEW y \in Players, x # y, ~Busy(x), ~Busy(y),
         {x, y} \subseteq online \cup {Me}, online' = online,
         playing' = playing \cup {{x, y}}, seen' \in {seen, None},
         Me \in {x, y} => seen' = None
  PROVE  /\ Serving' /\ Busy(x)' /\ Busy(y)' /\ Against(x)' = y /\ Against(y)' = x
         /\ \A z : z \notin {x, y} => Against(z)' = Against(z) /\ (Busy(z)' <=> Busy(z))
<1>1. \A m \in playing : x \notin m /\ y \notin m
  BY DEF Busy
<1>2. Matching(playing) /\ Matching(playing')
  <2>1. Matching(playing)
    BY DEF Serving
  <2>2. \A m \in playing' : \E v, w \in Players : v # w /\ m = {v, w}
    BY <2>1 DEF Matching
  <2>3. ASSUME NEW m \in playing', NEW n \in playing', m \cap n # {} PROVE m = n
    <3>1. \A k \in playing : k \cap {x, y} = {}
      BY <1>1
    <3>2. CASE m \in playing /\ n \in playing
      BY <2>1, <2>3, <3>2 DEF Matching
    <3>3. CASE m = {x, y} \/ n = {x, y}
      BY <2>3, <3>1, <3>3
    <3> QED  BY <3>2, <3>3
  <2> QED  BY <2>1, <2>2, <2>3 DEF Matching
<1>3. \A z : (Busy(z)' <=> Has(playing', z)) /\ Against(z)' = Partner(playing', z)
  BY DEF Busy, Has, Against, Partner
<1>4. \A z : (Busy(z) <=> Has(playing, z)) /\ Against(z) = Partner(playing, z)
  BY DEF Busy, Has, Against, Partner
<1>5. Busy(x)' /\ Busy(y)' /\ Against(x)' = y /\ Against(y)' = x
  <2>1. {x, y} \in playing' /\ {y, x} = {x, y}
    OBVIOUS
  <2>2. \A u, v : {u, v} \in playing' => Has(playing', u) /\ Partner(playing', u) = v
    <3>1. PICK Q : Q = playing'
      OBVIOUS
    <3>2. Matching(Q)
      BY <1>2, <3>1
    <3>3. \A u, v : {u, v} \in Q => Has(Q, u) /\ Partner(Q, u) = v
      BY <3>2, PartnerOf, Zenon
    <3> QED  BY <3>1, <3>3
  <2>3. Has(playing', x) /\ Partner(playing', x) = y
    BY <2>1, <2>2
  <2>4. Has(playing', y) /\ Partner(playing', y) = x
    BY <2>1, <2>2
  <2> QED  BY <1>3, <2>3, <2>4
<1>6. ASSUME NEW z, z \notin {x, y} PROVE Against(z)' = Against(z) /\ (Busy(z)' <=> Busy(z))
  <2>1. \A u : {z, u} \in playing <=> {z, u} \in playing'
    BY <1>6
  <2> QED  BY <1>2, <1>3, <1>4, <2>1, PartnerSame
<1>7. Serving'
  <2>1. \A m \in playing' : m \subseteq (online \cup {Me})'
    BY DEF Serving
  <2>2. online' \subseteq Others /\ seen' \in online' \cup {None}
    BY DEF Serving
  <2>3. Busy(Me)' => seen' = None
    BY <1>6 DEF Serving
  <2> QED  BY <1>2, <2>1, <2>2, <2>3 DEF Serving
<1> QED  BY <1>5, <1>6, <1>7

LEMMA MatchEnds ==
  ASSUME Serving, NEW x, NEW y, {x, y} \in playing, playing' = playing \ {{x, y}},
         online' \subseteq online, \A m \in playing' : m \subseteq (online \cup {Me})',
         seen' \in {seen, None}, seen' \in (online \cup {None})'
  PROVE  /\ Serving' /\ ~Busy(x)' /\ ~Busy(y)' /\ Against(x)' = None /\ Against(y)' = None
         /\ \A z : z \notin {x, y} => Against(z)' = Against(z) /\ (Busy(z)' <=> Busy(z))
<1>1. Matching(playing) /\ Matching(playing')
  BY DEF Serving, Matching
<1>2. \A z : (Busy(z)' <=> Has(playing', z)) /\ Against(z)' = Partner(playing', z)
  BY DEF Busy, Has, Against, Partner
<1>3. \A z : (Busy(z) <=> Has(playing, z)) /\ Against(z) = Partner(playing, z)
  BY DEF Busy, Has, Against, Partner
<1>4. ASSUME NEW z \in {x, y} PROVE ~Busy(z)'
  <2> SUFFICES ASSUME NEW m \in playing', z \in m PROVE FALSE
    BY DEF Busy
  <2>1. m \in playing /\ m \cap {x, y} # {}
    BY <1>4
  <2> QED  BY <1>1, <2>1 DEF Matching
<1>5. Against(x)' = None /\ Against(y)' = None
  BY <1>4 DEF Against
<1>6. ASSUME NEW z, z \notin {x, y} PROVE Against(z)' = Against(z) /\ (Busy(z)' <=> Busy(z))
  <2>1. \A u : {z, u} \in playing <=> {z, u} \in playing'
    BY <1>6
  <2> QED  BY <1>1, <1>2, <1>3, <2>1, PartnerSame
<1>7. Serving'
  <2>1. Busy(Me)' => seen' = None
    BY <1>4, <1>6 DEF Serving
  <2>2. online' \subseteq Others
    BY DEF Serving
  <2> QED  BY <1>1, <2>1, <2>2 DEF Serving
<1> QED  BY <1>4, <1>5, <1>6, <1>7

(* The lines of an event. *)
LEMMA LineIs ==
  ASSUME NEW is \in Kinds, NEW a \in Players, NEW b \in Somebody
  PROVE  /\ Line(is, a, b) \in AnyLine
         /\ Line(is, a, b).is = is /\ Line(is, a, b).a = a /\ Line(is, a, b).b = b
BY DEF Line, AnyLine

LEMMA NoLine ==
  /\ <<>> \in Seq(AnyLine) /\ Elements(<<>>) = {} /\ OnlyOnce(<<>>)
<1>1. <<>> \in Seq(AnyLine) /\ Len(<<>>) = 0
  BY EmptySeq
<1> QED  BY <1>1 DEF Elements, OnlyOnce

LEMMA OneLine ==
  ASSUME NEW l \in AnyLine
  PROVE  <<l>> \in Seq(AnyLine) /\ Elements(<<l>>) = {l} /\ OnlyOnce(<<l>>)
<1>1. <<l>> \in Seq(AnyLine) /\ Len(<<l>>) = 1 /\ <<l>>[1] = l
  OBVIOUS
<1>2. \A i \in 1..1 : i = 1
  OBVIOUS
<1>3. 1 \in 1..1
  OBVIOUS
<1> QED  BY <1>1, <1>2, <1>3 DEF Elements, OnlyOnce

LEMMA TwoLines ==
  ASSUME NEW l \in AnyLine, NEW m \in AnyLine, l.is # m.is
  PROVE  <<l, m>> \in Seq(AnyLine) /\ Elements(<<l, m>>) = {l, m} /\ OnlyOnce(<<l, m>>)
<1>1. <<l, m>> \in Seq(AnyLine) /\ Len(<<l, m>>) = 2 /\ <<l, m>>[1] = l /\ <<l, m>>[2] = m
  OBVIOUS
<1>2. \A i \in 1..2 : i = 1 \/ i = 2
  OBVIOUS
<1>3. 1 \in 1..2 /\ 2 \in 1..2
  OBVIOUS
<1> QED  BY <1>1, <1>2, <1>3 DEF Elements, OnlyOnce

LEMMA Counted ==
  ASSUME Types, NEW new, Count(new)
  PROVE  /\ truth' \in Ledger(Truths)
         /\ \A k \in Truths : \A x \in Players :
              /\ truth[k][x] \in Nat
              /\ k \in DOMAIN new /\ x \in new[k] => truth'[k][x] = truth[k][x] + 1
              /\ ~(k \in DOMAIN new /\ x \in new[k]) => truth'[k][x] = truth[k][x]
<1>1. /\ DOMAIN truth = Truths /\ \A k \in Truths : \A x \in Players : truth[k][x] \in Nat
  BY DEF Types, Ledger
<1>2. truth' = [k \in Truths |-> [x \in Players |->
                  truth[k][x] + IF k \in DOMAIN new /\ x \in new[k] THEN 1 ELSE 0]]
  BY <1>1 DEF Count
<1>3. \A k \in Truths : \A x \in Players :
        truth'[k][x] = truth[k][x] + IF k \in DOMAIN new /\ x \in new[k] THEN 1 ELSE 0
  BY <1>2
<1>4. ASSUME NEW k \in Truths PROVE truth'[k] \in [Players -> Nat]
  <2>1. \A x \in Players : (truth[k][x] + IF k \in DOMAIN new /\ x \in new[k] THEN 1 ELSE 0) \in Nat
    BY <1>1
  <2> QED  BY <1>2, <2>1
<1>5. truth' \in Ledger(Truths)
  BY <1>2, <1>4 DEF Ledger
<1>6. \A k \in Truths : \A x \in Players :
        /\ k \in DOMAIN new /\ x \in new[k] => truth'[k][x] = truth[k][x] + 1
        /\ ~(k \in DOMAIN new /\ x \in new[k]) => truth'[k][x] = truth[k][x]
  BY <1>1, <1>3
<1> QED  BY <1>1, <1>5, <1>6

(* An event that is of no consequence to the reliability. *)
LEMMA NothingBooked ==
  ASSUME IInv, Serving', NEW told \in Seq(AnyLine), OnlyOnce(told),
         NEW changed \in SUBSET Players, Event(told, changed),
         \A l \in Elements(told) : l.is \notin {"logout", "finished", "winsMatch", "left"},
         truth' = truth
  PROVE  Booked' /\ truth' \in Ledger(Truths)
<1>1. Quiet /\ UNCHANGED <<booked, opponent>> /\ Types
  BY DEF Event, session, archive, IInv
<1>2. \A l \in Said' : l.is \notin {"logout", "finished", "winsMatch", "left"}
  BY Told DEF WhoInfo, Line
<1>3. /\ \A x \in Others : ~DropDue(x)' /\ ~WinDue(x)'
      /\ ~Won' /\ ~Left'
  BY <1>2 DEF DropDue, WinDue, Won, Left, Coming
<1>4. truth' \in Ledger(Truths)
  BY <1>1 DEF Types
<1>5. /\ \A x \in Players : truth["mine"][x] <= truth["mine"][x]
      /\ truth["broken"][Me] <= truth["broken"][Me]
  <2>1. truth["mine"] \in [Players -> Nat] /\ truth["broken"] \in [Players -> Nat]
    BY <1>1 DEF Types, Ledger, Truths
  <2>2. \A x \in Players : truth["mine"][x] \in Nat /\ truth["broken"][x] \in Nat
    BY <2>1
  <2> QED  BY <2>2, Names
<1> QED  BY <1>1, <1>3, <1>4, <1>5, Names, BookedAfter

LEMMA LogsInStep ==
  ASSUME IInv, NEW x \in Others, LogsIn(x)
  PROVE  IInv'
<1>1. PICK l : l = Line("login", x, None)
  OBVIOUS
<1>2. /\ x \notin online /\ online' = online \cup {x}
      /\ UNCHANGED <<playing, suspended, seen, truth>> /\ Event(<<l>>, {})
  BY <1>1 DEF LogsIn
<1>3. /\ l \in AnyLine /\ l.is = "login" /\ l.a = x
  BY <1>1, LineIs, Names DEF Kinds, Somebody
<1>4. <<l>> \in Seq(AnyLine) /\ Elements(<<l>>) = {l} /\ OnlyOnce(<<l>>)
  BY <1>3, OneLine
<1>5. /\ Types /\ Serving /\ ListRight(x) /\ UNCHANGED list
  BY <1>2, AtRest DEF Event, session
<1>6. \A z : Against(z)' = Against(z) /\ (Busy(z)' <=> Busy(z))
  BY <1>2, SamePlaying
<1>7. Serving'
  BY <1>2, <1>5, <1>6 DEF Serving
<1>8. list'[x] = "absent" /\ ~Busy(x)'
  BY <1>2, <1>5, <1>6, Playing, Names DEF ListRight
<1>9. True(l)'
  BY <1>2, <1>3, <1>8 DEF True
<1>10. Booked' /\ truth' \in Ledger(Truths)
  <2>1. \A m \in Elements(<<l>>) : m.is \notin {"logout", "finished", "winsMatch", "left"}
    BY <1>3, <1>4
  <2>2. {} \in SUBSET Players
    OBVIOUS
  <2> QED  BY <1>2, <1>4, <1>7, <2>1, <2>2, NothingBooked
<1> HIDE DEF True, ListRight
<1> QED  BY <1>2, <1>3, <1>4, <1>6, <1>7, <1>9, <1>10, EventStep

LEMMA IWatchStep ==
  ASSUME IInv, NEW x \in Others, IWatch(x)
  PROVE  IInv'
<1>1. PICK l : l = Line("watching", x, None)
  OBVIOUS
<1>2. /\ x \in online /\ ~Busy(Me) /\ seen' = x
      /\ UNCHANGED <<online, playing, suspended, truth>> /\ Event(<<l>>, {Me})
  BY <1>1 DEF IWatch
<1>3. /\ l \in AnyLine /\ l.is = "watching" /\ l.a = x
  BY <1>1, LineIs, Names DEF Kinds, Somebody
<1>4. <<l>> \in Seq(AnyLine) /\ Elements(<<l>>) = {l} /\ OnlyOnce(<<l>>)
  BY <1>3, OneLine
<1>5. \A z : Against(z)' = Against(z) /\ (Busy(z)' <=> Busy(z))
  BY <1>2, SamePlaying
<1>6. Serving'
  BY <1>2, <1>5 DEF Serving, IInv
<1>7. True(l)' /\ {Me} \in SUBSET Players
  BY <1>2, <1>3, <1>5, Names DEF True
<1>8. Booked' /\ truth' \in Ledger(Truths)
  BY <1>2, <1>3, <1>4, <1>5, <1>6, <1>7, NothingBooked
<1>9. \A m \in Elements(<<l>>) : ~Alone(m)
  BY <1>3, <1>4 DEF Alone
<1> QED  BY <1>2, <1>3, <1>4, <1>5, <1>6, <1>7, <1>8, <1>9, EventStep

LEMMA IUnwatchStep == IInv /\ IUnwatch => IInv'
<1> SUFFICES ASSUME IInv, IUnwatch PROVE IInv'
  OBVIOUS
<1>1. PICK l : l = Line("unwatched", seen, None)
  OBVIOUS
<1>2. /\ seen # None /\ seen' = None
      /\ UNCHANGED <<online, playing, suspended, truth>> /\ Event(<<l>>, {Me})
  BY <1>1 DEF IUnwatch
<1>3. seen \in Players
  BY <1>2, Names DEF Serving, IInv
<1>4. /\ l \in AnyLine /\ l.is = "unwatched"
  BY <1>1, <1>3, LineIs, Names DEF Kinds, Somebody
<1>5. <<l>> \in Seq(AnyLine) /\ Elements(<<l>>) = {l} /\ OnlyOnce(<<l>>)
  BY <1>4, OneLine
<1>6. \A z : Against(z)' = Against(z) /\ (Busy(z)' <=> Busy(z))
  BY <1>2, SamePlaying
<1>7. Serving'
  BY <1>2, <1>6 DEF Serving, IInv
<1>8. True(l)' /\ {Me} \in SUBSET Players
  BY <1>4, Names DEF True
<1>9. Booked' /\ truth' \in Ledger(Truths)
  BY <1>2, <1>4, <1>5, <1>6, <1>7, <1>8, NothingBooked
<1>10. ~Busy(Me)'
  BY <1>2, <1>6 DEF Serving, IInv
<1>11. \A m \in Elements(<<l>>) : ~Alone(m)
  BY <1>4, <1>5 DEF Alone
<1> QED  BY <1>2, <1>4, <1>5, <1>6, <1>7, <1>8, <1>9, <1>10, <1>11, EventStep

(* The match I play or watch: who is on the board. *)
LEMMA OnTheBoard ==
  ASSUME Serving, NEW x, x = IF Busy(Me) THEN Me ELSE seen, x # None, Against(x) # None
  PROVE  /\ x \in Players /\ Against(x) \in Players
         /\ ~Busy(Me) => x = seen /\ x \in Others /\ Against(x) \in Others
<1>1. x \in Players
  BY Names DEF Serving
<1>2. Busy(x) /\ Against(x) \in Players /\ {x, Against(x)} \in playing
  BY Playing
<1>3. ~Busy(Me) => x = seen /\ x \in Others
  BY Names DEF Serving
<1>4. ~Busy(Me) => Against(x) # Me
  BY <1>2 DEF Busy
<1> QED  BY <1>1, <1>2, <1>3, <1>4 DEF Players

LEMMA TurnStep == IInv /\ Turn => IInv'
<1> SUFFICES ASSUME IInv, Turn PROVE IInv'
  OBVIOUS
<1>1. PICK x, y : x = (IF Busy(Me) THEN Me ELSE seen) /\ y = Against(x)
  OBVIOUS
<1>2. PICK l \in {Line("acts", x, None), Line("acts", y, None), Line("board", x, y)} :
        Event(<<l>>, {})
  BY <1>1 DEF Turn
<1>3. /\ x # None /\ y # None
      /\ UNCHANGED <<online, playing, suspended, seen, truth>>
  BY <1>1 DEF Turn
<1>4. /\ x \in Players /\ y \in Players
      /\ ~Busy(Me) => x = seen /\ x \in Others /\ y \in Others
  BY <1>1, <1>3, OnTheBoard DEF IInv
<1>5. /\ l \in AnyLine /\ l.is \in {"acts", "board"}
      /\ l.is = "board" => l.a = x /\ l.b = y
  BY <1>2, <1>4, LineIs, Names DEF Kinds, Somebody
<1>6. <<l>> \in Seq(AnyLine) /\ Elements(<<l>>) = {l} /\ OnlyOnce(<<l>>)
  BY <1>5, OneLine
<1>7. \A z : Against(z)' = Against(z) /\ (Busy(z)' <=> Busy(z))
  BY <1>3, SamePlaying
<1>8. Serving'
  BY <1>3, <1>7 DEF Serving, IInv
<1>9. True(l)'
  <2>1. l.is = "board" => IF Busy(Me)' THEN l.a = Me /\ l.b = Against(Me)'
                          ELSE l.a = seen' /\ l.b \in Others /\ l.b = Against(seen)'
    <3>1. Against(seen)' = Against(seen) /\ Against(Me)' = Against(Me) /\ (Busy(Me)' <=> Busy(Me))
      BY <1>3, <1>7 DEF Against
    <3> QED  BY <1>1, <1>3, <1>4, <1>5, <3>1
  <2> QED  BY <1>5, <2>1 DEF True
<1>10. Booked' /\ truth' \in Ledger(Truths)
  BY <1>2, <1>3, <1>5, <1>6, <1>7, <1>8, NothingBooked
<1> QED  BY <1>2, <1>3, <1>5, <1>6, <1>7, <1>8, <1>9, <1>10, EventStep

(* A reply is a line that tells the truth. *)
LEMMA ReplyStep ==
  ASSUME IInv, NEW l \in AnyLine, l.is \in {"who", "unknown", "board"},
         Quiet, lines' = <<l>>, boardAsked' \in BOOLEAN,
         UNCHANGED <<opponent, watching, tracker, board, list, saved, asked, alive, archive, server>>,
         True(l)
  PROVE  IInv'
<1>1. /\ Types /\ Serving /\ Said = {} /\ Recording
      /\ \A x \in Others : ListRight(x)
      /\ Busy(Me) => opponent = Against(Me) /\ watching = None
      /\ watching # None => watching = seen
      /\ seen # None /\ watching = None => tracker = None
      /\ Booked
  BY AtRest DEF IInv, Quiet
<1>2. UNCHANGED <<online, playing, seen, truth, booked, droppers>>
  BY DEF server, archive
<1>3. \A x : Against(x)' = Against(x) /\ (Busy(x)' <=> Busy(x)) /\ Watched(x)' = Watched(x)
  BY <1>2, SamePlaying DEF Watched
<1>4. <<l>> \in Seq(AnyLine) /\ Elements(<<l>>) = {l} /\ OnlyOnce(<<l>>)
  BY OneLine
<1>5. Said' = {l} /\ OnlyOnce(lines') /\ lines' \in Seq(AnyLine)
  BY <1>4 DEF Said, Elements
<1>6. Types'
  BY <1>1, <1>2, <1>5 DEF Types
<1>7. Serving'
  BY <1>1, <1>2, <1>3 DEF Serving
<1>8. True(l)'
  <2>1. Against(seen)' = Against(seen)
    BY <1>2, <1>3 DEF Against
  <2> QED  BY <1>2, <1>3, <2>1 DEF True
<1>9. Truthful'
  BY <1>5, <1>8 DEF Truthful, OnlyOnce
<1>10. Heard'
  BY <1>1, <1>2, <1>3 DEF Heard, ListRight
<1>11. Opposed' /\ Watches' /\ Recording'
  BY <1>1, <1>2, <1>3 DEF Opposed, Watches, Recording
<1>12. Booked'
  <2>1. \A x \in Others : DropDue(x)' = DropDue(x) /\ WinDue(x)' = WinDue(x)
    BY <1>1, <1>5 DEF DropDue, WinDue, Coming
  <2>2. ~Won' /\ ~Left'
    BY <1>5 DEF Won, Left
  <2> QED  BY <1>1, <1>2, <1>3, <2>1, <2>2 DEF Booked
<1> QED  BY <1>6, <1>7, <1>9, <1>10, <1>11, <1>12 DEF IInv

LEMMA ReplyWhoStep ==
  ASSUME IInv, NEW x \in Players, ReplyWho(x)
  PROVE  IInv'
<1>1. PICK l : l = IF x \in online \cup {Me} THEN WhoInfo(x) ELSE Line("unknown", x, None)
  OBVIOUS
<1>2. /\ Quiet /\ lines' = <<l>>
      /\ UNCHANGED <<opponent, watching, tracker, board, list, saved, asked, alive, archive, server>>
      /\ UNCHANGED boardAsked
  BY <1>1 DEF ReplyWho, Reply
<1>3. /\ l.is \in {"who", "unknown"} /\ l.a = x
      /\ l.is = "who" => x \in online \cup {Me} /\ l.b = <<Against(x), Watched(x)>>
      /\ l.is = "unknown" => x \notin online \cup {Me} /\ l.b = None
      /\ l = [is |-> l.is, a |-> l.a, b |-> l.b]
  BY <1>1 DEF WhoInfo, Line
<1>4. Against(x) \in Somebody /\ Watched(x) \in Somebody
  BY Playing, Names DEF IInv, Serving, Somebody, Watched
<1>5. l \in AnyLine
  <2>1. l.b \in Somebody \cup (Somebody \X Somebody) /\ l.is \in Kinds /\ l.a \in Players
    BY <1>3, <1>4 DEF Somebody, Kinds
  <2> QED  BY <1>3, <2>1 DEF AnyLine
<1>6. True(l)
  BY <1>3, Names DEF True, Players
<1>7. boardAsked' \in BOOLEAN
  BY <1>2 DEF IInv, Types
<1> QED  BY <1>2, <1>3, <1>5, <1>6, <1>7, ReplyStep

LEMMA ReplyBoardStep == IInv /\ ReplyBoard => IInv'
<1> SUFFICES ASSUME IInv, ReplyBoard PROVE IInv'
  OBVIOUS
<1>1. PICK x : x = IF Busy(Me) THEN Me ELSE seen
  OBVIOUS
<1>2. boardAsked' = FALSE
  BY DEF ReplyBoard
<1>3. CASE x # None /\ Against(x) # None
  <2>1. PICK l : l = Line("board", x, Against(x))
    OBVIOUS
  <2>2. /\ Quiet /\ lines' = <<l>>
        /\ UNCHANGED <<opponent, watching, tracker, board, list, saved, asked, alive, archive, server>>
    BY <1>1, <1>3, <2>1 DEF ReplyBoard, Reply
  <2>3. /\ x \in Players /\ Against(x) \in Players
        /\ ~Busy(Me) => x = seen /\ x \in Others /\ Against(x) \in Others
    BY <1>1, <1>3, OnTheBoard DEF IInv
  <2>4. l \in AnyLine /\ l.is = "board" /\ l.a = x /\ l.b = Against(x)
    BY <2>1, <2>3, LineIs DEF Kinds, Somebody
  <2>5. True(l)
    BY <1>1, <2>3, <2>4 DEF True
  <2> QED  BY <1>2, <2>2, <2>4, <2>5, ReplyStep
<1>4. CASE ~(x # None /\ Against(x) # None)
  <2>1. /\ UNCHANGED <<opponent, watching, tracker, board, list, saved, asked, alive,
                       archive, lines, server>>
    BY <1>1, <1>4 DEF ReplyBoard
  <2>2. Types'
    BY <1>2, <2>1 DEF IInv, Types, server, archive
  <2>3. UNCHANGED <<online, playing, seen, truth, booked>>
    BY <2>1 DEF server, archive
  <2>4. /\ Serving' <=> Serving
        /\ \A z : Against(z)' = Against(z) /\ (Busy(z)' <=> Busy(z)) /\ Watched(z)' = Watched(z)
    BY <2>3, SamePlaying DEF Serving, Busy, Watched
  <2>5. Said' = Said /\ Against(seen)' = Against(seen)
    <3>1. Said' = Said
      BY <2>1 DEF Said
    <3>2. Against(seen)' = Against(seen)
      BY <2>3, <2>4 DEF Against
    <3> QED  BY <3>1, <3>2
  <2>6. \A l : (True(l)' <=> True(l)) /\ (Alone(l)' <=> Alone(l))
    BY <2>1, <2>3, <2>4, <2>5 DEF True, Alone
  <2>7. Truthful' <=> Truthful
    BY <2>1, <2>5, <2>6 DEF Truthful, Once
  <2>8. (Heard' <=> Heard) /\ (Opposed' <=> Opposed) /\ (Watches' <=> Watches)
        /\ (Recording' <=> Recording)
    BY <2>1, <2>3, <2>4, <2>5 DEF Heard, ListRight, Coming, Opposed, Watches, Recording
  <2>9. Booked' <=> Booked
    BY <2>1, <2>3, <2>4, <2>5 DEF Booked, DropDue, WinDue, Won, Left, Coming
  <2> QED  BY <2>1, <2>2, <2>4, <2>7, <2>8, <2>9 DEF IInv
<1> QED  BY <1>3, <1>4

LEMMA BeginStep ==
  ASSUME IInv, NEW x \in Players, NEW y \in Players, Begin(x, y)
  PROVE  IInv'
<1>1. PICK l : l = Line("resumed", x, y)
  OBVIOUS
<1>2. /\ x # y /\ {x, y} \subseteq Others \cap online /\ ~Busy(x) /\ ~Busy(y)
      /\ playing' = playing \cup {{x, y}} /\ UNCHANGED <<online, seen, truth>>
      /\ Event(<<>>, {x, y}) \/ Event(<<l>>, {x, y})
  BY <1>1 DEF Begin
<1>3. x # Me /\ y # Me /\ x \in Others /\ y \in Others
  BY <1>2, Names
<1>4. /\ Serving' /\ Against(x)' = y /\ Against(y)' = x
      /\ \A z : z \notin {x, y} => Against(z)' = Against(z) /\ (Busy(z)' <=> Busy(z))
  BY <1>2, <1>3, MatchBegins DEF IInv
<1>5. Against(Me)' = Against(Me) /\ (Busy(Me)' <=> Busy(Me))
  BY <1>3, <1>4
<1>6. PICK told : /\ told \in {<<>>, <<l>>} /\ Event(told, {x, y})
  BY <1>2
<1>7. l \in AnyLine /\ l.is = "resumed" /\ l.a = x /\ l.b = y
  BY <1>1, LineIs, Names DEF Kinds, Somebody
<1>8. told \in Seq(AnyLine) /\ OnlyOnce(told) /\ Elements(told) \subseteq {l}
  BY <1>6, <1>7, NoLine, OneLine
<1>9. \A m \in Elements(told) : m.is \notin {"logout", "finished", "winsMatch", "left"}
  BY <1>7, <1>8
<1>10. Booked' /\ truth' \in Ledger(Truths)
  BY <1>2, <1>4, <1>6, <1>8, <1>9, NothingBooked
<1>11. \A m \in Elements(told) : True(m)' /\ ~Alone(m) /\ m.is # "winsMatch"
  BY <1>3, <1>7, <1>8 DEF True, Alone
<1>12. {x, y} \subseteq (online \cup {Me})' /\ seen' = seen /\ online' = online
  BY <1>2
<1> QED  BY <1>3, <1>4, <1>5, <1>6, <1>8, <1>10, <1>11, <1>12, EventStep

LEMMA IBeginStep ==
  ASSUME IInv, NEW y \in Others, IBegin(y)
  PROVE  IInv'
<1>1. PICK stop, p, b, r, t1, t2 :
        /\ stop = IF seen = None THEN <<>> ELSE <<Line("unwatched", seen, None)>>
        /\ p = Line("playing", y, None) /\ b = Line("board", Me, y)
        /\ r = Line("resuming", y, None) /\ t1 = <<p, b>> /\ t2 = <<r>>
  OBVIOUS
<1>2. /\ y \in online /\ ~Busy(Me) /\ ~Busy(y)
      /\ playing' = playing \cup {{Me, y}}
      /\ seen' = None /\ UNCHANGED <<online, truth>>
      /\ Event(stop \o t1, {Me, y}) \/ Event(stop \o t2, {Me, y})
  BY <1>1 DEF IBegin
<1>3. y # Me /\ y \in Players /\ Me \in Players
  BY Names
<1>4. /\ Serving' /\ Busy(Me)' /\ Against(Me)' = y /\ Against(y)' = Me
      /\ \A z : z \notin {Me, y} => Against(z)' = Against(z) /\ (Busy(z)' <=> Busy(z))
  BY <1>2, <1>3, MatchBegins DEF IInv
<1>5. /\ stop \in Seq(AnyLine) /\ OnlyOnce(stop)
      /\ \A l \in Elements(stop) : l.is = "unwatched"
  <2>1. CASE seen = None
    BY <1>1, <2>1, NoLine
  <2>2. CASE seen # None
    <3>1. PICK u : u = Line("unwatched", seen, None)
      OBVIOUS
    <3>2. seen \in Players
      BY <2>2, Names DEF IInv, Serving
    <3>3. u \in AnyLine /\ u.is = "unwatched"
      BY <3>1, <3>2, LineIs, Names DEF Kinds, Somebody
    <3>4. <<u>> \in Seq(AnyLine) /\ Elements(<<u>>) = {u} /\ OnlyOnce(<<u>>)
      BY <3>3, OneLine
    <3> QED  BY <1>1, <2>2, <3>1, <3>3, <3>4
  <2> QED  BY <2>1, <2>2
<1>6. /\ p \in AnyLine /\ p.is = "playing" /\ p.a = y
      /\ b \in AnyLine /\ b.is = "board" /\ b.a = Me /\ b.b = y
      /\ r \in AnyLine /\ r.is = "resuming" /\ r.a = y
  BY <1>1, <1>3, LineIs, Names DEF Kinds, Somebody
<1>7. /\ t1 \in Seq(AnyLine) /\ Elements(t1) = {p, b}
      /\ t2 \in Seq(AnyLine) /\ Elements(t2) = {r}
  BY <1>1, <1>6, OneLine, TwoLines
<1>8. PICK told : /\ told = stop \o t1 \/ told = stop \o t2
                  /\ Event(told, {Me, y})
  BY <1>2
<1>9. /\ told \in Seq(AnyLine) /\ OnlyOnce(told)
      /\ \/ Elements(told) = Elements(stop) \cup {p, b}
         \/ Elements(told) = Elements(stop) \cup {r}
  <2>1. \A l \in {p, b, r} : l.is \notin Once
    BY <1>6 DEF Once
  <2>2. CASE told = stop \o t1
    BY <1>5, <1>7, <2>1, <2>2, Joined
  <2>3. CASE told = stop \o t2
    BY <1>5, <1>7, <2>1, <2>3, Joined
  <2> QED  BY <1>8, <2>2, <2>3
<1>10. \A l \in Elements(told) :
         /\ l.is \in {"unwatched", "playing", "board", "resuming"}
         /\ l.is \in {"playing", "resuming"} => l.a = y
         /\ l.is = "board" => l.a = Me /\ l.b = y
  BY <1>5, <1>6, <1>9
<1>11. \E l \in Elements(told) : l.is \in {"playing", "resuming"}
  BY <1>6, <1>9
<1>12. \A l \in Elements(told) : l.is \notin {"logout", "finished", "winsMatch", "left"}
  BY <1>10
<1>13. {Me, y} \in SUBSET Players /\ {Me, y} \subseteq (online \cup {Me})'
  BY <1>2, <1>3
<1>14. Booked' /\ truth' \in Ledger(Truths)
  BY <1>2, <1>4, <1>8, <1>9, <1>12, <1>13, NothingBooked
<1>15. \A l \in Elements(told) : True(l)' /\ ~Alone(l) /\ l.is # "winsMatch"
  BY <1>4, <1>10 DEF True, Alone
<1>16. \A x \in Others \ {Me, y} : /\ Against(x)' = Against(x) /\ (Busy(x)' <=> Busy(x))
                                   /\ x \in online' <=> x \in online
  BY <1>2, <1>4
<1> QED  BY <1>4, <1>8, <1>9, <1>11, <1>13, <1>14, <1>15, <1>16, EventStep

LEMMA LeaveStep ==
  ASSUME IInv, NEW x \in Players, NEW y \in Players, Leave(x, y)
  PROVE  IInv'
<1>1. PICK l, told : /\ l = Line("left", x, None)
                     /\ told = IF Me \in {x, y} THEN <<l>> ELSE <<>>
  OBVIOUS
<1>2. /\ {x, y} \in playing /\ playing' = playing \ {{x, y}}
      /\ Count([left |-> IF Me \in {x, y} THEN {x} ELSE {}, broken |-> {x, y}])
      /\ UNCHANGED <<online, seen>> /\ Event(told, {x, y})
  BY <1>1 DEF Leave
<1>3. Types /\ Serving /\ Quiet /\ UNCHANGED <<booked, opponent>>
  BY <1>2 DEF IInv, Event, session, archive
<1>4. /\ Serving' /\ ~Busy(x)' /\ ~Busy(y)'
      /\ \A z : z \notin {x, y} => Against(z)' = Against(z) /\ (Busy(z)' <=> Busy(z))
  <2>1. \A m \in playing' : m \subseteq (online \cup {Me})'
    BY <1>2, <1>3 DEF Serving
  <2>2. seen' \in (online \cup {None})' /\ seen' \in {seen, None} /\ online' \subseteq online
    BY <1>2, <1>3 DEF Serving
  <2> QED  BY <1>2, <1>3, <2>1, <2>2, MatchEnds
<1>5. l \in AnyLine /\ l.is = "left"
  BY <1>1, LineIs, Names DEF Kinds, Somebody
<1>6. /\ told \in Seq(AnyLine) /\ OnlyOnce(told) /\ Elements(told) \subseteq {l}
      /\ Elements(told) # {} => Me \in {x, y}
  BY <1>1, <1>5, OneLine, NoLine
<1>7. Me \in {x, y} => Busy(Me) /\ ~Busy(Me)'
  BY <1>2, <1>4 DEF Busy
<1>8. \A m \in Elements(told) : True(m)' /\ ~Alone(m) /\ m.is = "left"
  BY <1>5, <1>6, <1>7 DEF True, Alone
<1>9. /\ truth' \in Ledger(Truths)
      /\ \A k \in {"finished", "mine", "dropped"} : \A z \in Players :
           truth'[k][z] = truth[k][z] /\ truth[k][z] \in Nat
      /\ truth["broken"][Me] <= truth'["broken"][Me]
      /\ Me \in {x, y} => truth["broken"][Me] < truth'["broken"][Me]
  <2>1. PICK new : new = [left |-> IF Me \in {x, y} THEN {x} ELSE {}, broken |-> {x, y}]
    OBVIOUS
  <2>2. DOMAIN new = {"left", "broken"} /\ new["broken"] = {x, y}
    BY <2>1
  <2>3. Count(new)
    BY <1>2, <2>1
  <2>4. /\ truth' \in Ledger(Truths)
        /\ \A k \in Truths : \A z \in Players :
             /\ truth[k][z] \in Nat
             /\ k \in DOMAIN new /\ z \in new[k] => truth'[k][z] = truth[k][z] + 1
             /\ ~(k \in DOMAIN new /\ z \in new[k]) => truth'[k][z] = truth[k][z]
    BY <1>3, <2>3, Counted
  <2>5. {"finished", "mine", "dropped"} \subseteq Truths /\ "broken" \in Truths
    BY DEF Truths
  <2> QED  BY <2>2, <2>4, <2>5, Names
<1>10. {x, y} \subseteq (online \cup {Me})' /\ {x, y} \in SUBSET Players /\ online' = online
  BY <1>2, <1>3 DEF Serving
<1>11. Booked'
  <2>1. \A m \in Said' : m.is \in {"left", "who"} /\ (m.is = "left" => Me \in {x, y})
    BY <1>2, <1>4, <1>6, <1>8, <1>10, Told DEF WhoInfo, Line
  <2>2. /\ \A z \in Others : ~DropDue(z)' /\ ~WinDue(z)'
        /\ ~Won' /\ (Left' => Me \in {x, y})
    BY <2>1 DEF DropDue, WinDue, Won, Left, Coming
  <2>3. \A z \in Players : truth["mine"][z] <= truth'["mine"][z]
    BY <1>9
  <2> QED  BY <1>3, <1>9, <2>2, <2>3, Names, BookedAfter
<1>12. \A z \in Others \ {x, y} : /\ Against(z)' = Against(z) /\ (Busy(z)' <=> Busy(z))
                                  /\ z \in online' <=> z \in online
  BY <1>4, <1>10
<1>13. Me \notin {x, y} => seen' = seen /\ Against(Me)' = Against(Me) /\ (Busy(Me)' <=> Busy(Me))
  BY <1>2, <1>4
<1>14. Me \in {x, y} => ~Busy(Me)'
  BY <1>7
<1> QED  BY <1>2, <1>4, <1>6, <1>8, <1>9, <1>10, <1>11, <1>12, <1>13, <1>14, EventStep

LEMMA FinishStep ==
  ASSUME IInv, NEW x \in Players, NEW y \in Players, Finish(x, y)
  PROVE  IInv'
<1>1. PICK w, m, f, t1, t2, told :
        /\ w = Line("wins", x, None) /\ m = Line("winsMatch", x, None)
        /\ f = Line("finished", x, y)
        /\ t1 = <<w, m>> /\ t2 = IF seen \in {x, y} THEN <<w>> ELSE <<>>
        /\ told = IF Me \in {x, y} THEN t1 ELSE t2 \o <<f>>
  OBVIOUS
<1>2. /\ {x, y} \in playing /\ playing' = playing \ {{x, y}}
      /\ Count(IF Me \in {x, y} THEN [mine |-> {x, y}] ELSE [finished |-> {x, y}])
      /\ UNCHANGED <<online, seen>> /\ Event(told, {x, y})
  BY <1>1 DEF Finish
<1>3. Types /\ Serving /\ Quiet /\ UNCHANGED <<booked, opponent>>
  BY <1>2 DEF IInv, Event, session, archive
<1>4. /\ Serving' /\ ~Busy(x)' /\ ~Busy(y)'
      /\ \A z : z \notin {x, y} => Against(z)' = Against(z) /\ (Busy(z)' <=> Busy(z))
  <2>1. \A k \in playing' : k \subseteq (online \cup {Me})'
    BY <1>2, <1>3 DEF Serving
  <2>2. seen' \in (online \cup {None})' /\ seen' \in {seen, None} /\ online' \subseteq online
    BY <1>2, <1>3 DEF Serving
  <2> QED  BY <1>2, <1>3, <2>1, <2>2, MatchEnds
<1>5. /\ w \in AnyLine /\ w.is = "wins" /\ m \in AnyLine /\ m.is = "winsMatch"
      /\ f \in AnyLine /\ f.is = "finished" /\ f.a = x /\ f.b = y
  BY <1>1, LineIs, Names DEF Kinds, Somebody
<1>6. /\ t1 \in Seq(AnyLine) /\ OnlyOnce(t1) /\ Elements(t1) = {w, m}
      /\ t2 \in Seq(AnyLine) /\ Elements(t2) = IF seen \in {x, y} THEN {w} ELSE {}
      /\ <<f>> \in Seq(AnyLine) /\ OnlyOnce(<<f>>) /\ Elements(<<f>>) = {f}
  BY <1>1, <1>5, OneLine, TwoLines, NoLine
<1>7. /\ t2 \o <<f>> \in Seq(AnyLine) /\ Elements(t2 \o <<f>>) = Elements(t2) \cup {f}
      /\ OnlyOnce(t2 \o <<f>>)
  <2>1. \A l \in Elements(t2) : l.is \notin Once
    BY <1>5, <1>6 DEF Once
  <2>2. OnlyOnce(t2 \o <<f>>)
    BY <1>6, <2>1, Joined
  <2>3. \A t3 \in Seq(AnyLine) : /\ t2 \o t3 \in Seq(AnyLine)
                                 /\ Elements(t2 \o t3) = Elements(t2) \cup Elements(t3)
    <3>1. t2 \in Seq(AnyLine)
      BY <1>6
    <3> QED  BY <3>1, Joined
  <2> QED  BY <1>6, <2>2, <2>3
<1>8. /\ told \in Seq(AnyLine) /\ OnlyOnce(told)
      /\ Me \in {x, y} => Elements(told) = {w, m}
      /\ Me \notin {x, y} => Elements(told) \in {{w, f}, {f}}
                             /\ (w \in Elements(told) => seen \in {x, y})
  BY <1>1, <1>5, <1>6, <1>7
<1>9. /\ Me \in {x, y} => Busy(Me) /\ ~Busy(Me)'
      /\ seen \in {x, y} => ~Busy(Me) /\ ~Busy(Me)'
  <2>1. Me \in {x, y} => Busy(Me) /\ ~Busy(Me)'
    BY <1>2, <1>4 DEF Busy
  <2>2. seen \in {x, y} => ~Busy(Me)
    BY <1>3, Names DEF Serving
  <2> QED  BY <1>4, <2>1, <2>2
<1>10. \A l \in Elements(told) : True(l)' /\ ~Alone(l)
  <2>1. CASE Me \in {x, y}
    BY <1>5, <1>8, <1>9, <2>1 DEF True, Alone
  <2>2. CASE Me \notin {x, y}
    <3>1. {x, y} \subseteq Others
      BY <2>2 DEF Players
    <3> QED  BY <1>5, <1>8, <1>9, <2>2, <3>1 DEF True, Alone
  <2> QED  BY <2>1, <2>2
<1>11. \A l, k \in Elements(told) : l.is = "winsMatch" => k.is # "finished"
  BY <1>5, <1>8
<1>12. {x, y} \subseteq (online \cup {Me})' /\ {x, y} \in SUBSET Players /\ online' = online
  BY <1>2, <1>3 DEF Serving
<1>13. /\ Said' = Elements(told) \cup {WhoInfo(z)' : z \in {x, y}}
       /\ \A z : WhoInfo(z)'.is = "who"
  BY <1>2, <1>4, <1>8, <1>12, Told DEF WhoInfo, Line
<1>14. /\ truth' \in Ledger(Truths)
       /\ Booked'
  <2>1. /\ \A z \in Others : ~DropDue(z)'
        /\ ~Left'
    BY <1>5, <1>8, <1>13 DEF DropDue, Left, Coming
  <2>2. PICK what : what = IF Me \in {x, y} THEN "mine" ELSE "finished"
    OBVIOUS
  <2>3. /\ truth' \in Ledger(Truths) /\ what \in Truths
        /\ \A z \in Players :
             /\ \A k \in Truths : truth[k][z] \in Nat
             /\ \A k \in Truths \ {what} : truth'[k][z] = truth[k][z]
             /\ z \in {x, y} => truth'[what][z] = truth[what][z] + 1
             /\ z \notin {x, y} => truth'[what][z] = truth[what][z]
    <3>1. PICK new : new = IF Me \in {x, y} THEN [mine |-> {x, y}] ELSE [finished |-> {x, y}]
      OBVIOUS
    <3>2. DOMAIN new = {what} /\ new[what] = {x, y}
      BY <2>2, <3>1
    <3>3. Count(new)
      BY <1>2, <3>1
    <3>4. /\ truth' \in Ledger(Truths)
          /\ \A k \in Truths : \A z \in Players :
               /\ truth[k][z] \in Nat
               /\ k \in DOMAIN new /\ z \in new[k] => truth'[k][z] = truth[k][z] + 1
               /\ ~(k \in DOMAIN new /\ z \in new[k]) => truth'[k][z] = truth[k][z]
      BY <1>3, <3>3, Counted
    <3>5. what \in Truths
      BY <2>2 DEF Truths
    <3> QED  BY <3>2, <3>4, <3>5
  <2>4. {"finished", "mine", "dropped", "broken"} \subseteq Truths
    BY DEF Truths
  <2>5. CASE Me \in {x, y}
    <3>1. what = "mine"
      BY <2>2, <2>5
    <3>2. \A z \in Others : ~WinDue(z)'
      BY <1>5, <1>8, <1>13, <2>5 DEF WinDue
    <3>3. opponent \in {x, y}
      <4>1. opponent = Against(Me)
        BY <1>3, <1>9, <2>5, AtRest
      <4>2. \E z \in {x, y} : {Me, z} \in playing
        <5>1. {x, y} = {y, x}
          OBVIOUS
        <5> QED  BY <1>2, <2>5, <5>1
      <4> QED  BY <1>3, <4>1, <4>2, Playing
    <3>4. /\ \A z \in Players : /\ truth["mine"][z] <= truth'["mine"][z]
                                /\ z \in {x, y} => truth["mine"][z] < truth'["mine"][z]
          /\ truth["broken"][Me] <= truth'["broken"][Me]
      BY <2>3, <2>4, <3>1, Names
    <3>5. \A z \in Players : /\ truth'["dropped"][z] = truth["dropped"][z]
                             /\ truth'["finished"][z] = truth["finished"][z]
      BY <2>3, <2>4, <3>1
    <3> QED  BY <1>3, <2>1, <2>5, <2>3, <3>2, <3>3, <3>4, <3>5, Names, BookedAfter
  <2>6. CASE Me \notin {x, y}
    <3>1. what = "finished"
      BY <2>2, <2>6
    <3>2. ~Won' /\ \A z \in Others : WinDue(z)' <=> z \in {x, y}
      BY <1>5, <1>8, <1>13, <2>6 DEF WinDue, Won
    <3>3. /\ \A z \in Players : truth["mine"][z] <= truth'["mine"][z]
          /\ truth["broken"][Me] <= truth'["broken"][Me]
      BY <2>3, <2>4, <3>1, Names
    <3>4. \A z \in Players : truth'["dropped"][z] = truth["dropped"][z]
      BY <2>3, <2>4, <3>1
    <3>5. \A z \in Others : /\ WinDue(z)'  => truth'["finished"][z] = truth["finished"][z] + 1
                            /\ ~WinDue(z)' => truth'["finished"][z] = truth["finished"][z]
      BY <2>3, <3>1, <3>2, Names
    <3> QED  BY <1>3, <2>1, <2>3, <3>2, <3>3, <3>4, <3>5, Names, BookedAfter
  <2> QED  BY <2>5, <2>6
<1>15. \A z \in Others \ {x, y} : /\ Against(z)' = Against(z) /\ (Busy(z)' <=> Busy(z))
                                  /\ z \in online' <=> z \in online
  BY <1>4, <1>12
<1>16. Me \notin {x, y} => seen' = seen /\ Against(Me)' = Against(Me) /\ (Busy(Me)' <=> Busy(Me))
  BY <1>2, <1>4
<1>17. Me \in {x, y} => ~Busy(Me)'
  BY <1>9
<1> QED  BY <1>2, <1>4, <1>8, <1>10, <1>11, <1>12, <1>14, <1>15, <1>16, <1>17, EventStep

(* A player logs out: a match that is played then ends for good. *)
LEMMA MatchLeft ==
  ASSUME Serving, NEW x \in Others, LogsOut(x), NEW y, y = Against(x)
  PROVE  /\ Serving' /\ seen' = IF seen = x THEN None ELSE seen
         /\ ~Busy(x)'
         /\ ~Busy(x) => playing' = playing /\ {m \in playing : x \in m} = {}
         /\ Busy(x) => {m \in playing : x \in m} = {{x, y}} /\ ~Busy(y)'
         /\ \A z : z \notin {x, y} => Against(z)' = Against(z) /\ (Busy(z)' <=> Busy(z))
<1>1. PICK match : match = {m \in playing : x \in m}
  OBVIOUS
<1>2. /\ online' = online \ {x} /\ playing' = playing \ match
      /\ seen' = IF seen = x THEN None ELSE seen
  BY <1>1 DEF LogsOut
<1>3. \A m \in playing' : m \subseteq (online \cup {Me})'
  BY <1>1, <1>2 DEF Serving
<1>4. seen' \in {seen, None} /\ seen' \in (online \cup {None})' /\ online' \subseteq online
  BY <1>2 DEF Serving
<1>5. CASE Busy(x)
  <2>1. {x, Against(x)} \in playing
    BY <1>5, Playing
  <2>2. match = {{x, Against(x)}}
    <3>1. \A m \in playing : x \in m => m = {x, Against(x)}
      <4>1. \A m \in playing : x \in m => m \cap {x, Against(x)} # {}
        OBVIOUS
      <4> QED  BY <2>1, <4>1 DEF Serving, Matching
    <3> QED  BY <1>1, <2>1, <3>1
  <2>3. {x, y} \in playing /\ playing' = playing \ {{x, y}}
    BY <1>2, <2>1, <2>2
  <2>4. /\ Serving' /\ ~Busy(x)' /\ ~Busy(y)'
        /\ \A z : z \notin {x, y} => Against(z)' = Against(z) /\ (Busy(z)' <=> Busy(z))
    BY <1>3, <1>4, <2>3, MatchEnds
  <2> QED  BY <1>1, <1>2, <1>5, <2>2, <2>4
<1>6. CASE ~Busy(x)
  <2>1. match = {} /\ playing' = playing
    BY <1>1, <1>2, <1>6 DEF Busy
  <2>2. \A z : Against(z)' = Against(z) /\ (Busy(z)' <=> Busy(z))
    BY <2>1, SamePlaying
  <2>3. Serving'
    BY <1>2, <1>3, <1>4, <2>1, <2>2 DEF Serving
  <2> QED  BY <1>1, <1>2, <1>6, <2>1, <2>2, <2>3
<1> QED  BY <1>5, <1>6


LEMMA LinesOf ==
  ASSUME NEW x \in Players
  PROVE  LET of(t) == [i \in DOMAIN t |-> Line(t[i], x, None)]
             o == Line("logout", x, None)
             l == Line("left", x, None)
         IN /\ of(<<"logout">>) = <<o>> /\ of(<<"left", "logout">>) = <<l, o>>
            /\ of(<<"logout", "left">>) = <<o, l>>
<1>1. ASSUME NEW a, NEW b
      PROVE  /\ [i \in DOMAIN <<a>> |-> Line(<<a>>[i], x, None)] = <<Line(a, x, None)>>
             /\ [i \in DOMAIN <<a, b>> |-> Line(<<a, b>>[i], x, None)]
                  = <<Line(a, x, None), Line(b, x, None)>>
  <2>1. /\ DOMAIN <<a>> = 1..1 /\ <<a>>[1] = a
        /\ DOMAIN <<a, b>> = 1..2 /\ <<a, b>>[1] = a /\ <<a, b>>[2] = b
    OBVIOUS
  <2>2. [i \in 1..1 |-> Line(<<a>>[i], x, None)] = <<Line(a, x, None)>>
    BY <2>1
  <2>3. [i \in 1..2 |-> Line(<<a, b>>[i], x, None)] = <<Line(a, x, None), Line(b, x, None)>>
    BY <2>1
  <2> QED  BY <2>1, <2>2, <2>3
<1> QED  BY <1>1

LEMMA LogsOutStep ==
  ASSUME IInv, NEW x \in Others, LogsOut(x)
  PROVE  IInv'
<1>1. PICK y, match, changed, o, l :
        /\ y = Against(x) /\ match = {m \in playing : x \in m}
        /\ changed = ((UNION match) \cup IF seen = x THEN {Me} ELSE {}) \ {x}
        /\ o = Line("logout", x, None) /\ l = Line("left", x, None)
  OBVIOUS
<1>2. PICK told : /\ told \in {<<o>>, <<l, o>>, <<o, l>>} /\ Event(told, changed)
                  /\ told # <<o>> => {x, Me} \in match
  <2>1. PICK t \in {<<"logout">>} \cup (IF {x, Me} \in match
                       THEN {<<"left", "logout">>, <<"logout", "left">>} ELSE {}) :
          Event([i \in DOMAIN t |-> Line(t[i], x, None)], changed)
    BY <1>1 DEF LogsOut
  <2>2. x \in Players
    BY Names
  <2>3. [i \in DOMAIN t |-> Line(t[i], x, None)] \in {<<o>>, <<l, o>>, <<o, l>>}
    BY <1>1, <2>1, <2>2, LinesOf
  <2>4. {x, Me} \notin match => [i \in DOMAIN t |-> Line(t[i], x, None)] = <<o>>
    BY <1>1, <2>1, <2>2, LinesOf
  <2> QED  BY <2>1, <2>3, <2>4
<1>3. /\ Types /\ Serving /\ Quiet /\ UNCHANGED <<booked, opponent, list>>
      /\ x \in online /\ online' = online \ {x}
      /\ IF match = {} THEN UNCHANGED truth
         ELSE Count([dropped |-> {x}, broken |-> UNION match])
  BY <1>1, <1>2 DEF IInv, Event, session, archive, LogsOut
<1>4. /\ Serving' /\ seen' = IF seen = x THEN None ELSE seen
      /\ ~Busy(x)'
      /\ ~Busy(x) => match = {}
      /\ Busy(x) => match = {{x, y}} /\ ~Busy(y)'
      /\ \A z : z \notin {x, y} => Against(z)' = Against(z) /\ (Busy(z)' <=> Busy(z))
  BY <1>1, <1>3, MatchLeft
<1>5. Busy(x) => y \in Players \ {x} /\ {x, y} \in playing /\ y \in online \cup {Me}
  BY <1>1, <1>3, Playing
<1>6. ~Busy(x) => y = None
  BY <1>1, <1>3, Playing
<1>7. /\ o \in AnyLine /\ o.is = "logout" /\ o.a = x
      /\ l \in AnyLine /\ l.is = "left" /\ l.a = x
  BY <1>1, LineIs, Names DEF Kinds, Somebody
<1>8. /\ told \in Seq(AnyLine) /\ OnlyOnce(told)
      /\ \/ Elements(told) = {o}
         \/ Elements(told) = {l, o} /\ {x, Me} \in match
  <2>1. CASE told = <<o>>
    BY <1>7, <2>1, OneLine
  <2>2. CASE told = <<l, o>> /\ {x, Me} \in match
    BY <1>7, <2>2, TwoLines
  <2>3. CASE told = <<o, l>> /\ {x, Me} \in match
    <3>1. {o, l} = {l, o}
      OBVIOUS
    <3> QED  BY <1>7, <2>3, <3>1, TwoLines
  <2> QED  BY <1>2, <2>1, <2>2, <2>3
<1>9. {x, Me} \in match => Busy(x) /\ y = Me /\ Busy(Me) /\ ~Busy(Me)'
  <2> SUFFICES ASSUME {x, Me} \in match PROVE Busy(x) /\ y = Me /\ Busy(Me) /\ ~Busy(Me)'
    OBVIOUS
  <2>1. Busy(x) /\ {x, Me} = {x, y} /\ ~Busy(y)'
    BY <1>4
  <2>2. y = Me
    BY <2>1, <1>5, Names
  <2>3. ~Busy(Me)'
    BY <2>1, <2>2 DEF Busy
  <2> QED  BY <1>5, <2>1, <2>2, <2>3 DEF Busy
<1>10. changed = (IF Busy(x) THEN {y} ELSE {}) \cup (IF seen = x THEN {Me} ELSE {})
  <2>1. UNION {{x, y}} = {x, y}
    OBVIOUS
  <2>2. x # Me /\ (Busy(x) => y # x)
    BY <1>5, Names
  <2>3. PICK w : w = IF seen = x THEN {Me} ELSE {}
    OBVIOUS
  <2>4. changed = ((UNION match) \cup w) \ {x} /\ x \notin w
    BY <1>1, <2>2, <2>3
  <2>5. CASE Busy(x)
    <3>1. UNION match = {x, y} /\ y # x
      BY <1>4, <2>1, <2>2, <2>5
    <3>2. changed = {y} \cup w
      BY <2>4, <3>1
    <3> QED  BY <2>3, <2>5, <3>2
  <2>6. CASE ~Busy(x)
    <3>1. UNION match = {}
      BY <1>4, <2>6
    <3>2. changed = w
      BY <2>4, <3>1
    <3> QED  BY <2>3, <2>6, <3>2
  <2> QED  BY <2>5, <2>6
<1>11. changed \in SUBSET Players /\ changed \subseteq (online \cup {Me})'
  BY <1>3, <1>5, <1>10, Names
<1>12. \A k \in Elements(told) : True(k)' /\ ~Alone(k) /\ k.is # "winsMatch"
  BY <1>3, <1>7, <1>8, <1>9 DEF True, Alone
<1>13. /\ truth' \in Ledger(Truths)
       /\ Booked'
  <2>1. Said' = Elements(told) \cup {WhoInfo(z)' : z \in changed} /\ \A z : WhoInfo(z)'.is = "who"
    BY <1>2, <1>4, <1>8, <1>11, Told DEF WhoInfo, Line
  <2>2. /\ \A z \in Others : ~WinDue(z)'
        /\ ~Won' /\ (Left' => Busy(x) /\ y = Me)
    BY <1>7, <1>8, <1>9, <2>1 DEF WinDue, Won, Left
  <2>3. ListRight(x)
    BY <1>3, AtRest
  <2>4. \A z : Coming({"logout"}, z)' <=> z = x
    BY <1>7, <1>8, <2>1 DEF Coming
  <2>5. \A z \in Others : DropDue(z)' <=> z = x /\ Busy(x)
    <3>1. list[x] \in Players <=> Busy(x)
      BY <1>1, <1>3, <1>5, <1>6, <2>3, Names DEF ListRight, Somebody
    <3> QED  BY <1>3, <2>4, <3>1 DEF DropDue
  <2>6. /\ truth' \in Ledger(Truths)
        /\ \A z \in Players :
             /\ \A k \in Truths : truth[k][z] \in Nat
             /\ \A k \in {"finished", "mine"} : truth'[k][z] = truth[k][z]
             /\ z = x /\ Busy(x) => truth'["dropped"][z] = truth["dropped"][z] + 1
             /\ ~(z = x /\ Busy(x)) => truth'["dropped"][z] = truth["dropped"][z]
             /\ truth["broken"][z] <= truth'["broken"][z]
             /\ Busy(x) /\ z = y => truth["broken"][z] < truth'["broken"][z]
    <3>1. {"finished", "mine", "dropped", "broken"} \subseteq Truths
      BY DEF Truths
    <3>2. CASE Busy(x)
      <4>1. PICK new : new = [dropped |-> {x}, broken |-> UNION match]
        OBVIOUS
      <4>2. UNION match = {x, y}
        <5>1. UNION {{x, y}} = {x, y}
          OBVIOUS
        <5> QED  BY <1>4, <3>2, <5>1
      <4>3. DOMAIN new = {"dropped", "broken"} /\ new["dropped"] = {x} /\ new["broken"] = {x, y}
        BY <4>1, <4>2
      <4>4. Count(new)
        BY <1>3, <1>4, <3>2, <4>1
      <4>5. /\ truth' \in Ledger(Truths)
            /\ \A k \in Truths : \A z \in Players :
                 /\ truth[k][z] \in Nat
                 /\ k \in DOMAIN new /\ z \in new[k] => truth'[k][z] = truth[k][z] + 1
                 /\ ~(k \in DOMAIN new /\ z \in new[k]) => truth'[k][z] = truth[k][z]
        BY <1>3, <4>4, Counted
      <4> QED  BY <3>1, <3>2, <4>3, <4>5
    <3>3. CASE ~Busy(x)
      <4>1. truth' = truth
        BY <1>3, <1>4, <3>3
      <4>2. truth \in Ledger(Truths)
        BY <1>3 DEF Types
      <4>3. \A k \in Truths : \A z \in Players : truth[k][z] \in Nat
        BY <4>2 DEF Ledger
      <4> QED  BY <3>1, <3>3, <4>1, <4>2, <4>3
    <3> QED  BY <3>2, <3>3
  <2>7. Left' => truth["broken"][Me] < truth'["broken"][Me]
    BY <2>2, <2>6, Names
  <2>8. \A z \in Players : truth["mine"][z] <= truth'["mine"][z]
    <3>1. "mine" \in Truths
      BY DEF Truths
    <3> QED  BY <2>6, <3>1
  <2> QED  BY <1>3, <2>2, <2>5, <2>6, <2>7, <2>8, Names, BookedAfter
<1>14. \A z \in Others \ changed :
         \/ /\ Against(z)' = Against(z) /\ (Busy(z)' <=> Busy(z))
            /\ z \in online' <=> z \in online
         \/ \E k \in Elements(told) : k.is \in {"login", "logout"} /\ k.a = z
  <2> SUFFICES ASSUME NEW z \in Others \ changed, z # x
               PROVE  /\ Against(z)' = Against(z) /\ (Busy(z)' <=> Busy(z))
                      /\ z \in online' <=> z \in online
    BY <1>7, <1>8
  <2>1. z \notin {x, y}
    BY <1>6, <1>10, Names
  <2> QED  BY <1>3, <1>4, <2>1
<1>15. Me \notin changed => seen' = seen /\ Against(Me)' = Against(Me) /\ (Busy(Me)' <=> Busy(Me))
  <2> SUFFICES ASSUME Me \notin changed
               PROVE  seen' = seen /\ Against(Me)' = Against(Me) /\ (Busy(Me)' <=> Busy(Me))
    OBVIOUS
  <2>1. Me \notin {x, y} /\ seen # x
    BY <1>6, <1>10, Names
  <2> QED  BY <1>4, <2>1
<1>16. Me \in changed => ~Busy(Me)'
  <2> SUFFICES ASSUME Me \in changed PROVE ~Busy(Me)'
    OBVIOUS
  <2>1. CASE Busy(x) /\ y = Me
    BY <1>4, <2>1 DEF Busy
  <2>2. CASE ~(Busy(x) /\ y = Me)
    <3>1. seen = x /\ Me \notin {x, y}
      BY <1>6, <1>10, <2>2, Names
    <3>2. ~Busy(Me)
      BY <1>3, <3>1, Names DEF Serving
    <3> QED  BY <1>4, <3>1, <3>2
  <2> QED  BY <2>1, <2>2
<1>17. \A k, m \in Elements(told) : k.is = "winsMatch" => m.is # "finished"
  BY <1>12
<1> QED  BY <1>2, <1>4, <1>8, <1>11, <1>12, <1>13, <1>14, <1>15, <1>16, <1>17, EventStep


-----------------------------------------------------------------------------
LEMMA InitIInv == Init => IInv
<1> SUFFICES ASSUME Init PROVE IInv
  OBVIOUS
<1>1. /\ Said = {} /\ \A x : ~Busy(x) /\ Against(x) = None
  <2>1. Len(lines) = 0
    BY DEF Init
  <2> QED  BY <2>1 DEF Init, Said, Busy, Against
<1>2. Zero \in [Players -> Nat] /\ \A x \in Players : Zero[x] = 0
  BY DEF Zero
<1>3. Types
  <2>1. lines \in Seq(AnyLine)
    BY EmptySeq DEF Init
  <2>2. list \in [Players -> Players \cup {None, "absent"}]
    BY DEF Init
  <2>3. /\ booked \in Ledger({"wins", "drops", "resumes"})
        /\ truth \in Ledger(Truths)
    BY <1>2 DEF Init, Ledger, Truths
  <2> QED  BY <2>1, <2>2, <2>3 DEF Init, Types
<1>4. Serving
  BY <1>1 DEF Init, Serving, Matching
<1>5. Truthful
  <2>1. Len(lines) = 0
    BY DEF Init
  <2> QED  BY <1>1, <2>1 DEF Truthful
<1>6. Heard
  BY Names DEF Init, Heard, ListRight
<1>7. Opposed /\ Watches /\ Recording
  BY <1>1 DEF Init, Opposed, Watches, Recording
<1>8. Booked
  <2>1. /\ \A x \in Others : ~DropDue(x) /\ ~WinDue(x)
        /\ ~Won /\ ~Left
    BY <1>1 DEF DropDue, WinDue, Won, Left, Coming
  <2>2. \A x \in Players : /\ booked["drops"][x] = 0 /\ booked["wins"][x] = 0
                           /\ truth["dropped"][x] = 0 /\ truth["finished"][x] = 0
                           /\ truth["mine"][x] = 0 /\ truth["broken"][x] = 0
    BY <1>2 DEF Init
  <2> QED  BY <2>1, <2>2, Names DEF Booked
<1> QED  BY <1>3, <1>4, <1>5, <1>6, <1>7, <1>8 DEF IInv

LEMMA StutterStep == IInv /\ UNCHANGED vars => IInv'
<1> SUFFICES ASSUME IInv, UNCHANGED vars PROVE IInv'
  OBVIOUS
<1>1. /\ UNCHANGED <<opponent, watching, tracker, board, list, saved, asked, boardAsked, alive>>
      /\ UNCHANGED <<droppers, booked, lines, online, playing, seen, truth>>
  BY DEF vars, session, archive, server
<1>2. Types' <=> Types
  BY <1>1 DEF Types
<1>3. /\ Serving' <=> Serving
      /\ \A z : Against(z)' = Against(z) /\ (Busy(z)' <=> Busy(z)) /\ Watched(z)' = Watched(z)
  BY <1>1, SamePlaying DEF Serving, Busy, Watched
<1>4. Said' = Said /\ Against(seen)' = Against(seen)
  <2>1. Said' = Said
    BY <1>1 DEF Said
  <2>2. Against(seen)' = Against(seen)
    BY <1>1, <1>3 DEF Against
  <2> QED  BY <2>1, <2>2
<1>5. \A l : (True(l)' <=> True(l)) /\ (Alone(l)' <=> Alone(l))
  BY <1>1, <1>3, <1>4 DEF True, Alone
<1>6. Truthful' <=> Truthful
  BY <1>1, <1>4, <1>5 DEF Truthful, Once
<1>7. /\ Heard' <=> Heard
      /\ Opposed' <=> Opposed
      /\ Watches' <=> Watches
      /\ Recording' <=> Recording
  BY <1>1, <1>3, <1>4 DEF Heard, ListRight, Coming, Opposed, Watches, Recording
<1>8. Booked' <=> Booked
  BY <1>1, <1>3, <1>4 DEF Booked, DropDue, WinDue, Won, Left, Coming
<1> QED  BY <1>1, <1>2, <1>3, <1>6, <1>7, <1>8 DEF IInv

LEMMA NextStep == IInv /\ [Next]_vars => IInv'
<1> SUFFICES ASSUME IInv, [Next]_vars PROVE IInv'
  OBVIOUS
<1>1. CASE Handle
  BY <1>1, LoginStep, NoSuchUserStep, StopWatchingStep, YoureWatchingStep, ActionStep,
     WinGameStep, ResumeMatchStep, NowPlayingStep, ResumeStep, BoardStep, FinalizeStep,
     WinMatchStep, AsyncWinMatchStep, LeftGameStep, WhoInfoStep, LogoutStep, Zenon DEF Handle
<1>2. ASSUME NEW x \in Others, LogsIn(x) \/ LogsOut(x) \/ IBegin(x) \/ IWatch(x) PROVE IInv'
  BY <1>2, LogsInStep, LogsOutStep, IBeginStep, IWatchStep
<1>3. ASSUME NEW x \in Players, NEW y \in Players, Begin(x, y) \/ Finish(x, y) \/ Leave(x, y)
      PROVE  IInv'
  BY <1>3, BeginStep, FinishStep, LeaveStep
<1>4. CASE IUnwatch \/ Turn \/ ReplyBoard
  BY <1>4, IUnwatchStep, TurnStep, ReplyBoardStep
<1>5. ASSUME NEW x \in Players, ReplyWho(x) PROVE IInv'
  BY <1>5, ReplyWhoStep
<1>6. CASE UNCHANGED vars
  BY <1>6, StutterStep
<1> QED  BY <1>1, <1>2, <1>3, <1>4, <1>5, <1>6 DEF Next, Serve

(* Whatever the session has wrong about the server, or has not booked yet, *)
(* a line that is underway will correct: the handlers of gibbon-session.c  *)
(* never forget a thing that no later line repeats, in whatever order the  *)
(* who infos of an event arrive before or after its other lines.           *)
THEOREM AlwaysBehind == Spec => []IInv
<1>1. Init => IInv
  BY InitIInv
<1>2. IInv /\ [Next]_vars => IInv'
  BY NextStep
<1> QED  BY <1>1, <1>2, PTL DEF Spec

(* The variables of the session and of the archive keep their types: the   *)
(* player watched is never the user, only others are saved as opponents.   *)
THEOREM TypesCorrect == Spec => []TypeOK
<1>1. IInv => TypeOK
  BY Names DEF IInv, Types, TypeOK
<1> QED  BY <1>1, AlwaysBehind, PTL

(* Once every line is handled, gibbon-session.c knows the match I play and *)
(* does not think I watch one meanwhile, and the player list knows who is  *)
(* there and plays with whom, for any number of players and events.        *)
THEOREM AgreesAtRest == Spec => []Agreement
<1>1. IInv => Agreement
  <2> SUFFICES ASSUME IInv, Quiet PROVE Agreement
    BY DEF Agreement
  <2>1. \A x \in Others : ListRight(x)
    BY AtRest
  <2>2. /\ Busy(Me) => opponent = Against(Me) /\ watching = None
        /\ watching # None => watching = seen
    BY AtRest
  <2> QED  BY <2>1, <2>2 DEF Agreement, ListRight
<1> QED  BY <1>1, AlwaysBehind, PTL

(* The match that gibbon_session_update_tracker() and its callers record   *)
(* is always one of the opponent against me, or the player I watch.        *)
THEOREM RightMatchRecorded == Spec => []RecordsRightMatch
<1>1. IInv => RecordsRightMatch
  BY Names DEF IInv, Types, Recording, RecordsRightMatch
<1> QED  BY <1>1, AlwaysBehind, PTL

(* gibbon-archive.c books each match that two others finish, and each      *)
(* logout in the middle of a match, exactly once once every line is        *)
(* handled.  It charges a player who leaves a match with me without        *)
(* logging out at most once for it, me at most once for each match of mine *)
(* that is broken off, and books the end of a match of mine at most once.  *)
THEOREM BooksOnce == Spec => []BookedOnce
<1>1. IInv => BookedOnce
  <2> SUFFICES ASSUME IInv, Quiet PROVE BookedOnce
    BY DEF BookedOnce
  <2>1. /\ Types
        /\ \A x \in Others : /\ booked["drops"][x] = truth["dropped"][x]
                             /\ truth["finished"][x] <= booked["wins"][x]
                             /\ booked["wins"][x] <= truth["finished"][x] + truth["mine"][x]
        /\ booked["drops"][Me] <= truth["broken"][Me]
        /\ booked["wins"][Me] <= truth["mine"][Me]
    BY AtRest
  <2>2. \A x \in Others : /\ booked["wins"][x] \in Nat /\ truth["finished"][x] \in Nat
                          /\ truth["mine"][x] \in Nat /\ truth["left"][x] \in Nat
                          /\ truth["dropped"][x] \in Nat
    BY <2>1, Names DEF Types, Ledger, Truths
  <2>3. /\ booked.drops = booked["drops"] /\ booked.wins = booked["wins"]
        /\ truth.dropped = truth["dropped"] /\ truth.finished = truth["finished"]
        /\ truth.mine = truth["mine"] /\ truth.broken = truth["broken"]
        /\ truth.left = truth["left"]
    OBVIOUS
  <2>4. \A x \in Others : /\ booked["wins"][x] - truth["finished"][x] \in 0..truth["mine"][x]
                          /\ booked["drops"][x] - truth["dropped"][x] \in 0..truth["left"][x]
    BY <2>1, <2>2
  <2> QED  BY <2>1, <2>3, <2>4 DEF BookedOnce
<1> QED  BY <1>1, AlwaysBehind, PTL
=============================================================================
