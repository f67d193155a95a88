----------------------------- MODULE SettingsProofs -----------------------------
(***************************************************************************)
(* Proofs about Settings.tla, for any number of players, saved matches,    *)
(* addresses and events.                                                   *)
(*                                                                         *)
(* Three inductive invariants, each on top of the first: the greeting      *)
(* comes before everything else, and the timer runs while something is     *)
(* expected (IInv); the list of saved matches is told before any reply     *)
(* about the style of the board (Stale); at most one request for a setting *)
(* is underway (Chained).  Effect says what handling a line may do, Sends  *)
(* what it sends, and Answers what the server makes of a command.          *)
(***************************************************************************)
EXTENDS Settings, SequenceTheorems, FiniteSetTheorems, TLAPS

-----------------------------------------------------------------------------
(* What travels between client and server. *)
Command == [ask : {"saved", "notify", "autoboard"}]
           \cup [ask : {"boardstyle"}, of : {2, 3}]
           \cup [ask : {"count"}, of : Others]
           \cup [ask : {"who"}, of : Names]
           \cup [ask : {"address"}, of : Mails]

LineOf ==
  [is : {"own"}, value : [notify : BOOLEAN, autoboard : BOOLEAN]]
  \cup [is : {"whoEnd", "savedStart", "badAddress"}, value : {0}]
  \cup [is : {"who"}, value : [name : {Me}, mail : Mails \ BadMails]]
  \cup [is : {"who"}, value : [name : Others]]
  \cup [is : {"noUser", "login", "logout", "invitation", "count"}, value : Others]
  \cup [is : {"address"}, value : Mails \ BadMails]
  \cup [is : {"boardstyle"}, value : {2, 3}]
  \cup [is : {"notify", "autoboard"}, value : BOOLEAN]
  \cup [is : {"saved"}, value : [name : Opponents, version : Versions]]

Expecting ==
  [saved : BOOLEAN, boardstyle : BOOLEAN, notify : BOOLEAN, autoboard : BOOLEAN,
   address : BOOLEAN, counts : Seq(Others), who : Seq(Names)]

Types ==
  /\ expect \in Expecting /\ IsInjective(expect.who)
  /\ timer \in BOOLEAN /\ initialized \in BOOLEAN /\ checked \in BOOLEAN
  /\ players \subseteq Names /\ mail \in Mails /\ address \in Mails \ BadMails
  /\ saved \in [Opponents -> Versions] /\ files \in [Opponents -> Versions]
  /\ stored \in [Opponents -> Versions]
  /\ style \in 1..3 /\ notify \in BOOLEAN /\ autoboard \in BOOLEAN
  /\ commands \in Seq(Command) /\ lines \in Seq(LineOf)
  /\ user \in Nat /\ events \in Nat /\ late \in Nat

(* The server begins with the settings and the list of players; until they *)
(* are handled, nothing else is.                                           *)
Greeted ==
  /\ \A i \in 1..Len(lines) : lines[i].is = "own" => i = 1 /\ ~initialized
  /\ ~initialized =>
       /\ ~expect.saved /\ ~expect.boardstyle /\ ~timer
       /\ \E n \in 1..Len(lines) :
            /\ lines[n].is = "whoEnd"
            /\ \A i \in 1..(n - 1) : \/ lines[i].is = "own"
                                     \/ lines[i].is = "who" /\ lines[i].value.name = Me

(* Nothing is expected that the timer has to see to. *)
Calm(w) == ~w.saved /\ ~w.boardstyle /\ ~w.notify /\ ~w.autoboard /\ w.who = <<>>

IInv == Types /\ Greeted /\ (initialized => timer \/ Calm(expect))

-----------------------------------------------------------------------------
(* The list of saved matches comes before the reply about the board style, *)
(* the end of the list for the client.                                     *)
Listed(o) == \E i \in 1..Len(lines) :
               /\ lines[i].is = "saved" /\ lines[i].value.name = o
               /\ \A j \in 1..i : lines[j].is # "boardstyle"

AskedFirst ==
  /\ \A j \in 1..Len(lines) : lines[j].is # "boardstyle"
  /\ \E i \in 1..Len(commands) :
       /\ commands[i].ask = "saved"
       /\ \A j \in 1..i : commands[j].ask # "boardstyle"

Stale ==
  /\ \A o \in Opponents : saved[o] \in {0, stored[o]}
  /\ \A i \in 1..Len(lines) :
       lines[i].is = "saved" => lines[i].value.version = stored[lines[i].value.name]
  /\ initialized => \A o \in Opponents : saved[o] = stored[o] \/ Listed(o) \/ AskedFirst
  /\ ~initialized => /\ \A i \in 1..Len(lines) : lines[i].is # "boardstyle"
                     /\ \A i \in 1..Len(commands) : commands[i].ask # "boardstyle"

-----------------------------------------------------------------------------
(* When nobody interferes one request for a setting is underway at a time. *)
ChainAsks == {"saved", "boardstyle", "notify", "autoboard"}
ChainIs   == {"savedStart", "boardstyle", "notify", "autoboard"}
AskedFor(t) == \E i \in 1..Len(commands) : commands[i].ask = t
Told(t)     == \E i \in 1..Len(lines) : lines[i].is = t

OneByOne ==
  /\ \A i, j \in 1..Len(commands) : {commands[i].ask, commands[j].ask} \subseteq ChainAsks => i = j
  /\ \A i, j \in 1..Len(lines) : {lines[i].is, lines[j].is} \subseteq ChainIs => i = j
  /\ \A i \in 1..Len(commands), j \in 1..Len(lines) :
       ~(commands[i].ask \in ChainAsks /\ lines[j].is \in ChainIs)

Toggle(t, is, expected) ==
  /\ AskedFor(t) => ~is
  /\ \A i \in 1..Len(lines) : lines[i].is = t => lines[i].value /\ is
  /\ expected => ~is \/ Told(t)

Chained ==
  /\ OneByOne
  /\ ~Told("own") => Toggle("notify", notify, expect.notify)
                     /\ Toggle("autoboard", autoboard, expect.autoboard)
  /\ \A i \in 1..Len(lines) :
       lines[i].is = "own" => /\ lines[i].value.notify = notify
                              /\ lines[i].value.autoboard = autoboard
                              /\ ~expect.notify /\ ~expect.autoboard
  /\ \A i \in 1..Len(lines) : lines[i].is = "saved" =>
       ~expect.saved \/ \E j \in 1..(i - 1) : lines[j].is = "savedStart"
  /\ ~initialized => \A t \in ChainAsks : ~AskedFor(t)
  /\ ~initialized => \A t \in ChainIs : ~Told(t)
  /\ ~initialized => ~Told("saved")

(* What a handler does to the commands, the settings it waits for, and the *)
(* saved matches.                                                          *)
Forced(kind) == \/ kind \in ChainIs \cup {"timeout"}
                \/ kind = "whoEnd" /\ ~initialized
                \/ kind = "saved" /\ expect.saved

Sends(kind, q) ==
  /\ commands' = commands \o q
  /\ \A i, j \in 1..Len(q) : {q[i].ask, q[j].ask} \subseteq ChainAsks => i = j
  /\ \A i \in 1..Len(q) :
       /\ q[i].ask \in ChainAsks => Forced(kind) /\ initialized'
       /\ q[i].ask = "notify" => expect'.notify
       /\ q[i].ask = "autoboard" => expect'.autoboard

Effect(kind) ==
  /\ Receive(kind)
  /\ initialized' = (initialized \/ kind = "whoEnd")
  /\ kind # "saved" => saved' = saved
  /\ kind = "saved" => saved' = [saved EXCEPT ![Value.name] = Value.version]
  /\ files' # files => kind = "boardstyle" /\ expect.boardstyle /\ files' = CleanSaved
  /\ \E q \in Seq(Command) : Sends(kind, q)
  /\ kind = "whoEnd" /\ ~initialized => commands' = commands \o <<[ask |-> "saved"]>>
  /\ kind \notin {"own", "notify"} => expect'.notify = expect.notify
  /\ kind = "notify" => expect'.notify = ~Value
  /\ kind = "own" => expect'.notify = (expect.notify \/ ~Value.notify)
  /\ kind \notin {"own", "autoboard"} => expect'.autoboard = expect.autoboard
  /\ kind = "autoboard" => expect'.autoboard = ~Value
  /\ kind = "own" => expect'.autoboard = (expect.autoboard \/ ~Value.autoboard)
  /\ kind \in {"savedStart", "saved"} => ~expect'.saved
  /\ ~(kind = "whoEnd" /\ ~initialized) => (expect'.saved => expect.saved)

(* What the server says to a command c: the lines r. *)
Answers(c, r) ==
  /\ commands # <<>> /\ c = Head(commands) /\ commands' = Tail(commands)
  /\ r \in Seq(LineOf) /\ lines' = lines \o r
  /\ UNCHANGED <<session, bounds, stored>>
  /\ \A i \in 1..Len(r) :
       /\ r[i].is # "own"
       /\ r[i].is \in ChainIs => c.ask \in ChainAsks
       /\ r[i].is = "savedStart" => i = 1
       /\ r[i].is \in {"boardstyle", "notify", "autoboard"} => i = 1 /\ Len(r) = 1 /\ r[i].is = c.ask
       /\ r[i].is = "notify" => r[i].value = notify'
       /\ r[i].is = "autoboard" => r[i].value = autoboard'
       /\ r[i].is = "saved" => /\ i # 1 /\ r[1].is = "savedStart"
                               /\ r[i].value.version = stored[r[i].value.name]
  /\ c.ask = "saved" =>
       \A o \in Opponents : stored[o] # 0 =>
         \E i \in 1..Len(r) : r[i].is = "saved" /\ r[i].value.name = o
  /\ c.ask \in {"notify", "autoboard"} => \E i \in 1..Len(r) : r[i].is = c.ask
  /\ notify' = (IF c.ask = "notify" THEN ~notify ELSE notify)
  /\ autoboard' = (IF c.ask = "autoboard" THEN ~autoboard ELSE autoboard)
  /\ style' \in 1..3 /\ address' \in Mails \ BadMails

-----------------------------------------------------------------------------
(* Sequences. *)
WF == INSTANCE WellFoundedInduction

(* A set of natural numbers that is not empty has a least one. *)
LEMMA LeastNumber ==
  ASSUME NEW T \in SUBSET Nat, T # {}
  PROVE  \E x \in T : \A y \in T : x <= y
<1> DEFINE below == {ss \in Nat \X Nat : ss[1] < ss[2]}
<1>1. WF!IsWellFoundedOn(below, Nat)
  BY WF!NatLessThanWellFounded DEF WF!OpToRel
<1>2. PICK x \in T : \A y \in T : ~(<<y, x>> \in below)
  <2> HIDE DEF below
  <2> QED  BY <1>1, WF!WFMin
<1>3. ASSUME NEW y \in T PROVE x <= y
  <2>1. x \in Nat /\ y \in Nat
    OBVIOUS
  <2>2. y < x => <<y, x>> \in below
    BY <2>1
  <2>3. ~(y < x)
    BY <1>2, <2>2, Zenon
  <2> QED  BY <2>1, <2>3
<1> QED  BY <1>3

LEMMA TailSeq ==
  ASSUME NEW S, NEW s \in Seq(S), s # <<>>, NEW t, t = Tail(s)
  PROVE  /\ t \in Seq(S) /\ Head(s) \in S /\ Head(s) = s[1]
         /\ Len(s) \in Nat /\ Len(t) \in Nat /\ Len(s) = Len(t) + 1 /\ 1 \in 1..Len(s)
         /\ \A i \in 1..Len(t) : t[i] = s[i + 1] /\ i + 1 \in 1..Len(s)
         /\ \A i \in 1..Len(s) : i = 1 \/ (i - 1 \in 1..Len(t) /\ t[i - 1] = s[i])
<1>1. /\ t \in Seq(S) /\ Head(s) \in S /\ Head(s) = s[1] /\ Len(t) = Len(s) - 1
      /\ \A i \in 1..Len(t) : t[i] = s[i + 1]
  BY HeadTailProperties
<1>2. Len(s) \in Nat /\ Len(t) \in Nat /\ Len(s) # 0
  BY <1>1, LenProperties, EmptySeq
<1>3. \A i \in 1..Len(t) : i + 1 \in 1..Len(s)
  BY <1>1, <1>2
<1>4. \A i \in 1..Len(s) : i = 1 \/ (i - 1 \in 1..Len(t) /\ (i - 1) + 1 = i)
  BY <1>1, <1>2
<1>5. Len(s) = Len(t) + 1 /\ 1 \in 1..Len(s)
  BY <1>1, <1>2
<1> QED  BY <1>1, <1>2, <1>3, <1>4, <1>5

LEMMA JoinSeq ==
  ASSUME NEW S, NEW s \in Seq(S), NEW t \in Seq(S), NEW u, u = s \o t
  PROVE  /\ u \in Seq(S) /\ Len(s) \in Nat /\ Len(t) \in Nat /\ Len(u) = Len(s) + Len(t)
         /\ \A i \in 1..Len(s) : u[i] = s[i] /\ i \in 1..Len(u)
         /\ \A i \in 1..Len(t) : u[Len(s) + i] = t[i] /\ Len(s) + i \in 1..Len(u)
         /\ \A i \in 1..Len(u) : \/ i \in 1..Len(s) /\ u[i] = s[i]
                                 \/ i - Len(s) \in 1..Len(t) /\ u[i] = t[i - Len(s)]
<1>1. /\ u \in Seq(S) /\ Len(u) = Len(s) + Len(t) /\ Len(s) \in Nat /\ Len(t) \in Nat
      /\ \A i \in 1..(Len(s) + Len(t)) : u[i] = IF i <= Len(s) THEN s[i] ELSE t[i - Len(s)]
  BY ConcatProperties, LenProperties
<1>2. \A i \in 1..Len(s) : i \in 1..Len(u) /\ i <= Len(s)
  BY <1>1
<1>3. \A i \in 1..Len(t) : /\ Len(s) + i \in 1..Len(u) /\ ~(Len(s) + i <= Len(s))
                           /\ (Len(s) + i) - Len(s) = i
  BY <1>1
<1>4. \A i \in 1..Len(u) : IF i <= Len(s) THEN i \in 1..Len(s) ELSE i - Len(s) \in 1..Len(t)
  BY <1>1
<1> QED  BY <1>1, <1>2, <1>3, <1>4

LEMMA RemovedFirst ==
  ASSUME NEW S, NEW s \in Seq(S), NEW e
  PROVE  /\ RemoveFirst(s, e) \in Seq(S)
         /\ IsInjective(s) => IsInjective(RemoveFirst(s, e))
         /\ s = <<>> => RemoveFirst(s, e) = <<>>
<1>1. Len(s) \in Nat /\ DOMAIN s = 1..Len(s) /\ \A i \in 1..Len(s) : s[i] \in S
  BY LenProperties, ElementOfSeq
<1>2. s = <<>> => RemoveFirst(s, e) = <<>>
  <2>1. s = <<>> => Len(s) = 0
    OBVIOUS
  <2>2. Len(s) = 0 => ~\E i \in 1..Len(s) : s[i] = e
    OBVIOUS
  <2> QED  BY <2>1, <2>2 DEF RemoveFirst
<1>3. CASE ~\E i \in 1..Len(s) : s[i] = e
  BY <1>2, <1>3 DEF RemoveFirst
<1>4. CASE \E i \in 1..Len(s) : s[i] = e
  <2> DEFINE I == {i \in 1..Len(s) : s[i] = e}
             k == CHOOSE x \in I : \A y \in I : x <= y
  <2>1. k \in 1..Len(s)
    <3>1. I \subseteq Nat /\ I # {} /\ I \subseteq 1..Len(s)
      BY <1>1, <1>4
    <3> HIDE DEF I
    <3>2. \E x \in I : \A y \in I : x <= y
      BY <3>1, LeastNumber
    <3> QED  BY <3>1, <3>2
  <2>2. RemoveFirst(s, e) = SubSeq(s, 1, k - 1) \o SubSeq(s, k + 1, Len(s))
    <3>1. SelectInSeq(s, LAMBDA v : v = e) = k
      BY <1>4 DEF SelectInSeq, Min
    <3> QED  BY <1>4, <3>1 DEF RemoveFirst, RemoveAt
  <2> HIDE DEF k
  <2> DEFINE a == SubSeq(s, 1, k - 1)
             b == SubSeq(s, k + 1, Len(s))
             u == RemoveFirst(s, e)
  <2>3. /\ a \in Seq(S) /\ Len(a) = k - 1 /\ \A i \in 1..(k - 1) : a[i] = s[i]
    <3>1. k - 1 \in Int /\ 1 \in Int /\ \A i \in 1..(k - 1) : s[i] \in S
      BY <1>1, <2>1
    <3>2. /\ a \in Seq(S) /\ Len(a) = IF 1 <= k - 1 THEN (k - 1) - 1 + 1 ELSE 0
          /\ \A i \in 1..((k - 1) - 1 + 1) : a[i] = s[1 + i - 1]
      BY <3>1, SubSeqProperties
    <3>3. Len(a) = k - 1 /\ 1..((k - 1) - 1 + 1) = 1..(k - 1) /\ \A i \in 1..(k - 1) : 1 + i - 1 = i
      BY <2>1, <3>2
    <3> QED  BY <3>2, <3>3
  <2>4. /\ b \in Seq(S) /\ Len(b) = Len(s) - k /\ \A i \in 1..(Len(s) - k) : b[i] = s[k + i]
    <3>1. k + 1 \in Int /\ Len(s) \in Int /\ \A i \in (k + 1)..Len(s) : s[i] \in S
      BY <1>1, <2>1
    <3>2. /\ b \in Seq(S) /\ Len(b) = IF k + 1 <= Len(s) THEN Len(s) - (k + 1) + 1 ELSE 0
          /\ \A i \in 1..(Len(s) - (k + 1) + 1) : b[i] = s[(k + 1) + i - 1]
      BY <3>1, SubSeqProperties
    <3>3. Len(b) = Len(s) - k
      <4> HIDE DEF b
      <4>1. PICK n : n = Len(b)
        OBVIOUS
      <4>2. CASE k + 1 <= Len(s)
        <5>1. n = Len(s) - (k + 1) + 1
          BY <3>2, <4>1, <4>2
        <5> QED  BY <1>1, <2>1, <4>1, <5>1
      <4>3. CASE ~(k + 1 <= Len(s))
        <5>1. n = 0
          BY <3>2, <4>1, <4>3
        <5>2. Len(s) - k = 0
          <6>1. \A m \in Nat : \A i \in 1..m : ~(i + 1 <= m) => m - i = 0
            OBVIOUS
          <6> QED  BY <1>1, <2>1, <4>3, <6>1
        <5> QED  BY <4>1, <5>1, <5>2
      <4> QED  BY <4>2, <4>3
    <3>4. Len(s) - (k + 1) + 1 = Len(s) - k
      BY <1>1, <2>1
    <3>5. \A i \in 1..(Len(s) - k) : (k + 1) + i - 1 = k + i
      BY <1>1, <2>1
    <3> QED  BY <3>2, <3>3, <3>4, <3>5
  <2> HIDE DEF a, b, u
  <2>5. /\ u \in Seq(S) /\ Len(u) = Len(s) - 1 /\ DOMAIN u = 1..(Len(s) - 1)
        /\ \A i \in 1..(Len(s) - 1) : u[i] = IF i < k THEN s[i] ELSE s[i + 1]
    <3>1. u = a \o b
      BY <2>2 DEF a, b, u
    <3>2. /\ u \in Seq(S) /\ Len(u) = Len(a) + Len(b)
          /\ \A i \in 1..(Len(a) + Len(b)) : u[i] = IF i <= Len(a) THEN a[i] ELSE b[i - Len(a)]
      BY <2>3, <2>4, <3>1, ConcatProperties
    <3>3. Len(a) + Len(b) = Len(s) - 1
      BY <1>1, <2>1, <2>3, <2>4
    <3>4. ASSUME NEW i \in 1..(Len(s) - 1)
          PROVE  u[i] = IF i < k THEN s[i] ELSE s[i + 1]
      <4>1. CASE i < k
        <5>1. i <= Len(a) /\ i \in 1..(k - 1)
          BY <2>1, <2>3, <4>1
        <5> QED  BY <2>3, <3>2, <3>3, <4>1, <5>1
      <4>2. CASE ~(i < k)
        <5>1. /\ ~(i <= Len(a)) /\ i - Len(a) \in 1..(Len(s) - k)
              /\ k + (i - Len(a)) = i + 1
          BY <1>1, <2>1, <2>3, <4>2
        <5> QED  BY <2>4, <3>2, <3>3, <4>2, <5>1
      <4> QED  BY <4>1, <4>2
    <3>5. DOMAIN u = 1..Len(u)
      BY <3>2, LenProperties
    <3> QED  BY <3>2, <3>3, <3>4, <3>5
  <2>6. ASSUME IsInjective(s) PROVE IsInjective(u)
    <3>1. \A i, j \in 1..Len(s) : s[i] = s[j] => i = j
      BY <1>1, <2>6 DEF IsInjective
    <3>2. ASSUME NEW i \in 1..(Len(s) - 1), NEW j \in 1..(Len(s) - 1), u[i] = u[j]
          PROVE  i = j
      <4>1. /\ i \in 1..Len(s) /\ i + 1 \in 1..Len(s) /\ j \in 1..Len(s) /\ j + 1 \in 1..Len(s)
        BY <1>1
      <4>2. (IF i < k THEN i ELSE i + 1) = (IF j < k THEN j ELSE j + 1)
        BY <2>5, <3>1, <3>2, <4>1
      <4> QED  BY <1>1, <2>1, <4>2
    <3> QED  BY <2>5, <3>2 DEF IsInjective
  <2> QED  BY <1>2, <2>5, <2>6 DEF u
<1> QED  BY <1>3, <1>4

-----------------------------------------------------------------------------
(* Expectations. *)
LEMMA LineIs ==
  ASSUME NEW l \in LineOf
  PROVE  /\ l.is = "own" => l.value.notify \in BOOLEAN /\ l.value.autoboard \in BOOLEAN
         /\ l.is = "who" => /\ l.value.name \in Names
                            /\ l.value.name = Me => l.value.mail \in Mails
         /\ l.is \in {"noUser", "login", "logout", "invitation", "count"} => l.value \in Others
         /\ l.is = "address" => l.value \in Mails
         /\ l.is = "boardstyle" => l.value \in {2, 3}
         /\ l.is \in {"notify", "autoboard"} => l.value \in BOOLEAN
         /\ l.is = "saved" => l.value.name \in Opponents /\ l.value.version \in Versions
<1>1. l.is = "who" => /\ l.value.name \in Names
                      /\ l.value.name = Me => l.value.mail \in Mails
  BY NamesAssumption DEF LineOf, Names
<1>2. l.is \in {"noUser", "login", "logout", "invitation", "count"} => l.value \in Others
  BY DEF LineOf
<1>3. l.is = "saved" => l.value.name \in Opponents /\ l.value.version \in Versions
  BY DEF LineOf
<1>4. l.is = "own" => l.value.notify \in BOOLEAN /\ l.value.autoboard \in BOOLEAN
  BY DEF LineOf
<1>5. /\ l.is = "address" => l.value \in Mails
      /\ l.is = "boardstyle" => l.value \in {2, 3}
      /\ l.is \in {"notify", "autoboard"} => l.value \in BOOLEAN
  BY DEF LineOf
<1> QED  BY <1>1, <1>2, <1>3, <1>4, <1>5

LEMMA RequestIs ==
  ASSUME NEW w \in Expecting, mail \in Mails
  PROVE  \/ Request(w) = <<>>
         \/ \E c \in Command :
              /\ Request(w) = <<c>>
              /\ c.ask = "saved" => w.saved
              /\ c.ask = "boardstyle" => w.boardstyle /\ ~w.saved
              /\ c.ask = "notify" => w.notify
              /\ c.ask = "autoboard" => w.autoboard
<1> DEFINE P == \/ Request(w) = <<>>
                \/ \E c \in Command :
                     /\ Request(w) = <<c>>
                     /\ c.ask = "saved" => w.saved
                     /\ c.ask = "boardstyle" => w.boardstyle /\ ~w.saved
                     /\ c.ask = "notify" => w.notify
                     /\ c.ask = "autoboard" => w.autoboard
<1>1. w.counts \in Seq(Others) /\ w.who \in Seq(Names)
  BY DEF Expecting
<1>2. /\ w.counts # <<>> => Head(w.counts) \in Others
      /\ w.who # <<>> => Head(w.who) \in Names
  BY <1>1, HeadTailProperties
<1>3. ASSUME w.saved PROVE P
  BY <1>3 DEF Request, Command
<1>4. ASSUME ~w.saved, w.boardstyle PROVE P
  BY <1>4 DEF Request, Command
<1>5. ASSUME ~w.saved, ~w.boardstyle, w.notify PROVE P
  BY <1>5 DEF Request, Command
<1>6. ASSUME ~w.saved, ~w.boardstyle, ~w.notify, w.autoboard PROVE P
  BY <1>6 DEF Request, Command
<1>7. ASSUME ~w.saved, ~w.boardstyle, ~w.notify, ~w.autoboard, w.counts # <<>> PROVE P
  BY <1>2, <1>7 DEF Request, Command
<1>8. ASSUME ~w.saved, ~w.boardstyle, ~w.notify, ~w.autoboard, w.counts = <<>>, w.who # <<>>
      PROVE  P
  BY <1>2, <1>8 DEF Request, Command
<1>9. ASSUME ~w.saved, ~w.boardstyle, ~w.notify, ~w.autoboard, w.counts = <<>>, w.who = <<>>
      PROVE  P
  BY <1>9 DEF Request, Command
<1> QED  BY <1>3, <1>4, <1>5, <1>6, <1>7, <1>8, <1>9

LEMMA RequestTyped ==
  ASSUME NEW w \in Expecting, mail \in Mails
  PROVE  Request(w) \in Seq(Command)
<1>1. <<>> \in Seq(Command) /\ \A c \in Command : <<c>> \in Seq(Command)
  OBVIOUS
<1> QED  BY <1>1, RequestIs

LEMMA QueuedWho ==
  ASSUME NEW w \in Expecting, IsInjective(w.who), NEW name \in Names
  PROVE  LET q == QueueWho(w, name)
         IN /\ q \in Expecting /\ IsInjective(q.who)
            /\ q.saved = w.saved /\ q.boardstyle = w.boardstyle
            /\ q.notify = w.notify /\ q.autoboard = w.autoboard
            /\ q.address = w.address /\ q.counts = w.counts
<1>1. CASE name \in ToSet(w.who)
  BY <1>1 DEF QueueWho
<1>2. CASE name \notin ToSet(w.who)
  <2>1. PICK s : s = <<name>> \o w.who
    OBVIOUS
  <2>2. w.who \in Seq(Names) /\ <<name>> \in Seq(Names) /\ Len(<<name>>) = 1 /\ <<name>>[1] = name
    BY DEF Expecting
  <2>3. /\ s \in Seq(Names) /\ Len(s) = 1 + Len(w.who) /\ Len(w.who) \in Nat
        /\ \A i \in 1..Len(s) : s[i] = IF i <= 1 THEN name ELSE w.who[i - 1]
    <3>1. \A i \in 1..1 : i = 1
      OBVIOUS
    <3>2. PICK one \in Seq(Names) : one = <<name>>
      BY <2>2
    <3>3. /\ s \in Seq(Names) /\ Len(s) = Len(one) + Len(w.who) /\ Len(w.who) \in Nat
          /\ \A i \in 1..(Len(one) + Len(w.who)) :
               s[i] = IF i <= Len(one) THEN one[i] ELSE w.who[i - Len(one)]
      BY <2>1, <2>2, <3>2, ConcatProperties, LenProperties
    <3>4. Len(one) = 1 /\ one[1] = name
      BY <2>2, <3>2
    <3>5. \A i \in 1..Len(s) : i <= 1 => i = 1
      BY <3>3, <3>4
    <3> QED  BY <3>3, <3>4, <3>5
  <2>4. /\ \A i \in 1..Len(w.who) : w.who[i] # name
        /\ \A i, j \in 1..Len(w.who) : w.who[i] = w.who[j] => i = j
    <3>1. DOMAIN w.who = 1..Len(w.who)
      BY <2>2, LenProperties
    <3> QED  BY <1>2, <3>1 DEF ToSet, IsInjective
  <2>5. IsInjective(s)
    <3>1. DOMAIN s = 1..Len(s)
      BY <2>3, LenProperties
    <3>2. ASSUME NEW i \in 1..Len(s), NEW j \in 1..Len(s), s[i] = s[j] PROVE i = j
      <4>1. \A k \in 1..Len(s) : ~(k <= 1) => k - 1 \in 1..Len(w.who) /\ s[k] = w.who[k - 1]
        BY <2>3
      <4>2. \A k \in 1..Len(s) : k <= 1 => k = 1 /\ s[k] = name
        BY <2>3
      <4>3. CASE i <= 1 \/ j <= 1
        BY <2>4, <3>2, <4>1, <4>2, <4>3
      <4>4. CASE ~(i <= 1) /\ ~(j <= 1)
        <5>1. i - 1 = j - 1
          BY <2>4, <3>2, <4>1, <4>4
        <5> QED  BY <5>1
      <4> QED  BY <4>3, <4>4
    <3> QED  BY <3>1, <3>2 DEF IsInjective
  <2>6. QueueWho(w, name) = [w EXCEPT !.who = s]
    BY <1>2, <2>1 DEF QueueWho
  <2> QED  BY <2>3, <2>5, <2>6 DEF Expecting
<1> QED  BY <1>1, <1>2

LEMMA UnqueuedWho ==
  ASSUME NEW w \in Expecting, IsInjective(w.who), NEW name
  PROVE  LET q == UnqueueWho(w, name)
         IN /\ q \in Expecting /\ IsInjective(q.who) /\ (w.who = <<>> => q.who = <<>>)
            /\ q.saved = w.saved /\ q.boardstyle = w.boardstyle
            /\ q.notify = w.notify /\ q.autoboard = w.autoboard
            /\ q.address = w.address /\ q.counts = w.counts
<1>1. PICK s : s = RemoveFirst(w.who, name)
  OBVIOUS
<1>2. w.who \in Seq(Names)
  BY DEF Expecting
<1>3. s \in Seq(Names) /\ IsInjective(s) /\ (w.who = <<>> => s = <<>>)
  BY <1>1, <1>2, RemovedFirst
<1>4. UnqueueWho(w, name) = [w EXCEPT !.who = s]
  BY <1>1 DEF UnqueueWho
<1> QED  BY <1>3, <1>4 DEF Expecting

(* gibbon_session_check_expect_queues(): what it leaves behind. *)
LEMMA Requested ==
  ASSUME NEW force \in BOOLEAN, NEW w \in Expecting, NEW queued \in Seq(Command),
         NEW armed \in BOOLEAN, commands \in Seq(Command), mail \in Mails,
         IsInjective(w.who), CheckExpectQueues(force, w, queued, armed)
  PROVE  /\ expect' \in Expecting /\ IsInjective(expect'.who) /\ commands' \in Seq(Command)
         /\ expect'.saved = w.saved /\ expect'.boardstyle = w.boardstyle
         /\ expect'.notify = w.notify /\ expect'.autoboard = w.autoboard
         /\ expect'.who = w.who
         /\ timer' \in BOOLEAN /\ (timer' \/ Calm(expect'))
         /\ commands' = (commands \o queued) \o (IF MustWait(force, armed) THEN <<>> ELSE Request(w))
<1>1. /\ Remaining(w) \in Expecting /\ Remaining(w).who = w.who
      /\ Remaining(w).saved = w.saved /\ Remaining(w).boardstyle = w.boardstyle
      /\ Remaining(w).notify = w.notify /\ Remaining(w).autoboard = w.autoboard
  BY DEF Remaining, Expecting
<1>2. Request(w) \in Seq(Command) /\ commands \o queued \in Seq(Command)
  BY RequestTyped, ConcatProperties
<1>3. CASE MustWait(force, armed)
  <2>1. expect' = w /\ commands' = commands \o queued /\ timer' = armed /\ armed
    BY <1>3 DEF CheckExpectQueues, MustWait
  <2>2. commands' = (commands \o queued) \o <<>>
    BY <1>2, <2>1, ConcatEmptySeq
  <2> QED  BY <1>2, <1>3, <2>1, <2>2
<1>4. CASE ~MustWait(force, armed)
  <2>1. /\ expect' = Remaining(w) /\ commands' = commands \o queued \o Request(w)
        /\ timer' = (armed \/ ~Idle(w))
    BY <1>4 DEF CheckExpectQueues
  <2>2. commands' \in Seq(Command)
    BY <1>2, <2>1, ConcatProperties
  <2>3. timer' \in BOOLEAN /\ (timer' \/ Calm(expect'))
    <3>1. CASE armed \/ ~Idle(w)
      BY <2>1, <3>1
    <3>2. CASE ~armed /\ Idle(w)
      BY <1>1, <2>1, <3>2 DEF Idle, Calm
    <3> QED  BY <3>1, <3>2
  <2> QED  BY <1>1, <1>4, <2>1, <2>2, <2>3
<1> QED  BY <1>3, <1>4

-----------------------------------------------------------------------------
(* Handlers: what is known of the line that is handled and of the others.  *)
LEMMA Received ==
  ASSUME IInv, NEW kind, Receive(kind)
  PROVE  /\ UNCHANGED <<server, bounds>> /\ Types
         /\ Head(lines) \in LineOf /\ Head(lines).is = kind /\ Value = Head(lines).value
         /\ Head(lines) = lines[1] /\ 1 \in 1..Len(lines) /\ lines' \in Seq(LineOf)
         /\ Len(lines) \in Nat /\ Len(lines') \in Nat /\ Len(lines) = Len(lines') + 1
         /\ \A i \in 1..Len(lines') : lines'[i] = lines[i + 1] /\ i + 1 \in 1..Len(lines)
         /\ \A i \in 1..Len(lines) : i = 1 \/ (i - 1 \in 1..Len(lines') /\ lines'[i - 1] = lines[i])
         /\ \A i \in 1..Len(lines') : lines'[i].is # "own"
         /\ kind \notin {"own", "who", "whoEnd"} => initialized
         /\ kind = "who" /\ ~initialized => Value.name = Me
         /\ kind = "own" => ~initialized
         /\ kind # "whoEnd" /\ ~initialized =>
              \E n \in 1..Len(lines') :
                /\ lines'[n].is = "whoEnd"
                /\ \A i \in 1..(n - 1) : \/ lines'[i].is = "own"
                                         \/ lines'[i].is = "who" /\ lines'[i].value.name = Me
<1>1. /\ lines # <<>> /\ Head(lines).is = kind /\ lines' = Tail(lines)
      /\ UNCHANGED <<server, bounds>>
  BY DEF Receive
<1>2. lines \in Seq(LineOf) /\ Greeted
  BY DEF IInv, Types
<1>3. /\ Head(lines) \in LineOf /\ Head(lines) = lines[1] /\ 1 \in 1..Len(lines)
      /\ lines' \in Seq(LineOf)
      /\ Len(lines) \in Nat /\ Len(lines') \in Nat /\ Len(lines) = Len(lines') + 1
      /\ \A i \in 1..Len(lines') : lines'[i] = lines[i + 1] /\ i + 1 \in 1..Len(lines)
      /\ \A i \in 1..Len(lines) : i = 1 \/ (i - 1 \in 1..Len(lines') /\ lines'[i - 1] = lines[i])
  BY <1>1, <1>2, TailSeq
<1>4. \A i \in 1..Len(lines') : lines'[i].is # "own"
  <2>1. \A i \in 1..Len(lines) : lines[i].is = "own" => i = 1
    BY <1>2 DEF Greeted
  <2>2. ASSUME NEW i \in 1..Len(lines') PROVE lines'[i].is # "own"
    <3>1. lines'[i] = lines[i + 1] /\ i + 1 \in 1..Len(lines)
      BY <1>3
    <3>2. i \in Nat /\ i # 0 /\ i + 1 # 1
      BY <1>3
    <3> QED  BY <2>1, <3>1, <3>2, Zenon
  <2> QED  BY <2>2
<1>5. Value = Head(lines).value
  BY DEF Value
<1>6. kind = "own" => ~initialized
  BY <1>1, <1>2, <1>3 DEF Greeted
<1>7. ASSUME ~initialized
      PROVE  /\ kind \in {"own", "who", "whoEnd"}
             /\ kind = "who" => Value.name = Me
             /\ kind # "whoEnd" =>
                  \E n \in 1..Len(lines') :
                    /\ lines'[n].is = "whoEnd"
                    /\ \A i \in 1..(n - 1) : \/ lines'[i].is = "own"
                                             \/ lines'[i].is = "who" /\ lines'[i].value.name = Me
  <2>1. PICK n \in 1..Len(lines) :
          /\ lines[n].is = "whoEnd"
          /\ \A i \in 1..(n - 1) : \/ lines[i].is = "own"
                                   \/ lines[i].is = "who" /\ lines[i].value.name = Me
    BY <1>2, <1>7 DEF Greeted
  <2>2. CASE n = 1
    BY <1>1, <1>3, <2>1, <2>2
  <2>3. CASE n # 1
    <3>1. n - 1 \in 1..Len(lines') /\ lines'[n - 1].is = "whoEnd"
      BY <1>3, <2>1, <2>3
    <3>2. \A i \in 1..((n - 1) - 1) : /\ i \in 1..Len(lines') /\ i + 1 \in 1..(n - 1)
                                      /\ lines'[i] = lines[i + 1]
      BY <1>3, <3>1
    <3>3. 1 \in 1..(n - 1)
      BY <2>3, <3>1
    <3>4. kind \in {"own", "who"} /\ (kind = "who" => Value.name = Me)
      BY <1>1, <1>3, <1>5, <2>1, <3>3
    <3>5. \A i \in 1..((n - 1) - 1) : \/ lines'[i].is = "own"
                                      \/ lines'[i].is = "who" /\ lines'[i].value.name = Me
      BY <2>1, <3>2
    <3> QED  BY <3>1, <3>4, <3>5
  <2> QED  BY <2>2, <2>3
<1> QED  BY <1>1, <1>3, <1>4, <1>5, <1>6, <1>7 DEF IInv

(* The parts of the invariant that most handlers leave alone. *)
LEMMA Kept ==
  ASSUME IInv, NEW kind, Receive(kind), kind # "whoEnd",
         expect' \in Expecting, IsInjective(expect'.who), commands' \in Seq(Command),
         timer' \in BOOLEAN, initialized' = initialized, checked' \in BOOLEAN,
         players' \subseteq Names, mail' \in Mails,
         saved' \in [Opponents -> Versions], files' \in [Opponents -> Versions],
         initialized => timer' \/ Calm(expect'),
         ~initialized => ~expect'.saved /\ ~expect'.boardstyle /\ ~timer'
  PROVE  IInv'
<1>1. Types'
  <2>1. UNCHANGED <<server, bounds>> /\ Types /\ lines' \in Seq(LineOf)
    BY Received
  <2> QED  BY <2>1 DEF Types, server, bounds
<1>2. Greeted'
  BY Received DEF Greeted
<1> QED  BY <1>1, <1>2 DEF IInv

(* The commands a handler queues: one setting at most is asked for.        *)
LEMMA NothingSent ==
  ASSUME Types, NEW kind, commands' = commands
  PROVE  \E q \in Seq(Command) : Sends(kind, q)
<1>1. <<>> \in Seq(Command) /\ Len(<<>>) = 0 /\ commands \o <<>> = commands
  BY ConcatEmptySeq, EmptySeq DEF Types
<1>2. Sends(kind, <<>>)
  BY <1>1 DEF Sends
<1> QED  BY <1>1, <1>2

LEMMA PlainSent ==
  ASSUME Types, NEW kind, NEW c \in Command, c.ask \notin ChainAsks,
         commands' = Append(commands, c)
  PROVE  commands' \in Seq(Command) /\ \E q \in Seq(Command) : Sends(kind, q)
<1>1. <<c>> \in Seq(Command) /\ Len(<<c>>) = 1 /\ <<c>>[1] = c
  OBVIOUS
<1>2. commands' = commands \o <<c>> /\ commands' \in Seq(Command)
  BY AppendIsConcat, AppendProperties DEF Types
<1>3. c.ask # "notify" /\ c.ask # "autoboard"
  BY DEF ChainAsks
<1>4. \A i \in 1..1 : i = 1
  OBVIOUS
<1>5. Sends(kind, <<c>>)
  BY <1>1, <1>2, <1>3, <1>4 DEF Sends
<1> QED  BY <1>1, <1>2, <1>5

LEMMA RequestSent ==
  ASSUME Types, NEW kind, NEW force \in BOOLEAN, NEW w \in Expecting, IsInjective(w.who),
         NEW queued \in Seq(Command), NEW armed \in BOOLEAN,
         \A i \in 1..Len(queued) : queued[i].ask \notin ChainAsks,
         CheckExpectQueues(force, w, queued, armed),
         \/ MustWait(force, armed)
         \/ Forced(kind) /\ initialized'
         \/ Calm(w)
  PROVE  /\ expect' \in Expecting /\ IsInjective(expect'.who) /\ commands' \in Seq(Command)
         /\ expect'.saved = w.saved /\ expect'.boardstyle = w.boardstyle
         /\ expect'.notify = w.notify /\ expect'.autoboard = w.autoboard
         /\ timer' \in BOOLEAN /\ (timer' \/ Calm(expect'))
         /\ \E q \in Seq(Command) : Sends(kind, q)
<1>1. /\ expect' \in Expecting /\ IsInjective(expect'.who) /\ commands' \in Seq(Command)
      /\ expect'.saved = w.saved /\ expect'.boardstyle = w.boardstyle
      /\ expect'.notify = w.notify /\ expect'.autoboard = w.autoboard
      /\ timer' \in BOOLEAN /\ (timer' \/ Calm(expect'))
      /\ commands' = (commands \o queued) \o (IF MustWait(force, armed) THEN <<>> ELSE Request(w))
  BY Requested DEF Types
<1>2. PICK r, q : /\ r = IF MustWait(force, armed) THEN <<>> ELSE Request(w)
                  /\ q = queued \o r
  OBVIOUS
<1>3. /\ r \in Seq(Command)
      /\ \/ Len(r) = 0
         \/ /\ Len(r) = 1 /\ ~MustWait(force, armed)
            /\ r[1].ask = "saved" => w.saved
            /\ r[1].ask = "boardstyle" => w.boardstyle
            /\ r[1].ask = "notify" => w.notify
            /\ r[1].ask = "autoboard" => w.autoboard
  <2>1. <<>> \in Seq(Command) /\ Len(<<>>) = 0
    OBVIOUS
  <2>2. \A c \in Command : <<c>> \in Seq(Command) /\ Len(<<c>>) = 1 /\ <<c>>[1] = c
    OBVIOUS
  <2> QED  BY <1>2, <2>1, <2>2, RequestIs DEF Types
<1>4. commands' = commands \o q /\ q \in Seq(Command)
  <2>1. commands \in Seq(Command) /\ q \in Seq(Command)
    BY <1>2, <1>3, ConcatProperties DEF Types
  <2>2. (commands \o queued) \o r = commands \o (queued \o r)
    BY <1>3, <2>1, ConcatAssociative
  <2> QED  BY <1>1, <1>2, <2>1, <2>2
<1>5. /\ Len(queued) \in Nat
      /\ \A i \in 1..Len(q) : \/ i \in 1..Len(queued) /\ q[i] = queued[i]
                              \/ i - Len(queued) \in 1..Len(r) /\ q[i] = r[i - Len(queued)]
  BY <1>2, <1>3, JoinSeq
<1>6. ASSUME NEW i \in 1..Len(q), q[i].ask \in ChainAsks
      PROVE  /\ i = Len(queued) + 1 /\ Len(r) = 1 /\ q[i] = r[1]
  <2>1. i - Len(queued) \in 1..Len(r) /\ q[i] = r[i - Len(queued)]
    BY <1>5, <1>6
  <2>2. Len(r) = 1
    BY <1>3, <2>1
  <2>3. i - Len(queued) = 1
    BY <2>1, <2>2
  <2>4. i = Len(queued) + 1
    BY <1>5, <2>3
  <2> QED  BY <2>1, <2>2, <2>3, <2>4
<1>7. ASSUME NEW i \in 1..Len(q), q[i].ask \in ChainAsks
      PROVE  /\ Forced(kind) /\ initialized'
             /\ q[i].ask = "notify" => expect'.notify
             /\ q[i].ask = "autoboard" => expect'.autoboard
  <2>1. Len(r) = 1 /\ q[i] = r[1]
    BY <1>6, <1>7
  <2>2. ~MustWait(force, armed) /\ ~Calm(w)
    BY <1>3, <1>7, <2>1 DEF ChainAsks, Calm
  <2> QED  BY <1>1, <1>3, <2>1, <2>2
<1>8. Sends(kind, q)
  <2>1. \A i, j \in 1..Len(q) : {q[i].ask, q[j].ask} \subseteq ChainAsks => i = j
    BY <1>6
  <2>2. "notify" \in ChainAsks /\ "autoboard" \in ChainAsks
    BY DEF ChainAsks
  <2> QED  BY <1>4, <1>7, <2>1, <2>2 DEF Sends
<1> QED  BY <1>1, <1>4, <1>8

(* The same when the caller has queued nothing. *)
LEMMA OnlyRequestSent ==
  ASSUME Types, NEW kind, NEW force \in BOOLEAN, NEW w \in Expecting, IsInjective(w.who),
         NEW armed \in BOOLEAN, CheckExpectQueues(force, w, <<>>, armed),
         \/ MustWait(force, armed)
         \/ Forced(kind) /\ initialized'
         \/ Calm(w)
  PROVE  /\ expect' \in Expecting /\ IsInjective(expect'.who) /\ commands' \in Seq(Command)
         /\ expect'.saved = w.saved /\ expect'.boardstyle = w.boardstyle
         /\ expect'.notify = w.notify /\ expect'.autoboard = w.autoboard
         /\ timer' \in BOOLEAN /\ (timer' \/ Calm(expect'))
         /\ \E q \in Seq(Command) : Sends(kind, q)
<1>1. PICK none : none = <<>>
  OBVIOUS
<1>2. none \in Seq(Command) /\ Len(none) = 0
  BY <1>1
<1>3. \A i \in 1..Len(none) : none[i].ask \notin ChainAsks
  BY <1>2
<1>4. CheckExpectQueues(force, w, none, armed)
  BY <1>1, Zenon
<1> QED  BY <1>2, <1>3, <1>4, RequestSent

-----------------------------------------------------------------------------
(* The handlers, one by one. *)
LEMMA OwnInfoStep == IInv /\ HandleOwnInfo => IInv' /\ Effect("own")
<1> SUFFICES ASSUME IInv, HandleOwnInfo PROVE IInv' /\ Effect("own")
  OBVIOUS
<1>1. /\ Receive("own")
      /\ expect' = [expect EXCEPT !.notify = @ \/ ~Value.notify,
                                  !.autoboard = @ \/ ~Value.autoboard]
      /\ UNCHANGED <<timer, initialized, checked, players, saved, files, mail, commands>>
  BY DEF HandleOwnInfo
<1>2. Types /\ ~initialized
  BY <1>1, Received
<1>3. /\ expect' \in Expecting /\ expect'.who = expect.who
      /\ expect'.saved = expect.saved /\ expect'.boardstyle = expect.boardstyle
      /\ expect'.notify = (expect.notify \/ ~Value.notify)
      /\ expect'.autoboard = (expect.autoboard \/ ~Value.autoboard)
  BY <1>1, <1>2 DEF Types, Expecting
<1>4. IInv'
  BY <1>1, <1>2, <1>3, Kept DEF IInv, Types, Greeted
<1>5. \E q \in Seq(Command) : Sends("own", q)
  BY <1>1, <1>2, NothingSent
<1> QED  BY <1>1, <1>2, <1>3, <1>4, <1>5 DEF Effect, Types

LEMMA WhoInfoEndStep == IInv /\ HandleWhoInfoEnd => IInv' /\ Effect("whoEnd")
<1> SUFFICES ASSUME IInv, HandleWhoInfoEnd PROVE IInv' /\ Effect("whoEnd")
  OBVIOUS
<1>1. /\ Receive("whoEnd")
      /\ UNCHANGED <<checked, players, saved, files, mail>>
      /\ \/ initialized /\ UNCHANGED <<initialized, expect, timer, commands>>
         \/ /\ ~initialized /\ initialized' = TRUE
            /\ CheckExpectQueues(TRUE,
                 QueueWho([expect EXCEPT !.boardstyle = TRUE, !.saved = TRUE], Me),
                 <<>>, TRUE)
  BY DEF HandleWhoInfoEnd, session
<1>2. /\ UNCHANGED <<server, bounds>> /\ Types /\ lines' \in Seq(LineOf)
      /\ \A i \in 1..Len(lines') : lines'[i].is # "own"
  BY <1>1, Received
<1>3. CASE initialized /\ UNCHANGED <<initialized, expect, timer, commands>>
  <2>1. Types'
    BY <1>1, <1>2, <1>3 DEF Types, server, bounds
  <2>2. Greeted'
    BY <1>2, <1>3 DEF Greeted
  <2>3. (timer \/ Calm(expect))'
    BY <1>3 DEF IInv, Calm
  <2>4. \E q \in Seq(Command) : Sends("whoEnd", q)
    BY <1>2, <1>3, NothingSent
  <2> QED  BY <1>1, <1>3, <2>1, <2>2, <2>3, <2>4 DEF IInv, Effect
<1>4. CASE /\ ~initialized /\ initialized' = TRUE
           /\ CheckExpectQueues(TRUE,
                QueueWho([expect EXCEPT !.boardstyle = TRUE, !.saved = TRUE], Me),
                <<>>, TRUE)
  <2>1. PICK v : v = [expect EXCEPT !.boardstyle = TRUE, !.saved = TRUE]
    OBVIOUS
  <2>2. /\ v \in Expecting /\ IsInjective(v.who)
        /\ v.notify = expect.notify /\ v.autoboard = expect.autoboard /\ v.saved
    BY <1>2, <2>1 DEF Types, Expecting
  <2>3. PICK w : w = QueueWho(v, Me)
    OBVIOUS
  <2>4. /\ w \in Expecting /\ IsInjective(w.who)
        /\ w.notify = expect.notify /\ w.autoboard = expect.autoboard /\ w.saved
    BY <2>2, <2>3, QueuedWho DEF Names
  <2>5. CheckExpectQueues(TRUE, w, <<>>, TRUE)
    BY <1>4, <2>1, <2>3, Zenon
  <2>6. /\ expect' \in Expecting /\ IsInjective(expect'.who) /\ commands' \in Seq(Command)
        /\ expect'.notify = w.notify /\ expect'.autoboard = w.autoboard
        /\ timer' \in BOOLEAN /\ (timer' \/ Calm(expect'))
        /\ \E q \in Seq(Command) : Sends("whoEnd", q)
    <3>1. Forced("whoEnd") /\ initialized'
      BY <1>4 DEF Forced
    <3> QED  BY <1>2, <2>4, <2>5, <3>1, OnlyRequestSent
  <2>7. Types'
    BY <1>1, <1>2, <1>4, <2>6 DEF Types, server, bounds
  <2>8. Greeted'
    BY <1>2, <1>4 DEF Greeted
  <2>9. commands' = commands \o <<[ask |-> "saved"]>>
    <3>1. Request(w) = <<[ask |-> "saved"]>>
      BY <2>4 DEF Request
    <3>2. commands' = (commands \o <<>>) \o Request(w)
      BY <2>5 DEF CheckExpectQueues, MustWait
    <3>3. commands \o <<>> = commands
      BY <1>2, ConcatEmptySeq DEF Types
    <3> QED  BY <3>1, <3>2, <3>3
  <2> QED  BY <1>1, <1>4, <2>4, <2>6, <2>7, <2>8, <2>9 DEF IInv, Effect
<1> QED  BY <1>1, <1>3, <1>4

(* gibbon_session_check_address() *)
LEMMA AddressChecked ==
  ASSUME Types, NEW kind, NEW remote \in Mails, CheckAddress(remote)
  PROVE  /\ checked' \in BOOLEAN /\ mail' \in Mails /\ commands' \in Seq(Command)
         /\ \E q \in Seq(Command) : Sends(kind, q)
<1>1. CASE Contradicts(remote)
  <2>1. PICK c : c = [ask |-> "address", of |-> mail]
    OBVIOUS
  <2>2. c \in Command /\ c.ask \notin ChainAsks
    BY <2>1 DEF Types, Command, ChainAsks
  <2>3. checked' = TRUE /\ commands' = Append(commands, c) /\ mail' = mail
    BY <1>1, <2>1 DEF CheckAddress
  <2> QED  BY <2>2, <2>3, PlainSent DEF Types
<1>2. CASE ~Contradicts(remote)
  <2>1. checked' = TRUE /\ mail' = remote /\ commands' = commands
    BY <1>2 DEF CheckAddress
  <2> QED  BY <2>1, NothingSent DEF Types
<1> QED  BY <1>1, <1>2

LEMMA WhoInfoStep == IInv /\ HandleWhoInfo => IInv' /\ Effect("who")
<1> SUFFICES ASSUME IInv, HandleWhoInfo PROVE IInv' /\ Effect("who")
  OBVIOUS
<1>1. PICK w : w = UnqueueWho(expect, Value.name)
  OBVIOUS
<1>2. /\ Receive("who") /\ players' = players \cup {Value.name}
      /\ UNCHANGED <<timer, initialized, saved, files>>
      /\ IF Value.name = Me
         THEN /\ CheckAddress(Value.mail)
              /\ expect' = [w EXCEPT !.address = @ \/ Contradicts(Value.mail)]
         ELSE expect' = w /\ UNCHANGED <<mail, checked, commands>>
  BY <1>1 DEF HandleWhoInfo
<1>3. Types /\ Value.name \in Names /\ (Value.name = Me => Value.mail \in Mails)
  BY <1>2, Received, LineIs
<1>4. /\ w \in Expecting /\ IsInjective(w.who) /\ (expect.who = <<>> => w.who = <<>>)
      /\ w.saved = expect.saved /\ w.boardstyle = expect.boardstyle
      /\ w.notify = expect.notify /\ w.autoboard = expect.autoboard
  BY <1>1, <1>3, UnqueuedWho DEF Types
<1>5. /\ expect' \in Expecting /\ expect'.who = w.who
      /\ expect'.saved = expect.saved /\ expect'.boardstyle = expect.boardstyle
      /\ expect'.notify = expect.notify /\ expect'.autoboard = expect.autoboard
  BY <1>2, <1>4 DEF Expecting
<1>6. /\ checked' \in BOOLEAN /\ mail' \in Mails /\ commands' \in Seq(Command)
      /\ \E q \in Seq(Command) : Sends("who", q)
  <2>1. CASE Value.name = Me
    BY <1>2, <1>3, <2>1, AddressChecked
  <2>2. CASE Value.name # Me
    BY <1>2, <1>3, <2>2, NothingSent DEF Types
  <2> QED  BY <2>1, <2>2
<1>7. initialized => timer' \/ Calm(expect')
  BY <1>2, <1>4, <1>5 DEF IInv, Calm
<1>8. IInv'
  BY <1>2, <1>3, <1>4, <1>5, <1>6, <1>7, Kept DEF IInv, Types, Greeted
<1> QED  BY <1>2, <1>3, <1>5, <1>6, <1>8 DEF Effect, Types

LEMMA NoSuchUserStep == IInv /\ HandleNoSuchUser => IInv' /\ Effect("noUser")
<1> SUFFICES ASSUME IInv, HandleNoSuchUser PROVE IInv' /\ Effect("noUser")
  OBVIOUS
<1>1. /\ Receive("noUser") /\ players' = players \ {Value}
      /\ expect' = UnqueueWho(expect, Value)
      /\ UNCHANGED <<timer, initialized, checked, saved, files, mail, commands>>
  BY DEF HandleNoSuchUser
<1>2. Types /\ initialized
  BY <1>1, Received
<1>3. /\ expect' \in Expecting /\ IsInjective(expect'.who)
      /\ (expect.who = <<>> => expect'.who = <<>>)
      /\ expect'.saved = expect.saved /\ expect'.boardstyle = expect.boardstyle
      /\ expect'.notify = expect.notify /\ expect'.autoboard = expect.autoboard
  BY <1>1, <1>2, UnqueuedWho DEF Types
<1>4. timer' \/ Calm(expect')
  BY <1>1, <1>2, <1>3 DEF IInv, Calm
<1>5. IInv'
  BY <1>1, <1>2, <1>3, <1>4, Kept DEF Types
<1>6. \E q \in Seq(Command) : Sends("noUser", q)
  BY <1>1, <1>2, NothingSent
<1> QED  BY <1>1, <1>2, <1>3, <1>5, <1>6 DEF Effect, Types

LEMMA ShowAddressStep == IInv /\ HandleShowAddress => IInv' /\ Effect("address")
<1> SUFFICES ASSUME IInv, HandleShowAddress PROVE IInv' /\ Effect("address")
  OBVIOUS
<1>1. /\ Receive("address") /\ CheckAddress(Value)
      /\ expect' = [expect EXCEPT !.address = FALSE]
      /\ UNCHANGED <<timer, initialized, players, saved, files>>
  BY DEF HandleShowAddress
<1>2. Types /\ initialized /\ Value \in Mails
  BY <1>1, Received, LineIs
<1>3. /\ expect' \in Expecting /\ expect'.who = expect.who
      /\ expect'.saved = expect.saved /\ expect'.boardstyle = expect.boardstyle
      /\ expect'.notify = expect.notify /\ expect'.autoboard = expect.autoboard
  BY <1>1, <1>2 DEF Types, Expecting
<1>4. /\ checked' \in BOOLEAN /\ mail' \in Mails /\ commands' \in Seq(Command)
      /\ \E q \in Seq(Command) : Sends("address", q)
  BY <1>1, <1>2, AddressChecked
<1>5. timer' \/ Calm(expect')
  BY <1>1, <1>2, <1>3 DEF IInv, Calm
<1>6. IInv'
  BY <1>1, <1>2, <1>3, <1>4, <1>5, Kept DEF Types
<1> QED  BY <1>1, <1>2, <1>3, <1>4, <1>6 DEF Effect, Types

LEMMA InvalidAddressStep == IInv /\ HandleInvalidAddress => IInv' /\ Effect("badAddress")
<1> SUFFICES ASSUME IInv, HandleInvalidAddress PROVE IInv' /\ Effect("badAddress")
  OBVIOUS
<1>1. /\ Receive("badAddress") /\ expect' = [expect EXCEPT !.address = FALSE]
      /\ UNCHANGED <<timer, initialized, checked, players, saved, files, mail, commands>>
  BY DEF HandleInvalidAddress
<1>2. Types /\ initialized
  BY <1>1, Received
<1>3. /\ expect' \in Expecting /\ expect'.who = expect.who
      /\ expect'.saved = expect.saved /\ expect'.boardstyle = expect.boardstyle
      /\ expect'.notify = expect.notify /\ expect'.autoboard = expect.autoboard
  BY <1>1, <1>2 DEF Types, Expecting
<1>4. timer' \/ Calm(expect')
  BY <1>1, <1>2, <1>3 DEF IInv, Calm
<1>5. IInv'
  BY <1>1, <1>2, <1>3, <1>4, Kept DEF Types
<1>6. \E q \in Seq(Command) : Sends("badAddress", q)
  BY <1>1, <1>2, NothingSent
<1> QED  BY <1>1, <1>2, <1>3, <1>5, <1>6 DEF Effect, Types

LEMMA LoginStep == IInv /\ HandleLogin => IInv' /\ Effect("login")
<1> SUFFICES ASSUME IInv, HandleLogin PROVE IInv' /\ Effect("login")
  OBVIOUS
<1>1. /\ Receive("login") /\ expect' = QueueWho(expect, Value) /\ timer' = TRUE
      /\ UNCHANGED <<initialized, checked, players, saved, files, mail, commands>>
  BY DEF HandleLogin
<1>2. Types /\ initialized /\ Value \in Names
  BY <1>1, Received, LineIs DEF Names
<1>3. /\ expect' \in Expecting /\ IsInjective(expect'.who)
      /\ expect'.saved = expect.saved /\ expect'.boardstyle = expect.boardstyle
      /\ expect'.notify = expect.notify /\ expect'.autoboard = expect.autoboard
  BY <1>1, <1>2, QueuedWho DEF Types
<1>4. IInv'
  BY <1>1, <1>2, <1>3, Kept DEF Types
<1>5. \E q \in Seq(Command) : Sends("login", q)
  BY <1>1, <1>2, NothingSent
<1> QED  BY <1>1, <1>2, <1>3, <1>4, <1>5 DEF Effect, Types

LEMMA LogoutStep == IInv /\ HandleLogout => IInv' /\ Effect("logout")
<1> SUFFICES ASSUME IInv, HandleLogout PROVE IInv' /\ Effect("logout")
  OBVIOUS
<1>1. PICK w : w = UnqueueWho(expect, Value)
  OBVIOUS
<1>2. /\ Receive("logout") /\ players' = players \ {Value}
      /\ \/ expect' = w /\ UNCHANGED timer
         \/ \E opponent \in Names \ {Value} :
              expect' = QueueWho(w, opponent) /\ timer' = TRUE
      /\ UNCHANGED <<initialized, checked, saved, files, mail, commands>>
  BY <1>1 DEF HandleLogout
<1>3. Types /\ initialized
  BY <1>2, Received
<1>4. /\ w \in Expecting /\ IsInjective(w.who) /\ (expect.who = <<>> => w.who = <<>>)
      /\ w.saved = expect.saved /\ w.boardstyle = expect.boardstyle
      /\ w.notify = expect.notify /\ w.autoboard = expect.autoboard
  BY <1>1, <1>3, UnqueuedWho DEF Types
<1>5. /\ expect' \in Expecting /\ IsInjective(expect'.who)
      /\ expect'.saved = expect.saved /\ expect'.boardstyle = expect.boardstyle
      /\ expect'.notify = expect.notify /\ expect'.autoboard = expect.autoboard
      /\ timer' \in BOOLEAN /\ (timer' \/ Calm(expect'))
  <2>1. CASE expect' = w /\ UNCHANGED timer
    BY <1>3, <1>4, <2>1 DEF IInv, Types, Calm
  <2>2. CASE \E opponent \in Names \ {Value} : expect' = QueueWho(w, opponent) /\ timer' = TRUE
    BY <1>4, <2>2, QueuedWho
  <2> QED  BY <1>2, <2>1, <2>2
<1>6. IInv'
  BY <1>2, <1>3, <1>5, Kept DEF Types
<1>7. \E q \in Seq(Command) : Sends("logout", q)
  BY <1>2, <1>3, NothingSent
<1> QED  BY <1>2, <1>3, <1>5, <1>6, <1>7 DEF Effect, Types

LEMMA InvitationStep == IInv /\ HandleInvitation => IInv' /\ Effect("invitation")
<1> SUFFICES ASSUME IInv, HandleInvitation PROVE IInv' /\ Effect("invitation")
  OBVIOUS
<1>1. PICK asked, queued, w :
        /\ asked = IF Value \in players THEN expect ELSE QueueWho(expect, Value)
        /\ queued = IF Value \in players THEN <<>> ELSE <<[ask |-> "who", of |-> Value]>>
        /\ w = [asked EXCEPT !.counts = Append(@, Value)]
  OBVIOUS
<1>2. PICK armed : armed = (timer \/ Value \notin players)
  OBVIOUS
<1>3. /\ Receive("invitation")
      /\ CheckExpectQueues(FALSE, w, queued, armed)
      /\ UNCHANGED <<initialized, checked, players, saved, files, mail>>
  <2>1. /\ Receive("invitation")
        /\ CheckExpectQueues(FALSE,
             [(IF Value \in players THEN expect ELSE QueueWho(expect, Value))
                EXCEPT !.counts = Append(@, Value)],
             IF Value \in players THEN <<>> ELSE <<[ask |-> "who", of |-> Value]>>,
             timer \/ ~(Value \in players))
        /\ UNCHANGED <<initialized, checked, players, saved, files, mail>>
    BY Zenon DEF HandleInvitation
  <2> QED  BY <1>1, <1>2, <2>1, Zenon
<1>4. Types /\ initialized /\ Value \in Others /\ Value \in Names
  BY <1>3, Received, LineIs DEF Names
<1>5. /\ asked \in Expecting /\ IsInjective(asked.who)
      /\ asked.saved = expect.saved /\ asked.boardstyle = expect.boardstyle
      /\ asked.notify = expect.notify /\ asked.autoboard = expect.autoboard
      /\ Value \in players => asked = expect
  BY <1>1, <1>4, QueuedWho DEF Types
<1>6. /\ w \in Expecting /\ IsInjective(w.who) /\ w.who = asked.who
      /\ w.saved = expect.saved /\ w.boardstyle = expect.boardstyle
      /\ w.notify = expect.notify /\ w.autoboard = expect.autoboard
  <2>1. Append(asked.counts, Value) \in Seq(Others)
    BY <1>4, <1>5, AppendProperties DEF Expecting
  <2> QED  BY <1>1, <1>5, <2>1 DEF Expecting
<1>7. queued \in Seq(Command) /\ \A i \in 1..Len(queued) : queued[i].ask \notin ChainAsks
  <2>1. PICK c : c = [ask |-> "who", of |-> Value]
    OBVIOUS
  <2>2. c \in Command /\ c.ask \notin ChainAsks
    BY <1>4, <2>1 DEF Command, ChainAsks
  <2>3. <<c>> \in Seq(Command) /\ Len(<<c>>) = 1 /\ <<c>>[1] = c
    BY <2>2
  <2>4. <<>> \in Seq(Command) /\ Len(<<>>) = 0
    OBVIOUS
  <2>5. queued = <<>> \/ queued = <<c>>
    BY <1>1, <2>1
  <2>6. (\A i \in 1..0 : FALSE) /\ \A i \in 1..1 : i = 1
    OBVIOUS
  <2> QED  BY <2>2, <2>3, <2>4, <2>5, <2>6
<1>8. armed \in BOOLEAN /\ (MustWait(FALSE, armed) \/ Calm(w))
  <2>1. CASE armed
    BY <2>1 DEF MustWait
  <2>2. CASE ~armed
    <3>1. ~timer /\ Value \in players
      BY <1>2, <2>2
    <3>2. Calm(expect)
      BY <1>4, <3>1 DEF IInv
    <3> QED  BY <1>2, <1>5, <1>6, <2>2, <3>1, <3>2 DEF Calm
  <2> QED  BY <1>2, <2>1, <2>2
<1>9. /\ expect' \in Expecting /\ IsInjective(expect'.who) /\ commands' \in Seq(Command)
      /\ expect'.saved = w.saved /\ expect'.boardstyle = w.boardstyle
      /\ expect'.notify = w.notify /\ expect'.autoboard = w.autoboard
      /\ timer' \in BOOLEAN /\ (timer' \/ Calm(expect'))
      /\ \E q \in Seq(Command) : Sends("invitation", q)
  BY <1>3, <1>4, <1>6, <1>7, <1>8, RequestSent
<1>10. IInv'
  BY <1>3, <1>4, <1>9, Kept DEF Types
<1> QED  BY <1>3, <1>4, <1>6, <1>9, <1>10 DEF Effect, Types

LEMMA SavedCountStep == IInv /\ HandleSavedCount => IInv' /\ Effect("count")
<1> SUFFICES ASSUME IInv, HandleSavedCount PROVE IInv' /\ Effect("count")
  OBVIOUS
<1>1. PICK s, w : /\ s = RemoveFirst(expect.counts, Value)
                  /\ w = [expect EXCEPT !.counts = s]
  OBVIOUS
<1>2. /\ Receive("count") /\ CheckExpectQueues(FALSE, w, <<>>, timer)
      /\ UNCHANGED <<initialized, checked, players, saved, files, mail>>
  <2>1. w = [expect EXCEPT !.counts = RemoveFirst(@, Value)]
    BY <1>1
  <2> QED  BY <2>1, Zenon DEF HandleSavedCount
<1>3. Types /\ initialized
  BY <1>2, Received
<1>4. s \in Seq(Others)
  BY <1>1, <1>3, RemovedFirst DEF Types, Expecting
<1>5. /\ w \in Expecting /\ IsInjective(w.who) /\ w.who = expect.who
      /\ w.saved = expect.saved /\ w.boardstyle = expect.boardstyle
      /\ w.notify = expect.notify /\ w.autoboard = expect.autoboard
  BY <1>1, <1>3, <1>4 DEF Types, Expecting
<1>6. timer \in BOOLEAN /\ (MustWait(FALSE, timer) \/ Calm(w))
  BY <1>3, <1>5 DEF IInv, Types, MustWait, Calm
<1>7. /\ expect' \in Expecting /\ IsInjective(expect'.who) /\ commands' \in Seq(Command)
      /\ expect'.saved = w.saved /\ expect'.boardstyle = w.boardstyle
      /\ expect'.notify = w.notify /\ expect'.autoboard = w.autoboard
      /\ timer' \in BOOLEAN /\ (timer' \/ Calm(expect'))
      /\ \E q \in Seq(Command) : Sends("count", q)
  BY <1>2, <1>3, <1>5, <1>6, OnlyRequestSent
<1>8. IInv'
  BY <1>2, <1>3, <1>7, Kept DEF Types
<1> QED  BY <1>2, <1>3, <1>5, <1>7, <1>8 DEF Effect, Types

LEMMA ShowSettingStep == IInv /\ HandleShowSetting => IInv' /\ Effect("boardstyle")
<1> SUFFICES ASSUME IInv, HandleShowSetting PROVE IInv' /\ Effect("boardstyle")
  OBVIOUS
<1>1. PICK w : w = [expect EXCEPT !.boardstyle = Value # 3]
  OBVIOUS
<1>2. /\ Receive("boardstyle")
      /\ IF expect.boardstyle \/ w.boardstyle
         THEN CheckExpectQueues(TRUE, w, <<>>, timer)
         ELSE UNCHANGED <<expect, timer, commands>>
      /\ files' = IF expect.boardstyle THEN CleanSaved ELSE files
      /\ UNCHANGED <<initialized, checked, players, saved, mail>>
  BY <1>1, Zenon DEF HandleShowSetting
<1>3. Types /\ initialized
  BY <1>2, Received
<1>4. /\ w \in Expecting /\ IsInjective(w.who) /\ w.who = expect.who
      /\ w.saved = expect.saved
      /\ w.notify = expect.notify /\ w.autoboard = expect.autoboard
  BY <1>1, <1>3 DEF Types, Expecting
<1>5. /\ expect' \in Expecting /\ IsInjective(expect'.who) /\ commands' \in Seq(Command)
      /\ expect'.saved = w.saved
      /\ expect'.notify = w.notify /\ expect'.autoboard = w.autoboard
      /\ timer' \in BOOLEAN /\ (timer' \/ Calm(expect'))
      /\ \E q \in Seq(Command) : Sends("boardstyle", q)
  <2>1. CASE expect.boardstyle \/ w.boardstyle
    <3>1. CheckExpectQueues(TRUE, w, <<>>, timer) /\ timer \in BOOLEAN
      BY <1>2, <1>3, <2>1 DEF Types
    <3>2. Forced("boardstyle") /\ initialized'
      BY <1>2, <1>3 DEF Forced, ChainIs
    <3> QED  BY <1>3, <1>4, <3>1, <3>2, OnlyRequestSent
  <2>2. CASE ~(expect.boardstyle \/ w.boardstyle)
    <3>1. expect' = expect /\ timer' = timer /\ commands' = commands
      BY <1>2, <2>2
    <3>2. \E q \in Seq(Command) : Sends("boardstyle", q)
      BY <1>3, <3>1, NothingSent
    <3> QED  BY <1>3, <1>4, <3>1, <3>2 DEF IInv, Types, Calm
  <2> QED  BY <2>1, <2>2
<1>6. files' \in [Opponents -> Versions]
  BY <1>2, <1>3 DEF Types, CleanSaved, Versions
<1>7. IInv'
  BY <1>2, <1>3, <1>5, <1>6, Kept DEF Types
<1> QED  BY <1>2, <1>3, <1>4, <1>5, <1>7 DEF Effect, Types

(* gibbon_session_handle_show_toggle(), for either of the toggles. *)
LEMMA ToggleShown ==
  ASSUME IInv, NEW kind \in ChainIs, Receive(kind), initialized' = initialized,
         Value \in BOOLEAN, NEW expected \in BOOLEAN, NEW w \in Expecting,
         w.who = expect.who, w.saved = expect.saved, w.boardstyle = expect.boardstyle,
         \/ expected = expect.notify /\ w.notify = ~Value /\ w.autoboard = expect.autoboard
         \/ expected = expect.autoboard /\ w.autoboard = ~Value /\ w.notify = expect.notify,
         ShowToggle(expected, w)
  PROVE  /\ expect' \in Expecting /\ IsInjective(expect'.who) /\ commands' \in Seq(Command)
         /\ expect'.saved = w.saved /\ expect'.boardstyle = w.boardstyle
         /\ expect'.notify = w.notify /\ expect'.autoboard = w.autoboard
         /\ timer' \in BOOLEAN /\ (timer' \/ Calm(expect'))
         /\ \E q \in Seq(Command) : Sends(kind, q)
<1>1. Types /\ initialized /\ IsInjective(w.who)
  BY Received DEF Types, ChainIs
<1>2. CASE expected \/ ~Value
  <2>1. CheckExpectQueues(TRUE, w, <<>>, timer) /\ timer \in BOOLEAN
    BY <1>1, <1>2 DEF ShowToggle, Types
  <2>2. Forced(kind) /\ initialized'
    BY <1>1 DEF Forced
  <2> QED  BY <1>1, <2>1, <2>2, OnlyRequestSent
<1>3. CASE ~expected /\ Value
  <2>1. expect' = w /\ timer' = timer /\ commands' = commands
    BY <1>3 DEF ShowToggle
  <2>2. \E q \in Seq(Command) : Sends(kind, q)
    BY <1>1, <2>1, NothingSent
  <2>3. timer \/ Calm(w)
    BY <1>1, <1>3 DEF IInv, Calm
  <2> QED  BY <1>1, <2>1, <2>2, <2>3 DEF Types
<1> QED  BY <1>2, <1>3

LEMMA ShowToggleStep ==
  IInv /\ HandleShowToggle => IInv' /\ (Effect("notify") \/ Effect("autoboard"))
<1> SUFFICES ASSUME IInv, HandleShowToggle
             PROVE  IInv' /\ (Effect("notify") \/ Effect("autoboard"))
  OBVIOUS
<1>1. UNCHANGED <<initialized, checked, players, saved, files, mail>>
  BY DEF HandleShowToggle
<1>2. ASSUME Receive("notify"),
             ShowToggle(expect.notify, [expect EXCEPT !.notify = ~Value])
      PROVE  IInv' /\ Effect("notify")
  <2>1. PICK w : w = [expect EXCEPT !.notify = ~Value]
    OBVIOUS
  <2>2. Types /\ initialized /\ Value \in BOOLEAN
    BY <1>2, Received, LineIs
  <2>3. /\ w \in Expecting /\ w.who = expect.who /\ expect.notify \in BOOLEAN
        /\ w.saved = expect.saved /\ w.boardstyle = expect.boardstyle
        /\ w.notify = ~Value /\ w.autoboard = expect.autoboard
    BY <2>1, <2>2 DEF Types, Expecting
  <2>4. "notify" \in ChainIs
    BY DEF ChainIs
  <2>5. ShowToggle(expect.notify, w)
    BY <1>2, <2>1, Zenon
  <2>6. /\ expect' \in Expecting /\ IsInjective(expect'.who) /\ commands' \in Seq(Command)
        /\ expect'.saved = w.saved /\ expect'.boardstyle = w.boardstyle
        /\ expect'.notify = w.notify /\ expect'.autoboard = w.autoboard
        /\ timer' \in BOOLEAN /\ (timer' \/ Calm(expect'))
        /\ \E q \in Seq(Command) : Sends("notify", q)
    BY <1>1, <1>2, <2>2, <2>3, <2>4, <2>5, ToggleShown
  <2>7. IInv'
    BY <1>1, <1>2, <2>2, <2>6, Kept DEF Types
  <2> QED  BY <1>1, <1>2, <2>2, <2>3, <2>6, <2>7 DEF Effect, Types
<1>3. ASSUME Receive("autoboard"),
             ShowToggle(expect.autoboard, [expect EXCEPT !.autoboard = ~Value])
      PROVE  IInv' /\ Effect("autoboard")
  <2>1. PICK w : w = [expect EXCEPT !.autoboard = ~Value]
    OBVIOUS
  <2>2. Types /\ initialized /\ Value \in BOOLEAN
    BY <1>3, Received, LineIs
  <2>3. /\ w \in Expecting /\ w.who = expect.who /\ expect.autoboard \in BOOLEAN
        /\ w.saved = expect.saved /\ w.boardstyle = expect.boardstyle
        /\ w.autoboard = ~Value /\ w.notify = expect.notify
    BY <2>1, <2>2 DEF Types, Expecting
  <2>4. "autoboard" \in ChainIs
    BY DEF ChainIs
  <2>5. ShowToggle(expect.autoboard, w)
    BY <1>3, <2>1, Zenon
  <2>6. /\ expect' \in Expecting /\ IsInjective(expect'.who) /\ commands' \in Seq(Command)
        /\ expect'.saved = w.saved /\ expect'.boardstyle = w.boardstyle
        /\ expect'.notify = w.notify /\ expect'.autoboard = w.autoboard
        /\ timer' \in BOOLEAN /\ (timer' \/ Calm(expect'))
        /\ \E q \in Seq(Command) : Sends("autoboard", q)
    BY <1>1, <1>3, <2>2, <2>3, <2>4, <2>5, ToggleShown
  <2>7. IInv'
    BY <1>1, <1>3, <2>2, <2>6, Kept DEF Types
  <2> QED  BY <1>1, <1>3, <2>2, <2>3, <2>6, <2>7 DEF Effect, Types
<1> QED  BY <1>2, <1>3 DEF HandleShowToggle

LEMMA StartSavedStep == IInv /\ HandleStartSaved => IInv' /\ Effect("savedStart")
<1> SUFFICES ASSUME IInv, HandleStartSaved PROVE IInv' /\ Effect("savedStart")
  OBVIOUS
<1>1. PICK w : w = [expect EXCEPT !.saved = FALSE]
  OBVIOUS
<1>2. /\ Receive("savedStart")
      /\ IF expect.saved THEN CheckExpectQueues(TRUE, w, <<>>, timer)
                         ELSE UNCHANGED <<expect, timer, commands>>
      /\ UNCHANGED <<initialized, checked, players, saved, files, mail>>
  BY <1>1, Zenon DEF HandleStartSaved
<1>3. Types /\ initialized
  BY <1>2, Received
<1>4. /\ w \in Expecting /\ IsInjective(w.who) /\ w.who = expect.who /\ ~w.saved
      /\ w.notify = expect.notify /\ w.autoboard = expect.autoboard
  BY <1>1, <1>3 DEF Types, Expecting
<1>5. /\ expect' \in Expecting /\ IsInjective(expect'.who) /\ commands' \in Seq(Command)
      /\ ~expect'.saved
      /\ expect'.notify = w.notify /\ expect'.autoboard = w.autoboard
      /\ timer' \in BOOLEAN /\ (timer' \/ Calm(expect'))
      /\ \E q \in Seq(Command) : Sends("savedStart", q)
  <2>1. CASE expect.saved
    <3>1. CheckExpectQueues(TRUE, w, <<>>, timer) /\ timer \in BOOLEAN
      BY <1>2, <1>3, <2>1 DEF Types
    <3>2. Forced("savedStart") /\ initialized'
      BY <1>2, <1>3 DEF Forced, ChainIs
    <3> QED  BY <1>3, <1>4, <3>1, <3>2, OnlyRequestSent
  <2>2. CASE ~expect.saved
    <3>1. expect' = expect /\ timer' = timer /\ commands' = commands
      BY <1>2, <2>2
    <3>2. \E q \in Seq(Command) : Sends("savedStart", q)
      BY <1>3, <3>1, NothingSent
    <3> QED  BY <1>3, <1>4, <2>2, <3>1, <3>2 DEF IInv, Types
  <2> QED  BY <2>1, <2>2
<1>6. IInv'
  BY <1>2, <1>3, <1>5, Kept DEF Types
<1> QED  BY <1>2, <1>3, <1>4, <1>5, <1>6 DEF Effect, Types

LEMMA ShowSavedStep == IInv /\ HandleShowSaved => IInv' /\ Effect("saved")
<1> SUFFICES ASSUME IInv, HandleShowSaved PROVE IInv' /\ Effect("saved")
  OBVIOUS
<1>1. /\ Receive("saved")
      /\ IF expect.saved
         THEN /\ commands' = commands \o Request(expect)
              /\ timer' = TRUE
              /\ expect' = [expect EXCEPT !.saved = FALSE]
         ELSE UNCHANGED <<expect, timer, commands>>
      /\ saved' = [saved EXCEPT ![Value.name] = Value.version]
      /\ UNCHANGED <<initialized, checked, players, files, mail>>
  BY DEF HandleShowSaved
<1>2. Types /\ initialized /\ Value.name \in Opponents /\ Value.version \in Versions
  BY <1>1, Received, LineIs
<1>3. /\ expect' \in Expecting /\ IsInjective(expect'.who) /\ commands' \in Seq(Command)
      /\ ~expect'.saved
      /\ expect'.notify = expect.notify /\ expect'.autoboard = expect.autoboard
      /\ timer' \in BOOLEAN /\ (timer' \/ Calm(expect'))
      /\ \E q \in Seq(Command) : Sends("saved", q)
  <2>1. CASE expect.saved
    <3>1. PICK c : c = [ask |-> "saved"]
      OBVIOUS
    <3>2. c \in Command /\ c.ask = "saved" /\ <<c>> \in Seq(Command)
          /\ Len(<<c>>) = 1 /\ <<c>>[1] = c
      BY <3>1 DEF Command
    <3>3. Request(expect) = <<c>>
      BY <2>1, <3>1 DEF Request
    <3>4. commands' = commands \o <<c>> /\ commands' \in Seq(Command)
      <4>1. commands' = commands \o <<c>>
        BY <1>1, <2>1, <3>3
      <4>2. commands \in Seq(Command)
        BY <1>2 DEF Types
      <4> QED  BY <3>2, <4>1, <4>2, ConcatProperties
    <3>5. Sends("saved", <<c>>)
      <4>1. \A i \in 1..1 : i = 1
        OBVIOUS
      <4>2. Forced("saved") /\ initialized'
        BY <1>1, <1>2, <2>1 DEF Forced
      <4> QED  BY <3>2, <3>4, <4>1, <4>2 DEF Sends
    <3>6. /\ expect' \in Expecting /\ IsInjective(expect'.who) /\ ~expect'.saved
          /\ expect'.notify = expect.notify /\ expect'.autoboard = expect.autoboard
      BY <1>1, <1>2, <2>1 DEF Types, Expecting
    <3>7. timer' = TRUE
      BY <1>1, <2>1
    <3> QED  BY <3>2, <3>4, <3>5, <3>6, <3>7
  <2>2. CASE ~expect.saved
    <3>1. expect' = expect /\ timer' = timer /\ commands' = commands
      BY <1>1, <2>2
    <3>2. \E q \in Seq(Command) : Sends("saved", q)
      BY <1>2, <3>1, NothingSent
    <3>3. timer \/ Calm(expect)
      BY <1>2 DEF IInv
    <3> QED  BY <1>2, <2>2, <3>1, <3>2, <3>3 DEF Types, Calm
  <2> QED  BY <2>1, <2>2
<1>4. saved' \in [Opponents -> Versions]
  BY <1>1, <1>2 DEF Types
<1>5. IInv'
  BY <1>1, <1>2, <1>3, <1>4, Kept DEF Types
<1> QED  BY <1>1, <1>2, <1>3, <1>5 DEF Effect, Types

-----------------------------------------------------------------------------
(* The server's answers. *)
LEMMA SetAsSeq ==
  ASSUME NEW S, IsFiniteSet(S)
  PROVE  /\ SetToSeq(S) \in Seq(S)
         /\ \A x \in S : \E i \in 1..Len(SetToSeq(S)) : SetToSeq(S)[i] = x
<1> DEFINE D == 1..Cardinality(S)
<1>1. Cardinality(S) \in Nat /\ ExistsBijection(D, S)
  BY FS_CardinalityType
<1>2. PICK s : s = SetToSeq(S)
  OBVIOUS
<1>3. s \in [D -> S] /\ IsInjective(s)
  <2>1. \E f \in [D -> S] : IsInjective(f)
    BY <1>1 DEF ExistsBijection, Bijection, Injection
  <2> QED  BY <1>2, <2>1 DEF SetToSeq
<1>4. IsFiniteSet(D) /\ Cardinality(D) = Cardinality(S)
  <2>1. IsFiniteSet(D) /\ Cardinality(D) = IF 1 > Cardinality(S) THEN 0 ELSE Cardinality(S) - 1 + 1
    BY <1>1, FS_Interval
  <2> QED  BY <1>1, <2>1
<1>5. s \in Injection(D, S)
  BY <1>3 DEF Injection
<1>6. s \in Surjection(D, S)
  BY <1>4, <1>5, FS_Injection
<1>7. s \in Seq(S) /\ Len(s) = Cardinality(S)
  BY <1>1, <1>3, IsASeq, LenProperties
<1> QED  BY <1>2, <1>6, <1>7 DEF Surjection

LEMMA SavedAreFinite ==
  ASSUME NEW T, NEW f, f = [o \in T |-> Says("saved", [name |-> o, version |-> stored[o]])],
         T \subseteq Opponents
  PROVE  IsFiniteSet({Says("saved", [name |-> o, version |-> stored[o]]) : o \in T})
<1> DEFINE R == {Says("saved", [name |-> o, version |-> stored[o]]) : o \in T}
<1>1. R = {f[o] : o \in T} /\ f \in [T -> R]
  OBVIOUS
<1>2. IsFiniteSet(T)
  BY FiniteAssumption, FS_Subset
<1>3. f \in Surjection(T, R)
  BY <1>1 DEF Surjection
<1> QED  BY <1>2, <1>3, FS_Surjection

(* The list of saved matches. *)
LEMMA SavedListed ==
  ASSUME stored \in [Opponents -> Versions], NEW r, r = SavedLines
  PROVE  /\ r \in Seq(LineOf)
         /\ \A i \in 1..Len(r) :
              \/ i = 1 /\ r[i].is = "savedStart"
              \/ /\ i # 1 /\ r[i].is = "saved" /\ r[1].is = "savedStart"
                 /\ r[i].value.version = stored[r[i].value.name]
         /\ \A o \in Opponents : stored[o] # 0 =>
              \E i \in 1..Len(r) : r[i].is = "saved" /\ r[i].value.name = o
<1> DEFINE T == {p \in Opponents : stored[p] # 0}
           R == {Says("saved", [name |-> o, version |-> stored[o]]) : o \in T}
<1>1. IsFiniteSet(R)
  <2>1. PICK f : f = [o \in T |-> Says("saved", [name |-> o, version |-> stored[o]])]
    OBVIOUS
  <2> QED  BY <2>1, SavedAreFinite
<1>2. PICK s : s = SetToSeq(R)
  OBVIOUS
<1>3. s \in Seq(R) /\ \A x \in R : \E i \in 1..Len(s) : s[i] = x
  BY <1>1, <1>2, SetAsSeq
<1>4. /\ R \subseteq LineOf
      /\ \A x \in R : x.is = "saved" /\ x.value.version = stored[x.value.name]
      /\ \A o \in T : \E x \in R : x.is = "saved" /\ x.value.name = o
  <2>1. ASSUME NEW o \in T, NEW x, x = Says("saved", [name |-> o, version |-> stored[o]])
        PROVE  /\ x \in LineOf /\ x.is = "saved"
               /\ x.value.name = o /\ x.value.version = stored[o]
    BY <2>1 DEF Says, LineOf
  <2>2. ASSUME NEW x \in R
        PROVE  x \in LineOf /\ x.is = "saved" /\ x.value.version = stored[x.value.name]
    <3>1. PICK o \in T : x = Says("saved", [name |-> o, version |-> stored[o]])
      OBVIOUS
    <3> QED  BY <2>1, <3>1
  <2>3. ASSUME NEW o \in T
        PROVE  \E x \in R : x.is = "saved" /\ x.value.name = o
    <3>1. PICK x : x = Says("saved", [name |-> o, version |-> stored[o]])
      OBVIOUS
    <3>2. x \in R
      BY <3>1
    <3> HIDE DEF R
    <3> QED  BY <2>1, <3>1, <3>2
  <2> HIDE DEF R, T
  <2> QED  BY <2>2, <2>3
<1>5. PICK h : h = <<Says("savedStart", 0)>>
  OBVIOUS
<1>6. h \in Seq(LineOf) /\ Len(h) = 1 /\ h[1].is = "savedStart"
  BY <1>5 DEF Says, LineOf
<1>7. s \in Seq(LineOf) /\ \A i \in 1..Len(s) : s[i] \in R
  <2> HIDE DEF R
  <2>1. s \in Seq(LineOf)
    BY <1>3, <1>4
  <2> QED  BY <1>3, <2>1
<1>8. r = h \o s
  BY <1>2, <1>5 DEF SavedLines
<1> HIDE DEF R, T
<1>9. /\ r \in Seq(LineOf) /\ Len(s) \in Nat /\ Len(r) = 1 + Len(s)
      /\ r[1] = h[1] /\ \A i \in 1..Len(s) : r[1 + i] = s[i] /\ 1 + i \in 1..Len(r)
      /\ \A i \in 1..Len(r) : i = 1 \/ (i # 1 /\ i - 1 \in 1..Len(s) /\ r[i] = s[i - 1])
  <2>1. /\ r \in Seq(LineOf) /\ Len(s) \in Nat /\ Len(r) = Len(h) + Len(s)
        /\ \A i \in 1..Len(h) : r[i] = h[i]
        /\ \A i \in 1..Len(s) : r[Len(h) + i] = s[i] /\ Len(h) + i \in 1..Len(r)
        /\ \A i \in 1..Len(r) : \/ i \in 1..Len(h) /\ r[i] = h[i]
                                \/ i - Len(h) \in 1..Len(s) /\ r[i] = s[i - Len(h)]
    <3>1. h \in Seq(LineOf) /\ s \in Seq(LineOf)
      BY <1>6, <1>7
    <3> QED  BY <1>8, <3>1, JoinSeq
  <2>2. 1 \in 1..Len(h) /\ \A i \in 1..Len(h) : i = 1
    BY <1>6
  <2>3. \A i \in 1..Len(r) : i - 1 \in 1..Len(s) => i # 1
    BY <2>1
  <2> QED  BY <1>6, <2>1, <2>2, <2>3
<1>10. \A i \in 1..Len(r) :
         \/ i = 1 /\ r[i].is = "savedStart"
         \/ /\ i # 1 /\ r[i].is = "saved" /\ r[1].is = "savedStart"
            /\ r[i].value.version = stored[r[i].value.name]
  BY <1>4, <1>6, <1>7, <1>9
<1>11. ASSUME NEW o \in Opponents, stored[o] # 0
       PROVE  \E i \in 1..Len(r) : r[i].is = "saved" /\ r[i].value.name = o
  <2>1. PICK x \in R : x.is = "saved" /\ x.value.name = o
    BY <1>4, <1>11 DEF T
  <2>2. PICK i \in 1..Len(s) : s[i] = x
    BY <1>3
  <2> QED  BY <1>9, <2>1, <2>2
<1> QED  BY <1>9, <1>10, <1>11

LEMMA WhoListed ==
  ASSUME NEW name \in Names, address \in Mails \ BadMails, NEW r, r = WhoLines(name)
  PROVE  r \in Seq(LineOf) /\ \A i \in 1..Len(r) : r[i].is \in {"who", "whoEnd"}
<1>1. PICK l, e : /\ l = IF name = Me THEN Says("who", [name |-> Me, mail |-> address])
                                      ELSE Says("who", [name |-> name])
                  /\ e = Says("whoEnd", 0)
  OBVIOUS
<1>2. l \in LineOf /\ e \in LineOf /\ l.is = "who" /\ e.is = "whoEnd"
  BY <1>1 DEF Says, LineOf, Names
<1>3. r = <<l, e>>
  BY <1>1 DEF WhoLines
<1>4. r \in Seq(LineOf) /\ Len(r) = 2 /\ r[1] = l /\ r[2] = e
  BY <1>2, <1>3
<1>5. \A i \in 1..2 : i = 1 \/ i = 2
  OBVIOUS
<1> QED  BY <1>2, <1>4, <1>5

LEMMA OneLine ==
  ASSUME NEW l \in LineOf, NEW r, r = <<l>>
  PROVE  r \in Seq(LineOf) /\ Len(r) = 1 /\ \A i \in 1..Len(r) : i = 1 /\ r[i] = l
<1>1. r \in Seq(LineOf) /\ Len(r) = 1 /\ r[1] = l
  OBVIOUS
<1>2. \A i \in 1..1 : i = 1
  OBVIOUS
<1> QED  BY <1>1, <1>2

LEMMA Answered ==
  ASSUME IInv, ServerAnswers
  PROVE  \E r \in Seq(LineOf) : Answers(Head(commands), r)
<1>1. PICK c : c = Head(commands)
  OBVIOUS
<1>2. /\ commands # <<>> /\ commands' = Tail(commands) /\ UNCHANGED <<session, bounds>>
      /\ \/ c.ask = "saved" /\ Reply(SavedLines) /\ UNCHANGED server
         \/ /\ c.ask = "boardstyle"
            /\ style' = c.of /\ Reply(<<Says("boardstyle", c.of)>>)
            /\ UNCHANGED <<notify, autoboard, stored, address>>
         \/ /\ c.ask = "notify"
            /\ notify' = ~notify /\ Reply(<<Says("notify", notify')>>)
            /\ UNCHANGED <<style, autoboard, stored, address>>
         \/ /\ c.ask = "autoboard"
            /\ autoboard' = ~autoboard /\ Reply(<<Says("autoboard", autoboard')>>)
            /\ UNCHANGED <<style, notify, stored, address>>
         \/ c.ask = "count" /\ Reply(<<Says("count", c.of)>>) /\ UNCHANGED server
         \/ c.ask = "who" /\ Reply(WhoLines(c.of)) /\ UNCHANGED server
         \/ /\ c.ask = "who" /\ c.of # Me
            /\ Reply(<<Says("noUser", c.of)>>) /\ UNCHANGED server
         \/ /\ c.ask = "address" /\ c.of \notin BadMails
            /\ address' = c.of /\ Reply(<<Says("address", c.of)>>)
            /\ UNCHANGED <<style, notify, autoboard, stored>>
         \/ /\ c.ask = "address" /\ c.of \in BadMails
            /\ Reply(<<Says("badAddress", 0)>>) /\ UNCHANGED server
  BY <1>1 DEF ServerAnswers
<1>3. /\ Types /\ c \in Command /\ commands \in Seq(Command)
      /\ style \in 1..3 /\ address \in Mails \ BadMails
      /\ notify \in BOOLEAN /\ autoboard \in BOOLEAN /\ stored \in [Opponents -> Versions]
  <2>1. Types
    BY DEF IInv
  <2>2. commands \in Seq(Command)
    BY <2>1 DEF Types
  <2> QED  BY <1>1, <1>2, <2>1, <2>2, TailSeq DEF Types
<1> DEFINE P == \E r \in Seq(LineOf) : Answers(c, r)
<1>4. ASSUME c.ask = "saved", Reply(SavedLines), UNCHANGED server PROVE P
  <2>1. PICK r : r = SavedLines
    OBVIOUS
  <2>2. /\ r \in Seq(LineOf)
        /\ \A i \in 1..Len(r) :
             \/ i = 1 /\ r[i].is = "savedStart"
             \/ /\ i # 1 /\ r[i].is = "saved" /\ r[1].is = "savedStart"
                /\ r[i].value.version = stored[r[i].value.name]
        /\ \A o \in Opponents : stored[o] # 0 =>
             \E i \in 1..Len(r) : r[i].is = "saved" /\ r[i].value.name = o
    BY <1>3, <2>1, SavedListed
  <2>3. lines' = lines \o r
    BY <1>4, <2>1 DEF Reply
  <2>4. Answers(c, r)
    BY <1>1, <1>2, <1>3, <1>4, <2>2, <2>3 DEF Answers, server, ChainAsks
  <2> QED  BY <2>2, <2>4
<1>5. ASSUME c.ask = "boardstyle", style' = c.of, Reply(<<Says("boardstyle", c.of)>>),
             UNCHANGED <<notify, autoboard, stored, address>>
      PROVE  P
  <2>1. PICK l, r : l = Says("boardstyle", c.of) /\ r = <<l>>
    OBVIOUS
  <2>2. c.of \in {2, 3} /\ l \in LineOf /\ l.is = "boardstyle" /\ l.value = c.of
    BY <1>3, <1>5, <2>1 DEF Command, LineOf, Says
  <2>3. /\ r \in Seq(LineOf) /\ Len(r) = 1
        /\ \A i \in 1..Len(r) : i = 1 /\ r[i].is = "boardstyle" /\ r[i].value = c.of
    BY <2>1, <2>2, OneLine
  <2>4. lines' = lines \o r
    BY <1>5, <2>1 DEF Reply
  <2>5. Answers(c, r)
    BY <1>1, <1>2, <1>3, <1>5, <2>2, <2>3, <2>4 DEF Answers, ChainAsks
  <2> QED  BY <2>3, <2>5
<1>6. ASSUME c.ask = "notify", notify' = ~notify, Reply(<<Says("notify", notify')>>),
             UNCHANGED <<style, autoboard, stored, address>>
      PROVE  P
  <2>1. PICK l, r : l = Says("notify", notify') /\ r = <<l>>
    OBVIOUS
  <2>2. l \in LineOf /\ l.is = "notify" /\ l.value = notify'
    BY <1>3, <1>6, <2>1 DEF LineOf, Says
  <2>3. /\ r \in Seq(LineOf) /\ Len(r) = 1
        /\ \A i \in 1..Len(r) : i = 1 /\ r[i].is = "notify" /\ r[i].value = notify'
    BY <2>1, <2>2, OneLine
  <2>4. lines' = lines \o r
    BY <1>6, <2>1 DEF Reply
  <2>5. Answers(c, r)
    BY <1>1, <1>2, <1>3, <1>6, <2>3, <2>4 DEF Answers, ChainAsks
  <2> QED  BY <2>3, <2>5
<1>7. ASSUME c.ask = "autoboard", autoboard' = ~autoboard,
             Reply(<<Says("autoboard", autoboard')>>),
             UNCHANGED <<style, notify, stored, address>>
      PROVE  P
  <2>1. PICK l, r : l = Says("autoboard", autoboard') /\ r = <<l>>
    OBVIOUS
  <2>2. l \in LineOf /\ l.is = "autoboard" /\ l.value = autoboard'
    BY <1>3, <1>7, <2>1 DEF LineOf, Says
  <2>3. /\ r \in Seq(LineOf) /\ Len(r) = 1
        /\ \A i \in 1..Len(r) : i = 1 /\ r[i].is = "autoboard" /\ r[i].value = autoboard'
    BY <2>1, <2>2, OneLine
  <2>4. lines' = lines \o r
    BY <1>7, <2>1 DEF Reply
  <2>5. Answers(c, r)
    BY <1>1, <1>2, <1>3, <1>7, <2>3, <2>4 DEF Answers, ChainAsks
  <2> QED  BY <2>3, <2>5
<1>8. ASSUME c.ask \notin ChainAsks, UNCHANGED <<notify, autoboard, stored, style>>,
             address' \in Mails \ BadMails, NEW r \in Seq(LineOf), Reply(r),
             \A i \in 1..Len(r) : r[i].is \in {"count", "who", "whoEnd", "noUser",
                                               "address", "badAddress"}
      PROVE  P
  <2>1. Answers(c, r)
    BY <1>1, <1>2, <1>3, <1>8 DEF Answers, ChainAsks, ChainIs, Reply
  <2> QED  BY <2>1
<1>9. ASSUME c.ask = "count", Reply(<<Says("count", c.of)>>), UNCHANGED server PROVE P
  <2>1. PICK l, r : l = Says("count", c.of) /\ r = <<l>>
    OBVIOUS
  <2>2. l \in LineOf /\ l.is = "count"
    BY <1>3, <1>9, <2>1 DEF Command, LineOf, Says
  <2>3. r \in Seq(LineOf) /\ \A i \in 1..Len(r) : r[i].is = "count"
    BY <2>1, <2>2, OneLine
  <2>4. Reply(r)
    BY <1>9, <2>1
  <2> HIDE DEF P
  <2> QED  BY <1>3, <1>8, <1>9, <2>3, <2>4 DEF server, ChainAsks
<1>10. ASSUME c.ask = "who", Reply(WhoLines(c.of)), UNCHANGED server PROVE P
  <2>1. PICK r : r = WhoLines(c.of)
    OBVIOUS
  <2>2. c.of \in Names
    BY <1>3, <1>10 DEF Command
  <2>3. r \in Seq(LineOf) /\ \A i \in 1..Len(r) : r[i].is \in {"who", "whoEnd"}
    BY <1>3, <2>1, <2>2, WhoListed
  <2>4. Reply(r)
    BY <1>10, <2>1
  <2> HIDE DEF P
  <2> QED  BY <1>3, <1>8, <1>10, <2>3, <2>4 DEF server, ChainAsks
<1>11. ASSUME c.ask = "who", c.of # Me, Reply(<<Says("noUser", c.of)>>), UNCHANGED server
       PROVE  P
  <2>1. PICK l, r : l = Says("noUser", c.of) /\ r = <<l>>
    OBVIOUS
  <2>2. l \in LineOf /\ l.is = "noUser"
    BY <1>3, <1>11, <2>1 DEF Command, LineOf, Says, Names
  <2>3. r \in Seq(LineOf) /\ \A i \in 1..Len(r) : r[i].is = "noUser"
    BY <2>1, <2>2, OneLine
  <2>4. Reply(r)
    BY <1>11, <2>1
  <2> HIDE DEF P
  <2> QED  BY <1>3, <1>8, <1>11, <2>3, <2>4 DEF server, ChainAsks
<1>12. ASSUME c.ask = "address", c.of \notin BadMails, address' = c.of,
              Reply(<<Says("address", c.of)>>), UNCHANGED <<style, notify, autoboard, stored>>
       PROVE  P
  <2>1. PICK l, r : l = Says("address", c.of) /\ r = <<l>>
    OBVIOUS
  <2>2. c.of \in Mails /\ l \in LineOf /\ l.is = "address"
    BY <1>3, <1>12, <2>1 DEF Command, LineOf, Says
  <2>3. r \in Seq(LineOf) /\ \A i \in 1..Len(r) : r[i].is = "address"
    BY <2>1, <2>2, OneLine
  <2>4. Reply(r)
    BY <1>12, <2>1
  <2> HIDE DEF P
  <2> QED  BY <1>3, <1>8, <1>12, <2>2, <2>3, <2>4 DEF ChainAsks
<1>13. ASSUME c.ask = "address", Reply(<<Says("badAddress", 0)>>), UNCHANGED server PROVE P
  <2>1. PICK l, r : l = Says("badAddress", 0) /\ r = <<l>>
    OBVIOUS
  <2>2. l \in LineOf /\ l.is = "badAddress"
    BY <2>1 DEF LineOf, Says
  <2>3. r \in Seq(LineOf) /\ \A i \in 1..Len(r) : r[i].is = "badAddress"
    BY <2>1, <2>2, OneLine
  <2>4. Reply(r)
    BY <1>13, <2>1
  <2> HIDE DEF P
  <2> QED  BY <1>3, <1>8, <1>13, <2>3, <2>4 DEF server, ChainAsks
<1>14. P
  <2> HIDE DEF P
  <2> QED  BY <1>2, <1>4, <1>5, <1>6, <1>7, <1>9, <1>10, <1>11, <1>12, <1>13
<1> QED  BY <1>1, <1>14

(* Whatever the server adds, the greeting comes first. *)
LEMMA Extended ==
  ASSUME IInv, NEW r \in Seq(LineOf), lines' = lines \o r,
         \A i \in 1..Len(r) : r[i].is # "own",
         UNCHANGED <<session, stored, user, late>>, commands' \in Seq(Command), events' \in Nat,
         style' \in 1..3, address' \in Mails \ BadMails, notify' \in BOOLEAN, autoboard' \in BOOLEAN
  PROVE  IInv'
<1>1. /\ Types /\ Greeted /\ (initialized => timer \/ Calm(expect))
      /\ expect' = expect /\ timer' = timer /\ initialized' = initialized
      /\ UNCHANGED <<checked, players, saved, files, mail>>
  BY DEF IInv, session
<1>2. /\ lines' \in Seq(LineOf) /\ Len(lines) \in Nat
      /\ \A i \in 1..Len(lines) : lines'[i] = lines[i] /\ i \in 1..Len(lines')
      /\ \A i \in 1..Len(lines') : \/ i \in 1..Len(lines) /\ lines'[i] = lines[i]
                                   \/ i - Len(lines) \in 1..Len(r) /\ lines'[i] = r[i - Len(lines)]
  <2>1. lines \in Seq(LineOf)
    BY <1>1 DEF Types
  <2> QED  BY <2>1, JoinSeq
<1>3. Types'
  BY <1>1, <1>2 DEF Types
<1>4. Greeted'
  <2>1. \A i \in 1..Len(lines') : lines'[i].is = "own" => i = 1 /\ ~initialized
    BY <1>1, <1>2 DEF Greeted
  <2>2. ASSUME ~initialized
        PROVE  \E n \in 1..Len(lines') :
                 /\ lines'[n].is = "whoEnd"
                 /\ \A i \in 1..(n - 1) : \/ lines'[i].is = "own"
                                          \/ lines'[i].is = "who" /\ lines'[i].value.name = Me
    <3>1. PICK n \in 1..Len(lines) :
            /\ lines[n].is = "whoEnd"
            /\ \A i \in 1..(n - 1) : \/ lines[i].is = "own"
                                     \/ lines[i].is = "who" /\ lines[i].value.name = Me
      BY <1>1, <2>2 DEF Greeted
    <3>2. n \in 1..Len(lines') /\ lines'[n].is = "whoEnd"
      BY <1>2, <3>1
    <3>3. ASSUME NEW i \in 1..(n - 1)
          PROVE  lines'[i].is = "own" \/ (lines'[i].is = "who" /\ lines'[i].value.name = Me)
      <4>1. i \in 1..Len(lines)
        BY <1>2
      <4>2. lines'[i] = lines[i]
        BY <1>2, <4>1
      <4> QED  BY <3>1, <4>2
    <3> QED  BY <3>2, <3>3
  <2> QED  BY <1>1, <2>1, <2>2 DEF Greeted
<1> QED  BY <1>1, <1>3, <1>4 DEF IInv, Calm

LEMMA AnswersStep == IInv /\ ServerAnswers => IInv'
<1> SUFFICES ASSUME IInv, ServerAnswers PROVE IInv'
  OBVIOUS
<1>1. PICK r \in Seq(LineOf) : Answers(Head(commands), r)
  BY Answered
<1>2. PICK c : c = Head(commands)
  OBVIOUS
<1>3. Answers(c, r)
  BY <1>1, <1>2
<1>4. /\ commands # <<>> /\ commands' = Tail(commands) /\ lines' = lines \o r
      /\ UNCHANGED <<session, stored, user, late>> /\ events' = events
      /\ \A i \in 1..Len(r) : r[i].is # "own"
      /\ style' \in 1..3 /\ address' \in Mails \ BadMails
      /\ notify' = (IF c.ask = "notify" THEN ~notify ELSE notify)
      /\ autoboard' = (IF c.ask = "autoboard" THEN ~autoboard ELSE autoboard)
  BY <1>3 DEF Answers, bounds
<1>5. /\ commands \in Seq(Command) /\ events \in Nat
      /\ notify \in BOOLEAN /\ autoboard \in BOOLEAN
  BY DEF IInv, Types
<1>6. commands' \in Seq(Command)
  BY <1>4, <1>5, TailSeq
<1>7. notify' \in BOOLEAN /\ autoboard' \in BOOLEAN
  BY <1>4, <1>5
<1> QED  BY <1>4, <1>5, <1>6, <1>7, Extended

(* What others do: the lines r. *)
LEMMA Reports ==
  ASSUME IInv, ServerReports
  PROVE  /\ events > 0 /\ events' = events - 1
         /\ UNCHANGED <<session, commands, server, user, late>>
         /\ \E r \in Seq(LineOf) :
              /\ lines' = lines \o r
              /\ \A i \in 1..Len(r) :
                   r[i].is \in {"login", "logout", "invitation", "who", "whoEnd"}
<1>1. address \in Mails \ BadMails
  BY DEF IInv, Types
<1>2. CASE \E kind \in {"login", "logout", "invitation"}, name \in Others :
             Reply(<<Says(kind, name)>>)
  <2>1. PICK kind \in {"login", "logout", "invitation"}, name \in Others :
          Reply(<<Says(kind, name)>>)
    BY <1>2
  <2>2. PICK l, r : l = Says(kind, name) /\ r = <<l>>
    OBVIOUS
  <2>3. l \in LineOf /\ l.is = kind
    BY <2>2 DEF Says, LineOf
  <2>4. r \in Seq(LineOf) /\ \A i \in 1..Len(r) : r[i].is = kind
    BY <2>2, <2>3, OneLine
  <2>5. lines' = lines \o r
    BY <2>1, <2>2 DEF Reply
  <2> QED  BY <2>4, <2>5 DEF ServerReports
<1>3. CASE \E name \in Reported : Reply(WhoLines(name))
  <2>1. PICK name \in Reported : Reply(WhoLines(name))
    BY <1>3
  <2>2. PICK r : r = WhoLines(name)
    OBVIOUS
  <2>3. name \in Names
    BY NamesAssumption DEF Names
  <2>4. r \in Seq(LineOf) /\ \A i \in 1..Len(r) : r[i].is \in {"who", "whoEnd"}
    BY <1>1, <2>2, <2>3, WhoListed
  <2>5. lines' = lines \o r
    BY <2>1, <2>2 DEF Reply
  <2> QED  BY <2>4, <2>5 DEF ServerReports
<1> QED  BY <1>2, <1>3 DEF ServerReports

LEMMA ReportsStep == IInv /\ ServerReports => IInv'
<1> SUFFICES ASSUME IInv, ServerReports PROVE IInv'
  OBVIOUS
<1>1. /\ events > 0 /\ events' = events - 1
      /\ UNCHANGED <<session, commands, server, user, late>>
  BY Reports
<1>2. PICK r \in Seq(LineOf) :
        /\ lines' = lines \o r
        /\ \A i \in 1..Len(r) :
             r[i].is \in {"login", "logout", "invitation", "who", "whoEnd"}
  BY Reports
<1>3. /\ commands \in Seq(Command) /\ events \in Nat /\ style \in 1..3
      /\ address \in Mails \ BadMails /\ notify \in BOOLEAN /\ autoboard \in BOOLEAN
  BY DEF IInv, Types
<1>4. events' \in Nat
  BY <1>1, <1>3
<1>5. /\ commands' = commands /\ style' = style /\ address' = address /\ notify' = notify
      /\ autoboard' = autoboard /\ UNCHANGED <<session, stored, user, late>>
  BY <1>1 DEF server
<1> QED  BY <1>2, <1>3, <1>4, <1>5, Extended

-----------------------------------------------------------------------------
(* The client on its own: the timer and the user.                          *)
LEMMA TimeoutStep ==
  IInv /\ Timeout => /\ IInv' /\ initialized /\ initialized'
                     /\ UNCHANGED <<saved, files, lines, server, user, events>>
                     /\ expect'.notify = expect.notify /\ expect'.autoboard = expect.autoboard
                     /\ expect'.saved = expect.saved
                     /\ \E q \in Seq(Command) : Sends("timeout", q)
<1> SUFFICES ASSUME IInv, Timeout
             PROVE  /\ IInv' /\ initialized /\ initialized'
                    /\ UNCHANGED <<saved, files, lines, server, user, events>>
                    /\ expect'.notify = expect.notify /\ expect'.autoboard = expect.autoboard
                    /\ expect'.saved = expect.saved
                    /\ \E q \in Seq(Command) : Sends("timeout", q)
  OBVIOUS
<1>1. /\ timer /\ late' = (IF commands \o lines = <<>> THEN late ELSE late - 1) /\ late' >= 0
      /\ UNCHANGED <<initialized, checked, players, saved, files, mail, lines, server,
                     user, events>>
      /\ \/ Idle(expect) /\ timer' = FALSE /\ UNCHANGED <<expect, commands>>
         \/ CheckExpectQueues(TRUE, expect, <<>>, TRUE)
  BY DEF Timeout
<1>2. Types /\ Greeted /\ initialized /\ initialized' /\ late' \in Nat
  <2>1. Types /\ Greeted
    BY DEF IInv
  <2>2. initialized
    BY <1>1, <2>1 DEF Greeted
  <2>3. late \in Nat
    BY <2>1 DEF Types
  <2>4. late' \in Nat
    BY <1>1, <2>3
  <2> QED  BY <1>1, <2>1, <2>2, <2>4
<1>3. /\ expect' \in Expecting /\ IsInjective(expect'.who) /\ commands' \in Seq(Command)
      /\ expect'.saved = expect.saved
      /\ expect'.notify = expect.notify /\ expect'.autoboard = expect.autoboard
      /\ timer' \in BOOLEAN /\ (timer' \/ Calm(expect'))
      /\ \E q \in Seq(Command) : Sends("timeout", q)
  <2>1. CASE Idle(expect) /\ timer' = FALSE /\ UNCHANGED <<expect, commands>>
    <3>1. \E q \in Seq(Command) : Sends("timeout", q)
      BY <1>2, <2>1, NothingSent
    <3> QED  BY <1>2, <2>1, <3>1 DEF Types, Idle, Calm
  <2>2. CASE CheckExpectQueues(TRUE, expect, <<>>, TRUE)
    <3>1. Forced("timeout") /\ initialized'
      BY <1>2 DEF Forced
    <3>2. expect \in Expecting /\ IsInjective(expect.who)
      BY <1>2 DEF Types
    <3> QED  BY <1>2, <2>2, <3>1, <3>2, OnlyRequestSent
  <2> QED  BY <1>1, <2>1, <2>2
<1>4. Types'
  BY <1>1, <1>2, <1>3 DEF Types, server
<1>5. Greeted'
  BY <1>1, <1>2 DEF Greeted
<1> QED  BY <1>1, <1>2, <1>3, <1>4, <1>5 DEF IInv

LEMMA SavedCountAsked ==
  ASSUME IInv, NEW name \in Others, GetSavedCount(name)
  PROVE  IInv'
<1>1. PICK c, s : c = [ask |-> "count", of |-> name] /\ s = Append(expect.counts, name)
  OBVIOUS
<1>2. /\ user > 0 /\ user' = user - 1
      /\ expect' = [expect EXCEPT !.counts = s] /\ commands' = Append(commands, c)
      /\ UNCHANGED <<timer, initialized, checked, players, saved, files, mail, lines,
                     server, events, late>>
  BY <1>1 DEF GetSavedCount
<1>3. Types /\ Greeted
  BY DEF IInv
<1>4. c \in Command
  BY <1>1 DEF Command
<1>5. commands' \in Seq(Command)
  BY <1>2, <1>3, <1>4, AppendProperties DEF Types
<1>6. s \in Seq(Others)
  BY <1>1, <1>3, AppendProperties DEF Types, Expecting
<1>7. /\ expect' \in Expecting /\ expect'.who = expect.who
      /\ expect'.saved = expect.saved /\ expect'.boardstyle = expect.boardstyle
      /\ expect'.notify = expect.notify /\ expect'.autoboard = expect.autoboard
  BY <1>2, <1>3, <1>6 DEF Types, Expecting
<1>8. user' \in Nat
  <2>1. user \in Nat
    BY <1>3 DEF Types
  <2> QED  BY <1>2, <2>1
<1>9. Types'
  BY <1>2, <1>3, <1>5, <1>7, <1>8 DEF Types, server
<1>10. Greeted'
  BY <1>2, <1>3, <1>7 DEF Greeted
<1>11. (initialized => timer \/ Calm(expect))'
  BY <1>2, <1>7 DEF IInv, Calm
<1> QED  BY <1>9, <1>10, <1>11 DEF IInv

LEMMA UserAsked ==
  ASSUME IInv, NEW command \in UserCommands, UserCommand(command)
  PROVE  IInv' /\ command \in Command
<1>1. /\ user > 0 /\ user' = user - 1 /\ commands' = Append(commands, command)
      /\ UNCHANGED <<session, lines, server, events, late>>
  BY DEF UserCommand
<1>2. Types /\ Greeted
  BY DEF IInv
<1>3. command \in Command
  BY DEF UserCommands, Command
<1>4. commands' \in Seq(Command)
  BY <1>1, <1>2, <1>3, AppendProperties DEF Types
<1>5. user' \in Nat
  <2>1. user \in Nat
    BY <1>2 DEF Types
  <2> QED  BY <1>1, <2>1
<1>6. Types'
  BY <1>1, <1>2, <1>4, <1>5 DEF Types, session, server
<1>7. Greeted'
  BY <1>1, <1>2 DEF Greeted, session
<1>8. (initialized => timer \/ Calm(expect))'
  BY <1>1 DEF IInv, Calm, session
<1> QED  BY <1>3, <1>6, <1>7, <1>8 DEF IInv

-----------------------------------------------------------------------------
(* The inductive invariant. *)
LEMMA Handled == IInv /\ Handle => IInv' /\ \E kind : Effect(kind)
<1> SUFFICES ASSUME IInv, Handle PROVE IInv' /\ \E kind : Effect(kind)
  OBVIOUS
<1>1. CASE HandleOwnInfo
  BY <1>1, OwnInfoStep, Zenon
<1>2. CASE HandleWhoInfoEnd
  BY <1>2, WhoInfoEndStep, Zenon
<1>3. CASE HandleWhoInfo
  BY <1>3, WhoInfoStep, Zenon
<1>4. CASE HandleNoSuchUser
  BY <1>4, NoSuchUserStep, Zenon
<1>5. CASE HandleShowAddress
  BY <1>5, ShowAddressStep, Zenon
<1>6. CASE HandleInvalidAddress
  BY <1>6, InvalidAddressStep, Zenon
<1>7. CASE HandleLogin
  BY <1>7, LoginStep, Zenon
<1>8. CASE HandleLogout
  BY <1>8, LogoutStep, Zenon
<1>9. CASE HandleInvitation
  BY <1>9, InvitationStep, Zenon
<1>10. CASE HandleSavedCount
  BY <1>10, SavedCountStep, Zenon
<1>11. CASE HandleShowSetting
  BY <1>11, ShowSettingStep, Zenon
<1>12. CASE HandleStartSaved
  BY <1>12, StartSavedStep, Zenon
<1>13. CASE HandleShowSaved
  BY <1>13, ShowSavedStep, Zenon
<1>14. CASE HandleShowToggle
  BY <1>14, ShowToggleStep, Zenon
<1> QED  BY <1>1, <1>2, <1>3, <1>4, <1>5, <1>6, <1>7,
            <1>8, <1>9, <1>10, <1>11, <1>12, <1>13, <1>14 DEF Handle

(* What the server has sent to begin with. *)
LEMMA InitLines ==
  ASSUME Init
  PROVE  /\ lines \in Seq(LineOf) /\ 1 \in 1..Len(lines) /\ Len(lines) \in Nat
         /\ lines[1].is = "own"
         /\ lines[1].value.notify = notify /\ lines[1].value.autoboard = autoboard
         /\ \A i \in 1..Len(lines) : i # 1 => lines[i].is \in {"who", "whoEnd"}
         /\ \E n \in 1..Len(lines) :
              /\ lines[n].is = "whoEnd"
              /\ \A i \in 1..(n - 1) : \/ lines[i].is = "own"
                                       \/ lines[i].is = "who" /\ lines[i].value.name = Me
<1>1. PICK h, l, e :
        /\ h = Says("own", [notify |-> notify, autoboard |-> autoboard])
        /\ l = Says("who", [name |-> Me, mail |-> address])
        /\ e = Says("whoEnd", 0)
  OBVIOUS
<1>2. notify \in BOOLEAN /\ autoboard \in BOOLEAN /\ address \in Mails \ BadMails
  BY DEF Init
<1>3. /\ h \in LineOf /\ h.is = "own"
      /\ h.value.notify = notify /\ h.value.autoboard = autoboard
      /\ l \in LineOf /\ l.is = "who" /\ l.value.name = Me
      /\ e \in LineOf /\ e.is = "whoEnd"
  BY <1>1, <1>2 DEF Says, LineOf
<1>4. lines = <<h>> \o <<e>> \/ lines = <<h>> \o <<l, e>>
  BY <1>1 DEF Init, WhoLines
<1>5. CASE lines = <<h>> \o <<e>>
  <2>1. lines \in Seq(LineOf) /\ Len(lines) = 2 /\ lines[1] = h /\ lines[2] = e
    BY <1>3, <1>5
  <2>2. 1 \in 1..2 /\ 2 \in 1..2 /\ (\A i \in 1..2 : i = 1 \/ i = 2)
        /\ \A i \in 1..(2 - 1) : i = 1
    OBVIOUS
  <2> QED  BY <1>3, <2>1, <2>2
<1>6. CASE lines = <<h>> \o <<l, e>>
  <2>1. lines \in Seq(LineOf) /\ Len(lines) = 3 /\ lines[1] = h /\ lines[2] = l /\ lines[3] = e
    BY <1>3, <1>6
  <2>2. 1 \in 1..3 /\ 3 \in 1..3 /\ (\A i \in 1..3 : i = 1 \/ i = 2 \/ i = 3)
        /\ \A i \in 1..(3 - 1) : i = 1 \/ i = 2
    OBVIOUS
  <2> QED  BY <1>3, <2>1, <2>2
<1> QED  BY <1>4, <1>5, <1>6

LEMMA InitIInv == Init => IInv
<1> SUFFICES ASSUME Init PROVE IInv
  OBVIOUS
<1>1. /\ expect = Nothing /\ timer = FALSE /\ initialized = FALSE /\ checked = FALSE
      /\ players = {} /\ saved = [o \in Opponents |-> 0] /\ commands = <<>>
      /\ files \in [Opponents -> Versions] /\ stored \in [Opponents -> Versions]
      /\ mail \in Mails /\ address \in Mails \ BadMails
      /\ style \in 1..3 /\ notify \in BOOLEAN /\ autoboard \in BOOLEAN
      /\ user = MaxUser /\ events = MaxEvents /\ late = MaxLate
  BY DEF Init
<1>2. expect \in Expecting /\ IsInjective(expect.who) /\ Calm(expect)
  <2>1. <<>> \in Seq(Others) /\ <<>> \in Seq(Names) /\ DOMAIN <<>> = {}
    BY EmptySeq
  <2> QED  BY <1>1, <2>1 DEF Nothing, Expecting, IsInjective, Calm
<1>3. saved \in [Opponents -> Versions] /\ commands \in Seq(Command)
  BY <1>1 DEF Versions
<1>4. Types
  BY <1>1, <1>2, <1>3, InitLines, BoundsAssumption DEF Types
<1>5. Greeted
  <2>1. \A i \in 1..Len(lines) : lines[i].is = "own" => i = 1
    BY InitLines
  <2>2. ~expect.saved /\ ~expect.boardstyle
    BY <1>2 DEF Calm
  <2> QED  BY <1>1, <2>1, <2>2, InitLines DEF Greeted
<1> QED  BY <1>2, <1>4, <1>5 DEF IInv

LEMMA NextStep == IInv /\ [Next]_vars => IInv'
<1> SUFFICES ASSUME IInv, [Next]_vars PROVE IInv'
  OBVIOUS
<1>1. CASE Handle
  BY <1>1, Handled
<1>2. CASE Timeout
  BY <1>2, TimeoutStep
<1>3. CASE \E name \in Others : GetSavedCount(name)
  BY <1>3, SavedCountAsked
<1>4. CASE \E command \in UserCommands : UserCommand(command)
  BY <1>4, UserAsked
<1>5. CASE ServerAnswers
  BY <1>5, AnswersStep
<1>6. CASE ServerReports
  BY <1>6, ReportsStep
<1>7. CASE UNCHANGED vars
  <2>1. UNCHANGED <<session, server, bounds, commands, lines>>
    BY <1>7 DEF vars
  <2>2. Types'
    BY <2>1 DEF IInv, Types, session, server, bounds
  <2>3. Greeted'
    BY <2>1 DEF IInv, Greeted, session
  <2> QED  BY <2>1, <2>2, <2>3 DEF IInv, Calm, session
<1> QED  BY <1>1, <1>2, <1>3, <1>4, <1>5, <1>6, <1>7 DEF Next

(* The expectations are well formed, the greeting comes before anything    *)
(* else, and the timer runs while something is expected.                   *)
THEOREM AlwaysAsking == Spec => []IInv
<1>1. Init => IInv
  BY InitIInv
<1>2. IInv /\ [Next]_vars => IInv'
  BY NextStep
<1> QED  BY <1>1, <1>2, PTL DEF Spec

(* Everything the session keeps has its type; nobody is asked for twice    *)
(* (gibbon_session_queue_who_request()).                                   *)
THEOREM TypesCorrect == Spec => []TypeOK
<1>1. IInv => TypeOK
  BY DEF IInv, Types, TypeOK, Expecting
<1> QED  BY <1>1, AlwaysAsking, PTL

(* No expectation is forgotten: the reply timer that                       *)
(* gibbon_session_check_expect_queues() starts runs while a setting, the   *)
(* saved matches or a who info is waited for.                              *)
THEOREM NothingForgotten == Spec => []TimerRuns
<1>1. IInv => TimerRuns
  <2> SUFFICES ASSUME IInv, initialized, ~timer
               PROVE  [expect EXCEPT !.counts = <<>>, !.address = FALSE] = Nothing
    BY DEF TimerRuns
  <2>1. Calm(expect) /\ expect \in Expecting
    BY DEF IInv, Types
  <2>2. expect \in [saved : {FALSE}, boardstyle : {FALSE}, notify : {FALSE},
                   autoboard : {FALSE}, address : BOOLEAN, counts : Seq(Others), who : {<<>>}]
    BY <2>1 DEF Calm, Expecting
  <2>3. PICK w : w = [expect EXCEPT !.counts = <<>>, !.address = FALSE]
    OBVIOUS
  <2>4. w \in [saved : {FALSE}, boardstyle : {FALSE}, notify : {FALSE},
              autoboard : {FALSE}, address : {FALSE}, counts : {<<>>}, who : {<<>>}]
    BY <2>2, <2>3
  <2> QED  BY <2>3, <2>4 DEF Nothing
<1> QED  BY <1>1, AlwaysAsking, PTL

-----------------------------------------------------------------------------
(* Saved matches. *)
LEMMA StaleHandled ==
  ASSUME IInv, Stale, NEW kind, Effect(kind)
  PROVE  Stale' /\ \A o \in Opponents : files'[o] # files[o] => files[o] # stored[o]
<1>1. /\ Receive(kind) /\ initialized' = (initialized \/ kind = "whoEnd")
      /\ kind # "saved" => saved' = saved
      /\ kind = "saved" => saved' = [saved EXCEPT ![Value.name] = Value.version]
      /\ files' # files => kind = "boardstyle" /\ files' = CleanSaved
      /\ kind = "whoEnd" /\ ~initialized => commands' = commands \o <<[ask |-> "saved"]>>
  BY DEF Effect
<1>2. PICK q \in Seq(Command) : Sends(kind, q)
  BY DEF Effect
<1>3. /\ Types /\ stored' = stored
      /\ Value = lines[1].value /\ lines[1].is = kind /\ 1 \in 1..Len(lines)
      /\ lines[1] \in LineOf
      /\ Len(lines) \in Nat /\ Len(lines') \in Nat /\ Len(lines) = Len(lines') + 1
      /\ \A i \in 1..Len(lines') : lines'[i] = lines[i + 1] /\ i + 1 \in 1..Len(lines)
      /\ \A i \in 1..Len(lines) : i = 1 \/ (i - 1 \in 1..Len(lines') /\ lines'[i - 1] = lines[i])
      /\ kind \notin {"own", "who", "whoEnd"} => initialized
  BY <1>1, Received DEF server
<1>4. /\ Len(commands) \in Nat
      /\ \A i \in 1..Len(commands) : commands'[i] = commands[i] /\ i \in 1..Len(commands')
      /\ \A i \in 1..Len(commands') :
           \/ i \in 1..Len(commands) /\ commands'[i] = commands[i]
           \/ i - Len(commands) \in 1..Len(q) /\ commands'[i] = q[i - Len(commands)]
  <2>1. commands \in Seq(Command) /\ commands' = commands \o q
    BY <1>2, <1>3 DEF Types, Sends
  <2> QED  BY <2>1, JoinSeq
<1>5. saved \in [Opponents -> Versions] /\ files \in [Opponents -> Versions]
  BY <1>3 DEF Types
<1>6. kind = "saved" => /\ Value.name \in Opponents /\ Value.version = stored[Value.name]
                        /\ lines[1].value.name = Value.name
  BY <1>3, LineIs DEF Stale
<1>7. \A o \in Opponents : saved[o] = stored[o] => saved'[o] = stored'[o]
  BY <1>1, <1>3, <1>5, <1>6
<1>8. \A o \in Opponents : saved'[o] \in {0, stored'[o]}
  BY <1>1, <1>3, <1>5, <1>6 DEF Stale
<1>9. \A i \in 1..Len(lines') :
        lines'[i].is = "saved" => lines'[i].value.version = stored'[lines'[i].value.name]
  BY <1>3 DEF Stale
<1>10. ASSUME ~initialized
       PROVE  /\ \A i \in 1..Len(lines') : lines'[i].is # "boardstyle"
              /\ \A i \in 1..Len(commands) : commands[i].ask # "boardstyle"
  BY <1>3, <1>10 DEF Stale
<1>11. ASSUME NEW o \in Opponents, initialized'
       PROVE  (saved[o] = stored[o] \/ Listed(o) \/ AskedFirst)'
  <2>1. CASE ~initialized
    <3>1. PICK s : s = <<[ask |-> "saved"]>>
      OBVIOUS
    <3>2. s \in Seq(Command) /\ Len(s) = 1 /\ s[1].ask = "saved"
      BY <3>1 DEF Command
    <3>3. commands \in Seq(Command) /\ commands' = commands \o s
      BY <1>1, <1>3, <1>11, <2>1, <3>1 DEF Types
    <3>4. /\ \A i \in 1..Len(s) : commands'[Len(commands) + i] = s[i] /\ Len(commands) + i \in 1..Len(commands')
          /\ \A i \in 1..Len(commands') : \/ i \in 1..Len(commands) /\ commands'[i] = commands[i]
                                          \/ i - Len(commands) \in 1..Len(s) /\ commands'[i] = s[i - Len(commands)]
      <4>1. s \in Seq(Command) /\ commands \in Seq(Command)
        BY <3>2, <3>3
      <4>2. commands' = commands \o s
        BY <3>3
      <4> QED  BY <4>1, <4>2, JoinSeq
    <3>5. PICK n : n = Len(commands) + 1
      OBVIOUS
    <3>6. n \in 1..Len(commands') /\ commands'[n].ask = "saved"
      <4>1. 1 \in 1..Len(s)
        BY <3>2
      <4> QED  BY <3>2, <3>4, <3>5, <4>1
    <3>7. \A j \in 1..Len(commands') : commands'[j].ask # "boardstyle"
      <4>1. \A i \in 1..Len(s) : i = 1
        BY <3>2
      <4> QED  BY <1>10, <2>1, <3>2, <3>4, <4>1
    <3>8. \A j \in 1..n : j \in 1..Len(commands')
      BY <3>6
    <3>9. AskedFirst'
      BY <1>10, <2>1, <3>6, <3>7, <3>8 DEF AskedFirst
    <3> QED  BY <3>9
  <2>2. CASE initialized /\ saved[o] = stored[o]
    BY <1>7, <2>2
  <2>3. CASE Listed(o)
    <3>1. PICK i \in 1..Len(lines) :
            /\ lines[i].is = "saved" /\ lines[i].value.name = o
            /\ \A j \in 1..i : lines[j].is # "boardstyle"
      BY <2>3 DEF Listed
    <3>2. CASE i = 1
      BY <1>1, <1>3, <1>5, <1>6, <3>1, <3>2
    <3>3. CASE i # 1
      <4>1. i - 1 \in 1..Len(lines') /\ lines'[i - 1] = lines[i]
        BY <1>3, <3>3
      <4>2. \A j \in 1..(i - 1) : j \in 1..Len(lines') /\ j + 1 \in 1..i
        BY <1>3, <4>1
      <4>3. Listed(o)'
        BY <1>3, <3>1, <4>1, <4>2 DEF Listed
      <4> QED  BY <4>3
    <3> QED  BY <3>2, <3>3
  <2>4. CASE AskedFirst
    <3>1. \A j \in 1..Len(lines') : lines'[j].is # "boardstyle"
      BY <1>3, <2>4 DEF AskedFirst
    <3>2. PICK i \in 1..Len(commands) :
            /\ commands[i].ask = "saved"
            /\ \A j \in 1..i : commands[j].ask # "boardstyle"
      BY <2>4 DEF AskedFirst
    <3>3. \A j \in 1..i : j \in 1..Len(commands)
      BY <1>4
    <3>4. AskedFirst'
      BY <1>4, <3>1, <3>2, <3>3 DEF AskedFirst
    <3> QED  BY <3>4
  <2> QED  BY <2>1, <2>2, <2>3, <2>4 DEF Stale
<1>12. ASSUME ~initialized'
       PROVE  /\ \A i \in 1..Len(lines') : lines'[i].is # "boardstyle"
              /\ \A i \in 1..Len(commands') : commands'[i].ask # "boardstyle"
  <2>1. ~initialized
    BY <1>1, <1>12
  <2>2. \A i \in 1..Len(q) : q[i].ask # "boardstyle"
    BY <1>2, <1>12 DEF Sends, ChainAsks
  <2> QED  BY <1>4, <1>10, <2>1, <2>2
<1>13. Stale'
  BY <1>8, <1>9, <1>11, <1>12 DEF Stale
<1>14. ASSUME NEW o \in Opponents, files'[o] # files[o]
       PROVE  files[o] # stored[o]
  <2>1. kind = "boardstyle" /\ files' = CleanSaved
    BY <1>1, <1>14
  <2>2. initialized /\ lines[1].is = "boardstyle"
    BY <1>3, <2>1
  <2>3. ~AskedFirst
    BY <1>3, <2>2 DEF AskedFirst
  <2>4. ~Listed(o)
    <3>1. \A i \in 1..Len(lines) : 1 \in 1..i
      BY <1>3
    <3> QED  BY <2>2, <3>1 DEF Listed
  <2>5. saved[o] = stored[o]
    BY <2>2, <2>3, <2>4 DEF Stale
  <2>6. files'[o] = IF files[o] = saved[o] THEN files[o] ELSE 0
    BY <2>1 DEF CleanSaved
  <2> QED  BY <1>14, <2>5, <2>6
<1> QED  BY <1>13, <1>14

LEMMA StaleAnswered ==
  ASSUME IInv, Stale, ServerAnswers
  PROVE  Stale' /\ files' = files
<1>1. PICK r \in Seq(LineOf) : Answers(Head(commands), r)
  BY Answered
<1>2. PICK c : c = Head(commands)
  OBVIOUS
<1>3. Answers(c, r)
  BY <1>1, <1>2
<1>4. /\ commands # <<>> /\ commands' = Tail(commands) /\ lines' = lines \o r
      /\ saved' = saved /\ initialized' = initialized /\ files' = files /\ stored' = stored
      /\ \A i \in 1..Len(r) :
           /\ r[i].is = "boardstyle" => c.ask = "boardstyle"
           /\ r[i].is = "saved" => r[i].value.version = stored[r[i].value.name]
      /\ c.ask = "saved" =>
           \A o \in Opponents : stored[o] # 0 =>
             \E i \in 1..Len(r) : r[i].is = "saved" /\ r[i].value.name = o
  BY <1>3 DEF Answers, session
<1>5. lines \in Seq(LineOf) /\ commands \in Seq(Command)
  BY DEF IInv, Types
<1>6. /\ c = commands[1] /\ 1 \in 1..Len(commands) /\ Len(commands) \in Nat /\ Len(commands') \in Nat
      /\ \A i \in 1..Len(commands') : commands'[i] = commands[i + 1] /\ i + 1 \in 1..Len(commands)
      /\ \A i \in 1..Len(commands) :
           i = 1 \/ (i - 1 \in 1..Len(commands') /\ commands'[i - 1] = commands[i])
  BY <1>2, <1>4, <1>5, TailSeq
<1>7. /\ Len(lines) \in Nat
      /\ \A i \in 1..Len(lines) : lines'[i] = lines[i] /\ i \in 1..Len(lines')
      /\ \A i \in 1..Len(r) : lines'[Len(lines) + i] = r[i] /\ Len(lines) + i \in 1..Len(lines')
      /\ \A i \in 1..Len(lines') : \/ i \in 1..Len(lines) /\ lines'[i] = lines[i]
                                   \/ i - Len(lines) \in 1..Len(r) /\ lines'[i] = r[i - Len(lines)]
  BY <1>4, <1>5, JoinSeq
<1>8. \A i \in 1..Len(lines') :
        lines'[i].is = "saved" => lines'[i].value.version = stored'[lines'[i].value.name]
  <2>1. ASSUME NEW i \in 1..Len(lines'), NEW l, l = lines'[i], l.is = "saved"
        PROVE  l.value.version = stored[l.value.name]
    <3>1. CASE i \in 1..Len(lines) /\ l = lines[i]
      BY <2>1, <3>1 DEF Stale
    <3>2. CASE i - Len(lines) \in 1..Len(r) /\ l = r[i - Len(lines)]
      BY <1>4, <2>1, <3>2
    <3> QED  BY <1>7, <2>1, <3>1, <3>2
  <2> QED  BY <1>4, <2>1
<1>9. ASSUME NEW o \in Opponents, initialized'
      PROVE  (saved[o] = stored[o] \/ Listed(o) \/ AskedFirst)'
  <2>1. CASE saved[o] = stored[o]
    BY <1>4, <2>1
  <2>2. CASE Listed(o)
    <3>1. PICK i \in 1..Len(lines) :
            /\ lines[i].is = "saved" /\ lines[i].value.name = o
            /\ \A j \in 1..i : lines[j].is # "boardstyle"
      BY <2>2 DEF Listed
    <3>2. \A j \in 1..i : j \in 1..Len(lines)
      BY <1>7
    <3>3. Listed(o)'
      BY <1>7, <3>1, <3>2 DEF Listed
    <3> QED  BY <3>3
  <2>3. CASE AskedFirst
    <3>1. PICK i \in 1..Len(commands) :
            /\ commands[i].ask = "saved"
            /\ \A j \in 1..i : commands[j].ask # "boardstyle"
      BY <2>3 DEF AskedFirst
    <3>2. 1 \in 1..i
      BY <1>6
    <3>3. c.ask # "boardstyle"
      BY <1>6, <3>1, <3>2
    <3>4. \A j \in 1..Len(lines') : lines'[j].is # "boardstyle"
      <4>1. /\ \A j \in 1..Len(lines) : lines[j].is # "boardstyle"
            /\ \A j \in 1..Len(r) : r[j].is # "boardstyle"
        BY <1>4, <2>3, <3>3 DEF AskedFirst
      <4> QED  BY <1>7, <4>1
    <3>5. CASE c.ask = "saved"
      <4>1. CASE stored[o] = 0
        BY <1>4, <4>1 DEF Stale
      <4>2. CASE stored[o] # 0
        <5>1. PICK k \in 1..Len(r) : r[k].is = "saved" /\ r[k].value.name = o
          BY <1>4, <3>5, <4>2
        <5>2. PICK n : n = Len(lines) + k
          OBVIOUS
        <5>3. n \in 1..Len(lines') /\ lines'[n] = r[k]
          BY <1>7, <5>2
        <5>4. \A j \in 1..n : j \in 1..Len(lines')
          BY <5>3
        <5>5. Listed(o)'
          BY <3>4, <5>1, <5>3, <5>4 DEF Listed
        <5> QED  BY <5>5
      <4> QED  BY <4>1, <4>2
    <3>6. CASE c.ask # "saved"
      <4>1. i # 1
        BY <1>6, <3>1, <3>6
      <4>2. i - 1 \in 1..Len(commands') /\ commands'[i - 1] = commands[i]
        BY <1>6, <4>1
      <4>3. \A j \in 1..(i - 1) : j \in 1..Len(commands') /\ j + 1 \in 1..i
        BY <1>6, <4>2
      <4>4. AskedFirst'
        BY <1>6, <3>1, <3>4, <4>2, <4>3 DEF AskedFirst
      <4> QED  BY <4>4
    <3> QED  BY <3>5, <3>6
  <2> QED  BY <1>4, <1>9, <2>1, <2>2, <2>3 DEF Stale
<1>10. ASSUME ~initialized'
       PROVE  /\ \A i \in 1..Len(lines') : lines'[i].is # "boardstyle"
              /\ \A i \in 1..Len(commands') : commands'[i].ask # "boardstyle"
  BY <1>4, <1>6, <1>7, <1>10 DEF Stale
<1>11. \A o \in Opponents : saved'[o] \in {0, stored'[o]}
  BY <1>4 DEF Stale
<1> QED  BY <1>4, <1>8, <1>9, <1>10, <1>11 DEF Stale

(* Other lines and further commands do no harm. *)
LEMMA StaleExtended ==
  ASSUME Types, Stale, NEW r \in Seq(LineOf), NEW q \in Seq(Command),
         lines' = lines \o r, commands' = commands \o q,
         \A i \in 1..Len(r) : r[i].is \notin {"saved", "boardstyle"},
         UNCHANGED <<saved, stored, initialized>>,
         ~initialized => \A i \in 1..Len(q) : q[i].ask # "boardstyle"
  PROVE  Stale'
<1>1. /\ Len(lines) \in Nat
      /\ \A i \in 1..Len(lines) : lines'[i] = lines[i] /\ i \in 1..Len(lines')
      /\ \A i \in 1..Len(lines') : \/ i \in 1..Len(lines) /\ lines'[i] = lines[i]
                                   \/ i - Len(lines) \in 1..Len(r) /\ lines'[i] = r[i - Len(lines)]
  <2>1. lines \in Seq(LineOf)
    BY DEF Types
  <2> QED  BY <2>1, JoinSeq
<1>2. /\ Len(commands) \in Nat
      /\ \A i \in 1..Len(commands) : commands'[i] = commands[i] /\ i \in 1..Len(commands')
      /\ \A i \in 1..Len(commands') :
           \/ i \in 1..Len(commands) /\ commands'[i] = commands[i]
           \/ i - Len(commands) \in 1..Len(q) /\ commands'[i] = q[i - Len(commands)]
  <2>1. commands \in Seq(Command)
    BY DEF Types
  <2> QED  BY <2>1, JoinSeq
<1>3. ASSUME NEW o \in Opponents, initialized
      PROVE  (saved[o] = stored[o] \/ Listed(o) \/ AskedFirst)'
  <2>1. CASE saved[o] = stored[o]
    BY <2>1
  <2>2. CASE Listed(o)
    <3>1. PICK i \in 1..Len(lines) :
            /\ lines[i].is = "saved" /\ lines[i].value.name = o
            /\ \A j \in 1..i : lines[j].is # "boardstyle"
      BY <2>2 DEF Listed
    <3>2. \A j \in 1..i : j \in 1..Len(lines)
      BY <1>1
    <3>3. Listed(o)'
      BY <1>1, <3>1, <3>2 DEF Listed
    <3> QED  BY <3>3
  <2>3. CASE AskedFirst
    <3>1. PICK i \in 1..Len(commands) :
            /\ commands[i].ask = "saved"
            /\ \A j \in 1..i : commands[j].ask # "boardstyle"
      BY <2>3 DEF AskedFirst
    <3>2. \A j \in 1..i : j \in 1..Len(commands)
      BY <1>2
    <3>3. \A j \in 1..Len(lines') : lines'[j].is # "boardstyle"
      BY <1>1, <2>3 DEF AskedFirst
    <3>4. AskedFirst'
      BY <1>2, <3>1, <3>2, <3>3 DEF AskedFirst
    <3> QED  BY <3>4
  <2> QED  BY <1>3, <2>1, <2>2, <2>3 DEF Stale
<1>4. /\ \A o \in Opponents : saved'[o] \in {0, stored'[o]}
      /\ \A i \in 1..Len(lines') :
           lines'[i].is = "saved" => lines'[i].value.version = stored'[lines'[i].value.name]
  BY <1>1 DEF Stale
<1>5. ASSUME ~initialized
      PROVE  /\ \A i \in 1..Len(lines') : lines'[i].is # "boardstyle"
             /\ \A i \in 1..Len(commands') : commands'[i].ask # "boardstyle"
  BY <1>1, <1>2, <1>5 DEF Stale
<1> QED  BY <1>3, <1>4, <1>5 DEF Stale

LEMMA StaleNext ==
  ASSUME ~EarlyUser
  PROVE  IInv /\ Stale /\ [Next]_vars =>
           Stale' /\ \A o \in Opponents : files'[o] # files[o] => files[o] # stored[o]
<1> SUFFICES ASSUME IInv, Stale, [Next]_vars
             PROVE  Stale' /\ \A o \in Opponents : files'[o] # files[o] => files[o] # stored[o]
  OBVIOUS
<1>1. Types /\ lines \in Seq(LineOf) /\ commands \in Seq(Command)
  BY DEF IInv, Types
<1>2. PICK none, nil : none = <<>> /\ nil = <<>>
  OBVIOUS
<1>3. /\ none \in Seq(LineOf) /\ Len(none) = 0 /\ lines \o none = lines
      /\ nil \in Seq(Command) /\ Len(nil) = 0 /\ commands \o nil = commands
      /\ \A i \in 1..0 : FALSE
  BY <1>1, <1>2, ConcatEmptySeq
<1>4. CASE Handle
  <2>1. PICK kind : Effect(kind)
    BY <1>4, Handled
  <2> QED  BY <2>1, StaleHandled
<1>5. CASE Timeout
  <2>1. UNCHANGED <<saved, files, lines, server, user, events>> /\ initialized /\ initialized'
    BY <1>5, TimeoutStep
  <2>2. PICK q \in Seq(Command) : Sends("timeout", q)
    BY <1>5, TimeoutStep
  <2>3. commands' = commands \o q
    BY <2>2 DEF Sends
  <2>4. UNCHANGED <<saved, stored, files>> /\ initialized' = initialized /\ lines' = lines \o none
    BY <1>1, <1>3, <1>5, <2>1 DEF server, Timeout
  <2> QED  BY <1>1, <1>3, <2>1, <2>3, <2>4, StaleExtended
<1>6. CASE \E name \in Others : GetSavedCount(name)
  <2>1. PICK name \in Others : GetSavedCount(name)
    BY <1>6
  <2>2. PICK c, q : c = [ask |-> "count", of |-> name] /\ q = <<c>>
    OBVIOUS
  <2>3. c \in Command /\ c.ask = "count"
    BY <2>2 DEF Command
  <2>4. q \in Seq(Command) /\ \A i \in 1..Len(q) : q[i].ask # "boardstyle"
    <3>1. Len(q) = 1 /\ q[1] = c /\ q \in Seq(Command)
      BY <2>2, <2>3
    <3>2. \A i \in 1..1 : i = 1
      OBVIOUS
    <3> QED  BY <2>3, <3>1, <3>2
  <2>5. commands' = commands \o q
    BY <1>1, <2>1, <2>2, <2>3, AppendIsConcat DEF GetSavedCount
  <2>6. UNCHANGED <<saved, files, initialized, stored>> /\ lines' = lines \o none
    BY <1>3, <2>1 DEF GetSavedCount, server
  <2> QED  BY <1>1, <1>3, <2>4, <2>5, <2>6, StaleExtended
<1>7. CASE \E command \in UserCommands : UserCommand(command)
  <2>1. PICK command \in UserCommands : UserCommand(command)
    BY <1>7
  <2>2. PICK q : q = <<command>>
    OBVIOUS
  <2>3. command \in Command /\ (command.ask = "boardstyle" => initialized)
    BY <2>1, UserAsked DEF UserCommand
  <2>4. q \in Seq(Command) /\ (~initialized => \A i \in 1..Len(q) : q[i].ask # "boardstyle")
    <3>1. Len(q) = 1 /\ q[1] = command /\ q \in Seq(Command)
      BY <2>2, <2>3
    <3>2. \A i \in 1..1 : i = 1
      OBVIOUS
    <3> QED  BY <2>3, <3>1, <3>2
  <2>5. commands' = commands \o q
    BY <1>1, <2>1, <2>2, <2>3, AppendIsConcat DEF UserCommand
  <2>6. UNCHANGED <<saved, files, initialized, stored>> /\ lines' = lines \o none
    BY <1>3, <2>1 DEF UserCommand, server, session
  <2> QED  BY <1>1, <1>3, <2>4, <2>5, <2>6, StaleExtended
<1>8. CASE ServerAnswers
  BY <1>8, StaleAnswered
<1>9. CASE ServerReports
  <2>1. UNCHANGED <<session, commands, server>>
    BY <1>9, Reports
  <2>2. PICK r \in Seq(LineOf) :
          /\ lines' = lines \o r
          /\ \A i \in 1..Len(r) :
               r[i].is \in {"login", "logout", "invitation", "who", "whoEnd"}
    BY <1>9, Reports
  <2>3. UNCHANGED <<saved, files, initialized, stored>> /\ commands' = commands \o nil
    BY <1>3, <2>1 DEF session, server
  <2>4. \A i \in 1..Len(r) : r[i].is \notin {"saved", "boardstyle"}
    BY <2>2
  <2> QED  BY <1>1, <1>3, <2>2, <2>3, <2>4, StaleExtended
<1>10. CASE UNCHANGED vars
  <2>1. UNCHANGED <<saved, files, initialized, stored>> /\ commands' = commands \o nil
        /\ lines' = lines \o none
    BY <1>3, <1>10 DEF vars, session, server
  <2> QED  BY <1>1, <1>3, <2>1, StaleExtended
<1> QED  BY <1>4, <1>5, <1>6, <1>7, <1>8, <1>9, <1>10 DEF Next

LEMMA InitStale == Init => Stale
<1> SUFFICES ASSUME Init PROVE Stale
  OBVIOUS
<1>1. \A i \in 1..Len(lines) : lines[i].is \in {"own", "who", "whoEnd"}
  BY InitLines
<1>2. Len(commands) = 0 /\ \A i \in 1..0 : FALSE
  BY DEF Init
<1> QED  BY <1>1, <1>2 DEF Init, Stale

(* gibbon_session_clean_saved() archives no file that the server still has *)
(* as it is: the list of saved matches is complete when the reply about    *)
(* the board style comes, provided the user has not asked for that himself *)
(* before the greeting, whatever else he types and however late replies    *)
(* are.                                                                    *)
THEOREM StaleOnlyArchived ==
  ASSUME ~EarlyUser
  PROVE  Spec => OnlyStaleArchived
<1>1. Init => Stale
  BY InitStale
<1>2. IInv /\ Stale /\ [Next]_vars => Stale'
  BY StaleNext
<1>3. IInv /\ Stale /\ [Next]_vars =>
        [\A o \in Opponents : files'[o] # files[o] => files[o] # stored[o]]_vars
  BY StaleNext
<1> QED  BY <1>1, <1>2, <1>3, AlwaysAsking, PTL DEF Spec, OnlyStaleArchived

-----------------------------------------------------------------------------
(* The toggles. *)

(* A further request is sent when nothing else is underway. *)
LEMMA ForcedAlone ==
  ASSUME IInv, Chained, NEW kind, Receive(kind), Forced(kind)
  PROVE  /\ \A i \in 1..Len(commands) : commands[i].ask \notin ChainAsks
         /\ \A i \in 1..Len(lines') : lines'[i].is \notin ChainIs
<1>1. /\ lines[1].is = kind /\ 1 \in 1..Len(lines) /\ lines[1] \in LineOf
      /\ Len(lines) \in Nat /\ Len(lines') \in Nat /\ Len(lines) = Len(lines') + 1
      /\ \A i \in 1..Len(lines') : lines'[i] = lines[i + 1] /\ i + 1 \in 1..Len(lines)
  BY Received
<1>2. kind # "timeout"
  BY <1>1 DEF LineOf
<1>3. CASE kind \in ChainIs
  <2>1. \A i \in 1..Len(commands) : commands[i].ask \notin ChainAsks
    BY <1>1, <1>3 DEF Chained, OneByOne
  <2>2. ASSUME NEW i \in 1..Len(lines'), lines'[i].is \in ChainIs PROVE FALSE
    <3>1. i + 1 \in 1..Len(lines) /\ lines[i + 1].is \in ChainIs
      BY <1>1, <2>2
    <3>2. 1 = i + 1
      BY <1>1, <1>3, <3>1 DEF Chained, OneByOne
    <3> QED  BY <1>1, <3>2
  <2> QED  BY <2>1, <2>2
<1>4. CASE kind = "whoEnd" /\ ~initialized
  <2>1. \A i \in 1..Len(commands) : commands[i].ask \notin ChainAsks
    BY <1>4 DEF Chained, AskedFor
  <2>2. \A i \in 1..Len(lines) : lines[i].is \notin ChainIs
    BY <1>4 DEF Chained, Told
  <2> QED  BY <1>1, <2>1, <2>2
<1>5. CASE kind = "saved" /\ expect.saved
  <2>1. \E j \in 1..(1 - 1) : lines[j].is = "savedStart"
    BY <1>1, <1>5 DEF Chained
  <2> QED  BY <2>1
<1> QED  BY <1>2, <1>3, <1>4, <1>5 DEF Forced

LEMMA ToggleHandled ==
  ASSUME IInv, Chained, NEW kind, Receive(kind), NEW q \in Seq(Command), Sends(kind, q),
         NEW t \in {"notify", "autoboard"},
         NEW is \in BOOLEAN, NEW old \in BOOLEAN, NEW new \in BOOLEAN,
         Toggle(t, is, old),
         kind # t => new = old, kind = t => new = ~Value,
         \A i \in 1..Len(q) : q[i].ask = t => new
  PROVE  /\ AskedFor(t)' => ~is
         /\ \A i \in 1..Len(lines') : lines'[i].is = t => lines'[i].value /\ is
         /\ new => ~is \/ Told(t)'
<1>1. /\ lines[1].is = kind /\ Value = lines[1].value /\ 1 \in 1..Len(lines)
      /\ Len(lines) \in Nat /\ Len(lines') \in Nat /\ Len(lines) = Len(lines') + 1
      /\ \A i \in 1..Len(lines') : lines'[i] = lines[i + 1] /\ i + 1 \in 1..Len(lines)
      /\ \A i \in 1..Len(lines) : i = 1 \/ (i - 1 \in 1..Len(lines') /\ lines'[i - 1] = lines[i])
  BY Received
<1>2. \A i \in 1..Len(commands') :
        \/ i \in 1..Len(commands) /\ commands'[i] = commands[i]
        \/ i - Len(commands) \in 1..Len(q) /\ commands'[i] = q[i - Len(commands)]
  <2>1. commands \in Seq(Command) /\ commands' = commands \o q
    BY DEF IInv, Types, Sends
  <2> QED  BY <2>1, JoinSeq
<1>3. kind = t => ~new
  <2>1. kind = t => lines[1].value
    BY <1>1 DEF Toggle
  <2> QED  BY <1>1, <2>1
<1>4. t \in ChainIs /\ t \in ChainAsks
  BY DEF ChainIs, ChainAsks
<1>5. ASSUME AskedFor(t)' PROVE ~is
  <2>1. PICK i \in 1..Len(commands') : commands'[i].ask = t
    BY <1>5 DEF AskedFor
  <2>2. CASE i \in 1..Len(commands) /\ commands'[i] = commands[i]
    BY <2>1, <2>2 DEF Toggle, AskedFor
  <2>3. CASE i - Len(commands) \in 1..Len(q) /\ commands'[i] = q[i - Len(commands)]
    <3>1. new /\ Forced(kind)
      BY <1>4, <2>1, <2>3 DEF Sends
    <3>2. kind # t /\ old
      BY <1>3, <3>1
    <3>3. \A j \in 1..Len(lines') : lines'[j].is # t
      BY <1>4, <3>1, ForcedAlone
    <3>4. ~Told(t)
      BY <1>1, <3>2, <3>3 DEF Told
    <3> QED  BY <3>2, <3>4 DEF Toggle
  <2> QED  BY <1>2, <2>2, <2>3
<1>6. \A i \in 1..Len(lines') : lines'[i].is = t => lines'[i].value /\ is
  BY <1>1 DEF Toggle
<1>7. ASSUME new, is PROVE Told(t)'
  <2>1. kind # t /\ old
    BY <1>3, <1>7
  <2>2. PICK i \in 1..Len(lines) : lines[i].is = t
    BY <1>7, <2>1 DEF Toggle, Told
  <2>3. i - 1 \in 1..Len(lines') /\ lines'[i - 1].is = t
    BY <1>1, <2>1, <2>2
  <2> QED  BY <2>3 DEF Told
<1> QED  BY <1>5, <1>6, <1>7

LEMMA ChainHandled ==
  ASSUME IInv, Chained, NEW kind, Effect(kind)
  PROVE  Chained'
<1>1. /\ Receive(kind) /\ initialized' = (initialized \/ kind = "whoEnd")
      /\ kind \notin {"own", "notify"} => expect'.notify = expect.notify
      /\ kind = "notify" => expect'.notify = ~Value
      /\ kind = "own" => expect'.notify = (expect.notify \/ ~Value.notify)
      /\ kind \notin {"own", "autoboard"} => expect'.autoboard = expect.autoboard
      /\ kind = "autoboard" => expect'.autoboard = ~Value
      /\ kind = "own" => expect'.autoboard = (expect.autoboard \/ ~Value.autoboard)
      /\ kind \in {"savedStart", "saved"} => ~expect'.saved
      /\ ~(kind = "whoEnd" /\ ~initialized) => (expect'.saved => expect.saved)
  BY DEF Effect
<1>2. PICK q \in Seq(Command) : Sends(kind, q)
  BY DEF Effect
<1>3. /\ notify' = notify /\ autoboard' = autoboard
      /\ Value = lines[1].value /\ lines[1].is = kind /\ 1 \in 1..Len(lines)
      /\ Len(lines) \in Nat /\ Len(lines') \in Nat /\ Len(lines) = Len(lines') + 1
      /\ \A i \in 1..Len(lines') : lines'[i] = lines[i + 1] /\ i + 1 \in 1..Len(lines)
      /\ \A i \in 1..Len(lines) : i = 1 \/ (i - 1 \in 1..Len(lines') /\ lines'[i - 1] = lines[i])
      /\ \A i \in 1..Len(lines') : lines'[i].is # "own"
      /\ kind = "own" => ~initialized
  BY <1>1, Received DEF server
<1>4. /\ notify \in BOOLEAN /\ autoboard \in BOOLEAN
      /\ expect.notify \in BOOLEAN /\ expect.autoboard \in BOOLEAN
      /\ expect'.notify \in BOOLEAN /\ expect'.autoboard \in BOOLEAN
  <2>1. /\ notify \in BOOLEAN /\ autoboard \in BOOLEAN
        /\ expect.notify \in BOOLEAN /\ expect.autoboard \in BOOLEAN
    BY DEF IInv, Types, Expecting
  <2> QED  BY <1>1, <2>1
<1>5. /\ Len(commands) \in Nat
      /\ \A i \in 1..Len(commands') :
           \/ i \in 1..Len(commands) /\ commands'[i] = commands[i]
           \/ i - Len(commands) \in 1..Len(q) /\ commands'[i] = q[i - Len(commands)]
  <2>1. commands \in Seq(Command) /\ commands' = commands \o q
    BY <1>2 DEF IInv, Types, Sends
  <2> QED  BY <2>1, JoinSeq
<1>6. /\ \A i, j \in 1..Len(q) : q[i].ask \in ChainAsks /\ q[j].ask \in ChainAsks => i = j
      /\ \A i \in 1..Len(q) : q[i].ask \in ChainAsks => Forced(kind) /\ initialized'
      /\ \A i \in 1..Len(q) : /\ q[i].ask = "notify" => expect'.notify
                              /\ q[i].ask = "autoboard" => expect'.autoboard
  BY <1>2 DEF Sends
<1>7. Forced(kind) => /\ \A i \in 1..Len(commands) : commands[i].ask \notin ChainAsks
                      /\ \A i \in 1..Len(lines') : lines'[i].is \notin ChainIs
  BY <1>1, ForcedAlone
<1>8. OneByOne'
  <2>1. ASSUME NEW i \in 1..Len(commands'), NEW j \in 1..Len(commands'),
               commands'[i].ask \in ChainAsks, commands'[j].ask \in ChainAsks
        PROVE  i = j
    <3>1. CASE Forced(kind)
      <4>1. i - Len(commands) = j - Len(commands)
        BY <1>5, <1>6, <1>7, <2>1, <3>1
      <4> QED  BY <1>5, <4>1
    <3>2. CASE ~Forced(kind)
      <4>1. /\ i \in 1..Len(commands) /\ commands[i].ask \in ChainAsks
            /\ j \in 1..Len(commands) /\ commands[j].ask \in ChainAsks
        BY <1>5, <1>6, <2>1, <3>2
      <4> QED  BY <4>1 DEF Chained, OneByOne
    <3> QED  BY <3>1, <3>2
  <2>2. ASSUME NEW i \in 1..Len(lines'), NEW j \in 1..Len(lines'),
               lines'[i].is \in ChainIs, lines'[j].is \in ChainIs
        PROVE  i = j
    <3>1. /\ i + 1 \in 1..Len(lines) /\ lines[i + 1].is \in ChainIs
          /\ j + 1 \in 1..Len(lines) /\ lines[j + 1].is \in ChainIs
      BY <1>3, <2>2
    <3>2. i + 1 = j + 1
      BY <3>1 DEF Chained, OneByOne
    <3> QED  BY <3>2
  <2>3. ASSUME NEW i \in 1..Len(commands'), NEW j \in 1..Len(lines'),
               commands'[i].ask \in ChainAsks, lines'[j].is \in ChainIs
        PROVE  FALSE
    <3>1. ~Forced(kind)
      BY <1>7, <2>3
    <3>2. i \in 1..Len(commands) /\ commands[i].ask \in ChainAsks
      BY <1>5, <1>6, <2>3, <3>1
    <3>3. j + 1 \in 1..Len(lines) /\ lines[j + 1].is \in ChainIs
      BY <1>3, <2>3
    <3> QED  BY <3>2, <3>3 DEF Chained, OneByOne
  <2> QED  BY <2>1, <2>2, <2>3 DEF OneByOne
<1>9. Toggle("notify", notify, expect.notify)' /\ Toggle("autoboard", autoboard, expect.autoboard)'
  <2>1. CASE kind = "own"
    <3>1. /\ \A t \in ChainAsks : ~AskedFor(t)
          /\ \A t \in ChainIs : ~Told(t)
          /\ ~expect.notify /\ ~expect.autoboard
          /\ Value.notify = notify /\ Value.autoboard = autoboard
      BY <1>3, <2>1 DEF Chained
    <3>2. ~Forced(kind)
      BY <2>1 DEF Forced, ChainIs
    <3>3. \A i \in 1..Len(commands') : commands'[i].ask \notin {"notify", "autoboard"}
      BY <1>5, <1>6, <3>1, <3>2 DEF AskedFor, ChainAsks
    <3>4. \A i \in 1..Len(lines') : lines'[i].is \notin {"notify", "autoboard"}
      BY <1>3, <3>1 DEF Told, ChainIs
    <3>5. /\ expect'.notify => ~notify'
          /\ expect'.autoboard => ~autoboard'
      BY <1>1, <1>3, <2>1, <3>1
    <3>6. ~AskedFor("notify")' /\ ~AskedFor("autoboard")'
      BY <3>3 DEF AskedFor
    <3>7. \A i \in 1..Len(lines') : lines'[i].is # "notify" /\ lines'[i].is # "autoboard"
      BY <3>4
    <3>8. Toggle("notify", notify, expect.notify)'
      BY <3>5, <3>6, <3>7 DEF Toggle
    <3>9. Toggle("autoboard", autoboard, expect.autoboard)'
      BY <3>5, <3>6, <3>7 DEF Toggle
    <3> QED  BY <3>8, <3>9
  <2>2. CASE kind # "own"
    <3>1. ~Told("own")
      BY <1>3, <2>2 DEF Told
    <3>2. Toggle("notify", notify, expect.notify) /\ Toggle("autoboard", autoboard, expect.autoboard)
      BY <3>1 DEF Chained
    <3>3. /\ AskedFor("notify")' => ~notify
          /\ \A i \in 1..Len(lines') : lines'[i].is = "notify" => lines'[i].value /\ notify
          /\ expect'.notify => ~notify \/ Told("notify")'
      <4>1. PICK is \in BOOLEAN, old \in BOOLEAN, new \in BOOLEAN :
              is = notify /\ old = expect.notify /\ new = expect'.notify
        BY <1>4
      <4>2. Toggle("notify", is, old)
        BY <3>2, <4>1
      <4>3. /\ kind # "notify" => new = old
            /\ kind = "notify" => new = ~Value
            /\ \A i \in 1..Len(q) : q[i].ask = "notify" => new
        BY <1>1, <1>6, <2>2, <4>1
      <4>4. /\ AskedFor("notify")' => ~is
            /\ \A i \in 1..Len(lines') : lines'[i].is = "notify" => lines'[i].value /\ is
            /\ new => ~is \/ Told("notify")'
        BY <1>1, <1>2, <4>2, <4>3, ToggleHandled
      <4> QED  BY <4>1, <4>4
    <3>4. /\ AskedFor("autoboard")' => ~autoboard
          /\ \A i \in 1..Len(lines') : lines'[i].is = "autoboard" => lines'[i].value /\ autoboard
          /\ expect'.autoboard => ~autoboard \/ Told("autoboard")'
      <4>1. PICK is \in BOOLEAN, old \in BOOLEAN, new \in BOOLEAN :
              is = autoboard /\ old = expect.autoboard /\ new = expect'.autoboard
        BY <1>4
      <4>2. Toggle("autoboard", is, old)
        BY <3>2, <4>1
      <4>3. /\ kind # "autoboard" => new = old
            /\ kind = "autoboard" => new = ~Value
            /\ \A i \in 1..Len(q) : q[i].ask = "autoboard" => new
        BY <1>1, <1>6, <2>2, <4>1
      <4>4. /\ AskedFor("autoboard")' => ~is
            /\ \A i \in 1..Len(lines') : lines'[i].is = "autoboard" => lines'[i].value /\ is
            /\ new => ~is \/ Told("autoboard")'
        BY <1>1, <1>2, <4>2, <4>3, ToggleHandled
      <4> QED  BY <4>1, <4>4
    <3> QED  BY <1>3, <3>3, <3>4 DEF Toggle
  <2> QED  BY <2>1, <2>2
<1>10. ASSUME NEW i \in 1..Len(lines'), lines'[i].is = "saved"
       PROVE  ~expect'.saved \/ \E j \in 1..(i - 1) : lines'[j].is = "savedStart"
  <2>1. i + 1 \in 1..Len(lines) /\ lines[i + 1].is = "saved"
    BY <1>3, <1>10
  <2>2. CASE kind = "savedStart"
    BY <1>1, <2>2
  <2>3. CASE kind = "whoEnd" /\ ~initialized
    BY <2>1, <2>3 DEF Chained, Told
  <2>4. CASE kind # "savedStart" /\ ~(kind = "whoEnd" /\ ~initialized) /\ expect'.saved
    <3>1. PICK j \in 1..((i + 1) - 1) : lines[j].is = "savedStart"
      BY <1>1, <2>1, <2>4 DEF Chained
    <3>2. j # 1 /\ j \in 1..Len(lines)
      BY <1>3, <2>1, <2>4, <3>1
    <3>3. j - 1 \in 1..(i - 1) /\ lines'[j - 1].is = "savedStart"
      BY <1>3, <3>1, <3>2
    <3> QED  BY <3>3
  <2> QED  BY <2>2, <2>3, <2>4
<1>11. ASSUME ~initialized'
       PROVE  /\ \A t \in ChainAsks : ~AskedFor(t)'
              /\ \A t \in ChainIs : ~Told(t)'
              /\ ~Told("saved")'
  <2>1. ~initialized
    BY <1>1, <1>11
  <2>2. /\ \A i \in 1..Len(commands) : commands[i].ask \notin ChainAsks
        /\ \A i \in 1..Len(lines) : lines[i].is \notin ChainIs /\ lines[i].is # "saved"
    BY <2>1 DEF Chained, AskedFor, Told
  <2>3. \A i \in 1..Len(commands') : commands'[i].ask \notin ChainAsks
    BY <1>5, <1>6, <1>11, <2>2
  <2>4. \A i \in 1..Len(lines') : lines'[i].is \notin ChainIs /\ lines'[i].is # "saved"
    BY <1>3, <2>2
  <2> QED  BY <2>3, <2>4 DEF AskedFor, Told
<1> QED  BY <1>3, <1>8, <1>9, <1>10, <1>11 DEF Chained

(* A command is answered: what it switches was off. *)
LEMMA ToggleAnswered ==
  ASSUME NEW t \in {"notify", "autoboard"}, NEW c, NEW r \in Seq(LineOf), Types, OneByOne,
         Answers(c, r), NEW is \in BOOLEAN, NEW now \in BOOLEAN, NEW expected \in BOOLEAN,
         now = (IF c.ask = t THEN ~is ELSE is),
         \A i \in 1..Len(r) : r[i].is = t => r[i].value = now,
         Toggle(t, is, expected)
  PROVE  /\ AskedFor(t)' => ~now
         /\ \A i \in 1..Len(lines') : lines'[i].is = t => lines'[i].value /\ now
         /\ expected => ~now \/ Told(t)'
         /\ is => now
<1>1. /\ commands # <<>> /\ c = Head(commands) /\ commands' = Tail(commands)
      /\ lines' = lines \o r
      /\ \A i \in 1..Len(r) : r[i].is \in {"notify", "autoboard"} => r[i].is = c.ask
      /\ c.ask \in {"notify", "autoboard"} => \E i \in 1..Len(r) : r[i].is = c.ask
  BY DEF Answers
<1>2. lines \in Seq(LineOf) /\ commands \in Seq(Command)
  BY DEF Types
<1>3. /\ c = commands[1] /\ 1 \in 1..Len(commands) /\ Len(commands) \in Nat /\ Len(commands') \in Nat
      /\ \A i \in 1..Len(commands') : commands'[i] = commands[i + 1] /\ i + 1 \in 1..Len(commands)
  BY <1>1, <1>2, TailSeq
<1>4. /\ Len(lines) \in Nat
      /\ \A i \in 1..Len(lines) : lines'[i] = lines[i] /\ i \in 1..Len(lines')
      /\ \A i \in 1..Len(r) : lines'[Len(lines) + i] = r[i] /\ Len(lines) + i \in 1..Len(lines')
      /\ \A i \in 1..Len(lines') : \/ i \in 1..Len(lines) /\ lines'[i] = lines[i]
                                   \/ i - Len(lines) \in 1..Len(r) /\ lines'[i] = r[i - Len(lines)]
  BY <1>1, <1>2, JoinSeq
<1>5. CASE c.ask = t
  <2>1. ~is /\ now
    BY <1>3, <1>5 DEF Toggle, AskedFor
  <2>2. ASSUME NEW i \in 1..Len(commands'), commands'[i].ask = t PROVE FALSE
    <3>1. i + 1 \in 1..Len(commands) /\ commands[i + 1].ask = t
      BY <1>3, <2>2
    <3>2. t \in ChainAsks
      BY DEF ChainAsks
    <3>3. 1 = i + 1
      BY <1>3, <1>5, <3>1, <3>2 DEF OneByOne
    <3> QED  BY <1>3, <3>3
  <2>3. ~AskedFor(t)'
    BY <2>2 DEF AskedFor
  <2>4. \A i \in 1..Len(lines) : lines[i].is # t
    BY <2>1 DEF Toggle
  <2>5. \A i \in 1..Len(lines') : lines'[i].is = t => lines'[i].value
    <3>1. ASSUME NEW i \in 1..Len(lines'), lines'[i].is = t PROVE lines'[i].value = now
      <4>1. i - Len(lines) \in 1..Len(r) /\ lines'[i] = r[i - Len(lines)]
        BY <1>4, <2>4, <3>1
      <4> QED  BY <3>1, <4>1
    <3> QED  BY <2>1, <3>1
  <2>6. Told(t)'
    BY <1>1, <1>4, <1>5 DEF Told
  <2> QED  BY <2>1, <2>3, <2>5, <2>6
<1>6. CASE c.ask # t
  <2>1. now = is
    BY <1>6
  <2>2. AskedFor(t)' => AskedFor(t)
    BY <1>3 DEF AskedFor
  <2>3. \A i \in 1..Len(r) : r[i].is # t
    BY <1>1, <1>6
  <2>4. \A i \in 1..Len(lines') : lines'[i].is = t => lines'[i].value /\ is
    BY <1>4, <2>3 DEF Toggle
  <2>5. Told(t) => Told(t)'
    BY <1>4 DEF Told
  <2> QED  BY <2>1, <2>2, <2>4, <2>5 DEF Toggle
<1> QED  BY <1>5, <1>6

LEMMA ChainAnswered ==
  ASSUME IInv, Chained, ServerAnswers
  PROVE  Chained' /\ (notify => notify') /\ (autoboard => autoboard')
<1>1. PICK r \in Seq(LineOf) : Answers(Head(commands), r)
  BY Answered
<1>2. PICK c : c = Head(commands)
  OBVIOUS
<1>3. Answers(c, r)
  BY <1>1, <1>2
<1>4. /\ commands # <<>> /\ commands' = Tail(commands) /\ lines' = lines \o r
      /\ expect' = expect /\ initialized' = initialized
      /\ \A i \in 1..Len(r) :
           /\ r[i].is # "own"
           /\ r[i].is \in ChainIs => c.ask \in ChainAsks
           /\ r[i].is = "notify" => r[i].value = notify'
           /\ r[i].is = "autoboard" => r[i].value = autoboard'
           /\ r[i].is = "saved" => i # 1 /\ r[1].is = "savedStart"
      /\ notify' = (IF c.ask = "notify" THEN ~notify ELSE notify)
      /\ autoboard' = (IF c.ask = "autoboard" THEN ~autoboard ELSE autoboard)
  BY <1>3 DEF Answers, session
<1>5. \A i \in 1..Len(r) : r[i].is \in ChainIs => i = 1
  BY <1>3 DEF Answers, ChainIs
<1>6. /\ Types /\ Greeted /\ lines \in Seq(LineOf) /\ commands \in Seq(Command)
      /\ notify \in BOOLEAN /\ autoboard \in BOOLEAN
      /\ expect.notify \in BOOLEAN /\ expect.autoboard \in BOOLEAN
  BY DEF IInv, Types, Expecting
<1>7. /\ c = commands[1] /\ 1 \in 1..Len(commands) /\ Len(commands) \in Nat /\ Len(commands') \in Nat
      /\ \A i \in 1..Len(commands') : commands'[i] = commands[i + 1] /\ i + 1 \in 1..Len(commands)
  BY <1>2, <1>4, <1>6, TailSeq
<1>8. /\ Len(lines) \in Nat
      /\ \A i \in 1..Len(lines) : lines'[i] = lines[i] /\ i \in 1..Len(lines')
      /\ \A i \in 1..Len(r) : lines'[Len(lines) + i] = r[i] /\ Len(lines) + i \in 1..Len(lines')
      /\ \A i \in 1..Len(lines') : \/ i \in 1..Len(lines) /\ lines'[i] = lines[i]
                                   \/ i - Len(lines) \in 1..Len(r) /\ lines'[i] = r[i - Len(lines)]
  BY <1>4, <1>6, JoinSeq
<1>9. c.ask \in ChainAsks =>
        /\ \A i \in 1..Len(commands') : commands'[i].ask \notin ChainAsks
        /\ \A i \in 1..Len(lines) : lines[i].is \notin ChainIs
  <2>1. ASSUME c.ask \in ChainAsks, NEW i \in 1..Len(commands'), commands'[i].ask \in ChainAsks
        PROVE  FALSE
    <3>1. i + 1 \in 1..Len(commands) /\ commands[i + 1].ask \in ChainAsks
      BY <1>7, <2>1
    <3>2. 1 = i + 1
      BY <1>7, <2>1, <3>1 DEF Chained, OneByOne
    <3> QED  BY <1>7, <3>2
  <2>2. c.ask \in ChainAsks => \A i \in 1..Len(lines) : lines[i].is \notin ChainIs
    BY <1>7 DEF Chained, OneByOne
  <2> QED  BY <2>1, <2>2
<1>10. OneByOne'
  <2>1. ASSUME NEW i \in 1..Len(commands'), NEW j \in 1..Len(commands'),
               commands'[i].ask \in ChainAsks, commands'[j].ask \in ChainAsks
        PROVE  i = j
    <3>1. /\ i + 1 \in 1..Len(commands) /\ commands[i + 1].ask \in ChainAsks
          /\ j + 1 \in 1..Len(commands) /\ commands[j + 1].ask \in ChainAsks
      BY <1>7, <2>1
    <3>2. i + 1 = j + 1
      BY <3>1 DEF Chained, OneByOne
    <3> QED  BY <3>2
  <2>2. ASSUME NEW i \in 1..Len(lines'), NEW j \in 1..Len(lines'),
               lines'[i].is \in ChainIs, lines'[j].is \in ChainIs
        PROVE  i = j
    <3>1. CASE c.ask \in ChainAsks
      <4>1. i - Len(lines) = 1 /\ j - Len(lines) = 1
        BY <1>5, <1>8, <1>9, <2>2, <3>1
      <4> QED  BY <1>8, <4>1
    <3>2. CASE c.ask \notin ChainAsks
      <4>1. /\ i \in 1..Len(lines) /\ lines[i].is \in ChainIs
            /\ j \in 1..Len(lines) /\ lines[j].is \in ChainIs
        BY <1>4, <1>8, <2>2, <3>2
      <4> QED  BY <4>1 DEF Chained, OneByOne
    <3> QED  BY <3>1, <3>2
  <2>3. ASSUME NEW i \in 1..Len(commands'), NEW j \in 1..Len(lines'),
               commands'[i].ask \in ChainAsks, lines'[j].is \in ChainIs
        PROVE  FALSE
    <3>1. c.ask \notin ChainAsks
      BY <1>9, <2>3
    <3>2. j \in 1..Len(lines) /\ lines[j].is \in ChainIs
      BY <1>4, <1>8, <2>3, <3>1
    <3>3. i + 1 \in 1..Len(commands) /\ commands[i + 1].ask \in ChainAsks
      BY <1>7, <2>3
    <3> QED  BY <3>2, <3>3 DEF Chained, OneByOne
  <2> QED  BY <2>1, <2>2, <2>3 DEF OneByOne
<1>11. ASSUME ~Told("own")
       PROVE  /\ Toggle("notify", notify, expect.notify)'
              /\ Toggle("autoboard", autoboard, expect.autoboard)'
              /\ (notify => notify') /\ (autoboard => autoboard')
  <2>1. Toggle("notify", notify, expect.notify) /\ Toggle("autoboard", autoboard, expect.autoboard)
    BY <1>11 DEF Chained
  <2>2. OneByOne
    BY DEF Chained
  <2>3. /\ AskedFor("notify")' => ~notify'
        /\ \A i \in 1..Len(lines') : lines'[i].is = "notify" => lines'[i].value /\ notify'
        /\ expect.notify => ~notify' \/ Told("notify")'
        /\ notify => notify'
    <3>1. PICK is \in BOOLEAN, now \in BOOLEAN, expected \in BOOLEAN :
            is = notify /\ now = notify' /\ expected = expect.notify
      BY <1>4, <1>6
    <3>2. /\ Toggle("notify", is, expected)
          /\ now = (IF c.ask = "notify" THEN ~is ELSE is)
          /\ \A i \in 1..Len(r) : r[i].is = "notify" => r[i].value = now
      BY <1>4, <2>1, <3>1
    <3>3. /\ AskedFor("notify")' => ~now
          /\ \A i \in 1..Len(lines') : lines'[i].is = "notify" => lines'[i].value /\ now
          /\ expected => ~now \/ Told("notify")'
          /\ is => now
      BY <1>3, <1>6, <2>2, <3>2, ToggleAnswered
    <3> QED  BY <3>1, <3>3
  <2>4. /\ AskedFor("autoboard")' => ~autoboard'
        /\ \A i \in 1..Len(lines') : lines'[i].is = "autoboard" => lines'[i].value /\ autoboard'
        /\ expect.autoboard => ~autoboard' \/ Told("autoboard")'
        /\ autoboard => autoboard'
    <3>1. PICK is \in BOOLEAN, now \in BOOLEAN, expected \in BOOLEAN :
            is = autoboard /\ now = autoboard' /\ expected = expect.autoboard
      BY <1>4, <1>6
    <3>2. /\ Toggle("autoboard", is, expected)
          /\ now = (IF c.ask = "autoboard" THEN ~is ELSE is)
          /\ \A i \in 1..Len(r) : r[i].is = "autoboard" => r[i].value = now
      BY <1>4, <2>1, <3>1
    <3>3. /\ AskedFor("autoboard")' => ~now
          /\ \A i \in 1..Len(lines') : lines'[i].is = "autoboard" => lines'[i].value /\ now
          /\ expected => ~now \/ Told("autoboard")'
          /\ is => now
      BY <1>3, <1>6, <2>2, <3>2, ToggleAnswered
    <3> QED  BY <3>1, <3>3
  <2> QED  BY <1>4, <2>3, <2>4 DEF Toggle
<1>12. ~initialized => /\ \A i \in 1..Len(commands) : commands[i].ask \notin ChainAsks
                       /\ \A i \in 1..Len(lines) : lines[i].is \notin ChainIs /\ lines[i].is # "saved"
                       /\ c.ask \notin ChainAsks
  <2>1. ~initialized => /\ \A i \in 1..Len(commands) : commands[i].ask \notin ChainAsks
                        /\ \A i \in 1..Len(lines) : lines[i].is \notin ChainIs /\ lines[i].is # "saved"
    BY DEF Chained, AskedFor, Told
  <2> QED  BY <1>7, <2>1
<1>13. ASSUME Told("own")
       PROVE  ~initialized /\ notify' = notify /\ autoboard' = autoboard
  <2>1. ~initialized
    BY <1>6, <1>13 DEF Greeted, Told
  <2>2. c.ask # "notify" /\ c.ask # "autoboard"
    BY <1>12, <2>1 DEF ChainAsks
  <2> QED  BY <1>4, <2>1, <2>2
<1>14. Told("own") => Told("own")'
  BY <1>8 DEF Told
<1>15. ASSUME NEW i \in 1..Len(lines'), lines'[i].is = "own"
       PROVE  /\ lines'[i].value.notify = notify' /\ lines'[i].value.autoboard = autoboard'
              /\ ~expect'.notify /\ ~expect'.autoboard
  <2>1. i \in 1..Len(lines) /\ lines'[i] = lines[i]
    BY <1>4, <1>8, <1>15
  <2>2. Told("own")
    BY <1>15, <2>1 DEF Told
  <2>3. /\ lines[i].value.notify = notify /\ lines[i].value.autoboard = autoboard
        /\ ~expect.notify /\ ~expect.autoboard
    BY <1>15, <2>1 DEF Chained
  <2> QED  BY <1>4, <1>13, <2>1, <2>2, <2>3
<1>16. ASSUME NEW i \in 1..Len(lines'), lines'[i].is = "saved"
       PROVE  ~expect'.saved \/ \E j \in 1..(i - 1) : lines'[j].is = "savedStart"
  <2>1. CASE i \in 1..Len(lines) /\ lines'[i] = lines[i]
    <3>1. ~expect.saved \/ \E j \in 1..(i - 1) : lines[j].is = "savedStart"
      BY <1>16, <2>1 DEF Chained
    <3>2. \A j \in 1..(i - 1) : lines'[j] = lines[j]
      BY <1>8, <2>1
    <3> QED  BY <1>4, <3>1, <3>2
  <2>2. CASE i - Len(lines) \in 1..Len(r) /\ lines'[i] = r[i - Len(lines)]
    <3>1. i - Len(lines) # 1 /\ r[1].is = "savedStart"
      BY <1>4, <1>16, <2>2
    <3>2. 1 \in 1..Len(r) /\ Len(lines) + 1 \in 1..(i - 1)
      BY <1>8, <2>2, <3>1
    <3>3. lines'[Len(lines) + 1] = r[1]
      BY <1>8, <3>2
    <3> QED  BY <3>1, <3>2, <3>3
  <2> QED  BY <1>8, <2>1, <2>2
<1>17. ASSUME ~initialized'
       PROVE  /\ \A t \in ChainAsks : ~AskedFor(t)'
              /\ \A t \in ChainIs : ~Told(t)'
              /\ ~Told("saved")'
  <2>1. /\ \A i \in 1..Len(commands) : commands[i].ask \notin ChainAsks
        /\ \A i \in 1..Len(lines) : lines[i].is \notin ChainIs /\ lines[i].is # "saved"
        /\ c.ask \notin ChainAsks
    BY <1>4, <1>12, <1>17
  <2>2. \A i \in 1..Len(commands') : commands'[i].ask \notin ChainAsks
    BY <1>7, <2>1
  <2>3. \A i \in 1..Len(r) : r[i].is \notin ChainIs
    BY <1>4, <2>1
  <2>4. \A i \in 1..Len(r) : r[i].is # "saved"
    <3>1. \A i \in 1..Len(r) : 1 \in 1..Len(r)
      OBVIOUS
    <3>2. "savedStart" \in ChainIs
      BY DEF ChainIs
    <3> QED  BY <1>4, <2>3, <3>1, <3>2
  <2>5. \A i \in 1..Len(lines') : lines'[i].is \notin ChainIs /\ lines'[i].is # "saved"
    BY <1>8, <2>1, <2>3, <2>4
  <2> QED  BY <2>2, <2>5 DEF AskedFor, Told
<1>18. Chained'
  BY <1>10, <1>11, <1>14, <1>15, <1>16, <1>17 DEF Chained
<1>19. (notify => notify') /\ (autoboard => autoboard')
  BY <1>11, <1>13
<1> QED  BY <1>18, <1>19

(* What others do has nothing to do with it. *)
LEMMA ChainReported ==
  ASSUME IInv, Chained, NEW r \in Seq(LineOf), lines' = lines \o r,
         \A i \in 1..Len(r) : r[i].is \in {"login", "logout", "invitation", "who", "whoEnd"},
         UNCHANGED <<expect, initialized, commands, notify, autoboard>>
  PROVE  Chained'
<1>1. /\ Len(lines) \in Nat
      /\ \A i \in 1..Len(lines) : lines'[i] = lines[i] /\ i \in 1..Len(lines')
      /\ \A i \in 1..Len(lines') : \/ i \in 1..Len(lines) /\ lines'[i] = lines[i]
                                   \/ i - Len(lines) \in 1..Len(r) /\ lines'[i] = r[i - Len(lines)]
  <2>1. lines \in Seq(LineOf)
    BY DEF IInv, Types
  <2> QED  BY <2>1, JoinSeq
<1>2. \A i \in 1..Len(r) : r[i].is \notin ChainIs /\ r[i].is # "saved" /\ r[i].is # "own"
  BY DEF ChainIs
<1>3. \A i \in 1..Len(lines') :
        lines'[i].is \in ChainIs \/ lines'[i].is = "saved" \/ lines'[i].is = "own" =>
          i \in 1..Len(lines) /\ lines'[i] = lines[i]
  BY <1>1, <1>2
<1>4. "notify" \in ChainIs /\ "autoboard" \in ChainIs
  BY DEF ChainIs
<1>5. OneByOne'
  BY <1>3 DEF Chained, OneByOne
<1>6. \A t \in ChainIs \cup {"own", "saved"} : Told(t) <=> Told(t)'
  BY <1>1, <1>3 DEF Told
<1>7. \A t \in ChainAsks : AskedFor(t) <=> AskedFor(t)'
  BY DEF AskedFor
<1>8. ASSUME ~Told("own")'
      PROVE  Toggle("notify", notify, expect.notify)' /\ Toggle("autoboard", autoboard, expect.autoboard)'
  <2>1. Toggle("notify", notify, expect.notify) /\ Toggle("autoboard", autoboard, expect.autoboard)
    BY <1>6, <1>8 DEF Chained
  <2>2. "notify" \in ChainAsks /\ "autoboard" \in ChainAsks
    BY DEF ChainAsks
  <2>3. /\ AskedFor("notify")' => ~notify'
        /\ \A i \in 1..Len(lines') : lines'[i].is = "notify" => lines'[i].value /\ notify'
        /\ expect'.notify => ~notify' \/ Told("notify")'
    BY <1>3, <1>4, <1>6, <1>7, <2>1, <2>2 DEF Toggle
  <2>4. /\ AskedFor("autoboard")' => ~autoboard'
        /\ \A i \in 1..Len(lines') : lines'[i].is = "autoboard" => lines'[i].value /\ autoboard'
        /\ expect'.autoboard => ~autoboard' \/ Told("autoboard")'
    BY <1>3, <1>4, <1>6, <1>7, <2>1, <2>2 DEF Toggle
  <2> QED  BY <2>3, <2>4 DEF Toggle
<1>9. \A i \in 1..Len(lines') :
        lines'[i].is = "own" => /\ lines'[i].value.notify = notify'
                                /\ lines'[i].value.autoboard = autoboard'
                                /\ ~expect'.notify /\ ~expect'.autoboard
  BY <1>3 DEF Chained
<1>10. ASSUME NEW i \in 1..Len(lines'), lines'[i].is = "saved"
       PROVE  ~expect'.saved \/ \E j \in 1..(i - 1) : lines'[j].is = "savedStart"
  <2>1. i \in 1..Len(lines) /\ lines[i].is = "saved"
    BY <1>3, <1>10
  <2>2. ~expect.saved \/ \E j \in 1..(i - 1) : lines[j].is = "savedStart"
    BY <2>1 DEF Chained
  <2>3. \A j \in 1..(i - 1) : lines'[j] = lines[j]
    BY <1>1, <2>1
  <2> QED  BY <2>2, <2>3
<1>11. ASSUME ~initialized'
       PROVE  /\ \A t \in ChainAsks : ~AskedFor(t)'
              /\ \A t \in ChainIs : ~Told(t)'
              /\ ~Told("saved")'
  BY <1>6, <1>7, <1>11 DEF Chained
<1> QED  BY <1>5, <1>8, <1>9, <1>10, <1>11 DEF Chained

(* The timer fires when nothing is underway. *)
LEMMA ChainTimeout ==
  ASSUME IInv, Chained, Timeout, late' = late
  PROVE  Chained'
<1>1. UNCHANGED <<lines, server>> /\ expect'.notify = expect.notify
      /\ expect'.autoboard = expect.autoboard /\ initialized'
  BY TimeoutStep
<1>2. PICK q \in Seq(Command) : Sends("timeout", q)
  BY TimeoutStep
<1>3. commands \in Seq(Command) /\ lines \in Seq(LineOf)
  BY DEF IInv, Types
<1>4. commands \o lines = <<>>
  <2>1. late' = (IF commands \o lines = <<>> THEN late ELSE late - 1)
    BY DEF Timeout
  <2>2. late # late - 1
    BY DEF IInv, Types
  <2> QED  BY <2>1, <2>2
<1>5. Len(commands) = 0 /\ Len(lines) = 0
  <2>1. PICK u : u = commands \o lines
    OBVIOUS
  <2>2. commands \in Seq(Command \cup LineOf) /\ lines \in Seq(Command \cup LineOf)
    BY <1>3
  <2>3. Len(u) = Len(commands) + Len(lines) /\ Len(commands) \in Nat /\ Len(lines) \in Nat
    BY <2>1, <2>2, JoinSeq
  <2>4. Len(u) = 0
    BY <1>4, <2>1
  <2>5. \A m, n \in Nat : m + n = 0 => m = 0 /\ n = 0
    OBVIOUS
  <2> QED  BY <2>3, <2>4, <2>5
<1>6. commands' = q
  <2>1. commands = <<>>
    BY <1>3, <1>5, EmptySeq
  <2>2. commands' = commands \o q
    BY <1>2 DEF Sends
  <2> QED  BY <2>1, <2>2, ConcatEmptySeq
<1>7. \A i \in 1..Len(lines') : FALSE
  BY <1>1, <1>5
<1>8. ~Told("own") /\ ~Told("notify") /\ ~Told("autoboard")
  BY <1>1, <1>7 DEF Told
<1>9. OneByOne'
  <2>1. \A i, j \in 1..Len(commands') : {commands'[i].ask, commands'[j].ask} \subseteq ChainAsks => i = j
    BY <1>2, <1>6 DEF Sends
  <2> QED  BY <1>7, <2>1 DEF OneByOne
<1>10. /\ expect.notify => ~notify
       /\ expect.autoboard => ~autoboard
  BY <1>8 DEF Chained, Toggle
<1>11. /\ AskedFor("notify")' => ~notify
       /\ AskedFor("autoboard")' => ~autoboard
  BY <1>1, <1>2, <1>6, <1>10 DEF AskedFor, Sends
<1>12. Toggle("notify", notify, expect.notify)' /\ Toggle("autoboard", autoboard, expect.autoboard)'
  <2>1. notify' = notify /\ autoboard' = autoboard
    BY <1>1 DEF server
  <2> QED  BY <1>1, <1>7, <1>10, <1>11, <2>1 DEF Toggle
<1> QED  BY <1>1, <1>4, <1>7, <1>9, <1>12 DEF Chained

(* The user and the timer spend what is left of the bounds. *)
Within == user <= MaxUser /\ late <= MaxLate

LEMMA SpendOnly ==
  ASSUME IInv, [Next]_vars
  PROVE  user' <= user /\ late' <= late
<1>1. user \in Nat /\ late \in Nat
  BY DEF IInv, Types
<1>2. CASE UNCHANGED <<user, late>>
  BY <1>1, <1>2
<1>3. CASE Handle
  <2>1. PICK kind : Effect(kind)
    BY <1>3, Handled
  <2> QED  BY <1>2, <2>1 DEF Effect, Receive, bounds
<1>4. CASE Timeout
  <2>1. user' = user /\ late' = (IF commands \o lines = <<>> THEN late ELSE late - 1)
    BY <1>4 DEF Timeout
  <2>2. late' = late \/ late' = late - 1
    BY <2>1
  <2> QED  BY <1>1, <2>1, <2>2
<1>5. CASE \E name \in Others : GetSavedCount(name)
  BY <1>1, <1>5 DEF GetSavedCount
<1>6. CASE \E command \in UserCommands : UserCommand(command)
  BY <1>1, <1>6 DEF UserCommand
<1>7. CASE ServerAnswers
  BY <1>2, <1>7 DEF ServerAnswers, bounds
<1>8. CASE ServerReports
  BY <1>2, <1>8 DEF ServerReports
<1>9. CASE UNCHANGED vars
  BY <1>2, <1>9 DEF vars, bounds
<1> QED  BY <1>3, <1>4, <1>5, <1>6, <1>7, <1>8, <1>9 DEF Next

LEMMA ChainNext ==
  ASSUME IInv, Chained, user' = user, late' = late, [Next]_vars
  PROVE  /\ Chained'
         /\ notify => notify'
         /\ autoboard => autoboard'
<1>0. user # user - 1
  BY DEF IInv, Types
<1>1. CASE Handle
  <2>1. PICK kind : Effect(kind)
    BY <1>1, Handled
  <2>2. UNCHANGED <<server, bounds>>
    BY <2>1 DEF Effect, Receive
  <2> QED  BY <2>1, <2>2, ChainHandled DEF server, bounds
<1>2. CASE Timeout
  <2>1. UNCHANGED <<server, user>>
    BY <1>2, TimeoutStep
  <2> QED  BY <1>2, <2>1, ChainTimeout DEF server
<1>3. CASE \E name \in Others : GetSavedCount(name)
  BY <1>0, <1>3 DEF GetSavedCount
<1>4. CASE \E command \in UserCommands : UserCommand(command)
  BY <1>0, <1>4 DEF UserCommand
<1>5. CASE ServerAnswers
  <2>1. UNCHANGED bounds
    BY <1>5 DEF ServerAnswers
  <2> QED  BY <1>5, <2>1, ChainAnswered DEF bounds
<1>6. CASE ServerReports
  <2>1. UNCHANGED <<session, commands, server, user, late>>
    BY <1>6, Reports
  <2>2. PICK r \in Seq(LineOf) :
          /\ lines' = lines \o r
          /\ \A i \in 1..Len(r) :
               r[i].is \in {"login", "logout", "invitation", "who", "whoEnd"}
    BY <1>6, Reports
  <2>3. UNCHANGED <<expect, initialized, commands, notify, autoboard, user, late>>
    BY <2>1 DEF session, server
  <2> QED  BY <2>2, <2>3, ChainReported
<1>7. CASE UNCHANGED vars
  <2>1. UNCHANGED <<expect, initialized, commands, lines, notify, autoboard, user, late>>
    BY <1>7 DEF vars, session, server, bounds
  <2>2. PICK none : none = <<>>
    OBVIOUS
  <2>3. none \in Seq(LineOf) /\ Len(none) = 0 /\ lines' = lines \o none
    BY <2>1, <2>2, ConcatEmptySeq DEF IInv, Types
  <2>4. \A i \in 1..Len(none) : none[i].is \in {"login", "logout", "invitation", "who", "whoEnd"}
    BY <2>3
  <2> QED  BY <2>1, <2>3, <2>4, ChainReported
<1> QED  BY <1>1, <1>2, <1>3, <1>4, <1>5, <1>6, <1>7 DEF Next

LEMMA InitChained == Init => Chained
<1> SUFFICES ASSUME Init PROVE Chained
  OBVIOUS
<1>1. Len(commands) = 0 /\ (\A i \in 1..0 : FALSE) /\ expect = Nothing
  BY DEF Init
<1>2. /\ \A i \in 1..Len(lines) : lines[i].is \in {"own", "who", "whoEnd"}
      /\ \A i \in 1..Len(lines) : lines[i].is = "own" => i = 1
      /\ 1 \in 1..Len(lines) /\ lines[1].is = "own"
      /\ lines[1].value.notify = notify /\ lines[1].value.autoboard = autoboard
  BY InitLines
<1>3. \A i \in 1..Len(lines) : lines[i].is \notin ChainIs /\ lines[i].is # "saved"
  BY <1>2 DEF ChainIs
<1>4. OneByOne
  BY <1>1, <1>3 DEF OneByOne
<1>5. Told("own") /\ (\A t \in ChainIs : ~Told(t)) /\ ~Told("saved") /\ \A t : ~AskedFor(t)
  BY <1>1, <1>2, <1>3 DEF Told, AskedFor
<1>6. ~expect.notify /\ ~expect.autoboard /\ ~expect.saved
  BY <1>1 DEF Nothing
<1> QED  BY <1>2, <1>4, <1>5, <1>6 DEF Chained

(* gibbon_session_check_expect_queues() and the handlers of the toggles    *)
(* never send a toggle once too often: with one request for a setting      *)
(* underway at a time nothing that is on is switched off, as long as the   *)
(* user types no command and the timer fires only when nothing is underway.*)
THEOREM TogglesStayOn == Spec => NeverToggledOff
<1> DEFINE Chain == Within /\ (Undisturbed => Chained)
<1>1. Init => Chain
  <2>1. Init => user = MaxUser /\ late = MaxLate
    BY DEF Init
  <2> QED  BY <2>1, InitChained, BoundsAssumption DEF Within
<1>2. ASSUME IInv, Chain, [Next]_vars
      PROVE  /\ Chain'
             /\ Undisturbed' => (notify => notify') /\ (autoboard => autoboard')
  <2>1. user \in Nat /\ late \in Nat /\ MaxUser \in Nat /\ MaxLate \in Nat
    BY <1>2, BoundsAssumption DEF IInv, Types
  <2>2. user' <= user /\ late' <= late
    BY <1>2, SpendOnly
  <2>3. user' \in Nat /\ late' \in Nat
    <3>1. IInv'
      BY <1>2, NextStep
    <3> QED  BY <3>1 DEF IInv, Types
  <2>4. Within'
    BY <1>2, <2>1, <2>2, <2>3 DEF Within
  <2>5. Undisturbed' => Undisturbed /\ user' = user /\ late' = late
    BY <1>2, <2>1, <2>2, <2>3 DEF Within, Undisturbed
  <2>6. Undisturbed' =>
          Chained' /\ (notify => notify') /\ (autoboard => autoboard')
    BY <1>2, <2>5, ChainNext
  <2> QED  BY <2>4, <2>6
<1>3. IInv /\ Chain /\ [Next]_vars => Chain'
  BY <1>2
<1>4. IInv /\ Chain /\ [Next]_vars =>
        [Undisturbed' => (notify => notify') /\ (autoboard => autoboard')]_vars
  BY <1>2
<1> HIDE DEF Chain
<1> QED  BY <1>1, <1>3, <1>4, AlwaysAsking, PTL DEF Spec, NeverToggledOff
=============================================================================
