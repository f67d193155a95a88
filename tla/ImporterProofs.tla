---------------------------- MODULE ImporterProofs ----------------------------
(***************************************************************************)
(* Proofs about Importer.tla: the importer never takes its types back, and *)
(* when the poll ends of its own accord everything has been imported once. *)
(*                                                                         *)
(* The poll compares two counters.  The invariant says what their          *)
(* difference stands for, step by step of the worker and of the poll, and  *)
(* it says where every task is: done, queued, or still ahead of the worker.*)
(***************************************************************************)
EXTENDS Importer, SequenceTheorems, FiniteSetTheorems, TLAPS

-----------------------------------------------------------------------------
(* What there is to import, by where it comes from. *)
Stages   == {"friends", "villains", "ranks"}
Friends  == ToSet(GroupTasks("friends"))
Villains == ToSet(GroupTasks("villains"))
Lines    == ToSet(RankTasks)
Ranked   == Lines \cap Everything

(* What the worker has not queued yet: of this stage, of the later stages, *)
(* and of the matches.                                                     *)
Later ==
  CASE worker = "friends"  -> Villains \cup Ranked
    [] worker = "villains" -> Ranked
    [] OTHER               -> {}

Unread ==
  {t \in Everything : t.kind \in {"match", "saved"} /\ t.of \in unparsed \cup parsed}

Ahead == (ToSet(todo) \cap Everything) \cup Later \cup Unread

(* What jobs counts and finished does not: stages, matches to parse,       *)
(* matches to save, ratings in the queue, a rating that is about to enter. *)
StagesLeft ==
  CASE worker = "friends"  -> 3
    [] worker = "villains" -> 2
    [] worker = "ranks"    -> 1
    [] OTHER               -> 0

ToParse     == unparsed \cup (IF counted THEN {} ELSE parsed)
ToSave      == {s \in DOMAIN matches : s \in unparsed \cup parsed
                                       \/ Task(matches[s], s) \in ToSet(tasks)}
QueuedRanks == {t \in ToSet(tasks) : t.kind = "rank"}
Due         == IF worker = "ranks" /\ counted THEN 1 ELSE 0

Saved == counters.stored + counters.errors + counters.skipped

-----------------------------------------------------------------------------
(* The inductive invariant. *)
Types ==
  /\ groups \in [DOMAIN groups -> SUBSET Names]
  /\ \E n \in 0..MaxRatings : ratings \in [1..n -> Ranks]
  /\ DOMAIN matches \in SUBSET Stems
  /\ matches \in [DOMAIN matches -> {"match", "saved", "broken"}]
  /\ worker \in {"none", "collect", "friends", "villains", "ranks", "matches", "last", "done"}
  /\ counted \in BOOLEAN /\ unparsed \subseteq DOMAIN matches
  /\ parsed = {} \/ \E s \in DOMAIN matches \ unparsed : parsed = {s}
  /\ jobs \in Nat \cup {-1} /\ finished \in Nat
  /\ counters \in [{"ratings", "stored", "errors", "skipped"} -> Nat]
  /\ dialog \in {"off", "stop", "ok", "gone"}
  /\ cancelled \in BOOLEAN /\ polling \in BOOLEAN /\ ended \in BOOLEAN
  /\ tasks \in Seq(Everything) /\ handled \in Seq(Everything)

(* The tasks of the stage that is under way. *)
Staged ==
  /\ worker = "friends"  => todo \in Seq(Friends)
  /\ worker = "villains" => todo \in Seq(Villains)
  /\ worker = "ranks"    => todo \in Seq(Lines)
  /\ worker \notin Stages => todo = <<>>
  /\ IsInjective(todo)

(* Until the directory is read nothing has happened; a match is parsed, or *)
(* a rating counted, at its time only; the poll stops for good.            *)
Course ==
  /\ dialog = "off" => worker = "none"
  /\ worker \in {"none", "collect"} => jobs = -1
  /\ jobs = -1 => /\ worker \in {"none", "collect", "done"} /\ finished = 0
                  /\ unparsed = DOMAIN matches /\ parsed = {}
                  /\ tasks = <<>> /\ handled = <<>> /\ Saved = 0
  /\ parsed # {} => worker = "matches"
  /\ counted => \/ worker = "matches" /\ parsed # {}
                \/ worker = "ranks" /\ todo # <<>> /\ Head(todo) \in Everything
  /\ ended => ~polling
  /\ polling => dialog \in {"stop", "ok"}

(* The counters stay within what is on the disk. *)
AtMost == 3 + 2 * Cardinality(DOMAIN matches)

Bounded ==
  /\ jobs = -1 \/ finished <= jobs
  /\ jobs <= AtMost + Len(ratings)
  /\ worker \in {"friends", "villains"} => jobs <= AtMost
  /\ worker = "ranks" => jobs + Len(todo) <= AtMost + Len(ratings) + Due

(* Every task is done, queued or ahead, once. *)
Split ==
  dialog # "gone" /\ jobs # -1 =>
    /\ IsInjective(handled) /\ IsInjective(tasks)
    /\ ToSet(handled) \cap ToSet(tasks) = {}
    /\ (ToSet(handled) \cup ToSet(tasks)) \cap Ahead = {}
    /\ ToSet(handled) \cup ToSet(tasks) \cup Ahead = Everything

(* What the counters stand for. *)
Balance ==
  dialog # "gone" /\ jobs # -1 =>
    /\ jobs - finished = StagesLeft + Cardinality(ToParse) + Cardinality(ToSave)
                         + Cardinality(QueuedRanks) + Due
    /\ Saved + Cardinality(ToSave) = Cardinality(DOMAIN matches)

(* The poll has ended of its own accord. *)
Over == ended /\ ~cancelled /\ dialog = "ok" => Complete

IInv == Types /\ Staged /\ Course /\ Bounded /\ Split /\ Balance /\ Over

-----------------------------------------------------------------------------
(* Sequences without repetition. *)
LEMMA InSeq ==
  ASSUME NEW S, NEW s \in Seq(S)
  PROVE  /\ Len(s) \in Nat /\ DOMAIN s = 1..Len(s)
         /\ ToSet(s) = {s[i] : i \in 1..Len(s)} /\ ToSet(s) \subseteq S
         /\ IsInjective(s) <=> \A i, j \in 1..Len(s) : s[i] = s[j] => i = j
<1>1. Len(s) \in Nat /\ DOMAIN s = 1..Len(s) /\ \A i \in 1..Len(s) : s[i] \in S
  BY LenProperties, ElementOfSeq
<1> QED  BY <1>1 DEF ToSet, IsInjective

LEMMA EmptyIsInjective ==
  ToSet(<<>>) = {} /\ IsInjective(<<>>) /\ Len(<<>>) = 0 /\ \A S : <<>> \in Seq(S)
<1>1. Len(<<>>) = 0 /\ DOMAIN <<>> = {}
  OBVIOUS
<1> QED  BY <1>1 DEF ToSet, IsInjective

LEMMA TailSeq ==
  ASSUME NEW S, NEW s \in Seq(S), s # <<>>, NEW t, t = Tail(s)
  PROVE  /\ t \in Seq(S) /\ Head(s) \in S /\ Head(s) \in ToSet(s) /\ Len(s) = Len(t) + 1
         /\ IsInjective(s) => IsInjective(t) /\ ToSet(t) = ToSet(s) \ {Head(s)}
<1>1. /\ t \in Seq(S) /\ Head(s) \in S /\ Head(s) = s[1] /\ Len(t) = Len(s) - 1
      /\ \A i \in 1..Len(t) : t[i] = s[i + 1]
  BY HeadTailProperties
<1>2. Len(s) \in Nat /\ Len(t) \in Nat /\ Len(s) # 0
  BY <1>1, LenProperties, EmptySeq
<1>3. \A i \in 1..Len(t) : i + 1 \in 1..Len(s) /\ i + 1 # 1
  BY <1>1, <1>2
<1>4. \A i \in 1..Len(s) : i = 1 \/ (i - 1 \in 1..Len(t) /\ (i - 1) + 1 = i)
  BY <1>1, <1>2
<1>5. Len(s) = Len(t) + 1 /\ 1 \in 1..Len(s)
  BY <1>1, <1>2
<1>6. ToSet(s) = {s[i] : i \in 1..Len(s)} /\ ToSet(t) = {t[i] : i \in 1..Len(t)}
  <2>1. ToSet(s) = {s[i] : i \in 1..Len(s)}
    BY InSeq
  <2>2. ToSet(t) = {t[i] : i \in 1..Len(t)}
    <3>1. DOMAIN t = 1..Len(t)
      BY <1>1, LenProperties
    <3> QED  BY <3>1 DEF ToSet
  <2> QED  BY <2>1, <2>2
<1>7. ASSUME IsInjective(s) PROVE IsInjective(t) /\ ToSet(t) = ToSet(s) \ {Head(s)}
  <2>1. \A i, j \in 1..Len(s) : s[i] = s[j] => i = j
    BY <1>7, InSeq
  <2>2. \A i, j \in 1..Len(t) : t[i] = t[j] => i = j
    <3>1. \A i, j \in 1..Len(t) : i + 1 = j + 1 => i = j
      BY <1>2
    <3> QED  BY <1>1, <1>3, <2>1, <3>1
  <2>3. IsInjective(t)
    BY <1>1, <2>2, InSeq
  <2>4. ToSet(t) \subseteq ToSet(s) \ {s[1]}
    BY <1>1, <1>3, <1>5, <1>6, <2>1
  <2>5. ToSet(s) \ {s[1]} \subseteq ToSet(t)
    <3>1. \A i \in 1..Len(s) : i = 1 \/ (i - 1 \in 1..Len(t) /\ t[i - 1] = s[i])
      BY <1>1, <1>4
    <3>2. ASSUME NEW x \in ToSet(s), x # s[1] PROVE x \in ToSet(t)
      <4>1. PICK i \in 1..Len(s) : x = s[i]
        BY <1>6, Zenon
      <4>2. i - 1 \in 1..Len(t) /\ t[i - 1] = x
        BY <3>1, <3>2, <4>1
      <4> QED  BY <1>6, <4>2, Zenon
    <3> QED  BY <3>2
  <2> QED  BY <1>1, <2>3, <2>4, <2>5
<1> QED  BY <1>1, <1>5, <1>6, <1>7

LEMMA AppendSeq ==
  ASSUME NEW S, NEW s \in Seq(S), NEW x \in S, NEW t, t = Append(s, x)
  PROVE  /\ t \in Seq(S) /\ t # <<>> /\ ToSet(t) = ToSet(s) \cup {x}
         /\ IsInjective(s) /\ x \notin ToSet(s) => IsInjective(t)
<1>1. /\ t \in Seq(S) /\ Len(t) = Len(s) + 1 /\ t[Len(s) + 1] = x
      /\ \A i \in 1..Len(s) : t[i] = s[i]
  BY AppendProperties
<1>2. Len(s) \in Nat /\ Len(t) \in Nat /\ Len(t) # 0
  BY <1>1, LenProperties
<1>3. \A i \in 1..Len(t) : i \in 1..Len(s) \/ i = Len(s) + 1
  BY <1>1, <1>2
<1>4. Len(s) + 1 \in 1..Len(t) /\ \A i \in 1..Len(s) : i \in 1..Len(t)
  BY <1>1, <1>2
<1>5. ToSet(s) = {s[i] : i \in 1..Len(s)} /\ ToSet(t) = {t[i] : i \in 1..Len(t)}
  <2>1. ToSet(s) = {s[i] : i \in 1..Len(s)}
    BY InSeq
  <2>2. ToSet(t) = {t[i] : i \in 1..Len(t)}
    <3>1. DOMAIN t = 1..Len(t)
      BY <1>1, LenProperties
    <3> QED  BY <3>1 DEF ToSet
  <2> QED  BY <2>1, <2>2
<1>6. ASSUME IsInjective(s), x \notin ToSet(s) PROVE IsInjective(t)
  <2>1. \A i, j \in 1..Len(s) : s[i] = s[j] => i = j
    BY <1>6, InSeq
  <2>2. \A i \in 1..Len(s) : s[i] # x
    BY <1>5, <1>6
  <2>3. \A i, j \in 1..Len(t) : t[i] = t[j] => i = j
    BY <1>1, <1>3, <2>1, <2>2
  <2> QED  BY <1>1, <2>3, InSeq
<1>7. ToSet(t) = ToSet(s) \cup {x}
  <2>1. ToSet(t) \subseteq ToSet(s) \cup {x}
    BY <1>1, <1>3, <1>5
  <2>2. ToSet(s) \cup {x} \subseteq ToSet(t)
    BY <1>1, <1>4, <1>5
  <2> QED  BY <2>1, <2>2
<1>8. t # <<>>
  BY <1>1, <1>2, EmptySeq
<1> QED  BY <1>1, <1>6, <1>7, <1>8

LEMMA JoinElements ==
  ASSUME NEW S, NEW T, NEW s \in Seq(S), NEW t \in Seq(T)
  PROVE  ToSet(s \o t) = ToSet(s) \cup ToSet(t)
<1> DEFINE R == S \cup T
<1>1. s \in Seq(R) /\ t \in Seq(R)
  <2>1. ASSUME NEW Q, Q \subseteq R, NEW q \in Seq(Q) PROVE q \in Seq(R)
    <3>1. Len(q) \in Nat /\ DOMAIN q = 1..Len(q) /\ \A i \in 1..Len(q) : q[i] \in Q
      BY LenProperties, ElementOfSeq
    <3>2. q = [i \in 1..Len(q) |-> q[i]]
      BY <3>1, SeqDef
    <3>3. q \in [1..Len(q) -> R]
      BY <2>1, <3>1, <3>2
    <3> QED  BY <3>1, <3>3, IsASeq
  <2> QED  BY <2>1
<1> HIDE DEF R
<1>2. PICK u : u = s \o t
  OBVIOUS
<1>3. /\ u \in Seq(R) /\ Len(u) = Len(s) + Len(t)
      /\ \A i \in 1..(Len(s) + Len(t)) : u[i] = IF i <= Len(s) THEN s[i] ELSE t[i - Len(s)]
  BY <1>1, <1>2, ConcatProperties
<1>4. Len(s) \in Nat /\ Len(t) \in Nat
  BY LenProperties
<1>5. /\ ToSet(s) = {s[i] : i \in 1..Len(s)} /\ ToSet(t) = {t[i] : i \in 1..Len(t)}
      /\ ToSet(u) = {u[i] : i \in 1..Len(u)}
  <2>1. DOMAIN s = 1..Len(s) /\ DOMAIN t = 1..Len(t) /\ DOMAIN u = 1..Len(u)
    BY <1>3, LenProperties
  <2> QED  BY <2>1 DEF ToSet
<1>6. \A i \in 1..Len(u) : \/ i \in 1..Len(s) /\ u[i] = s[i]
                           \/ i - Len(s) \in 1..Len(t) /\ u[i] = t[i - Len(s)]
  BY <1>3, <1>4
<1>7. \A i \in 1..Len(s) : i \in 1..Len(u) /\ u[i] = s[i]
  BY <1>3, <1>4
<1>8. \A i \in 1..Len(t) : Len(s) + i \in 1..Len(u) /\ u[Len(s) + i] = t[i]
  <2>1. ASSUME NEW i \in 1..Len(t)
        PROVE  /\ Len(s) + i \in 1..(Len(s) + Len(t)) /\ ~(Len(s) + i <= Len(s))
               /\ (Len(s) + i) - Len(s) = i
    BY <1>4
  <2> QED  BY <1>3, <2>1
<1>9. ToSet(u) \subseteq ToSet(s) \cup ToSet(t)
  BY <1>5, <1>6
<1>10. ToSet(s) \cup ToSet(t) \subseteq ToSet(u)
  BY <1>5, <1>7, <1>8
<1> QED  BY <1>2, <1>9, <1>10

(* The members of a finite set, in some order. *)
LEMMA SetAsSeq ==
  ASSUME NEW S, IsFiniteSet(S), NEW s, s = SetToSeq(S)
  PROVE  s \in Seq(S) /\ ToSet(s) = S /\ IsInjective(s)
<1> DEFINE D == 1..Cardinality(S)
<1>1. Cardinality(S) \in Nat /\ ExistsBijection(D, S)
  BY FS_CardinalityType
<1>2. s \in [D -> S] /\ IsInjective(s)
  <2>1. \E f \in [D -> S] : IsInjective(f)
    BY <1>1 DEF ExistsBijection, Bijection, Injection
  <2> QED  BY <2>1 DEF SetToSeq
<1>3. IsFiniteSet(D) /\ Cardinality(D) = Cardinality(S)
  <2>1. IsFiniteSet(D) /\ Cardinality(D) = IF 1 > Cardinality(S) THEN 0 ELSE Cardinality(S) - 1 + 1
    BY <1>1, FS_Interval
  <2> QED  BY <1>1, <2>1
<1>4. s \in Injection(D, S)
  BY <1>2 DEF Injection
<1>5. s \in Surjection(D, S)
  BY <1>3, <1>4, FS_Injection
<1>6. s \in Seq(S) /\ Len(s) = Cardinality(S)
  BY <1>1, <1>2, IsASeq, LenProperties
<1>7. ToSet(s) = {s[i] : i \in 1..Len(s)}
  BY <1>6, InSeq
<1>8. \A x \in S : \E i \in D : s[i] = x
  BY <1>5 DEF Surjection
<1>9. \A i \in D : s[i] \in S
  BY <1>2
<1> QED  BY <1>2, <1>6, <1>7, <1>8, <1>9

(* One more in front. *)
LEMMA InFront ==
  ASSUME NEW S, NEW s \in Seq(S), NEW x, NEW t, t = <<x>> \o s, IsInjective(s), x \notin ToSet(s)
  PROVE  /\ t \in Seq(S \cup {x}) /\ ToSet(t) = ToSet(s) \cup {x} /\ IsInjective(t)
<1> DEFINE R == S \cup {x}
<1>1. s \in Seq(R) /\ <<x>> \in Seq(R) /\ Len(<<x>>) = 1 /\ <<x>>[1] = x
  <2>1. Len(s) \in Nat /\ DOMAIN s = 1..Len(s) /\ \A i \in 1..Len(s) : s[i] \in S
    BY LenProperties, ElementOfSeq
  <2>2. s = [i \in 1..Len(s) |-> s[i]]
    BY <2>1, SeqDef
  <2>3. s \in [1..Len(s) -> R]
    BY <2>1, <2>2
  <2> QED  BY <2>1, <2>3, IsASeq
<1> HIDE DEF R
<1>2. Len(s) \in Nat
  BY LenProperties
<1>3. /\ t \in Seq(R) /\ Len(t) = 1 + Len(s)
      /\ \A i \in 1..(1 + Len(s)) : t[i] = IF i <= 1 THEN <<x>>[i] ELSE s[i - 1]
  BY <1>1, ConcatProperties
<1>4. t[1] = x /\ 1 \in 1..Len(t)
  BY <1>1, <1>2, <1>3
<1>5. \A i \in 1..Len(s) : t[i + 1] = s[i] /\ i + 1 \in 1..Len(t)
  <2>1. ASSUME NEW i \in 1..Len(s)
        PROVE  i + 1 \in 1..(1 + Len(s)) /\ ~(i + 1 <= 1) /\ (i + 1) - 1 = i
    BY <1>2
  <2> QED  BY <1>3, <2>1
<1>6. \A i \in 1..Len(t) : i = 1 \/ (i - 1 \in 1..Len(s) /\ t[i] = s[i - 1])
  <2>1. ASSUME NEW i \in 1..Len(t), i # 1
        PROVE  i \in 1..(1 + Len(s)) /\ ~(i <= 1) /\ i - 1 \in 1..Len(s)
    BY <1>2, <1>3, <2>1
  <2> QED  BY <1>3, <2>1
<1>7. ToSet(s) = {s[i] : i \in 1..Len(s)} /\ ToSet(t) = {t[i] : i \in 1..Len(t)}
  <2>1. ToSet(s) = {s[i] : i \in 1..Len(s)}
    BY InSeq
  <2>2. ToSet(t) = {t[i] : i \in 1..Len(t)}
    <3>1. DOMAIN t = 1..Len(t)
      BY <1>3, LenProperties
    <3> QED  BY <3>1 DEF ToSet
  <2> QED  BY <2>1, <2>2
<1>8. ToSet(t) = ToSet(s) \cup {x}
  <2>1. ToSet(t) \subseteq ToSet(s) \cup {x}
    BY <1>4, <1>6, <1>7
  <2>2. ToSet(s) \cup {x} \subseteq ToSet(t)
    BY <1>4, <1>5, <1>7
  <2> QED  BY <2>1, <2>2
<1>9. IsInjective(t)
  <2>1. \A i, j \in 1..Len(s) : s[i] = s[j] => i = j
    BY InSeq
  <2>2. \A i \in 1..Len(s) : s[i] # x
    BY <1>7
  <2>3. ASSUME NEW i \in 1..Len(t), NEW j \in 1..Len(t), t[i] = t[j]
        PROVE  i = j
    <3>1. i \in Nat /\ j \in Nat
      BY <1>2, <1>3
    <3>2. CASE i = 1 \/ j = 1
      BY <1>4, <1>6, <2>2, <2>3, <3>2
    <3>3. CASE i # 1 /\ j # 1
      <4>1. i - 1 = j - 1
        BY <1>6, <2>1, <2>3, <3>3
      <4> QED  BY <3>1, <4>1
    <3> QED  BY <3>2, <3>3
  <2> QED  BY <1>3, <2>3, InSeq
<1> QED  BY <1>3, <1>8, <1>9 DEF R

-----------------------------------------------------------------------------
(* The tasks. *)
LEMMA TaskFields ==
  \A k, o : Task(k, o).kind = k /\ Task(k, o).of = o
  BY DEF Task

LEMMA Kept ==
  ASSUME UNCHANGED disk
  PROVE  /\ Friends' = Friends /\ Villains' = Villains /\ Lines' = Lines
         /\ Everything' = Everything /\ Ranked' = Ranked
         /\ GroupTasks("friends")' = GroupTasks("friends")
         /\ GroupTasks("villains")' = GroupTasks("villains") /\ RankTasks' = RankTasks
         /\ groups' = groups /\ ratings' = ratings /\ matches' = matches
<1>1. groups' = groups /\ ratings' = ratings /\ matches' = matches
  BY DEF disk
<1>2. /\ GroupTasks("friends")' = GroupTasks("friends")
      /\ GroupTasks("villains")' = GroupTasks("villains") /\ RankTasks' = RankTasks
  BY <1>1 DEF GroupTasks, RankTasks
<1>3. Everything' = Everything
  BY <1>1, <1>2 DEF Everything, Interesting
<1> QED  BY <1>1, <1>2, <1>3 DEF Friends, Villains, Lines, Ranked

(* The tasks of a group. *)
LEMMA OfGroup ==
  ASSUME groups \in [DOMAIN groups -> SUBSET Names], NEW name, NEW s, s = GroupTasks(name)
  PROVE  /\ s \in Seq(ToSet(s)) /\ IsInjective(s)
         /\ \A t \in ToSet(s) : \/ t.kind = "group" /\ t.of = name
                                \/ t.kind = "relation" /\ t.of[1] = name
<1>1. CASE name \notin DOMAIN groups
  <2>1. s = <<>>
    BY <1>1 DEF GroupTasks
  <2> QED  BY <2>1, EmptyIsInjective
<1>2. CASE name \in DOMAIN groups
  <2> DEFINE N == groups[name]
             R == {Task("relation", <<name, n>>) : n \in N}
             f == [n \in N |-> Task("relation", <<name, n>>)]
             r == SetToSeq(R)
             g == Task("group", name)
  <2>1. IsFiniteSet(R)
    <3>1. IsFiniteSet(N)
      BY <1>2, FiniteAssumption, FS_Subset
    <3>2. f \in Surjection(N, R)
      BY DEF Surjection
    <3> HIDE DEF N, R, f
    <3> QED  BY <3>1, <3>2, FS_Surjection
  <2>2. \A t \in R : t.kind = "relation" /\ t.of[1] = name
    <3>1. \A n : <<name, n>>[1] = name
      OBVIOUS
    <3>2. ASSUME NEW t \in R PROVE t.kind = "relation" /\ t.of[1] = name
      <4>1. PICK n \in N : t = Task("relation", <<name, n>>)
        OBVIOUS
      <4>2. t.kind = "relation" /\ t.of = <<name, n>>
        BY <4>1, TaskFields
      <4> QED  BY <3>1, <4>2
    <3> QED  BY <3>2
  <2>3. g.kind = "group" /\ g.of = name
    BY TaskFields
  <2>4. s = <<g>> \o r
    BY <1>2 DEF GroupTasks
  <2> HIDE DEF N, R, f, g, r
  <2>5. r \in Seq(R) /\ ToSet(r) = R /\ IsInjective(r)
    BY <2>1, SetAsSeq DEF r
  <2>6. g \notin R
    BY <2>2, <2>3
  <2>7. s \in Seq(R \cup {g}) /\ ToSet(s) = R \cup {g} /\ IsInjective(s)
    BY <2>4, <2>5, <2>6, InFront
  <2> QED  BY <2>2, <2>3, <2>7
<1> QED  BY <1>1, <1>2

(* The tasks of the disk, by what they are. *)
LEMMA Kinds ==
  ASSUME Types
  PROVE  /\ GroupTasks("friends") \in Seq(Friends) /\ IsInjective(GroupTasks("friends"))
         /\ GroupTasks("villains") \in Seq(Villains) /\ IsInjective(GroupTasks("villains"))
         /\ RankTasks \in Seq(Lines) /\ IsInjective(RankTasks)
         /\ Len(RankTasks) = Len(ratings) /\ Len(ratings) \in 0..MaxRatings
         /\ Friends \subseteq Everything /\ Villains \subseteq Everything
         /\ \A t \in Friends : t.kind \in {"group", "relation"} /\ t \notin Villains
         /\ \A t \in Villains : t.kind \in {"group", "relation"}
         /\ \A t \in Lines : t.kind = "rank" /\ (Interesting(t) <=> t \in Everything)
         /\ \A t \in Everything :
              \/ t \in Friends
              \/ t \in Villains
              \/ t \in Ranked
              \/ /\ t.kind \in {"match", "saved"} /\ t.of \in DOMAIN matches
                 /\ matches[t.of] = t.kind /\ t = Task(t.kind, t.of)
         /\ \A s \in DOMAIN matches :
              /\ matches[s] # "broken" => Task(matches[s], s) \in Everything
              /\ matches[s] = "broken" => Task(matches[s], s) \notin Everything
<1> DEFINE F == GroupTasks("friends")
           V == GroupTasks("villains")
           M == {Task(matches[s], s) : s \in {m \in DOMAIN matches : matches[m] # "broken"}}
<1>1. /\ F \in Seq(Friends) /\ IsInjective(F)
      /\ \A t \in Friends : \/ t.kind = "group" /\ t.of = "friends"
                            \/ t.kind = "relation" /\ t.of[1] = "friends"
  BY OfGroup DEF Friends, Types
<1>2. /\ V \in Seq(Villains) /\ IsInjective(V)
      /\ \A t \in Villains : \/ t.kind = "group" /\ t.of = "villains"
                             \/ t.kind = "relation" /\ t.of[1] = "villains"
  BY OfGroup DEF Villains, Types
<1>3. PICK n \in 0..MaxRatings : ratings \in [1..n -> Ranks]
  BY DEF Types
<1>4. n \in Nat /\ Len(ratings) = n /\ DOMAIN ratings = 1..n
  <2>1. n \in Nat
    BY <1>3, RatingsAssumption
  <2>2. ratings \in Seq(Ranks) /\ DOMAIN ratings = 1..n
    BY <1>3, <2>1, IsASeq
  <2> QED  BY <2>1, <2>2, LenProperties
<1>5. RankTasks = [i \in 1..n |-> Task("rank", i)]
  BY <1>4 DEF RankTasks
<1>6. RankTasks \in Seq(Lines) /\ Len(RankTasks) = n /\ Lines = {Task("rank", i) : i \in 1..n}
  <2>1. Lines = {Task("rank", i) : i \in 1..n}
    BY <1>5 DEF Lines, ToSet
  <2>2. RankTasks \in [1..n -> Lines]
    BY <1>5, <2>1
  <2>3. RankTasks \in Seq(Lines) /\ DOMAIN RankTasks = 1..n
    BY <1>4, <2>2, IsASeq
  <2> QED  BY <1>4, <2>1, <2>3, LenProperties
<1>7. IsInjective(RankTasks)
  BY <1>5, TaskFields DEF IsInjective
<1>8. \A t \in Lines : t.kind = "rank"
  BY <1>6, TaskFields
<1>9. /\ \A t \in M : /\ t.kind \in {"match", "saved"} /\ t.of \in DOMAIN matches
                      /\ matches[t.of] = t.kind /\ t = Task(t.kind, t.of)
      /\ \A s \in DOMAIN matches : matches[s] # "broken" => Task(matches[s], s) \in M
  BY TaskFields DEF Types
<1>10. ToSet(F \o V) = Friends \cup Villains
  BY <1>1, <1>2, JoinElements DEF Friends, Villains
<1>11. Everything = Friends \cup Villains \cup {t \in Lines : Interesting(t)} \cup M
  BY <1>10 DEF Everything, Lines
<1> HIDE DEF F, V, M
<1>12. \A t \in Friends : t.kind \in {"group", "relation"} /\ t \notin Villains
  BY <1>1, <1>2
<1>13. \A t \in Villains : t.kind \in {"group", "relation"}
  BY <1>2
<1>14. \A t \in Lines : t.kind = "rank" /\ (Interesting(t) <=> t \in Everything)
  BY <1>8, <1>9, <1>11, <1>12, <1>13
<1>15. \A t \in Everything : t \in Friends \/ t \in Villains \/ t \in Ranked \/ t \in M
  BY <1>11 DEF Ranked
<1>16. \A s \in DOMAIN matches : matches[s] = "broken" => Task(matches[s], s) \notin Everything
  BY <1>8, <1>9, <1>11, <1>12, <1>13, TaskFields
<1>17. Friends \subseteq Everything /\ Villains \subseteq Everything
  BY <1>11
<1>18. \A s \in DOMAIN matches : matches[s] # "broken" => Task(matches[s], s) \in Everything
  BY <1>9, <1>11
<1>19. Len(RankTasks) = Len(ratings) /\ Len(ratings) \in 0..MaxRatings
  BY <1>3, <1>4, <1>6
<1> QED  BY <1>1, <1>2, <1>6, <1>7, <1>9, <1>12, <1>13, <1>14, <1>15, <1>16, <1>17, <1>18, <1>19
            DEF F, V

-----------------------------------------------------------------------------
(* Counting. *)
LEMMA Sizes ==
  ASSUME Types
  PROVE  /\ IsFiniteSet(DOMAIN matches) /\ Cardinality(DOMAIN matches) \in Nat
         /\ IsFiniteSet(unparsed) /\ Cardinality(unparsed) \in Nat
         /\ IsFiniteSet(ToParse) /\ Cardinality(ToParse) \in Nat
         /\ IsFiniteSet(ToSave) /\ Cardinality(ToSave) \in Nat
         /\ IsFiniteSet(QueuedRanks) /\ Cardinality(QueuedRanks) \in Nat
         /\ StagesLeft \in 0..3 /\ Due \in 0..1
         /\ counters.ratings \in Nat /\ counters.stored \in Nat /\ counters.errors \in Nat
         /\ counters.skipped \in Nat /\ Saved \in Nat
         /\ AtMost \in Nat /\ Cardinality(DOMAIN matches) <= Cardinality(Stems)
         /\ Cardinality(Stems) \in Nat
<1>1. /\ IsFiniteSet(DOMAIN matches) /\ Cardinality(DOMAIN matches) <= Cardinality(Stems)
      /\ Cardinality(Stems) \in Nat
  BY FiniteAssumption, FS_Subset, FS_CardinalityType DEF Types
<1>2. unparsed \subseteq DOMAIN matches /\ parsed \subseteq DOMAIN matches
  BY DEF Types
<1>3. IsFiniteSet(unparsed) /\ IsFiniteSet(ToParse) /\ IsFiniteSet(ToSave)
  <2>1. ToParse \subseteq DOMAIN matches
    BY <1>2 DEF ToParse
  <2>2. ToSave \subseteq DOMAIN matches
    BY DEF ToSave
  <2> QED  BY <1>1, <1>2, <2>1, <2>2, FS_Subset
<1>4. IsFiniteSet(QueuedRanks)
  <2>1. Len(tasks) \in Nat /\ DOMAIN tasks = 1..Len(tasks)
    BY LenProperties DEF Types
  <2>2. tasks \in [1..Len(tasks) -> ToSet(tasks)]
    <3>1. tasks = [i \in 1..Len(tasks) |-> tasks[i]]
      BY SeqDef, LenProperties DEF Types
    <3> QED  BY <2>1, <3>1 DEF ToSet
  <2>3. tasks \in Surjection(1..Len(tasks), ToSet(tasks))
    BY <2>1, <2>2 DEF Surjection, ToSet
  <2>4. IsFiniteSet(1..Len(tasks))
    BY <2>1, FS_Interval
  <2>5. IsFiniteSet(ToSet(tasks))
    BY <2>3, <2>4, FS_Surjection
  <2> QED  BY <2>5, FS_Subset DEF QueuedRanks
<1>5. StagesLeft \in 0..3 /\ Due \in 0..1
  BY DEF StagesLeft, Due
<1>6. /\ counters.ratings \in Nat /\ counters.stored \in Nat /\ counters.errors \in Nat
      /\ counters.skipped \in Nat /\ Saved \in Nat
  BY DEF Types, Saved
<1>7. /\ Cardinality(DOMAIN matches) \in Nat /\ Cardinality(unparsed) \in Nat
      /\ Cardinality(ToParse) \in Nat /\ Cardinality(ToSave) \in Nat
      /\ Cardinality(QueuedRanks) \in Nat
  BY <1>1, <1>3, <1>4, FS_CardinalityType
<1>8. AtMost \in Nat
  BY <1>7 DEF AtMost
<1> QED  BY <1>1, <1>3, <1>4, <1>5, <1>6, <1>7, <1>8

(* Nothing is owed, and nothing left. *)
LEMMA WhenComplete ==
  ASSUME IInv, Complete, dialog # "gone"
  PROVE  /\ worker \in {"matches", "last", "done"} /\ unparsed = {} /\ parsed = {}
         /\ ToSet(handled) = Everything /\ IsInjective(handled)
         /\ Saved = Cardinality(DOMAIN matches)
<1>1. Types /\ Staged /\ Course /\ Split /\ Balance
  BY DEF IInv
<1>2. tasks = <<>> /\ jobs \in Nat /\ finished \in Nat /\ finished >= jobs /\ jobs # -1
  BY <1>1 DEF Complete, Types
<1>3. /\ jobs - finished = StagesLeft + Cardinality(ToParse) + Cardinality(ToSave)
                           + Cardinality(QueuedRanks) + Due
      /\ Saved + Cardinality(ToSave) = Cardinality(DOMAIN matches)
  BY <1>1, <1>2 DEF Balance
<1>4. StagesLeft = 0 /\ Cardinality(ToSave) = 0
  <2>1. /\ StagesLeft \in Nat /\ Cardinality(ToParse) \in Nat /\ Cardinality(ToSave) \in Nat
        /\ Cardinality(QueuedRanks) \in Nat /\ Due \in Nat
    BY <1>1, Sizes
  <2> QED  BY <1>2, <1>3, <2>1
<1>5. ToSave = {}
  BY <1>1, <1>4, Sizes, FS_EmptySet
<1>6. unparsed = {} /\ parsed = {}
  BY <1>1, <1>5 DEF ToSave, Types
<1>7. worker \in {"matches", "last", "done"}
  BY <1>1, <1>2, <1>4 DEF StagesLeft, Course, Types
<1>8. Ahead = {}
  <2>1. todo = <<>> /\ Later = {}
    BY <1>1, <1>7 DEF Staged, Stages, Later
  <2>2. Unread = {}
    BY <1>6 DEF Unread
  <2> QED  BY <2>1, <2>2, EmptyIsInjective DEF Ahead
<1>9. ToSet(handled) = Everything /\ IsInjective(handled)
  BY <1>1, <1>2, <1>8, EmptyIsInjective DEF Split
<1>10. Saved = Cardinality(DOMAIN matches)
  BY <1>1, <1>3, <1>4, Sizes
<1> QED  BY <1>6, <1>7, <1>9, <1>10

(* A task that was ahead is queued. *)
LEMMA Queued ==
  ASSUME IInv, UNCHANGED disk, dialog # "gone", jobs # -1, NEW t \in Ahead,
         tasks' = Append(tasks, t), handled' = handled, Ahead' = Ahead \ {t}
  PROVE  /\ tasks' \in Seq(Everything) /\ tasks' # <<>>
         /\ t \in Everything /\ t \notin ToSet(tasks)
         /\ ToSet(tasks)' = ToSet(tasks) \cup {t} /\ Split'
<1>1. Everything' = Everything /\ handled' = handled
  BY Kept
<1>2. /\ IsInjective(handled) /\ IsInjective(tasks)
      /\ ToSet(handled) \cap ToSet(tasks) = {}
      /\ (ToSet(handled) \cup ToSet(tasks)) \cap Ahead = {}
      /\ ToSet(handled) \cup ToSet(tasks) \cup Ahead = Everything
  BY DEF IInv, Split
<1>3. t \in Everything /\ t \notin ToSet(tasks)
  BY <1>2
<1>4. PICK q : q = Append(tasks, t)
  OBVIOUS
<1>5. q \in Seq(Everything) /\ q # <<>> /\ ToSet(q) = ToSet(tasks) \cup {t} /\ IsInjective(q)
  <2>1. tasks \in Seq(Everything)
    BY DEF IInv, Types
  <2>2. \A x \in Everything : \A r : r = Append(tasks, x) =>
          /\ r \in Seq(Everything) /\ r # <<>> /\ ToSet(r) = ToSet(tasks) \cup {x}
          /\ IsInjective(tasks) /\ x \notin ToSet(tasks) => IsInjective(r)
    BY <2>1, AppendSeq
  <2> QED  BY <1>2, <1>3, <1>4, <2>2
<1>6. ToSet(tasks)' = ToSet(q) /\ IsInjective(tasks)' = IsInjective(q)
  BY <1>4 DEF ToSet, IsInjective
<1>7. ToSet(handled)' = ToSet(handled) /\ IsInjective(handled)' = IsInjective(handled)
  BY <1>1 DEF ToSet, IsInjective
<1>8. Split'
  BY <1>1, <1>2, <1>3, <1>5, <1>6, <1>7 DEF Split
<1> QED  BY <1>3, <1>4, <1>5, <1>6, <1>8

(* Nothing is queued and nothing handled. *)
LEMMA NothingQueued ==
  ASSUME IInv, UNCHANGED disk, dialog # "gone", jobs # -1,
         tasks' = tasks, handled' = handled, Ahead' = Ahead
  PROVE  ToSet(tasks)' = ToSet(tasks) /\ Split'
<1>1. Everything' = Everything
  BY Kept
<1>2. ToSet(handled)' = ToSet(handled) /\ IsInjective(handled)' = IsInjective(handled)
  BY DEF ToSet, IsInjective
<1>3. ToSet(tasks)' = ToSet(tasks) /\ IsInjective(tasks)' = IsInjective(tasks)
  BY DEF ToSet, IsInjective
<1> QED  BY <1>1, <1>2, <1>3 DEF Split, IInv

-----------------------------------------------------------------------------
(* The initial states. *)
LEMMA Initially ==
  ASSUME Init PROVE IInv
<1>1. Types
  <2>1. groups \in [DOMAIN groups -> SUBSET Names]
    BY DEF Init
  <2>2. \E n \in 0..MaxRatings : ratings \in [1..n -> Ranks]
    BY DEF Init
  <2>3. DOMAIN matches \in SUBSET Stems /\ matches \in [DOMAIN matches -> {"match", "saved", "broken"}]
    BY DEF Init
  <2>4. tasks \in Seq(Everything) /\ handled \in Seq(Everything)
    BY EmptyIsInjective DEF Init
  <2>5. /\ worker = "none" /\ counted = FALSE /\ unparsed = DOMAIN matches /\ parsed = {}
        /\ jobs = -1 /\ finished = 0 /\ dialog = "off"
        /\ cancelled = FALSE /\ polling = FALSE /\ ended = FALSE
    BY DEF Init, None
  <2>6. counters \in [{"ratings", "stored", "errors", "skipped"} -> Nat]
    BY DEF Init
  <2> HIDE DEF Init
  <2> QED  BY <2>1, <2>2, <2>3, <2>4, <2>5, <2>6 DEF Types
<1>2. Staged
  BY EmptyIsInjective DEF Init, Staged, Stages
<1>3. Course
  BY DEF Init, Course, Saved, None
<1>4. Bounded
  <2>1. AtMost \in Nat /\ Len(ratings) \in Nat
    BY <1>1, Sizes, Kinds, RatingsAssumption
  <2>2. jobs = -1 /\ worker = "none"
    BY DEF Init
  <2> QED  BY <2>1, <2>2 DEF Bounded
<1>5. Split /\ Balance /\ Over
  BY DEF Init, Split, Balance, Over
<1> QED  BY <1>1, <1>2, <1>3, <1>4, <1>5 DEF IInv

(* A step that leaves the queue, the worker and the counters alone. *)
LEMMA Idle ==
  ASSUME IInv, UNCHANGED <<disk, work, tasks, handled, jobs, finished, counters>>,
         dialog' # "gone" => dialog # "gone"
  PROVE  /\ Staged' /\ Bounded' /\ Split' /\ Balance' /\ Saved' = Saved /\ Everything' = Everything
         /\ Complete' = Complete
<1>1. /\ worker' = worker /\ todo' = todo /\ counted' = counted /\ unparsed' = unparsed
      /\ parsed' = parsed /\ tasks' = tasks /\ handled' = handled
      /\ jobs' = jobs /\ finished' = finished /\ counters' = counters
  BY DEF work
<1>2. /\ Everything' = Everything /\ Friends' = Friends /\ Villains' = Villains
      /\ Lines' = Lines /\ Ranked' = Ranked /\ matches' = matches /\ ratings' = ratings
  BY Kept
<1>3. Ahead' = Ahead
  BY <1>1, <1>2 DEF Ahead, Later, Unread, ToSet
<1>4. /\ ToSave' = ToSave /\ ToParse' = ToParse /\ QueuedRanks' = QueuedRanks /\ Due' = Due
      /\ StagesLeft' = StagesLeft /\ AtMost' = AtMost /\ Saved' = Saved
  BY <1>1, <1>2 DEF ToSave, ToParse, QueuedRanks, Due, StagesLeft, AtMost, Saved, Task, ToSet
<1>5. Staged'
  BY <1>1, <1>2 DEF IInv, Staged, IsInjective
<1>6. Bounded'
  BY <1>1, <1>2, <1>4 DEF IInv, Bounded
<1>7. Split'
  BY <1>1, <1>2, <1>3 DEF IInv, Split, IsInjective, ToSet
<1>8. Balance'
  BY <1>1, <1>2, <1>4 DEF IInv, Balance
<1>9. Complete' = Complete
  BY <1>1 DEF Complete
<1> QED  BY <1>2, <1>4, <1>5, <1>6, <1>7, <1>8, <1>9

LEMMA StutterKeeps ==
  ASSUME IInv, UNCHANGED vars PROVE IInv'
<1>1. UNCHANGED <<disk, work, tasks, handled, jobs, finished, counters>>
  BY DEF vars, main
<1>2. dialog' = dialog /\ ended' = ended /\ cancelled' = cancelled /\ polling' = polling
  BY DEF vars, main
<1>3. /\ Staged' /\ Bounded' /\ Split' /\ Balance' /\ Saved' = Saved /\ Everything' = Everything
      /\ Complete' = Complete
  BY <1>1, <1>2, Idle
<1>4. Types' /\ Course' /\ Over'
  BY <1>1, <1>2, <1>3 DEF IInv, Types, Course, Over, disk, work
<1> QED  BY <1>3, <1>4 DEF IInv

LEMMA PollCheckKeeps ==
  ASSUME IInv, PollCheck PROVE IInv'
<1>1. UNCHANGED <<disk, work, tasks, handled, jobs, finished, counters>> /\ dialog # "gone"
  BY DEF PollCheck, IInv, Course
<1>2. /\ Staged' /\ Bounded' /\ Split' /\ Balance' /\ Saved' = Saved /\ Everything' = Everything
      /\ Complete' = Complete
  BY <1>1, Idle
<1>3. Types'
  BY <1>1, <1>2 DEF PollCheck, IInv, Types, disk, work
<1>4. Course'
  BY <1>1, <1>2 DEF PollCheck, IInv, Types, Course, disk, work
<1>5. Over'
  BY <1>1, <1>2 DEF PollCheck, IInv, Course, Over
<1> QED  BY <1>2, <1>3, <1>4, <1>5 DEF IInv

LEMMA OnStopKeeps ==
  ASSUME IInv, OnStop PROVE IInv'
<1>1. UNCHANGED <<disk, work, tasks, handled, jobs, finished, counters>> /\ dialog # "gone"
  BY DEF OnStop
<1>2. /\ Staged' /\ Bounded' /\ Split' /\ Balance' /\ Saved' = Saved /\ Everything' = Everything
      /\ Complete' = Complete
  BY <1>1, Idle
<1>3. Types' /\ Course' /\ Over'
  BY <1>1, <1>2 DEF OnStop, IInv, Types, Course, Over, disk, work
<1> QED  BY <1>2, <1>3 DEF IInv

LEMMA OnOkayKeeps ==
  ASSUME IInv, OnOkay PROVE IInv'
<1>1. UNCHANGED <<disk, work, handled, jobs, finished, counters>> /\ dialog' = "gone" /\ tasks' = <<>>
  BY DEF OnOkay
<1>2. /\ worker' = worker /\ todo' = todo /\ counted' = counted /\ unparsed' = unparsed
      /\ parsed' = parsed
  BY <1>1 DEF work
<1>3. /\ Everything' = Everything /\ Friends' = Friends /\ Villains' = Villains
      /\ Lines' = Lines /\ Ranked' = Ranked /\ matches' = matches /\ ratings' = ratings
      /\ groups' = groups
  BY <1>1, Kept
<1>4. Staged' /\ Bounded'
  BY <1>1, <1>2, <1>3 DEF IInv, Staged, Bounded, IsInjective, AtMost, Due
<1>5. Types'
  BY <1>1, <1>2, <1>3, EmptyIsInjective DEF IInv, Types, OnOkay
<1>6. Course'
  BY <1>1, <1>2, <1>3 DEF IInv, Course, Saved, OnOkay
<1>7. Split' /\ Balance' /\ Over'
  BY <1>1 DEF Split, Balance, Over
<1> QED  BY <1>4, <1>5, <1>6, <1>7 DEF IInv

LEMMA RunKeeps ==
  ASSUME IInv, Run PROVE IInv'
<1>1. /\ UNCHANGED <<disk, todo, counted, unparsed, parsed, tasks, handled, jobs, finished,
                     counters, polling, ended, cancelled>>
      /\ dialog' \in {"stop", "gone"} /\ worker = "none" /\ worker' \in {"none", "collect"}
      /\ jobs = -1
  BY DEF Run, IInv, Course
<1>2. /\ Everything' = Everything /\ Friends' = Friends /\ Villains' = Villains
      /\ Lines' = Lines /\ Ranked' = Ranked /\ matches' = matches /\ ratings' = ratings
      /\ groups' = groups
  BY <1>1, Kept
<1>3. Types'
  BY <1>1, <1>2 DEF IInv, Types
<1>4. Course'
  <2>1. dialog' = "off" => worker' = "none"
    BY <1>1
  <2>2. counted = FALSE /\ polling = FALSE
    BY <1>1 DEF IInv, Course, Types, Run
  <2> QED  BY <1>1, <1>2, <2>1, <2>2 DEF IInv, Course, Saved
<1>5. Staged'
  BY <1>1, <1>2 DEF IInv, Staged, Stages, IsInjective
<1>6. Bounded'
  BY <1>1, <1>2 DEF IInv, Bounded, AtMost
<1>7. Split' /\ Balance'
  BY <1>1 DEF Split, Balance
<1>8. Over'
  BY <1>1 DEF Over
<1> QED  BY <1>3, <1>4, <1>5, <1>6, <1>7, <1>8 DEF IInv

-----------------------------------------------------------------------------
(* The worker. *)

(* While it is at work the poll has not ended of its own accord. *)
LEMMA StillBusy ==
  ASSUME IInv, dialog # "gone", worker \in {"collect"} \cup Stages \/ parsed # {},
         UNCHANGED <<main, cancelled>>
  PROVE  Over'
<1>1. ~Complete
  BY WhenComplete DEF Stages
<1> QED  BY <1>1 DEF IInv, Over, main

LEMMA CollectKeeps ==
  ASSUME IInv, Collect PROVE IInv'
<1>1. /\ UNCHANGED <<disk, main, counted, unparsed, parsed, tasks, finished, cancelled, counters>>
      /\ worker = "collect" /\ dialog # "gone" /\ jobs = -1
  BY DEF Collect, Worker, IInv, Course
<1>2. /\ UNCHANGED <<polling, dialog, ended, handled>>
      /\ Types /\ Staged /\ Course /\ finished = 0 /\ unparsed = DOMAIN matches /\ parsed = {}
      /\ tasks = <<>> /\ handled = <<>> /\ Saved = 0 /\ ~counted
  BY <1>1 DEF main, IInv, Course
<1>3. /\ Everything' = Everything /\ Friends' = Friends /\ Villains' = Villains
      /\ Lines' = Lines /\ Ranked' = Ranked /\ matches' = matches /\ ratings' = ratings
      /\ groups' = groups
  BY <1>1, Kept
<1>4. Over'
  BY <1>1, StillBusy
<1>5. CASE worker' = "done" /\ UNCHANGED <<todo, jobs>>
  <2>1. Types' /\ Course'
    BY <1>1, <1>2, <1>3, <1>5 DEF Types, Course, Saved
  <2>2. Staged'
    BY <1>1, <1>2, <1>3, <1>5 DEF Staged, Stages, IsInjective
  <2>3. Bounded'
    BY <1>1, <1>2, <1>3, <1>5 DEF IInv, Bounded, AtMost
  <2>4. Split' /\ Balance'
    BY <1>1, <1>5 DEF Split, Balance
  <2> QED  BY <1>4, <2>1, <2>2, <2>3, <2>4 DEF IInv
<1>6. CASE /\ worker' = "friends" /\ todo' = GroupTasks("friends")
           /\ jobs' = 3 + 2 * Cardinality(DOMAIN matches)
  <2>1. Cardinality(DOMAIN matches) \in Nat /\ Len(ratings) \in Nat /\ IsFiniteSet(DOMAIN matches)
    BY <1>2, Sizes, Kinds, RatingsAssumption
  <2>2. Types'
    BY <1>1, <1>2, <1>3, <1>6, <2>1 DEF Types
  <2>3. Course'
    BY <1>1, <1>2, <1>6, <2>1 DEF Course
  <2>4. Staged'
    <3>1. todo' \in Seq(Friends) /\ IsInjective(GroupTasks("friends"))
      BY <1>2, <1>6, Kinds
    <3> QED  BY <1>3, <1>6, <3>1 DEF Staged, Stages, IsInjective
  <2>5. Bounded'
    <3>1. AtMost' = jobs' /\ finished' = 0 /\ Len(ratings)' = Len(ratings)
      BY <1>1, <1>2, <1>3, <1>6 DEF AtMost
    <3>2. jobs' \in Nat
      BY <1>6, <2>1
    <3> QED  BY <1>6, <2>1, <3>1, <3>2 DEF Bounded
  <2>6. Ahead' = Everything
    <3>1. ToSet(todo)' = Friends /\ Later' = Villains \cup Ranked
      BY <1>3, <1>6 DEF Friends, Later, ToSet
    <3>2. Unread' = {t \in Everything : t.kind \in {"match", "saved"} /\ t.of \in DOMAIN matches}
      BY <1>1, <1>2, <1>3 DEF Unread
    <3>3. Friends \subseteq Everything /\ Villains \subseteq Everything
      BY <1>2, Kinds
    <3>4. \A t \in Everything : \/ t \in Friends
                                \/ t \in Villains
                                \/ t \in Ranked
                                \/ t.kind \in {"match", "saved"} /\ t.of \in DOMAIN matches
      BY <1>2, Kinds
    <3> QED  BY <1>3, <3>1, <3>2, <3>3, <3>4 DEF Ahead, Ranked
  <2>7. Split'
    <3>1. tasks' = <<>> /\ handled' = <<>>
      BY <1>1, <1>2
    <3>2. /\ ToSet(tasks)' = {} /\ ToSet(handled)' = {}
          /\ IsInjective(tasks)' /\ IsInjective(handled)'
      BY <3>1, EmptyIsInjective
    <3> QED  BY <1>3, <2>6, <3>2 DEF Split
  <2>8. Balance'
    <3>1. ToParse' = DOMAIN matches
      BY <1>1, <1>2, <1>3 DEF ToParse
    <3>2. ToSave' = DOMAIN matches
      BY <1>1, <1>2, <1>3 DEF ToSave
    <3>3. QueuedRanks' = {}
      <4>1. ToSet(tasks)' = {}
        BY <1>1, <1>2, EmptyIsInjective DEF ToSet
      <4> QED  BY <4>1 DEF QueuedRanks
    <3>4. Cardinality(QueuedRanks') = 0
      BY <3>3, FS_EmptySet
    <3>5. StagesLeft' = 3 /\ Due' = 0 /\ Saved' = 0
      BY <1>1, <1>2, <1>6 DEF StagesLeft, Due, Saved
    <3> QED  BY <1>1, <1>2, <1>3, <1>6, <2>1, <3>1, <3>2, <3>4, <3>5 DEF Balance
  <2> QED  BY <1>4, <2>2, <2>3, <2>4, <2>5, <2>7, <2>8 DEF IInv
<1> QED  BY <1>5, <1>6 DEF Collect

(* A task of the stage goes into the queue. *)
LEMMA TaskMoves ==
  ASSUME IInv, NEW stage \in Stages, AddTask(stage), Head(todo) \in Everything
  PROVE  /\ UNCHANGED <<disk, main, worker, unparsed, parsed, jobs, finished, cancelled, counters>>
         /\ worker = stage /\ dialog # "gone" /\ jobs # -1 /\ parsed = {}
         /\ tasks' \in Seq(Everything) /\ Staged' /\ Split' /\ Over'
         /\ Len(todo) \in Nat /\ Len(todo') \in Nat /\ Len(todo) = Len(todo') + 1
         /\ ToSave' = ToSave /\ Head(todo) \notin ToSet(tasks)
         /\ stage # "ranks" => Head(todo).kind # "rank"
         /\ stage = "ranks" => Head(todo).kind = "rank"
         /\ ToSet(tasks)' = ToSet(tasks) \cup {Head(todo)}
<1>1. /\ UNCHANGED <<disk, main, worker, unparsed, parsed, jobs, finished, cancelled, counters>>
      /\ worker = stage /\ dialog # "gone" /\ todo # <<>> /\ todo' = Tail(todo)
  BY DEF AddTask, Worker
<1>2. Types /\ Staged /\ Course /\ jobs # -1 /\ parsed = {}
  BY <1>1 DEF IInv, Course, Stages
<1>3. /\ Everything' = Everything /\ Friends' = Friends /\ Villains' = Villains
      /\ Lines' = Lines /\ Ranked' = Ranked /\ matches' = matches
  BY <1>1, Kept
<1>4. PICK t : t = Head(todo)
  OBVIOUS
<1>5. PICK q : q = Tail(todo)
  OBVIOUS
<1>6. /\ Friends \subseteq Everything /\ Villains \subseteq Everything
      /\ \A x \in Friends : x.kind \in {"group", "relation"} /\ x \notin Villains
      /\ \A x \in Villains : x.kind \in {"group", "relation"}
      /\ \A x \in Lines : x.kind = "rank"
  BY <1>2, Kinds
<1>7. PICK S : /\ todo \in Seq(S)
               /\ stage = "friends" => S = Friends
               /\ stage = "villains" => S = Villains
               /\ stage = "ranks" => S = Lines
  BY <1>1, <1>2 DEF Staged, Stages
<1>8. IsInjective(todo)
  BY <1>2 DEF Staged
<1>9. /\ q \in Seq(S) /\ t \in S /\ t \in ToSet(todo) /\ Len(todo) = Len(q) + 1
      /\ IsInjective(q) /\ ToSet(q) = ToSet(todo) \ {t}
  <2>1. todo \in Seq(S) /\ todo # <<>>
    BY <1>1, <1>7
  <2>2. \A r : r = Tail(todo) =>
          /\ r \in Seq(S) /\ Head(todo) \in S /\ Head(todo) \in ToSet(todo)
          /\ Len(todo) = Len(r) + 1
          /\ IsInjective(todo) => IsInjective(r) /\ ToSet(r) = ToSet(todo) \ {Head(todo)}
    BY <2>1, TailSeq
  <2> QED  BY <1>4, <1>5, <1>8, <2>2
<1>10. Len(todo) \in Nat /\ Len(q) \in Nat
  BY <1>7, <1>9, LenProperties
<1>11. t \notin Later /\ t \notin Unread
  <2>1. t.kind \in {"group", "relation", "rank"}
    BY <1>6, <1>7, <1>9 DEF Stages
  <2>2. t \notin Later
    BY <1>1, <1>6, <1>7, <1>9 DEF Later, Ranked, Stages
  <2> QED  BY <2>1, <2>2 DEF Unread
<1>12. t \in Ahead
  BY <1>4, <1>9 DEF Ahead
<1>13. Ahead' = Ahead \ {t}
  <2>1. Later' = Later /\ Unread' = Unread
    BY <1>1, <1>3 DEF Later, Unread
  <2>2. ToSet(todo)' = ToSet(todo) \ {t}
    BY <1>1, <1>5, <1>9 DEF ToSet
  <2> QED  BY <1>3, <1>11, <2>1, <2>2 DEF Ahead
<1>14. tasks' = Append(tasks, t) /\ handled' = handled
  BY <1>1, <1>4 DEF AddTask, main
<1>15. /\ tasks' \in Seq(Everything) /\ t \notin ToSet(tasks)
       /\ ToSet(tasks)' = ToSet(tasks) \cup {t} /\ Split'
  BY <1>1, <1>2, <1>12, <1>13, <1>14, Queued
<1>16. Staged'
  BY <1>1, <1>3, <1>5, <1>7, <1>9 DEF Staged, Stages, IsInjective
<1>17. ToSave' = ToSave
  <2>1. \A s \in DOMAIN matches : Task(matches[s], s) # t
    <3>1. t.kind \in {"group", "relation", "rank"}
      BY <1>6, <1>7, <1>9 DEF Stages
    <3>2. \A s \in DOMAIN matches : Task(matches[s], s).kind \in {"match", "saved", "broken"}
      BY <1>2, TaskFields DEF Types
    <3> QED  BY <3>1, <3>2
  <2>2. \A s \in DOMAIN matches : Task(matches[s], s)' = Task(matches[s], s)
    BY <1>3 DEF Task
  <2> QED  BY <1>1, <1>3, <1>15, <2>1, <2>2 DEF ToSave
<1>18. /\ stage # "ranks" => t.kind # "rank"
       /\ stage = "ranks" => t.kind = "rank"
  BY <1>6, <1>7, <1>9 DEF Stages
<1>19. Over'
  BY <1>1, StillBusy
<1> QED  BY <1>1, <1>2, <1>4, <1>5, <1>9, <1>10, <1>15, <1>16, <1>17, <1>18, <1>19

LEMMA AddMemberKeeps ==
  ASSUME IInv, AddMember PROVE IInv'
<1>1. PICK stage \in {"friends", "villains"} : AddTask(stage) /\ counted' = counted
  BY DEF AddMember
<1>2. Types /\ Staged /\ Course /\ Bounded /\ Balance
  BY DEF IInv
<1>3. Head(todo) \in Everything
  <2>1. todo # <<>> /\ worker = stage
    BY <1>1 DEF AddTask, Worker
  <2>2. todo \in Seq(Friends) \/ todo \in Seq(Villains)
    BY <1>1, <1>2, <2>1 DEF Staged
  <2>3. Head(todo) \in Friends \/ Head(todo) \in Villains
    BY <2>1, <2>2, TailSeq
  <2> QED  BY <1>2, <2>3, Kinds
<1>4. /\ UNCHANGED <<disk, main, worker, unparsed, parsed, jobs, finished, cancelled, counters>>
      /\ worker = stage /\ dialog # "gone" /\ jobs # -1 /\ parsed = {}
      /\ tasks' \in Seq(Everything) /\ Staged' /\ Split' /\ Over'
      /\ ToSave' = ToSave /\ Head(todo).kind # "rank"
      /\ ToSet(tasks)' = ToSet(tasks) \cup {Head(todo)}
  BY <1>1, <1>3, TaskMoves DEF Stages
<1>5. /\ Everything' = Everything /\ matches' = matches /\ ratings' = ratings /\ groups' = groups
      /\ UNCHANGED <<polling, dialog, ended, handled>>
  BY <1>4, Kept DEF main
<1>6. Types'
  BY <1>1, <1>2, <1>4, <1>5 DEF Types
<1>7. Course'
  BY <1>1, <1>2, <1>4, <1>5 DEF Course
<1>8. Bounded'
  BY <1>1, <1>2, <1>4, <1>5 DEF Bounded, AtMost
<1>9. Balance'
  <2>1. /\ ToParse' = ToParse /\ QueuedRanks' = QueuedRanks /\ Due' = Due
        /\ StagesLeft' = StagesLeft /\ Saved' = Saved
    BY <1>1, <1>4 DEF ToParse, QueuedRanks, Due, StagesLeft, Saved
  <2> QED  BY <1>2, <1>4, <1>5, <2>1 DEF Balance
<1> QED  BY <1>4, <1>6, <1>7, <1>8, <1>9 DEF IInv

LEMMA AddRankKeeps ==
  ASSUME IInv, AddRank PROVE IInv'
<1>1. Types /\ Staged /\ Course /\ Bounded /\ Balance /\ Split
  BY DEF IInv
<1>2. CASE AddTask("ranks") /\ counted /\ counted' = FALSE
  <2>1. worker = "ranks" /\ Head(todo) \in Everything
    BY <1>1, <1>2 DEF AddTask, Worker, Course
  <2>2. /\ UNCHANGED <<disk, main, worker, unparsed, parsed, jobs, finished, cancelled, counters>>
        /\ dialog # "gone" /\ jobs # -1 /\ parsed = {}
        /\ tasks' \in Seq(Everything) /\ Staged' /\ Split' /\ Over'
        /\ Len(todo) \in Nat /\ Len(todo') \in Nat /\ Len(todo) = Len(todo') + 1
        /\ ToSave' = ToSave /\ Head(todo).kind = "rank" /\ Head(todo) \notin ToSet(tasks)
        /\ ToSet(tasks)' = ToSet(tasks) \cup {Head(todo)}
    BY <1>2, <2>1, TaskMoves DEF Stages
  <2>3. /\ Everything' = Everything /\ matches' = matches /\ ratings' = ratings
        /\ groups' = groups /\ UNCHANGED <<polling, dialog, ended, handled>>
    BY <2>2, Kept DEF main
  <2>4. Types'
    BY <1>1, <1>2, <2>2, <2>3 DEF Types
  <2>5. Course'
    BY <1>1, <1>2, <2>2, <2>3 DEF Course, Saved
  <2>6. AtMost \in Nat /\ Len(ratings) \in Nat /\ jobs \in Nat /\ finished \in Nat
    BY <1>1, <2>2, Sizes, Kinds, RatingsAssumption DEF Types
  <2>7. Bounded'
    <3>1. AtMost' = AtMost /\ Due = 1 /\ Due' = 0
      BY <1>2, <2>1, <2>3 DEF AtMost, Due
    <3>2. jobs + Len(todo) <= AtMost + Len(ratings) + 1 /\ jobs <= AtMost + Len(ratings)
      BY <1>1, <2>1, <3>1 DEF Bounded
    <3>3. jobs + Len(todo') <= AtMost + Len(ratings) + 0
      BY <2>2, <2>6, <3>2
    <3> QED  BY <1>1, <2>1, <2>2, <2>3, <3>1, <3>2, <3>3 DEF Bounded
  <2>8. Balance'
    <3>1. QueuedRanks' = QueuedRanks \cup {Head(todo)} /\ Head(todo) \notin QueuedRanks
      BY <2>2 DEF QueuedRanks
    <3>2. /\ IsFiniteSet(QueuedRanks) /\ Cardinality(QueuedRanks) \in Nat
          /\ Cardinality(ToParse) \in Nat /\ Cardinality(ToSave) \in Nat
      BY <1>1, Sizes
    <3>3. Cardinality(QueuedRanks') = Cardinality(QueuedRanks) + 1
      BY <3>1, <3>2, FS_AddElement
    <3>4. ToParse' = ToParse /\ StagesLeft' = 1 /\ StagesLeft = 1 /\ Saved' = Saved
      BY <2>1, <2>2 DEF ToParse, StagesLeft, Saved
    <3>5. Due = 1 /\ Due' = 0
      BY <1>2, <2>1 DEF Due
    <3> QED  BY <1>1, <2>2, <2>3, <2>6, <3>2, <3>3, <3>4, <3>5 DEF Balance
  <2> QED  BY <2>2, <2>4, <2>5, <2>7, <2>8 DEF IInv
<1>3. CASE /\ Worker("ranks") /\ todo # <<>> /\ ~counted
           /\ IF Interesting(Head(todo))
              THEN jobs' = jobs + 1 /\ counted' = TRUE /\ UNCHANGED todo
              ELSE todo' = Tail(todo) /\ UNCHANGED <<jobs, counted>>
           /\ UNCHANGED <<disk, main, worker, unparsed, parsed, tasks, finished, cancelled, counters>>
  <2>1. /\ worker = "ranks" /\ dialog # "gone" /\ todo \in Seq(Lines) /\ parsed = {}
        /\ jobs \in Nat /\ finished \in Nat /\ counted = FALSE /\ jobs # -1
    BY <1>1, <1>3 DEF Worker, Staged, Course, Types
  <2>2. /\ Everything' = Everything /\ Friends' = Friends /\ Villains' = Villains
        /\ Lines' = Lines /\ Ranked' = Ranked /\ matches' = matches /\ ratings' = ratings
        /\ groups' = groups /\ UNCHANGED <<polling, dialog, ended, handled, tasks>>
    BY <1>3, Kept DEF main
  <2>3. /\ AtMost \in Nat /\ Len(ratings) \in Nat /\ Cardinality(QueuedRanks) \in Nat
        /\ Cardinality(ToParse) \in Nat /\ Cardinality(ToSave) \in Nat
    BY <1>1, Sizes, Kinds, RatingsAssumption
  <2>4. Head(todo) \in Lines /\ (Interesting(Head(todo)) <=> Head(todo) \in Everything)
    <3>1. Head(todo) \in Lines
      BY <1>3, <2>1, TailSeq
    <3>2. \A t \in Lines : Interesting(t) <=> t \in Everything
      BY <1>1, Kinds
    <3> QED  BY <3>1, <3>2
  <2>5. /\ ToSave' = ToSave /\ QueuedRanks' = QueuedRanks /\ ToParse' = ToParse
        /\ StagesLeft' = StagesLeft /\ Saved' = Saved /\ AtMost' = AtMost
        /\ Later' = Later /\ Unread' = Unread
    <3>1. ToParse' = ToParse
      BY <1>3, <2>1 DEF ToParse
    <3> QED  BY <1>3, <2>2, <3>1 DEF ToSave, QueuedRanks, StagesLeft, Saved, AtMost, Later,
                                     Unread, Task, ToSet
  <2>6. Over'
    BY <1>3, <2>1, StillBusy DEF Stages
  <2>7. CASE /\ Interesting(Head(todo)) /\ jobs' = jobs + 1 /\ counted' = TRUE /\ todo' = todo
    <3>1. Types'
      BY <1>1, <1>3, <2>1, <2>2, <2>7 DEF Types
    <3>2. Course'
      BY <1>1, <1>3, <2>1, <2>2, <2>4, <2>7 DEF Course, Saved
    <3>3. Staged'
      BY <1>1, <1>3, <2>1, <2>2, <2>7 DEF Staged, Stages, IsInjective
    <3>4. Due = 0 /\ Due' = 1
      BY <1>3, <2>1, <2>7 DEF Due
    <3>5. Bounded'
      <4>1. Len(todo) \in Nat /\ Len(todo) # 0
        BY <1>3, <2>1, LenProperties, EmptySeq
      <4>2. jobs + Len(todo) <= AtMost + Len(ratings) + 0 /\ finished <= jobs
        BY <1>1, <2>1, <3>4 DEF Bounded
      <4>3. /\ jobs + 1 <= AtMost + Len(ratings) /\ finished <= jobs + 1
            /\ jobs + 1 + Len(todo) <= AtMost + Len(ratings) + 1
        BY <2>1, <2>3, <4>1, <4>2
      <4> QED  BY <1>3, <2>1, <2>2, <2>5, <2>7, <3>4, <4>3 DEF Bounded
    <3>6. Split'
      <4>1. Ahead' = Ahead
        BY <2>2, <2>5, <2>7 DEF Ahead, ToSet
      <4> QED  BY <1>3, <2>1, <2>2, <4>1, NothingQueued
    <3>7. Balance'
      <4>1. StagesLeft \in Nat
        BY <1>1, Sizes
      <4> QED  BY <1>1, <1>3, <2>1, <2>2, <2>3, <2>5, <2>7, <3>4, <4>1 DEF Balance
    <3> QED  BY <2>6, <3>1, <3>2, <3>3, <3>5, <3>6, <3>7 DEF IInv
  <2>8. CASE ~Interesting(Head(todo)) /\ todo' = Tail(todo) /\ jobs' = jobs /\ counted' = counted
    <3>1. Types'
      BY <1>1, <1>3, <2>1, <2>2, <2>8 DEF Types
    <3>2. Course'
      BY <1>1, <1>3, <2>1, <2>2, <2>8 DEF Course, Saved
    <3>3. PICK q : q = Tail(todo)
      OBVIOUS
    <3>4. /\ q \in Seq(Lines) /\ IsInjective(q) /\ ToSet(q) = ToSet(todo) \ {Head(todo)}
          /\ Len(todo) = Len(q) + 1
      <4>1. todo # <<>> /\ IsInjective(todo)
        BY <1>1, <1>3 DEF Staged
      <4>2. \A r : r = Tail(todo) =>
              /\ r \in Seq(Lines) /\ Len(todo) = Len(r) + 1
              /\ IsInjective(todo) => IsInjective(r) /\ ToSet(r) = ToSet(todo) \ {Head(todo)}
        BY <2>1, <4>1, TailSeq
      <4> QED  BY <3>3, <4>1, <4>2
    <3>5. Staged'
      BY <1>3, <2>1, <2>2, <2>8, <3>3, <3>4 DEF Staged, Stages, IsInjective
    <3>6. Due = 0 /\ Due' = 0
      BY <1>3, <2>1, <2>8 DEF Due
    <3>7. Bounded'
      <4>1. Len(q) \in Nat
        BY <3>4, LenProperties
      <4>2. jobs + Len(todo) <= AtMost + Len(ratings) + 0 /\ finished <= jobs
        BY <1>1, <2>1, <3>6 DEF Bounded
      <4>3. jobs + Len(q) <= AtMost + Len(ratings) + 0 /\ jobs <= AtMost + Len(ratings)
        BY <2>1, <2>3, <3>4, <4>1, <4>2
      <4> QED  BY <1>3, <2>1, <2>2, <2>5, <2>8, <3>3, <3>6, <4>2, <4>3 DEF Bounded
    <3>8. Split'
      <4>1. ToSet(todo)' \cap Everything = ToSet(todo) \cap Everything
        <5>1. ToSet(todo)' = ToSet(q)
          BY <2>8, <3>3 DEF ToSet
        <5> QED  BY <2>4, <2>8, <3>4, <5>1
      <4>2. Ahead' = Ahead
        BY <2>2, <2>5, <4>1 DEF Ahead
      <4> QED  BY <1>3, <2>1, <2>2, <4>2, NothingQueued
    <3>9. Balance'
      BY <1>1, <1>3, <2>1, <2>2, <2>5, <2>8, <3>6 DEF Balance
    <3> QED  BY <2>6, <3>1, <3>2, <3>5, <3>7, <3>8, <3>9 DEF IInv
  <2> QED  BY <1>3, <2>7, <2>8
<1> QED  BY <1>2, <1>3 DEF AddRank

LEMMA NextStageKeeps ==
  ASSUME IInv, NextStage PROVE IInv'
<1>1. Types /\ Staged /\ Course /\ Bounded /\ Balance /\ Split
  BY DEF IInv
<1>2. /\ UNCHANGED <<disk, main, counted, unparsed, parsed, tasks, jobs, cancelled, counters>>
      /\ worker \in Stages /\ dialog # "gone" /\ todo = <<>> /\ counted = FALSE
      /\ finished' = finished + 1
      /\ \/ worker = "friends" /\ worker' = "villains" /\ todo' = GroupTasks("villains")
         \/ worker = "villains" /\ worker' = "ranks" /\ todo' = RankTasks
         \/ worker = "ranks" /\ worker' = "matches" /\ todo' = todo
  BY <1>1 DEF NextStage, Stages, Types
<1>3. jobs # -1 /\ jobs \in Nat /\ finished \in Nat /\ parsed = {}
  BY <1>1, <1>2 DEF Course, Types, Stages
<1>4. /\ Everything' = Everything /\ Friends' = Friends /\ Villains' = Villains
      /\ Lines' = Lines /\ Ranked' = Ranked /\ matches' = matches /\ ratings' = ratings
      /\ groups' = groups /\ UNCHANGED <<polling, dialog, ended, handled, tasks>>
  BY <1>2, Kept DEF main
<1>5. /\ AtMost \in Nat /\ Cardinality(QueuedRanks) \in Nat
      /\ Cardinality(ToParse) \in Nat /\ Cardinality(ToSave) \in Nat /\ Due \in Nat
  BY <1>1, Sizes
<1>6. /\ ToSave' = ToSave /\ QueuedRanks' = QueuedRanks /\ ToParse' = ToParse
      /\ Saved' = Saved /\ AtMost' = AtMost /\ Unread' = Unread
  BY <1>2, <1>4 DEF ToSave, QueuedRanks, ToParse, Saved, AtMost, Unread, Task, ToSet
<1>7. Due = 0 /\ Due' = 0
  BY <1>2 DEF Due
<1>8. StagesLeft \in Nat /\ StagesLeft' \in Nat /\ StagesLeft = StagesLeft' + 1
  BY <1>2 DEF StagesLeft
<1>9. jobs - finished = StagesLeft + Cardinality(ToParse) + Cardinality(ToSave)
                        + Cardinality(QueuedRanks) + 0
  BY <1>1, <1>2, <1>3, <1>7 DEF Balance
<1>10. Types'
  BY <1>1, <1>2, <1>3, <1>4 DEF Types
<1>11. Course'
  BY <1>1, <1>2, <1>3, <1>4 DEF Course, Saved
<1>12. /\ GroupTasks("villains") \in Seq(Villains) /\ IsInjective(GroupTasks("villains"))
       /\ RankTasks \in Seq(Lines) /\ IsInjective(RankTasks)
       /\ Len(RankTasks) = Len(ratings) /\ Len(ratings) \in Nat
       /\ Villains \subseteq Everything
  BY <1>1, Kinds, RatingsAssumption
<1>13. Staged'
  <2>1. CASE worker = "friends"
    BY <1>2, <1>4, <1>12, <2>1 DEF Staged, Stages, IsInjective
  <2>2. CASE worker = "villains"
    BY <1>2, <1>4, <1>12, <2>2 DEF Staged, Stages, IsInjective
  <2>3. CASE worker = "ranks"
    BY <1>1, <1>2, <1>4, <2>3 DEF Staged, Stages, IsInjective
  <2> QED  BY <1>2, <2>1, <2>2, <2>3
<1>14. Bounded'
  <2>1. finished + 1 <= jobs
    BY <1>3, <1>5, <1>8, <1>9
  <2>2. /\ jobs <= AtMost + Len(ratings)
        /\ worker # "ranks" => jobs <= AtMost
    BY <1>1, <1>2 DEF Bounded, Stages
  <2>3. worker' = "ranks" => jobs + Len(todo') <= AtMost + Len(ratings) + 0
    BY <1>2, <1>3, <1>5, <1>12, <2>2
  <2> QED  BY <1>2, <1>4, <1>6, <1>7, <2>1, <2>2, <2>3 DEF Bounded
<1>15. Ahead' = Ahead
  <2>1. ToSet(todo) = {}
    BY <1>2, EmptyIsInjective
  <2>2. CASE worker = "friends"
    <3>1. ToSet(todo)' = Villains
      BY <1>2, <2>2 DEF Villains, ToSet
    <3>2. Later = Villains \cup Ranked /\ Later' = Ranked
      BY <1>2, <1>4, <2>2 DEF Later
    <3> QED  BY <1>4, <1>6, <1>12, <2>1, <3>1, <3>2 DEF Ahead
  <2>3. CASE worker = "villains"
    <3>1. ToSet(todo)' = Lines
      BY <1>2, <2>3 DEF Lines, ToSet
    <3>2. Later = Ranked /\ Later' = {}
      BY <1>2, <1>4, <2>3 DEF Later
    <3> QED  BY <1>4, <1>6, <2>1, <3>1, <3>2 DEF Ahead, Ranked
  <2>4. CASE worker = "ranks"
    <3>1. ToSet(todo)' = {}
      BY <1>2, <2>1, <2>4 DEF ToSet
    <3>2. Later = {} /\ Later' = {}
      BY <1>2, <2>4 DEF Later
    <3> QED  BY <1>4, <1>6, <2>1, <3>1, <3>2 DEF Ahead
  <2> QED  BY <1>2, <2>2, <2>3, <2>4
<1>16. Split'
  BY <1>2, <1>3, <1>4, <1>15, NothingQueued
<1>17. Balance'
  <2>1. jobs - (finished + 1) = StagesLeft' + Cardinality(ToParse) + Cardinality(ToSave)
                                + Cardinality(QueuedRanks) + 0
    BY <1>3, <1>5, <1>8, <1>9
  <2> QED  BY <1>1, <1>2, <1>3, <1>4, <1>6, <1>7, <2>1 DEF Balance
<1>18. Over'
  BY <1>2, StillBusy
<1> QED  BY <1>10, <1>11, <1>13, <1>14, <1>16, <1>17, <1>18 DEF IInv

LEMMA NextMatchKeeps ==
  ASSUME IInv, NextMatch PROVE IInv'
<1>1. Types /\ Staged /\ Course /\ Bounded /\ Balance /\ Split /\ Over
  BY DEF IInv
<1>2. /\ UNCHANGED <<disk, main, todo, counted, tasks, jobs, finished, cancelled, counters>>
      /\ worker = "matches" /\ dialog # "gone" /\ parsed = {}
      /\ \/ worker' \in {"last", "done"} /\ unparsed' = unparsed /\ parsed' = parsed
         \/ /\ worker' = worker /\ \E s \in unparsed : parsed' = {s} /\ unparsed' = unparsed \ {s}
  BY DEF NextMatch, Worker, None
<1>3. jobs # -1 /\ counted = FALSE /\ todo = <<>>
  BY <1>1, <1>2 DEF Course, Staged, Stages, Types
<1>4. /\ Everything' = Everything /\ Friends' = Friends /\ Villains' = Villains
      /\ Lines' = Lines /\ Ranked' = Ranked /\ matches' = matches /\ ratings' = ratings
      /\ groups' = groups /\ UNCHANGED <<polling, dialog, ended, handled, tasks>>
  BY <1>2, Kept DEF main
<1>5. unparsed' \cup parsed' = unparsed \cup parsed
  BY <1>2
<1>6. /\ ToSave' = ToSave /\ QueuedRanks' = QueuedRanks /\ ToParse' = ToParse
      /\ Saved' = Saved /\ AtMost' = AtMost /\ Unread' = Unread
      /\ Later' = Later /\ StagesLeft' = StagesLeft /\ Due' = Due
  <2>1. ToSave' = ToSave /\ Unread' = Unread /\ QueuedRanks' = QueuedRanks
    <3>1. \A s : (s \in unparsed' \cup parsed') <=> s \in unparsed \cup parsed
      BY <1>5
    <3> QED  BY <1>2, <1>4, <3>1 DEF ToSave, Unread, QueuedRanks, Task, ToSet
  <2>2. ToParse' = ToParse
    BY <1>2, <1>3, <1>5 DEF ToParse
  <2>3. /\ Saved' = Saved /\ AtMost' = AtMost /\ Later' = Later
        /\ StagesLeft' = StagesLeft /\ Due' = Due
    BY <1>2, <1>4 DEF Saved, AtMost, Later, StagesLeft, Due
  <2> QED  BY <2>1, <2>2, <2>3
<1>7. Types'
  <2>1. unparsed' \subseteq DOMAIN matches
    BY <1>1, <1>2 DEF Types
  <2>2. parsed' = {} \/ \E s \in DOMAIN matches \ unparsed' : parsed' = {s}
    BY <1>1, <1>2 DEF Types
  <2> QED  BY <1>1, <1>2, <1>4, <2>1, <2>2 DEF Types
<1>8. Course'
  BY <1>1, <1>2, <1>3, <1>4 DEF Course
<1>9. Staged' /\ Bounded'
  BY <1>1, <1>2, <1>3, <1>4, <1>6 DEF Staged, Stages, Bounded, IsInjective
<1>10. Split'
  <2>1. Ahead' = Ahead
    BY <1>2, <1>4, <1>6 DEF Ahead, ToSet
  <2> QED  BY <1>2, <1>3, <1>4, <2>1, NothingQueued
<1>11. Balance'
  BY <1>1, <1>2, <1>3, <1>4, <1>6 DEF Balance
<1>12. Over'
  BY <1>1, <1>2, <1>4 DEF Over, Complete
<1> QED  BY <1>7, <1>8, <1>9, <1>10, <1>11, <1>12 DEF IInv

LEMMA LeaveKeeps ==
  ASSUME IInv, Leave PROVE IInv'
<1>1. Types /\ Staged /\ Course /\ Bounded /\ Balance /\ Split /\ Over
  BY DEF IInv
<1>2. /\ UNCHANGED <<disk, main, todo, counted, unparsed, parsed, tasks, jobs, finished, cancelled,
                     counters>>
      /\ worker = "last" /\ worker' = "done" /\ dialog # "gone"
  BY DEF Leave, Worker
<1>3. /\ Everything' = Everything /\ Friends' = Friends /\ Villains' = Villains
      /\ Lines' = Lines /\ Ranked' = Ranked /\ matches' = matches /\ ratings' = ratings
      /\ groups' = groups /\ UNCHANGED <<polling, dialog, ended, handled, tasks>>
  BY <1>2, Kept DEF main
<1>4. jobs # -1 /\ todo = <<>>
  BY <1>1, <1>2 DEF Course, Staged, Stages
<1>5. /\ ToSave' = ToSave /\ QueuedRanks' = QueuedRanks /\ ToParse' = ToParse
      /\ Saved' = Saved /\ AtMost' = AtMost /\ Ahead' = Ahead
      /\ StagesLeft' = StagesLeft /\ Due' = Due
  BY <1>2, <1>3 DEF ToSave, QueuedRanks, ToParse, Saved, AtMost, Ahead, Unread, Later,
                    StagesLeft, Due, Task, ToSet
<1>6. Types' /\ Course'
  BY <1>1, <1>2, <1>3, <1>4 DEF Types, Course
<1>7. Staged' /\ Bounded'
  BY <1>1, <1>2, <1>3, <1>4, <1>5 DEF Staged, Stages, Bounded, IsInjective
<1>8. Split'
  BY <1>2, <1>3, <1>4, <1>5, NothingQueued
<1>9. Balance'
  BY <1>1, <1>2, <1>3, <1>4, <1>5 DEF Balance
<1>10. Over'
  BY <1>1, <1>2, <1>3 DEF Over, Complete
<1> QED  BY <1>6, <1>7, <1>8, <1>9, <1>10 DEF IInv

LEMMA ParseKeeps ==
  ASSUME IInv, Parse PROVE IInv'
<1>1. Types /\ Staged /\ Course /\ Bounded /\ Balance /\ Split
  BY DEF IInv
<1>2. /\ UNCHANGED <<disk, main, worker, todo, unparsed, parsed, tasks, jobs, cancelled, counters>>
      /\ worker = "matches" /\ dialog # "gone" /\ parsed # {} /\ counted = FALSE
      /\ finished' = finished + 1 /\ counted' = TRUE
  BY DEF Parse, Worker, None, IInv, Types
<1>3. jobs # -1 /\ jobs \in Nat /\ finished \in Nat /\ todo = <<>>
  BY <1>1, <1>2 DEF Course, Types, Staged, Stages
<1>4. /\ Everything' = Everything /\ Friends' = Friends /\ Villains' = Villains
      /\ Lines' = Lines /\ Ranked' = Ranked /\ matches' = matches /\ ratings' = ratings
      /\ groups' = groups /\ UNCHANGED <<polling, dialog, ended, handled, tasks>>
  BY <1>2, Kept DEF main
<1>5. /\ ToSave' = ToSave /\ QueuedRanks' = QueuedRanks /\ Saved' = Saved /\ AtMost' = AtMost
      /\ Ahead' = Ahead /\ StagesLeft' = 0 /\ StagesLeft = 0 /\ Due' = 0 /\ Due = 0
  BY <1>2, <1>4 DEF ToSave, QueuedRanks, Saved, AtMost, Ahead, Unread, Later, StagesLeft, Due,
                    Task, ToSet
<1>6. /\ AtMost \in Nat /\ Cardinality(QueuedRanks) \in Nat /\ Cardinality(ToParse) \in Nat
      /\ Cardinality(ToSave) \in Nat /\ IsFiniteSet(unparsed) /\ Cardinality(unparsed) \in Nat
  BY <1>1, Sizes
<1>7. Cardinality(ToParse) = Cardinality(ToParse') + 1 /\ Cardinality(ToParse') \in Nat
  <2>1. PICK s \in DOMAIN matches \ unparsed : parsed = {s}
    BY <1>1, <1>2 DEF Types
  <2>2. ToParse = unparsed \cup {s} /\ ToParse' = unparsed
    BY <1>2, <2>1 DEF ToParse
  <2> QED  BY <1>6, <2>1, <2>2, FS_AddElement
<1>8. Types' /\ Course'
  BY <1>1, <1>2, <1>3, <1>4 DEF Types, Course
<1>9. Staged'
  BY <1>1, <1>2, <1>4 DEF Staged, Stages, IsInjective
<1>10. /\ jobs - finished = Cardinality(ToParse) + Cardinality(ToSave) + Cardinality(QueuedRanks)
       /\ Saved + Cardinality(ToSave) = Cardinality(DOMAIN matches)
  BY <1>1, <1>2, <1>3, <1>5, <1>6 DEF Balance
<1>11. Bounded'
  <2>1. finished + 1 <= jobs
    BY <1>3, <1>6, <1>7, <1>10
  <2> QED  BY <1>1, <1>2, <1>4, <1>5, <2>1 DEF Bounded
<1>12. Split'
  BY <1>2, <1>3, <1>4, <1>5, NothingQueued
<1>13. Balance'
  <2>1. jobs - (finished + 1) = 0 + Cardinality(ToParse') + Cardinality(ToSave)
                                + Cardinality(QueuedRanks) + 0
    BY <1>3, <1>6, <1>7, <1>10
  <2> QED  BY <1>2, <1>4, <1>5, <1>10, <2>1 DEF Balance
<1>14. Over'
  BY <1>2, StillBusy
<1> QED  BY <1>8, <1>9, <1>11, <1>12, <1>13, <1>14 DEF IInv

LEMMA QueueMatchKeeps ==
  ASSUME IInv, QueueMatch PROVE IInv'
<1>1. Types /\ Staged /\ Course /\ Bounded /\ Balance /\ Split
  BY DEF IInv
<1>2. /\ UNCHANGED <<disk, main, worker, todo, unparsed, jobs, cancelled>>
      /\ worker = "matches" /\ dialog # "gone" /\ parsed # {} /\ counted = TRUE
      /\ counted' = FALSE /\ parsed' = {}
  BY DEF QueueMatch, Worker, None, IInv, Types
<1>3. jobs # -1 /\ jobs \in Nat /\ finished \in Nat /\ todo = <<>>
  BY <1>1, <1>2 DEF Course, Types, Staged, Stages
<1>4. /\ Everything' = Everything /\ Friends' = Friends /\ Villains' = Villains
      /\ Lines' = Lines /\ Ranked' = Ranked /\ matches' = matches /\ ratings' = ratings
      /\ groups' = groups /\ UNCHANGED <<polling, dialog, ended, handled>>
  BY <1>2, Kept DEF main
<1>5. PICK s \in DOMAIN matches \ unparsed : parsed = {s}
  BY <1>1, <1>2 DEF Types
<1>6. PICK t : t = Task(matches[s], s)
  OBVIOUS
<1>7. \/ /\ matches[s] = "broken" /\ finished' = finished + 1
         /\ counters' = [counters EXCEPT !.errors = @ + 1] /\ tasks' = tasks
      \/ /\ matches[s] # "broken" /\ tasks' = Append(tasks, t)
         /\ UNCHANGED <<finished, counters>>
  BY <1>5, <1>6 DEF QueueMatch
<1>8. /\ AtMost' = AtMost /\ StagesLeft' = 0 /\ StagesLeft = 0 /\ Due' = 0 /\ Due = 0
      /\ ToParse' = ToParse /\ Later' = Later
  BY <1>2, <1>4 DEF AtMost, ToParse, StagesLeft, Due, Later
<1>9. /\ Cardinality(QueuedRanks) \in Nat /\ Cardinality(ToParse) \in Nat
      /\ IsFiniteSet(ToSave) /\ Cardinality(ToSave) \in Nat
  BY <1>1, Sizes
<1>10. Staged'
  BY <1>1, <1>2, <1>4 DEF Staged, Stages, IsInjective
<1>11. /\ jobs - finished = Cardinality(ToParse) + Cardinality(ToSave) + Cardinality(QueuedRanks)
       /\ Saved + Cardinality(ToSave) = Cardinality(DOMAIN matches)
  BY <1>1, <1>2, <1>3, <1>8, <1>9 DEF Balance
<1>12. Over'
  BY <1>2, StillBusy
<1>13. s \in ToSave
  BY <1>5 DEF ToSave
<1>14. \A x \in Everything : x.kind \in {"match", "saved"} =>
         matches[x.of] = x.kind /\ x = Task(x.kind, x.of)
  <2>1. /\ \A x \in Friends : x.kind \in {"group", "relation"}
        /\ \A x \in Villains : x.kind \in {"group", "relation"}
        /\ \A x \in Ranked : x.kind = "rank"
    BY <1>1, Kinds DEF Ranked
  <2>2. \A x \in Everything : \/ x \in Friends \/ x \in Villains \/ x \in Ranked
                              \/ matches[x.of] = x.kind /\ x = Task(x.kind, x.of)
    BY <1>1, Kinds
  <2> QED  BY <2>1, <2>2
<1>15. t.kind = matches[s] /\ t.of = s /\ matches[s] \in {"match", "saved", "broken"}
  BY <1>1, <1>5, <1>6, TaskFields DEF Types
<1>16. CASE matches[s] = "broken"
  <2>1. /\ finished' = finished + 1 /\ tasks' = tasks
        /\ counters' = [counters EXCEPT !.errors = @ + 1]
    BY <1>7, <1>16
  <2>2. t \notin Everything
    BY <1>1, <1>5, <1>6, <1>16, Kinds
  <2>3. t \notin ToSet(tasks)
    <3>1. ToSet(tasks) \subseteq Everything
      BY <1>1, InSeq DEF Types
    <3> QED  BY <2>2, <3>1
  <2>4. Unread' = Unread
    <3>1. \A x \in Everything : x.kind \in {"match", "saved"} => x.of # s
      BY <1>14, <1>16
    <3> QED  BY <1>2, <1>4, <1>5, <3>1 DEF Unread
  <2>5. Ahead' = Ahead
    BY <1>2, <1>4, <1>8, <2>4 DEF Ahead, ToSet
  <2>6. Split'
    BY <1>2, <1>3, <1>4, <2>1, <2>5, NothingQueued
  <2>7. ToSave' = ToSave \ {s}
    BY <1>2, <1>4, <1>5, <1>6, <2>1, <2>3 DEF ToSave, Task, ToSet
  <2>8. Cardinality(ToSave') = Cardinality(ToSave) - 1 /\ Cardinality(ToSave') \in Nat
    <3>1. Cardinality(ToSave') = Cardinality(ToSave) - 1 /\ IsFiniteSet(ToSave')
      BY <1>9, <1>13, <2>7, FS_RemoveElement
    <3> QED  BY <3>1, FS_CardinalityType
  <2>9. /\ QueuedRanks' = QueuedRanks
    BY <2>1 DEF QueuedRanks, ToSet
  <2>10. /\ counters' \in [{"ratings", "stored", "errors", "skipped"} -> Nat]
         /\ Saved' = Saved + 1 /\ Saved \in Nat
    <3>1. counters \in [{"ratings", "stored", "errors", "skipped"} -> Nat]
      BY <1>1 DEF Types
    <3>2. counters' \in [{"ratings", "stored", "errors", "skipped"} -> Nat]
      BY <2>1, <3>1
    <3>3. /\ counters'.errors = counters.errors + 1 /\ counters'.stored = counters.stored
          /\ counters'.skipped = counters.skipped
      BY <2>1, <3>1
    <3>4. counters.stored \in Nat /\ counters.errors \in Nat /\ counters.skipped \in Nat
      BY <3>1
    <3> QED  BY <3>2, <3>3, <3>4 DEF Saved
  <2>11. Types'
    <3>1. finished' \in Nat /\ tasks' \in Seq(Everything)
      BY <1>1, <1>3, <2>1 DEF Types
    <3> QED  BY <1>1, <1>2, <1>3, <1>4, <2>10, <3>1 DEF Types
  <2>12. Course'
    BY <1>1, <1>2, <1>3, <1>4 DEF Course
  <2>13. Bounded'
    <3>1. finished + 1 <= jobs
      BY <1>3, <1>9, <1>11, <2>8
    <3> QED  BY <1>1, <1>2, <1>4, <1>8, <2>1, <3>1 DEF Bounded
  <2>14. Balance'
    <3>1. /\ jobs - (finished + 1) = 0 + Cardinality(ToParse) + Cardinality(ToSave')
                                     + Cardinality(QueuedRanks) + 0
          /\ (Saved + 1) + Cardinality(ToSave') = Cardinality(DOMAIN matches)
      BY <1>3, <1>9, <1>11, <2>8, <2>10
    <3> QED  BY <1>2, <1>4, <1>8, <2>1, <2>9, <2>10, <3>1 DEF Balance
  <2> QED  BY <1>10, <1>12, <2>6, <2>11, <2>12, <2>13, <2>14 DEF IInv
<1>17. CASE matches[s] # "broken"
  <2>1. tasks' = Append(tasks, t) /\ finished' = finished /\ counters' = counters
    BY <1>7, <1>17
  <2>2. t \in Everything
    BY <1>1, <1>5, <1>6, <1>17, Kinds
  <2>3. t \in Unread
    BY <1>5, <1>15, <1>17, <2>2 DEF Unread
  <2>4. Unread' = Unread \ {t}
    <3>1. Unread' = {x \in Everything : x.kind \in {"match", "saved"} /\ x.of \in unparsed}
      BY <1>2, <1>4 DEF Unread
    <3>2. \A x \in Everything : x.kind \in {"match", "saved"} => (x.of = s <=> x = t)
      BY <1>6, <1>14, <1>15
    <3> QED  BY <1>5, <3>1, <3>2 DEF Unread
  <2>5. Later = {} /\ ToSet(todo) = {} /\ ToSet(todo)' = {}
    BY <1>2, <1>3, EmptyIsInjective DEF Later
  <2>6. Ahead' = Ahead \ {t} /\ t \in Ahead
    BY <1>8, <2>3, <2>4, <2>5 DEF Ahead
  <2>7. /\ tasks' \in Seq(Everything) /\ ToSet(tasks)' = ToSet(tasks) \cup {t} /\ Split'
    BY <1>2, <1>3, <1>4, <2>1, <2>6, Queued
  <2>8. ToSave' = ToSave
    <3>1. /\ DOMAIN matches' = DOMAIN matches
          /\ \A x : Task(matches[x], x)' = Task(matches[x], x)
      BY <1>4 DEF Task
    <3>2. \A x \in DOMAIN matches : Task(matches[x], x) = t => x = s
      BY <1>15, TaskFields
    <3> QED  BY <1>2, <1>5, <1>6, <2>7, <3>1, <3>2 DEF ToSave
  <2>9. QueuedRanks' = QueuedRanks
    BY <1>15, <2>7 DEF QueuedRanks
  <2>10. Types'
    BY <1>1, <1>2, <1>3, <1>4, <2>1, <2>7 DEF Types
  <2>11. Course'
    BY <1>1, <1>2, <1>3, <1>4 DEF Course
  <2>12. Bounded'
    BY <1>1, <1>2, <1>4, <1>8, <2>1 DEF Bounded
  <2>13. Balance'
    <3>1. Saved' = Saved
      BY <2>1 DEF Saved
    <3> QED  BY <1>1, <1>2, <1>3, <1>4, <1>8, <2>1, <2>8, <2>9, <3>1 DEF Balance
  <2> QED  BY <1>10, <1>12, <2>7, <2>10, <2>11, <2>12, <2>13 DEF IInv
<1> QED  BY <1>16, <1>17

-----------------------------------------------------------------------------
(* The poll. *)

(* How a task may end, and what that adds to. *)
LEMMA Counted ==
  ASSUME Types, NEW kind, \E outcome \in Outcomes(kind) : counters' = Count(outcome)
  PROVE  /\ counters' \in [{"ratings", "stored", "errors", "skipped"} -> Nat]
         /\ kind \in {"group", "relation", "rank"} => Saved' = Saved
         /\ kind \in {"match", "saved"} => Saved' = Saved + 1
<1>1. PICK outcome \in Outcomes(kind) : counters' = Count(outcome)
  OBVIOUS
<1>2. counters \in [{"ratings", "stored", "errors", "skipped"} -> Nat]
  BY DEF Types
<1>3. /\ counters.ratings \in Nat /\ counters.stored \in Nat /\ counters.errors \in Nat
      /\ counters.skipped \in Nat
  BY <1>2
<1>4. outcome \in {"none", "ratings", "stored", "errors", "skipped"}
  BY <1>1 DEF Outcomes
<1>5. CASE outcome = "none"
  <2>1. counters' = counters
    BY <1>1, <1>5 DEF Count
  <2>2. kind \notin {"match", "saved"}
    BY <1>1, <1>5 DEF Outcomes
  <2> QED  BY <1>2, <2>1, <2>2 DEF Saved
<1>6. CASE outcome \in {"ratings", "stored", "errors", "skipped"}
  <2>1. counters' = [counters EXCEPT ![outcome] = counters[outcome] + 1]
    BY <1>1, <1>6 DEF Count
  <2>2. counters' \in [{"ratings", "stored", "errors", "skipped"} -> Nat]
    BY <1>2, <1>6, <2>1
  <2>3. /\ counters'.stored = (IF outcome = "stored" THEN counters.stored + 1 ELSE counters.stored)
        /\ counters'.errors = (IF outcome = "errors" THEN counters.errors + 1 ELSE counters.errors)
        /\ counters'.skipped =
             (IF outcome = "skipped" THEN counters.skipped + 1 ELSE counters.skipped)
    BY <1>2, <1>6, <2>1
  <2>4. /\ kind \in {"group", "relation"} => outcome = "none"
        /\ kind = "rank" => outcome = "ratings"
        /\ kind \in {"match", "saved"} => outcome \in {"stored", "errors", "skipped"}
    BY <1>1, <1>6 DEF Outcomes
  <2>5. CASE outcome = "ratings"
    BY <1>3, <2>2, <2>3, <2>4, <2>5 DEF Saved
  <2>6. CASE outcome = "stored"
    <3>1. /\ counters'.stored = counters.stored + 1 /\ counters'.errors = counters.errors
          /\ counters'.skipped = counters.skipped
      BY <2>3, <2>6
    <3> QED  BY <1>3, <2>2, <2>4, <2>6, <3>1 DEF Saved
  <2>7. CASE outcome = "errors"
    <3>1. /\ counters'.stored = counters.stored /\ counters'.errors = counters.errors + 1
          /\ counters'.skipped = counters.skipped
      BY <2>3, <2>7
    <3> QED  BY <1>3, <2>2, <2>4, <2>7, <3>1 DEF Saved
  <2>8. CASE outcome = "skipped"
    <3>1. /\ counters'.stored = counters.stored /\ counters'.errors = counters.errors
          /\ counters'.skipped = counters.skipped + 1
      BY <2>3, <2>8
    <3> QED  BY <1>3, <2>2, <2>4, <2>8, <3>1 DEF Saved
  <2> QED  BY <1>6, <2>5, <2>6, <2>7, <2>8
<1> QED  BY <1>4, <1>5, <1>6

LEMMA PollTaskKeeps ==
  ASSUME IInv, PollTask PROVE IInv'
<1>1. Types /\ Staged /\ Course /\ Bounded /\ Balance /\ Split
  BY DEF IInv
<1>2. /\ UNCHANGED <<disk, work, dialog, ended, jobs, cancelled>>
      /\ dialog \in {"stop", "ok"} /\ ~ended /\ polling' = TRUE
  BY DEF PollTask
<1>3. Over'
  BY <1>2 DEF Over
<1>4. CASE tasks = <<>> /\ UNCHANGED <<tasks, handled, finished, counters>>
  <2>1. UNCHANGED <<disk, work, tasks, handled, jobs, finished, counters>> /\ dialog # "gone"
    BY <1>2, <1>4
  <2>2. /\ Staged' /\ Bounded' /\ Split' /\ Balance' /\ Saved' = Saved
        /\ Everything' = Everything
    BY <2>1, Idle
  <2>3. Types' /\ Course'
    BY <1>1, <1>2, <1>4, <2>2 DEF Types, Course, disk, work
  <2> QED  BY <1>3, <2>2, <2>3 DEF IInv
<1>5. CASE tasks # <<>>
  <2>1. PICK t : t = Head(tasks)
    OBVIOUS
  <2>2. PICK q : q = Tail(tasks)
    OBVIOUS
  <2>3. /\ tasks' = q /\ handled' = Append(handled, t)
        /\ t.kind \in {"group", "relation"} => finished' = finished
        /\ t.kind \notin {"group", "relation"} => finished' = finished + 1
        /\ \E outcome \in Outcomes(t.kind) : counters' = Count(outcome)
    BY <1>5, <2>1, <2>2 DEF PollTask
  <2>4. /\ worker' = worker /\ todo' = todo /\ counted' = counted /\ unparsed' = unparsed
        /\ parsed' = parsed /\ jobs' = jobs
    BY <1>2 DEF work
  <2>5. /\ Everything' = Everything /\ Friends' = Friends /\ Villains' = Villains
        /\ Lines' = Lines /\ Ranked' = Ranked /\ matches' = matches /\ ratings' = ratings
        /\ groups' = groups
    BY <1>2, Kept
  <2>6. jobs # -1 /\ jobs \in Nat /\ finished \in Nat
    BY <1>1, <1>5 DEF Course, Types
  <2>7. /\ IsInjective(handled) /\ IsInjective(tasks)
        /\ ToSet(handled) \cap ToSet(tasks) = {}
        /\ (ToSet(handled) \cup ToSet(tasks)) \cap Ahead = {}
        /\ ToSet(handled) \cup ToSet(tasks) \cup Ahead = Everything
    BY <1>1, <1>2, <2>6 DEF Split
  <2>8. /\ q \in Seq(Everything) /\ t \in Everything /\ t \in ToSet(tasks)
        /\ IsInjective(q) /\ ToSet(q) = ToSet(tasks) \ {t}
    <3>1. tasks \in Seq(Everything)
      BY <1>1 DEF Types
    <3>2. \A r : r = Tail(tasks) =>
            /\ r \in Seq(Everything) /\ Head(tasks) \in Everything /\ Head(tasks) \in ToSet(tasks)
            /\ IsInjective(tasks) =>
                 IsInjective(r) /\ ToSet(r) = ToSet(tasks) \ {Head(tasks)}
      BY <1>5, <3>1, TailSeq
    <3> QED  BY <2>1, <2>2, <2>7, <3>2
  <2>9. PICK h : h = Append(handled, t)
    OBVIOUS
  <2>10. h \in Seq(Everything) /\ ToSet(h) = ToSet(handled) \cup {t} /\ IsInjective(h)
    <3>1. handled \in Seq(Everything)
      BY <1>1 DEF Types
    <3>2. \A x \in Everything : \A r : r = Append(handled, x) =>
            /\ r \in Seq(Everything) /\ r # <<>> /\ ToSet(r) = ToSet(handled) \cup {x}
            /\ IsInjective(handled) /\ x \notin ToSet(handled) => IsInjective(r)
      BY <3>1, AppendSeq
    <3>3. t \notin ToSet(handled)
      BY <2>7, <2>8
    <3> QED  BY <2>7, <2>8, <2>9, <3>2, <3>3
  <2>11. Ahead' = Ahead
    BY <2>4, <2>5 DEF Ahead, Later, Unread, ToSet
  <2>12. /\ ToSet(tasks)' = ToSet(tasks) \ {t} /\ ToSet(handled)' = ToSet(handled) \cup {t}
         /\ IsInjective(tasks)' /\ IsInjective(handled)'
    <3>1. ToSet(tasks)' = ToSet(q) /\ IsInjective(tasks)' = IsInjective(q)
      BY <2>3 DEF ToSet, IsInjective
    <3>2. ToSet(handled)' = ToSet(h) /\ IsInjective(handled)' = IsInjective(h)
      BY <2>3, <2>9 DEF ToSet, IsInjective
    <3> QED  BY <2>8, <2>10, <3>1, <3>2
  <2>13. Split'
    BY <2>5, <2>7, <2>8, <2>11, <2>12 DEF Split
  <2>14. Staged'
    BY <1>1, <2>4, <2>5 DEF Staged, IsInjective
  <2>15. Types'
    <3>1. counters' \in [{"ratings", "stored", "errors", "skipped"} -> Nat]
      BY <1>1, <2>3, Counted
    <3>2. finished' \in Nat
      BY <2>3, <2>6
    <3>3. tasks' \in Seq(Everything) /\ handled' \in Seq(Everything)
      BY <2>3, <2>8, <2>9, <2>10
    <3> QED  BY <1>1, <1>2, <2>4, <2>5, <3>1, <3>2, <3>3 DEF Types
  <2>16. Course'
    BY <1>1, <1>2, <2>4, <2>5, <2>6 DEF Course
  <2>17. /\ AtMost' = AtMost /\ StagesLeft' = StagesLeft /\ Due' = Due /\ ToParse' = ToParse
    BY <2>4, <2>5 DEF AtMost, ToParse, StagesLeft, Due
  <2>18. /\ Cardinality(QueuedRanks) \in Nat /\ Cardinality(ToParse) \in Nat
         /\ IsFiniteSet(ToSave) /\ Cardinality(ToSave) \in Nat /\ IsFiniteSet(QueuedRanks)
         /\ StagesLeft \in Nat /\ Due \in Nat /\ Saved \in Nat
    BY <1>1, Sizes
  <2>19. /\ jobs - finished = StagesLeft + Cardinality(ToParse) + Cardinality(ToSave)
                              + Cardinality(QueuedRanks) + Due
         /\ Saved + Cardinality(ToSave) = Cardinality(DOMAIN matches)
    BY <1>1, <1>2, <2>6 DEF Balance
  <2>20. \/ t.kind \in {"group", "relation", "rank"}
         \/ /\ t.kind \in {"match", "saved"} /\ t.of \in DOMAIN matches
            /\ matches[t.of] = t.kind /\ t = Task(t.kind, t.of)
    <3>1. /\ \A x \in Friends : x.kind \in {"group", "relation"}
          /\ \A x \in Villains : x.kind \in {"group", "relation"}
          /\ \A x \in Ranked : x.kind = "rank"
      BY <1>1, Kinds DEF Ranked
    <3>2. \/ t \in Friends \/ t \in Villains \/ t \in Ranked
          \/ /\ t.kind \in {"match", "saved"} /\ t.of \in DOMAIN matches
             /\ matches[t.of] = t.kind /\ t = Task(t.kind, t.of)
      BY <1>1, <2>8, Kinds
    <3> QED  BY <3>1, <3>2
  <2>21. \A s : Task(matches[s], s)' = Task(matches[s], s)
    BY <2>5 DEF Task
  <2>22. CASE t.kind \in {"group", "relation", "rank"}
    <3>1. ToSave' = ToSave /\ Saved' = Saved
      <4>1. \A s \in DOMAIN matches : Task(matches[s], s) # t
        <5>1. \A s \in DOMAIN matches : matches[s] \in {"match", "saved", "broken"}
          BY <1>1 DEF Types
        <5>2. \A s \in DOMAIN matches : Task(matches[s], s).kind = matches[s]
          BY TaskFields
        <5> QED  BY <2>22, <5>1, <5>2
      <4>2. Saved' = Saved
        BY <1>1, <2>3, <2>22, Counted
      <4> QED  BY <2>4, <2>5, <2>12, <2>21, <4>1, <4>2 DEF ToSave
    <3>2. CASE t.kind \in {"group", "relation"}
      <4>1. QueuedRanks' = QueuedRanks /\ finished' = finished
        BY <2>3, <2>12, <3>2 DEF QueuedRanks
      <4>2. Bounded'
        BY <1>1, <2>4, <2>5, <2>17, <4>1 DEF Bounded
      <4>3. Balance'
        BY <2>4, <2>5, <2>17, <2>19, <3>1, <4>1 DEF Balance
      <4> QED  BY <1>3, <2>13, <2>14, <2>15, <2>16, <4>2, <4>3 DEF IInv
    <3>3. CASE t.kind = "rank"
      <4>1. QueuedRanks' = QueuedRanks \ {t} /\ t \in QueuedRanks /\ finished' = finished + 1
        BY <2>3, <2>8, <2>12, <3>3 DEF QueuedRanks
      <4>2. Cardinality(QueuedRanks') = Cardinality(QueuedRanks) - 1 /\ Cardinality(QueuedRanks') \in Nat
        <5>1. Cardinality(QueuedRanks') = Cardinality(QueuedRanks) - 1 /\ IsFiniteSet(QueuedRanks')
          BY <2>18, <4>1, FS_RemoveElement
        <5> QED  BY <5>1, FS_CardinalityType
      <4>3. /\ jobs - (finished + 1) = StagesLeft + Cardinality(ToParse) + Cardinality(ToSave)
                                       + Cardinality(QueuedRanks') + Due
            /\ finished + 1 <= jobs
        BY <2>6, <2>18, <2>19, <4>2
      <4>4. Bounded'
        BY <1>1, <2>4, <2>5, <2>17, <4>1, <4>3 DEF Bounded
      <4>5. Balance'
        BY <2>4, <2>5, <2>17, <2>19, <3>1, <4>1, <4>3 DEF Balance
      <4> QED  BY <1>3, <2>13, <2>14, <2>15, <2>16, <4>4, <4>5 DEF IInv
    <3> QED  BY <2>22, <3>2, <3>3
  <2>23. CASE /\ t.kind \in {"match", "saved"} /\ t.of \in DOMAIN matches
              /\ matches[t.of] = t.kind /\ t = Task(t.kind, t.of)
    <3>1. t.of \notin unparsed \cup parsed
      <4>1. t \notin Ahead
        BY <2>7, <2>8
      <4> QED  BY <2>8, <2>23, <4>1 DEF Ahead, Unread
    <3>2. ToSave' = ToSave \ {t.of} /\ t.of \in ToSave
      <4>1. \A s \in DOMAIN matches : Task(matches[s], s) = t <=> s = t.of
        BY <2>23, TaskFields
      <4> QED  BY <2>4, <2>5, <2>8, <2>12, <2>21, <2>23, <3>1, <4>1 DEF ToSave
    <3>3. Cardinality(ToSave') = Cardinality(ToSave) - 1 /\ Cardinality(ToSave') \in Nat
      <4>1. Cardinality(ToSave') = Cardinality(ToSave) - 1 /\ IsFiniteSet(ToSave')
        BY <2>18, <3>2, FS_RemoveElement
      <4> QED  BY <4>1, FS_CardinalityType
    <3>4. QueuedRanks' = QueuedRanks /\ finished' = finished + 1
      BY <2>3, <2>12, <2>23 DEF QueuedRanks
    <3>5. Saved' = Saved + 1
      BY <1>1, <2>3, <2>23, Counted
    <3>6. /\ jobs - (finished + 1) = StagesLeft + Cardinality(ToParse) + Cardinality(ToSave')
                                     + Cardinality(QueuedRanks) + Due
          /\ (Saved + 1) + Cardinality(ToSave') = Cardinality(DOMAIN matches)
          /\ finished + 1 <= jobs
      BY <2>6, <2>18, <2>19, <3>3
    <3>7. Bounded'
      BY <1>1, <2>4, <2>5, <2>17, <3>4, <3>6 DEF Bounded
    <3>8. Balance'
      BY <2>4, <2>5, <2>17, <3>4, <3>5, <3>6 DEF Balance
    <3> QED  BY <1>3, <2>13, <2>14, <2>15, <2>16, <3>7, <3>8 DEF IInv
  <2> QED  BY <2>20, <2>22, <2>23
<1> QED  BY <1>4, <1>5 DEF PollTask

-----------------------------------------------------------------------------
(* What the invariant gives. *)
LEMMA TypesFollow ==
  ASSUME IInv PROVE TypeOK
<1>1. Types /\ Course /\ Bounded
  BY DEF IInv
<1>2. Cardinality(parsed) <= 1 /\ parsed \subseteq DOMAIN matches \ unparsed
  <2>1. CASE parsed = {}
    BY <2>1, FS_EmptySet
  <2>2. CASE \E s \in DOMAIN matches \ unparsed : parsed = {s}
    <3>1. PICK s \in DOMAIN matches \ unparsed : parsed = {s}
      BY <2>2
    <3>2. Cardinality({s}) = 1
      BY FS_Singleton
    <3> QED  BY <3>1, <3>2
  <2> QED  BY <1>1, <2>1, <2>2 DEF Types
<1>3. /\ jobs \in -1..(3 + 2 * Cardinality(Stems) + MaxRatings)
      /\ finished \in 0..(3 + 2 * Cardinality(Stems) + MaxRatings)
  <2>1. /\ Cardinality(DOMAIN matches) \in Nat /\ Cardinality(Stems) \in Nat
        /\ Cardinality(DOMAIN matches) <= Cardinality(Stems)
    BY <1>1, Sizes
  <2>2. Len(ratings) \in 0..MaxRatings
    BY <1>1, Kinds
  <2>3. jobs <= 3 + 2 * Cardinality(DOMAIN matches) + Len(ratings)
    BY <1>1 DEF Bounded, AtMost
  <2>4. jobs \in Nat \cup {-1} /\ finished \in Nat
    BY <1>1 DEF Types
  <2>5. jobs <= 3 + 2 * Cardinality(Stems) + MaxRatings
    BY <2>1, <2>2, <2>3, <2>4, RatingsAssumption
  <2>6. jobs = -1 => finished = 0
    BY <1>1 DEF Course
  <2>7. jobs = -1 \/ finished <= jobs
    BY <1>1 DEF Bounded
  <2> QED  BY <2>1, <2>4, <2>5, <2>6, <2>7, RatingsAssumption
<1> QED  BY <1>1, <1>2, <1>3 DEF Types, TypeOK

LEMMA CompleteFollows ==
  ASSUME IInv PROVE EndsComplete
<1> SUFFICES ASSUME ended, ~cancelled, dialog = "ok"
             PROVE  /\ worker \in {"matches", "last", "done"} /\ unparsed = {} /\ parsed = None
                    /\ ToSet(handled) = Everything /\ IsInjective(handled)
                    /\ counters.stored + counters.errors + counters.skipped
                         = Cardinality(DOMAIN matches)
  BY DEF EndsComplete
<1>1. Complete
  BY DEF IInv, Over
<1> QED  BY <1>1, WhenComplete DEF Saved, None

LEMMA NextKeeps ==
  ASSUME IInv, [Next]_vars PROVE IInv'
<1>1. CASE Run
  BY <1>1, RunKeeps
<1>2. CASE Work
  BY <1>2, CollectKeeps, AddMemberKeeps, AddRankKeeps, NextStageKeeps, NextMatchKeeps, ParseKeeps,
     QueueMatchKeeps, LeaveKeeps DEF Work
<1>3. CASE PollTask
  BY <1>3, PollTaskKeeps
<1>4. CASE PollCheck
  BY <1>4, PollCheckKeeps
<1>5. CASE OnStop
  BY <1>5, OnStopKeeps
<1>6. CASE OnOkay
  BY <1>6, OnOkayKeeps
<1>7. CASE UNCHANGED vars
  BY <1>7, StutterKeeps
<1> QED  BY <1>1, <1>2, <1>3, <1>4, <1>5, <1>6, <1>7 DEF Next

(***************************************************************************)
(* In every state every task is done, queued or ahead of the worker, once, *)
(* and the difference of the counters jobs and finished, which two threads *)
(* change, is the number of stages, matches and ratings that are not done. *)
(***************************************************************************)
THEOREM AlwaysBalanced == Spec => []IInv
<1>1. Init => IInv
  BY Initially
<1>2. IInv /\ [Next]_vars => IInv'
  BY NextKeeps
<1> QED  BY <1>1, <1>2, PTL DEF Spec

(***************************************************************************)
(* The importer keeps its types, and the counters jobs and finished stay   *)
(* within what is on the disk, for any number of names, matches and lines. *)
(***************************************************************************)
THEOREM TypesCorrect == Spec => []TypeOK
<1>1. IInv => TypeOK
  BY TypesFollow
<1> QED  BY <1>1, AlwaysBalanced, PTL

(***************************************************************************)
(* When gibbon_java_fibs_importer_poll() ends the import because the       *)
(* counters meet, everything on the disk has been imported exactly once,   *)
(* and every match is in exactly one of the counts.                        *)
(***************************************************************************)
THEOREM EverythingImported == Spec => []EndsComplete
<1>1. IInv => EndsComplete
  BY CompleteFollows
<1> QED  BY <1>1, AlwaysBalanced, PTL
=============================================================================
