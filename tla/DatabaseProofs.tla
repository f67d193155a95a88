---------------------------- MODULE DatabaseProofs ----------------------------
(***************************************************************************)
(* Proofs about Database.tla, for every number of players, calls, crashes  *)
(* and steps of other programs; the other programs may do anything but add *)
(* relations (see CreateRelation, which leaks its transaction then).       *)
(*                                                                         *)
(* The connection is always in one of two states.  It is quiet: the flag   *)
(* is not set, what it reads is intact and nothing that is on the disk is  *)
(* missing.  Or it is between two callbacks of the update of the countries:*)
(* then every operation that wants a transaction is refused, and changes   *)
(* nothing.  The operations lead from quiet to quiet.                      *)
(***************************************************************************)
EXTENDS Database, TLAPS

-----------------------------------------------------------------------------
Connections == [flag : BOOLEAN, open : BOOLEAN, view : Tables, disk : Tables]

(* The countries of these tables are complete. *)
Intact(rows) ==
  rows.geo \in {"old", "new"} /\ (rows.stamp = "new" <=> rows.geo = "new")

(* What callers may rely on in a is still there in b. *)
Keeps(a, b) ==
  /\ a.users \subseteq b.users /\ a.relations \subseteq b.relations
  /\ \A p \in Players : a.active[p] <= b.active[p]

Quiet(c) ==
  /\ c \in Connections /\ ~c.flag
  /\ Intact(c.view) /\ Intact(c.disk) /\ Keeps(c.disk, c.view)
  /\ ~c.open => c.view = c.disk

Between(c) ==
  /\ c \in Connections /\ c.flag /\ c.open
  /\ c.view.geo \in {"none", "part"} /\ Intact(c.disk) /\ Keeps(c.disk, c.view)

(* d is c after an operation. *)
Worked(c, d) ==
  /\ c.flag => d = c
  /\ ~c.flag => Quiet(d) /\ Keeps(c.disk, d.disk) /\ (other = "idle" /\ ~c.open => ~d.open)

(* The variables besides the connection, and the bound on what was told. *)
Sound ==
  /\ updater \in {"none", "opening", "reading", "freed"}
  /\ adding \subseteq Players /\ running \in BOOLEAN
  /\ other \in {"idle", "reads", "writes"}
  /\ told \in [users : SUBSET Players, relations : SUBSET Players, active : [Players -> Nat]]
  /\ calls \in Nat /\ others \in Nat /\ crashes \in Nat /\ others <= MaxOthers
  /\ \A p \in Players : told.active[p] + calls <= MaxCalls
  /\ ~running => updater = "none"

IInv ==
  /\ Sound
  /\ IF updater = "reading" THEN Between(db) /\ other # "writes" ELSE Quiet(db)
  /\ adding \cap db.view.relations = {}
  /\ Alone => other = "idle" /\ db.open = db.flag /\ Keeps(told, db.disk)

-----------------------------------------------------------------------------
LEMMA KeepsOrder ==
  ASSUME NEW a \in Tables, NEW b \in Tables
  PROVE  /\ Keeps(a, a)
         /\ \A c \in Tables : Keeps(a, b) /\ Keeps(b, c) => Keeps(a, c)
  <1>1. \A t \in Tables : \A p \in Players : t.active[p] \in Int
    BY LimitsAssumption DEF Tables
  <1> QED BY <1>1 DEF Keeps

LEMMA SameRows ==
  ASSUME NEW a \in Tables, NEW b \in Tables,
         b.users = a.users, b.relations = a.relations, b.active = a.active
  PROVE  Keeps(a, b)
  BY KeepsOrder DEF Keeps

(* One operation in a transaction of its own. *)
LEMMA TransactionWorks ==
  ASSUME NEW c, Quiet(c) \/ Between(c), NEW rows \in Tables,
         ~c.flag => Intact(rows) /\ Keeps(c.view, rows)
  PROVE  LET d == Transaction(c, rows)
         IN /\ Worked(c, d)
            /\ d.view \in {c.view, rows}
            /\ other = "idle" /\ ~c.flag /\ ~c.open => d.disk = rows /\ d.view = rows
  <1> DEFINE d == Transaction(c, rows)
             b == Begin(c)
             e == Execute(b, rows)
  <1>1. CASE c.flag
    BY <1>1 DEF Transaction, Worked
  <1>2. CASE ~c.flag
    <2>1. /\ c \in Connections /\ Intact(c.view) /\ Intact(c.disk) /\ Keeps(c.disk, c.view)
          /\ Intact(rows) /\ Keeps(c.view, rows) /\ (~c.open => c.view = c.disk)
      BY <1>2 DEF Quiet, Between
    <2>2. /\ b \in Connections /\ b.flag /\ b.open /\ b.view = c.view /\ b.disk = c.disk
      BY <2>1 DEF Begin, Connections
    <2> HIDE DEF b
    <2>3. /\ e \in Connections /\ e.open /\ e.disk = c.disk
          /\ e.view = IF other = "writes" THEN c.view ELSE rows
      <3>1. e = IF other = "writes" THEN b ELSE [b EXCEPT !.view = rows]
        BY <2>2 DEF Execute
      <3> HIDE DEF e
      <3> QED BY <2>1, <2>2, <3>1 DEF Connections
    <2> HIDE DEF e
    <2>4. d = Commit(e)
      BY <1>2 DEF Transaction, e, b
    <2> HIDE DEF d
    <2>5. /\ d \in Connections /\ ~d.flag /\ d.view = e.view
          /\ \/ d.open /\ d.disk = c.disk /\ other = "reads"
             \/ ~d.open /\ d.disk = e.view
      BY <2>3, <2>4 DEF Commit, Connections
    <2>6. Keeps(c.disk, c.disk) /\ Keeps(c.disk, rows) /\ Keeps(rows, rows) /\ Keeps(c.view, c.view)
      BY <2>1, KeepsOrder DEF Connections
    <2> QED BY <1>2, <2>1, <2>3, <2>5, <2>6 DEF Worked, Quiet, d
  <1> QED BY <1>1, <1>2

(* Creating a server or a user where there was none. *)
LEMMA KnownRows ==
  ASSUME NEW rows \in Tables, NEW p \in Players
  PROVE  /\ Known(rows, p) \in Tables /\ Keeps(rows, Known(rows, p))
         /\ Known(rows, p).relations = rows.relations /\ Known(rows, p).active = rows.active
         /\ Known(rows, p).geo = rows.geo /\ Known(rows, p).stamp = rows.stamp
         /\ rows.server => p \in Known(rows, p).users
  BY LimitsAssumption DEF Known, Tables, Keeps

LEMMA UserWorks ==
  ASSUME NEW c, Quiet(c) \/ Between(c), NEW p \in Players
  PROVE  LET d == WithUser(c, p)
         IN /\ Worked(c, d) /\ (Quiet(d) \/ Between(d)) /\ d.flag = c.flag
            /\ d.view.relations = c.view.relations /\ d.view.active = c.view.active
            /\ d.view \in Tables
  <1> DEFINE rows == Known(c.view, p)
             d    == WithUser(c, p)
  <1>1. c \in Connections /\ c.view \in Tables
    BY DEF Quiet, Between, Connections
  <1>2. CASE p \in c.view.users
    <2>1. d = c
      BY <1>2 DEF WithUser
    <2>2. Worked(c, c)
      BY <1>1, KeepsOrder DEF Worked, Quiet, Between, Connections
    <2> QED BY <1>1, <2>1, <2>2
  <1>3. CASE p \notin c.view.users
    <2>1. /\ rows \in Tables /\ Keeps(c.view, rows)
          /\ rows.relations = c.view.relations /\ rows.active = c.view.active
          /\ rows.geo = c.view.geo /\ rows.stamp = c.view.stamp
      BY <1>1, KnownRows
    <2>2. d = Transaction(c, rows)
      BY <1>3 DEF WithUser
    <2> HIDE DEF d, rows
    <2>3. Worked(c, d) /\ d.view \in {c.view, rows}
      BY <2>1, <2>2, TransactionWorks DEF Quiet, Between, Intact
    <2>4. (Quiet(d) \/ Between(d)) /\ d.flag = c.flag
      <3>1. CASE c.flag
        BY <2>3, <3>1 DEF Worked, Quiet
      <3>2. CASE ~c.flag
        BY <2>3, <3>2, <1>1 DEF Worked, Quiet, Connections
      <3> QED BY <3>1, <3>2
    <2> QED BY <1>1, <2>1, <2>3, <2>4 DEF d
  <1> QED BY <1>2, <1>3

(* One operation after the other. *)
LEMMA WorkedTwice ==
  ASSUME NEW c \in Connections, NEW d \in Connections, NEW e \in Connections,
         Worked(c, d), Worked(d, e), d.flag = c.flag
  PROVE  Worked(c, e)
  <1>1. c.disk \in Tables /\ d.disk \in Tables /\ e.disk \in Tables
    BY DEF Connections
  <1> QED BY <1>1, KeepsOrder DEF Worked

-----------------------------------------------------------------------------
(* What all operations have in common: nothing else changes meanwhile.     *)
LEMMA CallWorks ==
  ASSUME IInv, Call, db' \in Connections, Worked(db, db'),
         adding' \subseteq Players, adding' \cap db'.view.relations = {},
         told' \in [users : SUBSET Players, relations : SUBSET Players,
                    active : [Players -> Nat]],
         \A p \in Players : told'.active[p] <= told.active[p] + 1,
         Alone => Keeps(told', db'.disk)
  PROVE  IInv'
  <1>1. /\ updater' = updater /\ other' = other /\ others' = others /\ crashes' = crashes
        /\ running /\ running' = running /\ calls \in Nat /\ calls > 0 /\ calls' = calls - 1
    BY DEF Call, IInv, Sound
  <1>2. Sound'
    <2>1. \A p \in Players : told'.active[p] + calls' <= MaxCalls
      <3> SUFFICES ASSUME NEW p \in Players PROVE told'.active[p] + calls' <= MaxCalls
        OBVIOUS
      <3>1. /\ told.active[p] \in Nat /\ told'.active[p] \in Nat
            /\ told'.active[p] <= told.active[p] + 1 /\ told.active[p] + calls <= MaxCalls
        BY DEF IInv, Sound
      <3> QED BY <1>1, <3>1, LimitsAssumption
    <2>2. calls' \in Nat
      BY <1>1
    <2> QED BY <1>1, <2>1, <2>2 DEF IInv, Sound
  <1>3. IF updater = "reading" THEN Between(db') /\ other # "writes" ELSE Quiet(db')
    <2>1. CASE updater = "reading"
      BY <2>1 DEF IInv, Between, Worked
    <2>2. CASE updater # "reading"
      BY <2>2 DEF IInv, Quiet, Worked
    <2> QED BY <2>1, <2>2
  <1>4. Alone => other = "idle" /\ db'.open = db'.flag
    <2>1. CASE db.flag
      BY <2>1 DEF IInv, Worked
    <2>2. CASE ~db.flag
      <3>1. Alone => ~db.open
        BY <2>2 DEF IInv, Quiet, Connections
      <3>2. Alone => ~db'.open /\ ~db'.flag /\ other = "idle"
        BY <2>2, <3>1 DEF IInv, Worked, Quiet
      <3>3. db'.open \in BOOLEAN /\ db'.flag \in BOOLEAN
        BY DEF Connections
      <3> QED BY <3>2, <3>3
    <2> QED BY <2>1, <2>2
  <1>5. Quiet(db)' = Quiet(db') /\ Between(db)' = Between(db') /\ (Alone' <=> Alone)
    BY <1>1 DEF Alone, Quiet, Between
  <1>6. Keeps(told, db.disk)' = Keeps(told', db'.disk)
    BY DEF Keeps
  <1> QED BY <1>1, <1>2, <1>3, <1>4, <1>5, <1>6 DEF IInv

(* An operation that tells nobody that something is stored. *)
LEMMA QuietCall ==
  ASSUME IInv, Call, db' \in Connections, Worked(db, db'), UNCHANGED told,
         adding' \subseteq Players, adding' \cap db'.view.relations = {}
  PROVE  IInv'
  <1>1. Sound
    BY DEF IInv
  <1>2. \A p \in Players : told'.active[p] <= told.active[p] + 1
    BY <1>1 DEF Sound
  <1>3. Alone => Keeps(told, db'.disk)
    <2>1. CASE db.flag
      BY <2>1 DEF IInv, Worked
    <2>2. ASSUME ~db.flag, Alone PROVE Keeps(told, db'.disk)
      <3>1. Keeps(told, db.disk) /\ Keeps(db.disk, db'.disk)
        BY <2>2 DEF IInv, Worked
      <3>2. \A p \in Players : /\ told.active[p] \in Int /\ db.disk.active[p] \in Int
                               /\ db'.disk.active[p] \in Int
        <4>1. db \in Connections
          BY DEF IInv, Quiet, Between
        <4> QED BY <1>1, <4>1, LimitsAssumption DEF Sound, Connections, Tables
      <3> QED BY <3>1, <3>2 DEF Keeps
    <2> QED BY <2>1, <2>2
  <1> QED BY <1>1, <1>2, <1>3, CallWorks DEF Sound

LEMMA Connected ==
  ASSUME IInv
  PROVE  /\ db \in Connections /\ db.view \in Tables /\ db.disk \in Tables
         /\ Quiet(db) \/ Between(db)
         /\ adding \subseteq Players /\ adding \cap db.view.relations = {}
         /\ ~db.flag => Quiet(db)
         /\ db.flag => updater = "reading"
         /\ Alone /\ ~db.flag => other = "idle" /\ ~db.open /\ db.view = db.disk
  BY DEF IInv, Sound, Quiet, Between, Connections

(* The operations that write one row, or none. *)
LEMMA RowCall ==
  ASSUME IInv, Call, NEW rows \in Tables, UNCHANGED <<told, adding>>,
         db' = Transaction(db, rows), Keeps(db.view, rows),
         rows.relations = db.view.relations,
         rows.geo = db.view.geo, rows.stamp = db.view.stamp
  PROVE  IInv'
  <1>1. db \in Connections /\ (Quiet(db) \/ Between(db))
    BY Connected
  <1>2. Worked(db, db') /\ db'.view \in {db.view, rows}
    BY <1>1, TransactionWorks DEF Quiet, Between, Intact
  <1>3. db' \in Connections
    BY <1>1, <1>2 DEF Worked, Quiet
  <1> QED BY <1>2, <1>3, QuietCall, Connected

LEMMA LoginKeeps == ASSUME IInv, Login PROVE IInv'
  <1> DEFINE rows == [db.view EXCEPT !.server = TRUE]
  <1>1. db \in Connections /\ db.view \in Tables /\ Call /\ UNCHANGED <<told, adding>>
    BY Connected DEF Login
  <1>2. CASE db.view.server
    <2>1. db' = db
      BY <1>2 DEF Login, WithServer
    <2>2. Worked(db, db)
      BY <1>1, Connected, KeepsOrder DEF Worked
    <2> QED BY <1>1, <2>1, <2>2, QuietCall, Connected
  <1>3. CASE ~db.view.server
    <2>1. /\ rows \in Tables /\ Keeps(db.view, rows) /\ rows.relations = db.view.relations
          /\ rows.geo = db.view.geo /\ rows.stamp = db.view.stamp
      <3>1. /\ rows \in Tables /\ rows.users = db.view.users /\ rows.active = db.view.active
            /\ rows.relations = db.view.relations
            /\ rows.geo = db.view.geo /\ rows.stamp = db.view.stamp
        BY <1>1 DEF Tables
      <3> HIDE DEF rows
      <3> QED BY <1>1, <3>1, SameRows
    <2>2. db' = Transaction(db, rows)
      BY <1>3 DEF Login, WithServer
    <2> HIDE DEF rows
    <2> QED BY <1>1, <2>1, <2>2, RowCall
  <1> QED BY <1>2, <1>3

LEMMA UpdateUserKeeps == ASSUME IInv, NEW p \in Players, UpdateUser(p) PROVE IInv'
  <1> DEFINE rows == Known(db.view, p)
  <1>1. db \in Connections /\ db.view \in Tables /\ Call /\ UNCHANGED adding /\ db.view.server
    BY Connected DEF UpdateUser
  <1>2. /\ rows \in Tables /\ Keeps(db.view, rows) /\ rows.relations = db.view.relations
        /\ rows.geo = db.view.geo /\ rows.stamp = db.view.stamp /\ p \in rows.users
    BY <1>1, KnownRows
  <1>3. db' = Transaction(db, rows)
    BY DEF UpdateUser
  <1> HIDE DEF rows
  <1>4. CASE db.flag
    BY <1>1, <1>2, <1>3, <1>4, RowCall DEF UpdateUser
  <1>5. CASE ~db.flag
    <2>1. /\ Worked(db, db') /\ db'.view \in {db.view, rows} /\ db' \in Connections
          /\ Alone => db'.disk = rows
      BY <1>2, <1>3, <1>5, Connected, TransactionWorks DEF Quiet, Intact, Worked
    <2>2. told' = [told EXCEPT !.users = @ \cup {p}] /\ Sound
      BY <1>5 DEF UpdateUser, IInv
    <2>3. /\ told' \in [users : SUBSET Players, relations : SUBSET Players,
                        active : [Players -> Nat]]
          /\ told'.users = told.users \cup {p} /\ told'.relations = told.relations
          /\ told'.active = told.active
      BY <2>2 DEF Sound
    <2>4. Alone => Keeps(told', db'.disk)
      <3> SUFFICES ASSUME Alone PROVE Keeps(told', db'.disk)
        OBVIOUS
      <3>1. Keeps(told, db.disk) /\ Keeps(db.view, rows) /\ db.view = db.disk /\ db'.disk = rows
        BY <1>2, <1>5, <2>1, Connected DEF IInv
      <3>2. \A q \in Players : /\ told.active[q] \in Int /\ db.disk.active[q] \in Int
                               /\ rows.active[q] \in Int
        BY <1>2, <2>2, Connected, LimitsAssumption DEF Sound, Tables
      <3> QED BY <1>2, <2>3, <3>1, <3>2 DEF Keeps
    <2>5. \A q \in Players : told'.active[q] <= told.active[q] + 1
      BY <2>2, <2>3 DEF Sound
    <2> QED BY <1>1, <1>2, <2>1, <2>3, <2>4, <2>5, CallWorks, Connected
  <1> QED BY <1>4, <1>5

LEMMA InsertActivityKeeps ==
  ASSUME IInv, NEW p \in Players, InsertActivity(p) PROVE IInv'
  <1> DEFINE c    == WithUser(db, p)
             rows == [c.view EXCEPT !.active[p] = @ + 1]
  <1>1. /\ db \in Connections /\ Call /\ UNCHANGED adding /\ db.view.active[p] < MaxActive
    BY Connected DEF InsertActivity
  <1>2. /\ Worked(db, c) /\ (Quiet(c) \/ Between(c)) /\ c.flag = db.flag
        /\ c.view.relations = db.view.relations /\ c.view.active = db.view.active
        /\ c.view \in Tables /\ c \in Connections
    BY Connected, UserWorks DEF Quiet, Between
  <1>3. CASE ~(UserFound(db, p) /\ ~c.flag)
    <2>1. db' = c /\ UNCHANGED told
      BY <1>3 DEF InsertActivity
    <2> HIDE DEF c
    <2> QED BY <1>1, <1>2, <2>1, QuietCall, Connected
  <1>4. CASE UserFound(db, p) /\ ~c.flag
    <2>1. db' = Transaction(c, rows) /\ told' = [told EXCEPT !.active[p] = @ + 1]
      BY <1>4 DEF InsertActivity
    <2> HIDE DEF c
    <2>2. /\ rows \in Tables /\ rows.users = c.view.users /\ rows.relations = c.view.relations
          /\ rows.geo = c.view.geo /\ rows.stamp = c.view.stamp
          /\ rows.active = [c.view.active EXCEPT ![p] = @ + 1]
      <3>1. c.view.active[p] + 1 \in 0..MaxActive
        BY <1>1, <1>2, Connected, LimitsAssumption DEF Tables
      <3> QED BY <1>2, <3>1 DEF Tables
    <2> HIDE DEF rows
    <2>3. \A q \in Players : /\ c.view.active[q] \in Int
                             /\ rows.active[q] = c.view.active[q] + (IF q = p THEN 1 ELSE 0)
      BY <1>2, <2>2, LimitsAssumption DEF Tables
    <2>4. Keeps(c.view, rows)
      BY <2>2, <2>3 DEF Keeps
    <2>5. Quiet(c) /\ ~db.flag
      BY <1>2, <1>4 DEF Between
    <2>6. /\ Worked(c, db') /\ db'.view \in {c.view, rows} /\ db' \in Connections
          /\ other = "idle" /\ ~c.open => db'.disk = rows
      BY <2>1, <2>2, <2>4, <2>5, TransactionWorks DEF Quiet, Intact, Worked
    <2>7. Worked(db, db')
      BY <1>1, <1>2, <2>6, WorkedTwice
    <2>8. /\ told' \in [users : SUBSET Players, relations : SUBSET Players,
                        active : [Players -> Nat]]
          /\ told'.users = told.users /\ told'.relations = told.relations
          /\ \A q \in Players : /\ told.active[q] \in Nat
                                /\ told'.active[q] = told.active[q] + (IF q = p THEN 1 ELSE 0)
      <3>1. Sound
        BY DEF IInv
      <3> QED BY <2>1, <3>1 DEF Sound
    <2>9. Alone => Keeps(told', db'.disk)
      <3> SUFFICES ASSUME Alone PROVE Keeps(told', db'.disk)
        OBVIOUS
      <3>1. /\ other = "idle" /\ ~db.open /\ Keeps(told, db.disk)
            /\ Keeps(db.disk, c.disk) /\ ~c.open
        BY <2>5, <1>2, Connected DEF IInv, Worked
      <3>2. db'.disk = rows /\ c.view = c.disk
        BY <2>5, <2>6, <3>1 DEF Quiet
      <3>3. \A q \in Players : db.disk.active[q] \in Int /\ c.disk.active[q] \in Int
        BY <1>2, Connected, LimitsAssumption DEF Connections, Tables
      <3>4. ASSUME NEW q \in Players PROVE told'.active[q] <= rows.active[q]
        <4>1. told.active[q] <= db.disk.active[q] /\ db.disk.active[q] <= c.view.active[q]
          BY <3>1, <3>2 DEF Keeps
        <4> QED BY <2>3, <2>8, <3>2, <3>3, <4>1
      <3>5. told'.users \subseteq rows.users /\ told'.relations \subseteq rows.relations
        BY <2>2, <2>8, <3>1, <3>2 DEF Keeps
      <3> QED BY <3>2, <3>4, <3>5 DEF Keeps
    <2>10. \A q \in Players : told'.active[q] <= told.active[q] + 1
      BY <2>8
    <2>11. adding' \subseteq Players /\ adding' \cap db'.view.relations = {}
      BY <1>1, <1>2, <2>2, <2>6, Connected
    <2> QED BY <1>1, <2>6, <2>7, <2>8, <2>9, <2>10, <2>11, CallWorks
  <1> QED BY <1>3, <1>4

(* A transaction that only reads. *)
LEMMA GetRankKeeps == ASSUME IInv, GetRank PROVE IInv'
  <1>1. /\ db \in Connections /\ Call /\ UNCHANGED <<told, adding>> /\ ~db.flag /\ Quiet(db)
    BY Connected DEF GetRank
  <1>2. /\ Rollback(Begin(db)) \in Connections /\ ~Rollback(Begin(db)).flag
        /\ ~Rollback(Begin(db)).open
        /\ Rollback(Begin(db)).view = db.disk /\ Rollback(Begin(db)).disk = db.disk
    BY <1>1 DEF Rollback, Begin, Connections
  <1>3. /\ Commit(Begin(db)) \in Connections /\ ~Commit(Begin(db)).flag
        /\ Commit(Begin(db)).view = db.view
        /\ \/ Commit(Begin(db)).open /\ Commit(Begin(db)).disk = db.disk /\ other = "reads"
           \/ ~Commit(Begin(db)).open /\ Commit(Begin(db)).disk = db.view
    BY <1>1 DEF Commit, Begin, Connections
  <1>4. Keeps(db.disk, db.disk) /\ Keeps(db.view, db.view) /\ Keeps(db.disk, db.view)
    BY <1>1, Connected, KeepsOrder DEF Quiet
  <1>5. CASE db' = Rollback(Begin(db))
    <2>1. Worked(db, db') /\ db' \in Connections /\ db'.view.relations \subseteq db.view.relations
      BY <1>1, <1>2, <1>4, <1>5 DEF Worked, Quiet, Keeps
    <2> QED BY <1>1, <2>1, QuietCall, Connected
  <1>6. CASE db' = Commit(Begin(db))
    <2>1. Worked(db, db') /\ db' \in Connections /\ db'.view = db.view
      BY <1>1, <1>3, <1>4, <1>6 DEF Worked, Quiet
    <2> QED BY <1>1, <2>1, QuietCall, Connected
  <1> QED BY <1>5, <1>6 DEF GetRank

LEMMA GetReliabilityKeeps ==
  ASSUME IInv, NEW p \in Players, GetReliability(p) PROVE IInv'
  <1> DEFINE c == WithUser(db, p)
  <1>1. db \in Connections /\ Call /\ UNCHANGED <<told, adding>>
    BY Connected DEF GetReliability
  <1>2. /\ Worked(db, c) /\ (Quiet(c) \/ Between(c)) /\ c.flag = db.flag
        /\ c.view.relations = db.view.relations /\ c.view \in Tables /\ c \in Connections
    BY Connected, UserWorks DEF Quiet, Between
  <1>3. db' = Transaction(c, c.view) \/ db' = c
    BY DEF GetReliability
  <1> HIDE DEF c
  <1>4. CASE db' = c
    BY <1>1, <1>2, <1>4, QuietCall, Connected
  <1>5. CASE db' = Transaction(c, c.view)
    <2>1. Worked(c, db') /\ db'.view = c.view
      BY <1>2, <1>5, KeepsOrder, TransactionWorks DEF Quiet, Between
    <2>2. db' \in Connections
      BY <1>2, <2>1 DEF Worked, Quiet
    <2>3. Worked(db, db')
      BY <1>1, <1>2, <2>1, <2>2, WorkedTwice
    <2> QED BY <1>1, <1>2, <2>1, <2>2, <2>3, QuietCall, Connected
  <1> QED BY <1>3, <1>4, <1>5

LEMMA MaintainKeeps == ASSUME IInv, Maintain PROVE IInv'
  BY RowCall, Connected, KeepsOrder DEF Maintain

LEMMA CreateGroupKeeps == ASSUME IInv, CreateGroup PROVE IInv'
  <1> DEFINE rows == [db.view EXCEPT !.group = TRUE]
  <1>1. /\ rows \in Tables /\ rows.users = db.view.users /\ rows.active = db.view.active
        /\ rows.relations = db.view.relations
        /\ rows.geo = db.view.geo /\ rows.stamp = db.view.stamp
    BY Connected DEF Tables
  <1>2. Call /\ db' = Transaction(db, rows) /\ UNCHANGED <<told, adding>>
    BY DEF CreateGroup
  <1> HIDE DEF rows
  <1> QED BY <1>1, <1>2, SameRows, RowCall, Connected

LEMMA SaveMatchKeeps ==
  ASSUME IInv, NEW score \in Scores, NEW p \in Players, SaveMatch(score, p) PROVE IInv'
  <1> DEFINE c    == WithUser(db, p)
             key  == <<p, score>>
             rows == [c.view EXCEPT !.matches = @ \cup {key}]
  <1>1. db \in Connections /\ Call /\ UNCHANGED <<told, adding>>
    BY Connected DEF SaveMatch
  <1>2. /\ Worked(db, c) /\ (Quiet(c) \/ Between(c)) /\ c.flag = db.flag
        /\ c.view.relations = db.view.relations /\ c.view \in Tables /\ c \in Connections
    BY Connected, UserWorks DEF Quiet, Between
  <1>3. db' = db \/ db' = c \/ db' = Transaction(c, rows)
    BY DEF SaveMatch
  <1>4. key \in Players \X Scores
    OBVIOUS
  <1> HIDE DEF c, key
  <1>5. CASE db' = db
    <2>1. Worked(db, db')
      BY <1>1, <1>5, KeepsOrder, Connected DEF Worked
    <2> QED BY <1>1, <1>5, <2>1, QuietCall, Connected
  <1>6. CASE db' = c
    BY <1>1, <1>2, <1>6, QuietCall, Connected
  <1>7. CASE db' = Transaction(c, rows)
    <2>1. /\ rows \in Tables /\ rows.users = c.view.users /\ rows.active = c.view.active
          /\ rows.relations = c.view.relations
          /\ rows.geo = c.view.geo /\ rows.stamp = c.view.stamp
      BY <1>2, <1>4 DEF Tables
    <2> HIDE DEF rows
    <2>2. Worked(c, db') /\ db'.view \in {c.view, rows}
      BY <1>2, <1>7, <2>1, SameRows, TransactionWorks DEF Quiet, Between, Intact
    <2>3. db' \in Connections
      BY <1>2, <2>2 DEF Worked, Quiet
    <2>4. Worked(db, db')
      BY <1>1, <1>2, <2>2, <2>3, WorkedTwice
    <2> QED BY <1>1, <1>2, <2>1, <2>2, <2>3, <2>4, QuietCall, Connected
  <1> QED BY <1>3, <1>5, <1>6, <1>7

LEMMA CheckRelationKeeps ==
  ASSUME IInv, NEW p \in Players, CheckRelation(p) PROVE IInv'
  <1>1. db \in Connections /\ Call /\ UNCHANGED told /\ db' = db
    BY Connected DEF CheckRelation
  <1>2. adding' \subseteq Players /\ adding' \cap db'.view.relations = {}
    BY <1>1 DEF CheckRelation
  <1>3. Worked(db, db')
    BY <1>1, KeepsOrder, Connected DEF Worked
  <1> QED BY <1>1, <1>2, <1>3, QuietCall

-----------------------------------------------------------------------------
(***************************************************************************)
(* The insertion of a relation: nobody has added it meanwhile, so that the *)
(* transaction is not left open.                                           *)
(***************************************************************************)
LEMMA CreateRelationKeeps ==
  ASSUME IInv, NEW p \in Players, CreateRelation(p) PROVE IInv'
  <1> DEFINE c    == WithUser(db, p)
             rows == Related(c.view, p)
             d    == Begin(c)
             e    == Commit(Execute(d, Related(d.view, p)))
  <1>1. /\ db \in Connections /\ p \in adding /\ adding' = {} /\ running /\ Sound
        /\ UNCHANGED <<updater, running, other, limits>>
    BY Connected DEF CreateRelation, IInv
  <1>2. /\ Worked(db, c) /\ (Quiet(c) \/ Between(c)) /\ c.flag = db.flag
        /\ c.view.relations = db.view.relations /\ c.view \in Tables /\ c \in Connections
    BY Connected, UserWorks DEF Quiet, Between
  <1>3. d.view = c.view
    BY <1>2 DEF Begin, Connections
  <1>4. p \notin d.view.relations
    BY <1>1, <1>2, <1>3, Connected
  <1>5. ~c.flag => e = Transaction(c, rows)
    BY <1>3 DEF Transaction
  <1>6. /\ c.flag => db' = c /\ told' = told
        /\ ~c.flag => /\ db' = e
                      /\ told' = IF p \in e.view.relations
                                 THEN [told EXCEPT !.relations = @ \cup {p}] ELSE told
    BY <1>4 DEF CreateRelation
  <1>7. /\ rows \in Tables /\ rows.users = c.view.users /\ rows.active = c.view.active
        /\ c.view.relations \subseteq rows.relations
        /\ rows.geo = c.view.geo /\ rows.stamp = c.view.stamp
    BY <1>2 DEF Related, Tables
  <1> HIDE DEF c, d, e, rows
  <1>8. Keeps(c.view, rows)
    BY <1>2, <1>7, KeepsOrder DEF Keeps
  <1>9. \A q \in Players : told.active[q] \in Int
    BY <1>1 DEF Sound
  <1>10. CASE db.flag
    <2>1. db' = db /\ told' = told
      BY <1>2, <1>6, <1>10 DEF Worked
    <2> QED BY <1>1, <2>1
            DEF IInv, Sound, Quiet, Between, Alone, limits, Keeps
  <1>11. CASE ~db.flag
    <2>1. Quiet(c) /\ Quiet(db)
      BY <1>2, <1>11, Connected DEF Between
    <2>2. /\ Worked(c, db') /\ db'.view \in {c.view, rows} /\ Quiet(db')
          /\ other = "idle" /\ ~c.open => db'.disk = rows /\ db'.view = rows
      BY <1>2, <1>5, <1>6, <1>7, <1>8, <1>11, <2>1, TransactionWorks DEF Quiet, Intact, Worked
    <2>3. Worked(db, db')
      BY <1>1, <1>2, <2>2, WorkedTwice DEF Quiet
    <2>4. /\ told' \in [users : SUBSET Players, relations : SUBSET Players,
                        active : [Players -> Nat]]
          /\ told'.users = told.users /\ told'.active = told.active
          /\ told'.relations \subseteq told.relations \cup db'.view.relations
      BY <1>1, <1>2, <1>6, <1>11 DEF Sound
    <2>5. Alone => /\ other = "idle" /\ ~db'.open /\ db'.view = db'.disk
                   /\ Keeps(told, db.disk) /\ Keeps(db.disk, db'.disk)
      BY <1>11, <2>2, <2>3, Connected DEF IInv, Worked, Quiet
    <2>6. Alone => Keeps(told', db'.disk)
      <3> SUFFICES ASSUME Alone PROVE Keeps(told', db'.disk)
        OBVIOUS
      <3>1. ASSUME NEW q \in Players PROVE told.active[q] <= db'.disk.active[q]
        <4>1. told.active[q] <= db.disk.active[q] /\ db.disk.active[q] <= db'.disk.active[q]
          BY <2>5 DEF Keeps
        <4>2. db.disk.active[q] \in Int /\ db'.disk.active[q] \in Int
          BY <2>1, <2>2, LimitsAssumption DEF Quiet, Connections, Tables
        <4> QED BY <1>9, <4>1, <4>2
      <3> QED BY <2>4, <2>5, <3>1 DEF Keeps
    <2>7. Sound'
      BY <1>1, <2>4 DEF Sound, limits
    <2>8. updater # "reading" /\ updater' # "reading"
      BY <1>1, <1>11 DEF IInv, Between
    <2>9. /\ Quiet(db)' = Quiet(db') /\ (Alone' <=> Alone) /\ other' = other
          /\ Keeps(told, db.disk)' = Keeps(told', db'.disk)
      BY <1>1 DEF Alone, limits, Quiet, Keeps
    <2>10. db'.open \in BOOLEAN /\ db'.flag = FALSE
      BY <2>2 DEF Quiet, Connections
    <2> QED BY <1>1, <2>2, <2>5, <2>6, <2>7, <2>8, <2>9, <2>10 DEF IInv
  <1> QED BY <1>10, <1>11

-----------------------------------------------------------------------------
(* The update of the countries, the user who cancels it, and the crash.    *)
LEMMA RollbackWorks ==
  ASSUME NEW c, Quiet(c) \/ Between(c)
  PROVE  /\ Quiet(Rollback(c)) /\ Rollback(c).disk = c.disk /\ ~Rollback(c).open
         /\ Rollback(c).view.relations \subseteq c.view.relations
  <1> DEFINE d == Rollback(c)
  <1>1. c \in Connections /\ Intact(c.disk) /\ Keeps(c.disk, c.view)
    BY DEF Quiet, Between
  <1>2. d \in Connections /\ ~d.flag /\ ~d.open /\ d.view = c.disk /\ d.disk = c.disk
    BY <1>1 DEF Rollback, Connections
  <1>3. Keeps(c.disk, c.disk)
    BY <1>1, KeepsOrder DEF Connections
  <1> HIDE DEF d
  <1> QED BY <1>1, <1>2, <1>3 DEF Quiet, Keeps, d

LEMMA CancelWorks ==
  ASSUME IInv
  PROVE  LET d == Cancelled(db)
         IN /\ Quiet(d) /\ d.disk = db.disk /\ d.view.relations \subseteq db.view.relations
            /\ Alone => ~d.open
  BY RollbackWorks, Connected DEF Cancelled

(* Steps that end in a quiet connection, with nothing lost. *)
LEMMA BackToQuiet ==
  ASSUME IInv, Quiet(db'), Keeps(db.disk, db'.disk), Alone => ~db'.open,
         updater' \in {"none", "opening", "freed"}, running' \in BOOLEAN, ~running' => updater' = "none",
         adding' \subseteq adding, db'.view.relations \subseteq db.view.relations,
         UNCHANGED <<other, told, calls, others>>, crashes' \in Nat
  PROVE  IInv'
  <1>1. Sound'
    BY DEF IInv, Sound
  <1>2. Alone => Keeps(told, db'.disk)
    <2> SUFFICES ASSUME Alone PROVE Keeps(told, db'.disk)
      OBVIOUS
    <2>1. Keeps(told, db.disk) /\ Sound
      BY DEF IInv
    <2>2. \A q \in Players : /\ told.active[q] \in Int /\ db.disk.active[q] \in Int
                             /\ db'.disk.active[q] \in Int
      BY <2>1, Connected, LimitsAssumption DEF Sound, Tables, Quiet, Connections
    <2> QED BY <2>1, <2>2 DEF Keeps
  <1>3. /\ Quiet(db)' = Quiet(db') /\ (Alone' <=> Alone)
        /\ Keeps(told, db.disk)' = Keeps(told, db'.disk)
    BY DEF Alone, Quiet, Keeps
  <1>4. db'.open \in BOOLEAN /\ db'.flag = FALSE
    BY DEF Quiet, Connections
  <1> QED BY <1>1, <1>2, <1>3, <1>4 DEF IInv

LEMMA UpdateEndsQuietly ==
  ASSUME IInv, OpenFails \/ ReadFails \/ UserCancels PROVE IInv'
  <1>1. /\ db' = Cancelled(db) /\ updater' \in {"none", "freed"} /\ running /\ running' = running
        /\ UNCHANGED <<adding, other, told, limits>>
    BY DEF OpenFails, ReadFails, UserCancels, Callback
  <1>2. Quiet(db') /\ Keeps(db.disk, db'.disk)
    BY <1>1, CancelWorks, Connected, KeepsOrder
  <1>3. crashes \in Nat
    BY DEF IInv, Sound
  <1> QED BY <1>1, <1>2, <1>3, CancelWorks, BackToQuiet DEF limits

LEMMA OnOpenKeeps == ASSUME IInv, OnOpen PROVE IInv'
  <1> DEFINE b == Begin(db)
  <1>1. /\ updater = "opening" /\ running /\ running' = running /\ Quiet(db) /\ ~db.flag
        /\ UNCHANGED <<adding, other, told, limits>>
    BY DEF OnOpen, Callback, IInv, Quiet
  <1>2. /\ b \in Connections /\ b.flag /\ b.open /\ b.view = db.view /\ b.disk = db.disk
    BY <1>1 DEF Begin, Connections, Quiet
  <1>3. IF other = "writes"
        THEN updater' = "freed" /\ db' = Cancelled(b)
        ELSE /\ updater' = "reading"
             /\ db' = Execute(b, [b.view EXCEPT !.geo = "none"])
    BY <1>1 DEF OnOpen
  <1> HIDE DEF b
  <1>4. CASE other = "writes"
    <2>1. db' \in Connections /\ ~db'.flag /\ ~db'.open /\ db'.view = db.disk /\ db'.disk = db.disk
      BY <1>2, <1>3, <1>4 DEF Cancelled, Rollback, Connections
    <2>2. Quiet(db') /\ Keeps(db.disk, db'.disk) /\ db'.view.relations \subseteq db.view.relations
      BY <1>1, <2>1, Connected, KeepsOrder DEF Quiet, Keeps
    <2>3. crashes \in Nat /\ ~db'.open
      BY <2>1 DEF IInv, Sound
    <2>4. updater' = "freed"
      BY <1>3, <1>4
    <2> QED BY <1>1, <2>2, <2>3, <2>4, BackToQuiet DEF limits
  <1>5. CASE other # "writes"
    <2> DEFINE rows == [db.view EXCEPT !.geo = "none"]
    <2>1. /\ rows \in Tables /\ rows.geo = "none" /\ rows.users = db.view.users
          /\ rows.relations = db.view.relations /\ rows.active = db.view.active
      BY Connected DEF Tables
    <2>2. db' = [b EXCEPT !.view = rows] /\ updater' = "reading"
      BY <1>2, <1>3, <1>5 DEF Execute
    <2> HIDE DEF rows
    <2>3. /\ db' \in Connections /\ db'.flag /\ db'.open /\ db'.view = rows /\ db'.disk = db.disk
      BY <1>2, <2>1, <2>2 DEF Connections
    <2>4. Keeps(db.disk, rows)
      BY <1>1, <2>1 DEF Quiet, Keeps
    <2>5. Between(db')
      BY <1>1, <2>1, <2>3, <2>4 DEF Between, Quiet
    <2>6. /\ Between(db)' = Between(db') /\ (Alone' <=> Alone)
          /\ Keeps(told, db.disk)' = Keeps(told, db.disk) /\ db'.open = db'.flag
      BY <1>1, <2>3, Zenon DEF Alone, limits, Between, Keeps, Connections
    <2>7. Sound'
      BY <1>1, <2>2 DEF IInv, Sound, limits
    <2> QED BY <1>1, <1>5, <2>1, <2>2, <2>3, <2>5, <2>6, <2>7 DEF IInv
  <1> QED BY <1>4, <1>5

LEMMA OnReadKeeps == ASSUME IInv, OnRead PROVE IInv'
  <1> DEFINE rows == [db.view EXCEPT !.geo = "part"]
  <1>1. /\ updater = "reading" /\ Between(db) /\ other # "writes"
        /\ UNCHANGED <<updater, adding, running, other, told, limits>>
        /\ db' = Execute(db, rows)
    BY DEF OnRead, Callback, IInv, SetGeoIP
  <1>2. /\ rows \in Tables /\ rows.geo = "part" /\ rows.users = db.view.users
        /\ rows.relations = db.view.relations /\ rows.active = db.view.active
    BY Connected DEF Tables
  <1>3. db' = [db EXCEPT !.view = rows]
    BY <1>1 DEF Execute, Between
  <1> HIDE DEF rows
  <1>4. /\ db' \in Connections /\ db'.view = rows /\ db'.disk = db.disk
        /\ db'.flag = db.flag /\ db'.open = db.open
    BY <1>1, <1>2, <1>3 DEF Connections, Between
  <1>5. Between(db')
    BY <1>1, <1>2, <1>4 DEF Between, Keeps
  <1>6. /\ Between(db)' = Between(db') /\ (Alone' <=> Alone)
        /\ Keeps(told, db.disk)' = Keeps(told, db.disk)
    BY <1>1, <1>4 DEF Alone, limits, Between, Keeps
  <1>7. Sound'
    BY <1>1 DEF IInv, Sound, limits
  <1> QED BY <1>1, <1>2, <1>4, <1>5, <1>6, <1>7 DEF IInv

LEMMA OnEndOfFileKeeps == ASSUME IInv, OnEndOfFile PROVE IInv'
  <1> DEFINE rows == [db.view EXCEPT !.geo = "new", !.stamp = "new"]
             e    == Execute(db, rows)
  <1>1. /\ updater = "reading" /\ Between(db) /\ other # "writes" /\ updater' = "none"
        /\ running /\ UNCHANGED <<adding, running, other, told, limits>>
        /\ db' = Commit(e)
    BY DEF OnEndOfFile, Callback, IInv
  <1>2. /\ rows \in Tables /\ Intact(rows) /\ rows.users = db.view.users
        /\ rows.relations = db.view.relations /\ rows.active = db.view.active
    BY Connected DEF Tables, Intact
  <1>3. e = [db EXCEPT !.view = rows]
    BY <1>1 DEF Execute, Between
  <1> HIDE DEF rows, e
  <1>4. /\ e \in Connections /\ e.view = rows /\ e.disk = db.disk /\ e.open
    BY <1>1, <1>2, <1>3 DEF Connections, Between
  <1>5. /\ db' \in Connections /\ ~db'.flag /\ db'.view = rows
        /\ \/ db'.open /\ db'.disk = db.disk /\ other = "reads"
           \/ ~db'.open /\ db'.disk = rows
    BY <1>1, <1>4 DEF Commit, Connections, Between
  <1>6. /\ Keeps(db.disk, db.disk) /\ Keeps(rows, rows) /\ Keeps(db.disk, rows)
    BY <1>1, <1>2, Connected, KeepsOrder DEF Between, Keeps
  <1>7. Quiet(db') /\ Keeps(db.disk, db'.disk) /\ (Alone => ~db'.open)
    <2>1. db'.disk = db.disk \/ db'.disk = rows
      BY <1>5
    <2>2. Intact(db'.disk) /\ Keeps(db'.disk, rows) /\ Keeps(db.disk, db'.disk)
      BY <1>1, <1>2, <1>6, <2>1 DEF Between
    <2>3. ~db'.open => db'.view = db'.disk
      BY <1>5
    <2> QED BY <1>2, <1>5, <2>2, <2>3 DEF Quiet, IInv
  <1>8. crashes \in Nat
    BY DEF IInv, Sound
  <1> QED BY <1>1, <1>2, <1>5, <1>7, <1>8, BackToQuiet DEF limits

LEMMA StartKeeps == ASSUME IInv, Start PROVE IInv'
  <1>1. /\ Quiet(db) /\ db' = db /\ updater' \in {"none", "opening"} /\ running'
        /\ UNCHANGED <<adding, other, told, limits>>
    BY DEF Start, Updaters, IInv, Sound
  <1>2. Keeps(db.disk, db'.disk) /\ crashes \in Nat /\ ~db.flag /\ running' \in BOOLEAN
    BY <1>1, Connected, KeepsOrder DEF IInv, Sound, Quiet, Start
  <1> QED BY <1>1, <1>2, Connected, BackToQuiet DEF limits

LEMMA CrashKeeps == ASSUME IInv, Crash PROVE IInv'
  <1>1. /\ db' = Rollback(db) /\ updater' = "none" /\ running' = FALSE /\ adding' = {}
        /\ UNCHANGED <<other, told, calls, others>> /\ crashes' = crashes - 1 /\ crashes > 0
    BY DEF Crash
  <1>2. crashes' \in Nat
    BY <1>1 DEF IInv, Sound
  <1>3. /\ Quiet(db') /\ db'.disk = db.disk /\ ~db'.open
        /\ db'.view.relations \subseteq db.view.relations
    BY <1>1, RollbackWorks, Connected
  <1>4. Keeps(db.disk, db'.disk)
    BY <1>3, Connected, KeepsOrder
  <1> QED BY <1>1, <1>2, <1>3, <1>4, BackToQuiet

(* Another program adds users, or takes or releases a lock. *)
LEMMA OtherKeeps == ASSUME "relations" \notin Interference, IInv, OtherStep PROVE IInv'
  <1>1. /\ others > 0 /\ others' = others - 1 /\ others \in Nat /\ others <= MaxOthers
        /\ UNCHANGED <<updater, adding, running, told, calls, crashes>>
    BY DEF OtherStep, IInv, Sound
  <1>2. others' \in Nat /\ others' <= MaxOthers /\ ~Alone'
    BY <1>1, LimitsAssumption DEF Alone
  <1>3. ASSUME UNCHANGED db, other' \in {"idle", "reads", "writes"},
               other' = "writes" => db.view = db.disk
        PROVE  IInv'
    <2>1. Sound'
      BY <1>1, <1>2, <1>3 DEF IInv, Sound
    <2>2. updater = "reading" => other' # "writes"
      BY <1>3 DEF IInv, Between, Intact
    <2> QED BY <1>1, <1>2, <1>3, <2>1, <2>2 DEF IInv, Quiet, Between
  <1>4. ASSUME db.view = db.disk, UNCHANGED other,
               NEW p \in Players, NEW table \in Interference \cap {"users", "relations"},
               LET rows == [db.disk EXCEPT ![table] = @ \cup {p}, !.users = @ \cup {p},
                                           !.server = TRUE, !.group = @ \/ table = "relations"]
               IN db' = [db EXCEPT !.disk = rows, !.view = rows]
        PROVE  IInv'
    <2> DEFINE group == db.disk.group \/ FALSE
               rows  == [db.disk EXCEPT !.users = @ \cup {p}, !.server = TRUE, !.group = group]
    <2>1. table = "users"
      BY <1>4
    <2>2. Quiet(db) /\ updater # "reading" /\ db.disk \in Tables /\ db \in Connections
      BY <1>4, Connected DEF IInv, Between, Intact
    <2>3. group \in BOOLEAN
      OBVIOUS
    <2>4. db' = [db EXCEPT !.disk = rows, !.view = rows]
      <3>1. [db.disk EXCEPT !["users"] = @ \cup {p}, !.users = @ \cup {p},
                            !.server = TRUE, !.group = @ \/ "users" = "relations"] = rows
        BY <2>2 DEF Tables
      <3> QED BY <1>4, <2>1, <3>1
    <2> HIDE DEF group
    <2>5. /\ rows \in Tables /\ rows.users = db.disk.users \cup {p}
          /\ rows.relations = db.disk.relations /\ rows.active = db.disk.active
          /\ rows.geo = db.disk.geo /\ rows.stamp = db.disk.stamp
      BY <2>2, <2>3 DEF Tables
    <2> HIDE DEF rows
    <2>6. /\ db' \in Connections /\ db'.view = rows /\ db'.disk = rows /\ db'.flag = db.flag
      BY <2>2, <2>4, <2>5 DEF Connections
    <2>7. Quiet(db')
      BY <2>2, <2>5, <2>6, KeepsOrder DEF Quiet, Intact
    <2>8. Sound'
      BY <1>1, <1>2, <1>4 DEF IInv, Sound
    <2>9. Quiet(db)' = Quiet(db')
      BY DEF Quiet
    <2> QED BY <1>1, <1>2, <1>4, <2>2, <2>5, <2>6, <2>7, <2>8, <2>9 DEF IInv
  <1>5. CASE /\ other = "idle" /\ db.view = db.disk /\ UNCHANGED other
             /\ \E p \in Players, table \in Interference \cap {"users", "relations"} :
                  LET rows == [db.disk EXCEPT ![table] = @ \cup {p}, !.users = @ \cup {p},
                                              !.server = TRUE,
                                              !.group = @ \/ table = "relations"]
                  IN db' = [db EXCEPT !.disk = rows, !.view = rows]
    BY <1>4, <1>5
  <1> QED BY <1>3, <1>5 DEF OtherStep

-----------------------------------------------------------------------------
LEMMA NextKeeps == ASSUME "relations" \notin Interference, IInv, [Next]_vars PROVE IInv'
  <1>1. CASE UNCHANGED vars
    BY <1>1 DEF vars, limits, IInv, Sound, Quiet, Between, Alone, Keeps
  <1>2. CASE Update
    BY <1>2, UpdateEndsQuietly, OnOpenKeeps, OnReadKeeps, OnEndOfFileKeeps DEF Update
  <1>3. CASE UserCancels
    BY <1>3, UpdateEndsQuietly
  <1> QED
    BY <1>1, <1>2, <1>3, UpdateUserKeeps, InsertActivityKeeps, GetReliabilityKeeps,
       CheckRelationKeeps, CreateRelationKeeps, SaveMatchKeeps, LoginKeeps, GetRankKeeps,
       MaintainKeeps, CreateGroupKeeps, StartKeeps, CrashKeeps, OtherKeeps
    DEF Next

LEMMA InitKeeps == Init => IInv
  <1> SUFFICES ASSUME Init PROVE IInv
    OBVIOUS
  <1> DEFINE rows == [server |-> FALSE, group |-> FALSE, users |-> {}, relations |-> {},
                      matches |-> {}, active |-> Nobody, geo |-> "old", stamp |-> "old"]
  <1>1. Nobody \in [Players -> 0..MaxActive] /\ \A p \in Players : Nobody[p] = 0
    BY LimitsAssumption DEF Nobody
  <1>2. rows \in Tables /\ Intact(rows) /\ rows.users = {} /\ rows.relations = {}
        /\ rows.active = Nobody
    BY <1>1 DEF Tables, Intact
  <1>3. db = [flag |-> FALSE, open |-> FALSE, view |-> rows, disk |-> rows]
    BY DEF Init
  <1> HIDE DEF rows
  <1>4. Quiet(db) /\ db.view = rows /\ db.disk = rows /\ ~db.open /\ ~db.flag /\ db.open = db.flag
    BY <1>2, <1>3, KeepsOrder DEF Quiet, Connections
  <1>5. /\ told.users = {} /\ told.relations = {} /\ told.active = Nobody
        /\ told = [users |-> {}, relations |-> {}, active |-> Nobody]
    BY DEF Init
  <1>6. Sound
    <2>1. Nobody \in [Players -> Nat]
      BY <1>1
    <2>2. /\ told \in [users : SUBSET Players, relations : SUBSET Players,
                       active : [Players -> Nat]]
          /\ \A p \in Players : told.active[p] = 0
      BY <1>1, <1>5, <2>1
    <2>3. \A p \in Players : told.active[p] + calls <= MaxCalls
      <3>1. calls = MaxCalls /\ MaxCalls \in Nat
        BY LimitsAssumption DEF Init
      <3>2. 0 + MaxCalls = MaxCalls /\ MaxCalls <= MaxCalls
        BY <3>1
      <3> QED BY <2>2, <3>1, <3>2
    <2>4. /\ calls \in Nat /\ others \in Nat /\ crashes \in Nat /\ others <= MaxOthers
      BY LimitsAssumption DEF Init
    <2>5. /\ updater = "none" /\ adding = {} /\ running = FALSE /\ other = "idle"
      BY DEF Init
    <2>6. running \in BOOLEAN
      BY <2>5, Zenon
    <2> QED BY <2>2, <2>3, <2>4, <2>5, <2>6 DEF Sound
  <1>7. Keeps(told, db.disk)
    BY <1>1, <1>2, <1>4, <1>5 DEF Keeps
  <1> QED BY <1>2, <1>4, <1>6, <1>7 DEF Init, IInv

(***************************************************************************)
(* The connection is quiet or between two callbacks, whatever is called,   *)
(* killed or cancelled, and whatever other programs do but adding          *)
(* relations.                                                              *)
(***************************************************************************)
THEOREM AlwaysQuietOrBetween == ASSUME "relations" \notin Interference PROVE Spec => []IInv
  <1>1. IInv /\ [Next]_vars => IInv'
    BY NextKeeps
  <1> QED BY <1>1, InitKeeps, PTL DEF Spec

(* The database and the updater stay within their types.                   *)
THEOREM DatabaseTypes == ASSUME "relations" \notin Interference PROVE Spec => []TypeOK
  <1>1. ASSUME IInv PROVE TypeOK
    <2>1. Sound /\ db \in Connections
      BY <1>1, Connected DEF IInv
    <2>2. told.active \in [Players -> 0..MaxCalls]
      BY <2>1, LimitsAssumption DEF Sound
    <2> QED BY <2>1, <2>2 DEF Sound, TypeOK, Connections
  <1> QED BY <1>1, AlwaysQuietOrBetween, PTL

(* What callers were told to be stored is on the disk.                     *)
THEOREM PromisesKept == ASSUME "relations" \notin Interference PROVE Spec => []KeepsPromises
  <1>1. IInv => KeepsPromises
    BY DEF IInv, KeepsPromises, Keeps
  <1> QED BY <1>1, AlwaysQuietOrBetween, PTL

(* No operation leaves its transaction open.                               *)
THEOREM NoLeak == ASSUME "relations" \notin Interference PROVE Spec => []NothingLeaks
  <1>1. IInv => NothingLeaks
    BY Connected DEF IInv, NothingLeaks
  <1> QED BY <1>1, AlwaysQuietOrBetween, PTL

(* The countries are replaced as a whole or not at all.                    *)
THEOREM CountriesReplacedWhole ==
  ASSUME "relations" \notin Interference PROVE Spec => []CountriesWhole
  <1>1. IInv => CountriesWhole
    BY DEF IInv, Quiet, Between, Intact, CountriesWhole
  <1> QED BY <1>1, AlwaysQuietOrBetween, PTL
=============================================================================
