------------------------------- MODULE Database -------------------------------
(***************************************************************************)
(* The database of the archive (gibbon-database.c) and the updater of its  *)
(* table of countries (gibbon-geo-ip-updater.c).                           *)
(*                                                                         *)
(* Every operation opens a transaction of its own, does its work and       *)
(* commits; a flag says that a transaction is open.  All of it is done by  *)
(* one thread, but the update of the countries is one transaction spread   *)
(* over many callbacks, and another Gibbon may use the same database.      *)
(*                                                                         *)
(* The tables hold one server, one login and one group of his.  A match    *)
(* has one opponent.  What SQLite does with a statement is modelled by its *)
(* outcome: a write fails while somebody else writes, a commit fails while *)
(* somebody else reads, and a transaction inside another one is refused.   *)
(* Left out: statements that cannot be prepared, a full disk, the creation *)
(* of the tables, and the hourly deletion of activities of 100 days ago.   *)
(***************************************************************************)
EXTENDS Integers

CONSTANTS
  Players,       \* names of players
  Scores,        \* final scores of black
  Interference,  \* what another program does with the database: a subset of
                 \* {"users", "relations", "reads", "writes"}
  MayCancel,     \* TRUE: the user may cancel the update of the countries
  MaxCalls,      \* bound on the operations
  MaxActive,     \* bound on the activities of a player
  MaxOthers,     \* bound on the steps of other programs
  MaxCrashes     \* bound on how often the program is killed

ASSUME InterferenceAssumption ==
  Interference \subseteq {"users", "relations", "reads", "writes"}
ASSUME CancelAssumption == MayCancel \in BOOLEAN
ASSUME LimitsAssumption ==
  MaxCalls \in Nat /\ MaxActive \in Nat /\ MaxOthers \in Nat /\ MaxCrashes \in Nat

VARIABLES
  db,       \* the connection: flag is in_transaction, open SQLite's transaction,
            \* view what it reads, disk what is committed
  updater,  \* the updater and the callback it waits for; "freed": the callback
            \* is still to come, the updater is gone
  adding,   \* relations being added: not found, not inserted yet
  running,  \* the program runs
  other,    \* the lock of another program, or "idle"
  told,     \* what callers were told to be stored
  calls, others, crashes

limits == <<calls, others, crashes>>
vars   == <<db, updater, adding, running, other, told, limits>>

-----------------------------------------------------------------------------
(* gibbon_database_begin_transaction(), with the flag not set. *)
Begin(c) == [c EXCEPT !.flag = TRUE, !.open = TRUE]

(* A statement that writes: refused while somebody else writes. *)
Execute(c, rows) ==
  IF other = "writes" THEN c
  ELSE IF c.open THEN [c EXCEPT !.view = rows]
  ELSE [c EXCEPT !.view = rows, !.disk = rows]

(* gibbon_database_commit(), which does not notice that SQLite refuses to. *)
Commit(c) ==
  IF c.view # c.disk /\ other = "reads"
  THEN [c EXCEPT !.flag = FALSE]
  ELSE [c EXCEPT !.flag = FALSE, !.open = FALSE, !.disk = c.view]

(* Mutant: the flag is not reset. *)
Rollback_Flag(c) == [c EXCEPT !.open = FALSE, !.view = c.disk]

(* gibbon_database_rollback() *)
Rollback(c) == [c EXCEPT !.flag = FALSE, !.open = FALSE, !.view = c.disk]

(* Begin, write, commit.  Nothing happens inside of another transaction.   *)
Transaction(c, rows) ==
  IF c.flag THEN c ELSE Commit(Execute(Begin(c), rows))

(* gibbon_database_get_server_id(): an unknown server is created. *)
WithServer(c) == IF c.view.server THEN c ELSE Transaction(c, [c.view EXCEPT !.server = TRUE])

(* A user belongs to a server. *)
Known(rows, p) == IF rows.server THEN [rows EXCEPT !.users = @ \cup {p}] ELSE rows

(* gibbon_database_get_user_id(): an unknown user is created. *)
WithUser(c, p) == IF p \in c.view.users THEN c ELSE Transaction(c, Known(c.view, p))

(* It finds the user, or tells why not. *)
UserFound(c, p) == p \in WithUser(c, p).view.users

-----------------------------------------------------------------------------
Call ==
  /\ running /\ calls > 0 /\ calls' = calls - 1
  /\ UNCHANGED <<updater, running, other, others, crashes>>

(* gibbon_archive_login(): the server and the user himself, who is not one *)
(* of Players, but in the same table.                                      *)
Login ==
  /\ Call
  /\ db' = WithServer(db)
  /\ UNCHANGED <<told, adding>>

(* gibbon_database_update_user_full(); a known user is left as he is. *)
UpdateUser(p) ==
  /\ Call /\ db.view.server
  /\ db' = Transaction(db, Known(db.view, p))
  /\ told' = IF db.flag THEN told ELSE [told EXCEPT !.users = @ \cup {p}]
  /\ UNCHANGED adding

(* Mutant: the activity is written without a transaction of its own. *)
InsertActivity_Bare(p) ==
  /\ Call /\ db.view.server /\ db.view.active[p] < MaxActive
  /\ LET c == WithUser(db, p) IN
     IF UserFound(db, p)
     THEN /\ db' = Execute(c, [c.view EXCEPT !.active[p] = @ + 1])
          /\ told' = [told EXCEPT !.active[p] = @ + 1]
     ELSE db' = c /\ UNCHANGED told
  /\ UNCHANGED adding

(* gibbon_database_insert_activity() *)
InsertActivity(p) ==
  /\ Call /\ db.view.server /\ db.view.active[p] < MaxActive
  /\ LET c == WithUser(db, p) IN
     IF UserFound(db, p) /\ ~c.flag
     THEN /\ db' = Transaction(c, [c.view EXCEPT !.active[p] = @ + 1])
          /\ told' = [told EXCEPT !.active[p] = @ + 1]
     ELSE db' = c /\ UNCHANGED told
  /\ UNCHANGED adding

(* gibbon_database_get_rank(): a transaction that only reads; when there   *)
(* is no rank, it is rolled back.                                          *)
GetRank ==
  /\ Call /\ ~db.flag
  /\ \E found \in BOOLEAN : db' = IF found THEN Commit(Begin(db)) ELSE Rollback(Begin(db))
  /\ UNCHANGED <<told, adding>>

(* gibbon_database_get_reliability(): it creates the user, too. *)
GetReliability(p) ==
  /\ Call /\ db.view.server
  /\ LET c == WithUser(db, p)
     IN db' = IF UserFound(db, p) THEN Transaction(c, c.view) ELSE c
  /\ UNCHANGED <<told, adding>>

(* gibbon_database_maintain(); no activity is that old. *)
Maintain ==
  /\ Call
  /\ db' = Transaction(db, db.view)
  /\ UNCHANGED <<told, adding>>

(* gibbon_database_create_group() *)
CreateGroup ==
  /\ Call /\ ~db.view.group
  /\ db' = Transaction(db, [db.view EXCEPT !.group = TRUE])
  /\ UNCHANGED <<told, adding>>

(***************************************************************************)
(* gibbon_archive_save_match() and gibbon_database_save_match(): a match   *)
(* that is there already is not saved.  The archive passes the score of    *)
(* black where the database expects the date that tells matches apart.     *)
(***************************************************************************)
SaveMatch(score, p) ==
  /\ Call /\ db.view.server
  /\ LET c   == WithUser(db, p)
         key == <<p, score>>
     IN CASE key \in db.view.matches -> UNCHANGED db
          [] key \notin db.view.matches /\ ~UserFound(db, p) -> db' = c
          [] OTHER -> db' = Transaction(c, [c.view EXCEPT !.matches = @ \cup {key}])
  /\ UNCHANGED <<told, adding>>

(* gibbon_archive_create_relation(): a relation that exists is not added.  *)
CheckRelation(p) ==
  /\ Call /\ db.view.server /\ adding = {}
  /\ adding' = IF p \in db.view.relations THEN {} ELSE {p}
  /\ UNCHANGED <<db, told>>

(* A relation belongs to a group and a user. *)
Related(rows, p) ==
  IF rows.group /\ p \in rows.users THEN [rows EXCEPT !.relations = @ \cup {p}] ELSE rows

(* gibbon_database_create_relation(): it leaves the transaction open when  *)
(* the relation has appeared in the meantime.                              *)
CreateRelation(p) ==
  /\ running /\ p \in adding /\ adding' = {}
  /\ LET c == WithUser(db, p)
         d == Begin(c)
         e == Commit(Execute(d, Related(d.view, p)))
     IN CASE c.flag -> db' = c /\ UNCHANGED told
          [] ~c.flag /\ p \in d.view.relations ->
               /\ db' = d
               /\ told' = [told EXCEPT !.relations = @ \cup {p}]
          [] OTHER ->
               /\ db' = e
               /\ told' = IF p \in e.view.relations
                          THEN [told EXCEPT !.relations = @ \cup {p}] ELSE told
  /\ UNCHANGED <<updater, running, other, limits>>

-----------------------------------------------------------------------------
(* gibbon_database_check_ip2country(): when the countries are old, the     *)
(* user is asked; the updater starts to open the file.                     *)
Updaters(rows) == IF rows.stamp = "old" THEN {"opening", "none"} ELSE {"none"}

(* gibbon_database_new(): the program starts. *)
Start ==
  /\ ~running /\ running' = TRUE
  /\ updater' \in Updaters(db.view)
  /\ UNCHANGED <<db, adding, other, told, limits>>

(* gibbon_database_cancel_geo_ip_update(); the updater is gone, too. *)
Cancelled(c) == IF c.flag THEN Rollback(c) ELSE c

Callback(state) ==
  /\ running /\ updater = state
  /\ UNCHANGED <<adding, running, other, told, limits>>

(* gibbon_geo_ip_updater_on_open(): the file cannot be opened. *)
OpenFails == Callback("opening") /\ updater' = "none" /\ db' = Cancelled(db)

(* Mutants: the countries are deleted before the transaction begins; the   *)
(* first read is not asked for.                                            *)
OnOpen_Early ==
  /\ Callback("opening")
  /\ updater' = "reading"
  /\ db' = Begin(Execute(db, [db.view EXCEPT !.geo = "none"]))

OnOpen_NoRead == Callback("opening") /\ updater' = "stalled" /\ db' = Begin(db)

(***************************************************************************)
(* gibbon_geo_ip_updater_on_open(), gibbon_database_on_start_geo_ip_update: *)
(* when there is a transaction already, or when the old countries cannot   *)
(* be deleted, the update is cancelled, and goes on nevertheless.          *)
(***************************************************************************)
OnOpen ==
  /\ Callback("opening")
  /\ LET c == IF db.flag THEN Cancelled(db) ELSE Begin(db)
     IN IF other = "writes"
        THEN updater' = "freed" /\ db' = Cancelled(c)
        ELSE /\ updater' = IF db.flag THEN "freed" ELSE "reading"
             /\ db' = Execute(c, [c.view EXCEPT !.geo = "none"])

(* gibbon_database_set_geo_ip() *)
SetGeoIP(c) == Execute(c, [c.view EXCEPT !.geo = "part"])

(* gibbon_geo_ip_updater_on_read(): some lines of the file. *)
OnRead ==
  /\ Callback("reading") /\ db.view.geo = "none"
  /\ db' = SetGeoIP(db)
  /\ UNCHANGED updater

(* It cannot be read, or not be understood. *)
ReadFails == Callback("reading") /\ updater' = "none" /\ db' = Cancelled(db)

(* The end of the file: gibbon_database_close_geo_ip_update(). *)
OnEndOfFile ==
  /\ Callback("reading")
  /\ updater' = "none"
  /\ db' = Commit(Execute(db, [db.view EXCEPT !.geo = "new", !.stamp = "new"]))

(* gibbon_geo_ip_updater_on_response(): the callback is not waited for. *)
UserCancels ==
  /\ running /\ updater \in {"opening", "reading"} /\ MayCancel
  /\ updater' = "freed" /\ db' = Cancelled(db)
  /\ UNCHANGED <<adding, running, other, told, limits>>

Update == OpenFails \/ OnOpen \/ OnRead \/ ReadFails \/ OnEndOfFile

-----------------------------------------------------------------------------
(* The program is killed: SQLite rolls back what is not committed. *)
Crash ==
  /\ running /\ crashes > 0 /\ crashes' = crashes - 1
  /\ running' = FALSE /\ updater' = "none" /\ adding' = {}
  /\ db' = Rollback(db)
  /\ UNCHANGED <<other, told, calls, others>>

(* Another program, as far as our transaction allows. *)
OtherStep ==
  /\ others > 0 /\ others' = others - 1
  /\ \/ /\ other = "idle" /\ db.view = db.disk
        /\ \E p \in Players, table \in Interference \cap {"users", "relations"} :
             LET rows == [db.disk EXCEPT ![table] = @ \cup {p}, !.users = @ \cup {p},
                                         !.server = TRUE, !.group = @ \/ table = "relations"]
             IN db' = [db EXCEPT !.disk = rows, !.view = rows]
        /\ UNCHANGED other
     \/ /\ other = "idle"
        /\ other' \in Interference \cap {"reads", "writes"}
        /\ other' = "writes" => db.view = db.disk
        /\ UNCHANGED db
     \/ other # "idle" /\ other' = "idle" /\ UNCHANGED db
  /\ UNCHANGED <<updater, adding, running, told, calls, crashes>>

-----------------------------------------------------------------------------
Nobody == [p \in Players |-> 0]

Init ==
  /\ LET rows == [server |-> FALSE, group |-> FALSE, users |-> {}, relations |-> {},
                  matches |-> {}, active |-> Nobody, geo |-> "old", stamp |-> "old"]
     IN db = [flag |-> FALSE, open |-> FALSE, view |-> rows, disk |-> rows]
  /\ updater = "none" /\ adding = {} /\ running = FALSE /\ other = "idle"
  /\ told = [users |-> {}, relations |-> {}, active |-> Nobody]
  /\ calls = MaxCalls /\ others = MaxOthers /\ crashes = MaxCrashes

Next ==
  \/ \E p \in Players :
       \/ UpdateUser(p) \/ InsertActivity(p) \/ GetReliability(p)
       \/ CheckRelation(p) \/ CreateRelation(p)
       \/ \E score \in Scores : SaveMatch(score, p)
  \/ Login \/ GetRank \/ Maintain \/ CreateGroup
  \/ Start \/ Update \/ UserCancels
  \/ Crash \/ OtherStep

Spec == Init /\ [][Next]_vars

(* GLib calls back, whatever becomes of a file. *)
FairSpec == Spec /\ WF_vars(Update)

-----------------------------------------------------------------------------
Tables ==
  [server : BOOLEAN, group : BOOLEAN, users : SUBSET Players, relations : SUBSET Players,
   matches : SUBSET (Players \X Scores), active : [Players -> 0..MaxActive],
   geo : {"old", "none", "part", "new"}, stamp : {"old", "new"}]

TypeOK ==
  /\ db \in [flag : BOOLEAN, open : BOOLEAN, view : Tables, disk : Tables]
  /\ updater \in {"none", "opening", "reading", "freed"}
  /\ adding \subseteq Players /\ running \in BOOLEAN
  /\ other \in {"idle", "reads", "writes"}
  /\ told \in [users : SUBSET Players, relations : SUBSET Players,
               active : [Players -> 0..MaxCalls]]

(* No other program has done anything yet. *)
Alone == others = MaxOthers

(***************************************************************************)
(* Without another program, what a caller was told to be stored is on the  *)
(* disk, whatever is going on and even after a crash: neither a cancelled  *)
(* update of the countries nor another rollback takes it away.             *)
(***************************************************************************)
KeepsPromises ==
  Alone =>
    /\ told.users \subseteq db.disk.users /\ told.relations \subseteq db.disk.relations
    /\ \A p \in Players : told.active[p] <= db.disk.active[p]

(***************************************************************************)
(* Only the update of the countries keeps a transaction open; otherwise    *)
(* every later operation would fail with "Nested transaction!".  SQLite    *)
(* agrees, unless another program kept a transaction from being committed. *)
(***************************************************************************)
NothingLeaks ==
  /\ db.flag => updater = "reading"
  /\ Alone => db.open = db.flag

(***************************************************************************)
(* The countries are replaced as a whole or not at all, and are said to be *)
(* new only when they are, whenever the program is killed, the user        *)
(* cancels, the file is bad or another program holds a lock.               *)
(***************************************************************************)
CountriesWhole ==
  db.disk.geo \in {"old", "new"} /\ (db.disk.stamp = "new" <=> db.disk.geo = "new")

(* An update comes to an end: its dialog does not block the program forever. *)
UpdateEnds == updater \notin {"none", "freed"} ~> updater \in {"none", "freed"}
=============================================================================
