------------------------------- MODULE Importer -------------------------------
(***************************************************************************)
(* The import of a JavaFIBS installation, gibbon-java-fibs-importer.c.  A  *)
(* worker thread reads the files and queues tasks; the main thread polls   *)
(* the queue, does one task at a time, and decides when all is done by     *)
(* comparing two counters, jobs and finished, that both threads change.    *)
(*                                                                         *)
(* One action of the worker, and of the poll, is what happens under one    *)
(* lock of the mutex.  The contents of the files are drawn in Init: names  *)
(* of friends and villains, the ratings in the order of the file, and what *)
(* becomes of each match when it is parsed.  What the worker does with the *)
(* importer after it is freed is undefined and not modelled.               *)
(***************************************************************************)
EXTENDS Integers, Sequences, FiniteSets, SequencesExt

CONSTANTS
  Names,        \* names of friends and villains
  Stems,        \* names of match files
  Ranks,        \* ratings with their experience
  MaxRatings    \* bound on the lines of the file of ratings

ASSUME FiniteAssumption  == IsFiniteSet(Names) /\ IsFiniteSet(Stems)
ASSUME RatingsAssumption == MaxRatings \in Nat

VARIABLES
  \* what is on the disk
  readable,   \* the directory of the matches is there
  groups,     \* the members of each of the groups that exist
  ratings,    \* the file of ratings, newest line last
  matches,    \* "match", "saved" or "broken" for every match that is there
  \* the worker
  worker,     \* what it is doing
  todo,       \* tasks of this stage that are not queued yet
  counted,    \* the next task is counted in jobs
  unparsed,   \* matches that are still in the table
  parsed,     \* the match just parsed, or none
  \* the importer
  tasks, jobs, finished, cancelled,
  counters,   \* finished_ratings, finished_matches, error_matches, and a
              \* count of the matches that were skipped
  polling,    \* the poll has done its task, and is about to check
  dialog,     \* "off", "stop", "ok": the button that may be clicked, or "gone"
  ended,      \* the poll has ended
  handled     \* every task the main thread has done

disk  == <<readable, groups, ratings, matches>>
work  == <<worker, todo, counted, unparsed, parsed>>
main  == <<polling, dialog, ended, handled>>
vars  == <<disk, work, main, tasks, jobs, finished, cancelled, counters>>

None == {}

-----------------------------------------------------------------------------
Task(kind, of) == [kind |-> kind, of |-> of]

(* gibbon_java_fibs_importer_group(): the group, then its members. *)
GroupTasks(name) ==
  IF name \in DOMAIN groups
  THEN <<Task("group", name)>> \o
       SetToSeq({Task("relation", <<name, n>>) : n \in groups[name]})
  ELSE <<>>

(* gibbon_java_fibs_importer_ranks(): the lines of the file; a rating like *)
(* the one before is not of interest.                                      *)
RankTasks == [i \in DOMAIN ratings |-> Task("rank", i)]

Interesting(task) ==
  task.kind = "rank" => task.of = 1 \/ ratings[task.of] # ratings[task.of - 1]

Worker(stage) == worker = stage /\ dialog # "gone"

(* gibbon_java_fibs_importer_collect_matches(): without the directory the  *)
(* worker gives up, and leaves jobs at -1.                                 *)
Collect ==
  /\ Worker("collect")
  /\ IF readable
     THEN /\ worker' = "friends" /\ todo' = GroupTasks("friends")
          /\ jobs' = 3 + 2 * Cardinality(DOMAIN matches)
     ELSE worker' = "done" /\ UNCHANGED <<todo, jobs>>
  /\ UNCHANGED <<disk, main, counted, unparsed, parsed, tasks, finished, cancelled, counters>>

(* gibbon_java_fibs_importer_add_task() *)
AddTask(stage) ==
  /\ Worker(stage) /\ todo # <<>>
  /\ tasks' = Append(tasks, Head(todo)) /\ todo' = Tail(todo)
  /\ UNCHANGED <<disk, main, worker, unparsed, parsed, jobs, finished, cancelled, counters>>

AddMember == (AddTask("friends") \/ AddTask("villains")) /\ UNCHANGED counted

(* Mutant: a rating is counted after it is queued. *)
AddRank_CountLate ==
  \/ /\ AddTask("ranks") /\ ~counted
     /\ IF Interesting(Head(todo)) THEN counted' = TRUE ELSE FALSE
  \/ /\ Worker("ranks")
     /\ IF counted
        THEN jobs' = jobs + 1 /\ counted' = FALSE /\ UNCHANGED todo
        ELSE IF todo = <<>> \/ Interesting(Head(todo))
             THEN FALSE
             ELSE todo' = Tail(todo) /\ UNCHANGED <<jobs, counted>>
     /\ UNCHANGED <<disk, main, worker, unparsed, parsed, tasks, finished, cancelled, counters>>

(* gibbon_java_fibs_importer_ranks(): a rating is counted, then queued, or *)
(* skipped.                                                                *)
AddRank ==
  \/ AddTask("ranks") /\ counted /\ counted' = FALSE
  \/ /\ Worker("ranks") /\ todo # <<>> /\ ~counted
     /\ IF Interesting(Head(todo))
        THEN jobs' = jobs + 1 /\ counted' = TRUE /\ UNCHANGED todo
        ELSE todo' = Tail(todo) /\ UNCHANGED <<jobs, counted>>
     /\ UNCHANGED <<disk, main, worker, unparsed, parsed, tasks, finished, cancelled, counters>>

(* gibbon_java_fibs_importer_work(): a stage is finished. *)
NextStage ==
  /\ worker \in {"friends", "villains", "ranks"} /\ dialog # "gone"
  /\ todo = <<>> /\ ~counted
  /\ finished' = finished + 1
  /\ CASE worker = "friends"  -> worker' = "villains" /\ todo' = GroupTasks("villains")
       [] worker = "villains" -> worker' = "ranks" /\ todo' = RankTasks
       [] worker = "ranks"    -> worker' = "matches" /\ UNCHANGED todo
  /\ UNCHANGED <<disk, main, counted, unparsed, parsed, tasks, jobs, cancelled, counters>>

(* Mutant: a match that is parsed is met again. *)
NextMatch_Again ==
  /\ Worker("matches") /\ parsed = None
  /\ IF unparsed = {}
     THEN worker' = "last" /\ UNCHANGED <<unparsed, parsed>>
     ELSE \E s \in unparsed : parsed' = {s} /\ UNCHANGED <<worker, unparsed>>
  /\ UNCHANGED <<disk, main, todo, counted, tasks, jobs, finished, cancelled, counters>>

(* The next match of the table, in any order: it is parsed unless the      *)
(* import is cancelled; the end of the table.                              *)
NextMatch ==
  /\ Worker("matches") /\ parsed = None
  /\ IF unparsed = {}
     THEN worker' = "last" /\ UNCHANGED <<unparsed, parsed>>
     ELSE IF cancelled
          THEN worker' = "done" /\ UNCHANGED <<unparsed, parsed>>
          ELSE /\ \E s \in unparsed : parsed' = {s} /\ unparsed' = unparsed \ {s}
               /\ UNCHANGED worker
  /\ UNCHANGED <<disk, main, todo, counted, tasks, jobs, finished, cancelled, counters>>

(* gibbon_java_fibs_importer_match(): it is parsed. *)
Parse ==
  /\ Worker("matches") /\ parsed # None /\ ~counted
  /\ finished' = finished + 1 /\ counted' = TRUE
  /\ UNCHANGED <<disk, main, worker, todo, unparsed, parsed, tasks, jobs, cancelled, counters>>

(* It is queued for the main thread, or done with when it is broken. *)
QueueMatch ==
  /\ Worker("matches") /\ parsed # None /\ counted
  /\ counted' = FALSE /\ parsed' = None
  /\ \E s \in parsed :
       IF matches[s] = "broken"
       THEN /\ finished' = finished + 1 /\ counters' = [counters EXCEPT !.errors = @ + 1]
            /\ UNCHANGED tasks
       ELSE /\ tasks' = Append(tasks, Task(matches[s], s))
            /\ UNCHANGED <<finished, counters>>
  /\ UNCHANGED <<disk, main, worker, todo, unparsed, jobs, cancelled>>

(* The last status. *)
Leave ==
  /\ Worker("last") /\ worker' = "done"
  /\ UNCHANGED <<disk, main, todo, counted, unparsed, parsed, tasks, jobs, finished,
                 cancelled, counters>>

Work == Collect \/ AddMember \/ AddRank \/ NextStage \/ NextMatch \/ Parse \/ QueueMatch \/ Leave

-----------------------------------------------------------------------------
(* gibbon_java_fibs_importer_save_rank(), save_match(), save_saved(): how  *)
(* they may end; groups and relations are not counted.                     *)
Outcomes(kind) ==
  CASE kind = "rank"  -> {"ratings", "none"}
    [] kind = "match" -> {"stored", "errors"}
    [] kind = "saved" -> {"stored", "errors", "skipped"}
    [] OTHER          -> {"none"}

Count(outcome) ==
  IF outcome = "none" THEN counters ELSE [counters EXCEPT ![outcome] = @ + 1]

(* gibbon_java_fibs_importer_poll(): one task. *)
PollTask ==
  /\ dialog \in {"stop", "ok"} /\ ~ended /\ ~polling
  /\ polling' = TRUE
  /\ IF tasks = <<>>
     THEN UNCHANGED <<tasks, handled, finished, counters>>
     ELSE LET task == Head(tasks) IN
          /\ tasks' = Tail(tasks) /\ handled' = Append(handled, task)
          /\ finished' = IF task.kind \in {"group", "relation"} THEN finished ELSE finished + 1
          /\ \E outcome \in Outcomes(task.kind) : counters' = Count(outcome)
  /\ UNCHANGED <<disk, work, dialog, ended, jobs, cancelled>>

(* All is done, as far as the counters tell. *)
Complete == tasks = <<>> /\ jobs >= 0 /\ finished >= jobs

(* Mutant: Stop is not looked at. *)
PollCheck_Deaf ==
  /\ polling /\ polling' = FALSE
  /\ IF Complete THEN ended' = TRUE /\ dialog' = "ok" ELSE UNCHANGED <<ended, dialog>>
  /\ UNCHANGED <<disk, work, handled, tasks, jobs, finished, cancelled, counters>>

(* The end of gibbon_java_fibs_importer_poll(). *)
PollCheck ==
  /\ polling /\ polling' = FALSE
  /\ IF cancelled \/ Complete
     THEN ended' = TRUE /\ dialog' = "ok"
     ELSE UNCHANGED <<ended, dialog>>
  /\ UNCHANGED <<disk, work, handled, tasks, jobs, finished, cancelled, counters>>

(* gibbon_java_fibs_importer_on_stop() *)
OnStop ==
  /\ dialog = "stop" /\ ~polling
  /\ dialog' = "ok" /\ cancelled' = TRUE
  /\ UNCHANGED <<disk, work, polling, ended, handled, tasks, jobs, finished, counters>>

(* gibbon_java_fibs_importer_on_okay(): the importer is freed; the thread  *)
(* is not joined, for the field worker is never set.                       *)
OnOkay ==
  /\ dialog = "ok" /\ ~polling
  /\ dialog' = "gone" /\ ended' = TRUE /\ tasks' = <<>>
  /\ UNCHANGED <<disk, work, polling, handled, jobs, finished, cancelled, counters>>

(* gibbon_java_fibs_importer_run(), when the thread cannot be created, and *)
(* otherwise.                                                              *)
Run ==
  /\ dialog = "off"
  /\ \/ dialog' = "stop" /\ worker' = "collect"
     \/ dialog' = "gone" /\ UNCHANGED worker
  /\ UNCHANGED <<disk, todo, counted, unparsed, parsed, polling, ended, handled,
                 tasks, jobs, finished, cancelled, counters>>

-----------------------------------------------------------------------------
Init ==
  /\ readable \in BOOLEAN
  /\ \E gs \in SUBSET {"friends", "villains"} : groups \in [gs -> SUBSET Names]
  /\ ratings \in UNION {[1..n -> Ranks] : n \in 0..MaxRatings}
  /\ \E ms \in SUBSET Stems : matches \in [ms -> {"match", "saved", "broken"}]
  /\ worker = "none" /\ todo = <<>> /\ counted = FALSE
  /\ unparsed = DOMAIN matches /\ parsed = None
  /\ tasks = <<>> /\ jobs = -1 /\ finished = 0 /\ cancelled = FALSE
  /\ counters = [ratings |-> 0, stored |-> 0, errors |-> 0, skipped |-> 0]
  /\ polling = FALSE /\ dialog = "off" /\ ended = FALSE /\ handled = <<>>

Next == Run \/ Work \/ PollTask \/ PollCheck \/ OnStop \/ OnOkay

Spec == Init /\ [][Next]_vars

(* The thread is scheduled, and the timer of the poll fires. *)
FairSpec == Spec /\ WF_vars(Work) /\ WF_vars(PollTask) /\ WF_vars(PollCheck)

-----------------------------------------------------------------------------
TypeOK ==
  /\ worker \in {"none", "collect", "friends", "villains", "ranks", "matches", "last", "done"}
  /\ counted \in BOOLEAN /\ unparsed \subseteq DOMAIN matches
  /\ Cardinality(parsed) <= 1 /\ parsed \subseteq DOMAIN matches \ unparsed
  /\ jobs \in -1..(3 + 2 * Cardinality(Stems) + MaxRatings)
  /\ finished \in 0..(3 + 2 * Cardinality(Stems) + MaxRatings)
  /\ counters \in [{"ratings", "stored", "errors", "skipped"} -> Nat]
  /\ dialog \in {"off", "stop", "ok", "gone"}
  /\ cancelled \in BOOLEAN /\ polling \in BOOLEAN /\ ended \in BOOLEAN

(* Everything there is to import. *)
Everything ==
  ToSet(GroupTasks("friends") \o GroupTasks("villains")) \cup
  {t \in ToSet(RankTasks) : Interesting(t)} \cup
  {Task(matches[s], s) : s \in {m \in DOMAIN matches : matches[m] # "broken"}}

(***************************************************************************)
(* When the poll ends of its own accord, which two counters changed by two *)
(* threads tell it, there is nothing left to do: the worker queues nothing *)
(* more, every rating, match and member of a group has been dealt with     *)
(* exactly once, and every match is in exactly one of the counts.          *)
(***************************************************************************)
EndsComplete ==
  ended /\ ~cancelled /\ dialog = "ok" =>
    /\ worker \in {"matches", "last", "done"} /\ unparsed = {} /\ parsed = None
    /\ ToSet(handled) = Everything /\ IsInjective(handled)
    /\ counters.stored + counters.errors + counters.skipped = Cardinality(DOMAIN matches)

(***************************************************************************)
(* The import comes to an end when the files can be read at all, and when  *)
(* they cannot, Stop ends it.                                              *)
(***************************************************************************)
ImportEnds == (dialog = "stop" /\ readable) \/ cancelled ~> ended
=============================================================================
