---------------------------- MODULE MCKoreServices -----------------------------
(* What a worker of Kore offers to the pages that answer requests: database *)
(* connections, tasks and files, each checked on an instance of its own.   *)
EXTENDS KorePgsql, Parts, TLC

CONSTANTS u1, u2, u3, d1, d2,
          OneThreadTasks, TwoThreadTasks,     \* KoreTasks
          Clients, Refs, Paths, Canonical     \* KoreFiles

(* Two requests want the same database, and one another.                   *)
MCDbOf    == u1 :> d1 @@ u2 :> d2 @@ u3 :> d1
MCAnswers == {<<"tuples">>, <<"fatal">>}

VARIABLES
  tstate, channel, peer, request, calling, to, order, tasks, pc, hand,
  mtime, path, seen, cnt, listed, fds, sendqueue

One   == INSTANCE KoreTasks WITH Tasks <- OneThreadTasks, MaxThreads <- 1
Two   == INSTANCE KoreTasks WITH Tasks <- TwoThreadTasks, MaxThreads <- 2
Files == INSTANCE KoreFiles
  WITH Conns <- Clients, queue <- sendqueue, MaxMtime <- 2, MaxQueue <- 2

(* What each module assumes of its constants.                              *)
ASSUME /\ PgsqlAssumption /\ One!TasksAssumption /\ Two!TasksAssumption
       /\ Files!FilesAssumption

tasksVars  == <<tstate, channel, peer, request, calling, to, order, tasks, pc, hand>>
filesVars  == <<mtime, path, seen, cnt, listed, fds, sendqueue>>
servicesVars == <<part, vars, tasksVars, filesVars>>

ServicesInit ==
  /\ part \in {"pgsql", "one thread", "two threads", "files"}
  /\ Init /\ Files!Init
  /\ IF part = "one thread" THEN One!Init ELSE Two!Init

Is(p) == part = p /\ UNCHANGED part
ServicesNext ==
  \/ /\ Is("pgsql") /\ Next /\ UNCHANGED <<tasksVars, filesVars>>
  \/ /\ Is("one thread") /\ One!Next /\ UNCHANGED <<vars, filesVars>>
  \/ /\ Is("two threads") /\ Two!Next /\ UNCHANGED <<vars, filesVars>>
  \/ /\ Is("files") /\ Files!Next /\ UNCHANGED <<vars, tasksVars>>

(* The fairness of each module, for the behaviours of its part.            *)
PgsqlFairness ==
  /\ WF_vars(part = "pgsql" /\ Worker /\ UNCHANGED trouble)
  /\ \A c \in Conns : SF_vars(part = "pgsql" /\ Answer(c))
OneFairness ==
  /\ WF_tasksVars(part = "one thread" /\ One!Signals)
  /\ WF_tasksVars(part = "one thread" /\ One!ThreadStep(1))
  /\ \A t \in OneThreadTasks :
       /\ WF_tasksVars(part = "one thread" /\ One!Handle(t) /\ ~peer[t])
       /\ WF_tasksVars(part = "one thread" /\ One!PageHandler(t))
       /\ WF_tasksVars(part = "one thread" /\ One!RequestFreed(t))
TwoFairness ==
  /\ WF_tasksVars(part = "two threads" /\ Two!Signals)
  /\ \A h \in 1..2 : WF_tasksVars(part = "two threads" /\ Two!ThreadStep(h))
  /\ \A t \in TwoThreadTasks :
       /\ WF_tasksVars(part = "two threads" /\ Two!Handle(t) /\ ~peer[t])
       /\ WF_tasksVars(part = "two threads" /\ Two!PageHandler(t))
       /\ WF_tasksVars(part = "two threads" /\ Two!RequestFreed(t))
FilesFairness ==
  /\ \A c \in Clients :
       WF_filesVars(part = "files" /\ (Files!Sent(c) \/ Files!Removed(c)))
  /\ \A r \in Refs : WF_filesVars(part = "files" /\ Files!Expires(r))
ServicesSpec ==
  /\ ServicesInit /\ [][ServicesNext]_servicesVars
  /\ PgsqlFairness /\ OneFairness /\ TwoFairness /\ FilesFairness
-----------------------------------------------------------------------------
Has(t, state) == t \in DOMAIN tstate /\ tstate[t] = state
(* Tasks, in one thread and in two: none is freed in use, none is          *)
(* forgotten in the list of a thread, and each is destroyed in the end, or *)
(* its thread has crashed (kore_task_run, task_thread, kore_task_finish).  *)
TasksEnd ==
  /\ [](IF part = "one thread" THEN One!NotFreedInUse /\ One!NoTaskForgotten
        ELSE Two!NotFreedInUse /\ Two!NoTaskForgotten)
  /\ \A t \in OneThreadTasks \cup TwoThreadTasks :
       Has(t, "created") ~> Has(t, "destroyed") \/ \E h \in DOMAIN pc : pc[h] = "crashed"

(* Shared files: the counts are right and a path is open once; what is     *)
(* served is as fresh as the cache promises, and what nobody uses is       *)
(* dropped (kore_fileref_get, kore_fileref_release,                        *)
(* fileref_expiration_check).                                              *)
FilesAreShared ==
  [](Files!CountsAreRight /\ Files!OneEach) /\ Files!FreshAtStart /\ Files!OldOnesGo

=============================================================================
