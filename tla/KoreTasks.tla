----------------------------- MODULE KoreTasks ------------------------------
(* Kore's background tasks (kore-3.2.0/src/tasks.c): the thread of a       *)
(* worker hands tasks to a pool of threads and hears of them through a     *)
(* socket pair each, as the page handler of examples/tasks uses them.      *)
EXTENDS Naturals, Sequences, SequencesExt

CONSTANTS Tasks,        \* struct kore_task, each bound to a request
          MaxThreads,   \* kore_task_threads
          None

TasksAssumption == MaxThreads \in Nat \ {0} /\ None \notin Tasks

Threads == 1..MaxThreads      \* tt->idx, from 1

VARIABLES
  tstate,   \* t->state; "none" before kore_task_create, "destroyed" after
  channel,  \* what the task wrote that was not read: a number of messages
  peer,     \* t->fds[1] is open, the end of the thread
  request,  \* of the request: "awake", "asleep", "deleted", "freed"
  calling,  \* the task kore_task_run signals for, None outside it
  to,       \* the thread it signals
  order,    \* task_threads
  tasks,    \* tt->tasks
  pc,       \* where a thread is; "crashed" when it dereferenced NULL
  hand      \* the task a thread executes

main == <<request, calling, to, order>>
vars == <<tstate, channel, peer, main, tasks, pc, hand>>

Init ==
  /\ tstate = [t \in Tasks |-> "none"]   /\ channel = [t \in Tasks |-> 0]
  /\ peer = [t \in Tasks |-> FALSE]      /\ request = [t \in Tasks |-> "awake"]
  /\ calling = None /\ to = 0 /\ order = <<>>
  /\ tasks = [h \in Threads |-> <<>>]
  /\ pc = [h \in Threads |-> "none"]     /\ hand = [h \in Threads |-> None]

(* The process is there: no thread crashed it.                             *)
Up == \A h \in Threads : pc[h] # "crashed"
-----------------------------------------------------------------------------
(* The worker's thread.                                                    *)

(* The next thread: a new one, while there are fewer than may be, or the   *)
(* first, which goes to the end of the list.                               *)
Spawned == Len(order) < MaxThreads
Next1   == IF Spawned THEN Len(order) + 1 ELSE Head(order)

(* kore_task_create, kore_task_bind_request and kore_task_run up to its    *)
(* unlock: the lock of the thread's list is free whenever it is not inside *)
(* one of its own steps below.                                             *)
Run(t) ==
  /\ Up /\ calling = None /\ tstate[t] = "none" /\ request[t] = "awake"
  /\ tstate' = [tstate EXCEPT ![t] = "created"]
  /\ peer' = [peer EXCEPT ![t] = TRUE]
  /\ request' = [request EXCEPT ![t] = "asleep"]
  /\ order' = Append(IF Spawned THEN order ELSE Tail(order), Next1)
  /\ tasks' = [tasks EXCEPT ![Next1] = Append(@, t)]
  /\ pc' = [pc EXCEPT ![Next1] = IF Spawned THEN "top" ELSE @]
  /\ calling' = t /\ to' = Next1
  /\ UNCHANGED <<channel, hand>>

NoSignal(h)  == pc                \* mutant: pthread_cond_signal is not called
Signalled(h) == [pc EXCEPT ![h] = IF @ = "waiting" THEN "signalled" ELSE @]

(* pthread_cond_signal, after the unlock.                                  *)
Signals ==
  /\ Up /\ calling # None
  /\ pc' = Signalled(to)
  /\ calling' = None /\ to' = 0
  /\ UNCHANGED <<tstate, channel, peer, request, order, tasks, hand>>

(* kore_task_handle, for data or for the end the thread closed: the        *)
(* request wakes, and a task whose request is to be deleted is destroyed.  *)
Handle(t) ==
  /\ Up /\ calling = None /\ tstate[t] \in {"created", "running"}
  /\ channel[t] > 0 \/ ~peer[t]
  /\ request' = [request EXCEPT ![t] = IF @ = "asleep" THEN "awake" ELSE @]
  /\ tstate' = [tstate EXCEPT ![t] =
                  IF peer[t] THEN @
                  ELSE IF request[t] = "deleted" THEN "destroyed" ELSE "finished"]
  /\ UNCHANGED <<channel, peer, calling, to, order, tasks, pc, hand>>

(* The page handler again: it sleeps until the task is finished, and then  *)
(* has its result, reads the channel, answers and destroys the task.       *)
PageHandler(t) ==
  /\ Up /\ calling = None /\ request[t] = "awake" /\ tstate[t] # "none"
  /\ \/ /\ tstate[t] # "finished"
        /\ request' = [request EXCEPT ![t] = "asleep"]
        /\ UNCHANGED <<tstate, channel>>
     \/ /\ tstate[t] = "finished"
        /\ channel' = [channel EXCEPT ![t] = IF @ > 0 THEN @ - 1 ELSE 0]
        /\ tstate' = [tstate EXCEPT ![t] = "destroyed"]
        /\ request' = [request EXCEPT ![t] = "deleted"]
  /\ UNCHANGED <<peer, calling, to, order, tasks, pc, hand>>

(* kore_connection_remove: the client is gone.                             *)
ClientGone(t) ==
  /\ Up /\ calling = None /\ request[t] \in {"awake", "asleep"} /\ tstate[t] # "none"
  /\ request' = [request EXCEPT ![t] = "deleted"]
  /\ UNCHANGED <<tstate, channel, peer, calling, to, order, tasks, pc, hand>>

NonePending(t) == TRUE            \* mutant: the request does not wait for tasks
Finished(t)    == tstate[t] \in {"finished", "destroyed"}

(* http_request_free, with the memory of the task; not while it runs.      *)
RequestFreed(t) ==
  /\ Up /\ calling = None /\ request[t] = "deleted" /\ Finished(t)
  /\ request' = [request EXCEPT ![t] = "freed"]
  /\ tstate' = [tstate EXCEPT ![t] = "destroyed"]
  /\ UNCHANGED <<channel, peer, calling, to, order, tasks, pc, hand>>
-----------------------------------------------------------------------------
(* task_thread.                                                            *)

(* It takes the first task of its list, within the lock.                   *)
Takes(h) ==
  IF tasks[h] = <<>>
    THEN pc' = [pc EXCEPT ![h] = "crashed"] /\ UNCHANGED <<tasks, hand>>
    ELSE /\ hand' = [hand EXCEPT ![h] = Head(tasks[h])]
         /\ tasks' = [tasks EXCEPT ![h] = Tail(@)]
         /\ pc' = [pc EXCEPT ![h] = "took"]

(* pthread_cond_wait when the list is empty.                               *)
Top(h) ==
  /\ Up /\ pc[h] = "top"
  /\ IF tasks[h] = <<>>
       THEN pc' = [pc EXCEPT ![h] = "waiting"] /\ UNCHANGED <<tasks, hand>>
       ELSE Takes(h)
  /\ UNCHANGED <<tstate, channel, peer, main>>

(* Back from it: the list is not looked at again, not even when nobody     *)
(* signalled, as pthread_cond_wait allows.                                 *)
WakesFrom(h, place) ==
  /\ Up /\ pc[h] = place
  /\ Takes(h)
  /\ UNCHANGED <<tstate, channel, peer, main>>

Wakes(h)    == WakesFrom(h, "signalled")
Spurious(h) == WakesFrom(h, "waiting")

(* The state is RUNNING, t->entry is called ...                            *)
Executes(h) ==
  /\ Up /\ pc[h] = "took"
  /\ tstate' = [tstate EXCEPT ![hand[h]] = "running"]
  /\ pc' = [pc EXCEPT ![h] = "entry"]
  /\ UNCHANGED <<channel, peer, main, tasks, hand>>

(* ... and may write to its channel.                                       *)
Writes(h) ==
  /\ Up /\ pc[h] = "entry" /\ channel[hand[h]] = 0
  /\ channel' = [channel EXCEPT ![hand[h]] = 1]
  /\ UNCHANGED <<tstate, peer, main, tasks, pc, hand>>

KeepsOpen(t) == peer              \* mutant: kore_task_finish does not close
Closes(t)    == [peer EXCEPT ![t] = FALSE]

(* kore_task_set_result and kore_task_finish.                              *)
Finishes(h) ==
  /\ Up /\ pc[h] = "entry"
  /\ peer' = Closes(hand[h])
  /\ hand' = [hand EXCEPT ![h] = None]
  /\ pc' = [pc EXCEPT ![h] = "top"]
  /\ UNCHANGED <<tstate, channel, main, tasks>>

ThreadStep(h) == Top(h) \/ Wakes(h) \/ Executes(h) \/ Finishes(h)
MainStep(t)   == Run(t) \/ Handle(t) \/ PageHandler(t) \/ RequestFreed(t)

Next ==
  \/ Signals
  \/ \E t \in Tasks : MainStep(t) \/ ClientGone(t)
  \/ \E h \in Threads : ThreadStep(h) \/ Spurious(h) \/ Writes(h)

(* The threads are scheduled, entries return and the worker's loop goes    *)
(* round; nobody can count on a spurious wake-up.                          *)
Fairness ==
  /\ WF_vars(Signals)
  /\ \A t \in Tasks : /\ WF_vars(Handle(t) /\ ~peer[t])
                       /\ WF_vars(PageHandler(t)) /\ WF_vars(RequestFreed(t))
  /\ \A h \in Threads : WF_vars(ThreadStep(h))

Spec == Init /\ [][Next]_vars /\ Fairness
-----------------------------------------------------------------------------
(* The memory of a task is not freed, and its locks not destroyed, while a *)
(* thread has it or will take it, and one thread at most does.             *)
Holders(t) == {h \in Threads : hand[h] = t \/ t \in Range(tasks[h])}
NotFreedInUse ==
  \A t \in Tasks :
    /\ tstate[t] \in {"destroyed", "finished"} => Holders(t) = {}
    /\ \A g, h \in Holders(t) : g = h

(* A thread that waits has nothing to do, or is about to be signalled.     *)
NoTaskForgotten ==
  \A h \in Threads : pc[h] = "waiting" /\ tasks[h] # <<>> => to = h

(* "Kore will reschedule the page handler for that request to refire after *)
(* the task has completed" (examples/tasks/src/tasks.c:77-79), or the       *)
(* request ends with its client; unless a thread crashed the worker.       *)
TasksEnd == \A t \in Tasks : tstate[t] = "created" ~> tstate[t] = "destroyed" \/ ~Up
=============================================================================
