----------------------------- MODULE KorePython ------------------------------
(* Coroutines in a worker of Kore (kore-3.2.0/src/python.c): the passes    *)
(* that run them, and a lock, a queue, kore.suspend and kore.gather, which *)
(* they await.  A coroutine belongs to a request, and http_process runs    *)
(* it, or is free, and kore_python_coro_run does.                          *)
EXTENDS Naturals, Sequences, FiniteSets, SequencesExt

CONSTANTS Coros,
          Requests,   \* those of requests
          None,
          MaxOps,     \* bound: what coroutines do, in all
          MaxObjects  \* bound: objects in the queue

PythonAssumption ==
  /\ Requests \subseteq Coros /\ None \notin Coros /\ IsFiniteSet(Coros)
  /\ {MaxOps, MaxObjects} \subseteq Nat

VARIABLES
  up,        \* FALSE once the worker died
  there,     \* the coroutines there are
  ended,     \* those there were
  ops,       \* how much they did
  runnable,  \* coro_runnable, of the free ones
  awake,     \* http_requests, of those with a coroutine
  gone,      \* HTTP_REQUEST_DELETE
  loop,      \* where kore_worker_entry is
  next,      \* the next of the pass
  running,   \* coro_running
  closing,   \* kore_python_coro_delete works on these, the first one first
  doing,     \* what a coroutine awaits, "go" when nothing
  parent,    \* coro->gatherop->coro
  owner,     \* lock->owner
  inside,    \* those in the body of async with
  waiters,   \* lock->ops, those that are locking
  objects,   \* how many queue->objects
  waiting,   \* queue->waiting
  beaten,    \* woken to find nothing: another was faster
  missed     \* a coroutine was deleted that the lock woke, or meant to wake

coros == <<there, ended, ops, doing, parent>>
sched == <<runnable, awake, running>>
pass  == <<loop, next>>
lock  == <<owner, inside, waiters>>
fifo  == <<objects, waiting>>
vars  == <<up, coros, sched, pass, gone, closing, lock, fifo, beaten, missed>>

Init ==
  /\ up = TRUE /\ there = {} /\ ended = {} /\ ops = 0
  /\ runnable = <<>> /\ awake = <<>> /\ gone = {}
  /\ loop = "events" /\ next = None /\ running = None /\ closing = <<>>
  /\ doing = [c \in Coros |-> "go"] /\ parent = [c \in Coros |-> None]
  /\ owner = None /\ inside = {} /\ waiters = <<>> /\ objects = 0 /\ waiting = <<>>
  /\ beaten = {} /\ missed = FALSE
-----------------------------------------------------------------------------
IsAwake(c) == c \in Range(runnable) \cup Range(awake)
First(s)   == IF s = <<>> THEN None ELSE Head(s)
After(s, c) ==
  LET i == CHOOSE i \in DOMAIN s : s[i] = c
  IN IF i = Len(s) THEN None ELSE s[i + 1]
Kids(p)    == {c \in there : parent[c] = p}
New        == Coros \ (there \cup ended)

(* http_request_wakeup, to the end of the requests; python_coro_wakeup, to *)
(* the head of the free coroutines.                                        *)
Wake(c) ==
  IF IsAwake(c) THEN UNCHANGED <<runnable, awake>>
  ELSE IF c \in Requests THEN awake' = Append(awake, c) /\ UNCHANGED runnable
  ELSE runnable' = <<c>> \o runnable /\ UNCHANGED awake

(* python_coro_run: the coroutine is suspended and its request sleeps.     *)
Sleeps(c) ==
  /\ running' = None
  /\ awake' = RemoveFirst(awake, c) /\ runnable' = RemoveFirst(runnable, c)

Dies == up' = FALSE /\ UNCHANGED <<coros, sched, pass, gone, closing, lock, fifo, beaten, missed>>

NoHandOver ==                 \* mutant: the first waiter is not woken
  owner' = None /\ waiters' = Tail(waiters) /\ UNCHANGED <<runnable, awake, missed>>
(* pylock_do_release.  The op of a coroutine that was deleted is still in  *)
(* the list, and what it points to was freed: nobody wakes, at best.       *)
HandOver ==
  /\ owner' = None
  /\ waiters' = Tail(waiters)
  /\ IF Head(waiters) \in there
       THEN Wake(Head(waiters)) /\ missed' = FALSE
       ELSE missed' = TRUE /\ UNCHANGED <<runnable, awake>>
Releases ==
  IF waiters = <<>> THEN owner' = None /\ UNCHANGED <<waiters, runnable, awake, missed>>
  ELSE HandOver
Dangles == waiters # <<>> /\ Head(waiters) \notin there
-----------------------------------------------------------------------------
(* What a running coroutine does until it awaits something.                *)

Acts(c) == up /\ running = c /\ doing[c] = "go" /\ closing = <<>> /\ ops < MaxOps
Does(c, what) ==
  /\ ops' = ops + 1
  /\ doing' = [doing EXCEPT ![c] = what]
  /\ UNCHANGED <<up, ended, pass, gone, closing>>

AnyTime == TRUE              \* mutant: the owner is not looked at
LockFree == owner = None

(* async with lock: pylock_aenter and pylock_op_iternext.                  *)
Enter(c) ==
  /\ Acts(c) /\ owner # c
  /\ \/ /\ LockFree
        /\ owner' = c /\ inside' = inside \cup {c} /\ missed' = FALSE
        /\ Does(c, "go")
        /\ UNCHANGED <<waiters, sched>>
     \/ /\ ~LockFree
        /\ waiters' = Append(waiters, c)
        /\ Does(c, "lock")
        /\ Sleeps(c)
        /\ UNCHANGED <<owner, inside, missed>>
  /\ UNCHANGED <<there, parent, fifo, beaten>>

(* The end of the body: pylock_aexit.                                      *)
Exit(c) ==
  /\ up /\ running = c /\ doing[c] = "go" /\ closing = <<>> /\ owner = c
  /\ \/ Releases /\ inside' = inside \ {c}
        /\ UNCHANGED <<up, coros, running, pass, gone, closing, fifo, beaten>>
     \/ Dangles /\ Dies

Forgets ==                   \* mutant: the entry goes, its coroutine sleeps on
  /\ objects' = objects + 1 /\ waiting' = Tail(waiting) /\ UNCHANGED <<runnable, awake>>
(* pyqueue_push for one that waits.                                        *)
Hands ==
  /\ objects' = objects + 1 /\ waiting' = Tail(waiting) /\ Wake(Head(waiting))

Push(c) ==
  /\ Acts(c) /\ objects < MaxObjects
  /\ IF waiting = <<>> THEN objects' = objects + 1 /\ UNCHANGED <<waiting, runnable, awake>>
                       ELSE Hands
  /\ Does(c, "go")
  /\ UNCHANGED <<there, parent, running, lock, beaten, missed>>

(* await queue.pop(): the entry that pyqueue_pop made waits; or the object *)
(* is there, pyqueue_op_iternext puts the entry back into its pool,        *)
(* pyqueue_op_dealloc does so again, and kore_pool_put is fatal.           *)
Pop(c) ==
  \/ /\ Acts(c) /\ objects = 0
     /\ waiting' = Append(waiting, c)
     /\ Does(c, "pop")
     /\ Sleeps(c)
     /\ UNCHANGED <<there, parent, objects, lock, beaten, missed>>
  \/ Acts(c) /\ objects > 0 /\ Dies

PopNow(c) ==
  /\ Acts(c) /\ objects > 0
  /\ objects' = objects - 1
  /\ Does(c, "go")
  /\ UNCHANGED <<there, parent, sched, waiting, lock, beaten, missed>>

Suspend(c) ==
  /\ Acts(c)
  /\ Does(c, "suspend")
  /\ Sleeps(c)
  /\ UNCHANGED <<there, parent, fifo, lock, beaten, missed>>

(* kore.gather of new coroutines; each becomes the first to run.           *)
Gather(c, kids) ==
  /\ Acts(c) /\ kids # {} /\ kids \subseteq New \ Requests
  /\ there' = there \cup kids
  /\ parent' = [k \in Coros |-> IF k \in kids THEN c ELSE parent[k]]
  /\ runnable' = SetToSeq(kids) \o RemoveFirst(runnable, c)
  /\ awake' = RemoveFirst(awake, c) /\ running' = None
  /\ Does(c, "gather")
  /\ UNCHANGED <<fifo, lock, beaten, missed>>

(* What it awaited, as it runs again.                                      *)
GoesOn(c) == doing' = [doing EXCEPT ![c] = "go"] /\ UNCHANGED sched
Beaten(c) == Sleeps(c) /\ beaten' = beaten \cup {c} /\ UNCHANGED doing

(* pylock_op_iternext for one that was woken: the op, which is out of the  *)
(* list, is taken out and let go of once more.                             *)
LockAgain(c) ==
  /\ up /\ running = c /\ doing[c] = "lock"
  /\ \/ /\ LockFree
        /\ owner' = c /\ inside' = inside \cup {c} /\ missed' = FALSE
        /\ GoesOn(c)
        /\ UNCHANGED <<up, there, ended, ops, parent, pass, gone, closing, waiters, fifo, beaten>>
     \/ /\ ~LockFree /\ Beaten(c)
        /\ UNCHANGED <<up, there, ended, ops, parent, pass, gone, closing, lock, fifo, missed>>
     \/ LockFree /\ Dies

PopAgain(c) ==
  /\ up /\ running = c /\ doing[c] = "pop"
  /\ \/ objects > 0 /\ objects' = objects - 1 /\ GoesOn(c) /\ UNCHANGED beaten
     \/ objects = 0 /\ Beaten(c) /\ UNCHANGED objects
  /\ UNCHANGED <<up, there, ended, ops, parent, pass, gone, closing, lock, waiting, missed>>

(* pysuspend_op_iternext in PYSUSPEND_OP_CONTINUE.                         *)
SuspendEnds(c) ==
  /\ up /\ running = c /\ doing[c] = "due"
  /\ GoesOn(c)
  /\ UNCHANGED <<up, there, ended, ops, parent, pass, gone, closing, lock, fifo, beaten, missed>>

(* pygather_op_iternext: all of them ended, or it sleeps again.            *)
GatherAgain(c) ==
  /\ up /\ running = c /\ doing[c] = "gather"
  /\ IF Kids(c) = {} THEN GoesOn(c) ELSE Sleeps(c) /\ UNCHANGED doing
  /\ UNCHANGED <<up, there, ended, ops, parent, pass, gone, closing, lock, fifo, beaten, missed>>

TellsNobody(c) == UNCHANGED <<runnable, awake>>   \* mutant: the parent sleeps on
(* kore_python_coro_run tells the coroutine that gathers; pygather_reap_coro. *)
Tells(c) ==
  IF parent[c] = None THEN UNCHANGED <<runnable, awake>> ELSE Wake(parent[c])

(* The coroutine returns, or ends with an exception, outside of the body   *)
(* of the lock; then it is deleted.                                        *)
Ends(c) ==
  /\ up /\ running = c /\ doing[c] = "go" /\ closing = <<>> /\ c \notin inside
  /\ Tells(c)
  /\ closing' = <<c>>
  /\ running' = None
  /\ UNCHANGED <<up, coros, pass, gone, lock, fifo, beaten, missed>>
-----------------------------------------------------------------------------
(* kore_python_coro_delete: what the coroutine awaits is let go of, first  *)
(* the coroutines it gathers (pygather_op_dealloc), then the lock, whose   *)
(* aexit finds it in coro_running, or its entry of the queue.              *)
ClosesKid ==
  /\ up /\ closing # <<>>
  /\ \E k \in Kids(Head(closing)) : closing' = <<k>> \o closing
  /\ UNCHANGED <<up, coros, sched, pass, gone, lock, fifo, beaten, missed>>

LetsGo(c)    == Releases
StaysIn(c)   == waiting               \* mutant: pyqueue_op_dealloc forgets it
LeavesIt(c)  == RemoveFirst(waiting, c)

WithLock(c) ==
  /\ c \in inside
  /\ \/ /\ LetsGo(c) /\ inside' = inside \ {c}
        /\ UNCHANGED <<up, coros, running, pass, gone, closing, fifo, beaten>>
     \/ Dangles /\ Dies

Closes ==
  LET c == Head(closing) IN
  /\ up /\ closing # <<>> /\ Kids(c) = {}
  /\ \/ WithLock(c)
     \/ /\ c \notin inside
        /\ there' = there \ {c} /\ ended' = ended \cup {c}
        /\ parent' = [parent EXCEPT ![c] = None]
        /\ doing' = [doing EXCEPT ![c] = "go"]
        /\ awake' = RemoveFirst(awake, c) /\ runnable' = RemoveFirst(runnable, c)
        /\ next' = IF next = c THEN After(runnable, c) ELSE next
        /\ gone' = gone \ {c} /\ beaten' = beaten \ {c}
        /\ waiting' = LeavesIt(c)
        /\ closing' = Tail(closing)
        /\ missed' = (missed \/ (doing[c] = "lock" /\ IsAwake(c)))
        /\ UNCHANGED <<up, ops, loop, running, lock, objects>>
-----------------------------------------------------------------------------
(* The loop of the worker: http_process, kore_python_coro_run, and         *)
(* http_process again.                                                     *)
Order == IF loop = "coros" THEN runnable ELSE awake
Idle  == up /\ running = None /\ closing = <<>>

Pick ==
  /\ Idle /\ loop # "events" /\ next # None
  /\ next' = After(Order, next)
  /\ IF next \in gone THEN closing' = <<next>> /\ UNCHANGED running
                      ELSE running' = next /\ UNCHANGED closing
  /\ UNCHANGED <<up, coros, runnable, awake, gone, loop, lock, fifo, beaten, missed>>

EndPass ==
  /\ Idle /\ loop # "events" /\ next = None
  /\ loop' = CASE loop = "http"  -> "coros"
               [] loop = "coros" -> "http again"
               [] OTHER          -> "events"
  /\ next' = CASE loop = "http"  -> First(runnable)
               [] loop = "coros" -> First(awake)
               [] OTHER          -> None
  /\ UNCHANGED <<up, coros, sched, gone, closing, lock, fifo, beaten, missed>>

StartPass ==
  /\ Idle /\ loop = "events"
  /\ loop' = "http" /\ next' = First(awake)
  /\ UNCHANGED <<up, coros, sched, gone, closing, lock, fifo, beaten, missed>>

(* What happens between: a request, to the head of the requests; a free    *)
(* coroutine (kore.task_create); the timer of kore.suspend; a client goes. *)
Comes(c) ==
  /\ Idle /\ loop = "events" /\ c \in New
  /\ there' = there \cup {c}
  /\ IF c \in Requests THEN awake' = <<c>> \o awake /\ UNCHANGED runnable
                       ELSE runnable' = <<c>> \o runnable /\ UNCHANGED awake
  /\ UNCHANGED <<up, ended, ops, doing, parent, running, pass, gone, closing, lock, fifo, beaten, missed>>

SleepsOn(c) == UNCHANGED <<runnable, awake>>   \* mutant: pysuspend_wakeup does not
Resumes(c)  == Wake(c)

TimerFires(c) ==
  /\ Idle /\ loop = "events" /\ doing[c] = "suspend"
  /\ doing' = [doing EXCEPT ![c] = "due"]
  /\ Resumes(c)
  /\ UNCHANGED <<up, there, ended, ops, parent, running, pass, gone, closing, lock, fifo, beaten, missed>>

ClientGone(c) ==
  /\ Idle /\ loop = "events" /\ c \in (there \cap Requests) \ gone
  /\ gone' = gone \cup {c}
  /\ Wake(c)
  /\ UNCHANGED <<up, coros, running, pass, closing, lock, fifo, beaten, missed>>

Step(c) ==
  \/ Enter(c) \/ Exit(c) \/ Push(c) \/ Pop(c) \/ PopNow(c) \/ Suspend(c)
  \/ (\E kids \in SUBSET (Coros \ Requests) : Gather(c, kids))
  \/ LockAgain(c) \/ PopAgain(c) \/ SuspendEnds(c) \/ GatherAgain(c) \/ Ends(c)

Loop == Pick \/ EndPass \/ StartPass \/ ClosesKid \/ Closes \/ \E c \in Coros : Step(c)

Next ==
  \/ Loop
  \/ \E c \in Coros : Comes(c) \/ TimerFires(c) \/ ClientGone(c)

(* The worker goes round, and timers fire.                                 *)
Fairness ==
  /\ WF_vars(Loop)
  /\ SF_vars(\E c \in Coros : TimerFires(c))

Spec == Init /\ [][Next]_vars /\ Fairness
-----------------------------------------------------------------------------
(* At most one coroutine is in the body, the owner, and it exists; whether *)
(* it leaves, is deleted with its client or with the one that gathers it   *)
(* (python.c:268, 2169-2243).                                              *)
OneInside == up => inside = {owner} \ {None} /\ inside \subseteq there

(* Who awaits a lock or an object and sleeps is in the list of those to    *)
(* be woken, unless another one was faster after it was woken.             *)
WaitersAreListed ==
  up => \A c \in there \ beaten :
          /\ doing[c] = "lock" => IsAwake(c) \/ c \in Range(waiters)
          /\ doing[c] = "pop"  => IsAwake(c) \/ c \in Range(waiting)

(* The entries of the queue are of coroutines that are there and await an  *)
(* object: pyqueue_push wakes no freed one.                                *)
EntriesAreLive == up => \A c \in Range(waiting) : c \in there /\ doing[c] = "pop"

(* A coroutine whose gathered coroutines all ended will run, and what is   *)
(* gathered has somebody who gathers it.                                   *)
GatherersWake ==
  up /\ closing = <<>> =>
        /\ \A c \in there : doing[c] = "gather" /\ Kids(c) = {} => IsAwake(c)
        /\ \A c \in there : parent[c] # None =>
             parent[c] \in there /\ doing[parent[c]] = "gather"

(* A lock that is free, with waiters in its list, has one that was woken   *)
(* to take it; only a deleted one leaves the others asleep.                *)
FreeLockIsTaken ==
  up /\ owner = None /\ waiters # <<>> =>
    missed \/ \E c \in there : doing[c] = "lock" /\ IsAwake(c)

(* A coroutine goes on after kore.suspend, or is deleted.                  *)
Continues == \A c \in Coros : doing[c] = "suspend" ~> doing[c] \notin {"suspend", "due"} \/ ~up
=============================================================================
