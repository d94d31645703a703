---------------------------- MODULE KoreWorkers ----------------------------
(* Kore's processes: the parent, the key manager and the workers           *)
(* (kore-3.2.0/src/worker.c, kore.c, linux.c).  The parent forks the       *)
(* others, waits for signals, replaces a worker that died and stops them   *)
(* all.  The workers take turns at accepting connections: a lock in shared *)
(* memory says whose turn it is.  Signals are one variable per process,    *)
(* sig_recv, which the handler overwrites and the loops set to 0.          *)
EXTENDS Naturals, FiniteSets, FiniteSetsExt

CONSTANTS Workers,     \* the workers there may be, without the key manager
          Keymgr,      \* KORE_WORKER_KEYMGR
          None,        \* the pid 0 of accept_lock->current
          MaxConns,    \* worker_max_connections
          Threshold,   \* worker_accept_threshold
          MaxClients,  \* bound: clients that wait or are connected
          MaxTrouble,  \* bound: processes killed and signals sent from outside
          Troubles     \* what may go wrong: kinds of Trouble

ASSUME WorkersAssumption ==
  /\ Keymgr \notin Workers /\ None \notin Workers \cup {Keymgr}
  /\ Cardinality(Workers) > 0
  /\ {MaxConns, Threshold, MaxClients, MaxTrouble} \subseteq Nat
  /\ MaxConns > 0 /\ Threshold > 0

Procs   == Workers \cup {Keymgr}
Signals == {"HUP", "TERM", "CHLD"}    \* TERM: also QUIT, INT; HUP: also USR1
AdminSignals == {"HUP", "TERM"}
(* A kill at any place, a kill inside the lock's two-step windows, a signal *)
(* to the parent.                                                          *)
Trouble == {"kill", "kill in window", "admin"}

VARIABLES
  workers,   \* worker_count of the configuration, as a set
  pc,        \* where each process is; "gone" once it is reaped
  listed,    \* kw->pid # 0, in shared memory
  hasLock,   \* kw->has_lock, in shared memory
  lock,      \* accept_lock->lock
  current,   \* accept_lock->current
  sig,       \* sig_recv of each process
  accepting, \* had_lock: the listeners are in the worker's epoll set
  conns,     \* worker_active_connections
  quit,      \* the local quit of the loops
  psig,      \* sig_recv of the parent
  parent,    \* where the parent is
  waiting,   \* connections in the backlog of the listeners
  trouble    \* kills and signals so far

shm    == <<listed, hasLock, lock, current>>
locals == <<sig, accepting, conns, quit>>
world  == <<waiting, trouble>>
vars   == <<workers, pc, shm, locals, psig, parent, world>>

Solo     == Cardinality(workers) = 1          \* WORKER_SOLO_COUNT
Alive(p) == pc[p] \notin {"exited", "crashed", "gone"}
Dead(p)  == pc[p] \in {"exited", "crashed"}
Windows  == {"took", "freeing busy", "freeing full"}   \* locked, and nobody named
Freed    == {"freed busy", "freed full"}   \* unlocked, and has_lock still 1

Init ==
  /\ workers \in (SUBSET Workers) \ {{}}
  /\ pc = [p \in Procs |-> IF p \in workers \cup {Keymgr} THEN "setup" ELSE "gone"]
  /\ listed = [p \in Procs |-> p \in workers \cup {Keymgr}]
  /\ hasLock = [w \in Workers |-> FALSE]
  /\ lock = 0 /\ current = None
  /\ sig = [p \in Procs |-> "none"]
  /\ accepting = [w \in Workers |-> FALSE]
  /\ conns = [w \in Workers |-> 0]
  /\ quit = [p \in Procs |-> FALSE]
  /\ psig = "none" /\ parent = "loop"
  /\ waiting = 0  /\ trouble = 0
-----------------------------------------------------------------------------
(* The accept lock.                                                        *)

(* http_request_limit, the other limit, is never reached here.             *)
Full(w) == conns[w] >= MaxConns

(* kore_signal_setup in the child: what came since the fork is forgotten.  *)
SetUp(p) ==
  /\ pc[p] = "setup"
  /\ pc' = [pc EXCEPT ![p] = "top"]
  /\ sig' = [sig EXCEPT ![p] = "none"]
  /\ UNCHANGED <<shm, accepting, conns, quit, psig, parent, world>>

(* The top of the loop: have the lock already, have it without asking when *)
(* alone, do not want it when full, or try for it.  next_lock is time and  *)
(* may keep any worker from trying this time around.                       *)
GoesOn(w) ==
  /\ pc' = [pc EXCEPT ![w] = "wait"]
  /\ UNCHANGED <<shm, locals, psig, parent, world>>

TakesAlone(w) ==
  /\ Solo /\ ~hasLock[w]
  /\ hasLock' = [hasLock EXCEPT ![w] = TRUE]
  /\ accepting' = [accepting EXCEPT ![w] = TRUE]
  /\ pc' = [pc EXCEPT ![w] = "wait"]
  /\ UNCHANGED <<listed, lock, current, sig, conns, quit, psig, parent, world>>

LockIsFree == lock = 0

TryLock(w) ==
  /\ ~Solo /\ ~hasLock[w] /\ ~Full(w) /\ LockIsFree
  /\ lock' = 1
  /\ pc' = [pc EXCEPT ![w] = "took"]
  /\ UNCHANGED <<listed, hasLock, current, locals, psig, parent, world>>

Obtain(w) ==
  /\ pc[w] = "top"
  /\ \/ TakesAlone(w) \/ TryLock(w)
     \/ (hasLock[w] \/ Full(w) \/ ~LockIsFree) /\ GoesOn(w)

NoListeners(w) == accepting      \* mutant: enable_accept is not called
Listeners(w)   == [accepting EXCEPT ![w] = TRUE]

(* worker_trylock swaps the lock and then names its owner; has_lock is the *)
(* third store, of worker_acceptlock_obtain.                               *)
NamesOwner(w) ==
  /\ pc[w] = "took"
  /\ current' = w
  /\ pc' = [pc EXCEPT ![w] = "named"]
  /\ UNCHANGED <<listed, hasLock, lock, locals, psig, parent, world>>

Took(w) ==
  /\ pc[w] = "named"
  /\ hasLock' = [hasLock EXCEPT ![w] = TRUE]
  /\ accepting' = Listeners(w)
  /\ pc' = [pc EXCEPT ![w] = "wait"]
  /\ UNCHANGED <<listed, lock, current, sig, conns, quit, psig, parent, world>>

(* worker_unlock: current is cleared in one store, the lock in the next;   *)
(* has_lock is cleared by who called it, when the lock may be another's.   *)
ClearsCurrent(w, next) ==
  /\ current' = None
  /\ pc' = [pc EXCEPT ![w] = next]
  /\ UNCHANGED <<listed, hasLock, lock>>

FreesLock == 0

Frees(w, from, next) ==
  /\ pc[w] = from
  /\ lock' = FreesLock
  /\ pc' = [pc EXCEPT ![w] = next]
  /\ UNCHANGED <<listed, hasLock, current, locals, psig, parent, world>>

Drops(w, from, next) ==
  /\ pc[w] = from
  /\ hasLock' = [hasLock EXCEPT ![w] = FALSE]
  /\ pc' = [pc EXCEPT ![w] = next]
  /\ UNCHANGED <<listed, lock, current, locals, psig, parent, world>>

FreesBusy(w) == Frees(w, "freeing busy", "freed busy")
DropsBusy(w) == Drops(w, "freed busy", "waited")
FreesFull(w) == Frees(w, "freeing full", "freed full")
DropsFull(w) == Drops(w, "freed full", "released")
-----------------------------------------------------------------------------
(* One pass of the loop.                                                   *)

(* What kore_listener_accept takes from the backlog in one call.           *)
Accepts(w) ==
  IF accepting[w] THEN Min({waiting, Threshold, MaxConns - conns[w]}) ELSE 0

(* The loop asks for the threshold before it asks for the next connection. *)
MakesBusy(w) ==
  /\ accepting[w] /\ hasLock[w] /\ ~Solo
  /\ Accepts(w) = Threshold /\ conns[w] + Accepts(w) < MaxConns

(* kore_platform_event_wait: connections are accepted and others closed.   *)
EventWait(w) ==
  /\ pc[w] = "wait"
  /\ waiting' = waiting - Accepts(w)
  /\ \E c \in 0..(conns[w] + Accepts(w)) :
       /\ c >= Accepts(w)
       /\ conns' = [conns EXCEPT ![w] = c]
  /\ IF MakesBusy(w) THEN ClearsCurrent(w, "freeing busy")
     ELSE /\ pc' = [pc EXCEPT ![w] = "waited"]
          /\ UNCHANGED shm
  /\ UNCHANGED <<sig, accepting, quit, psig, parent, trouble>>

(* worker_acceptlock_release: event_wait answers for its last event alone, *)
(* and 1 only when that one was an error.                                  *)
Release(w) ==
  /\ pc[w] = "waited"
  /\ \/ /\ hasLock[w] /\ ~Solo /\ Full(w)
        /\ ClearsCurrent(w, "freeing full")
     \/ /\ pc' = [pc EXCEPT ![w] = "released"]
        /\ UNCHANGED shm
  /\ UNCHANGED <<locals, psig, parent, world>>

NeverStops(w)     == accepting[w]   \* mutant: the listeners stay in the set
StopsAccepting(w) == accepting[w] /\ hasLock[w]

(* disable_accept, then the signal: the switch reads sig_recv ...          *)
Signalled(w) ==
  /\ pc[w] = "released"
  /\ accepting' = [accepting EXCEPT ![w] = StopsAccepting(w)]
  /\ quit' = [quit EXCEPT ![w] = @ \/ sig[w] = "TERM"]
  /\ pc' = [pc EXCEPT ![w] = IF sig[w] = "none" THEN "end" ELSE "heard"]
  /\ UNCHANGED <<shm, sig, conns, psig, parent, world>>

(* ... and what came meanwhile, while modules were reloaded say, goes too. *)
ForgetSignal(w) ==
  /\ pc[w] = "heard"
  /\ sig' = [sig EXCEPT ![w] = "none"]
  /\ pc' = [pc EXCEPT ![w] = "end"]
  /\ UNCHANGED <<shm, accepting, conns, quit, psig, parent, world>>

(* SIGCHLD reaches the parent when a process ends.                         *)
Tells(s) == psig' = IF parent = "done" THEN psig ELSE s

EndOfPass(w) ==
  /\ pc[w] = "end"
  /\ IF quit[w] THEN pc' = [pc EXCEPT ![w] = "exited"] /\ Tells("CHLD")
     ELSE pc' = [pc EXCEPT ![w] = "top"] /\ UNCHANGED psig
  /\ UNCHANGED <<shm, locals, parent, world>>

WorkerStep(w) ==
  \/ SetUp(w) \/ Obtain(w) \/ NamesOwner(w) \/ Took(w)
  \/ EventWait(w) \/ FreesBusy(w) \/ DropsBusy(w)
  \/ Release(w) \/ FreesFull(w) \/ DropsFull(w)
  \/ Signalled(w) \/ ForgetSignal(w) \/ EndOfPass(w)

(* The loop of kore_keymgr_run.                                            *)
KeymgrHears ==
  /\ pc[Keymgr] = "top" /\ sig[Keymgr] # "none"
  /\ quit' = [quit EXCEPT ![Keymgr] = @ \/ sig[Keymgr] = "TERM"]
  /\ pc' = [pc EXCEPT ![Keymgr] = "heard"]
  /\ UNCHANGED <<shm, sig, accepting, conns, psig, parent, world>>

KeymgrStep ==
  SetUp(Keymgr) \/ KeymgrHears \/ ForgetSignal(Keymgr) \/ EndOfPass(Keymgr)
-----------------------------------------------------------------------------
(* The parent.                                                             *)

(* kill for every pid of the table; pid 0 is the whole process group.      *)
Dispatch(s) ==
  sig' = [p \in Procs |->
            IF Alive(p) /\ (listed[p] \/ \E q \in workers \cup {Keymgr} : ~listed[q])
              THEN s ELSE sig[p]]

LeavesLock(w) == <<lock, current>>   \* mutant: the dead worker keeps the lock
AfterDeath(w) == IF current = w THEN <<0, None>> ELSE <<lock, current>>

(* kore_worker_spawn over the entry of the worker that died.               *)
Respawn(w) ==
  /\ pc' = [pc EXCEPT ![w] = "setup"]
  /\ hasLock' = [hasLock EXCEPT ![w] = FALSE]
  /\ lock' = AfterDeath(w)[1] /\ current' = AfterDeath(w)[2]
  /\ sig' = [sig EXCEPT ![w] = psig]
  /\ accepting' = [accepting EXCEPT ![w] = FALSE]
  /\ conns' = [conns EXCEPT ![w] = 0]
  /\ quit' = [quit EXCEPT ![w] = FALSE]
  /\ UNCHANGED <<listed, psig>>

(* kore_worker_wait(0): at most one process is reaped; nobody has exited by *)
(* itself, for the parent is not yet stopping them.                        *)
Reap(p) ==
  \/ pc[p] = "crashed" /\ p = Keymgr
     /\ listed' = [listed EXCEPT ![p] = FALSE]
     /\ pc' = [pc EXCEPT ![p] = "gone"]
     /\ psig' = "TERM"                              \* raise(SIGTERM)
     /\ UNCHANGED <<hasLock, lock, current, locals>>
  \/ pc[p] = "crashed" /\ p \in Workers /\ Respawn(p)

ParentWaits ==
  \/ \E p \in Procs : Dead(p) /\ Reap(p)
  \/ (\A p \in Procs : ~Dead(p)) /\ UNCHANGED <<pc, shm, locals, psig>>

ParentHears ==
  /\ parent = "loop" /\ psig # "none"
  /\ \/ /\ psig = "HUP"
        /\ Dispatch(psig)
        /\ parent' = "heard"
        /\ UNCHANGED <<pc, shm, accepting, conns, quit, psig>>
     \/ /\ psig = "TERM"
        /\ Dispatch(psig)
        /\ parent' = "stopping"
        /\ UNCHANGED <<pc, shm, accepting, conns, quit, psig>>
     \/ /\ psig = "CHLD"
        /\ ParentWaits
        /\ parent' = "heard"
  /\ UNCHANGED world

(* sig_recv = 0 at the end of the switch.                                  *)
ParentForgets ==
  /\ parent = "heard"
  /\ parent' = "loop" /\ psig' = "none"
  /\ UNCHANGED <<pc, shm, locals, world>>

KeepsPid  == TRUE     \* mutant: the pid stays in the table
ClearsPid == FALSE

(* kore_worker_shutdown: reap until every pid of the table is 0.           *)
ParentStops ==
  /\ parent = "stopping"
  /\ \/ /\ \A p \in Procs : ~listed[p]
        /\ parent' = "done"
        /\ UNCHANGED <<pc, listed>>
     \/ \E p \in Procs :
          /\ Dead(p)
          /\ listed' = [listed EXCEPT ![p] = ClearsPid]
          /\ pc' = [pc EXCEPT ![p] = "gone"]
          /\ UNCHANGED parent
  /\ UNCHANGED <<hasLock, lock, current, locals, psig, world>>

ParentStep == ParentHears \/ ParentForgets \/ ParentStops
-----------------------------------------------------------------------------
(* What comes from outside.                                                *)

Arrives ==
  /\ waiting + MapThenSumSet(LAMBDA w : conns[w], {w \in Workers : Alive(w)}) < MaxClients
  /\ waiting' = waiting + 1
  /\ UNCHANGED <<pc, shm, locals, psig, parent, trouble>>

(* A process dies: a signal of its own making, or fatal().                 *)
Dies(p) ==
  /\ Alive(p) /\ trouble < MaxTrouble
  /\ (IF pc[p] \in Windows THEN "kill in window" ELSE "kill") \in Troubles
  /\ trouble' = trouble + 1
  /\ pc' = [pc EXCEPT ![p] = "crashed"]
  /\ Tells("CHLD")
  /\ UNCHANGED <<shm, locals, parent, waiting>>

(* Someone signals the parent, or a worker's KORE_MSG_SHUTDOWN makes it    *)
(* raise SIGQUIT: kore_signal overwrites sig_recv.                         *)
Admin(s) ==
  /\ "admin" \in Troubles /\ trouble < MaxTrouble /\ parent \in {"loop", "heard"}
  /\ trouble' = trouble + 1
  /\ psig' = s
  /\ UNCHANGED <<pc, shm, locals, parent, waiting>>

Next ==
  /\ \/ \E w \in Workers : WorkerStep(w)
     \/ KeymgrStep \/ ParentStep \/ Arrives
     \/ \E p \in Procs : Dies(p)
     \/ \E s \in AdminSignals : Admin(s)
  /\ UNCHANGED workers

(* Every process runs; whether anyone comes, dies or signals is open.      *)
Fairness ==
  /\ \A w \in Workers : WF_vars(WorkerStep(w) /\ UNCHANGED workers)
  /\ WF_vars(KeymgrStep /\ UNCHANGED workers)
  /\ WF_vars(ParentStep /\ UNCHANGED workers)

Spec == Init /\ [][Next]_vars /\ Fairness
-----------------------------------------------------------------------------
TypeOK ==
  /\ pc \in [Procs -> {"setup", "top", "took", "named", "wait", "waited", "released",
                      "heard", "end", "exited", "crashed", "gone"}
                     \cup Windows \cup Freed]
  /\ listed \in [Procs -> BOOLEAN] /\ hasLock \in [Workers -> BOOLEAN]
  /\ lock \in {0, 1} /\ current \in Workers \cup {None}
  /\ sig \in [Procs -> Signals \cup {"none"}] /\ psig \in Signals \cup {"none"}
  /\ accepting \in [Workers -> BOOLEAN] /\ quit \in [Procs -> BOOLEAN]
  /\ conns \in [Workers -> 0..MaxConns]
  /\ parent \in {"loop", "heard", "stopping", "done"}
  /\ waiting \in Nat /\ trouble \in 0..MaxTrouble

(* The worker that waits with the listeners in its epoll set is the one    *)
(* the lock names, so that no two wait with them, through every hand-over, *)
(* death and replacement; and of two live workers that both think they     *)
(* have the lock one has just freed it (worker.c:390-420, 604, 633, 672-689). *)
Turns ==
  \A w \in Workers :
    /\ pc[w] = "wait" /\ accepting[w] => hasLock[w]
    /\ hasLock[w] /\ ~Solo /\ Alive(w) /\ pc[w] \notin Windows \cup Freed =>
         lock = 1 /\ current = w
    /\ \A v \in Workers \ {w} :
         Alive(v) /\ Alive(w) /\ hasLock[v] /\ hasLock[w] /\ ~Solo =>
           {pc[v], pc[w]} \cap Freed # {}

(* While the parent is not stopping, a lock that is taken is taken by      *)
(* somebody who will free it, or whose death the parent has yet to reap    *)
(* (worker.c:567-569): nobody is left to wait for a lock without an owner. *)
LockNotLost ==
  parent \in {"loop", "heard"} /\ lock = 1 =>
    \E w \in Workers : pc[w] \in Windows \/ (current = w /\ pc[w] \notin {"exited", "gone", "setup"})

(* The lock for accepting: one worker has the turn, and a lock that is     *)
(* taken has somebody who will release it, also after its owner died       *)
(* (worker_acceptlock_obtain, worker_acceptlock_release, kore_worker_wait). *)
LockIsRight == TypeOK /\ Turns /\ LockNotLost

(* A process that died and that no signal will remind the parent of.       *)
Unheard == parent = "loop" /\ psig = "none" /\ \E p \in Procs : Dead(p)

(* Clients in the backlog are accepted for as long as there are any, unless *)
(* the server is stopping, a worker is at one of its limits (it may keep    *)
(* the lock, kore.c:487) or a death went unheard (kore.c:569, worker.c:517).*)
WaitingServed ==
  \/ []<>(waiting = 0 \/ Unheard \/ parent \in {"stopping", "done"} \/ \E w \in Workers : Full(w))
  \/ []<><<waiting' < waiting>>_vars

(* Every live process has the signal to stop and will read it, and the     *)
(* table lists nobody who is gone.                                         *)
AllToldToStop ==
  /\ parent = "stopping"
  /\ \A p \in Procs :
       /\ Alive(p) => quit[p] \/ (sig[p] = "TERM" /\ pc[p] \notin {"setup", "heard"})
       /\ pc[p] = "gone" => ~listed[p]

(* From there the parent reaps every process and ends (worker.c:183-214).  *)
StopsWhenHeard == AllToldToStop ~> parent = "done"
=============================================================================
