------------------------------ MODULE KoreProc -------------------------------
(* kore.proc (kore-3.2.0/src/python.c): coroutines that run a process,     *)
(* read what it writes and reap it, as examples/python-async does; and the *)
(* one variable in which a worker notes a signal (kore.c:571).             *)
EXTENDS Naturals

CONSTANTS Procs,     \* struct pyproc, each with its coroutine
          MaxHangups \* bound: signals other than SIGCHLD

ProcAssumption == MaxHangups \in Nat

VARIABLES
  child,   \* the process: "none", "runs", "zombie", or "gone" once waited for
  out,     \* its standard output is open
  pid,     \* proc->pid # -1
  reaped,  \* proc->reaped
  timeo,   \* a timeout was asked for
  timer,   \* proc->timer # NULL
  exc,     \* coro->exception, with the eof of its socket op
  doing,   \* the coroutine: "none", awaits "recv" or "reap", "ended"
  awake,   \* the coroutine will run
  sig,     \* sig_recv: "none", "chld" or "hup"
  handled, \* the worker looked at sig_recv and has not cleared it
  lost,    \* a SIGCHLD was overwritten or cleared, and none was seen since
  hangups

coro == <<doing, awake, exc>>
proc == <<pid, reaped, timeo, timer>>
sigs == <<sig, handled, lost, hangups>>
vars == <<child, out, proc, coro, sigs>>

Init ==
  /\ child = [p \in Procs |-> "none"]  /\ out = [p \in Procs |-> FALSE]
  /\ pid = [p \in Procs |-> FALSE]     /\ reaped = [p \in Procs |-> FALSE]
  /\ timeo = [p \in Procs |-> FALSE]   /\ timer = [p \in Procs |-> FALSE]
  /\ exc = [p \in Procs |-> FALSE]     /\ doing = [p \in Procs |-> "none"]
  /\ awake = [p \in Procs |-> FALSE]
  /\ sig = "none" /\ handled = FALSE /\ lost = FALSE /\ hangups = 0
-----------------------------------------------------------------------------
(* python_kore_proc, and await proc.recv(), for which there is nothing yet. *)
Starts(p, withtimeout) ==
  /\ ~handled /\ doing[p] = "none"
  /\ child' = [child EXCEPT ![p] = "runs"] /\ out' = [out EXCEPT ![p] = TRUE]
  /\ pid' = [pid EXCEPT ![p] = TRUE]
  /\ timeo' = [timeo EXCEPT ![p] = withtimeout]
  /\ timer' = [timer EXCEPT ![p] = withtimeout]
  /\ doing' = [doing EXCEPT ![p] = "recv"]
  /\ UNCHANGED <<reaped, exc, awake, sigs>>

(* signal_handler: the last signal counts, and none that comes between the *)
(* look at sig_recv and its clearing.                                      *)
Noted(s) ==
  /\ sig' = s /\ UNCHANGED handled
  /\ hangups' = IF s = "hup" THEN hangups + 1 ELSE hangups
  /\ lost' = (lost \/ IF handled THEN s = "chld" ELSE sig = "chld" /\ s # "chld")

(* The process writes, which wakes who awaits it (pysocket_evt_handle), or *)
(* closes its output, or exits.                                            *)
Writes(p) ==
  /\ child[p] = "runs" /\ out[p] /\ doing[p] = "recv" /\ ~awake[p]
  /\ awake' = [awake EXCEPT ![p] = TRUE]
  /\ UNCHANGED <<child, out, proc, doing, exc, sigs>>

ClosesOutput(p) ==
  /\ child[p] = "runs" /\ out[p]
  /\ out' = [out EXCEPT ![p] = FALSE]
  /\ awake' = [awake EXCEPT ![p] = @ \/ doing[p] = "recv"]
  /\ UNCHANGED <<child, proc, doing, exc, sigs>>

Exits(p) ==
  /\ child[p] = "runs"
  /\ child' = [child EXCEPT ![p] = "zombie"]
  /\ out' = [out EXCEPT ![p] = FALSE]
  /\ awake' = [awake EXCEPT ![p] = @ \/ doing[p] = "recv"]
  /\ Noted("chld")
  /\ UNCHANGED <<proc, doing, exc>>

(* Somebody sends SIGHUP.                                                  *)
Hangup ==
  /\ hangups < MaxHangups /\ Noted("hup")
  /\ UNCHANGED <<child, out, proc, coro>>

(* kore_python_proc_reap: every child that ended, and a timer goes.        *)
KeepsPid(ended)    == pid                \* mutant: the pid stays
ForgetsPid(ended)  == [p \in Procs |-> pid[p] /\ p \notin ended]
OneOf(ended)       == {CHOOSE p \in ended : TRUE}  \* mutant: one for a signal
AllOf(ended)       == ended

ReapsThem(ended) ==
  /\ child' = [p \in Procs |-> IF p \in ended THEN "gone" ELSE child[p]]
  /\ pid' = ForgetsPid(ended)
  /\ reaped' = [p \in Procs |-> reaped[p] \/ p \in ended]
  /\ timer' = [p \in Procs |-> timer[p] /\ p \notin ended]
  /\ awake' = [p \in Procs |-> awake[p] \/ p \in ended]

(* The worker looks at sig_recv (kore_worker_entry): a SIGCHLD that it sees *)
(* makes up for all that were lost ...                                     *)
Handles ==
  LET ended == {p \in Procs : child[p] = "zombie"} IN
  /\ sig # "none" /\ ~handled
  /\ handled' = TRUE
  /\ IF sig = "chld" /\ ended # {} THEN ReapsThem(AllOf(ended))
                                   ELSE UNCHANGED <<child, pid, reaped, timer, awake>>
  /\ lost' = (lost /\ sig # "chld")
  /\ UNCHANGED <<out, timeo, doing, exc, sig, hangups>>

(* ... and clears it, with what came since.                                *)
Clears ==
  /\ handled
  /\ sig' = "none" /\ handled' = FALSE
  /\ UNCHANGED <<child, out, proc, coro, lost, hangups>>

(* pyproc_timeout.                                                         *)
TimerFires(p) ==
  /\ ~handled /\ timer[p]
  /\ timer' = [timer EXCEPT ![p] = FALSE]
  /\ exc' = [exc EXCEPT ![p] = TRUE]
  /\ awake' = [awake EXCEPT ![p] = TRUE]
  /\ UNCHANGED <<child, out, pid, reaped, timeo, doing, sigs>>

KeepsTimer(p) == timer             \* mutant: pyproc_dealloc leaves the timer
NoTimer(p)    == [timer EXCEPT ![p] = FALSE]

(* The coroutine ends, with an exception, the result or its client: with   *)
(* pyproc_dealloc, which kills a process it still has, and waits for it.   *)
Ends(p) ==
  /\ doing' = [doing EXCEPT ![p] = "ended"]
  /\ awake' = [awake EXCEPT ![p] = FALSE]
  /\ exc' = [exc EXCEPT ![p] = FALSE]
  /\ timer' = NoTimer(p)
  /\ pid' = [pid EXCEPT ![p] = FALSE]
  /\ child' = [child EXCEPT ![p] = IF pid[p] THEN "gone" ELSE @]
  /\ out' = [out EXCEPT ![p] = FALSE]
  /\ UNCHANGED <<reaped, timeo, sigs>>

NoEof(p)  == FALSE                 \* mutant: pyproc_timeout does not set eof
Raises(p) == exc[p]

(* await proc.recv(): the exception, data and recv again, or the end.      *)
Reads(p) ==
  /\ ~handled /\ awake[p] /\ doing[p] = "recv"
  /\ \/ Raises(p) /\ Ends(p)
     \/ /\ ~Raises(p) /\ out[p]
        /\ awake' = [awake EXCEPT ![p] = FALSE]
        /\ UNCHANGED <<child, out, proc, doing, exc, sigs>>
     \/ /\ ~Raises(p) /\ ~out[p]
        /\ doing' = [doing EXCEPT ![p] = "reap"]
        /\ timer' = [timer EXCEPT ![p] = FALSE]
        /\ UNCHANGED <<child, out, pid, reaped, timeo, awake, exc, sigs>>

(* await proc.reap(): pyproc_reap, above, and pyproc_op_iternext.          *)
AwaitsReap(p) ==
  /\ ~handled /\ awake[p] /\ doing[p] = "reap"
  /\ IF reaped[p] THEN Ends(p)
     ELSE /\ awake' = [awake EXCEPT ![p] = FALSE]
          /\ UNCHANGED <<child, out, proc, doing, exc, sigs>>

ClientGone(p) == ~handled /\ doing[p] \in {"recv", "reap"} /\ Ends(p)

Runs(p) == Reads(p) \/ AwaitsReap(p)
Next ==
  \/ Hangup \/ Handles \/ Clears
  \/ \E p \in Procs :
       \/ (\E b \in BOOLEAN : Starts(p, b))
       \/ Writes(p) \/ ClosesOutput(p) \/ Exits(p)
       \/ TimerFires(p) \/ Runs(p) \/ ClientGone(p)

(* The worker goes round and its timers fire; processes may run for ever.  *)
Fairness ==
  /\ WF_vars(Handles) /\ WF_vars(Clears)
  /\ \A p \in Procs : WF_vars(Runs(p)) /\ WF_vars(TimerFires(p))

Spec == Init /\ [][Next]_vars /\ Fairness
-----------------------------------------------------------------------------
(* kill(2) is sent only to a process that was not waited for: the number   *)
(* of another may be some other process by then (python.c:339, 2317).      *)
PidIsOurs == \A p \in Procs : pid[p] => child[p] \in {"runs", "zombie"}

(* A timer refers to a struct pyproc that is there and not yet reaped.     *)
TimerIsLive == \A p \in Procs : timer[p] => doing[p] = "recv" /\ pid[p]

(* A process that ended is a zombie for no longer than its SIGCHLD is      *)
(* noted.  Excluded by name, as `lost`: the signal that another overwrote, *)
(* or that came between the look at sig_recv and its clearing              *)
(* (worker.c:439-458), for as long as no later SIGCHLD was seen; until     *)
(* then nobody knows of that process, and who awaits its end hangs.        *)
EndIsSignalled ==
  ~lost => \A p \in Procs : child[p] = "zombie" => sig = "chld"

(* With a timeout, the coroutine does not read for ever.                   *)
ReadsEnd == \A p \in Procs : doing[p] = "recv" /\ timeo[p] ~> doing[p] # "recv"

(* Who awaits the end of a process that has ended goes on, whatever ended  *)
(* before it and whichever of the two was first, unless the signal is lost *)
(* as above: pyproc_reap has no timeout.                                   *)
ReapsEnd ==
  \A p \in Procs : doing[p] = "reap" /\ child[p] # "runs" ~> doing[p] # "reap" \/ lost
=============================================================================
