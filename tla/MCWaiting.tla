------------------------------ MODULE MCWaiting ------------------------------
(* Who waits, for an answer, an event or a time, each on an instance of its *)
(* own: the runs of the UDP client, and Kore's coroutines, the processes   *)
(* they read from and the timers.                                          *)
EXTENDS UdpRequest, Parts, FiniteSets, TLC

CONSTANTS c1, c2, c3,          \* UdpRequest
          Coros, Requests,     \* KorePython
          Procs,               \* KoreProc
          Timers               \* KoreTimers

(* One client that does not wait, one that waits a second, one that has    *)
(* nothing to say and waits two.                                           *)
MCSeconds == c1 :> 0 @@ c2 :> 1 @@ c3 :> 2

VARIABLES
  up, there, ended, ops, runnable, awake, deleted, loop, next, coro, closing, doing,
  parent, owner, inside, waiters, objects, waiting, beaten, nobody,
  child, out, pid, reaped, timeo, timer, exc, pydoing, pyawake, sig, handled, lost, hangups,
  clock, now, list, nextrun, interval, oneshot, fires, at, until, slow, late, early

Python == INSTANCE KorePython
  WITH running <- coro, gone <- deleted, missed <- nobody, MaxOps <- 4, MaxObjects <- 1
Proc   == INSTANCE KoreProc
  WITH doing <- pydoing, awake <- pyawake, MaxHangups <- 1
Times  == INSTANCE KoreTimers
  WITH running <- fires, pc <- at,
       Intervals <- {1, 2}, MaxWait <- 2, MaxClock <- 4, MaxSlow <- 1

(* What each module assumes of its constants.                              *)
ASSUME Python!PythonAssumption /\ Proc!ProcAssumption /\ Times!IntervalAssumption

pythonVars ==
  <<up, there, ended, ops, runnable, awake, deleted, loop, next, coro, closing, doing,
    parent, owner, inside, waiters, objects, waiting, beaten, nobody>>
procVars ==
  <<child, out, pid, reaped, timeo, timer, exc, pydoing, pyawake, sig, handled,
    lost, hangups>>
timesVars ==
  <<clock, now, list, nextrun, interval, oneshot, fires, at, until, slow, late, early>>
waitingVars == <<part, vars, pythonVars, procVars, timesVars>>

WaitingInit ==
  /\ part \in {"udp", "python", "proc", "timers"}
  /\ Init /\ Python!Init /\ Proc!Init /\ Times!Init
  /\ part # "udp" => use_answer = "none"

Is(p) == part = p /\ UNCHANGED part
WaitingNext ==
  \/ Is("udp") /\ Next /\ UNCHANGED <<pythonVars, procVars, timesVars>>
  \/ Is("python") /\ Python!Next /\ UNCHANGED <<vars, procVars, timesVars>>
  \/ Is("proc") /\ Proc!Next /\ UNCHANGED <<vars, pythonVars, timesVars>>
  \/ Is("timers") /\ Times!Next /\ UNCHANGED <<vars, pythonVars, procVars>>

(* The fairness of each module, for the behaviours of its part.            *)
UdpFairness ==
  \A c \in Client : WF_vars(part = "udp" /\ (Send(c) \/ Recv(c) \/ Sleep(c)))
PythonFairness ==
  /\ WF_pythonVars(part = "python" /\ Python!Loop)
  /\ SF_pythonVars(part = "python" /\ \E c \in Coros : Python!TimerFires(c))
ProcFairness ==
  /\ WF_procVars(part = "proc" /\ Proc!Handles) /\ WF_procVars(part = "proc" /\ Proc!Clears)
  /\ \A p \in Procs : /\ WF_procVars(part = "proc" /\ Proc!Runs(p))
                      /\ WF_procVars(part = "proc" /\ Proc!TimerFires(p))
TimesFairness ==
  /\ WF_timesVars(part = "timers" /\ Times!BeginPass)
  /\ WF_timesVars(part = "timers" /\ (Times!Run \/ Times!RunEnds))
  /\ WF_timesVars(part = "timers" /\ Times!Wait)
  /\ WF_timesVars(part = "timers" /\ clock >= until /\ Times!Event)
  /\ WF_timesVars(part = "timers" /\ at = "wait" /\ Times!Passes)

WaitingSpec ==
  /\ WaitingInit /\ [][WaitingNext]_waitingVars
  /\ UdpFairness /\ PythonFairness /\ ProcFairness /\ TimesFairness
-----------------------------------------------------------------------------
(* Coroutines: one at a time has the lock, those that wait for the lock,   *)
(* the queue or gather are listed, alive and woken, and a coroutine whose  *)
(* wait is over goes on (pylock_do_release, pyqueue_push,                  *)
(* pygather_reap_coro, kore_python_coro_run).                              *)
CoroutinesGoOn ==
  /\ [](/\ Python!OneInside /\ Python!WaitersAreListed /\ Python!EntriesAreLive
        /\ Python!GatherersWake /\ Python!FreeLockIsTaken)
  /\ Python!Continues

(* Processes: a pid that is kept is of a process of ours, a timer is of a  *)
(* live one, who reads with a timeout goes on, and so does who awaits the  *)
(* end of a process that ended - unless its SIGCHLD was overwritten or     *)
(* cleared unseen and no other was seen since (`lost`): then the end is    *)
(* missed and the coroutine hangs (kore_python_proc_reap, pyproc_timeout,  *)
(* pyproc_reap; worker.c:439-458).                                         *)
ProcessesEnd ==
  /\ [](Proc!PidIsOurs /\ Proc!TimerIsLive /\ Proc!EndIsSignalled)
  /\ Proc!ReadsEnd /\ Proc!ReapsEnd

(* Timers: they are in the order of their time, the wait for events does   *)
(* not go on beyond one, and each that is listed runs or is removed        *)
(* (kore_timer_add, kore_timer_run).                                       *)
TimersRun == Times!TimersRun
=============================================================================
