------------------------------ MODULE KoreTimers ------------------------------
(* The timers of a worker (timer.c) in its loop: kore_timer_run, then the  *)
(* wait for events for as long as it says, then the events; a callback, or *)
(* a page while the events are handled, adds timers and removes them, as   *)
(* kore.timer, suspend and the processes of the Python interface do.  Time *)
(* is in milliseconds; it passes in the wait, and where the code is slow.  *)
EXTENDS Naturals, Sequences, SequencesExt, FiniteSetsExt

CONSTANTS
  Timers, None,
  Intervals,     \* at least 1: kore_timer_run would never end for one of 0
  MaxWait,       \* the loop's netwait, 100
  MaxClock, MaxSlow   \* bounds: the time of the instance, and outside the wait

IntervalAssumption ==
  Intervals \subseteq Nat \ {0} /\ MaxWait \in Nat \ {0} /\ None \notin Timers

VARIABLES
  clock, now,    \* the time; what the pass takes it to be
  list,          \* kore_timers
  nextrun, interval, oneshot,   \* of each timer
  running,       \* the timer whose callback runs
  pc,            \* "pass", "callback", "wait" or "events"
  until,         \* when the wait ends
  slow, late,    \* time spent outside the wait: in all, since the pass began
  early          \* an event has ended a wait since the clock last moved

timers == <<list, nextrun, interval, oneshot, running>>
vars   == <<clock, now, timers, pc, until, slow, late, early>>

Listed == ToSet(list)
Init ==
  /\ clock = 0 /\ now = 0 /\ list = <<>>
  /\ nextrun = [t \in Timers |-> 0] /\ interval = [t \in Timers |-> 1]
  /\ oneshot = [t \in Timers |-> TRUE] /\ running = None
  /\ pc = "events" /\ until = 0 /\ slow = 0 /\ late = 0 /\ early = FALSE

(* Before the first timer that runs later: after those of the same time.   *)
AtTheEnd(t, at) == Append(list, t)       \* mutant: not in order
Inserted(t, at) ==
  LET n == Cardinality({i \in DOMAIN list : nextrun[list[i]] <= at})
  IN SubSeq(list, 1, n) \o <<t>> \o SubSeq(list, n + 1, Len(list))

(* kore_timer_add and kore_timer_remove.                                   *)
Add(t, i, once) ==
  /\ t \notin Listed \cup {running} /\ clock + i <= MaxClock
  /\ nextrun' = [nextrun EXCEPT ![t] = clock + i]
  /\ interval' = [interval EXCEPT ![t] = i] /\ oneshot' = [oneshot EXCEPT ![t] = once]
  /\ list' = Inserted(t, clock + i)
RemoveTimer(t) ==
  /\ t \in Listed
  /\ list' = RemoveFirst(list, t)
  /\ UNCHANGED <<nextrun, interval, oneshot>>

(* A callback does not remove its own timer, which is in no list.          *)
Calls ==
  /\ pc \in {"callback", "events"}
  /\ \/ \E t \in Timers, i \in Intervals, once \in BOOLEAN : Add(t, i, once)
     \/ \E t \in Timers : RemoveTimer(t)
  /\ UNCHANGED <<clock, now, running, pc, until, slow, late, early>>

(* The loop asks for the time.                                             *)
BeginPass ==
  /\ pc = "events" /\ pc' = "pass" /\ now' = clock /\ late' = 0
  /\ UNCHANGED <<clock, timers, until, slow, early>>

Due == list # <<>> /\ nextrun[Head(list)] <= now
Run ==
  /\ pc = "pass" /\ Due
  /\ running' = Head(list) /\ list' = Tail(list)
  /\ pc' = "callback"
  /\ UNCHANGED <<clock, now, nextrun, interval, oneshot, until, slow, late, early>>
RunEnds ==
  /\ pc = "callback"
  /\ IF oneshot[running]
     THEN UNCHANGED <<list, nextrun>>
     ELSE /\ nextrun' = [nextrun EXCEPT ![running] = now + interval[running]]
          /\ list' = Inserted(running, now + interval[running])
  /\ running' = None /\ pc' = "pass"
  /\ UNCHANGED <<clock, now, interval, oneshot, until, slow, late, early>>

(* What kore_timer_run returns: a millisecond less than there is, unless   *)
(* that is one; without timers, a second.                                  *)
Wakeup  == IF list = <<>> THEN 10 * MaxWait ELSE nextrun[Head(list)] - now
NetWait == Min({MaxWait, IF Wakeup > 1 THEN Wakeup - 1 ELSE Wakeup})
Wait ==
  /\ pc = "pass" /\ ~Due
  /\ pc' = "wait" /\ until' = clock + NetWait
  /\ UNCHANGED <<clock, now, timers, slow, late, early>>

(* kore_platform_event_wait: its time is over, or an event; here at most   *)
(* one a millisecond.                                                      *)
Event ==
  /\ pc = "wait" /\ pc' = "events"
  /\ (clock >= until /\ UNCHANGED early) \/ (clock < until /\ ~early /\ early' = TRUE)
  /\ UNCHANGED <<clock, now, timers, until, slow, late>>
Passes ==
  /\ clock < MaxClock /\ clock' = clock + 1 /\ early' = FALSE
  /\ \/ pc = "wait" /\ clock < until /\ UNCHANGED <<slow, late>>
     \/ pc # "wait" /\ slow < MaxSlow /\ slow' = slow + 1 /\ late' = late + 1
  /\ UNCHANGED <<now, timers, pc, until>>

Next == Calls \/ BeginPass \/ Run \/ RunEnds \/ Wait \/ Event \/ Passes

(* The loop goes on, a wait ends when its time is over, and time passes.   *)
Fairness ==
  /\ WF_vars(BeginPass) /\ WF_vars(Run \/ RunEnds) /\ WF_vars(Wait)
  /\ WF_vars(clock >= until /\ Event) /\ WF_vars(pc = "wait" /\ Passes)
Spec == Init /\ [][Next]_vars /\ Fairness
-----------------------------------------------------------------------------
InOrder ==
  /\ IsInjective(list) /\ running \notin Listed
  /\ \A i, j \in DOMAIN list : i < j => nextrun[list[i]] <= nextrun[list[j]]
NoneWaits == pc = "wait" => \A t \in Listed : until <= nextrun[t] + late

(* The timers are in the order of their time; the wait for events never    *)
(* goes on beyond the time of one by more than what the callbacks of this  *)
(* pass took, and a timer that is in the list runs, or is removed, whether *)
(* callbacks and pages add and remove others or not (kore_timer_add,       *)
(* kore_timer_run, kore_worker_entry).                                     *)
TimersRun ==
  /\ [](InOrder /\ NoneWaits)
  /\ \A t \in Timers : (t \in Listed /\ nextrun[t] + MaxSlow <= MaxClock) ~> t \notin Listed
=============================================================================
