------------------------- MODULE KoreProcessesProofs ------------------------
(* Theorems about the processes of Kore: the workers and their lock        *)
(* (KoreWorkers), the processes of coroutines (KoreProc), and the bodies   *)
(* of requests that a worker reads (RequestBodies).  For any number of     *)
(* workers, clients, signals and deaths, and bodies of any parts that are  *)
(* read in any pieces.                                                     *)
EXTENDS KoreWorkers, RequestBodies, ListFacts, Naturals, FiniteSets, TLAPS

CONSTANTS CoroutinesProcs, MaxHangups

VARIABLES child, out, pid, reaped, timeo, timer, exc, doing, awake,
          coroutinesSig, handled, lost, hangups

Coroutines == INSTANCE KoreProc WITH Procs <- CoroutinesProcs, sig <- coroutinesSig

\* The lock as its holders know it.
Idle == current # None => lock = 1

\* A process inside worker_trylock or worker_unlock: only with company, with
\* the lock taken and no name on it, and only one at a time.
InWindow ==
  \A w \in Workers :
    pc[w] \in Windows =>
      /\ ~Solo /\ lock = 1 /\ current = None
      /\ \A v \in Workers : pc[v] \in Windows => v = w

\* Who has named itself and not yet noted that it has the lock.
Naming ==
  \A w \in Workers : pc[w] = "named" => ~Solo /\ lock = 1 /\ current = w

\* has_lock is true of whom the lock names, of who is about to free it, and
\* of who has just freed it.
Named ==
  \A w \in Workers :
    hasLock[w] /\ ~Solo /\ Alive(w) /\ pc[w] \notin Windows \cup Freed =>
      lock = 1 /\ current = w

\* Where had_lock is set, so is has_lock.
Listening ==
  \A w \in Workers :
    /\ pc[w] \in {"setup", "top", "wait", "heard", "end"} /\ accepting[w] => hasLock[w]
    /\ pc[w] \in {"took", "named"} => ~accepting[w]

\* Nobody stops before the parent does.
NoneStops ==
  parent \in {"loop", "heard"} =>
    \A p \in Procs : sig[p] # "TERM" /\ ~quit[p] /\ pc[p] # "exited"

WorkersInv == TypeOK /\ Idle /\ InWindow /\ Naming /\ Named /\ Listening /\ NoneStops

LEMMA ProcsOf ==
  /\ Keymgr \in Procs /\ Keymgr \notin Workers /\ None \notin Workers
  /\ \A w \in Workers : w \in Procs /\ w # Keymgr /\ w # None
  /\ MaxConns \in Nat /\ Threshold \in Nat /\ MaxTrouble \in Nat
  BY WorkersAssumption DEF Procs

\* FreesLock is not the value the lock has while taken.
LEMMA ZeroOne == 0 # 1
  OBVIOUS

LEMMA MinOf ==
  ASSUME NEW a \in Int, NEW b \in Int, NEW c \in Int
  PROVE  /\ Min({a, b, c}) \in {a, b, c}
         /\ Min({a, b, c}) <= a /\ Min({a, b, c}) <= b /\ Min({a, b, c}) <= c
  <1>1. \E x \in {a, b, c} : \A y \in {a, b, c} : x <= y
    <2>1. CASE a <= b /\ a <= c
      BY <2>1
    <2>2. CASE b <= a /\ b <= c
      BY <2>2
    <2>3. CASE c <= a /\ c <= b
      BY <2>3
    <2>4. QED
      BY <2>1, <2>2, <2>3
  <1>2. QED
    BY <1>1 DEF Min

\* One pass takes no more than there is, and no more than fits.
LEMMA AcceptsOf ==
  ASSUME TypeOK, NEW w \in Workers
  PROVE  /\ Accepts(w) \in Nat /\ Accepts(w) <= waiting
         /\ conns[w] + Accepts(w) <= MaxConns
  <1>1. /\ waiting \in Int /\ waiting >= 0 /\ Threshold \in Int /\ Threshold >= 0
        /\ conns[w] \in Int /\ conns[w] >= 0 /\ MaxConns \in Int
        /\ MaxConns - conns[w] \in Int /\ MaxConns - conns[w] >= 0
    <2>1. waiting \in Nat /\ conns[w] \in 0..MaxConns
      BY DEF TypeOK
    <2>2. QED
      BY <2>1, ProcsOf
  <1>2. CASE accepting[w]
    <2> DEFINE least == Min({waiting, Threshold, MaxConns - conns[w]})
    <2>1. /\ least \in {waiting, Threshold, MaxConns - conns[w]}
          /\ least <= waiting /\ least <= MaxConns - conns[w]
      BY <1>1, MinOf
    <2>2. Accepts(w) = least
      BY <1>2 DEF Accepts
    <2> HIDE DEF least
    <2>3. QED
      BY <1>1, <2>1, <2>2
  <1>3. CASE ~accepting[w]
    BY <1>1, <1>3 DEF Accepts
  <1>4. QED
    BY <1>2, <1>3

LEMMA InitWorkers == Init => WorkersInv
  <1> SUFFICES ASSUME Init PROVE WorkersInv
    OBVIOUS
  <1>1. TypeOK
    BY ProcsOf DEF Init, TypeOK, Signals, Procs
  <1>2. Idle /\ InWindow /\ Naming /\ Named /\ Listening /\ NoneStops
    BY ProcsOf DEF Init, Idle, InWindow, Naming, Named, Listening, NoneStops, Windows, Freed, Procs
  <1>3. QED
    BY <1>1, <1>2 DEF WorkersInv

LEMMA SetUpStep ==
  ASSUME WorkersInv, NEW p \in Procs, SetUp(p), UNCHANGED workers
  PROVE  WorkersInv'
  <1>1. TypeOK'
    BY DEF WorkersInv, TypeOK, SetUp, shm, world
  <1>2. (Idle /\ InWindow /\ Naming /\ Named /\ Listening /\ NoneStops)'
    BY ProcsOf DEF WorkersInv, TypeOK, SetUp, shm, world, Solo, Alive, Windows, Freed,
                   Idle, InWindow, Naming, Named, Listening, NoneStops
  <1>3. QED
    BY <1>1, <1>2 DEF WorkersInv

LEMMA TryLockStep ==
  ASSUME WorkersInv, NEW w \in Workers, pc[w] = "top", TryLock(w), UNCHANGED workers
  PROVE  WorkersInv'
  <1>1. lock # 1 /\ ~hasLock[w]
    <2>1. lock = 0 /\ ~hasLock[w]
      BY DEF TryLock, LockIsFree
    <2>2. QED
      BY <2>1
  <1>2. /\ current = None /\ ~accepting[w]
        /\ \A v \in Workers : pc[v] \notin Windows
    BY <1>1 DEF WorkersInv, Idle, InWindow, Listening
  <1>3. \A v \in Workers : ~(hasLock[v] /\ Alive(v) /\ ~Solo /\ pc[v] \notin Freed)
    BY <1>1, <1>2 DEF WorkersInv, Named
  <1>4. TypeOK'
    BY DEF WorkersInv, TypeOK, TryLock, locals, world
  <1>5. (Idle /\ InWindow /\ Naming /\ Named)'
    <2>1. /\ ~Solo /\ lock' = 1 /\ current' = None /\ hasLock' = hasLock
          /\ pc' = [pc EXCEPT ![w] = "took"]
      BY <1>2 DEF TryLock
    <2>2. /\ \A v \in Workers : pc'[v] \in Windows => v = w
          /\ \A v \in Workers \ {w} : pc'[v] = pc[v]
          /\ pc'[w] \in Windows /\ w \in Workers /\ Solo' = Solo
      BY <2>1, <1>2, ProcsOf DEF WorkersInv, TypeOK, Windows, Solo
    <2>3. \A v \in Workers : ~(hasLock'[v] /\ Alive(v)' /\ ~Solo' /\ pc'[v] \notin Windows \cup Freed)
      BY <2>1, <2>2, <1>3 DEF Alive
    <2>4. Idle' /\ Named' /\ Naming'
      <3>1. \A v \in Workers : pc[v] # "named"
        BY <1>1 DEF WorkersInv, Naming
      <3>2. \A v \in Workers : pc'[v] # "named"
        BY <3>1, <2>1, <2>2 DEF WorkersInv, TypeOK
      <3>3. QED
        BY <2>1, <2>3, <3>2 DEF Idle, Named, Naming
    <2>5. InWindow'
      BY <2>1, <2>2 DEF InWindow
    <2>6. QED
      BY <2>4, <2>5
  <1>6. (Listening /\ NoneStops)'
    BY <1>2, ProcsOf DEF WorkersInv, TypeOK, TryLock, locals, Listening, NoneStops
  <1>7. QED
    BY <1>4, <1>5, <1>6 DEF WorkersInv

LEMMA ObtainStep ==
  ASSUME WorkersInv, NEW w \in Workers, Obtain(w), UNCHANGED workers
  PROVE  WorkersInv'
  <1>1. CASE TryLock(w)
    BY <1>1, TryLockStep DEF Obtain
  <1> USE ProcsOf DEF WorkersInv, TypeOK, Obtain, shm, locals, world, Solo, Alive, Windows, Freed
  <1>2. CASE GoesOn(w)
    BY <1>2 DEF GoesOn, Idle, InWindow, Naming, Named, Listening, NoneStops
  <1>3. CASE TakesAlone(w)
    BY <1>3 DEF TakesAlone, Idle, InWindow, Naming, Named, Listening, NoneStops
  <1>4. QED
    BY <1>1, <1>2, <1>3

LEMMA NamesOwnerStep ==
  ASSUME WorkersInv, NEW w \in Workers, NamesOwner(w), UNCHANGED workers
  PROVE  WorkersInv'
  <1> USE ProcsOf DEF WorkersInv, TypeOK, NamesOwner, locals, world, Solo, Alive, Windows, Freed
  <1>1. TypeOK'
    OBVIOUS
  <1>2. ~Solo /\ lock = 1 /\ current = None
    BY DEF InWindow
  <1>3. /\ \A v \in Workers \ {w} : pc[v] \notin Windows
        /\ \A v \in Workers : pc[v] # "named"
    BY <1>2 DEF InWindow, Naming
  <1>4. (Idle /\ InWindow /\ Naming)'
    BY <1>2, <1>3 DEF Idle, InWindow, Naming
  <1>5. Named'
    <2>1. \A v \in Workers \ {w} : ~(hasLock[v] /\ Alive(v) /\ pc[v] \notin Windows \cup Freed)
      BY <1>2 DEF Named
    <2>2. QED
      BY <1>2, <2>1 DEF Named
  <1>6. (Listening /\ NoneStops)'
    BY DEF Listening, NoneStops
  <1>7. QED
    BY <1>1, <1>4, <1>5, <1>6

LEMMA TookStep ==
  ASSUME WorkersInv, NEW w \in Workers, Took(w), UNCHANGED workers
  PROVE  WorkersInv'
  <1> USE ProcsOf DEF WorkersInv, TypeOK, Took, Listeners, world, Solo, Alive, Windows, Freed
  <1>1. TypeOK'
    OBVIOUS
  <1>2. (Idle /\ InWindow /\ Naming /\ Named /\ Listening /\ NoneStops)'
    BY DEF Idle, InWindow, Naming, Named, Listening, NoneStops
  <1>3. QED
    BY <1>1, <1>2

LEMMA FreesStep ==
  ASSUME WorkersInv, NEW w \in Workers, UNCHANGED workers,
         NEW from \in {"freeing busy", "freeing full"},
         NEW next \in Freed, Frees(w, from, next)
  PROVE  WorkersInv'
  <1> USE ProcsOf DEF WorkersInv, TypeOK, Frees, FreesLock, locals, world, Solo, Alive, Windows, Freed
  <1>1. TypeOK'
    OBVIOUS
  <1>2. (Idle /\ InWindow /\ Naming)'
    BY DEF Idle, InWindow, Naming
  <1>3. Named'
    <2>1. current = None
      BY DEF InWindow
    <2>2. \A v \in Workers : ~(hasLock[v] /\ ~Solo /\ Alive(v) /\ pc[v] \notin Windows \cup Freed)
      BY <2>1 DEF Named
    <2>3. /\ pc'[w] \in Freed /\ workers' = workers
          /\ \A v \in Workers : v # w => hasLock'[v] = hasLock[v] /\ pc'[v] = pc[v]
      OBVIOUS
    <2> HIDE DEF WorkersInv, TypeOK, Frees
    <2> QED BY <2>2, <2>3 DEF Named
  <1>4. (Listening /\ NoneStops)'
    BY DEF Listening, NoneStops
  <1>5. QED
    BY <1>1, <1>2, <1>3, <1>4

\* The last store of a release, when the lock may be another's.
LEMMA DropsStep ==
  ASSUME WorkersInv, NEW w \in Workers, UNCHANGED workers,
         NEW from \in Freed, NEW next \in {"waited", "released"}, Drops(w, from, next)
  PROVE  WorkersInv'
  <1> USE ProcsOf DEF WorkersInv, TypeOK, Drops, locals, world, Solo, Alive, Windows, Freed
  <1>1. TypeOK'
    OBVIOUS
  <1>2. (Idle /\ InWindow /\ Naming /\ Named)'
    BY DEF Idle, InWindow, Naming, Named
  <1>3. (Listening /\ NoneStops)'
    BY DEF Listening, NoneStops
  <1>4. QED
    BY <1>1, <1>2, <1>3

\* The first store of worker_unlock, by the worker the lock names.
LEMMA ClearsStep ==
  ASSUME WorkersInv, NEW w \in Workers, UNCHANGED workers,
         NEW next \in {"freeing busy", "freeing full"}, ClearsCurrent(w, next),
         pc[w] \in {"wait", "waited"}, hasLock[w], ~Solo,
         UNCHANGED <<sig, accepting, quit, parent>>
  PROVE  (Idle /\ InWindow /\ Naming /\ Named /\ Listening /\ NoneStops)'
  <1> USE ProcsOf DEF WorkersInv, TypeOK, ClearsCurrent, Solo, Alive, Windows, Freed
  <1>1. /\ lock = 1 /\ current = w
        /\ \A v \in Workers : pc[v] \notin Windows /\ pc[v] # "named"
        /\ \A v \in Workers \ {w} : ~(hasLock[v] /\ Alive(v) /\ pc[v] \notin Freed)
    BY DEF InWindow, Naming, Named
  <1>2. (Idle /\ InWindow /\ Naming /\ Named)'
    BY <1>1 DEF Idle, InWindow, Naming, Named
  <1>3. (Listening /\ NoneStops)'
    BY DEF Listening, NoneStops
  <1>4. QED
    BY <1>2, <1>3

\* A process goes on inside its pass, or ends it.
LEMMA MovesStep ==
  ASSUME WorkersInv, NEW p \in Procs, NEW to, pc' = [pc EXCEPT ![p] = to],
         \/ pc[p] = "wait" /\ to = "waited"
         \/ pc[p] = "end" /\ to \in {"top", "exited"},
         UNCHANGED <<workers, shm, accepting>>
  PROVE  (Idle /\ InWindow /\ Naming /\ Named /\ Listening)'
  <1>1. UNCHANGED <<hasLock, lock, current, accepting>> /\ (Solo' <=> Solo)
    BY DEF shm, Solo
  <1>2. pc'[p] = to /\ \A v \in Procs : v # p => pc'[v] = pc[v]
    BY DEF WorkersInv, TypeOK
  <1>3. \A v \in Workers :
          /\ pc'[v] \in Windows <=> pc[v] \in Windows
          /\ Alive(v)' => Alive(v)
          /\ pc'[v] \in {"setup", "top", "wait", "heard", "end"} =>
               pc[v] \in {"setup", "top", "wait", "heard", "end"}
          /\ pc'[v] \in Windows \cup Freed <=> pc[v] \in Windows \cup Freed
          /\ pc'[v] \in {"took", "named"} => pc[v] \in {"took", "named"}
          /\ pc'[v] = "named" => pc[v] = "named"
    BY <1>2, ProcsOf DEF Windows, Freed, Alive
  <1>4. Idle'
    BY <1>1 DEF WorkersInv, Idle
  <1>5. InWindow'
    BY <1>1, <1>3 DEF WorkersInv, InWindow
  <1>6. Named'
    BY <1>1, <1>3 DEF WorkersInv, Named
  <1>7. Listening'
    BY <1>1, <1>3 DEF WorkersInv, Listening
  <1>8. Naming'
    BY <1>1, <1>3 DEF WorkersInv, Naming
  <1> QED BY <1>4, <1>5, <1>6, <1>7, <1>8

LEMMA EventWaitStep ==
  ASSUME WorkersInv, NEW w \in Workers, EventWait(w), UNCHANGED workers
  PROVE  WorkersInv'
  <1>1. waiting' \in Nat /\ conns' \in [Workers -> 0..MaxConns]
    <2>1. PICK c \in 0..(conns[w] + Accepts(w)) : conns' = [conns EXCEPT ![w] = c]
      BY DEF EventWait
    <2>2. c \in 0..MaxConns /\ waiting - Accepts(w) \in Nat
      <3>1. waiting \in Nat /\ conns[w] \in 0..MaxConns
        BY DEF WorkersInv, TypeOK
      <3>2. QED
        BY <3>1, AcceptsOf, ProcsOf DEF WorkersInv
    <2>3. QED
      BY <2>1, <2>2 DEF EventWait, WorkersInv, TypeOK
  <1> USE DEF WorkersInv, TypeOK, EventWait, shm, Solo, Alive, Windows, Freed
  <1>2. CASE MakesBusy(w)
    <2>1. TypeOK'
      BY <1>1, <1>2 DEF ClearsCurrent
    <2>2. (Idle /\ InWindow /\ Naming /\ Named /\ Listening /\ NoneStops)'
      BY <1>2, ClearsStep DEF MakesBusy
    <2>3. QED
      BY <2>1, <2>2
  <1>3. CASE ~MakesBusy(w)
    <2>1. TypeOK'
      BY <1>1, <1>3
    <2>2. /\ pc[w] = "wait" /\ pc' = [pc EXCEPT ![w] = "waited"]
          /\ UNCHANGED <<shm, accepting, sig, quit, parent>>
      BY <1>3
    <2>3. (Idle /\ InWindow /\ Naming /\ Named /\ Listening)'
      BY <2>2, ProcsOf, MovesStep
    <2>4. NoneStops'
      <3> HIDE DEF EventWait, shm, Solo, Alive, Windows, Freed
      <3> QED BY <2>2, ProcsOf DEF NoneStops
    <2>5. QED
      BY <2>1, <2>3, <2>4
  <1>4. QED
    BY <1>2, <1>3

LEMMA ReleaseStep ==
  ASSUME WorkersInv, NEW w \in Workers, Release(w), UNCHANGED workers
  PROVE  WorkersInv'
  <1>1. TypeOK'
    BY ProcsOf DEF WorkersInv, TypeOK, Release, ClearsCurrent, shm, locals, world, Windows
  <1>2. CASE hasLock[w] /\ ~Solo /\ ClearsCurrent(w, "freeing full")
    BY <1>1, <1>2, ClearsStep DEF Release, locals, WorkersInv
  <1>3. CASE pc' = [pc EXCEPT ![w] = "released"] /\ UNCHANGED shm
    <2>1. (Idle /\ InWindow /\ Naming /\ Named /\ Listening /\ NoneStops)'
      BY <1>3, ProcsOf DEF WorkersInv, TypeOK, Release, shm, locals, Solo, Alive, Windows, Freed,
                           Idle, InWindow, Naming, Named, Listening, NoneStops
    <2>2. QED
      BY <1>1, <2>1 DEF WorkersInv
  <1>4. QED
    BY <1>2, <1>3 DEF Release

LEMMA SignalledStep ==
  ASSUME WorkersInv, NEW w \in Workers, Signalled(w), UNCHANGED workers
  PROVE  WorkersInv'
  <1> USE ProcsOf DEF WorkersInv, TypeOK, Signalled, StopsAccepting, shm, world,
                      Solo, Alive, Windows, Freed
  <1>1. /\ accepting' \in [Workers -> BOOLEAN] /\ quit' \in [Procs -> BOOLEAN]
        /\ accepting'[w] => hasLock[w]
        /\ sig[w] # "TERM" /\ ~quit[w] => ~quit'[w]
        /\ \A p \in Procs \ {w} : quit'[p] = quit[p]
        /\ \A v \in Workers \ {w} : accepting'[v] = accepting[v]
    OBVIOUS
  <1>2. TypeOK'
    BY <1>1
  <1>3. (Idle /\ InWindow /\ Naming /\ Named)'
    BY DEF Idle, InWindow, Naming, Named
  <1>4. (Listening /\ NoneStops)'
    BY <1>1 DEF Listening, NoneStops
  <1>5. QED
    BY <1>2, <1>3, <1>4

LEMMA ForgetSignalStep ==
  ASSUME WorkersInv, NEW p \in Procs, ForgetSignal(p), UNCHANGED workers
  PROVE  WorkersInv'
  <1> USE ProcsOf DEF WorkersInv, TypeOK, ForgetSignal, shm, world, Solo, Alive, Windows, Freed
  <1>1. TypeOK'
    OBVIOUS
  <1>2. (Idle /\ InWindow /\ Naming /\ Named /\ Listening /\ NoneStops)'
    BY DEF Idle, InWindow, Naming, Named, Listening, NoneStops
  <1>3. QED
    BY <1>1, <1>2

LEMMA EndOfPassStep ==
  ASSUME WorkersInv, NEW p \in Procs, EndOfPass(p), UNCHANGED workers
  PROVE  WorkersInv'
  <1> USE ProcsOf DEF WorkersInv, TypeOK, EndOfPass, Tells, Signals, shm, locals, world,
                      Solo, Alive, Windows, Freed
  <1>1. TypeOK'
    OBVIOUS
  <1>2. PICK to \in {"top", "exited"} :
          /\ pc' = [pc EXCEPT ![p] = to] /\ (to = "exited" <=> quit[p])
    OBVIOUS
  <1>3. pc[p] = "end" /\ UNCHANGED <<shm, accepting, sig, quit, parent>>
    OBVIOUS
  <1>4. (Idle /\ InWindow /\ Naming /\ Named /\ Listening)'
    BY <1>2, <1>3, MovesStep
  <1>5. NoneStops'
    <2> HIDE DEF EndOfPass, Tells, Signals, shm, locals, world, Solo, Alive, Windows, Freed
    <2> QED BY <1>2, <1>3 DEF NoneStops
  <1>6. QED
    BY <1>1, <1>4, <1>5

LEMMA KeymgrHearsStep ==
  ASSUME WorkersInv, KeymgrHears, UNCHANGED workers
  PROVE  WorkersInv'
  <1> USE ProcsOf DEF WorkersInv, TypeOK, KeymgrHears, shm, world, Solo, Alive, Windows, Freed
  <1>1. /\ quit' \in [Procs -> BOOLEAN]
        /\ sig[Keymgr] # "TERM" /\ ~quit[Keymgr] => ~quit'[Keymgr]
        /\ \A p \in Procs \ {Keymgr} : quit'[p] = quit[p]
    OBVIOUS
  <1>2. TypeOK'
    BY <1>1
  <1>3. (Idle /\ InWindow /\ Naming /\ Named /\ Listening /\ NoneStops)'
    BY <1>1 DEF Idle, InWindow, Naming, Named, Listening, NoneStops
  <1>4. QED
    BY <1>2, <1>3

LEMMA WorkerStepKeeps ==
  ASSUME WorkersInv, NEW w \in Workers, WorkerStep(w), UNCHANGED workers
  PROVE  WorkersInv'
  BY ProcsOf, SetUpStep, ObtainStep, NamesOwnerStep, TookStep, EventWaitStep, FreesStep,
     DropsStep, ReleaseStep,
     SignalledStep, ForgetSignalStep, EndOfPassStep
  DEF WorkerStep, FreesBusy, FreesFull, DropsBusy, DropsFull, Freed

LEMMA KeymgrStepKeeps ==
  ASSUME WorkersInv, KeymgrStep, UNCHANGED workers
  PROVE  WorkersInv'
  BY ProcsOf, SetUpStep, KeymgrHearsStep, ForgetSignalStep, EndOfPassStep DEF KeymgrStep

LEMMA ParentHearsStep ==
  ASSUME WorkersInv, ParentHears, UNCHANGED workers
  PROVE  WorkersInv'
  <1>1. CASE psig \in {"HUP", "TERM"} /\ Dispatch(psig)
             /\ parent' = (IF psig = "HUP" THEN "heard" ELSE "stopping")
             /\ UNCHANGED <<pc, shm, accepting, conns, quit, psig, world>>
    <2>1. sig' \in [Procs -> Signals \cup {"none"}]
      BY <1>1 DEF WorkersInv, TypeOK, Dispatch, Signals
    <2>2. psig = "HUP" => \A p \in Procs : sig[p] # "TERM" => sig'[p] # "TERM"
      BY <1>1 DEF Dispatch
    <2>3. TypeOK'
      BY <1>1, <2>1 DEF WorkersInv, TypeOK, shm, world
    <2>4. (Idle /\ InWindow /\ Naming /\ Named /\ Listening)'
      BY <1>1 DEF WorkersInv, TypeOK, shm, Solo, Alive, Windows, Freed,
                  Idle, InWindow, Naming, Named, Listening
    <2>5. NoneStops'
      BY <1>1, <2>2 DEF WorkersInv, NoneStops, ParentHears
    <2>6. QED
      BY <2>3, <2>4, <2>5 DEF WorkersInv
  <1>2. ASSUME psig = "CHLD", parent = "loop", parent' = "heard", UNCHANGED world,
               NEW w \in Workers, pc[w] = "crashed", Respawn(w)
        PROVE  WorkersInv'
    <2>1. /\ lock' = IF current = w THEN 0 ELSE lock
          /\ current' = IF current = w THEN None ELSE current
      BY <1>2 DEF Respawn, AfterDeath
    <2>2. TypeOK'
      <3>1. lock' \in {0, 1} /\ current' \in Workers \cup {None}
        BY <2>1 DEF WorkersInv, TypeOK
      <3>2. /\ sig' \in [Procs -> Signals \cup {"none"}]
            /\ quit' \in [Procs -> BOOLEAN] /\ conns' \in [Workers -> 0..MaxConns]
        <4>1. 0 \in 0..MaxConns
          BY ProcsOf
        <4>2. /\ sig \in [Procs -> Signals \cup {"none"}]
              /\ quit \in [Procs -> BOOLEAN] /\ conns \in [Workers -> 0..MaxConns]
              /\ psig \in Signals \cup {"none"}
          BY DEF WorkersInv, TypeOK
        <4>3. QED
          BY <1>2, <4>1, <4>2, ProcsOf DEF Respawn
      <3>3. QED
        BY <1>2, <3>1, <3>2, ProcsOf DEF WorkersInv, TypeOK, Respawn, world
    <2>3. (Idle /\ InWindow /\ Naming /\ Named)'
      BY <1>2, <2>1, ProcsOf DEF WorkersInv, TypeOK, Respawn, Solo, Alive, Windows, Freed,
                                 Idle, InWindow, Naming, Named
    <2>4. (Listening /\ NoneStops)'
      BY <1>2, ProcsOf DEF WorkersInv, TypeOK, Respawn, Listening, NoneStops
    <2>5. QED
      BY <2>2, <2>3, <2>4 DEF WorkersInv
  <1>3. ASSUME parent = "loop", parent' = "heard", UNCHANGED world, pc[Keymgr] = "crashed",
               listed' = [listed EXCEPT ![Keymgr] = FALSE],
               pc' = [pc EXCEPT ![Keymgr] = "gone"], psig' = "TERM",
               UNCHANGED <<hasLock, lock, current, locals>>
        PROVE  WorkersInv'
    <2>1. TypeOK'
      BY <1>3, ProcsOf DEF WorkersInv, TypeOK, locals, world, Signals
    <2>2. (Idle /\ InWindow /\ Naming /\ Named /\ Listening /\ NoneStops)'
      BY <1>3, ProcsOf DEF WorkersInv, TypeOK, locals, Solo, Alive, Windows, Freed,
                           Idle, InWindow, Naming, Named, Listening, NoneStops
    <2>3. QED
      BY <2>1, <2>2 DEF WorkersInv
  <1>4. ASSUME parent = "loop", parent' = "heard", UNCHANGED world,
               UNCHANGED <<pc, shm, locals, psig>>
        PROVE  WorkersInv'
    <2>1. TypeOK'
      BY <1>4 DEF WorkersInv, TypeOK, shm, locals, world
    <2>2. (Idle /\ InWindow /\ Naming /\ Named /\ Listening /\ NoneStops)'
      BY <1>4 DEF WorkersInv, shm, locals, Solo, Alive,
                  Idle, InWindow, Naming, Named, Listening, NoneStops
    <2>3. QED
      BY <2>1, <2>2 DEF WorkersInv
  <1>5. CASE psig = "CHLD"
    <2>1. parent = "loop" /\ parent' = "heard" /\ UNCHANGED world /\ ParentWaits
      BY <1>5 DEF ParentHears
    <2>2. CASE UNCHANGED <<pc, shm, locals, psig>>
      BY <2>1, <2>2, <1>4
    <2>3. ASSUME NEW p \in Procs, Reap(p)
          PROVE  WorkersInv'
      BY <2>1, <2>3, <1>5, <1>2, <1>3, ProcsOf DEF Reap
    <2>4. QED
      BY <2>1, <2>2, <2>3 DEF ParentWaits
  <1>6. QED
    BY <1>1, <1>5 DEF ParentHears

LEMMA ParentForgetsStep ==
  ASSUME WorkersInv, ParentForgets, UNCHANGED workers
  PROVE  WorkersInv'
  <1>1. TypeOK'
    BY DEF WorkersInv, TypeOK, ParentForgets, shm, locals, world
  <1>2. (Idle /\ InWindow /\ Naming /\ Named /\ Listening /\ NoneStops)'
    BY DEF WorkersInv, ParentForgets, shm, locals, Solo, Alive,
           Idle, InWindow, Naming, Named, Listening, NoneStops
  <1>3. QED
    BY <1>1, <1>2 DEF WorkersInv

LEMMA ParentStopsStep ==
  ASSUME WorkersInv, ParentStops, UNCHANGED workers
  PROVE  WorkersInv'
  <1>1. TypeOK'
    BY DEF WorkersInv, TypeOK, ParentStops, ClearsPid, locals, world
  <1>2. (Idle /\ InWindow /\ Naming /\ Named /\ Listening /\ NoneStops)'
    <2>1. CASE UNCHANGED pc
      BY <2>1 DEF WorkersInv, ParentStops, locals, Solo, Alive,
                  Idle, InWindow, Naming, Named, Listening, NoneStops
    <2>2. ASSUME NEW p \in Procs, pc' = [pc EXCEPT ![p] = "gone"], parent = "stopping",
                 UNCHANGED parent
          PROVE  (Idle /\ InWindow /\ Naming /\ Named /\ Listening /\ NoneStops)'
      BY <2>2 DEF WorkersInv, TypeOK, ParentStops, locals, Solo, Alive, Windows, Freed, Procs,
                  Idle, InWindow, Naming, Named, Listening, NoneStops
    <2>3. QED
      BY <2>1, <2>2 DEF ParentStops
  <1>3. QED
    BY <1>1, <1>2 DEF WorkersInv

LEMMA ArrivesStep ==
  ASSUME WorkersInv, Arrives, UNCHANGED workers
  PROVE  WorkersInv'
  <1>1. waiting' = waiting + 1 /\ UNCHANGED <<pc, shm, locals, psig, parent, trouble>>
    BY Zenon DEF Arrives
  <1> HIDE DEF Arrives
  <1>2. waiting' \in Nat
    <2>1. waiting \in Nat
      BY DEF WorkersInv, TypeOK
    <2>2. QED
      BY <1>1, <2>1
  <1>3. TypeOK'
    BY <1>1, <1>2 DEF WorkersInv, TypeOK, shm, locals
  <1>4. (Idle /\ InWindow /\ Naming /\ Named /\ Listening /\ NoneStops)'
    BY <1>1 DEF WorkersInv, shm, locals, Solo, Alive,
                Idle, InWindow, Naming, Named, Listening, NoneStops
  <1>5. QED
    BY <1>3, <1>4 DEF WorkersInv

LEMMA DiesStep ==
  ASSUME WorkersInv, NEW p \in Procs, Dies(p), UNCHANGED workers
  PROVE  WorkersInv'
  <1>1. trouble' \in 0..MaxTrouble
    <2>1. trouble \in 0..MaxTrouble
      BY DEF WorkersInv, TypeOK
    <2>2. trouble < MaxTrouble /\ trouble' = trouble + 1
      BY DEF Dies
    <2>3. QED
      BY <2>1, <2>2, ProcsOf
  <1>2. psig' \in Signals \cup {"none"}
    BY DEF WorkersInv, TypeOK, Dies, Tells, Signals
  <1>3. TypeOK'
    BY <1>1, <1>2 DEF WorkersInv, TypeOK, Dies, shm, locals
  <1>4. (Idle /\ InWindow /\ Naming /\ Named /\ Listening /\ NoneStops)'
    BY ProcsOf DEF WorkersInv, TypeOK, Dies, shm, locals, Solo, Alive, Windows, Freed,
                   Idle, InWindow, Naming, Named, Listening, NoneStops
  <1>5. QED
    BY <1>3, <1>4 DEF WorkersInv

LEMMA AdminStep ==
  ASSUME WorkersInv, NEW s \in AdminSignals, Admin(s), UNCHANGED workers
  PROVE  WorkersInv'
  <1>1. trouble' \in 0..MaxTrouble
    <2>1. trouble \in 0..MaxTrouble
      BY DEF WorkersInv, TypeOK
    <2>2. trouble < MaxTrouble /\ trouble' = trouble + 1
      BY DEF Admin
    <2>3. QED
      BY <2>1, <2>2, ProcsOf
  <1>2. TypeOK'
    BY <1>1 DEF WorkersInv, TypeOK, Admin, AdminSignals, Signals, shm, locals
  <1>3. (Idle /\ InWindow /\ Naming /\ Named /\ Listening /\ NoneStops)'
    BY DEF WorkersInv, Admin, shm, locals, Solo, Alive,
           Idle, InWindow, Naming, Named, Listening, NoneStops
  <1>4. QED
    BY <1>2, <1>3 DEF WorkersInv

LEMMA WorkersStep ==
  ASSUME WorkersInv, [Next]_vars
  PROVE  WorkersInv'
  <1>1. CASE Next
    BY <1>1, WorkerStepKeeps, KeymgrStepKeeps, ParentHearsStep, ParentForgetsStep,
       ParentStopsStep, ArrivesStep, DiesStep, AdminStep
    DEF Next, ParentStep
  <1>2. CASE UNCHANGED vars
    <2>1. TypeOK'
      BY <1>2 DEF vars, WorkersInv, TypeOK, shm, locals, world
    <2>2. (Idle /\ InWindow /\ Naming /\ Named /\ Listening /\ NoneStops)'
      BY <1>2 DEF vars, WorkersInv, shm, locals, Solo, Alive,
                  Idle, InWindow, Naming, Named, Listening, NoneStops
    <2>3. QED
      BY <2>1, <2>2 DEF WorkersInv
  <1>3. QED
    BY <1>1, <1>2

LEMMA WorkersInvHolds == Spec => []WorkersInv
  <1>1. QED
    BY InitWorkers, WorkersStep, PTL DEF Spec

(* Who waits with its listeners in the epoll set is the worker that the    *)
(* lock names, and of two live workers that both think they have the lock  *)
(* one has freed it and has its last store yet to do: for any number of    *)
(* workers and of deaths, also between any two stores of a hand-over       *)
(* (worker_acceptlock_obtain, worker_acceptlock_release, worker_trylock,   *)
(* worker_unlock, kore_worker_wait).                                       *)
THEOREM TurnsAreTaken == Spec => [](TypeOK /\ Turns)
  <1>1. WorkersInv => Turns
    BY ProcsOf DEF WorkersInv, TypeOK, Turns, InWindow, Naming, Named, Listening, Alive, Windows, Freed
  <1>2. WorkersInv => TypeOK /\ Turns
    BY <1>1 DEF WorkersInv
  <1>3. QED
    BY <1>2, WorkersInvHolds, PTL

-----------------------------------------------------------------------------
LEMMA InitLock == Init => LockNotLost
  <1>1. Init => lock # 1
    BY DEF Init
  <1>2. QED
    BY <1>1 DEF LockNotLost

\* Who holds the lock, in the middle of taking or freeing it or by name.
Holder(w) == pc[w] \in Windows \/ (current = w /\ pc[w] \notin {"exited", "gone", "setup"})

\* As long as one holder stays one and the parent goes on, the lock is not
\* lost.
LEMMA HolderStays ==
  ASSUME LockNotLost, lock' = lock, parent' \in {"loop", "heard"} => parent \in {"loop", "heard"},
         \A w \in Workers : Holder(w) => Holder(w)'
  PROVE  LockNotLost'
  BY DEF LockNotLost, Holder

LEMMA ObtainKeepsLock ==
  ASSUME WorkersInv, LockNotLost, NEW w \in Workers, Obtain(w) \/ NamesOwner(w) \/ Took(w)
  PROVE  LockNotLost'
  <1> USE ProcsOf DEF WorkersInv, TypeOK
  <1>1. CASE TryLock(w) \/ NamesOwner(w) \/ Took(w)
    <2>1. \/ pc' = [pc EXCEPT ![w] = "took"]
          \/ \E to \in {"named", "wait"} : pc' = [pc EXCEPT ![w] = to] /\ current' = w
      BY <1>1 DEF TryLock, NamesOwner, Took, WorkersInv, Naming
    <2>2. Holder(w)'
      BY <2>1 DEF Holder, Windows
    <2>3. QED
      BY <2>2 DEF LockNotLost, Holder
  <1>2. CASE GoesOn(w) \/ TakesAlone(w)
    <2>1. /\ lock' = lock /\ current' = current /\ parent' = parent
          /\ pc' = [pc EXCEPT ![w] = "wait"]
      BY <1>2 DEF GoesOn, TakesAlone, shm
    <2>2. pc[w] = "top" \/ NamesOwner(w) \/ Took(w)
      BY DEF Obtain
    <2>3. CASE pc[w] = "top"
      <3>1. \A v \in Workers : Holder(v) => Holder(v)'
        BY <2>1, <2>3 DEF Holder, Windows
      <3>2. QED
        BY <2>1, <3>1, HolderStays
    <2>4. QED
      BY <2>2, <2>3, <1>1
  <1>3. QED
    BY <1>1, <1>2 DEF Obtain

LEMMA PassKeepsLock ==
  ASSUME WorkersInv, LockNotLost, NEW w \in Workers, UNCHANGED workers,
         EventWait(w) \/ Release(w) \/ Signalled(w) \/ ForgetSignal(w) \/ SetUp(w)
  PROVE  LockNotLost'
  <1>1. /\ lock' = lock /\ parent' = parent
        /\ \/ /\ current' = current
              /\ pc[w] \in {"wait", "waited", "released", "heard", "setup"}
              /\ pc[w] = "setup" => pc'[w] = "top"
              /\ \E next \in {"waited", "released", "heard", "end", "top"} :
                   pc' = [pc EXCEPT ![w] = next]
           \/ \E next \in {"freeing busy", "freeing full"} : pc' = [pc EXCEPT ![w] = next]
    BY DEF EventWait, Release, Signalled, ForgetSignal, SetUp, ClearsCurrent, shm
  <1>2. CASE current' = current /\ pc[w] \in {"wait", "waited", "released", "heard", "setup"}
             /\ \E next \in {"waited", "released", "heard", "end", "top"} :
                   pc' = [pc EXCEPT ![w] = next]
    <2>1. \A v \in Workers : Holder(v) => Holder(v)'
      BY <1>2, ProcsOf DEF WorkersInv, TypeOK, Holder, Windows
    <2>2. QED
      BY <1>1, <2>1, HolderStays
  <1>3. CASE \E next \in {"freeing busy", "freeing full"} : pc' = [pc EXCEPT ![w] = next]
    <2>1. Holder(w)'
      BY <1>3, ProcsOf DEF WorkersInv, TypeOK, Holder, Windows
    <2>2. QED
      BY <2>1 DEF LockNotLost, Holder
  <1>4. QED
    BY <1>1, <1>2, <1>3

LEMMA EndKeepsLock ==
  ASSUME WorkersInv, LockNotLost, NEW p \in Procs, EndOfPass(p)
  PROVE  LockNotLost'
  <1>1. lock' = lock /\ current' = current /\ parent' = parent
    BY DEF EndOfPass, shm
  <1>2. CASE parent \in {"loop", "heard"}
    <2>1. pc[p] = "end" /\ pc' = [pc EXCEPT ![p] = "top"]
      BY <1>2 DEF EndOfPass, WorkersInv, NoneStops
    <2>2. \A v \in Workers : Holder(v) => Holder(v)'
      BY <1>1, <2>1, ProcsOf DEF WorkersInv, TypeOK, Holder, Windows
    <2>3. QED
      BY <1>1, <2>2, HolderStays
  <1>3. CASE parent \notin {"loop", "heard"}
    BY <1>1, <1>3 DEF LockNotLost
  <1>4. QED
    BY <1>2, <1>3

\* What the key manager does is nothing to the lock.
LEMMA KeymgrKeepsLock ==
  ASSUME WorkersInv, LockNotLost, KeymgrStep
  PROVE  LockNotLost'
  <1>1. CASE EndOfPass(Keymgr)
    BY <1>1, EndKeepsLock, ProcsOf
  <1>2. CASE SetUp(Keymgr) \/ KeymgrHears \/ ForgetSignal(Keymgr)
    <2>1. /\ lock' = lock /\ current' = current /\ parent' = parent
          /\ \E next \in {"top", "heard", "end"} : pc' = [pc EXCEPT ![Keymgr] = next]
      BY <1>2 DEF SetUp, KeymgrHears, ForgetSignal, shm
    <2>2. \A v \in Workers : Holder(v) => Holder(v)'
      BY <2>1, ProcsOf DEF WorkersInv, TypeOK, Holder
    <2>3. QED
      BY <2>1, <2>2, HolderStays
  <1>3. QED
    BY <1>1, <1>2 DEF KeymgrStep

LEMMA ParentKeepsLock ==
  ASSUME WorkersInv, LockNotLost, ParentStep
  PROVE  LockNotLost'
  <1>1. ASSUME NEW w \in Workers, pc[w] = "crashed", Respawn(w), parent = "loop"
        PROVE  LockNotLost'
    <2>1. CASE current = w
      <3>1. lock' = 0
        BY <1>1, <2>1 DEF Respawn, AfterDeath
      <3>2. QED
        BY <3>1 DEF LockNotLost
    <2>2. CASE current # w
      <3>1. lock' = lock /\ current' = current /\ pc' = [pc EXCEPT ![w] = "setup"]
        BY <1>1, <2>2 DEF Respawn, AfterDeath
      <3>2. \A v \in Workers : Holder(v) => Holder(v)'
        BY <1>1, <2>2, <3>1, ProcsOf DEF WorkersInv, TypeOK, Holder, Windows
      <3>3. QED
        BY <1>1, <3>1, <3>2, HolderStays
    <2>3. QED
      BY <2>1, <2>2
  <1>2. ASSUME lock' = lock, current' = current, parent' \in {"loop", "heard"} => parent \in {"loop", "heard"},
               pc' = pc \/ pc' = [pc EXCEPT ![Keymgr] = "gone"]
        PROVE  LockNotLost'
    <2>1. \A v \in Workers : Holder(v) => Holder(v)'
      BY <1>2, ProcsOf DEF WorkersInv, TypeOK, Holder
    <2>2. QED
      BY <1>2, <2>1, HolderStays
  <1>3. CASE ParentStops
    <2>1. parent' \notin {"loop", "heard"}
      BY <1>3 DEF ParentStops
    <2>2. QED
      BY <2>1 DEF LockNotLost
  <1>4. CASE ParentForgets
    BY <1>2, <1>4 DEF ParentForgets, shm
  <1>5. CASE ParentHears
    <2>1. CASE psig # "CHLD"
      BY <1>2, <1>5, <2>1 DEF ParentHears, shm
    <2>2. CASE psig = "CHLD"
      <3>1. parent = "loop" /\ parent' = "heard" /\ ParentWaits
        BY <1>5, <2>2 DEF ParentHears
      <3>2. QED
        BY <1>1, <1>2, <3>1 DEF ParentWaits, Reap, shm
    <2>3. QED
      BY <2>1, <2>2
  <1>6. QED
    BY <1>3, <1>4, <1>5 DEF ParentStep

LEMMA OutsideKeepsLock ==
  ASSUME WorkersInv, LockNotLost, "kill in window" \notin Troubles,
         \/ Arrives
         \/ \E p \in Procs : Dies(p)
         \/ \E s \in AdminSignals : Admin(s)
  PROVE  LockNotLost'
  <1>1. ASSUME NEW p \in Procs, Dies(p)
        PROVE  LockNotLost'
    <2>1. /\ lock' = lock /\ current' = current /\ parent' = parent
          /\ pc[p] \notin Windows /\ pc' = [pc EXCEPT ![p] = "crashed"]
          /\ pc[p] \notin {"exited", "crashed", "gone"}
      BY <1>1 DEF Dies, shm, Alive
    <2>2. \A v \in Workers : Holder(v) => Holder(v)'
      BY <2>1, ProcsOf DEF WorkersInv, TypeOK, Holder
    <2>3. QED
      BY <2>1, <2>2, HolderStays
  <1>2. CASE Arrives
    <2>1. UNCHANGED <<pc, shm, parent>>
      BY <1>2, Zenon DEF Arrives
    <2>2. QED
      BY <2>1 DEF LockNotLost, shm
  <1>3. ASSUME NEW s \in AdminSignals, Admin(s)
        PROVE  LockNotLost'
    BY <1>3 DEF Admin, LockNotLost, shm
  <1>4. QED
    BY <1>1, <1>2, <1>3

LEMMA LockStep ==
  ASSUME WorkersInv, LockNotLost, "kill in window" \notin Troubles, [Next]_vars
  PROVE  LockNotLost'
  <1>1. ASSUME NEW w \in Workers, WorkerStep(w), UNCHANGED workers
        PROVE  LockNotLost'
    <2>1. CASE FreesBusy(w) \/ FreesFull(w)
      <3>1. lock' = 0
        BY <2>1 DEF FreesBusy, FreesFull, Frees, FreesLock
      <3>2. lock' # 1
        BY <3>1, ZeroOne
      <3>3. QED
        BY <3>2 DEF LockNotLost
    <2>2. CASE DropsBusy(w) \/ DropsFull(w)
      <3>1. /\ lock' = lock /\ current' = current /\ parent' = parent
            /\ pc[w] \in Freed
            /\ \E next \in {"waited", "released"} : pc' = [pc EXCEPT ![w] = next]
        BY <2>2 DEF DropsBusy, DropsFull, Drops, Freed
      <3>2. \A v \in Workers : Holder(v) => Holder(v)'
        BY <3>1, ProcsOf DEF WorkersInv, TypeOK, Holder, Windows, Freed
      <3>3. QED
        BY <3>1, <3>2, HolderStays
    <2>3. CASE ~(FreesBusy(w) \/ FreesFull(w) \/ DropsBusy(w) \/ DropsFull(w))
      BY <1>1, <2>3, ProcsOf, ObtainKeepsLock, PassKeepsLock, EndKeepsLock DEF WorkerStep
    <2>4. QED
      BY <2>1, <2>2, <2>3
  <1>2. CASE UNCHANGED vars
    BY <1>2 DEF vars, shm, LockNotLost
  <1>3. QED
    BY <1>1, <1>2, KeymgrKeepsLock, ParentKeepsLock, OutsideKeepsLock DEF Next

(* As long as nobody dies between the two stores of worker_trylock or of   *)
(* worker_unlock, the lock is right: one has the turn, and a lock that is  *)
(* taken has an owner who will free it or whose death the parent will see  *)
(* (kore_worker_wait), for any number of workers, deaths and signals.      *)
THEOREM LockStaysRight ==
  ASSUME "kill in window" \notin Troubles
  PROVE  Spec => []LockIsRight
  <1>1. WorkersInv /\ LockNotLost /\ [Next]_vars => LockNotLost'
    BY LockStep
  <1>2. Spec => []LockNotLost
    BY <1>1, InitLock, WorkersInvHolds, PTL DEF Spec
  <1>3. TypeOK /\ Turns /\ LockNotLost => LockIsRight
    BY DEF LockIsRight
  <1>4. QED
    BY <1>2, <1>3, TurnsAreTaken, PTL
-----------------------------------------------------------------------------
\* The part of the types that the invariants need.
Types ==
  /\ child \in [CoroutinesProcs -> {"none", "runs", "zombie", "gone"}]
  /\ pid \in [CoroutinesProcs -> BOOLEAN] /\ timer \in [CoroutinesProcs -> BOOLEAN]
  /\ doing \in [CoroutinesProcs -> {"none", "recv", "reap", "ended"}]
  /\ lost \in BOOLEAN /\ handled \in BOOLEAN

\* Who has been looked at was reaped: between the look at sig_recv and its
\* clearing there is no zombie, unless a signal of one came and was lost.
NoneLeft == handled /\ ~lost => \A p \in CoroutinesProcs : child[p] # "zombie"

ProcInv == Types /\ Coroutines!PidIsOurs /\ Coroutines!TimerIsLive /\ Coroutines!EndIsSignalled /\ NoneLeft

LEMMA InitProc == Coroutines!Init => ProcInv
  BY DEF Coroutines!Init, ProcInv, Types, Coroutines!PidIsOurs, Coroutines!TimerIsLive, Coroutines!EndIsSignalled, NoneLeft

LEMMA EndsStep ==
  ASSUME ProcInv, NEW p \in CoroutinesProcs, Coroutines!Ends(p)
  PROVE  ProcInv'
  <1> USE DEF ProcInv, Types, Coroutines!Ends, Coroutines!NoTimer, Coroutines!proc, Coroutines!coro, Coroutines!sigs
  <1>1. Types' /\ (Coroutines!PidIsOurs /\ Coroutines!TimerIsLive)'
    BY DEF Coroutines!PidIsOurs, Coroutines!TimerIsLive
  <1>2. \A q \in CoroutinesProcs : child'[q] = "zombie" => child[q] = "zombie"
    OBVIOUS
  <1>3. QED
    BY <1>1, <1>2 DEF Coroutines!EndIsSignalled, NoneLeft

\* A signal that is noted without being lost is the last one, and found the
\* worker looking at none.
LEMMA NotedStep ==
  ASSUME Types, NEW s \in {"chld", "hup"}, Coroutines!Noted(s), ~lost'
  PROVE  /\ ~lost /\ coroutinesSig' = s /\ handled' = handled
         /\ handled => s = "hup"
         /\ ~handled /\ s = "hup" => coroutinesSig # "chld"
  BY DEF Coroutines!Noted, Types

LEMMA ExitsStep ==
  ASSUME ProcInv, NEW p \in CoroutinesProcs, Coroutines!Exits(p)
  PROVE  ProcInv'
  <1>1. Coroutines!Noted("chld") /\ lost' \in BOOLEAN /\ handled' = handled
    BY DEF Coroutines!Exits, Coroutines!Noted, ProcInv, Types
  <1>2. Types' /\ (Coroutines!PidIsOurs /\ Coroutines!TimerIsLive)'
    BY <1>1 DEF Coroutines!Exits, ProcInv, Types, Coroutines!PidIsOurs, Coroutines!TimerIsLive, Coroutines!proc
  <1>3. Coroutines!EndIsSignalled' /\ NoneLeft'
    BY <1>1, NotedStep DEF ProcInv, Types, Coroutines!EndIsSignalled, NoneLeft
  <1>4. QED
    BY <1>2, <1>3 DEF ProcInv

LEMMA HangupStep ==
  ASSUME ProcInv, Coroutines!Hangup
  PROVE  ProcInv'
  <1>1. Coroutines!Noted("hup") /\ lost' \in BOOLEAN /\ UNCHANGED <<child, Coroutines!proc, Coroutines!coro>>
    BY DEF Coroutines!Hangup, Coroutines!Noted, ProcInv, Types
  <1>2. Types' /\ (Coroutines!PidIsOurs /\ Coroutines!TimerIsLive)'
    BY <1>1 DEF ProcInv, Types, Coroutines!PidIsOurs, Coroutines!TimerIsLive, Coroutines!proc, Coroutines!coro, Coroutines!Noted
  <1>3. Coroutines!EndIsSignalled' /\ NoneLeft'
    BY <1>1, NotedStep DEF ProcInv, Types, Coroutines!EndIsSignalled, NoneLeft
  <1>4. QED
    BY <1>2, <1>3 DEF ProcInv

LEMMA HandlesStep ==
  ASSUME ProcInv, Coroutines!Handles
  PROVE  ProcInv'
  <1> DEFINE ended == {p \in CoroutinesProcs : child[p] = "zombie"}
  <1> USE DEF ProcInv, Types, Coroutines!Handles
  <1>1. CASE coroutinesSig = "chld" /\ ended # {}
    <2>1. Coroutines!ReapsThem(ended)
      BY <1>1 DEF Coroutines!AllOf
    <2>2. Types' /\ (Coroutines!PidIsOurs /\ Coroutines!TimerIsLive)'
      BY <2>1 DEF Coroutines!ReapsThem, Coroutines!ForgetsPid, Coroutines!PidIsOurs, Coroutines!TimerIsLive
    <2>3. \A p \in CoroutinesProcs : child'[p] # "zombie"
      BY <2>1 DEF Coroutines!ReapsThem
    <2>4. QED
      BY <2>2, <2>3 DEF Coroutines!EndIsSignalled, NoneLeft
  <1>2. CASE ~(coroutinesSig = "chld" /\ ended # {})
    <2>1. UNCHANGED <<child, pid, timer, doing, coroutinesSig>> /\ handled' = TRUE /\ lost' \in BOOLEAN
      BY <1>2
    <2>2. ~lost' => \A p \in CoroutinesProcs : child[p] # "zombie"
      BY <1>2 DEF Coroutines!EndIsSignalled
    <2>3. QED
      BY <2>1, <2>2 DEF Coroutines!PidIsOurs, Coroutines!TimerIsLive, Coroutines!EndIsSignalled, NoneLeft
  <1>3. QED
    BY <1>1, <1>2

LEMMA ProcStep ==
  ASSUME ProcInv, [Coroutines!Next]_(Coroutines!vars)
  PROVE  ProcInv'
  <1> USE DEF ProcInv, Types, Coroutines!proc, Coroutines!coro, Coroutines!sigs
  <1>1. CASE UNCHANGED Coroutines!vars
    BY <1>1 DEF Coroutines!vars, Coroutines!PidIsOurs, Coroutines!TimerIsLive, Coroutines!EndIsSignalled, NoneLeft
  <1>2. CASE Coroutines!Hangup
    BY <1>2, HangupStep
  <1>3. CASE Coroutines!Handles
    BY <1>3, HandlesStep
  <1>4. CASE Coroutines!Clears
    BY <1>4 DEF Coroutines!Clears, Coroutines!PidIsOurs, Coroutines!TimerIsLive, Coroutines!EndIsSignalled, NoneLeft
  <1>5. ASSUME NEW p \in CoroutinesProcs, NEW b \in BOOLEAN, Coroutines!Starts(p, b)
        PROVE  ProcInv'
    BY <1>5 DEF Coroutines!Starts, Coroutines!PidIsOurs, Coroutines!TimerIsLive, Coroutines!EndIsSignalled, NoneLeft
  <1>6. ASSUME NEW p \in CoroutinesProcs, Coroutines!Writes(p) \/ Coroutines!ClosesOutput(p)
        PROVE  ProcInv'
    BY <1>6 DEF Coroutines!Writes, Coroutines!ClosesOutput, Coroutines!PidIsOurs, Coroutines!TimerIsLive, Coroutines!EndIsSignalled, NoneLeft
  <1>7. ASSUME NEW p \in CoroutinesProcs, Coroutines!Exits(p)
        PROVE  ProcInv'
    BY <1>7, ExitsStep
  <1>8. ASSUME NEW p \in CoroutinesProcs, Coroutines!TimerFires(p)
        PROVE  ProcInv'
    BY <1>8 DEF Coroutines!TimerFires, Coroutines!PidIsOurs, Coroutines!TimerIsLive, Coroutines!EndIsSignalled, NoneLeft
  <1>9. ASSUME NEW p \in CoroutinesProcs, Coroutines!Runs(p) \/ Coroutines!ClientGone(p)
        PROVE  ProcInv'
    <2>1. CASE Coroutines!Ends(p)
      BY <2>1, EndsStep
    <2>2. CASE ~Coroutines!Ends(p)
      <3>1. CASE Coroutines!Runs(p)
        <4>1. /\ UNCHANGED <<child, pid, coroutinesSig, lost, handled>>
              /\ \/ UNCHANGED <<doing, timer>>
                 \/ /\ doing' = [doing EXCEPT ![p] = "reap"]
                    /\ timer' = [timer EXCEPT ![p] = FALSE]
          BY <2>2, <3>1 DEF Coroutines!Runs, Coroutines!Reads, Coroutines!AwaitsReap
        <4>2. Types' /\ (Coroutines!PidIsOurs /\ Coroutines!TimerIsLive)'
          BY <4>1 DEF Coroutines!PidIsOurs, Coroutines!TimerIsLive
        <4>3. Coroutines!EndIsSignalled' /\ NoneLeft'
          BY <4>1 DEF Coroutines!EndIsSignalled, NoneLeft
        <4> QED BY <4>2, <4>3
      <3>2. CASE Coroutines!ClientGone(p)
        BY <2>2, <3>2 DEF Coroutines!ClientGone, Coroutines!PidIsOurs, Coroutines!TimerIsLive,
                          Coroutines!EndIsSignalled, NoneLeft
      <3> QED BY <1>9, <3>1, <3>2
    <2>3. QED
      BY <2>1, <2>2
  <1>10. QED
    BY <1>1, <1>2, <1>3, <1>4, <1>5, <1>6, <1>7, <1>8, <1>9 DEF Coroutines!Next

LEMMA ProcInvHolds == Coroutines!Spec => []ProcInv
  <1>1. QED
    BY InitProc, ProcStep, PTL DEF Coroutines!Spec

(* A pid that is kept, and that a timeout, the end of the coroutine or     *)
(* proc.kill() may signal, is of a process that was not yet waited for     *)
(* (kore_python_proc_reap, pyproc_dealloc).                                *)
THEOREM PidStaysOurs == Coroutines!Spec => []Coroutines!PidIsOurs
  <1>1. ProcInv => Coroutines!PidIsOurs
    BY DEF ProcInv
  <1>2. QED
    BY <1>1, ProcInvHolds, PTL

(* A timer that may fire is of a process that is read from and has its pid *)
(* (pyproc_timeout uses both).                                             *)
THEOREM TimerStaysLive == Coroutines!Spec => []Coroutines!TimerIsLive
  <1>1. ProcInv => Coroutines!TimerIsLive
    BY DEF ProcInv
  <1>2. QED
    BY <1>1, ProcInvHolds, PTL

(* Every process that ended and was not waited for has its signal noted,   *)
(* except from when a SIGCHLD is overwritten or cleared unseen until the   *)
(* next one is seen (signal_handler, kore_worker_entry).                   *)
THEOREM EndStaysSignalled == Coroutines!Spec => []Coroutines!EndIsSignalled
  <1>1. ProcInv => Coroutines!EndIsSignalled
    BY DEF ProcInv
  <1>2. QED
    BY <1>1, ProcInvHolds, PTL

-----------------------------------------------------------------------------
(* The bodies of requests (KoreBody): the form that http.c parses out of   *)
(* them, and what a page reads of them and of the files in the form.       *)
-----------------------------------------------------------------------------
(* Where a word lies in a text, as what multipart_find_data looks for does *)
(* in the body of a request.                                               *)

\* A word lies in a text behind its first p letters; it does so first.
Lies(t, w, p)    == p + Len(w) <= Len(t) /\ \A u \in 1..Len(w) : t[p + u] = w[u]
FirstIn(t, w, q) == Lies(t, w, q) /\ \A j \in 0..(q - 1) : ~Lies(t, w, j)

LEMMA LiesJoined ==
  ASSUME NEW S, NEW t \in Seq(S), NEW a \in Seq(S), NEW b \in Seq(S), NEW p \in Nat
  PROVE  Lies(t, a \o b, p) <=> Lies(t, a, p) /\ Lies(t, b, p + Len(a))
  <1> DEFINE c == a \o b
  <1>1. /\ Len(a) \in Nat /\ Len(b) \in Nat /\ Len(t) \in Nat /\ Len(c) = Len(a) + Len(b)
        /\ \A i \in 1..(Len(a) + Len(b)) : c[i] = IF i <= Len(a) THEN a[i] ELSE b[i - Len(a)]
    BY JoinedAt, LenProperties
  <1> HIDE DEF c
  <1>2. ASSUME Lies(t, c, p) PROVE Lies(t, a, p) /\ Lies(t, b, p + Len(a))
    <2>1. p + (Len(a) + Len(b)) <= Len(t) /\ \A i \in 1..(Len(a) + Len(b)) : t[p + i] = c[i]
      BY <1>1, <1>2 DEF Lies
    <2>2. ASSUME NEW u \in 1..Len(a) PROVE t[p + u] = a[u]
      <3>1. u \in 1..(Len(a) + Len(b)) /\ u <= Len(a)
        BY <1>1
      <3> QED BY <1>1, <2>1, <3>1
    <2>3. ASSUME NEW u \in 1..Len(b) PROVE t[(p + Len(a)) + u] = b[u]
      <3> DEFINE i == Len(a) + u
      <3>1. i \in 1..(Len(a) + Len(b)) /\ ~(i <= Len(a)) /\ i - Len(a) = u /\ p + i = (p + Len(a)) + u
        BY <1>1
      <3> HIDE DEF i
      <3>2. t[p + i] = c[i] /\ c[i] = b[i - Len(a)]
        BY <1>1, <2>1, <3>1
      <3> QED BY <3>1, <3>2
    <2>4. p + Len(a) <= Len(t) /\ (p + Len(a)) + Len(b) <= Len(t)
      BY <1>1, <2>1
    <2> QED BY <2>2, <2>3, <2>4 DEF Lies
  <1>3. ASSUME Lies(t, a, p), Lies(t, b, p + Len(a)) PROVE Lies(t, c, p)
    <2>1. /\ (p + Len(a)) + Len(b) <= Len(t)
          /\ \A u \in 1..Len(a) : t[p + u] = a[u]
          /\ \A u \in 1..Len(b) : t[(p + Len(a)) + u] = b[u]
      BY <1>3 DEF Lies
    <2>2. ASSUME NEW i \in 1..Len(c) PROVE t[p + i] = c[i]
      <3>0. i \in 1..(Len(a) + Len(b)) /\ i \in Nat
        BY <1>1
      <3>1. CASE i <= Len(a)
        <4>1. i \in 1..Len(a)
          BY <1>1, <3>0, <3>1
        <4> QED BY <1>1, <2>1, <3>0, <3>1, <4>1
      <3>2. CASE ~(i <= Len(a))
        <4> DEFINE u == i - Len(a)
        <4>1. u \in 1..Len(b) /\ (p + Len(a)) + u = p + i
          BY <1>1, <3>0, <3>2
        <4>2. c[i] = b[u]
          BY <1>1, <3>0, <3>2
        <4> HIDE DEF u
        <4> QED BY <2>1, <4>1, <4>2
      <3> QED BY <3>1, <3>2
    <2>3. p + Len(c) <= Len(t)
      BY <1>1, <2>1
    <2> QED BY <2>2, <2>3 DEF Lies
  <1> QED BY <1>2, <1>3 DEF c

LEMMA LiesInside ==
  ASSUME NEW S, NEW t \in Seq(S), NEW s \in Seq(S), NEW w \in Seq(S), NEW p \in Nat, NEW q \in Nat,
         Lies(t, s, p), q + Len(w) <= Len(s)
  PROVE  Lies(t, w, p + q) <=> Lies(s, w, q)
  <1>1. /\ Len(t) \in Nat /\ Len(s) \in Nat /\ Len(w) \in Nat
        /\ p + Len(s) <= Len(t) /\ \A i \in 1..Len(s) : t[p + i] = s[i]
    BY LenProperties DEF Lies
  <1>2. ASSUME NEW u \in 1..Len(w) PROVE t[(p + q) + u] = s[q + u]
    <2> DEFINE i == q + u
    <2>1. i \in 1..Len(s) /\ p + i = (p + q) + u
      BY <1>1
    <2> HIDE DEF i
    <2>2. t[p + i] = s[i]
      BY <1>1, <2>1
    <2> QED BY <2>1, <2>2 DEF i
  <1>3. (p + q) + Len(w) <= Len(t)
    BY <1>1
  <1> QED BY <1>2, <1>3 DEF Lies

LEMMA LiesCut ==
  ASSUME NEW S, NEW t \in Seq(S), NEW n \in 0..Len(t), NEW w \in Seq(S), NEW p \in Nat
  PROVE  /\ SubSeq(t, 1, n) \in Seq(S) /\ Len(SubSeq(t, 1, n)) = n
         /\ Lies(SubSeq(t, 1, n), w, p) <=> Lies(t, w, p) /\ p + Len(w) <= n
  <1> DEFINE c == SubSeq(t, 1, n)
  <1>1. /\ Len(t) \in Nat /\ Len(w) \in Nat /\ n \in Nat /\ n <= Len(t)
    BY LenProperties
  <1>2. c \in Seq(S) /\ Len(c) = n /\ \A i \in 1..n : c[i] = t[i]
    <2>1. \A i \in 1..n : t[i] \in S
      <3>1. \A i \in 1..n : i \in 1..Len(t)
        BY <1>1
      <3> QED BY <3>1, ElementOfSeq
    <2> QED BY <1>1, <2>1, SubSeqProperties
  <1> HIDE DEF c
  <1>3. ASSUME NEW u \in 1..Len(w), p + Len(w) <= n PROVE c[p + u] = t[p + u]
    <2>1. p + u \in 1..n
      BY <1>1, <1>3
    <2> QED BY <1>2, <2>1
  <1>4. p + Len(w) <= n => p + Len(w) <= Len(t)
    BY <1>1
  <1> QED BY <1>2, <1>3, <1>4 DEF Lies, c

\* Pieces of a text.
LEMMA LiesPiece ==
  ASSUME NEW S, NEW t \in Seq(S), NEW p \in Nat, NEW n \in Nat, p + n <= Len(t)
  PROVE  /\ SubSeq(t, p + 1, p + n) \in Seq(S) /\ Len(SubSeq(t, p + 1, p + n)) = n
         /\ Lies(t, SubSeq(t, p + 1, p + n), p)
         /\ \A w \in Seq(S) : Len(w) = n => (Lies(t, w, p) <=> SubSeq(t, p + 1, p + n) = w)
  <1> DEFINE c == SubSeq(t, p + 1, p + n)
  <1>1. c = [i \in 1..n |-> t[p + i]]
    BY PieceIs
  <1>2. \A i \in 1..n : t[p + i] \in S
    <2>1. \A i \in 1..n : p + i \in 1..Len(t)
      BY LenProperties
    <2> QED BY <2>1, ElementOfSeq
  <1>3. c \in Seq(S) /\ Len(c) = n /\ \A i \in 1..n : c[i] = t[p + i]
    <2> HIDE DEF c
    <2>1. c \in [1..n -> S]
      BY <1>1, <1>2
    <2> QED BY <1>1, <2>1
  <1> HIDE DEF c
  <1>4. Lies(t, c, p)
    BY <1>3 DEF Lies
  <1>5. ASSUME NEW w \in Seq(S), Len(w) = n, Lies(t, w, p) PROVE c = w
    <2>1. \A i \in 1..n : t[p + i] = w[i]
      BY <1>5 DEF Lies
    <2> QED BY <1>3, <1>5, <2>1, SeqEqual
  <1> QED BY <1>3, <1>4, <1>5 DEF c

LEMMA LiesSame ==
  ASSUME NEW S, NEW t \in Seq(S), NEW a \in Seq(S), NEW b \in Seq(S), NEW p \in Nat,
         Lies(t, a, p), Lies(t, b, p), Len(a) = Len(b)
  PROVE  a = b
  <1>1. \A i \in 1..Len(a) : a[i] = b[i]
    BY DEF Lies
  <1> QED BY <1>1, SeqEqual

\* A list that is joined with others lies in what they are joined to.
LEMMA LiesFlat ==
  ASSUME NEW S, NEW ss \in Seq(Seq(S)), NEW i \in 1..Len(ss)
  PROVE  /\ EndsOf(ss)[i - 1] \in Nat
         /\ Lies(FlattenSeq(ss), ss[i], EndsOf(ss)[i - 1])
  <1> DEFINE e == EndsOf(ss)
             f == FlattenSeq(ss)
             n == Len(ss)
  <1>1. Laid(ss, e)
    BY Flattened
  <1>2. n \in Nat /\ \A k \in 1..n : ss[k] \in Seq(S) /\ Len(ss[k]) \in Nat
    OBVIOUS
  <1> HIDE DEF e
  <1>3. \A a, k \in 0..n : a <= k => e[a] <= e[k]
    BY <1>1, <1>2, Ascending
  <1>4. /\ e \in [0..n -> Nat] /\ e[n] = Len(f) /\ e[i] = e[i - 1] + Len(ss[i])
        /\ \A u \in 1..Len(ss[i]) : f[e[i - 1] + u] = ss[i][u]
    BY <1>1 DEF Laid
  <1>5. i \in 0..n /\ i - 1 \in 0..n /\ n \in 0..n /\ i <= n
    BY <1>2
  <1>6. e[i] <= e[n] /\ e[i - 1] \in Nat
    BY <1>3, <1>4, <1>5
  <1> HIDE DEF f, n
  <1>7. e[i - 1] + Len(ss[i]) <= Len(f)
    BY <1>4, <1>6
  <1> QED BY <1>4, <1>6, <1>7 DEF Lies, e, f

\* A byte that is read of a body may be past its end.
Read == Body!Letters \cup {"past the end"}
Text == Seq(Read)

LEMMA TextOf ==
  /\ Body!CRLF \in Text /\ Body!Boundary \in Text /\ <<"-", "-">> \in Text
  /\ \A s, t \in Text : s \o t \in Text
  /\ Seq(Body!Letters) \subseteq Text
  <1>1. "r" \in Read /\ "n" \in Read /\ "-" \in Read /\ "x" \in Read
    BY DEF Read, Body!Letters
  <1>2. Body!Letters \subseteq Read
    BY DEF Read
  <1>3. \A s, t \in Text : s \o t \in Text
    BY ConcatProperties DEF Text
  <1>4. Seq(Body!Letters) \subseteq Text
    BY <1>2, SeqMonotonic DEF Text
  <1> QED BY <1>1, <1>3, <1>4 DEF Text, Body!CRLF, Body!Boundary

LEMMA TextJoined ==
  ASSUME NEW s \in Text, NEW t \in Text
  PROVE  s \o t \in Text /\ Len(s \o t) = Len(s) + Len(t)
  BY JoinedAt DEF Text

LEMMA SameJoined == ASSUME NEW ss PROVE Body!FlattenSeq(ss) = FlattenSeq(ss)
  BY Zenon DEF Body!FlattenSeq, FlattenSeq

\* The parts of a form, as they are encoded.
PartOf    == [kind : Kinds, data : Datas]
Layout(f) == [i \in DOMAIN f |-> Body!Piece(f[i])]

\* A part is its line end, headers, an empty line, contents, and the boundary
\* on a line of its own.
Ends(z) == z.kind \o Body!CRLF \o Body!CRLF
Open(z) == z.data \o Body!CRLF

LEMMA PieceIsText ==
  ASSUME Body!BodyAssumption, NEW z \in PartOf
  PROVE  /\ z.kind \in Text /\ z.data \in Text /\ Ends(z) \in Text /\ Open(z) \in Text
         /\ Len(z.kind) \in Nat /\ Len(z.data) \in Nat
         /\ Len(Ends(z)) = Len(z.kind) + 4 /\ Len(Open(z)) = Len(z.data) + 2
         /\ Body!Piece(z) \in Text /\ Len(Body!Piece(z)) = Len(z.kind) + Len(z.data) + 10
         /\ \A t \in Text, p \in Nat :
              Lies(t, Body!Piece(z), p) =>
                /\ Lies(t, Body!CRLF, p) /\ Lies(t, Ends(z), p + 2)
                /\ Lies(t, Open(z), p + 6 + Len(z.kind))
                /\ Lies(t, Body!Boundary, p + 8 + Len(z.kind) + Len(z.data))
  <1> DEFINE k == z.kind
             d == z.data
             c == Body!CRLF
             x == Body!Boundary
  <1>1. k \in Text /\ d \in Text /\ c \in Text /\ x \in Text /\ Len(c) = 2 /\ Len(x) = 2
    <2>1. k \in Kinds /\ d \in Datas
      BY DEF PartOf
    <2>2. Len(c) = 2 /\ Len(x) = 2
      BY DEF Body!CRLF, Body!Boundary
    <2> QED BY <2>1, <2>2, TextOf DEF Body!BodyAssumption
  <1>e. Body!Piece(z) = c \o k \o c \o c \o d \o c \o x /\ Ends(z) = k \o c \o c /\ Open(z) = d \o c
    BY DEF Body!Piece, Ends, Open
  <1> HIDE DEF k, d, c, x
  <1>2. Len(k) \in Nat /\ Len(d) \in Nat
    BY <1>1, LenProperties DEF Text
  <1>3. \A s, t \in Text : s \o t \in Text /\ Len(s \o t) = Len(s) + Len(t)
    BY TextOf, JoinedAt DEF Text
  <1> DEFINE s1 == c \o k
             s2 == s1 \o c
             s3 == s2 \o c
             s4 == s3 \o d
             s5 == s4 \o c
             s6 == s5 \o x
             e1 == k \o c
             e2 == e1 \o c
             o1 == d \o c
  <1>4. s1 \in Text /\ Len(s1) = 2 + Len(k) /\ e1 \in Text /\ Len(e1) = Len(k) + 2
        /\ o1 \in Text /\ Len(o1) = Len(d) + 2
    <2>1. s1 \in Text /\ Len(s1) = Len(c) + Len(k)
      BY <1>1, <1>3
    <2>2. e1 \in Text /\ Len(e1) = Len(k) + Len(c)
      BY <1>1, <1>3
    <2>3. o1 \in Text /\ Len(o1) = Len(d) + Len(c)
      BY <1>1, <1>3
    <2> HIDE DEF s1, e1, o1
    <2> QED BY <1>1, <1>2, <2>1, <2>2, <2>3
  <1> HIDE DEF s1, e1
  <1>5. s2 \in Text /\ Len(s2) = 4 + Len(k) /\ e2 \in Text /\ Len(e2) = Len(k) + 4
    <2>1. s2 \in Text /\ Len(s2) = Len(s1) + Len(c)
      BY <1>1, <1>3, <1>4
    <2>2. e2 \in Text /\ Len(e2) = Len(e1) + Len(c)
      BY <1>1, <1>3, <1>4
    <2> HIDE DEF s2, e2
    <2> QED BY <1>1, <1>2, <1>4, <2>1, <2>2
  <1> HIDE DEF s2
  <1>6. s3 \in Text /\ Len(s3) = 6 + Len(k)
    <2>1. s3 \in Text /\ Len(s3) = Len(s2) + Len(c)
      BY <1>1, <1>3, <1>5
    <2> HIDE DEF s3
    <2> QED BY <1>1, <1>2, <1>5, <2>1
  <1> HIDE DEF s3
  <1>7. s4 \in Text /\ Len(s4) = 6 + Len(k) + Len(d)
    <2>1. s4 \in Text /\ Len(s4) = Len(s3) + Len(d)
      BY <1>1, <1>3, <1>6
    <2> HIDE DEF s4
    <2> QED BY <1>1, <1>2, <1>6, <2>1
  <1> HIDE DEF s4
  <1>8. s5 \in Text /\ Len(s5) = 8 + Len(k) + Len(d)
    <2>1. s5 \in Text /\ Len(s5) = Len(s4) + Len(c)
      BY <1>1, <1>3, <1>7
    <2> HIDE DEF s5
    <2> QED BY <1>1, <1>2, <1>7, <2>1
  <1> HIDE DEF s5
  <1>9. s6 \in Text /\ Len(s6) = 10 + Len(k) + Len(d)
    <2>1. s6 \in Text /\ Len(s6) = Len(s5) + Len(x)
      BY <1>1, <1>3, <1>8
    <2> HIDE DEF s6
    <2> QED BY <1>1, <1>2, <1>8, <2>1
  <1> HIDE DEF s6, e2, o1
  <1>10. ASSUME NEW t \in Text, NEW p \in Nat, Lies(t, s6, p)
         PROVE  /\ Lies(t, c, p) /\ Lies(t, e2, p + 2)
                /\ Lies(t, o1, p + 6 + Len(k)) /\ Lies(t, x, p + 8 + Len(k) + Len(d))
    <2>0. ASSUME NEW a \in Text, NEW b \in Text, NEW m \in Nat
          PROVE  Lies(t, a \o b, m) <=> Lies(t, a, m) /\ Lies(t, b, m + Len(a))
      BY LiesJoined DEF Text
    <2>1. Lies(t, s5, p) /\ Lies(t, x, p + Len(s5))
      BY <1>1, <1>8, <1>10, <2>0 DEF s6
    <2>2. Lies(t, s4, p) /\ Lies(t, c, p + Len(s4))
      BY <1>1, <1>7, <2>1, <2>0 DEF s5
    <2>3. Lies(t, s3, p) /\ Lies(t, d, p + Len(s3))
      BY <1>1, <1>6, <2>2, <2>0 DEF s4
    <2>4. Lies(t, s2, p) /\ Lies(t, c, p + Len(s2))
      BY <1>1, <1>5, <2>3, <2>0 DEF s3
    <2>5. Lies(t, s1, p) /\ Lies(t, c, p + Len(s1))
      BY <1>1, <1>4, <2>4, <2>0 DEF s2
    <2>6. Lies(t, c, p) /\ Lies(t, k, p + Len(c))
      BY <1>1, <2>5, <2>0 DEF s1
    <2>7. Lies(t, e1, p + 2)
      <3>1. p + 2 \in Nat /\ (p + 2) + Len(k) = p + Len(s1) /\ p + Len(c) = p + 2
        BY <1>1, <1>2, <1>4
      <3> QED BY <1>1, <2>0, <2>5, <2>6, <3>1 DEF e1
    <2>8. Lies(t, e2, p + 2)
      <3>1. p + 2 \in Nat /\ (p + 2) + Len(e1) = p + Len(s2)
        BY <1>2, <1>4, <1>5
      <3> QED BY <1>1, <1>4, <2>0, <2>4, <2>7, <3>1 DEF e2
    <2>9. Lies(t, o1, p + 6 + Len(k))
      <3>1. /\ p + 6 + Len(k) \in Nat /\ p + Len(s3) = p + 6 + Len(k)
            /\ (p + 6 + Len(k)) + Len(d) = p + Len(s4)
        BY <1>2, <1>6, <1>7
      <3> QED BY <1>1, <2>0, <2>2, <2>3, <3>1 DEF o1
    <2>10. p + Len(s5) = p + 8 + Len(k) + Len(d)
      BY <1>2, <1>8
    <2> QED BY <2>1, <2>6, <2>8, <2>9, <2>10
  <1>11. Body!Piece(z) = s6 /\ Ends(z) = e2 /\ Open(z) = o1
    BY <1>e DEF s1, s2, s3, s4, s5, s6, e1, e2, o1
  <1>12. 10 + Len(k) + Len(d) = Len(k) + Len(d) + 10
    BY <1>2
  <1>13. z.kind = k /\ z.data = d /\ Body!CRLF = c /\ Body!Boundary = x
    BY DEF k, d, c, x
  <1> QED BY <1>1, <1>2, <1>4, <1>5, <1>9, <1>10, <1>11, <1>12, <1>13

\* The encoded form.
LEMMA EncodedIs ==
  ASSUME Body!BodyAssumption, NEW f \in Body!Forms
  PROVE  /\ DOMAIN f = 1..Len(f) /\ Len(f) \in Nat /\ \A i \in 1..Len(f) : f[i] \in PartOf
         /\ Layout(f) \in Seq(Text) /\ Len(Layout(f)) = Len(f)
         /\ \A i \in 1..Len(f) : Layout(f)[i] = Body!Piece(f[i])
         /\ FlattenSeq(Layout(f)) \in Text /\ Len(FlattenSeq(Layout(f))) \in Nat
         /\ Body!Encoded(f) \in Text /\ Len(Body!Encoded(f)) = Len(FlattenSeq(Layout(f))) + 6
         /\ Lies(Body!Encoded(f), Body!Boundary, 0)
         /\ Lies(Body!Encoded(f), FlattenSeq(Layout(f)), 2)
         /\ Lies(Body!Encoded(f), <<"-", "-">> \o Body!CRLF, Len(FlattenSeq(Layout(f))) + 2)
  <1>1. PICK n \in 1..MaxParts : f \in [1..n -> PartOf]
    BY DEF Body!Forms, PartOf
  <1>2. n \in Nat /\ DOMAIN f = 1..n /\ Len(f) = n
    <2>1. n \in Nat
      BY <1>1 DEF Body!BodyAssumption
    <2> QED BY <1>1, <2>1
  <1>3. \A i \in 1..n : f[i] \in PartOf /\ Body!Piece(f[i]) \in Text
    BY <1>1, PieceIsText
  <1>4. Layout(f) \in Seq(Text) /\ Len(Layout(f)) = n /\ \A i \in 1..n : Layout(f)[i] = Body!Piece(f[i])
    <2> DEFINE ss == Layout(f)
    <2>1. ss \in [1..n -> Text] /\ \A i \in 1..n : ss[i] = Body!Piece(f[i])
      BY <1>2, <1>3 DEF Layout
    <2> HIDE DEF ss
    <2>2. ss \in Seq(Text) /\ Len(ss) = n
      BY <1>2, <2>1
    <2> QED BY <2>1, <2>2 DEF ss
  <1> DEFINE flat == FlattenSeq(Layout(f))
             x == Body!Boundary
             d == <<"-", "-">>
             c == Body!CRLF
  <1>5. flat \in Text
    BY <1>4, Flattened DEF Text
  <1>6. x \in Text /\ d \in Text /\ c \in Text /\ Len(x) = 2 /\ Len(d) = 2 /\ Len(c) = 2
    BY TextOf DEF Body!Boundary, Body!CRLF
  <1>7. Body!Encoded(f) = x \o flat \o d \o c
    <2>1. Body!FlattenSeq(Layout(f)) = flat
      BY SameJoined
    <2> QED BY <2>1 DEF Body!Encoded, Layout
  <1> HIDE DEF flat, x, d, c
  <1>8. \A s, t \in Text : s \o t \in Text /\ Len(s \o t) = Len(s) + Len(t)
    BY TextOf, JoinedAt DEF Text
  <1>9. Len(flat) \in Nat
    BY <1>5, LenProperties DEF Text
  <1> DEFINE s1 == x \o flat
             s2 == s1 \o d
             s3 == s2 \o c
             dc == d \o c
  <1>10. s1 \in Text /\ Len(s1) = 2 + Len(flat) /\ dc \in Text /\ Len(dc) = 4
    <2>1. s1 \in Text /\ Len(s1) = Len(x) + Len(flat)
      BY <1>5, <1>6, <1>8
    <2>2. dc \in Text /\ Len(dc) = Len(d) + Len(c)
      BY <1>6, <1>8
    <2> HIDE DEF s1, dc
    <2> QED BY <1>6, <1>9, <2>1, <2>2
  <1> HIDE DEF s1
  <1>11. s2 \in Text /\ Len(s2) = 4 + Len(flat)
    <2>1. s2 \in Text /\ Len(s2) = Len(s1) + Len(d)
      BY <1>6, <1>8, <1>10
    <2> HIDE DEF s2
    <2> QED BY <1>6, <1>9, <1>10, <2>1
  <1> HIDE DEF s2
  <1>12. s3 \in Text /\ Len(s3) = 6 + Len(flat)
    <2>1. s3 \in Text /\ Len(s3) = Len(s2) + Len(c)
      BY <1>6, <1>8, <1>11
    <2> HIDE DEF s3
    <2> QED BY <1>6, <1>9, <1>11, <2>1
  <1> HIDE DEF s3
  <1>13. Lies(s3, s3, 0)
    BY <1>9, <1>12 DEF Lies
  <1>14. ASSUME NEW a \in Text, NEW b \in Text, NEW m \in Nat
         PROVE  Lies(s3, a \o b, m) <=> Lies(s3, a, m) /\ Lies(s3, b, m + Len(a))
    BY <1>12, LiesJoined DEF Text
  <1>15. Lies(s3, s2, 0) /\ Lies(s3, c, 0 + Len(s2))
    <2>1. Lies(s3, s2 \o c, 0)
      BY <1>13 DEF s3
    <2> HIDE DEF s3
    <2> QED BY <1>6, <1>11, <1>14, <2>1
  <1>16. Lies(s3, s1, 0) /\ Lies(s3, d, 0 + Len(s1))
    BY <1>6, <1>10, <1>14, <1>15 DEF s2
  <1>17. Lies(s3, x, 0) /\ Lies(s3, flat, 0 + Len(x))
    BY <1>5, <1>6, <1>14, <1>16 DEF s1
  <1>18. Lies(s3, dc, Len(flat) + 2)
    <2>1. /\ Len(flat) + 2 \in Nat /\ 0 + Len(s1) = Len(flat) + 2
          /\ (Len(flat) + 2) + Len(d) = 0 + Len(s2)
      BY <1>6, <1>9, <1>10, <1>11
    <2> QED BY <1>6, <1>14, <1>15, <1>16, <2>1
  <1>19. Body!Encoded(f) = s3
    BY <1>7 DEF s1, s2, s3
  <1>20. 0 + Len(x) = 2 /\ 6 + Len(flat) = Len(flat) + 6
    BY <1>6, <1>9
  <1>21. flat = FlattenSeq(Layout(f)) /\ x = Body!Boundary /\ dc = <<"-", "-">> \o Body!CRLF
    BY DEF flat, x, d, c
  <1> HIDE DEF dc
  <1> QED BY <1>2, <1>3, <1>4, <1>5, <1>9, <1>12, <1>17, <1>18, <1>19, <1>20, <1>21
-----------------------------------------------------------------------------
(* Where in the form the parser finds what it looks for.                   *)
\* Two letters.
LEMMA TwoLie ==
  ASSUME NEW t, NEW w, Len(w) = 2, NEW j \in Nat, Lies(t, w, j)
  PROVE  t[j + 1] = w[1] /\ t[j + 2] = w[2]
  <1>1. 1 \in 1..2 /\ 2 \in 1..2
    OBVIOUS
  <1> QED BY <1>1 DEF Lies

\* What the parser looks for in a part is first found where the part has it.
LEMMA HeadersEnd ==
  ASSUME Body!BodyAssumption, NEW z \in PartOf
  PROVE  FirstIn(Ends(z), Body!CRLF \o Body!CRLF, Len(z.kind))
  <1> DEFINE k == z.kind
             c == Body!CRLF
             e == Ends(z)
             kc == k \o c
             cc == c \o c
  <1>1. k \in Text /\ c \in Text /\ e \in Text /\ Len(c) = 2 /\ Len(k) \in Nat /\ Len(e) = Len(k) + 4
    <2>1. Len(c) = 2
      BY DEF Body!CRLF
    <2> QED BY <2>1, TextOf, PieceIsText
  <1>2. \A j \in 1..Len(k) : SubSeq(e, j, j + 3) # cc
    BY DEF Body!BodyAssumption, PartOf, Ends
  <1>3. e = kc \o c
    BY DEF Ends
  <1> HIDE DEF k, c, e
  <1>4. kc \in Text /\ cc \in Text /\ Len(kc) = Len(k) + Len(c) /\ Len(cc) = Len(c) + Len(c)
    BY <1>1, TextJoined
  <1>5. ASSUME NEW a \in Text, NEW b \in Text, NEW m \in Nat
        PROVE  Lies(e, a \o b, m) <=> Lies(e, a, m) /\ Lies(e, b, m + Len(a))
    BY <1>1, LiesJoined DEF Text
  <1>6. Lies(e, e, 0)
    BY <1>1 DEF Lies
  <1>7. Lies(e, kc, 0) /\ Lies(e, c, 0 + Len(kc))
    <2>1. Lies(e, kc \o c, 0)
      BY <1>3, <1>6
    <2> HIDE DEF kc
    <2> QED BY <1>1, <1>4, <1>5, <2>1
  <1>8. Lies(e, k, 0) /\ Lies(e, c, 0 + Len(k))
    BY <1>1, <1>5, <1>7
  <1>9. Lies(e, cc, Len(k))
    <2>1. Lies(e, c, Len(k)) /\ Lies(e, c, Len(k) + Len(c))
      <3>1. 0 + Len(k) = Len(k) /\ 0 + Len(kc) = Len(k) + Len(c)
        BY <1>1, <1>4
      <3> QED BY <1>7, <1>8, <3>1
    <2> QED BY <1>1, <1>5, <2>1
  <1> HIDE DEF kc, cc
  <1>10. ASSUME NEW j \in 0..(Len(k) - 1) PROVE ~Lies(e, cc, j)
    <2>1. j + 1 \in 1..Len(k) /\ j \in Nat /\ j + 4 = (j + 1) + 3 /\ j + 4 <= Len(e) /\ Len(cc) = 4
      BY <1>1, <1>4
    <2>2. SubSeq(e, j + 1, j + 4) # cc
      BY <1>2, <2>1
    <2>3. Lies(e, cc, j) => SubSeq(e, j + 1, j + 4) = cc
      <3>1. e \in Seq(Read) /\ cc \in Seq(Read)
        BY <1>1, <1>4 DEF Text
      <3> DEFINE v == Len(cc)
      <3>2. v \in Nat /\ j \in Nat /\ j + v <= Len(e)
        BY <2>1
      <3>3. Len(cc) = v
        OBVIOUS
      <3> HIDE DEF v
      <3>4. Lies(e, cc, j) => SubSeq(e, j + 1, j + v) = cc
        BY <3>1, <3>2, <3>3, LiesPiece
      <3>5. v = 4
        BY <2>1 DEF v
      <3> QED BY <3>4, <3>5
    <2> QED BY <2>2, <2>3
  <1> QED BY <1>9, <1>10 DEF FirstIn, k, c, e, cc

LEMMA ContentsEnd ==
  ASSUME Body!BodyAssumption, NEW z \in PartOf
  PROVE  /\ FirstIn(Open(z) \o Body!Boundary, Body!Boundary, Len(z.data) + 2)
         /\ \A j \in Nat : ~Lies(Open(z), Body!Boundary, j)
  <1> DEFINE d == z.data
             c == Body!CRLF
             x == Body!Boundary
             o == Open(z)
             g == o \o x
  <1>1. /\ d \in Text /\ c \in Text /\ x \in Text /\ o \in Text
        /\ Len(c) = 2 /\ Len(x) = 2 /\ Len(d) \in Nat /\ Len(o) = Len(d) + 2
        /\ c[1] = "r" /\ c[2] = "n" /\ x[1] = "-" /\ x[2] = "x"
    <2>1. /\ Len(c) = 2 /\ Len(x) = 2
          /\ c[1] = "r" /\ c[2] = "n" /\ x[1] = "-" /\ x[2] = "x"
      BY DEF Body!CRLF, Body!Boundary
    <2> QED BY <2>1, TextOf, PieceIsText
  <1>2. \A j \in 1..(Len(d) - 1) : SubSeq(d, j, j + 1) # x
    BY DEF Body!BodyAssumption, PartOf
  <1>3. o = d \o c
    BY DEF Open
  <1> HIDE DEF d, c, x, o
  <1>4. g \in Text /\ Len(g) = Len(o) + Len(x)
    BY <1>1, TextJoined
  <1>5. ASSUME NEW a \in Text, NEW b \in Text, NEW m \in Nat
        PROVE  Lies(g, a \o b, m) <=> Lies(g, a, m) /\ Lies(g, b, m + Len(a))
    BY <1>4, LiesJoined DEF Text
  <1>6. Lies(g, o, 0) /\ Lies(g, x, 0 + Len(o))
    <2>1. Lies(g, g, 0)
      BY <1>1, <1>4 DEF Lies
    <2>2. Lies(g, o \o x, 0)
      BY <2>1
    <2> HIDE DEF g
    <2> QED BY <1>1, <1>5, <2>2
  <1> HIDE DEF g
  <1>7. Lies(g, d, 0) /\ Lies(g, c, 0 + Len(d))
    BY <1>1, <1>3, <1>5, <1>6
  <1>8. Lies(g, c, Len(d)) /\ Lies(g, x, Len(d) + 2)
    <2>1. 0 + Len(d) = Len(d) /\ 0 + Len(o) = Len(d) + 2
      BY <1>1
    <2> QED BY <1>6, <1>7, <2>1
  <1>9. g[Len(d) + 1] = "r" /\ g[Len(d) + 2] = "n"
    BY <1>1, <1>8, TwoLie
  <1>10. ASSUME NEW j \in 0..(Len(d) + 1) PROVE ~Lies(g, x, j)
    <2> SUFFICES ASSUME Lies(g, x, j) PROVE FALSE
      OBVIOUS
    <2>0. j \in Nat
      OBVIOUS
    <2>1. g[j + 1] = "-" /\ g[j + 2] = "x"
      BY <1>1, <2>0, TwoLie
    <2>2. CASE j + 2 <= Len(d)
      <3>1. Lies(d, x, j)
        <4>1. 0 + j = j /\ 0 \in Nat /\ j + Len(x) <= Len(d)
          BY <1>1, <2>0, <2>2
        <4>2. Lies(g, x, 0 + j)
          BY <4>1
        <4> QED BY <1>1, <1>4, <1>7, <2>0, <4>1, <4>2, LiesInside DEF Text
      <3>2. SubSeq(d, j + 1, j + 2) = x
        <4>1. j + 2 <= Len(d) /\ Len(x) = 2 /\ 2 \in Nat /\ d \in Seq(Read) /\ x \in Seq(Read)
          BY <1>1, <2>2 DEF Text
        <4> QED BY <2>0, <3>1, <4>1, LiesPiece
      <3>3. j + 1 \in 1..(Len(d) - 1) /\ (j + 1) + 1 = j + 2
        BY <1>1, <2>0, <2>2
      <3>4. SubSeq(d, j + 1, (j + 1) + 1) # x
        BY <1>2, <3>3
      <3> QED BY <3>2, <3>3, <3>4
    <2>3. CASE j + 2 = Len(d) + 1
      BY <1>9, <2>1, <2>3
    <2>4. CASE j + 1 = Len(d) + 1
      BY <1>9, <2>1, <2>4
    <2>5. CASE j + 1 = Len(d) + 2
      BY <1>9, <2>1, <2>5
    <2>6. j + 2 <= Len(d) \/ j + 2 = Len(d) + 1 \/ j + 1 = Len(d) + 1 \/ j + 1 = Len(d) + 2
      BY <1>1, <2>0
    <2> QED BY <2>2, <2>3, <2>4, <2>5, <2>6
  <1>11. FirstIn(g, x, Len(d) + 2)
    <2>1. (Len(d) + 2) - 1 = Len(d) + 1
      BY <1>1
    <2> QED BY <1>8, <1>10, <2>1 DEF FirstIn
  <1>12. ASSUME NEW j \in Nat, Lies(o, x, j) PROVE FALSE
    <2>1. j + Len(x) <= Len(o)
      BY <1>12 DEF Lies
    <2>2. j \in 0..(Len(d) + 1) /\ 0 + j = j
      BY <1>1, <2>1
    <2>3. Lies(g, x, 0 + j)
      BY <1>1, <1>4, <1>6, <1>12, <2>1, LiesInside DEF Text
    <2> QED BY <1>10, <2>2, <2>3
  <1> QED BY <1>11, <1>12 DEF g, d, x, o

\* Behind the last boundary.
LEMMA FormEnds ==
  /\ <<"-", "-">> \o Body!CRLF \in Text /\ Len(<<"-", "-">> \o Body!CRLF) = 4
  /\ FirstIn(<<"-", "-">> \o Body!CRLF, Body!CRLF, 2)
  <1> DEFINE d == <<"-", "-">>
             c == Body!CRLF
             e == d \o c
  <1>1. /\ d \in Text /\ c \in Text /\ Len(d) = 2 /\ Len(c) = 2 /\ c[1] = "r"
        /\ d[1] = "-" /\ d[2] = "-"
    BY TextOf DEF Body!CRLF
  <1> HIDE DEF d, c
  <1>2. e \in Text /\ Len(e) = 4
    <2>1. e \in Text /\ Len(e) = Len(d) + Len(c)
      BY <1>1, TextJoined
    <2> QED BY <1>1, <2>1
  <1>3. Lies(e, e, 0)
    BY <1>2 DEF Lies
  <1>4. Lies(e, d, 0) /\ Lies(e, c, 2)
    <2>1. Lies(e, d, 0) /\ Lies(e, c, 0 + Len(d))
      <3>1. Lies(e, d \o c, 0)
        BY <1>3
      <3> HIDE DEF e
      <3> QED BY <1>1, <1>2, <3>1, LiesJoined DEF Text
    <2>2. 0 + Len(d) = 2
      BY <1>1
    <2> QED BY <2>1, <2>2
  <1> HIDE DEF e
  <1>5. e[1] = "-" /\ e[2] = "-"
    <2>1. e[0 + 1] = d[1] /\ e[0 + 2] = d[2]
      BY <1>1, <1>4, TwoLie
    <2>2. 0 + 1 = 1 /\ 0 + 2 = 2
      OBVIOUS
    <2> QED BY <1>1, <2>1, <2>2
  <1>6. ASSUME NEW j \in 0..(2 - 1), Lies(e, c, j) PROVE FALSE
    <2>1. e[j + 1] = "r"
      BY <1>1, <1>6, TwoLie
    <2>2. j + 1 = 1 \/ j + 1 = 2
      OBVIOUS
    <2> QED BY <1>5, <2>1, <2>2
  <1>7. FirstIn(e, c, 2)
    BY <1>4, <1>6 DEF FirstIn
  <1> QED BY <1>2, <1>7 DEF e, d, c

\* Where the parser stands in the body behind k parts, and where the contents
\* of part k begin.
Mark(k)    == EndsOf(Layout(form))[k] + 2
StartOf(k) == Mark(k - 1) + 6 + Len(form[k].kind)
Whole      == body = Body!Encoded(form)

\* The parts lie in the body one behind the other; one that was cut short is
\* without the boundary behind the last of them.
FormLies ==
  /\ form \in Body!Forms /\ body \in Text
  /\ Lies(body, Body!Boundary, 0)
  /\ \A k \in 1..Len(form) :
       /\ Lies(body, Body!CRLF, Mark(k - 1))
       /\ Lies(body, Ends(form[k]), Mark(k - 1) + 2)
       /\ Lies(body, Open(form[k]), StartOf(k))
       /\ k < Len(form) \/ Whole => Lies(body, Body!Boundary, Mark(k) - 2)
  /\ Whole => /\ Lies(body, <<"-", "-">> \o Body!CRLF, Mark(Len(form)))
              /\ Len(body) = Mark(Len(form)) + 4
  /\ ~Whole => Len(body) = Mark(Len(form)) - 2

LEMMA Marks ==
  ASSUME Body!BodyAssumption, form \in Body!Forms
  PROVE  /\ Len(form) \in Nat /\ Mark(0) = 2 /\ \A k \in 0..Len(form) : Mark(k) \in Nat
         /\ Mark(Len(form)) = Len(FlattenSeq(Layout(form))) + 2
         /\ \A k \in 1..Len(form) :
              /\ form[k] \in PartOf /\ Len(form[k].kind) \in Nat /\ Len(form[k].data) \in Nat
              /\ Mark(k - 1) \in Nat /\ Mark(k) \in Nat /\ StartOf(k) \in Nat
              /\ Mark(k) = StartOf(k) + Len(form[k].data) + 4
              /\ StartOf(k) = Mark(k - 1) + 6 + Len(form[k].kind)
         /\ \A i, k \in 0..Len(form) : i <= k => Mark(i) <= Mark(k)
  <1> DEFINE ss == Layout(form)
             e == EndsOf(ss)
             n == Len(form)
  <1>1. /\ n \in Nat /\ \A i \in 1..n : form[i] \in PartOf
        /\ ss \in Seq(Text) /\ Len(ss) = n /\ \A i \in 1..n : ss[i] = Body!Piece(form[i])
    BY EncodedIs
  <1>2. Laid(ss, e)
    <2> HIDE DEF ss
    <2> QED BY <1>1, Flattened DEF Text
  <1>3. \A i \in 1..n : Len(ss[i]) \in Nat
    <2>1. \A i \in 1..n : ss[i] \in Text
      BY <1>1, ElementOfSeq
    <2> QED BY <2>1, LenProperties DEF Text
  <1> HIDE DEF ss, e
  <1>4. \A i, k \in 0..n : i <= k => e[i] <= e[k]
    BY <1>1, <1>2, <1>3, Ascending
  <1>5. /\ e \in [0..n -> Nat] /\ e[0] = 0 /\ e[n] = Len(FlattenSeq(ss))
        /\ \A i \in 1..n : e[i] = e[i - 1] + Len(ss[i])
    BY <1>1, <1>2 DEF Laid
  <1>6. \A k : Mark(k) = e[k] + 2
    BY DEF Mark, e, ss
  <1>7. \A k \in 0..n : e[k] \in Nat /\ Mark(k) \in Nat
    BY <1>5, <1>6
  <1>8. ASSUME NEW k \in 1..n
        PROVE  /\ form[k] \in PartOf /\ Len(form[k].kind) \in Nat /\ Len(form[k].data) \in Nat
               /\ Mark(k - 1) \in Nat /\ Mark(k) \in Nat /\ StartOf(k) \in Nat
               /\ Mark(k) = StartOf(k) + Len(form[k].data) + 4
               /\ StartOf(k) = Mark(k - 1) + 6 + Len(form[k].kind)
    <2>1. /\ form[k] \in PartOf /\ Len(form[k].kind) \in Nat /\ Len(form[k].data) \in Nat
          /\ Len(ss[k]) = Len(form[k].kind) + Len(form[k].data) + 10
      BY <1>1, PieceIsText
    <2>2. k \in 0..n /\ k - 1 \in 0..n
      BY <1>1
    <2>3. StartOf(k) = Mark(k - 1) + 6 + Len(form[k].kind)
      BY DEF StartOf
    <2>4. e[k] = e[k - 1] + Len(ss[k]) /\ e[k] \in Nat /\ e[k - 1] \in Nat
      BY <1>5, <1>7, <2>2
    <2>5. Mark(k) = e[k] + 2 /\ Mark(k - 1) = e[k - 1] + 2
      BY <1>6
    <2> DEFINE u == Len(form[k].kind)
               v == Len(form[k].data)
               x == e[k]
               y == e[k - 1]
               a == Mark(k)
               b == Mark(k - 1)
               c == StartOf(k)
    <2>6. /\ u \in Nat /\ v \in Nat /\ c = b + 6 + u /\ x = y + (u + v + 10) /\ x \in Nat /\ y \in Nat
          /\ a = x + 2 /\ b = y + 2
      BY <2>1, <2>3, <2>4, <2>5
    <2> HIDE DEF u, v, x, y, a, b, c
    <2>7. b \in Nat /\ a \in Nat /\ c \in Nat /\ a = c + v + 4 /\ c = b + 6 + u
      BY <2>6
    <2> QED BY <2>1, <2>6, <2>7 DEF u, v, a, b, c
  <1>9. \A i, k \in 0..n : i <= k => Mark(i) <= Mark(k)
    <2> SUFFICES ASSUME NEW i \in 0..n, NEW k \in 0..n, i <= k PROVE Mark(i) <= Mark(k)
      OBVIOUS
    <2>1. e[i] <= e[k]
      BY <1>4
    <2>2. Mark(i) = e[i] + 2 /\ Mark(k) = e[k] + 2 /\ e[i] \in Nat /\ e[k] \in Nat
      BY <1>6, <1>7
    <2> DEFINE x == e[i]
               y == e[k]
    <2>3. Mark(i) = x + 2 /\ Mark(k) = y + 2 /\ x \in Nat /\ y \in Nat /\ x <= y
      BY <2>1, <2>2
    <2> HIDE DEF x, y
    <2> QED BY <2>3
  <1>10. Mark(0) = 2 /\ Mark(n) = Len(FlattenSeq(ss)) + 2
    BY <1>5, <1>6
  <1> QED BY <1>1, <1>7, <1>8, <1>9, <1>10 DEF ss

LEMMA FormIsLaid == ASSUME Body!BodyAssumption, Body!Init PROVE FormLies
  <1> DEFINE e == Body!Encoded(form)
             n == Len(form)
             flat == FlattenSeq(Layout(form))
             d == <<"-", "-">> \o Body!CRLF
  <1>1. form \in Body!Forms
    BY DEF Body!Init
  <1>2. PICK m \in {Len(e), Len(e) - 6} : body = SubSeq(e, 1, m)
    BY DEF Body!Init
  <1>3. /\ n \in Nat /\ \A k \in 1..n : form[k] \in PartOf
        /\ Layout(form) \in Seq(Text) /\ Len(Layout(form)) = n
        /\ \A k \in 1..n : Layout(form)[k] = Body!Piece(form[k])
        /\ flat \in Text /\ Len(flat) \in Nat
        /\ e \in Text /\ Len(e) = Len(flat) + 6
        /\ Lies(e, Body!Boundary, 0) /\ Lies(e, flat, 2) /\ Lies(e, d, Len(flat) + 2)
    BY <1>1, EncodedIs
  <1>4. d \in Text /\ Len(d) = 4
    BY FormEnds
  <1>w. Whole <=> body = e
    BY DEF Whole
  <1> HIDE DEF e, d
  <1>5. Mark(n) = Len(flat) + 2 /\ n \in 0..n
    BY <1>1, <1>3, Marks
  <1>6. ASSUME NEW k \in 1..n
        PROVE  /\ Mark(k - 1) - 2 \in Nat
               /\ Lies(e, Body!Piece(form[k]), Mark(k - 1))
    <2> DEFINE ss == Layout(form)
    <2>1. EndsOf(ss)[k - 1] \in Nat /\ Lies(FlattenSeq(ss), ss[k], EndsOf(ss)[k - 1])
      <3> HIDE DEF ss
      <3>1. ss \in Seq(Seq(Read)) /\ k \in 1..Len(ss)
        BY <1>3 DEF ss, Text
      <3> QED BY <3>1, LiesFlat
    <2> DEFINE p == EndsOf(ss)[k - 1]
               z == Body!Piece(form[k])
    <2>2. p \in Nat /\ Lies(flat, z, p) /\ Mark(k - 1) = p + 2
      BY <1>3, <2>1 DEF Mark
    <2>3. z \in Text
      BY <1>3, PieceIsText
    <2> HIDE DEF p, z, ss, flat
    <2>4. p + Len(z) <= Len(flat)
      BY <2>2 DEF Lies
    <2>5. Lies(e, z, 2 + p)
      BY <1>3, <2>2, <2>3, <2>4, LiesInside DEF Text
    <2>6. 2 + p = Mark(k - 1) /\ Mark(k - 1) - 2 = p
      BY <2>2
    <2> QED BY <2>2, <2>5, <2>6 DEF z
  <1> HIDE DEF flat
  <1>7. m \in 0..Len(e) /\ (m = Len(e) => body = e) /\ (m # Len(e) => m = Len(e) - 6)
    <2>1. m \in 0..Len(e) /\ (m # Len(e) => m = Len(e) - 6)
      BY <1>2, <1>3
    <2>2. ASSUME m = Len(e) PROVE SubSeq(e, 1, m) = e
      <3>1. Lies(e, e, 0)
        BY <1>3 DEF Lies
      <3>2. 0 + 1 = 1 /\ 0 + m = m /\ m \in Nat /\ e \in Seq(Read) /\ 0 + m <= Len(e)
        BY <1>3, <2>2 DEF Text
      <3>3. Lies(e, e, 0) <=> SubSeq(e, 0 + 1, 0 + m) = e
        BY <2>2, <3>2, LiesPiece
      <3> QED BY <3>1, <3>2, <3>3
    <2> QED BY <1>2, <2>1, <2>2
  <1>8. /\ body \in Text /\ Len(body) = m
        /\ \A w \in Text, p \in Nat : Lies(body, w, p) <=> Lies(e, w, p) /\ p + Len(w) <= m
    BY <1>2, <1>3, <1>7, LiesCut DEF Text
  <1>9. Whole <=> m = Len(e)
    BY <1>7, <1>8, <1>w, <1>3
  <1>10. Whole => Len(body) = Mark(n) + 4
    BY <1>3, <1>5, <1>8, <1>9
  <1>11. ~Whole => Len(body) = Mark(n) - 2
    BY <1>3, <1>5, <1>7, <1>8, <1>9
  <1>12. Whole => Lies(body, d, Mark(n))
    <2>1. ASSUME Whole PROVE Lies(body, d, Mark(n))
      <3>1. Len(flat) + 2 \in Nat /\ (Len(flat) + 2) + Len(d) <= m
        BY <1>3, <1>4, <1>9, <2>1
      <3> QED BY <1>3, <1>4, <1>5, <1>8, <3>1
    <2> QED BY <2>1
  <1>13. ASSUME NEW k \in 1..n
         PROVE  /\ Lies(body, Body!CRLF, Mark(k - 1))
                /\ Lies(body, Ends(form[k]), Mark(k - 1) + 2)
                /\ Lies(body, Open(form[k]), StartOf(k))
                /\ k < n \/ Whole => Lies(body, Body!Boundary, Mark(k) - 2)
    <2> DEFINE z == form[k]
               a == Len(z.kind)
               b == Len(z.data)
               q == Mark(k - 1)
    <2>1. /\ z \in PartOf /\ a \in Nat /\ b \in Nat /\ q \in Nat
          /\ Mark(k) = q + a + b + 10 /\ StartOf(k) = q + 6 + a
      <3> HIDE DEF a, b, q
      <3>1. /\ z \in PartOf /\ a \in Nat /\ b \in Nat /\ q \in Nat
            /\ Mark(k) = StartOf(k) + b + 4 /\ StartOf(k) = q + 6 + a
        BY <1>1, Marks DEF a, b, q
      <3> QED BY <3>1
    <2>2. /\ Ends(z) \in Text /\ Open(z) \in Text /\ Body!CRLF \in Text /\ Body!Boundary \in Text
          /\ Len(Ends(z)) = a + 4 /\ Len(Open(z)) = b + 2
          /\ Len(Body!CRLF) = 2 /\ Len(Body!Boundary) = 2
      <3>1. Len(Body!CRLF) = 2 /\ Len(Body!Boundary) = 2
        BY DEF Body!CRLF, Body!Boundary
      <3> QED BY <2>1, <3>1, TextOf, PieceIsText
    <2>3. /\ Lies(e, Body!CRLF, q) /\ Lies(e, Ends(z), q + 2) /\ Lies(e, Open(z), q + 6 + a)
          /\ Lies(e, Body!Boundary, q + 8 + a + b)
      BY <1>3, <1>6, <2>1, PieceIsText
    <2>4. Mark(k) <= Mark(n) /\ (k < n => Mark(k) + 6 <= Mark(n)) /\ Mark(n) \in Nat
      <3>1. /\ k \in 0..n /\ n \in 0..n
            /\ \A i, j \in 0..n : i <= j => Mark(i) <= Mark(j)
            /\ \A i \in 0..n : Mark(i) \in Nat
        BY <1>1, <1>3, Marks
      <3>2. ASSUME k < n PROVE Mark(k) + 6 <= Mark(n)
        <4> DEFINE j == k + 1
        <4>1. j \in 1..n /\ j - 1 = k /\ j \in 0..n /\ j <= n
          BY <1>3, <3>2
        <4> HIDE DEF j
        <4>2. /\ Mark(j) = StartOf(j) + Len(form[j].data) + 4 /\ StartOf(j) = Mark(j - 1) + 6 + Len(form[j].kind)
              /\ Len(form[j].data) \in Nat /\ Len(form[j].kind) \in Nat
          BY <1>1, <4>1, Marks
        <4>3. Mark(j) <= Mark(n) /\ Mark(j - 1) = Mark(k)
          BY <3>1, <4>1
        <4> DEFINE u == Len(form[j].data)
                   v == Len(form[j].kind)
                   mj == Mark(j)
                   mk == Mark(k)
                   mn == Mark(n)
                   sj == StartOf(j)
        <4>4. mj = sj + u + 4 /\ sj = mk + 6 + v /\ u \in Nat /\ v \in Nat /\ mk \in Nat /\ mj <= mn /\ mn \in Nat
          BY <3>1, <4>2, <4>3
        <4> HIDE DEF u, v, mj, mk, mn, sj
        <4>5. mk + 6 <= mn
          BY <4>4
        <4> QED BY <4>5 DEF mk, mn
      <3>3. k <= n
        BY <1>3
      <3> QED BY <3>1, <3>2, <3>3
    <2> HIDE DEF a, b, q, z
    <2>5. /\ q + 2 <= m /\ (q + 2) + (a + 4) <= m /\ (q + 6 + a) + (b + 2) <= m
          /\ k < n \/ Whole => (q + 8 + a + b) + 2 <= m
      BY <1>3, <1>5, <1>7, <1>9, <2>1, <2>4
    <2>6. /\ q \in Nat /\ q + 2 \in Nat /\ q + 6 + a \in Nat /\ q + 8 + a + b \in Nat
          /\ Mark(k) - 2 = q + 8 + a + b
      BY <2>1
    <2>7. Lies(body, Body!CRLF, q) /\ Lies(body, Ends(z), q + 2)
      BY <1>8, <2>2, <2>3, <2>5, <2>6
    <2>8. Lies(body, Open(z), q + 6 + a)
      BY <1>8, <2>2, <2>3, <2>5, <2>6
    <2>9. k < n \/ Whole => Lies(body, Body!Boundary, q + 8 + a + b)
      BY <1>8, <2>2, <2>3, <2>5, <2>6
    <2> QED BY <2>1, <2>6, <2>7, <2>8, <2>9 DEF q, z
  <1>14. Lies(body, Body!Boundary, 0)
    <2>1. Len(Body!Boundary) = 2 /\ 0 + 2 <= m /\ Body!Boundary \in Text
      <3>1. Len(Body!Boundary) = 2
        BY DEF Body!Boundary
      <3>2. Mark(n) - 2 \in Nat
        BY <1>3, <1>5
      <3>3. form # <<>> /\ n >= 1
        <4>1. PICK i \in 1..MaxParts : form \in [1..i -> [kind : Kinds, data : Datas]]
          BY <1>1 DEF Body!Forms
        <4>2. i \in Nat /\ i >= 1
          BY <4>1 DEF Body!BodyAssumption
        <4>3. Len(form) = i
          BY <4>1, <4>2
        <4> QED BY <4>2, <4>3
      <3>4. 1 \in 1..n
        BY <1>3, <3>3
      <3>5. Lies(body, Body!CRLF, Mark(1 - 1)) /\ Mark(1 - 1) = 2 /\ Len(Body!CRLF) = 2
        <4>1. 1 - 1 = 0
          OBVIOUS
        <4>2. Mark(0) = 2
          BY <1>1, Marks
        <4>3. Len(Body!CRLF) = 2
          BY DEF Body!CRLF
        <4> QED BY <1>13, <3>4, <4>1, <4>2, <4>3
      <3>6. 2 + 2 <= m
        BY <1>8, <3>5 DEF Lies
      <3> QED BY <3>1, <3>6, <1>7, <1>3, TextOf
    <2> QED BY <1>3, <1>8, <2>1
  <1> QED BY <1>1, <1>8, <1>10, <1>11, <1>12, <1>13, <1>14 DEF FormLies, d

\* The first place of a word in the body, from a place on.
FirstFrom(w, b, q) ==
  b <= q /\ Lies(body, w, q) /\ \A j \in b..(q - 1) : ~Lies(body, w, j)

LEMMA InPlace ==
  ASSUME body \in Text, NEW s \in Text, NEW w \in Text, NEW p \in Nat, NEW q \in Nat,
         Lies(body, s, p), FirstIn(s, w, q)
  PROVE  FirstFrom(w, p, p + q)
  <1>1. Lies(s, w, q) /\ q + Len(w) <= Len(s) /\ Len(w) \in Nat /\ Len(s) \in Nat
    BY LenProperties DEF FirstIn, Lies, Text
  <1>2. Lies(body, w, p + q)
    BY <1>1, LiesInside DEF Text
  <1>3. ASSUME NEW j \in p..((p + q) - 1) PROVE ~Lies(body, w, j)
    <2> DEFINE i == j - p
    <2>1. i \in 0..(q - 1) /\ p + i = j /\ i \in Nat /\ i + Len(w) <= Len(s)
      BY <1>1
    <2> HIDE DEF i
    <2>2. ~Lies(s, w, i)
      BY <2>1 DEF FirstIn
    <2>3. Lies(body, w, p + i) <=> Lies(s, w, i)
      BY <2>1, LiesInside DEF Text
    <2> QED BY <2>1, <2>2, <2>3
  <1> QED BY <1>2, <1>3 DEF FirstFrom

LEMMA OnlyOne ==
  ASSUME NEW w, NEW b \in Nat, NEW q \in Nat, NEW r \in Nat, FirstFrom(w, b, q), FirstFrom(w, b, r)
  PROVE  q = r
  <1>1. ~(q < r)
    <2>1. q < r => q \in b..(r - 1)
      BY DEF FirstFrom
    <2> QED BY <2>1 DEF FirstFrom
  <1>2. ~(r < q)
    <2>1. r < q => r \in b..(q - 1)
      BY DEF FirstFrom
    <2> QED BY <2>1 DEF FirstFrom
  <1> QED BY <1>1, <1>2

\* What the parser looks for behind each part, and where it is.
LEMMA PlacesAre ==
  ASSUME Body!BodyAssumption, FormLies
  PROVE  /\ FirstFrom(Body!Boundary, 0, 0)
         /\ \A k \in 1..Len(form) :
              /\ FirstFrom(Body!CRLF, Mark(k - 1), Mark(k - 1))
              /\ FirstFrom(Body!CRLF \o Body!CRLF, Mark(k - 1) + 2, StartOf(k) - 4)
              /\ k < Len(form) \/ Whole => FirstFrom(Body!Boundary, StartOf(k), Mark(k) - 2)
              /\ ~(k < Len(form) \/ Whole) =>
                   \A j \in Nat : j >= StartOf(k) => ~Lies(body, Body!Boundary, j)
              /\ SubSeq(body, (Mark(k - 1) + 2) + 1, StartOf(k) - 4) = form[k].kind
              /\ SubSeq(body, StartOf(k) + 1, StartOf(k) + Len(form[k].data)) = form[k].data
         /\ Whole => FirstFrom(Body!CRLF, Mark(Len(form)), Mark(Len(form)) + 2)
  <1> DEFINE n == Len(form)
             c == Body!CRLF
             x == Body!Boundary
  <1>1. body \in Text /\ c \in Text /\ x \in Text /\ Len(c) = 2 /\ Len(x) = 2 /\ form \in Body!Forms
    <2>1. Len(c) = 2 /\ Len(x) = 2
      BY DEF Body!CRLF, Body!Boundary
    <2> QED BY <2>1, TextOf DEF FormLies
  <1>2. n \in Nat /\ \A k \in 0..n : Mark(k) \in Nat
    BY <1>1, Marks
  <1>3. FirstFrom(x, 0, 0)
    BY DEF FormLies, FirstFrom
  <1>4. ASSUME Whole PROVE FirstFrom(c, Mark(n), Mark(n) + 2)
    <2>1. Lies(body, <<"-", "-">> \o c, Mark(n)) /\ Mark(n) \in Nat
      BY <1>2, <1>4 DEF FormLies
    <2> QED BY <1>1, <2>1, FormEnds, InPlace
  <1>5. ASSUME NEW k \in 1..n
        PROVE  /\ FirstFrom(c, Mark(k - 1), Mark(k - 1))
               /\ FirstFrom(c \o c, Mark(k - 1) + 2, StartOf(k) - 4)
               /\ k < n \/ Whole => FirstFrom(x, StartOf(k), Mark(k) - 2)
               /\ ~(k < n \/ Whole) => \A j \in Nat : j >= StartOf(k) => ~Lies(body, x, j)
               /\ SubSeq(body, (Mark(k - 1) + 2) + 1, StartOf(k) - 4) = form[k].kind
               /\ SubSeq(body, StartOf(k) + 1, StartOf(k) + Len(form[k].data)) = form[k].data
    <2> DEFINE z == form[k]
               a == Len(z.kind)
               b == Len(z.data)
               m == Mark(k - 1)
               s == StartOf(k)
               y == Mark(k)
    <2>1. /\ z \in PartOf /\ a \in Nat /\ b \in Nat /\ m \in Nat /\ s \in Nat /\ y \in Nat
          /\ s = m + 6 + a /\ y = s + b + 4
      <3> HIDE DEF a, b, m, s, y
      <3> QED BY <1>1, Marks DEF a, b, m, s, y
    <2>2. /\ Lies(body, c, m) /\ Lies(body, Ends(z), m + 2) /\ Lies(body, Open(z), s)
          /\ k < n \/ Whole => Lies(body, x, y - 2)
      BY DEF FormLies
    <2>3. /\ Ends(z) \in Text /\ Open(z) \in Text /\ z.kind \in Text /\ z.data \in Text
          /\ Len(Ends(z)) = a + 4 /\ Len(Open(z)) = b + 2
      BY <2>1, PieceIsText
    <2>4. /\ FirstIn(Ends(z), c \o c, a) /\ FirstIn(Open(z) \o x, x, b + 2)
          /\ \A j \in Nat : ~Lies(Open(z), x, j)
      BY <2>1, HeadersEnd, ContentsEnd
    <2>e. Ends(z) = z.kind \o c \o c /\ Open(z) = z.data \o c
      BY DEF Ends, Open
    <2>w. ~(k < n \/ Whole) => Len(body) = y - 2
      <3>1. ~(k < n) => k = n
        BY <1>2
      <3> QED BY <3>1 DEF FormLies
    <2> HIDE DEF z, a, b, m, s, y, c, x
    <2>5. FirstFrom(c, m, m)
      BY <2>1, <2>2 DEF FirstFrom
    <2>6. FirstFrom(c \o c, m + 2, s - 4)
      <3>1. c \o c \in Text /\ m + 2 \in Nat /\ (m + 2) + a = s - 4
        <4>1. c \o c \in Text
          BY <1>1, TextJoined
        <4>2. m + 2 \in Nat /\ (m + 2) + a = s - 4
          BY <2>1
        <4> QED BY <4>1, <4>2
      <3>2. FirstFrom(c \o c, m + 2, (m + 2) + a)
        BY <1>1, <2>1, <2>2, <2>3, <2>4, <3>1, InPlace
      <3> QED BY <3>1, <3>2
    <2>7. ASSUME k < n \/ Whole PROVE FirstFrom(x, s, y - 2)
      <3>1. Lies(body, Open(z), s) /\ Lies(body, x, s + Len(Open(z)))
        <4>1. s + Len(Open(z)) = y - 2
          BY <2>1, <2>3
        <4> QED BY <2>2, <2>7, <4>1
      <3>2. Lies(body, Open(z) \o x, s)
        BY <1>1, <2>1, <2>3, <3>1, LiesJoined DEF Text
      <3>3. Open(z) \o x \in Text /\ b + 2 \in Nat /\ s + (b + 2) = y - 2
        <4>1. Open(z) \o x \in Text
          BY <1>1, <2>3, TextJoined
        <4>2. b + 2 \in Nat /\ s + (b + 2) = y - 2
          BY <2>1
        <4> QED BY <4>1, <4>2
      <3>4. FirstFrom(x, s, s + (b + 2))
        BY <1>1, <2>1, <2>4, <3>2, <3>3, InPlace
      <3> QED BY <3>3, <3>4
    <2>8. ASSUME ~(k < n \/ Whole), NEW j \in Nat, j >= s, Lies(body, x, j) PROVE FALSE
      <3>1. j + Len(x) <= Len(body) /\ Len(body) = y - 2
        BY <2>8, <2>w DEF Lies
      <3> DEFINE i == j - s
      <3>2. i \in Nat /\ s + i = j /\ i + Len(x) <= Len(Open(z))
        BY <1>1, <2>1, <2>3, <2>8, <3>1
      <3> HIDE DEF i
      <3>3. Lies(body, x, s + i)
        BY <2>8, <3>2
      <3>4. Lies(Open(z), x, i)
        <4> DEFINE o == Open(z)
        <4>1. body \in Seq(Read) /\ o \in Seq(Read) /\ x \in Seq(Read) /\ Lies(body, o, s)
          BY <1>1, <2>2, <2>3 DEF Text
        <4>2. i + Len(x) <= Len(o)
          BY <3>2
        <4> HIDE DEF o
        <4>3. Lies(body, x, s + i) <=> Lies(o, x, i)
          BY <2>1, <3>2, <4>1, <4>2, LiesInside
        <4> QED BY <3>3, <4>3 DEF o
      <3> QED BY <2>4, <3>2, <3>4
    <2>9. SubSeq(body, (m + 2) + 1, s - 4) = z.kind
      <3>1. Lies(body, z.kind, m + 2)
        <4> DEFINE kc == z.kind \o c
        <4>1. kc \in Text
          BY <1>1, <2>3, TextJoined
        <4>2. Lies(body, kc, m + 2)
          <5>1. Lies(body, kc \o c, m + 2) /\ m + 2 \in Nat
            BY <2>1, <2>2, <2>e
          <5> HIDE DEF kc
          <5> QED BY <1>1, <4>1, <5>1, LiesJoined DEF Text
        <4> QED BY <1>1, <2>1, <2>3, <4>2, LiesJoined DEF Text
      <3>2. (m + 2) + a = s - 4 /\ m + 2 \in Nat /\ body \in Seq(Read) /\ z.kind \in Seq(Read)
            /\ Len(z.kind) = a /\ (m + 2) + a <= Len(body)
        <4>1. Len(z.kind) = a
          BY DEF a
        <4>2. (m + 2) + Len(z.kind) <= Len(body)
          BY <3>1 DEF Lies
        <4> QED BY <1>1, <2>1, <2>3, <4>1, <4>2 DEF Text
      <3>3. SubSeq(body, (m + 2) + 1, (m + 2) + a) = z.kind
        BY <2>1, <3>1, <3>2, LiesPiece
      <3> QED BY <3>2, <3>3
    <2>10. SubSeq(body, s + 1, s + b) = z.data
      <3>1. Lies(body, z.data, s)
        <4>1. Lies(body, z.data \o c, s)
          BY <2>2, <2>e
        <4> QED BY <1>1, <2>1, <2>3, <4>1, LiesJoined DEF Text
      <3>2. body \in Seq(Read) /\ z.data \in Seq(Read) /\ Len(z.data) = b /\ s + b <= Len(body)
        <4>1. Len(z.data) = b
          BY DEF b
        <4>2. s + Len(z.data) <= Len(body)
          BY <3>1 DEF Lies
        <4> QED BY <1>1, <2>3, <4>1, <4>2 DEF Text
      <3> QED BY <2>1, <3>1, <3>2, LiesPiece
    <2> QED BY <2>5, <2>6, <2>7, <2>8, <2>9, <2>10 DEF z, b, m, s, y, c, x
  <1> QED BY <1>3, <1>4, <1>5
-----------------------------------------------------------------------------
(* The search for the needle in what has been read (multipart_find_data).  *)
\* A file that the form has: where it is in the body, how long it is and how
\* much of it has been read.
Listed == {f \in [position : Nat, length : Nat, offset : Nat] : f.offset <= f.length}

\* What has been read last is the piece of the body, or of the file, that
\* begins where the read began.
AsRead(r, b, fs, bad) ==
  r # <<>> =>
    IF r[1] = 0 THEN ~bad => r[3] = SubSeq(b, r[2] + 1, r[2] + Len(r[3]))
    ELSE /\ r[1] \in DOMAIN fs
         /\ r[3] = SubSeq(Body!Content(fs[r[1]]), r[2] + 1, r[2] + Len(r[3]))

\* Where the parser and the page have come to in the body.
BodyInv ==
  /\ body \in Text /\ disk \in BOOLEAN
  /\ offset \in Nat /\ offset <= Len(body) /\ cursor \in Nat
  /\ in \in Text /\ Len(in) <= offset /\ (looks = "done" => in = <<>>)
  /\ olen \in Nat /\ position \in Nat
  /\ files \in Seq(Listed)
  /\ ~spoilt => cursor = offset
  /\ AsRead(reply, body, files, spoilt)

LEMMA BodyInvReads == ASSUME BodyInv PROVE Body!ReadsInOrder
  BY DEF BodyInv, AsRead, Body!ReadsInOrder

\* A piece of a text is a text.
LEMMA TextPiece ==
  ASSUME NEW t \in Text, NEW p \in Nat, NEW n \in Nat, p + n <= Len(t)
  PROVE  /\ SubSeq(t, p + 1, p + n) \in Text /\ Len(SubSeq(t, p + 1, p + n)) = n
         /\ Lies(t, SubSeq(t, p + 1, p + n), p)
  <1>1. t \in Seq(Read)
    BY DEF Text
  <1>2. SubSeq(t, p + 1, p + n) \in Seq(Read)
    BY <1>1, LiesPiece
  <1>3. Len(SubSeq(t, p + 1, p + n)) = n
    BY <1>1, LiesPiece
  <1>4. Lies(t, SubSeq(t, p + 1, p + n), p)
    BY <1>1, LiesPiece
  <1> QED BY <1>2, <1>3, <1>4 DEF Text

\* Bytes of the body, and pieces of them.
LEMMA BytesAre ==
  ASSUME body \in Text
  PROVE  /\ \A a, n \in Nat : Body!Bytes(a, n) \in Text /\ Len(Body!Bytes(a, n)) = n
         /\ \A a, n \in Nat : a + n <= Len(body) => Body!Bytes(a, n) = SubSeq(body, a + 1, a + n)
         /\ \A a, n, o, k \in Nat :
              o + k <= n => SubSeq(Body!Bytes(a, n), o + 1, o + k) = Body!Bytes(a + o, k)
  <1>1. ASSUME NEW a \in Nat, NEW n \in Nat
        PROVE  Body!Bytes(a, n) \in Text /\ Len(Body!Bytes(a, n)) = n
    <2>1. \A i \in 1..n : (IF a + i <= Len(body) THEN body[a + i] ELSE "past the end") \in Read
      <3>1. "past the end" \in Read
        BY DEF Read
      <3>2. /\ \A j \in 1..Len(body) : body[j] \in Read
            /\ Len(body) \in Nat
        BY ElementOfSeq, LenProperties DEF Text
      <3>3. \A i \in 1..n : a + i <= Len(body) => a + i \in 1..Len(body)
        BY <3>2
      <3> QED BY <3>1, <3>2, <3>3
    <2>2. Body!Bytes(a, n) \in [1..n -> Read]
      BY <2>1 DEF Body!Bytes
    <2>3. Body!Bytes(a, n) \in Seq(Read) /\ Len(Body!Bytes(a, n)) = n
      <3> HIDE DEF Read
      <3> QED BY <2>2
    <2> QED BY <2>3 DEF Text
  <1>2. ASSUME NEW a \in Nat, NEW n \in Nat, a + n <= Len(body)
        PROVE  Body!Bytes(a, n) = SubSeq(body, a + 1, a + n)
    <2>1. Len(body) \in Nat
      BY DEF Text
    <2>2. SubSeq(body, a + 1, a + n) = [i \in 1..n |-> body[a + i]]
      BY <1>2, <2>1, PieceIs DEF Text
    <2>3. \A i \in 1..n : a + i <= Len(body)
      BY <2>1, <1>2
    <2> QED BY <2>2, <2>3 DEF Body!Bytes
  <1>3. ASSUME NEW a \in Nat, NEW n \in Nat, NEW o \in Nat, NEW k \in Nat, o + k <= n
        PROVE  SubSeq(Body!Bytes(a, n), o + 1, o + k) = Body!Bytes(a + o, k)
    <2> DEFINE w == Body!Bytes(a, n)
    <2>2. SubSeq(w, o + 1, o + k) = [i \in 1..k |-> w[o + i]]
      <3>1. w \in Text /\ Len(w) = n
        BY <1>1
      <3> HIDE DEF w
      <3> QED BY <1>3, <3>1, PieceIs DEF Text
    <2>3. \A i \in 1..k : o + i \in 1..n /\ a + (o + i) = (a + o) + i
      BY <1>3
    <2>4. \A i \in 1..k : w[o + i] = IF (a + o) + i <= Len(body) THEN body[(a + o) + i] ELSE "past the end"
      BY <2>3 DEF Body!Bytes
    <2> HIDE DEF w
    <2>5. SubSeq(w, o + 1, o + k)
            = [i \in 1..k |-> IF (a + o) + i <= Len(body) THEN body[(a + o) + i] ELSE "past the end"]
      BY <2>2, <2>4
    <2> QED BY <2>5 DEF Body!Bytes, w
  <1> QED BY <1>1, <1>2, <1>3

\* The least place in a buffer where the needle may begin.
LEMMA FirstIs == ASSUME in \in Text PROVE Body!FirstAt \in 0..Len(in)
  <1> DEFINE I == {i \in 1..Len(in) : in[i] = Body!Needle[1]}
  <1>1. I \in SUBSET Nat /\ Len(in) \in Nat /\ I \subseteq 1..Len(in)
    BY DEF Text
  <1>2. Body!FirstAt = IF I # {} THEN Body!Min(I) ELSE 0
    BY DEF Body!FirstAt, Body!SelectInSeq
  <1>3. Body!Min(I) = Min(I)
    BY DEF Body!Min, Min
  <1>4. I # {} => Min(I) \in I
    <2> HIDE DEF I
    <2> QED BY <1>1, LeastOf
  <1> QED BY <1>1, <1>2, <1>3, <1>4

\* How many bytes a read takes.
LEMMA SizesAre ==
  ASSUME BodyInv, NEW n \in Nat, NEW k \in Body!Sizes(n), Body!Left > 0
  PROVE  k \in Nat /\ k <= Len(body) - offset
  <1>1. Len(body) \in Nat
    BY DEF BodyInv, Text
  <1> QED BY <1>1 DEF BodyInv, Body!Sizes, Body!Left

\* What the parser has passed over behind a place, and what it holds.
Searched(b) ==
  /\ b \in Nat /\ found \in Text /\ olen = Len(found)
  /\ b + Len(found) + Len(in) = offset
  /\ Lies(body, found, b) /\ Lies(body, in, b + Len(found))
  /\ \A j \in b..(b + Len(found) - 1) : ~Lies(body, Body!Needle, j)

LEMMA NeedleIs ==
  Body!Needle \in Text /\ Len(Body!Needle) \in Nat /\ Len(Body!Needle) >= 1
  <1> DEFINE c == Body!CRLF
             x == Body!Boundary
  <1>1. c \in Text /\ x \in Text /\ Len(c) = 2 /\ Len(x) = 2
    BY TextOf DEF Body!CRLF, Body!Boundary
  <1>2. Body!Needle \in {c, c \o c, x}
    BY DEF Body!Needle
  <1> HIDE DEF c, x
  <1>3. c \o c \in Text /\ Len(c \o c) = Len(c) + Len(c)
    BY <1>1, TextJoined
  <1> DEFINE cc == c \o c
             w == Body!Needle
  <1>4. cc \in Text /\ Len(cc) = 4 /\ w \in {c, cc, x}
    <2>1. Len(c) + Len(c) = 4
      BY <1>1
    <2> QED BY <1>2, <1>3, <2>1
  <1> HIDE DEF cc, w
  <1>5. w \in Text /\ (Len(w) = 2 \/ Len(w) = 4)
    BY <1>1, <1>4
  <1> QED BY <1>5 DEF w

\* No byte of the buffer before the one that the parser stops at begins the needle.
LEMMA FirstLeast ==
  ASSUME in \in Text
  PROVE  /\ Body!FirstAt \in 0..Len(in)
         /\ \A i \in 1..Len(in) :
              in[i] = Body!Needle[1] => Body!FirstAt # 0 /\ Body!FirstAt <= i
  <1> DEFINE I == {i \in 1..Len(in) : in[i] = Body!Needle[1]}
  <1>1. I \in SUBSET Nat /\ Len(in) \in Nat /\ I \subseteq 1..Len(in)
    BY DEF Text
  <1>2. Body!FirstAt = IF I # {} THEN Body!Min(I) ELSE 0
    BY DEF Body!FirstAt, Body!SelectInSeq
  <1>3. Body!Min(I) = Min(I)
    BY DEF Body!Min, Min
  <1>4. \A i \in 1..Len(in) : in[i] = Body!Needle[1] => i \in I
    OBVIOUS
  <1> HIDE DEF I
  <1>5. I # {} => Min(I) \in I /\ \A y \in I : Min(I) <= y
    BY <1>1, LeastOf
  <1>6. I # {} => Min(I) # 0
    BY <1>1, <1>5
  <1>7. \A i \in I : I # {}
    OBVIOUS
  <1> DEFINE a == Body!FirstAt
             w == Body!Needle
  <1>8. a = IF I # {} THEN Min(I) ELSE 0
    BY <1>2, <1>3
  <1>9. \A i \in 1..Len(in) : in[i] = w[1] => i \in I
    BY <1>4
  <1> HIDE DEF a, w
  <1>10. a \in 0..Len(in)
    <2>1. CASE I # {}
      <3>1. a \in I
        BY <1>5, <1>8, <2>1
      <3>2. a \in 1..Len(in)
        BY <1>1, <3>1
      <3> QED BY <1>1, <3>2
    <2>2. CASE I = {}
      <3>1. a = 0
        BY <1>8, <2>2
      <3> QED BY <1>1, <3>1
    <2> QED BY <2>1, <2>2
  <1>11. ASSUME NEW i \in 1..Len(in), in[i] = w[1] PROVE a # 0 /\ a <= i
    <2>1. i \in I
      BY <1>9, <1>11
    <2>2. I # {}
      BY <2>1
    <2>3. a = Min(I)
      BY <1>8, <2>2
    <2> QED BY <1>5, <1>6, <2>1, <2>2, <2>3
  <1> QED BY <1>10, <1>11 DEF a, w

\* The first bytes of a word that lies in the body, and the others.
LEMMA LiesSplit ==
  ASSUME body \in Text, NEW s \in Text, NEW p \in Nat, Lies(body, s, p), NEW m \in 0..Len(s)
  PROVE  /\ SubSeq(s, 1, m) \in Text /\ Len(SubSeq(s, 1, m)) = m
         /\ Lies(body, SubSeq(s, 1, m), p)
         /\ SubSeq(s, m + 1, Len(s)) \in Text /\ Len(SubSeq(s, m + 1, Len(s))) = Len(s) - m
         /\ Lies(body, SubSeq(s, m + 1, Len(s)), p + m)
  <1> DEFINE k == Len(s) - m
  <1>1. Len(s) \in Nat /\ m \in Nat /\ k \in Nat /\ m + k = Len(s) /\ 0 + m <= Len(s) /\ m + k <= Len(s)
        /\ 0 + 1 = 1 /\ 0 + m = m /\ 0 \in Nat
    BY LenProperties DEF Text
  <1> HIDE DEF k
  <1>2. body \in Seq(Read) /\ s \in Seq(Read)
    BY DEF Text
  <1>3. /\ SubSeq(s, 0 + 1, 0 + m) \in Seq(Read) /\ Len(SubSeq(s, 0 + 1, 0 + m)) = m
        /\ Lies(s, SubSeq(s, 0 + 1, 0 + m), 0)
    <2>1. PICK z \in Nat : z = 0
      OBVIOUS
    <2>2. z + m <= Len(s)
      BY <1>1, <2>1
    <2>3. /\ SubSeq(s, z + 1, z + m) \in Seq(Read) /\ Len(SubSeq(s, z + 1, z + m)) = m
          /\ Lies(s, SubSeq(s, z + 1, z + m), z)
      BY <1>1, <1>2, <2>2, LiesPiece
    <2> QED BY Zenon, <2>1, <2>3
  <1>4. /\ SubSeq(s, m + 1, m + k) \in Seq(Read) /\ Len(SubSeq(s, m + 1, m + k)) = k
        /\ Lies(s, SubSeq(s, m + 1, m + k), m)
    <2>1. PICK y \in Nat : y = m
      BY <1>1
    <2>2. PICK n \in Nat : n = k
      BY <1>1
    <2>3. y + n <= Len(s)
      BY <1>1, <2>1, <2>2
    <2>4. SubSeq(s, y + 1, y + n) \in Seq(Read) /\ Len(SubSeq(s, y + 1, y + n)) = n
      BY <1>2, <2>3, LiesPiece
    <2>5. Lies(s, SubSeq(s, y + 1, y + n), y)
      BY <1>2, <2>3, LiesPiece
    <2> QED BY Zenon, <2>1, <2>2, <2>4, <2>5
  <1> DEFINE u == SubSeq(s, 0 + 1, 0 + m)
             v == SubSeq(s, m + 1, m + k)
  <1>5. u = SubSeq(s, 1, m) /\ v = SubSeq(s, m + 1, Len(s))
    BY <1>1
  <1> HIDE DEF u, v
  <1>6. u \in Seq(Read) /\ Len(u) = m /\ Lies(s, u, 0) /\ v \in Seq(Read) /\ Len(v) = k /\ Lies(s, v, m)
    BY <1>3, <1>4 DEF u, v
  <1>7. Lies(body, u, p + 0)
    <2>1. 0 + Len(u) <= Len(s)
      BY <1>1, <1>6
    <2> QED BY <1>1, <1>2, <1>6, <2>1, LiesInside
  <1>8. Lies(body, v, p + m)
    <2>1. m + Len(v) <= Len(s)
      BY <1>1, <1>6
    <2> QED BY <1>1, <1>2, <1>6, <2>1, LiesInside
  <1>9. p + 0 = p
    OBVIOUS
  <1> QED BY <1>5, <1>6, <1>7, <1>8, <1>9 DEF Text, k

LEMMA SearchReads ==
  ASSUME Body!BodyAssumption, BodyInv, ~spoilt, NEW b, Searched(b), Body!ReadMore
  PROVE  Searched(b)'
  <1>1. PICK n \in Body!Sizes(Chunk) :
          /\ in' = in \o Body!Bytes(cursor, n)
          /\ offset' = offset + n /\ cursor' = cursor + n
    BY DEF Body!ReadMore
  <1>2. n \in Nat /\ n <= Len(body) - offset /\ Len(body) \in Nat
    BY SizesAre, Body!BodyAssumption DEF Body!BodyAssumption, Body!ReadMore, BodyInv, Text
  <1>3. UNCHANGED <<body, found, olen, looks>>
    BY DEF Body!ReadMore
  <1> DEFINE w == Body!Bytes(cursor, n)
  <1>4. body \in Seq(Read) /\ in \in Text /\ offset \in Nat /\ cursor = offset /\ offset <= Len(body)
        /\ Len(in) \in Nat
    BY DEF BodyInv, Text
  <1>5. offset + n <= Len(body)
    BY <1>2, <1>4
  <1>6. w = SubSeq(body, offset + 1, offset + n) /\ w \in Text /\ Len(w) = n
    BY <1>2, <1>4, <1>5, BytesAre DEF BodyInv
  <1>7. Lies(body, w, offset)
    BY <1>2, <1>4, <1>5, <1>6, LiesPiece
  <1> HIDE DEF w
  <1> DEFINE p == b + Len(found)
  <1>8. p \in Nat /\ p + Len(in) = offset /\ Lies(body, in, p) /\ Len(found) \in Nat
    BY LenProperties DEF Searched, Text
  <1>9. b \in Nat
    BY DEF Searched
  <1> HIDE DEF p
  <1>10. Lies(body, in \o w, p) /\ Len(in \o w) = Len(in) + n
    <2>1. Lies(body, w, p + Len(in))
      BY <1>7, <1>8
    <2>2. in \in Seq(Read) /\ w \in Seq(Read)
      BY <1>4, <1>6 DEF Text
    <2>3. Lies(body, in \o w, p)
      BY <1>4, <1>8, <2>1, <2>2, LiesJoined
    <2>4. Len(in \o w) = Len(in) + Len(w)
      BY <2>2, JoinedAt
    <2> QED BY <1>6, <2>3, <2>4
  <1>11. Lies(body, in', p) /\ p + Len(in') = offset'
    <2>1. in' = in \o w
      BY <1>1 DEF w
    <2>2. p + (Len(in) + n) = offset + n
      BY <1>2, <1>4, <1>8
    <2> QED BY <1>1, <1>10, <2>1, <2>2
  <1>12. Body!Needle' = Body!Needle
    BY <1>3 DEF Body!Needle
  <1> QED BY <1>3, <1>11, <1>12 DEF Searched, p

LEMMA SearchPasses ==
  ASSUME BodyInv, NEW b, Searched(b), Body!Pass
  PROVE  Searched(b)'
  <1> DEFINE m == Body!Passes
             u == SubSeq(in, 1, m)
             v == SubSeq(in, m + 1, Len(in))
             p == b + Len(found)
             w == Body!Needle
             a == Body!FirstAt
  <1>1. /\ UNCHANGED <<body, offset, looks>> /\ ~Body!Matches
        /\ found' = found \o u /\ olen' = olen + m /\ in' = v
    BY DEF Body!Pass
  <1>2. body \in Text /\ in \in Text /\ Len(in) \in Nat /\ w \in Text /\ Len(w) \in Nat /\ Len(w) >= 1
    <2>1. body \in Text /\ in \in Text /\ Len(in) \in Nat
      BY LenProperties DEF BodyInv, Text
    <2> QED BY <2>1, NeedleIs
  <1>3. /\ b \in Nat /\ found \in Text /\ olen = Len(found) /\ Len(found) \in Nat
        /\ p + Len(in) = offset /\ Lies(body, found, b) /\ Lies(body, in, p) /\ p \in Nat
        /\ \A j \in b..(p - 1) : ~Lies(body, w, j)
    BY LenProperties DEF Searched, Text
  <1>4. /\ a \in 0..Len(in)
        /\ \A i \in 1..Len(in) : in[i] = w[1] => a # 0 /\ a <= i
    BY <1>2, FirstLeast
  <1>5. /\ m = IF a # 0 /\ Len(in) - a + 1 >= Len(w) THEN a ELSE IF a = 0 THEN Len(in) ELSE a - 1
        /\ ~(a # 0 /\ Len(in) - a + 1 >= Len(w) /\ SubSeq(in, a, a + Len(w) - 1) = w)
    BY <1>1 DEF Body!Passes, Body!Fits, Body!Matches
  <1> HIDE DEF w, a, p
  <1>6. m \in 0..Len(in) /\ m \in Nat
    <2> HIDE DEF m
    <2> QED BY <1>2, <1>4, <1>5
  <1> HIDE DEF m
  <1>7. /\ u \in Text /\ Len(u) = m /\ Lies(body, u, p)
        /\ v \in Text /\ Len(v) = Len(in) - m /\ Lies(body, v, p + m)
    BY <1>2, <1>3, <1>6, LiesSplit
  <1> HIDE DEF u, v
  <1> DEFINE g == found \o u
  <1>8. g \in Text /\ Len(g) = Len(found) + m /\ Lies(body, g, b)
    <2>1. g \in Text /\ Len(g) = Len(found) + Len(u)
      BY <1>3, <1>7, TextJoined
    <2>2. Lies(body, g, b)
      <3>1. Lies(body, u, b + Len(found))
        BY <1>7 DEF p
      <3>2. body \in Seq(Read) /\ found \in Seq(Read) /\ u \in Seq(Read)
        BY <1>2, <1>3, <1>7 DEF Text
      <3> QED BY <1>3, <3>1, <3>2, LiesJoined
    <2> QED BY <1>7, <2>1, <2>2
  <1> HIDE DEF g
  <1>9. ASSUME NEW i \in 0..(m - 1), Lies(body, w, p + i) PROVE FALSE
    <2> DEFINE k == i + 1
    <2>1. k \in 1..Len(in) /\ k <= m /\ i \in Nat /\ (p + i) + 1 = p + k /\ p + i \in Nat
      BY <1>2, <1>3, <1>6
    <2>2. in[k] = w[1]
      <3>1. body[(p + i) + 1] = w[1]
        <4>1. 1 \in 1..Len(w)
          BY <1>2
        <4> QED BY <1>9, <4>1 DEF Lies
      <3>2. body[p + k] = in[k]
        <4> HIDE DEF k
        <4> QED BY <1>3, <2>1 DEF Lies
      <3> QED BY <2>1, <3>1, <3>2
    <2>3. a # 0 /\ a <= k
      <3> HIDE DEF k
      <3> QED BY <1>4, <2>1, <2>2
    <2>4. a = k /\ Len(in) - a + 1 >= Len(w)
      <3> HIDE DEF k
      <3> QED BY <1>2, <1>4, <1>5, <2>1, <2>3
    <2>5. i + Len(w) <= Len(in)
      BY <1>2, <1>4, <2>1, <2>4
    <2>6. Lies(in, w, i)
      <3>1. body \in Seq(Read) /\ in \in Seq(Read) /\ w \in Seq(Read)
        BY <1>2 DEF Text
      <3> QED BY <1>3, <1>9, <2>1, <2>5, <3>1, LiesInside
    <2>7. SubSeq(in, i + 1, i + Len(w)) = w
      <3>1. in \in Seq(Read) /\ w \in Seq(Read)
        BY <1>2 DEF Text
      <3> QED BY <1>2, <2>1, <2>5, <2>6, <3>1, LiesPiece
    <2>8. a = i + 1 /\ a + Len(w) - 1 = i + Len(w)
      BY <1>2, <2>1, <2>4
    <2> QED BY <1>5, <2>3, <2>4, <2>7, <2>8
  <1>10. ASSUME NEW j \in b..(b + (Len(found) + m) - 1) PROVE ~Lies(body, w, j)
    <2>1. CASE j < p
      <3>1. j \in b..(p - 1)
        BY <1>3, <2>1
      <3> QED BY <1>3, <3>1
    <2>2. CASE ~(j < p)
      <3> DEFINE i == j - p
      <3>1. i \in 0..(m - 1) /\ p + i = j
        <4>1. p = b + Len(found)
          BY DEF p
        <4> QED BY <1>3, <1>6, <2>2, <4>1
      <3> HIDE DEF i
      <3> QED BY <1>9, <3>1
    <2> QED BY <2>1, <2>2
  <1>11. /\ (b + (Len(found) + m)) + (Len(in) - m) = offset
         /\ p + m = b + (Len(found) + m)
    <2>1. p = b + Len(found)
      BY DEF p
    <2> QED BY <1>2, <1>3, <1>6, <2>1
  <1>12. Body!Needle' = w
    BY <1>1 DEF Body!Needle, w
  <1>13. found' = g /\ in' = v /\ olen' = Len(g) /\ body' = body /\ offset' = offset
    BY <1>1, <1>3, <1>8 DEF g
  <1>14. b + Len(g) + Len(v) = offset /\ b + Len(g) = p + m
    BY <1>7, <1>8, <1>11
  <1>15. \A j \in b..(b + Len(g) - 1) : ~Lies(body, w, j)
    BY <1>8, <1>10
  <1> QED BY <1>3, <1>7, <1>8, <1>12, <1>13, <1>14, <1>15 DEF Searched

\* The needle that is there is the first one, and what came before it is the
\* part of the body between.
LEMMA SearchFinds ==
  ASSUME BodyInv, NEW b, Searched(b), Body!Matches
  PROVE  LET q == b + Len(found) + Body!FirstAt - 1
             w == Body!Needle
             data == found \o SubSeq(in, 1, Body!FirstAt - 1)
             rest == SubSeq(in, Body!FirstAt + Len(w), Len(in))
         IN  /\ q \in Nat /\ FirstFrom(w, b, q) /\ olen + Body!FirstAt - 1 = q - b
             /\ data = SubSeq(body, b + 1, q) /\ Len(data) = q - b
             /\ rest \in Text /\ Len(rest) \in Nat
             /\ Lies(body, rest, q + Len(w)) /\ q + Len(w) + Len(rest) = offset
  <1> DEFINE a == Body!FirstAt
             w == Body!Needle
             p == b + Len(found)
             q == b + Len(found) + a - 1
             u == SubSeq(in, 1, a - 1)
             data == found \o u
             rest == SubSeq(in, a + Len(w), Len(in))
  <1>1. body \in Text /\ in \in Text /\ Len(in) \in Nat /\ w \in Text /\ Len(w) \in Nat /\ Len(w) >= 1
    <2>1. body \in Text /\ in \in Text /\ Len(in) \in Nat
      BY LenProperties DEF BodyInv, Text
    <2> QED BY <2>1, NeedleIs
  <1>2. /\ b \in Nat /\ found \in Text /\ olen = Len(found) /\ Len(found) \in Nat
        /\ p + Len(in) = offset /\ Lies(body, found, b) /\ Lies(body, in, p) /\ p \in Nat
        /\ \A j \in b..(p - 1) : ~Lies(body, w, j)
    BY LenProperties DEF Searched, Text
  <1>3. /\ a \in 0..Len(in)
        /\ \A i \in 1..Len(in) : in[i] = w[1] => a # 0 /\ a <= i
    BY <1>1, FirstLeast
  <1>4. a # 0 /\ Len(in) - a + 1 >= Len(w) /\ SubSeq(in, a, a + Len(w) - 1) = w
    BY DEF Body!Matches, Body!Fits
  <1> HIDE DEF a, w
  <1> DEFINE k == a - 1
  <1>5. k \in Nat /\ k + Len(w) <= Len(in) /\ k \in 0..Len(in) /\ a = k + 1 /\ a + Len(w) - 1 = k + Len(w)
    BY <1>1, <1>3, <1>4
  <1>6. q = p + k /\ q \in Nat
    BY <1>2, <1>5
  <1> HIDE DEF q, p, k
  <1>7. Lies(body, w, q)
    <2>1. in \in Seq(Read) /\ w \in Seq(Read) /\ body \in Seq(Read)
      BY <1>1 DEF Text
    <2>2. SubSeq(in, k + 1, k + Len(w)) = w
      BY <1>4, <1>5
    <2>3. Lies(in, w, k)
      BY <1>1, <1>5, <2>1, <2>2, LiesPiece
    <2>4. Lies(body, w, p + k)
      BY <1>2, <1>5, <2>1, <2>3, LiesInside
    <2> QED BY <1>6, <2>4
  <1>8. ASSUME NEW j \in b..(q - 1), Lies(body, w, j) PROVE FALSE
    <2>1. CASE j < p
      <3>1. j \in b..(p - 1)
        BY <1>2, <2>1
      <3> QED BY <1>2, <1>8, <3>1
    <2>2. CASE ~(j < p)
      <3> DEFINE i == (j - p) + 1
      <3>1. i \in 1..Len(in) /\ p + i = j + 1 /\ i < a
        BY <1>2, <1>3, <1>5, <1>6, <2>2
      <3> HIDE DEF i
      <3>2. in[i] = w[1]
        <4>1. body[j + 1] = w[1]
          <5>1. 1 \in 1..Len(w)
            BY <1>1
          <5> QED BY <1>8, <5>1 DEF Lies
        <4>2. body[p + i] = in[i]
          BY <1>2, <3>1 DEF Lies
        <4> QED BY <3>1, <4>1, <4>2
      <3> QED BY <1>3, <3>1, <3>2
    <2> QED BY <2>1, <2>2
  <1>9. FirstFrom(w, b, q)
    <2>1. b <= q
      <3>1. p = b + Len(found)
        BY DEF p
      <3> QED BY <1>2, <1>5, <1>6, <3>1
    <2> QED BY <1>7, <1>8, <2>1 DEF FirstFrom
  <1>10. u \in Text /\ Len(u) = k /\ Lies(body, u, p)
    <2>1. u = SubSeq(in, 1, k)
      BY DEF k
    <2> HIDE DEF u
    <2> QED BY <1>1, <1>2, <1>5, <2>1, LiesSplit
  <1> HIDE DEF u
  <1>11. data = SubSeq(body, b + 1, q) /\ Len(data) = q - b
    <2>1. data \in Text /\ Len(data) = Len(found) + k
      <3>1. Len(data) = Len(found) + Len(u) /\ data \in Text
        BY <1>2, <1>10, TextJoined
      <3> QED BY <1>10, <3>1
    <2>2. p = b + Len(found)
      BY DEF p
    <2>3. Lies(body, data, b)
      <3>1. body \in Seq(Read) /\ found \in Seq(Read) /\ u \in Seq(Read)
        BY <1>1, <1>2, <1>10 DEF Text
      <3>2. Lies(body, u, b + Len(found))
        BY <1>10, <2>2
      <3> QED BY <1>2, <3>1, <3>2, LiesJoined
    <2> DEFINE n == q - b
    <2>4. n \in Nat /\ b + n = q /\ Len(data) = n
      <3>1. n = Len(found) + k
        BY <1>2, <1>5, <1>6, <2>2
      <3> QED BY <1>2, <1>5, <1>6, <2>1, <2>2, <3>1
    <2>5. b + n <= Len(body)
      <3> HIDE DEF n, data
      <3> QED BY <2>3, <2>4 DEF Lies
    <2> HIDE DEF data
    <2>6. data \in Seq(Read) /\ body \in Seq(Read)
      BY <1>1, <2>1 DEF Text
    <2>7. SubSeq(body, b + 1, b + n) = data
      <3> HIDE DEF n
      <3> QED BY <1>2, <2>3, <2>4, <2>5, <2>6, LiesPiece
    <2> QED BY <2>4, <2>7
  <1>12. /\ rest \in Text /\ Len(rest) \in Nat
         /\ Lies(body, rest, q + Len(w)) /\ q + Len(w) + Len(rest) = offset
    <2> DEFINE m == k + Len(w)
    <2>1. m \in 0..Len(in) /\ m + 1 = a + Len(w) /\ p + m = q + Len(w)
      BY <1>1, <1>2, <1>5, <1>6
    <2>2. rest = SubSeq(in, m + 1, Len(in))
      BY <2>1
    <2> HIDE DEF m, rest
    <2>3. rest \in Text /\ Len(rest) = Len(in) - m /\ Lies(body, rest, p + m)
      BY <1>1, <1>2, <2>1, <2>2, LiesSplit
    <2>4. Len(rest) \in Nat
      BY <2>3, LenProperties DEF Text
    <2>5. (p + m) + Len(rest) = offset
      BY <1>1, <1>2, <2>1, <2>3
    <2> QED BY <2>1, <2>3, <2>4, <2>5
  <1>13. olen + a - 1 = q - b
    <2>1. p = b + Len(found)
      BY DEF p
    <2> QED BY <1>2, <1>3, <1>5, <1>6, <2>1
  <1> HIDE DEF data, rest
  <1> QED BY <1>6, <1>9, <1>11, <1>12, <1>13 DEF data, rest, u, q, a, w

\* The body has been read to its end and the needle is not there.
LEMMA SearchFails ==
  ASSUME BodyInv, NEW b, Searched(b), Len(in) < Len(Body!Needle), Body!Left = 0
  PROVE  \A j \in Nat : j >= b => ~Lies(body, Body!Needle, j)
  <1> DEFINE w == Body!Needle
  <1>1. /\ offset = Len(body) /\ Len(body) \in Nat /\ Len(in) \in Nat /\ Len(w) \in Nat
        /\ Len(found) \in Nat /\ b \in Nat
    <2>1. Len(body) \in Nat /\ Len(in) \in Nat /\ Len(w) \in Nat /\ Len(found) \in Nat /\ b \in Nat
      BY NeedleIs, LenProperties DEF BodyInv, Searched, Text
    <2>2. Len(body) - offset = 0 /\ offset \in Nat
      BY DEF Body!Left, BodyInv
    <2> HIDE DEF w
    <2> QED BY <2>1, <2>2
  <1>2. /\ b + Len(found) + Len(in) = offset
        /\ \A j \in b..(b + Len(found) - 1) : ~Lies(body, w, j)
    BY DEF Searched
  <1>3. Len(in) < Len(w)
    OBVIOUS
  <1> HIDE DEF w
  <1>4. ASSUME NEW j \in Nat, j >= b, Lies(body, w, j) PROVE FALSE
    <2>1. j + Len(w) <= Len(body)
      BY <1>4 DEF Lies
    <2>2. j \in b..(b + Len(found) - 1)
      BY <1>1, <1>2, <1>3, <1>4, <2>1
    <2> QED BY <1>2, <1>4, <2>2
  <1> QED BY <1>4 DEF w
-----------------------------------------------------------------------------
(* Every step keeps the parser and the page inside the body.               *)
\* A step that reads on for the parser, or only moves in its buffer.
LEMMA ReadMoreKeeps == ASSUME Body!BodyAssumption, BodyInv, Body!ReadMore PROVE BodyInv'
  <1>1. PICK n \in Body!Sizes(Chunk) :
          /\ in' = in \o Body!Bytes(cursor, n)
          /\ offset' = offset + n /\ cursor' = cursor + n
    BY DEF Body!ReadMore
  <1>2. n \in Nat /\ n <= Len(body) - offset /\ Len(body) \in Nat
    BY SizesAre, Body!BodyAssumption DEF Body!BodyAssumption, Body!ReadMore, BodyInv, Text
  <1>3. UNCHANGED <<body, disk, olen, position, files, spoilt, reply>> /\ looks' # "done"
    BY DEF Body!ReadMore, Body!Finding
  <1>4. in' \in Text /\ Len(in') = Len(in) + n /\ Len(in) \in Nat
    <2>1. Body!Bytes(cursor, n) \in Text /\ Len(Body!Bytes(cursor, n)) = n
      BY <1>2, BytesAre DEF BodyInv
    <2>2. in \in Seq(Read) /\ Body!Bytes(cursor, n) \in Seq(Read)
      BY <2>1 DEF BodyInv, Text
    <2>3. /\ in \o Body!Bytes(cursor, n) \in Seq(Read)
          /\ Len(in \o Body!Bytes(cursor, n)) = Len(in) + Len(Body!Bytes(cursor, n))
      BY <2>2, ConcatProperties
    <2> QED BY <1>1, <2>1, <2>2, <2>3 DEF Text
  <1>5. AsRead(reply, body, files, spoilt)'
    BY <1>3 DEF BodyInv, AsRead, Body!Content, Body!Bytes
  <1> QED BY <1>1, <1>2, <1>3, <1>4, <1>5 DEF BodyInv

LEMMA PassKeeps == ASSUME BodyInv, Body!Pass PROVE BodyInv'
  <1>1. UNCHANGED <<body, disk, offset, cursor, position, files, spoilt, reply>> /\ looks' # "done"
    BY DEF Body!Pass, Body!Finding
  <1>2. Body!Passes \in 0..Len(in) /\ Len(in) \in Nat
    <2>1. Len(in) \in Nat /\ Body!FirstAt \in 0..Len(in)
      BY FirstIs DEF BodyInv, Text
    <2> QED BY <2>1 DEF Body!Passes
  <1>3. in' \in Text /\ Len(in') <= Len(in) /\ olen' \in Nat
    <2>1. in' = SubSeq(in, Body!Passes + 1, Len(in)) /\ olen' = olen + Body!Passes
      BY DEF Body!Pass
    <2> HIDE DEF Body!Passes
    <2>2. SubSeq(in, Body!Passes + 1, Len(in)) \in Text
      BY <1>2, SubSeqProperties DEF BodyInv, Text
    <2>3. Len(SubSeq(in, Body!Passes + 1, Len(in))) <= Len(in)
      BY <1>2, SubSeqProperties DEF BodyInv, Text
    <2> QED BY <1>2, <2>1, <2>2, <2>3 DEF BodyInv
  <1>5. AsRead(reply, body, files, spoilt)'
    BY <1>1 DEF BodyInv, AsRead, Body!Content, Body!Bytes
  <1> QED BY <1>1, <1>2, <1>3, <1>5 DEF BodyInv

\* Where a needle that is there ends in the buffer.
LEMMA RestIs ==
  ASSUME BodyInv, Body!Matches
  PROVE  /\ Body!FirstAt \in Nat \ {0} /\ Len(in) \in Nat
         /\ Body!FirstAt + Len(Body!Needle) <= Len(in) + 1
         /\ Len(Body!Needle) \in Nat
         /\ LET rest == SubSeq(in, Body!FirstAt + Len(Body!Needle), Len(in))
            IN  rest \in Text /\ Len(rest) <= Len(in)
  <1>1. Len(in) \in Nat /\ Body!FirstAt \in 0..Len(in)
    BY FirstIs DEF BodyInv, Text
  <1>2. Len(Body!Needle) \in Nat
    <2>1. Body!CRLF \in Text /\ Body!Boundary \in Text /\ Body!CRLF \o Body!CRLF \in Text
      BY TextOf
    <2> QED BY <2>1, LenProperties DEF Body!Needle, Text
  <1>3. Body!FirstAt # 0 /\ Len(in) - Body!FirstAt + 1 >= Len(Body!Needle)
    BY DEF Body!Matches, Body!Fits
  <1> DEFINE a == Body!FirstAt + Len(Body!Needle)
  <1>4. a \in Nat /\ a <= Len(in) + 1 /\ a >= 1
    BY <1>1, <1>2, <1>3
  <1>5. SubSeq(in, a, Len(in)) \in Text /\ Len(SubSeq(in, a, Len(in))) <= Len(in)
    <2> HIDE DEF a
    <2>1. \A i \in a..Len(in) : in[i] \in Read
      <3>1. \A i \in a..Len(in) : i \in 1..Len(in)
        BY <1>1, <1>4
      <3> QED BY <3>1, ElementOfSeq DEF BodyInv, Text
    <2>2. /\ SubSeq(in, a, Len(in)) \in Seq(Read)
          /\ Len(SubSeq(in, a, Len(in))) = IF a <= Len(in) THEN Len(in) - a + 1 ELSE 0
      BY <1>1, <1>4, <2>1, SubSeqProperties
    <2> QED BY <1>1, <1>4, <2>2 DEF Text
  <1> QED BY <1>1, <1>2, <1>3, <1>5

LEMMA FoundKeeps == ASSUME BodyInv, Body!Found PROVE BodyInv'
  <1>1. UNCHANGED <<body, disk, offset, cursor, spoilt, reply>> /\ olen' = 0
    BY DEF Body!Found
  <1> DEFINE rest == SubSeq(in, Body!FirstAt + Len(Body!Needle), Len(in))
             many == olen + Body!FirstAt - 1
  <1>2. /\ rest \in Text /\ Len(rest) <= Len(in) /\ Len(rest) \in Nat
        /\ Len(in) \in Nat /\ many \in Nat
    <2>1. Body!Matches
      BY DEF Body!Found
    <2>2. rest \in Text /\ Len(rest) <= Len(in) /\ Len(in) \in Nat
      BY <2>1, RestIs
    <2>3. Len(rest) \in Nat
      <3> HIDE DEF rest
      <3> QED BY <2>2, LenProperties DEF Text
    <2>4. Body!FirstAt \in Nat \ {0} /\ olen \in Nat
      BY <2>1, RestIs DEF BodyInv
    <2> HIDE DEF rest
    <2> QED BY <2>2, <2>3, <2>4
  <1>3. in' \in {<<>>, rest}
    BY DEF Body!Found
  <1>a. looks' = "done" => in' = <<>>
    BY DEF Body!Found
  <1>4. in' \in Text /\ Len(in') <= offset
    <2>1. <<>> \in Text /\ Len(<<>>) = 0 /\ Len(in) <= offset /\ offset \in Nat
      BY DEF Text, BodyInv
    <2> HIDE DEF rest
    <2> QED BY <1>2, <1>3, <2>1
  <1>5. position' \in {position, offset - Len(rest)}
    BY DEF Body!Found, Body!ToHeader
  <1>6. position' \in Nat
    <2>1. Len(in) <= offset /\ offset \in Nat /\ position \in Nat
      BY DEF BodyInv
    <2> HIDE DEF rest
    <2> QED BY <1>2, <1>5, <2>1
  <1> DEFINE new == [position |-> position, length |-> many - 2, offset |-> 0]
  <1>7. files' = files \/ (many >= 3 /\ files' = Append(files, new))
    <2>1. files' = files \/ (~(many < 3) /\ files' = Append(files, new))
      BY DEF Body!Found
    <2> HIDE DEF rest, new, many
    <2>2. many \in Nat
      BY <1>2
    <2>3. ~(many < 3) => many >= 3
      BY <2>2
    <2> QED BY <2>1, <2>3
  <1>8. files' \in Seq(Listed) /\ AsRead(reply, body, files', spoilt)
    <2>1. CASE files' = files
      BY <2>1 DEF BodyInv
    <2>2. CASE many >= 3 /\ files' = Append(files, new)
      <3>1. new \in Listed
        <4> HIDE DEF many
        <4>1. many - 2 \in Nat /\ position \in Nat /\ 0 <= many - 2
          BY <1>2, <2>2 DEF BodyInv
        <4> QED BY <4>1 DEF Listed
      <3> HIDE DEF new, many
      <3>2. files \in Seq(Listed) /\ Len(files) \in Nat
        BY LenProperties DEF BodyInv
      <3>3. Append(files, new) \in Seq(Listed)
        BY <3>1, <3>2
      <3>4. \A i \in DOMAIN files : i \in DOMAIN files' /\ files'[i] = files[i]
        BY <2>2, <3>1, <3>2, AppendProperties
      <3>5. AsRead(reply, body, files', spoilt)
        BY <3>4 DEF BodyInv, AsRead
      <3> QED BY <2>2, <3>3, <3>5
    <2> QED BY <1>7, <2>1, <2>2
  <1>9. AsRead(reply, body, files, spoilt)'
    <2> HIDE DEF new, many, rest
    <2> QED BY <1>1, <1>8 DEF AsRead, Body!Content, Body!Bytes
  <1> QED BY <1>1, <1>4, <1>a, <1>6, <1>8, <1>9 DEF BodyInv

LEMMA NotFoundKeeps == ASSUME BodyInv, Body!NotFound PROVE BodyInv'
  <1>1. UNCHANGED <<body, disk, offset, cursor, files, spoilt, reply>> /\ olen' = 0
    BY DEF Body!NotFound
  <1>2. in' \in {<<>>, in} /\ position' \in {position, offset - Len(in)}
    BY DEF Body!NotFound, Body!ToHeader
  <1>3. in' \in Text /\ Len(in') <= offset /\ position' \in Nat
    <2>1. <<>> \in Text /\ Len(<<>>) = 0 /\ Len(in) \in Nat
      BY DEF Text, BodyInv
    <2> QED BY <1>2, <2>1 DEF BodyInv
  <1>4. looks' = "done" => in' = <<>>
    BY DEF Body!NotFound
  <1>5. AsRead(reply, body, files, spoilt)'
    BY <1>1 DEF BodyInv, AsRead, Body!Content, Body!Bytes
  <1> QED BY <1>1, <1>3, <1>4, <1>5 DEF BodyInv

\* A file is rewound, or more of it has been read: it stays where it was.
LEMMA FileMoves ==
  ASSUME BodyInv, NEW i \in DOMAIN files, NEW k \in Nat, k <= files[i].length
  PROVE  LET fs == [files EXCEPT ![i].offset = k]
         IN  /\ fs \in Seq(Listed) /\ DOMAIN fs = DOMAIN files
             /\ \A j \in DOMAIN files : /\ fs[j].position = files[j].position
                                        /\ fs[j].length = files[j].length
             /\ \A j \in DOMAIN files : Body!Content(fs[j]) = Body!Content(files[j])
  <1> DEFINE fs == [files EXCEPT ![i].offset = k]
  <1>1. files \in Seq(Listed) /\ \A j \in DOMAIN files : files[j] \in Listed
    BY ElementOfSeq DEF BodyInv
  <1>2. fs[i] = [files[i] EXCEPT !.offset = k] /\ \A j \in DOMAIN files : j # i => fs[j] = files[j]
    BY <1>1
  <1>3. fs[i] \in Listed /\ fs[i].position = files[i].position /\ fs[i].length = files[i].length
    BY <1>1, <1>2 DEF Listed
  <1>4. fs \in Seq(Listed) /\ DOMAIN fs = DOMAIN files
    <2>1. DOMAIN fs = DOMAIN files
      OBVIOUS
    <2>2. fs = [j \in DOMAIN files |-> fs[j]]
      BY <1>1
    <2>3. \A j \in DOMAIN files : fs[j] \in Listed
      BY <1>1, <1>2, <1>3
    <2>4. DOMAIN files = 1..Len(files) /\ Len(files) \in Nat
      BY <1>1, LenProperties
    <2> HIDE DEF fs
    <2>5. fs \in [1..Len(files) -> Listed]
      BY <2>1, <2>2, <2>3, <2>4
    <2> QED BY <2>1, <2>4, <2>5
  <1>5. \A j \in DOMAIN files : /\ fs[j].position = files[j].position
                                /\ fs[j].length = files[j].length
    BY <1>2, <1>3
  <1> HIDE DEF fs
  <1>6. \A j \in DOMAIN files : Body!Content(fs[j]) = Body!Content(files[j])
    BY <1>5 DEF Body!Content
  <1> QED BY <1>4, <1>5, <1>6 DEF fs

LEMMA RestStays ==
  ASSUME Body!Rest PROVE UNCHANGED <<body, disk, in, olen, position, looks>>
  BY DEF Body!Rest, Body!find

LEMMA FileRewindKeeps ==
  ASSUME BodyInv, NEW i \in DOMAIN files, Body!FileRewind(i) PROVE BodyInv'
  <1>1. UNCHANGED <<body, disk, in, olen, position, looks, offset, cursor, spoilt, reply>>
    BY RestStays DEF Body!FileRewind
  <1>2. files' = [files EXCEPT ![i].offset = 0]
    BY DEF Body!FileRewind
  <1>3. files[i].length \in Nat
    BY ElementOfSeq DEF BodyInv, Listed
  <1>4. /\ files' \in Seq(Listed) /\ DOMAIN files' = DOMAIN files
        /\ \A j \in DOMAIN files : Body!Content(files'[j]) = Body!Content(files[j])
    BY <1>2, <1>3, FileMoves
  <1>5. AsRead(reply, body, files', spoilt)
    BY <1>4 DEF BodyInv, AsRead
  <1>6. AsRead(reply, body, files, spoilt)'
    BY <1>1, <1>5 DEF AsRead, Body!Content, Body!Bytes
  <1> QED BY <1>1, <1>4, <1>6 DEF BodyInv

\* What is read of a file is a piece of its content.
LEMMA FilePiece ==
  ASSUME body \in Text, NEW f \in Listed, NEW k \in Nat, f.offset + k <= f.length
  PROVE  Body!Bytes(f.position + f.offset, k)
           = SubSeq(Body!Content(f), f.offset + 1, f.offset + k)
  <1> DEFINE a == f.position
             l == f.length
             o == f.offset
  <1>1. a \in Nat /\ l \in Nat /\ o \in Nat /\ o + k <= l
    BY DEF Listed
  <1> HIDE DEF a, l, o
  <1>2. SubSeq(Body!Bytes(a, l), o + 1, o + k) = Body!Bytes(a + o, k)
    <2> DEFINE Piece(b, n, i, j) == SubSeq(Body!Bytes(b, n), i + 1, i + j) = Body!Bytes(b + i, j)
    <2>1. \A b, n, i, j \in Nat : i + j <= n => Piece(b, n, i, j)
      BY BytesAre
    <2> HIDE DEF Piece
    <2>2. Piece(a, l, o, k)
      BY <1>1, <2>1
    <2> QED BY <2>2 DEF Piece
  <1> QED BY <1>2 DEF a, l, o, Body!Content

LEMMA FileReadKeeps ==
  ASSUME BodyInv, NEW i \in DOMAIN files, NEW n \in Nat, Body!FileRead(i, n) PROVE BodyInv'
  <1>1. UNCHANGED <<body, disk, in, olen, position, looks, offset>>
    BY RestStays DEF Body!FileRead
  <1> DEFINE f == files[i]
      most == IF n < f.length - f.offset THEN n ELSE f.length - f.offset
  <1>2. PICK k \in (IF disk /\ most > 0 THEN 1..most ELSE {most}) :
          /\ reply' = <<i, f.offset, Body!Bytes(Body!SeekOf(f), k)>>
          /\ files' = [files EXCEPT ![i].offset = @ + k]
          /\ IF disk /\ most > 0 THEN cursor' = Body!SeekOf(f) + k /\ spoilt' = TRUE
             ELSE UNCHANGED <<cursor, spoilt>>
    BY DEF Body!FileRead
  <1>3. /\ f.position \in Nat /\ f.length \in Nat /\ f.offset \in Nat /\ f.offset <= f.length
        /\ i \in Nat \ {0}
    <2>1. files \in Seq(Listed)
      BY DEF BodyInv
    <2>2. i \in 1..Len(files) /\ Len(files) \in Nat
      BY <2>1, LenProperties
    <2> HIDE DEF f
    <2>3. f \in Listed
      BY <2>1, <2>2, ElementOfSeq DEF f
    <2> QED BY <2>2, <2>3 DEF Listed
  <1> HIDE DEF f
  <1>4. k \in Nat /\ f.offset + k <= f.length
    BY <1>2, <1>3
  <1> HIDE DEF most
  <1>5. /\ files' \in Seq(Listed) /\ DOMAIN files' = DOMAIN files
        /\ \A j \in DOMAIN files : Body!Content(files'[j]) = Body!Content(files[j])
    <2>1. files' = [files EXCEPT ![i].offset = f.offset + k]
      BY <1>2 DEF f
    <2> DEFINE k2 == f.offset + k
    <2>2. k2 \in Nat /\ k2 <= files[i].length
      BY <1>3, <1>4 DEF f
    <2> HIDE DEF k2
    <2> QED BY <2>1, <2>2, FileMoves DEF k2
  <1>6. cursor' \in Nat /\ (~spoilt' => cursor' = offset)
    <2>1. CASE disk /\ most > 0
      <3>1. cursor' = f.position + f.offset + k /\ spoilt' = TRUE
        BY <1>2, <2>1 DEF Body!SeekOf
      <3>2. f.position + f.offset + k \in Nat
        BY <1>3, <1>4
      <3> QED BY <3>1, <3>2
    <2>2. CASE ~(disk /\ most > 0)
      <3>1. UNCHANGED <<cursor, spoilt>>
        BY <1>2, <2>2
      <3> QED BY <3>1 DEF BodyInv
    <2> QED BY <2>1, <2>2
  <1>7. AsRead(reply', body, files', spoilt')
    <2> DEFINE b == Body!Bytes(f.position + f.offset, k)
    <2>1. body \in Text
      BY DEF BodyInv
    <2>2. Len(b) = k
      BY <1>3, <1>4, <2>1, BytesAre
    <2>3. b = SubSeq(Body!Content(f), f.offset + 1, f.offset + k)
      <3>1. f \in Listed
        BY ElementOfSeq DEF BodyInv, f
      <3> QED BY <1>4, <2>1, <3>1, FilePiece
    <2>4. reply' = <<i, f.offset, b>>
      BY <1>2 DEF Body!SeekOf
    <2> HIDE DEF b
    <2>5. reply'[1] = i /\ reply'[2] = f.offset /\ reply'[3] = b
      BY <2>4
    <2>6. i # 0 /\ i \in DOMAIN files' /\ Body!Content(files'[i]) = Body!Content(f)
      BY <1>3, <1>5 DEF f
    <2> QED BY <2>2, <2>3, <2>5, <2>6 DEF AsRead
  <1>8. AsRead(reply, body, files, spoilt)'
    BY <1>1, <1>7 DEF AsRead, Body!Content, Body!Bytes
  <1> QED BY <1>1, <1>5, <1>6, <1>8 DEF BodyInv

LEMMA BodyReadKeeps ==
  ASSUME BodyInv, NEW n \in Nat, Body!BodyRead(n) PROVE BodyInv'
  <1>1. UNCHANGED <<body, disk, in, olen, position, looks, files, spoilt>>
    BY RestStays DEF Body!BodyRead
  <1>2. PICK k \in Body!Sizes(n) :
          LET there == IF disk /\ cursor + k > Len(body) THEN 0 ELSE k
          IN /\ reply' = <<0, offset, Body!Bytes(cursor, there)>>
             /\ offset' = offset + there /\ cursor' = cursor + there
    BY DEF Body!BodyRead
  <1> DEFINE there == IF disk /\ cursor + k > Len(body) THEN 0 ELSE k
  <1>3. k \in Nat /\ k <= Len(body) - offset /\ Len(body) \in Nat
    BY SizesAre, LenProperties DEF Body!BodyRead, BodyInv, Text
  <1>4. /\ reply' = <<0, offset, Body!Bytes(cursor, there)>>
        /\ offset' = offset + there /\ cursor' = cursor + there
    BY <1>2
  <1>5. there \in Nat /\ offset + there <= Len(body)
    BY <1>3 DEF BodyInv
  <1> HIDE DEF there
  <1>6. /\ offset' \in Nat /\ offset' <= Len(body) /\ cursor' \in Nat /\ Len(in) <= offset'
        /\ ~spoilt' => cursor' = offset'
    <2>1. Len(in) \in Nat
      BY LenProperties DEF BodyInv, Text
    <2> QED BY <1>1, <1>3, <1>4, <1>5, <2>1 DEF BodyInv
  <1>7. AsRead(reply', body, files, spoilt)
    <2> DEFINE b == Body!Bytes(cursor, there)
    <2>1. body \in Text /\ cursor \in Nat /\ offset \in Nat
      BY DEF BodyInv
    <2>2. Len(b) = there
      BY <1>5, <2>1, BytesAre
    <2>3. ~spoilt => b = SubSeq(body, offset + 1, offset + there)
      <3>1. ~spoilt => cursor = offset
        BY DEF BodyInv
      <3> QED BY <1>5, <2>1, <3>1, BytesAre
    <2>4. reply'[1] = 0 /\ reply'[2] = offset /\ reply'[3] = b
      BY <1>4
    <2> HIDE DEF b
    <2> QED BY <2>2, <2>3, <2>4 DEF AsRead
  <1>8. AsRead(reply, body, files, spoilt)'
    BY <1>1, <1>7 DEF AsRead, Body!Content, Body!Bytes
  <1> QED BY <1>1, <1>6, <1>8 DEF BodyInv

LEMMA BodyRewindKeeps == ASSUME BodyInv, Body!BodyRewind PROVE BodyInv'
  <1>1. UNCHANGED <<body, disk, in, olen, position, looks, files>>
    BY RestStays DEF Body!BodyRewind
  <1>2. offset' = 0 /\ cursor' = 0 /\ spoilt' = FALSE /\ reply' = <<>>
    BY DEF Body!BodyRewind
  <1>3. in = <<>> /\ Len(<<>>) = 0
    BY DEF Body!BodyRewind, Body!PageReads, BodyInv
  <1>4. Len(body) \in Nat
    BY LenProperties DEF BodyInv, Text
  <1>5. AsRead(reply, body, files, spoilt)'
    BY <1>2 DEF AsRead
  <1> QED BY <1>1, <1>2, <1>3, <1>4, <1>5 DEF BodyInv

LEMMA PopulatePostKeeps == ASSUME BodyInv, Body!PopulatePost PROVE BodyInv'
  <1>1. UNCHANGED <<body, disk, in, olen, position, looks, files, reply>>
    BY RestStays DEF Body!PopulatePost
  <1>2. Len(body) \in Nat /\ offset \in Nat /\ offset <= Len(body) /\ cursor \in Nat
    BY LenProperties DEF BodyInv, Text
  <1>3. in = <<>> /\ Len(<<>>) = 0
    BY DEF Body!PopulatePost, Body!PageReads, BodyInv
  <1>4. /\ offset' \in Nat /\ offset' <= Len(body) /\ cursor' \in Nat
        /\ ~spoilt' => ~spoilt /\ cursor' = offset'
    <2>1. CASE disk
      <3>1. PICK k : /\ k = (IF cursor + Body!Left <= Len(body) THEN Body!Left
                            ELSE IF cursor <= Len(body) THEN Len(body) - cursor ELSE 0)
                    /\ offset' = offset + k /\ cursor' = cursor + k /\ spoilt' = spoilt
        BY <2>1 DEF Body!PopulatePost
      <3>2. k \in Nat /\ offset + k <= Len(body)
        BY <3>1, <1>2 DEF Body!Left
      <3> QED BY <3>1, <3>2, <1>2 DEF BodyInv
    <2>2. CASE ~disk
      <3>1. cursor' = Len(body) /\ spoilt' = TRUE /\ offset' = offset
        BY <2>2 DEF Body!PopulatePost
      <3> QED BY <3>1, <1>2
    <2> QED BY <2>1, <2>2
  <1>5. AsRead(reply, body, files, spoilt')
    BY <1>4 DEF BodyInv, AsRead
  <1>6. AsRead(reply, body, files, spoilt)'
    BY <1>1, <1>5 DEF AsRead, Body!Content, Body!Bytes
  <1> QED BY <1>1, <1>3, <1>4, <1>6 DEF BodyInv

\* The parser begins with a body that is a text, whole or cut short.
LEMMA BodyBegins == ASSUME Body!BodyAssumption, Body!Init PROVE BodyInv
  <1>1. form \in Body!Forms /\ disk \in BOOLEAN
    BY DEF Body!Init
  <1>2. PICK n \in {Len(Body!Encoded(form)), Len(Body!Encoded(form)) - 6} :
          body = SubSeq(Body!Encoded(form), 1, n)
    BY DEF Body!Init
  <1> DEFINE e == Body!Encoded(form)
  <1>3. e \in Text /\ Len(e) \in Nat /\ n \in Int /\ n <= Len(e)
    <2>1. e \in Text
      BY <1>1, EncodedIs
    <2> HIDE DEF e
    <2>2. Len(e) \in Nat
      BY <2>1, LenProperties DEF Text
    <2>3. n \in {Len(e), Len(e) - 6}
      BY <1>2 DEF e
    <2> QED BY <2>1, <2>2, <2>3
  <1>4. body = SubSeq(e, 1, n)
    BY <1>2
  <1> HIDE DEF e
  <1>5. body \in Text
    <2>1. \A i \in 1..n : i \in 1..Len(e) /\ e[i] \in Read
      BY <1>3, ElementOfSeq DEF Text
    <2> QED BY <1>3, <1>4, <2>1, SubSeqProperties DEF Text
  <1>6. Len(body) \in Nat
    BY <1>5, LenProperties DEF Text
  <1>7. /\ offset = 0 /\ cursor = 0 /\ in = <<>> /\ olen = 0 /\ position = 0
        /\ files = <<>> /\ reply = <<>>
    BY DEF Body!Init
  <1>8. <<>> \in Text /\ Len(<<>>) = 0 /\ <<>> \in Seq(Listed)
    BY DEF Text
  <1> QED BY <1>1, <1>5, <1>6, <1>7, <1>8 DEF BodyInv, AsRead

LEMMA BodyStep == ASSUME Body!BodyAssumption, BodyInv, [Body!Next]_Body!vars PROVE BodyInv'
  <1>1. CASE Body!ReadMore
    BY <1>1, ReadMoreKeeps
  <1>2. CASE Body!Pass
    BY <1>2, PassKeeps
  <1>3. CASE Body!Found
    BY <1>3, FoundKeeps
  <1>4. CASE Body!NotFound
    BY <1>4, NotFoundKeeps
  <1>5. CASE \E i \in DOMAIN files : Body!FileRewind(i)
    BY <1>5, FileRewindKeeps
  <1>6. CASE \E i \in DOMAIN files : \E n \in {1, 3} : Body!FileRead(i, n)
    BY <1>6, FileReadKeeps
  <1>7. CASE \E n \in {1, 3} : Body!BodyRead(n)
    BY <1>7, BodyReadKeeps
  <1>8. CASE Body!BodyRewind
    BY <1>8, BodyRewindKeeps
  <1>9. CASE Body!PopulatePost
    BY <1>9, PopulatePostKeeps
  <1>10. CASE UNCHANGED Body!vars
    <2>1. UNCHANGED <<body, disk, offset, cursor, in, olen, looks, position, files, spoilt, reply>>
      BY <1>10 DEF Body!vars, Body!find
    <2>2. AsRead(reply, body, files, spoilt)'
      BY <2>1 DEF BodyInv, AsRead, Body!Content, Body!Bytes
    <2> QED BY <2>1, <2>2 DEF BodyInv
  <1> QED BY <1>1, <1>2, <1>3, <1>4, <1>5, <1>6, <1>7, <1>8, <1>9, <1>10 DEF Body!Next

\* Whatever a page reads of the body or of a file in the form is what lies
\* there: a read of a file begins where the last one of that file ended, and a
\* read of the body where the body was left, as long as no file on disk has
\* been read and the arguments have not been populated since the last rewind
\* (http_file_read, http_body_read, http_body_rewind).
THEOREM BodyReadsInOrder ==
  ASSUME Body!BodyAssumption
  PROVE  Body!Spec => []Body!ReadsInOrder
  <1>1. Body!Init => BodyInv
    BY BodyBegins
  <1>2. BodyInv /\ [Body!Next]_Body!vars => BodyInv'
    BY BodyStep
  <1>3. BodyInv => Body!ReadsInOrder
    BY BodyInvReads
  <1> QED BY <1>1, <1>2, <1>3, PTL DEF Body!Spec
-----------------------------------------------------------------------------
(* What the parser has taken of the form, and what it looks for next.      *)
\* The contents that a form sends as fields and as files, those of the first k
\* parts in front.
Lists(h)     == [i \in DOMAIN form |->
                   IF Body!Headers(form[i].kind) = <<h>> /\ form[i].data # <<>>
                   THEN <<form[i].data>> ELSE <<>>]
Counted(h, k) == EndsOf(Lists(h))[k]
Takes(h, k)  == Body!Headers(form[k].kind) = <<h>> /\ form[k].data # <<>>

LEMMA SentIs ==
  ASSUME Body!BodyAssumption, form \in Body!Forms, NEW h
  PROVE  /\ Body!Sent(h) \in Seq(Text) /\ Len(Body!Sent(h)) = Counted(h, Len(form))
         /\ Counted(h, 0) = 0
         /\ \A k \in 0..Len(form) : Counted(h, k) \in Nat /\ Counted(h, k) <= Len(Body!Sent(h))
         /\ \A k \in 1..Len(form) :
              IF Takes(h, k)
              THEN /\ Counted(h, k) = Counted(h, k - 1) + 1
                   /\ Body!Sent(h)[Counted(h, k)] = form[k].data
              ELSE Counted(h, k) = Counted(h, k - 1)
  <1> DEFINE n == Len(form)
             ss == Lists(h)
             e == EndsOf(ss)
             f == FlattenSeq(ss)
  <1>1. n \in Nat /\ DOMAIN form = 1..n /\ \A i \in 1..n : form[i] \in PartOf /\ form[i].data \in Text
    <2>1. n \in Nat /\ DOMAIN form = 1..n /\ \A i \in 1..n : form[i] \in PartOf
      BY EncodedIs
    <2> QED BY <2>1, PieceIsText
  <1>2. /\ ss \in [1..n -> Seq(Text)]
        /\ \A k \in 1..n : ss[k] = IF Takes(h, k) THEN <<form[k].data>> ELSE <<>>
    <2>1. \A i \in 1..n : <<form[i].data>> \in Seq(Text) /\ <<>> \in Seq(Text)
      BY <1>1
    <2> QED BY <1>1, <2>1 DEF Lists, Takes
  <1>3. Body!Sent(h) = f
    <2>1. Body!FlattenSeq(ss) = f
      BY SameJoined
    <2> QED BY <2>1 DEF Body!Sent, Lists
  <1>c. \A k : Counted(h, k) = e[k]
    BY DEF Counted
  <1> HIDE DEF ss, e, f
  <1>4. ss \in Seq(Seq(Text)) /\ Len(ss) = n
    BY <1>1, <1>2
  <1>5. f \in Seq(Text) /\ Laid(ss, e)
    BY <1>4, Flattened DEF f, e
  <1>6. \A k \in 1..n : Len(ss[k]) \in Nat
    BY <1>2
  <1>7. \A i, k \in 0..n : i <= k => e[i] <= e[k]
    BY <1>1, <1>4, <1>5, <1>6, Ascending
  <1>8. /\ e \in [0..n -> Nat] /\ e[0] = 0 /\ e[n] = Len(f)
        /\ \A k \in 1..n : /\ e[k] = e[k - 1] + Len(ss[k])
                           /\ \A u \in 1..Len(ss[k]) : f[e[k - 1] + u] = ss[k][u]
    BY <1>4, <1>5 DEF Laid, f
  <1>9. \A k \in 0..n : e[k] \in Nat /\ e[k] <= Len(f)
    <2>1. n \in 0..n /\ \A k \in 0..n : k <= n
      BY <1>1
    <2> QED BY <1>7, <1>8, <2>1
  <1>10. ASSUME NEW k \in 1..n
         PROVE  IF Takes(h, k) THEN e[k] = e[k - 1] + 1 /\ f[e[k]] = form[k].data
                ELSE e[k] = e[k - 1]
    <2>0. e[k] = e[k - 1] + Len(ss[k]) /\ e[k - 1] \in Nat
      <3>1. k - 1 \in 0..n
        BY <1>1
      <3> QED BY <1>8, <3>1
    <2>1. CASE Takes(h, k)
      <3>1. ss[k] = <<form[k].data>>
        BY <1>2, <2>1
      <3>2. Len(ss[k]) = 1 /\ ss[k][1] = form[k].data
        BY <3>1
      <3>3. 1 \in 1..Len(ss[k])
        BY <3>2
      <3>4. f[e[k - 1] + 1] = ss[k][1]
        BY <1>8, <3>3
      <3> QED BY <2>0, <2>1, <3>2, <3>4
    <2>2. CASE ~Takes(h, k)
      <3>1. ss[k] = <<>>
        BY <1>2, <2>2
      <3>2. Len(ss[k]) = 0
        BY <3>1
      <3> QED BY <2>0, <2>2, <3>2
    <2> QED BY <2>1, <2>2
  <1> QED BY <1>3, <1>5, <1>8, <1>9, <1>10, <1>c

\* A list has the contents that the first k parts send.
Has(s, h, k) ==
  s \in Seq(Text) /\ Len(s) = Counted(h, k) /\ \A i \in 1..Counted(h, k) : s[i] = Body!Sent(h)[i]

LEMMA HasNext ==
  ASSUME Body!BodyAssumption, form \in Body!Forms, NEW h, NEW s, NEW k \in 1..Len(form),
         Has(s, h, k - 1)
  PROVE  IF Takes(h, k) THEN Has(Append(s, form[k].data), h, k) ELSE Has(s, h, k)
  <1> DEFINE d == form[k].data
             c == Counted(h, k - 1)
  <1>1. /\ k \in 0..Len(form) /\ k - 1 \in 0..Len(form) /\ d \in Text
    <2>1. Len(form) \in Nat /\ form[k] \in PartOf
      BY EncodedIs
    <2>2. form[k].data \in Text
      BY <2>1, PieceIsText
    <2>3. k \in 0..Len(form) /\ k - 1 \in 0..Len(form)
      BY <2>1
    <2> QED BY <2>2, <2>3
  <1>2. c \in Nat /\ s \in Seq(Text) /\ Len(s) = c /\ \A i \in 1..c : s[i] = Body!Sent(h)[i]
    BY <1>1, SentIs DEF Has
  <1>3. CASE Takes(h, k)
    <2>1. Counted(h, k) = c + 1 /\ Body!Sent(h)[c + 1] = d
      BY <1>3, SentIs
    <2> HIDE DEF c, d
    <2> DEFINE t == Append(s, d)
    <2>2. t \in Seq(Text) /\ Len(t) = c + 1 /\ t[c + 1] = d /\ \A i \in 1..c : t[i] = s[i]
      BY <1>1, <1>2, AppendProperties
    <2> HIDE DEF t
    <2>3. \A i \in 1..(c + 1) : i \in 1..c \/ i = c + 1
      BY <1>2
    <2>4. \A i \in 1..(c + 1) : t[i] = Body!Sent(h)[i]
      BY <1>2, <2>1, <2>2, <2>3
    <2>5. Has(t, h, k)
      BY <2>1, <2>2, <2>4 DEF Has
    <2> QED BY <1>3, <2>5 DEF t, d
  <1>4. CASE ~Takes(h, k)
    <2>1. Counted(h, k) = c
      BY <1>4, SentIs
    <2> HIDE DEF c
    <2> QED BY <1>2, <1>4, <2>1 DEF Has
  <1> QED BY <1>3, <1>4

LEMMA HasPrefix ==
  ASSUME Body!BodyAssumption, form \in Body!Forms, NEW h, NEW s, NEW k \in 0..Len(form), Has(s, h, k)
  PROVE  Body!IsPrefix(s, Body!Sent(h)) /\ (k = Len(form) => s = Body!Sent(h))
  <1> DEFINE t == Body!Sent(h)
             c == Counted(h, k)
  <1>1. t \in Seq(Text) /\ c \in Nat /\ c <= Len(t) /\ (k = Len(form) => Len(t) = c)
    BY SentIs
  <1>2. s \in Seq(Text) /\ Len(s) = c /\ \A i \in 1..c : s[i] = t[i]
    BY DEF Has
  <1> HIDE DEF t, c
  <1>3. SubSeq(t, 1, c) = s
    <2>1. PICK z \in Nat : z = 0
      OBVIOUS
    <2>2. z + c <= Len(t) /\ z + 1 = 1 /\ z + c = c
      BY <1>1, <2>1
    <2>3. \A u \in 1..Len(s) : t[z + u] = s[u]
      <3>1. \A u \in 1..Len(s) : z + u = u
        BY <2>1
      <3> QED BY <1>2, <3>1
    <2>4. Lies(t, s, z)
      BY <1>2, <2>2, <2>3 DEF Lies
    <2>5. SubSeq(t, z + 1, z + c) = s
      BY <1>1, <1>2, <2>2, <2>4, LiesPiece
    <2> QED BY <2>2, <2>5
  <1>4. Body!IsPrefix(s, t)
    BY <1>1, <1>2, <1>3 DEF Body!IsPrefix
  <1>5. k = Len(form) => s = t
    <2>1. ASSUME k = Len(form) PROVE s = t
      <3>1. Len(t) = c
        BY <1>1, <2>1
      <3> QED BY <1>1, <1>2, <3>1, SeqEqual
    <2> QED BY <2>1
  <1> QED BY <1>4, <1>5 DEF t

\* What has been taken of the form is what its first k parts send.
Got   == [i \in DOMAIN files |-> Body!Content(files[i])]
Taken(k) == Has(args, "F", k) /\ Has(Got, "P", k)

\* What the parser looks for behind k parts, and in the part that follows; and
\* what it does at the end of a body that was cut short.
Stands(k, b) ==
  \/ looks = "boundary" /\ k = 0 /\ b = 0
  \/ looks = "crlf" /\ (k < Len(form) \/ Whole) /\ b = Mark(k)
  \/ looks = "headers" /\ k < Len(form) /\ b = Mark(k) + 2
  \/ /\ looks \in {"field", "file"} /\ k < Len(form)
     /\ hdrs = Body!Headers(form[k + 1].kind) /\ (looks = "field" <=> hdrs[1] = "F")
     /\ position = b /\ b = StartOf(k + 1)
LooksFor(k) == \E b \in Nat : Stands(k, b) /\ Searched(b)
CutOff(k) == looks = "crlf" /\ ~Whole /\ Body!Left = 0 /\ Len(in) < 2
Over(k)   == looks = "done" /\ (Whole => k = Len(form))

Parsing(k) == Taken(k) /\ (LooksFor(k) \/ CutOff(k) \/ Over(k))

PartsInv ==
  /\ FormLies
  /\ ~failed => /\ looks # "done" => ~spoilt
                /\ \E k \in 0..Len(form) : Parsing(k)

\* What does not depend on where the parser is.
LEMMA FormStays ==
  ASSUME UNCHANGED <<form, body>>
  PROVE  /\ FormLies => FormLies'
         /\ Len(form)' = Len(form) /\ (Whole <=> Whole')
         /\ \A k : Mark(k)' = Mark(k) /\ StartOf(k)' = StartOf(k)
         /\ \A s, h, k : Has(s, h, k) => Has(s, h, k)'
  <1>1. Layout(form)' = Layout(form) /\ Body!Encoded(form)' = Body!Encoded(form) /\ form' = form
    BY DEF Layout, Body!Encoded, Body!Piece
  <1>2. \A k : Mark(k)' = Mark(k)
    BY <1>1 DEF Mark
  <1>3. \A k : StartOf(k)' = StartOf(k)
    BY <1>1, <1>2 DEF StartOf
  <1>4. Whole <=> Whole'
    BY <1>1 DEF Whole
  <1>5. \A h : Lists(h)' = Lists(h) /\ Body!Sent(h)' = Body!Sent(h)
    BY <1>1 DEF Lists, Body!Sent
  <1>6. \A s, h, k : Has(s, h, k) => Has(s, h, k)'
    BY <1>5 DEF Has, Counted
  <1>7. FormLies => FormLies'
    BY <1>1, <1>2, <1>3, <1>4 DEF FormLies, Ends, Open
  <1> QED BY <1>1, <1>2, <1>3, <1>4, <1>6, <1>7

\* What has been taken stays.
LEMMA TakenStays ==
  ASSUME UNCHANGED <<form, body, args>>, Got' = Got, NEW k, Taken(k) PROVE Taken(k)'
  <1>1. \A s, h : Has(s, h, k) => Has(s, h, k)'
    BY FormStays
  <1>2. Has(args, "F", k)' /\ Has(Got, "P", k)'
    <2> DEFINE a == args
               g == Got
    <2>1. Has(a, "F", k) /\ Has(g, "P", k)
      BY DEF Taken
    <2> HIDE DEF a, g
    <2>2. Has(a, "F", k)' /\ Has(g, "P", k)'
      <3>1. \A h : UNCHANGED <<Body!Sent(h), Counted(h, k)>>
        BY DEF Body!Sent, Counted, Lists
      <3> QED BY <2>1, <3>1 DEF Has, a, g
    <2> QED BY <2>2 DEF a, g
  <1> QED BY <1>2 DEF Taken

LEMMA GotStays == ASSUME UNCHANGED <<body, files>> PROVE Got' = Got
  BY DEF Got, Body!Content, Body!Bytes

LEMMA PartsBegin == ASSUME Body!BodyAssumption, Body!Init PROVE PartsInv
  <1>1. FormLies
    BY FormIsLaid
  <1>2. /\ looks = "boundary" /\ found = <<>> /\ in = <<>> /\ olen = 0 /\ offset = 0
        /\ args = <<>> /\ files = <<>> /\ spoilt = FALSE
    BY DEF Body!Init
  <1>3. <<>> \in Text /\ Len(<<>>) = 0 /\ <<>> \in Seq(Text) /\ body \in Text /\ Len(body) \in Nat
    BY <1>1, LenProperties DEF Text, FormLies
  <1>4. Searched(0)
    <2>1. Lies(body, <<>>, 0)
      BY <1>3 DEF Lies
    <2> QED BY <1>2, <1>3, <2>1 DEF Searched
  <1>5. Got = <<>>
    BY <1>2 DEF Got
  <1>6. form \in Body!Forms
    BY <1>1 DEF FormLies
  <1>7. Taken(0)
    <2>1. Counted("F", 0) = 0 /\ Counted("P", 0) = 0
      BY <1>6, SentIs
    <2> QED BY <1>2, <1>3, <1>5, <2>1 DEF Taken, Has
  <1>8. 0 \in 0..Len(form)
    BY <1>6, Marks
  <1>9. LooksFor(0)
    <2>1. Stands(0, 0)
      BY <1>2 DEF Stands
    <2> QED BY <1>4, <2>1 DEF LooksFor
  <1> QED BY <1>1, <1>2, <1>7, <1>8, <1>9 DEF PartsInv, Parsing

\* The parser reads on, or passes over what it has.
LEMMA PartsRead ==
  ASSUME Body!BodyAssumption, BodyInv, PartsInv, Body!ReadMore \/ Body!Pass PROVE PartsInv'
  <1>1. /\ UNCHANGED <<form, body, looks, hdrs, position, args, files, failed, spoilt>>
        /\ looks # "done"
    BY DEF Body!ReadMore, Body!Pass, Body!Finding
  <1>2. FormLies' /\ Len(form)' = Len(form) /\ (Whole <=> Whole')
        /\ \A k : Mark(k)' = Mark(k) /\ StartOf(k)' = StartOf(k)
    BY <1>1, FormStays DEF PartsInv
  <1>3. ASSUME NEW k, NEW b, Stands(k, b) PROVE Stands(k, b)'
    <2> DEFINE h == Body!Headers(form[k + 1].kind)
               m == Mark(k)
               s == StartOf(k + 1)
               n == Len(form)
    <2>1. h' = h /\ m' = m /\ s' = s /\ n' = n
      BY <1>1, <1>2
    <2>2. \/ looks = "boundary" /\ k = 0 /\ b = 0
          \/ looks = "crlf" /\ (k < n \/ Whole) /\ b = m
          \/ looks = "headers" /\ k < n /\ b = m + 2
          \/ /\ looks \in {"field", "file"} /\ k < n
             /\ hdrs = h /\ (looks = "field" <=> hdrs[1] = "F") /\ position = b /\ b = s
      BY <1>3 DEF Stands
    <2> HIDE DEF h, m, s, n
    <2>3. \/ looks' = "boundary" /\ k = 0 /\ b = 0
          \/ looks' = "crlf" /\ (k < n' \/ Whole') /\ b = m'
          \/ looks' = "headers" /\ k < n' /\ b = m' + 2
          \/ /\ looks' \in {"field", "file"} /\ k < n'
             /\ hdrs' = h' /\ (looks' = "field" <=> hdrs'[1] = "F") /\ position' = b /\ b = s'
      BY <1>1, <1>2, <2>1, <2>2
    <2> QED BY <2>3 DEF Stands, h, m, s, n
  <1>4. ASSUME NEW k \in 0..Len(form), ~failed, ~spoilt, Parsing(k) PROVE Parsing(k)'
    <2>1. Taken(k)'
      BY <1>1, <1>4, TakenStays, GotStays DEF Parsing
    <2>2. ~CutOff(k) /\ ~Over(k)
      <3>1. CutOff(k) => Len(Body!Needle) = 2
        BY DEF CutOff, Body!Needle, Body!CRLF
      <3>2. CutOff(k) => ~Body!ReadMore
        BY DEF CutOff, Body!ReadMore
      <3>3. CutOff(k) => ~Body!Pass
        <4>1. Len(in) \in Nat
          BY LenProperties DEF BodyInv, Text
        <4>2. Body!Pass => Len(in) >= Len(Body!Needle)
          BY DEF Body!Pass
        <4>3. CutOff(k) => Len(in) < 2
          BY DEF CutOff
        <4> QED BY <3>1, <4>1, <4>2, <4>3
      <3> QED BY <1>1, <3>2, <3>3 DEF Over
    <2>3. LooksFor(k)
      BY <1>4, <2>2 DEF Parsing
    <2>4. \A b : Searched(b) => Searched(b)'
      BY <1>4, SearchReads, SearchPasses
    <2>5. LooksFor(k)'
      <3>1. PICK b \in Nat : Stands(k, b) /\ Searched(b)
        BY <2>3 DEF LooksFor
      <3>2. Stands(k, b)' /\ Searched(b)'
        BY <1>3, <2>4, <3>1
      <3> QED BY <3>2 DEF LooksFor
    <2> QED BY <2>1, <2>5 DEF Parsing
  <1> QED BY <1>1, <1>2, <1>4 DEF PartsInv

\* A form has a part.
LEMMA FormHas == ASSUME Body!BodyAssumption, form \in Body!Forms PROVE Len(form) \in Nat /\ Len(form) >= 1
  <1>1. PICK i \in 1..MaxParts : form \in [1..i -> [kind : Kinds, data : Datas]]
    BY DEF Body!Forms
  <1>2. i \in Nat /\ i >= 1
    BY <1>1 DEF Body!BodyAssumption
  <1>3. Len(form) \in Nat /\ DOMAIN form = 1..Len(form)
    BY EncodedIs
  <1>4. DOMAIN form = 1..i
    BY <1>1
  <1>5. 1 \in 1..Len(form)
    BY <1>2, <1>3, <1>4
  <1> QED BY <1>3, <1>5

\* A file is added to the list.
LEMMA GotGrows ==
  ASSUME UNCHANGED body, files \in Seq(Listed), NEW new \in Listed, files' = Append(files, new)
  PROVE  Got' = Append(Got, Body!Content(new))
  <1> DEFINE l == Len(files)
             c == Body!Content(new)
  <1>1. \A f : Body!Content(f)' = Body!Content(f)
    BY DEF Body!Content, Body!Bytes
  <1>2. l \in Nat /\ DOMAIN files = 1..l /\ DOMAIN files' = 1..(l + 1)
    BY LenProperties, AppendProperties
  <1>3. files'[l + 1] = new /\ \A i \in 1..l : files'[i] = files[i]
    BY AppendProperties
  <1>4. Got' = [i \in 1..(l + 1) |-> Body!Content(files'[i])]
    BY <1>1, <1>2 DEF Got, Body!Content, Body!Bytes
  <1>5. Got = [i \in 1..l |-> Body!Content(files[i])]
    BY <1>2 DEF Got
  <1> HIDE DEF l, c
  <1>6. Got \in Seq({Body!Content(files[i]) : i \in 1..l}) /\ Len(Got) = l
    BY <1>2, <1>5
  <1>7. Append(Got, c) = [i \in 1..(l + 1) |-> IF i = l + 1 THEN c ELSE Got[i]]
    BY <1>2, <1>5, <1>6
  <1>8. \A i \in 1..(l + 1) : Body!Content(files'[i]) = IF i = l + 1 THEN c ELSE Got[i]
    BY <1>2, <1>3, <1>5 DEF c
  <1> QED BY <1>4, <1>7, <1>8 DEF c

\* The needle is there: what it is, and what the parser does.
LEMMA PartsFound ==
  ASSUME Body!BodyAssumption, BodyInv, PartsInv, Body!Found PROVE PartsInv'
  <1>1. UNCHANGED <<form, body, disk, offset, cursor, failed, spoilt>> /\ Body!Matches
    BY DEF Body!Found
  <1>2. FormLies' /\ Len(form)' = Len(form) /\ (Whole <=> Whole')
        /\ \A k : Mark(k)' = Mark(k) /\ StartOf(k)' = StartOf(k)
    BY <1>1, FormStays DEF PartsInv
  <1> SUFFICES ASSUME ~failed, NEW k \in 0..Len(form), Parsing(k)
               PROVE  ~spoilt' /\ \E j \in 0..Len(form) : Parsing(j)'
    BY <1>1, <1>2 DEF PartsInv, Body!Found, Body!Finding
  <1>3. ~spoilt' /\ looks # "done"
    BY <1>1 DEF PartsInv, Body!Found, Body!Finding
  <1>4. FormLies /\ form \in Body!Forms /\ body \in Text /\ Len(body) \in Nat
    BY LenProperties DEF PartsInv, FormLies, Text
  <1> DEFINE n == Len(form)
             w == Body!Needle
             m == Len(w)
  <1>5. ~CutOff(k) /\ ~Over(k)
    <2>1. CutOff(k) => Len(Body!Needle) = 2 /\ Len(in) < 2
      BY DEF CutOff, Body!Needle, Body!CRLF
    <2>2. Len(in) \in Nat /\ Len(in) >= Len(Body!Needle)
      BY LenProperties DEF BodyInv, Text, Body!Found
    <2> QED BY <1>3, <2>1, <2>2 DEF Over
  <1>6. PICK b \in Nat : Stands(k, b) /\ Searched(b)
    BY <1>5 DEF Parsing, LooksFor
  <1> DEFINE q == b + Len(found) + Body!FirstAt - 1
             data == found \o SubSeq(in, 1, Body!FirstAt - 1)
             rest == SubSeq(in, Body!FirstAt + Len(Body!Needle), Len(in))
             left == Len(rest)
  <1>7. /\ q \in Nat /\ FirstFrom(w, b, q) /\ olen + Body!FirstAt - 1 = q - b
        /\ data = SubSeq(body, b + 1, q) /\ Len(data) = q - b
        /\ rest \in Text /\ left \in Nat
        /\ Lies(body, rest, q + m) /\ q + m + left = offset
    BY <1>1, <1>6, SearchFinds
  <1>8. m \in Nat /\ n \in Nat /\ offset \in Nat /\ offset <= Len(body)
    BY <1>4, NeedleIs, Marks DEF BodyInv
  <1>9. /\ found' = <<>> /\ olen' = 0
        /\ in' = IF looks' = "done" THEN <<>> ELSE rest
    BY DEF Body!Found
  <1>a. /\ looks = "boundary" => looks' = "crlf" /\ UNCHANGED <<hdrs, position, args, files>>
        /\ looks = "crlf" => /\ looks' = IF left < 4 /\ Body!Left = 0 THEN "done" ELSE "headers"
                             /\ UNCHANGED <<hdrs, position, args, files>>
        /\ looks = "headers" => Body!ToHeader(Body!Headers(data), left) /\ UNCHANGED <<args, files>>
        /\ looks \in {"field", "file"} => Body!ToHeader(Tail(hdrs), left)
    BY DEF Body!Found
  <1>b. looks = "field" => /\ args' = IF Len(data) < 3 THEN args
                                      ELSE Append(args, SubSeq(data, 1, Len(data) - 2))
                           /\ UNCHANGED files
    BY DEF Body!Found
  <1> DEFINE many == olen + Body!FirstAt - 1
  <1>c. looks = "file" => /\ files' = IF many < 3 THEN files
                                      ELSE Append(files, [position |-> position,
                                                          length |-> many - 2, offset |-> 0])
                          /\ UNCHANGED args
    BY DEF Body!Found
  <1>d. /\ looks \in {"boundary", "field", "file"} => w = Body!Boundary /\ m = 2
        /\ looks = "crlf" => w = Body!CRLF /\ m = 2
        /\ looks = "headers" => w = Body!CRLF \o Body!CRLF /\ m = 4
    BY DEF Body!Needle, Body!Boundary, Body!CRLF
  <1>e. many = q - b
    BY <1>7
  <1> HIDE DEF data, rest, left, many, q, w, m, n
  <1>10. PICK z \in Nat : z = q + m /\ (looks' # "done" => Searched(z)')
    <2> DEFINE c == q + m
    <2>1. c \in Nat /\ c + 0 + left = offset /\ c + 0 = c
      BY <1>7, <1>8
    <2>2. PICK z \in Nat : z = c
      BY <2>1
    <2>6. ASSUME looks' # "done" PROVE Searched(z)'
      <3>3. <<>> \in Text /\ Len(<<>>) = 0 /\ Lies(body, <<>>, z)
        <4>1. z <= Len(body)
          BY <1>7, <1>8, <2>1, <2>2
        <4> QED BY <1>8, <2>2, <4>1 DEF Text, Lies
      <3>4. in' = rest /\ Lies(body, rest, z)
        BY <1>7, <1>9, <2>2, <2>6
      <3>5. /\ z \in Nat /\ found' \in Text /\ olen' = Len(found') /\ z + Len(found') + Len(in') = offset'
            /\ Lies(body', found', z) /\ Lies(body', in', z + Len(found'))
        <4>1. Len(in') = left
          BY <3>4 DEF left
        <4>2. z + 0 = z /\ z + 0 + left = offset
          BY <2>1, <2>2
        <4> QED BY <1>1, <1>9, <3>3, <3>4, <4>1, <4>2
      <3>1. \A j \in z..(z + Len(found') - 1) : FALSE
        BY <1>9, <3>3
      <3> QED BY <3>5, <3>1 DEF Searched
    <2> QED BY <2>2, <2>6
  <1>11. n >= 1 /\ Mark(0) = 2 /\ \A i \in 0..n : Mark(i) \in Nat
    BY <1>4, Marks, FormHas DEF n
  <1> DEFINE size == Len(body)
             more == Body!Left
  <1>f. /\ q \in Nat /\ left \in Nat /\ m \in Nat /\ offset \in Nat /\ size \in Nat
        /\ q + m + left = offset /\ offset <= size /\ more = size - offset
    BY <1>4, <1>7, <1>8 DEF Body!Left
  <1> HIDE DEF size, more
  <1>12. UNCHANGED <<args, files>> => Taken(k)'
    BY <1>1, TakenStays, GotStays DEF Parsing
  <1>13. ASSUME NEW i \in 0..n, Taken(i)', Stands(i, z)', looks' # "done"
         PROVE  \E j \in 0..Len(form) : Parsing(j)'
    <2>1. LooksFor(i)'
      BY <1>10, <1>13 DEF LooksFor
    <2> QED BY <1>13, <2>1 DEF Parsing, n
  <1>14. k \in 0..n /\ \A j \in 1..n : j - 1 \in 0..n
    BY <1>8 DEF n
  <1>15. ASSUME NEW i \in 0..n, Taken(i)', looks' = "done", Whole => i = n
         PROVE  \E j \in 0..Len(form) : Parsing(j)'
    <2>1. Over(i)'
      BY <1>2, <1>15 DEF Over, n
    <2> QED BY <1>15, <2>1 DEF Parsing, n
  <1>16. CASE looks = "boundary"
    <2>1. k = 0 /\ b = 0
      BY <1>6, <1>16 DEF Stands
    <2>2. q = 0
      <3>1. FirstFrom(Body!Boundary, 0, 0)
        BY <1>4, PlacesAre
      <3> QED BY <1>7, <1>d, <1>16, <2>1, <3>1, OnlyOne
    <2>3. z = Mark(0)
      BY <1>10, <1>11, <1>d, <1>16, <2>2
    <2>4. Stands(0, z)'
      <3>1. 0 < n
        BY <1>8, <1>11
      <3>2. looks' = "crlf" /\ 0 < Len(form)' /\ z = Mark(0)'
        BY <1>2, <1>a, <1>16, <2>3, <3>1 DEF n
      <3> QED BY <3>2 DEF Stands
    <2>5. Taken(0)' /\ looks' = "crlf"
      BY <1>a, <1>12, <1>16, <2>1
    <2> QED BY <1>3, <1>13, <1>14, <2>1, <2>4, <2>5
  <1>17. CASE looks = "crlf" /\ k < n
    <2>1. PICK j \in 1..n : j - 1 = k
      <3>1. k + 1 \in 1..n /\ (k + 1) - 1 = k
        BY <1>8, <1>14, <1>17
      <3> QED BY <3>1
    <2>2. b = Mark(k)
      BY <1>6, <1>17 DEF Stands
    <2>3. j \in 1..Len(form) /\ j - 1 = k /\ Mark(k) \in Nat
      BY <1>11, <1>14, <2>1 DEF n
    <2>4. q = Mark(k)
      <3>1. FirstFrom(Body!CRLF, Mark(k), Mark(k))
        BY <1>4, <2>3, PlacesAre
      <3> QED BY <1>7, <1>d, <1>17, <2>2, <2>3, <3>1, OnlyOne
    <2>5. looks' = "headers"
      <3> DEFINE r == Ends(form[j])
      <3>1. form[j] \in PartOf
        BY <1>4, <2>3, Marks
      <3>2. Len(r) \in Nat /\ Len(r) >= 4
        <4>1. Len(r) = Len(form[j].kind) + 4 /\ Len(form[j].kind) \in Nat
          BY <3>1, PieceIsText
        <4> HIDE DEF r
        <4> QED BY <4>1
      <3>3. Lies(body, r, Mark(k) + 2)
        BY <1>4, <2>3 DEF FormLies
      <3>4. Mark(k) + 2 + Len(r) <= size
        BY <3>3 DEF Lies, size
      <3> HIDE DEF r
      <3>5. m = 2
        BY <1>d, <1>17
      <3>6. ~(left < 4 /\ more = 0)
        BY <1>f, <2>3, <2>4, <3>2, <3>4, <3>5
      <3> QED BY <1>a, <1>17, <3>6 DEF more
    <2>6. Stands(k, z)'
      <3>1. looks' = "headers" /\ k < Len(form)' /\ z = Mark(k)' + 2
        BY <1>2, <1>10, <1>d, <1>17, <2>4, <2>5 DEF n
      <3> QED BY <3>1 DEF Stands
    <2>7. Taken(k)'
      BY <1>a, <1>12, <1>17
    <2> QED BY <1>3, <1>13, <1>14, <2>5, <2>6, <2>7
  <1>18. CASE looks = "crlf" /\ ~(k < n)
    <2>1. k = n /\ Whole /\ b = Mark(n)
      BY <1>6, <1>8, <1>14, <1>18 DEF Stands, n
    <2>2. q = Mark(n) + 2
      <3>1. FirstFrom(Body!CRLF, Mark(n), Mark(n) + 2)
        BY <1>4, <2>1, PlacesAre DEF n
      <3>2. Mark(n) \in Nat /\ Mark(n) + 2 \in Nat
        BY <1>8, <1>11
      <3> QED BY <1>7, <1>d, <1>18, <2>1, <3>1, <3>2, OnlyOne
    <2>3. size = Mark(n) + 4 /\ Mark(n) \in Nat
      BY <1>4, <1>8, <1>11, <2>1 DEF FormLies, n, size
    <2>4. m = 2
      BY <1>d, <1>18
    <2> DEFINE p == Mark(n)
    <2>a. q = p + 2 /\ size = p + 4 /\ p \in Nat
      BY <2>2, <2>3
    <2> HIDE DEF p
    <2>5. left < 4 /\ more = 0
      BY <1>f, <2>a, <2>4
    <2>6. looks' = "done" /\ Taken(k)'
      BY <1>a, <1>12, <1>18, <2>5 DEF more
    <2> QED BY <1>3, <1>14, <1>15, <2>1, <2>6
  <1>19. CASE looks = "headers"
    <2>1. k < n /\ b = Mark(k) + 2
      BY <1>6, <1>19 DEF Stands, n
    <2>2. PICK j \in 1..n : j - 1 = k /\ j = k + 1
      <3>1. k + 1 \in 1..n /\ (k + 1) - 1 = k
        BY <1>8, <1>14, <2>1
      <3> QED BY <3>1
    <2>3. j \in 1..Len(form) /\ j - 1 = k /\ Mark(k) \in Nat
      BY <1>11, <1>14, <2>2 DEF n
    <2>4. StartOf(j) \in Nat /\ StartOf(j) - 4 \in Nat
      <3>1. StartOf(j) = Mark(j - 1) + 6 + Len(form[j].kind) /\ Len(form[j].kind) \in Nat
        BY <1>4, <2>3, Marks
      <3> QED BY <2>3, <3>1
    <2>5. q = StartOf(j) - 4
      <3>1. FirstFrom(Body!CRLF \o Body!CRLF, Mark(k) + 2, StartOf(j) - 4)
        BY <1>4, <2>3, PlacesAre
      <3> QED BY <1>7, <1>d, <1>19, <2>1, <2>4, <3>1, OnlyOne
    <2>6. z = StartOf(j)
      BY <1>10, <1>d, <1>19, <2>4, <2>5
    <2>7. data = form[j].kind
      <3>1. SubSeq(body, (Mark(k) + 2) + 1, StartOf(j) - 4) = form[j].kind
        BY <1>4, <2>3, PlacesAre
      <3> QED BY <1>7, <2>1, <2>5, <3>1
    <2> DEFINE h == Body!Headers(form[j].kind)
    <2>8. h \in {<<"F">>, <<"P">>}
      <3>1. form[j] \in PartOf
        BY <1>4, <2>3, Marks
      <3>2. form[j].kind \in Kinds
        BY <3>1 DEF PartOf
      <3> QED BY <3>2 DEF Body!BodyAssumption
    <2>9. /\ hdrs' = h /\ position' = offset - left
          /\ looks' = IF h = <<>> THEN "crlf" ELSE IF h[1] = "F" THEN "field" ELSE "file"
      BY <1>a, <1>19, <2>7 DEF Body!ToHeader
    <2>10. h' = h
      <3>1. form' = form
        BY <1>1
      <3> QED BY <3>1
    <2> HIDE DEF h
    <2>11. looks' \in {"field", "file"} /\ (looks' = "field" <=> h[1] = "F")
      BY <2>8, <2>9
    <2>12. position' = z
      BY <1>7, <1>8, <1>10, <2>9
    <2>13. Stands(k, z)'
      <3>1. looks' \in {"field", "file"} /\ k < Len(form)' /\ position' = z /\ z = StartOf(j)'
        BY <1>2, <2>1, <2>6, <2>11, <2>12 DEF n
      <3>2. hdrs' = h' /\ (looks' = "field" <=> hdrs'[1] = "F")
        BY <2>9, <2>10, <2>11
      <3>3. hdrs' = Body!Headers(form[k + 1].kind)' /\ z = StartOf(k + 1)'
        BY <2>2, <3>1, <3>2 DEF h
      <3> QED BY <3>1, <3>2, <3>3 DEF Stands
    <2>14. Taken(k)'
      BY <1>a, <1>12, <1>19
    <2> QED BY <1>3, <1>13, <1>14, <2>11, <2>13, <2>14
  <1>20. CASE looks \in {"field", "file"}
    <2>1. k < n /\ hdrs = Body!Headers(form[k + 1].kind) /\ (looks = "field" <=> hdrs[1] = "F")
          /\ position = b /\ b = StartOf(k + 1)
      BY <1>6, <1>20 DEF Stands, n
    <2>2. PICK j \in 1..n : j - 1 = k /\ j = k + 1
      <3>1. k + 1 \in 1..n /\ (k + 1) - 1 = k
        BY <1>8, <1>14, <2>1
      <3> QED BY <3>1
    <2>3. j \in 1..Len(form) /\ b = StartOf(j) /\ hdrs = Body!Headers(form[j].kind) /\ j \in 0..n
      BY <1>8, <2>1, <2>2 DEF n
    <2> DEFINE c == form[j].data
               l == Len(c)
    <2>4. /\ form[j] \in PartOf /\ l \in Nat /\ Mark(j) = StartOf(j) + l + 4
          /\ StartOf(j) \in Nat /\ Mark(j) \in Nat
      BY <1>4, <2>3, Marks
    <2>5. j < n \/ Whole
      <3>1. Lies(body, Body!Boundary, q) /\ q >= StartOf(j) /\ q \in Nat
        BY <1>7, <1>d, <1>20, <2>3, <2>4 DEF FirstFrom
      <3> QED BY <1>4, <2>3, <3>1, PlacesAre DEF n
    <2>6. SubSeq(body, b + 1, b + l) = c
      BY <1>4, <2>3, PlacesAre
    <2>7. c \in Text
      BY <2>4, PieceIsText
    <2> HIDE DEF l
    <2>8. q = Mark(j) - 2 /\ z = Mark(j) /\ q - b = l + 2
      <3>1. FirstFrom(Body!Boundary, StartOf(j), Mark(j) - 2)
        BY <1>4, <2>3, <2>5, PlacesAre DEF n
      <3>2. Mark(j) - 2 \in Nat
        BY <2>4
      <3>3. q = Mark(j) - 2
        BY <1>7, <1>d, <1>20, <2>3, <3>1, <3>2, OnlyOne
      <3>4. m = 2 /\ b = StartOf(j) /\ StartOf(j) \in Nat /\ l \in Nat
        BY <1>d, <1>20, <2>3, <2>4
      <3>5. q - b = l + 2 /\ q + 2 = Mark(j)
        BY <2>4, <3>3, <3>4
      <3> QED BY <1>10, <3>3, <3>4, <3>5
    <2>19. b + (l + 2) <= size /\ b + l <= size /\ q = b + (l + 2)
      <3>1. m = 2
        BY <1>d, <1>20
      <3>2. l \in Nat /\ q - b = l + 2 /\ b \in Nat
        BY <2>4, <2>8
      <3> QED BY <1>f, <3>1, <3>2
    <2>9. SubSeq(data, 1, l) = c
      <3> DEFINE d == SubSeq(data, 1, l)
      <3>1. /\ data \in Text /\ Len(data) = l + 2 /\ Lies(body, data, b)
        <4>1. body \in Seq(Read) /\ b + (l + 2) <= Len(body) /\ q = b + (l + 2) /\ l + 2 \in Nat
          BY <1>4, <2>4, <2>19 DEF Text, size
        <4>2. PICK v \in Nat : v = l + 2
          BY <4>1
        <4>3. body \in Text /\ b \in Nat /\ v \in Nat /\ b + v <= Len(body)
          BY <1>4, <4>1, <4>2, <2>3, <2>4
        <4>4. /\ SubSeq(body, b + 1, b + v) \in Text /\ Len(SubSeq(body, b + 1, b + v)) = v
              /\ Lies(body, SubSeq(body, b + 1, b + v), b)
          BY <4>3, TextPiece
        <4> QED BY <1>7, <4>1, <4>2, <4>4
      <3>2. d \in Text /\ Len(d) = l /\ Lies(body, d, b)
        <4>1. l \in 0..Len(data)
          BY <2>4, <3>1
        <4> QED BY <1>4, <3>1, <4>1, LiesSplit
      <3>3. Lies(body, c, b) /\ Len(c) = l
        <4>1. body \in Seq(Read) /\ b + l <= Len(body)
          BY <1>4, <2>19 DEF Text, size
        <4>2. Lies(body, SubSeq(body, b + 1, b + l), b)
          BY <2>4, <4>1, LiesPiece
        <4> QED BY <2>6, <4>2 DEF l
      <3> HIDE DEF d, c
      <3>4. body \in Seq(Read) /\ d \in Seq(Read) /\ c \in Seq(Read)
        BY <1>4, <2>7, <3>2 DEF Text
      <3>5. d = c
        BY <3>2, <3>3, <3>4, LiesSame
      <3> QED BY <3>5 DEF d
    <2> DEFINE h == Body!Headers(form[j].kind)
    <2>10. h \in {<<"F">>, <<"P">>} /\ hdrs = h
      <3>1. form[j].kind \in Kinds
        BY <2>4 DEF PartOf
      <3> QED BY <2>3, <3>1 DEF Body!BodyAssumption
    <2>11. looks = "field" <=> h = <<"F">>
      <3> HIDE DEF h
      <3> QED BY <2>1, <2>10
    <2>12. looks' = "crlf"
      <3> HIDE DEF h
      <3>1. Tail(hdrs) = <<>>
        <4>1. Tail(<<"F">>) = <<>>
          OBVIOUS
        <4>2. Tail(<<"P">>) = <<>>
          OBVIOUS
        <4> QED BY <2>10, <4>1, <4>2, Zenon
      <3> QED BY <1>a, <1>20, <3>1 DEF Body!ToHeader
    <2>13. Stands(j, z)'
      <3>1. looks' = "crlf" /\ (j < Len(form)' \/ Whole') /\ z = Mark(j)'
        BY <1>2, <2>5, <2>8, <2>12 DEF n
      <3> QED BY <3>1 DEF Stands
    <2>14. Has(args, "F", k) /\ Has(Got, "P", k)
      BY DEF Parsing, Taken
    <2>15. /\ IF Takes("F", j) THEN Has(Append(args, c), "F", j) ELSE Has(args, "F", j)
           /\ IF Takes("P", j) THEN Has(Append(Got, c), "P", j) ELSE Has(Got, "P", j)
      BY <1>4, <2>2, <2>3, <2>14, HasNext
    <2>16. /\ Takes("F", j) <=> looks = "field" /\ l > 0
           /\ Takes("P", j) <=> looks = "file" /\ l > 0
      <3>1. c # <<>> <=> l > 0
        <4> HIDE DEF c
        <4> QED BY <2>4, <2>7, EmptySeq DEF Text, l
      <3>2. /\ Takes("F", j) <=> h = <<"F">> /\ c # <<>>
            /\ Takes("P", j) <=> h = <<"P">> /\ c # <<>>
        BY DEF Takes
      <3> HIDE DEF h, c
      <3> QED BY <1>20, <2>10, <2>11, <3>1, <3>2
    <2>17. Has(args', "F", j) /\ Has(Got', "P", j)
      <3> HIDE DEF c
      <3>1. Len(data) = l + 2 /\ many = l + 2 /\ (l > 0 <=> ~(l + 2 < 3)) /\ (l + 2) - 2 = l
        <4>1. l \in Nat /\ q - b = l + 2
          BY <2>4, <2>8
        <4>2. Len(data) = l + 2 /\ many = l + 2
          BY <1>7, <1>e, <4>1
        <4> QED BY <4>1, <4>2
      <3>2. CASE looks = "field"
        <4>1. Got' = Got
          BY <1>1, <1>b, <3>2, GotStays
        <4>2. args' = IF l > 0 THEN Append(args, c) ELSE args
          BY <1>b, <2>9, <3>1, <3>2
        <4> QED BY <2>15, <2>16, <3>2, <4>1, <4>2
      <3>3. CASE looks = "file"
        <4>1. args' = args
          BY <1>c, <3>3
        <4>2. Got' = IF l > 0 THEN Append(Got, c) ELSE Got
          <5>1. CASE l > 0
            <6> DEFINE new == [position |-> position, length |-> many - 2, offset |-> 0]
            <6>1. files' = Append(files, new)
              BY <1>c, <3>1, <3>3, <5>1
            <6>2. new = [position |-> b, length |-> l, offset |-> 0]
              BY <2>1, <3>1
            <6>3. new \in Listed
              BY <1>6, <2>4, <6>2 DEF Listed
            <6>4. Body!Content(new) = c
              <7>1. new.position = b /\ new.length = l
                BY <6>2
              <7>2. b + l <= Len(body)
                BY <2>19 DEF size
              <7>3. Body!Bytes(b, l) = SubSeq(body, b + 1, b + l)
                BY <1>4, <2>4, <7>2, BytesAre
              <7> QED BY <2>6, <7>1, <7>3 DEF Body!Content, c
            <6> HIDE DEF new
            <6>5. Got' = Append(Got, Body!Content(new))
              BY <1>1, <6>1, <6>3, GotGrows DEF BodyInv
            <6> QED BY <5>1, <6>4, <6>5
          <5>2. CASE ~(l > 0)
            <6>1. files' = files
              BY <1>c, <3>1, <3>3, <5>2
            <6> QED BY <1>1, <5>2, <6>1, GotStays
          <5> QED BY <5>1, <5>2
        <4> QED BY <2>15, <2>16, <3>3, <4>1, <4>2
      <3> QED BY <1>20, <3>2, <3>3
    <2>18. Taken(j)'
      <3>1. PICK s, t : s = args' /\ t = Got'
        OBVIOUS
      <3>2. Has(s, "F", j)' /\ Has(t, "P", j)'
        BY <1>1, <2>17, <3>1, FormStays
      <3>3. Has(args, "F", j)' /\ Has(Got, "P", j)'
        <4> DEFINE a == args
                   g == Got
        <4>1. s = a' /\ t = g'
          BY <3>1
        <4> HIDE DEF g
        <4>2. Has(a, "F", j)' /\ Has(g, "P", j)'
          BY <3>2, <4>1 DEF Has
        <4> QED BY <4>2 DEF g
      <3> QED BY <3>3 DEF Taken
    <2> QED BY <1>3, <1>13, <2>3, <2>12, <2>13, <2>18
  <1>21. looks \in {"boundary", "crlf", "headers", "field", "file"}
    BY DEF Body!Found, Body!Finding
  <1> QED BY <1>3, <1>16, <1>17, <1>18, <1>19, <1>20, <1>21

\* The body has ended, or cannot be read.
LEMMA PartsNotFound ==
  ASSUME Body!BodyAssumption, BodyInv, PartsInv, Body!NotFound PROVE PartsInv'
  <1>1. UNCHANGED <<form, body, offset, args, files, spoilt>>
    BY DEF Body!NotFound
  <1>2. FormLies' /\ Len(form)' = Len(form) /\ (Whole <=> Whole')
    BY <1>1, FormStays DEF PartsInv
  <1> SUFFICES ASSUME ~failed' PROVE (looks' # "done" => ~spoilt') /\ \E j \in 0..Len(form) : Parsing(j)'
    BY <1>2 DEF PartsInv
  <1>3. Body!Left = 0 /\ ~failed
    BY DEF Body!NotFound
  <1>4. PICK k \in 0..Len(form) : Parsing(k)
    BY <1>3 DEF PartsInv
  <1>5. ~spoilt' /\ looks # "done"
    BY <1>1, <1>3 DEF PartsInv, Body!NotFound, Body!Finding
  <1>6. FormLies /\ form \in Body!Forms /\ Len(form) \in Nat
    BY Marks DEF PartsInv, FormLies
  <1>7. Taken(k)'
    BY <1>1, <1>4, TakenStays, GotStays DEF Parsing
  <1>8. CASE CutOff(k)
    <2>1. looks = "crlf" /\ ~Whole
      BY <1>8 DEF CutOff
    <2>2. looks' = "done"
      BY <2>1 DEF Body!NotFound
    <2>3. Over(k)'
      BY <1>2, <2>1, <2>2 DEF Over
    <2> QED BY <1>4, <1>5, <1>7, <2>3 DEF Parsing
  <1>9. CASE LooksFor(k)
    <2> DEFINE n == Len(form)
    <2>1. PICK b \in Nat : Stands(k, b) /\ Searched(b)
      BY <1>9 DEF LooksFor
    <2>2. \A j \in Nat : j >= b => ~Lies(body, Body!Needle, j)
      BY <1>3, <2>1, SearchFails DEF Body!NotFound
    <2>3. ASSUME NEW q \in Nat, FirstFrom(Body!Needle, b, q) PROVE FALSE
      BY <2>2, <2>3 DEF FirstFrom
    <2>4. looks # "boundary"
      <3>1. looks = "boundary" => b = 0 /\ Body!Needle = Body!Boundary
        BY <2>1 DEF Stands, Body!Needle
      <3>2. FirstFrom(Body!Boundary, 0, 0)
        BY <1>6, PlacesAre
      <3> QED BY <2>3, <3>1, <3>2
    <2>5. \A i \in 0..n : Mark(i) \in Nat
      BY <1>6, Marks
    <2>6. looks = "crlf" => b = Mark(k) /\ (k < n \/ Whole) /\ Body!Needle = Body!CRLF
      BY <2>1 DEF Stands, Body!Needle
    <2>7. ASSUME k < n
          PROVE  \E j \in 1..n : j = k + 1 /\ j - 1 = k
      BY <1>4, <1>6, <2>7
    <2>8. ~(looks = "crlf" /\ k < n)
      <3> SUFFICES ASSUME looks = "crlf", k < n PROVE FALSE
        OBVIOUS
      <3>1. PICK j \in 1..n : j = k + 1 /\ j - 1 = k
        BY <2>7
      <3>2. FirstFrom(Body!CRLF, Mark(k), Mark(k))
        BY <1>6, <3>1, PlacesAre
      <3> QED BY <1>4, <2>3, <2>5, <2>6, <3>2
    <2>9. looks # "crlf"
      <3> SUFFICES ASSUME looks = "crlf" PROVE FALSE
        OBVIOUS
      <3>1. Whole /\ k = n
        BY <1>4, <1>6, <2>6, <2>8
      <3>2. FirstFrom(Body!CRLF, Mark(n), Mark(n) + 2)
        BY <1>6, <3>1, PlacesAre
      <3>3. Mark(n) + 2 \in Nat
        BY <1>6, <2>5
      <3> QED BY <2>3, <2>6, <3>1, <3>2, <3>3
    <2>10. looks # "headers"
      <3> SUFFICES ASSUME looks = "headers" PROVE FALSE
        OBVIOUS
      <3>1. b = Mark(k) + 2 /\ k < n /\ Body!Needle = Body!CRLF \o Body!CRLF
        BY <2>1 DEF Stands, Body!Needle
      <3>2. PICK j \in 1..n : j = k + 1 /\ j - 1 = k
        BY <2>7, <3>1
      <3>3. FirstFrom(Body!CRLF \o Body!CRLF, Mark(k) + 2, StartOf(j) - 4)
        BY <1>6, <3>2, PlacesAre
      <3>4. StartOf(j) - 4 \in Nat
        <4>1. StartOf(j) = Mark(j - 1) + 6 + Len(form[j].kind) /\ Len(form[j].kind) \in Nat
          BY <1>6, Marks
        <4>2. Mark(j - 1) \in Nat
          BY <1>4, <2>5, <3>2
        <4> QED BY <4>1, <4>2
      <3> QED BY <2>3, <3>1, <3>3, <3>4
    <2>11. looks \in {"field", "file"} /\ k < n /\ b = StartOf(k + 1)
           /\ hdrs = Body!Headers(form[k + 1].kind) /\ Body!Needle = Body!Boundary
      BY <2>1, <2>4, <2>9, <2>10 DEF Stands, Body!Needle
    <2>12. PICK j \in 1..n : j = k + 1 /\ j - 1 = k
      BY <2>7, <2>11
    <2>13. form[j] \in PartOf /\ StartOf(j) \in Nat /\ Mark(j) - 2 \in Nat
      <3>1. /\ form[j] \in PartOf /\ StartOf(j) \in Nat /\ Len(form[j].data) \in Nat
            /\ Mark(j) = StartOf(j) + Len(form[j].data) + 4
        BY <1>6, Marks
      <3> QED BY <3>1
    <2>14. ~Whole
      <3>1. Whole => FirstFrom(Body!Boundary, StartOf(j), Mark(j) - 2)
        BY <1>6, PlacesAre
      <3> QED BY <2>3, <2>11, <2>12, <2>13, <3>1
    <2>15. looks' = "crlf"
      <3> DEFINE h == Body!Headers(form[j].kind)
      <3>1. h \in {<<"F">>, <<"P">>}
        <4>1. form[j].kind \in Kinds
          BY <2>13 DEF PartOf
        <4> QED BY <4>1 DEF Body!BodyAssumption
      <3>2. hdrs = h
        BY <2>11, <2>12
      <3> HIDE DEF h
      <3>3. Tail(hdrs) = <<>>
        <4>1. Tail(<<"F">>) = <<>>
          OBVIOUS
        <4>2. Tail(<<"P">>) = <<>>
          OBVIOUS
        <4> QED BY <3>1, <3>2, <4>1, <4>2, Zenon
      <3>4. Body!ToHeader(Tail(hdrs), Len(in))
        BY <2>11 DEF Body!NotFound
      <3> QED BY <3>3, <3>4 DEF Body!ToHeader
    <2>16. CutOff(k)'
      <3>1. in' = in /\ Len(in) < Len(Body!Boundary)
        BY <2>11, <2>15 DEF Body!NotFound
      <3>2. Len(Body!Boundary) = 2
        BY DEF Body!Boundary
      <3>3. Body!Left' = 0
        BY <1>1, <1>3 DEF Body!Left
      <3> QED BY <1>2, <2>14, <2>15, <3>1, <3>2, <3>3 DEF CutOff
    <2> QED BY <1>4, <1>5, <1>7, <2>16 DEF Parsing
  <1> QED BY <1>4, <1>5, <1>8, <1>9 DEF Parsing, Over

\* The page reads.
LEMMA PartsDone ==
  ASSUME PartsInv, looks = "done", UNCHANGED <<form, body, looks, args, failed>>, Got' = Got
  PROVE  PartsInv'
  <1>1. FormLies' /\ Len(form)' = Len(form) /\ (Whole <=> Whole')
    BY FormStays DEF PartsInv
  <1>2. ASSUME NEW k, Parsing(k) PROVE Parsing(k)'
    <2>1. Taken(k)'
      BY <1>2, TakenStays DEF Parsing
    <2>2. Over(k)
      BY <1>2 DEF Parsing, LooksFor, CutOff, Stands
    <2>3. Over(k)'
      BY <1>1, <2>2 DEF Over
    <2> QED BY <2>1, <2>3 DEF Parsing
  <1>3. ~failed' => \E k \in 0..Len(form)' : Parsing(k)'
    BY <1>1, <1>2 DEF PartsInv
  <1> QED BY <1>1, <1>3 DEF PartsInv

LEMMA GotMoves ==
  ASSUME BodyInv, UNCHANGED body, NEW i \in DOMAIN files, NEW k \in Nat, k <= files[i].length,
         files' = [files EXCEPT ![i].offset = k]
  PROVE  Got' = Got
  <1>1. /\ DOMAIN files' = DOMAIN files
        /\ \A j \in DOMAIN files : Body!Content(files'[j]) = Body!Content(files[j])
    BY FileMoves
  <1>2. \A f : Body!Content(f)' = Body!Content(f)
    BY DEF Body!Content, Body!Bytes
  <1>3. Got' = [j \in DOMAIN files |-> Body!Content(files'[j])]
    BY <1>1, <1>2 DEF Got, Body!Content, Body!Bytes
  <1> QED BY <1>1, <1>3 DEF Got

LEMMA PartsPage ==
  ASSUME Body!BodyAssumption, BodyInv, PartsInv,
         \/ \E i \in DOMAIN files : Body!FileRewind(i) \/ \E n \in {1, 3} : Body!FileRead(i, n)
         \/ \E n \in {1, 3} : Body!BodyRead(n)
         \/ Body!BodyRewind \/ Body!PopulatePost
  PROVE  PartsInv'
  <1>1. looks = "done" /\ UNCHANGED <<form, body, looks, args, failed>>
    BY DEF Body!FileRewind, Body!FileRead, Body!BodyRead, Body!BodyRewind, Body!PopulatePost,
           Body!PageReads, Body!Rest, Body!find
  <1>2. CASE UNCHANGED files
    BY <1>1, <1>2, PartsDone, GotStays
  <1>3. ASSUME NEW i \in DOMAIN files, Body!FileRewind(i) PROVE PartsInv'
    <2>1. files' = [files EXCEPT ![i].offset = 0]
      BY <1>3 DEF Body!FileRewind
    <2>2. 0 <= files[i].length
      BY ElementOfSeq DEF BodyInv, Listed
    <2> QED BY <1>1, <2>1, <2>2, GotMoves, PartsDone
  <1>4. ASSUME NEW i \in DOMAIN files, NEW n \in {1, 3}, Body!FileRead(i, n) PROVE PartsInv'
    <2> DEFINE f == files[i]
        most == IF n < f.length - f.offset THEN n ELSE f.length - f.offset
    <2>1. PICK k \in (IF disk /\ most > 0 THEN 1..most ELSE {most}) :
            files' = [files EXCEPT ![i].offset = @ + k]
      BY <1>4 DEF Body!FileRead
    <2>2. f.length \in Nat /\ f.offset \in Nat /\ f.offset <= f.length
      BY ElementOfSeq DEF BodyInv, Listed
    <2> HIDE DEF f
    <2>3. k \in Nat /\ f.offset + k \in Nat /\ f.offset + k <= f.length
      BY <2>1, <2>2
    <2>4. files' = [files EXCEPT ![i].offset = f.offset + k]
      BY <2>1 DEF f
    <2>5. PICK v \in Nat : v = f.offset + k
      BY <2>3
    <2>6. files' = [files EXCEPT ![i].offset = v] /\ v <= files[i].length
      BY <2>3, <2>4, <2>5 DEF f
    <2> QED BY <1>1, <2>6, GotMoves, PartsDone
  <1>5. \/ UNCHANGED files
        \/ \E i \in DOMAIN files : Body!FileRewind(i) \/ \E n \in {1, 3} : Body!FileRead(i, n)
    BY DEF Body!BodyRead, Body!BodyRewind, Body!PopulatePost
  <1> QED BY <1>2, <1>3, <1>4, <1>5

LEMMA PartsStep ==
  ASSUME Body!BodyAssumption, BodyInv, PartsInv, [Body!Next]_Body!vars PROVE PartsInv'
  <1>1. CASE Body!ReadMore \/ Body!Pass
    BY <1>1, PartsRead
  <1>2. CASE Body!Found
    BY <1>2, PartsFound
  <1>3. CASE Body!NotFound
    BY <1>3, PartsNotFound
  <1>4. CASE \/ \E i \in DOMAIN files : Body!FileRewind(i) \/ \E n \in {1, 3} : Body!FileRead(i, n)
             \/ \E n \in {1, 3} : Body!BodyRead(n)
             \/ Body!BodyRewind \/ Body!PopulatePost
    BY <1>4, PartsPage
  <1>5. CASE UNCHANGED Body!vars
    <2>1. UNCHANGED <<form, body, offset, in, found, olen, looks, hdrs, position, args, files,
                      failed, spoilt>>
      BY <1>5 DEF Body!vars, Body!find
    <2>2. FormLies' /\ Len(form)' = Len(form) /\ (Whole <=> Whole')
          /\ \A k : Mark(k)' = Mark(k) /\ StartOf(k)' = StartOf(k)
      BY <2>1, FormStays DEF PartsInv
    <2>3. ASSUME NEW k, Parsing(k) PROVE Parsing(k)'
      <3>1. Taken(k)'
        BY <2>1, <2>3, TakenStays, GotStays DEF Parsing
      <3>2. ASSUME NEW b, Stands(k, b) PROVE Stands(k, b)'
        <4> DEFINE h == Body!Headers(form[k + 1].kind)
                   m == Mark(k)
                   s == StartOf(k + 1)
                   n == Len(form)
        <4>1. h' = h /\ m' = m /\ s' = s /\ n' = n
          BY <2>1, <2>2
        <4>2. \/ looks = "boundary" /\ k = 0 /\ b = 0
              \/ looks = "crlf" /\ (k < n \/ Whole) /\ b = m
              \/ looks = "headers" /\ k < n /\ b = m + 2
              \/ /\ looks \in {"field", "file"} /\ k < n
                 /\ hdrs = h /\ (looks = "field" <=> hdrs[1] = "F") /\ position = b /\ b = s
          BY <3>2 DEF Stands
        <4> HIDE DEF h, m, s, n
        <4>3. \/ looks' = "boundary" /\ k = 0 /\ b = 0
              \/ looks' = "crlf" /\ (k < n' \/ Whole') /\ b = m'
              \/ looks' = "headers" /\ k < n' /\ b = m' + 2
              \/ /\ looks' \in {"field", "file"} /\ k < n'
                 /\ hdrs' = h' /\ (looks' = "field" <=> hdrs'[1] = "F") /\ position' = b /\ b = s'
          BY <2>1, <2>2, <4>1, <4>2
        <4> QED BY <4>3 DEF Stands, h, m, s, n
      <3>3. ASSUME NEW b, Searched(b) PROVE Searched(b)'
        <4>1. Body!Needle' = Body!Needle
          BY <2>1 DEF Body!Needle
        <4> DEFINE w == Body!Needle
        <4>2. \A j \in b..(b + Len(found) - 1) : ~Lies(body, w, j)
          BY <3>3 DEF Searched
        <4>3. w' = w
          BY <4>1
        <4> HIDE DEF w
        <4>4. \A j \in b..(b + Len(found') - 1) : ~Lies(body', w', j)
          BY <2>1, <4>2, <4>3
        <4> QED BY <2>1, <3>3, <4>4 DEF Searched, w
      <3>4. LooksFor(k) => LooksFor(k)'
        BY <3>2, <3>3 DEF LooksFor
      <3>5. CutOff(k) => CutOff(k)'
        BY <2>1, <2>2 DEF CutOff, Body!Left
      <3>6. Over(k) => Over(k)'
        BY <2>1, <2>2 DEF Over
      <3> QED BY <2>3, <3>1, <3>4, <3>5, <3>6 DEF Parsing
    <2>4. ~failed' => (looks' # "done" => ~spoilt') /\ \E k \in 0..Len(form)' : Parsing(k)'
      BY <2>1, <2>2, <2>3 DEF PartsInv
    <2> QED BY <2>2, <2>4 DEF PartsInv
  <1> QED BY <1>1, <1>2, <1>3, <1>4, <1>5 DEF Body!Next

LEMMA PartsInvArrive == ASSUME Body!BodyAssumption, PartsInv PROVE Body!PartsArrive
  <1> SUFFICES ASSUME ~failed
      PROVE /\ Body!IsPrefix(args, Body!Sent("F")) /\ Body!IsPrefix(Got, Body!Sent("P"))
            /\ looks = "done" /\ Whole => args = Body!Sent("F") /\ Got = Body!Sent("P")
    BY DEF Body!PartsArrive, Got, Whole
  <1>1. PICK k \in 0..Len(form) : Parsing(k)
    BY DEF PartsInv
  <1>2. Has(args, "F", k) /\ Has(Got, "P", k) /\ form \in Body!Forms
    BY <1>1 DEF Parsing, Taken, PartsInv, FormLies
  <1>3. /\ Body!IsPrefix(args, Body!Sent("F")) /\ (k = Len(form) => args = Body!Sent("F"))
        /\ Body!IsPrefix(Got, Body!Sent("P")) /\ (k = Len(form) => Got = Body!Sent("P"))
    BY <1>2, HasPrefix
  <1>4. looks = "done" /\ Whole => k = Len(form)
    BY <1>1 DEF Parsing, LooksFor, CutOff, Stands, Over
  <1> QED BY <1>3, <1>4
-----------------------------------------------------------------------------
(* Requests: the fields and files of a form arrive as they were sent,      *)
(* however the body is cut into reads; of a body that ends without its     *)
(* last boundary, those before the last part.  And a page reads the bytes  *)
(* of a file and of the body in order (multipart_find_data,                *)
(* multipart_add_field, multipart_file_add, http_body_read,                *)
(* http_file_read).                                                        *)
THEOREM BodyStaysRight ==
  ASSUME Body!BodyAssumption PROVE BodySpec => []BodyArrives
<1>1. Body!Init => BodyInv /\ PartsInv
  BY BodyBegins, PartsBegin
<1>2. BodyInv /\ PartsInv /\ [Body!Next]_Body!vars => (BodyInv /\ PartsInv)'
  BY BodyStep, PartsStep
<1>3. BodyInv /\ PartsInv => BodyArrives
  BY BodyInvReads, PartsInvArrive DEF BodyArrives
<1>4. [BodyNext]_<<part, bodyVars>> => [Body!Next]_Body!vars
  BY DEF BodyNext, bodyVars, Body!vars, Body!find
<1> QED BY <1>1, <1>2, <1>3, <1>4, PTL DEF BodySpec
=============================================================================
