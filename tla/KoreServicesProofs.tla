-------------------------- MODULE KoreServicesProofs --------------------------
(* Theorems about KorePgsql, for all requests, databases and limits, and    *)
(* below about KoreTasks, KoreTimers, KorePython and KoreFiles.            *)
EXTENDS KorePgsql, ListFacts

Step == {"none", "init", "query", "wait", "read", "error", "done", "ended"}

Types ==
  /\ name \in [Conns -> Dbs \cup {None}] /\ job \in [Conns -> Users \cup {None}]
  /\ coming \in [Conns -> Seq(Result)] /\ inerror \in [Conns -> BOOLEAN]
  /\ free \in Seq(Conns) /\ count \in [Dbs -> Nat]
  /\ pstate \in [Users -> {"init", "wait", "result", "done", "error", "complete"}]
  /\ pconn \in [Users -> Conns \cup {None}]
  /\ queue \in Seq(Users)
  /\ fsm \in [Users -> Step] /\ asleep \in [Users -> BOOLEAN]
  /\ gone \in [Users -> BOOLEAN]
  /\ running \in Users \cup {None} /\ woken \in SUBSET Users /\ missed \in BOOLEAN

Of(d)        == {c \in Conns : name[c] = d}

\* A connection that is there is free or has a job, and its request has it.
PoolInv ==
  /\ \A c \in Conns : \A u \in Users : job[c] = u <=> pconn[u] = c
  /\ \A c \in Conns : Member(free, c) => name[c] # None /\ job[c] = None
  /\ \A c \in Conns : name[c] # None => Member(free, c) \/ job[c] # None
  /\ \A c \in Conns : job[c] # None => name[c] # None
  /\ Once(free)
  /\ \A u \in Users : pconn[u] # None => name[pconn[u]] = DbOf[u]
CountInv == \A d \in Dbs : count[d] = Cardinality(Of(d)) /\ count[d] <= ConnMax

\* A request is at one step of its state machine, with the connection that the
\* step needs; only the one that runs is between two sleeps.
StepInv ==
  /\ \A u \in Users : u # running => fsm[u] \in {"none", "init", "wait", "ended"}
  /\ \A u \in Users : fsm[u] \in {"none", "init", "ended"} => pconn[u] = None
  /\ \A u \in Users : fsm[u] = "query" => pconn[u] # None
  /\ \A u \in Users : fsm[u] = "read" => pstate[u] = "result"
  /\ \A u \in Users : pstate[u] \in {"wait", "result", "done"} => pconn[u] # None

\* The queue has requests that sleep, once; those that were woken have left
\* it, and so has the one that runs.
QueueInv ==
  /\ Once(queue)
  /\ \A u \in Users : Member(queue, u) => fsm[u] = "init" /\ (asleep[u] \/ gone[u]) /\ u \notin woken
  /\ \A u \in woken : fsm[u] = "init" /\ ~gone[u]
  /\ running # None =>
       fsm[running] # "none" /\ ~gone[running] /\ ~Member(queue, running) /\ running \notin woken

\* Somebody wakes who waits, but for a running request that is still to look
\* for a connection.
WakerInv ==
  queue # <<>> => \/ Busy # {} \/ woken # {} \/ missed
                  \/ running # None /\ fsm[running] = "init"

PgsqlInv == Types /\ PoolInv /\ CountInv /\ StepInv /\ QueueInv /\ WakerInv
-----------------------------------------------------------------------------
(* The lists.                                                              *)

LEMMA PlaceOf ==
  ASSUME NEW S, NEW s \in Seq(S), NEW x, Member(s, x)
  PROVE  Place(x, s) \in 1..Len(s) /\ s[Place(x, s)] = x
  <1> DEFINE T == {i \in DOMAIN s : s[i] = x}
  <1>1. T \in SUBSET Nat /\ T # {} /\ \A i \in T : i \in 1..Len(s) /\ s[i] = x
    BY DEF Member
  <1>2. Place(x, s) = Min(T)
    BY DEF Place
  <1> HIDE DEF T
  <1> QED BY <1>1, <1>2, LeastOf

\* What TAILQ_REMOVE leaves.
LEMMA WithoutOf ==
  ASSUME NEW S, NEW s \in Seq(S), Once(s), NEW x, Member(s, x)
  PROVE  /\ Without(x, s) \in Seq(S) /\ Once(Without(x, s))
         /\ \A r : Member(Without(x, s), r) <=> Member(s, r) /\ r # x
  <1>1. PICK k \in 1..Len(s) : k = Place(x, s) /\ s[k] = x
    BY PlaceOf
  <1>2. Without(x, s) = RemoveAt(s, k)
    BY <1>1 DEF Without
  <1> QED BY <1>1, <1>2, Shorter

LEMMA LeavesQueueOf ==
  ASSUME Types, QueueInv, NEW u \in Users
  PROVE  /\ LeavesQueue(u) \in Seq(Users) /\ Once(LeavesQueue(u))
         /\ \A r : Member(LeavesQueue(u), r) <=> Member(queue, r) /\ r # u
  <1>1. queue \in Seq(Users) /\ Once(queue)
    BY DEF Types, QueueInv
  <1>2. u \in Range(queue) <=> Member(queue, u)
    BY <1>1 DEF Range, Member
  <1>3. CASE Member(queue, u)
    BY <1>1, <1>2, <1>3, WithoutOf DEF LeavesQueue
  <1>4. CASE ~Member(queue, u)
    BY <1>1, <1>2, <1>4 DEF LeavesQueue
  <1> QED BY <1>3, <1>4

\* An empty list has no entries.
LEMMA NoMember == ASSUME NEW S, NEW s \in Seq(S) PROVE s = <<>> <=> \A r : ~Member(s, r)
  <1>1. s # <<>> => 1 \in 1..Len(s)
    OBVIOUS
  <1> QED BY <1>1 DEF Member

\* The first free connection to a database.
LEMMA FirstFreeOf ==
  ASSUME Types, PoolInv, NEW d \in Dbs, FreeOf(d) # {}
  PROVE  FirstFree(d) \in Conns /\ Member(free, FirstFree(d)) /\ name[FirstFree(d)] = d
  <1>1. free \in Seq(Conns)
    BY DEF Types
  <1>2. FreeOf(d) \in SUBSET Nat
    BY <1>1 DEF FreeOf
  <1>3. Min(FreeOf(d)) \in FreeOf(d)
    BY <1>2, LeastOf
  <1>4. \A i \in FreeOf(d) : i \in 1..Len(free) /\ name[free[i]] = d
    BY <1>1 DEF FreeOf
  <1>5. PICK i \in 1..Len(free) : i = Min(FreeOf(d)) /\ name[free[i]] = d
    BY <1>3, <1>4
  <1> QED BY <1>1, <1>5 DEF FirstFree, Member

\* pgsql_queue_wakeup: who is left waits as before, and was not woken; if
\* anybody is left, somebody was woken.
Woke ==
  /\ queue' \in Seq(Users) /\ Once(queue')
  /\ asleep' \in [Users -> BOOLEAN] /\ woken' \in SUBSET Users /\ missed' \in BOOLEAN
  /\ \A r : Member(queue', r) => Member(queue, r) /\ r \notin woken' /\ asleep'[r] = asleep[r]
  /\ \A v \in woken' : v \in woken \/ (Member(queue, v) /\ ~gone[v])
  /\ queue' # <<>> => woken' # {}

LEMMA WakesNextOf == ASSUME Types, QueueInv, WakesNext(queue, asleep) PROVE Woke
  <1>1. /\ queue \in Seq(Users) /\ Once(queue) /\ asleep \in [Users -> BOOLEAN]
        /\ woken \in SUBSET Users /\ missed \in BOOLEAN
    BY DEF Types, QueueInv
  <1>2. WakesFirst(queue, asleep)
    BY DEF WakesNext
  <1>3. CASE Staying(queue) = {}
    <2>1. queue' = <<>> /\ asleep' = asleep /\ woken' = woken /\ missed' = missed
      BY <1>2, <1>3 DEF WakesFirst
    <2>2. queue' \in Seq(Users) /\ Once(queue') /\ \A r : ~Member(queue', r)
      BY <2>1 DEF Once, Member
    <2> QED BY <1>1, <2>1, <2>2 DEF Woke
  <1>4. CASE Staying(queue) # {}
    <2>1. Staying(queue) \in SUBSET Nat
      BY <1>1 DEF Staying
    <2>2. Min(Staying(queue)) \in Staying(queue)
      BY <1>4, <2>1, LeastOf
    <2>3. PICK at \in 1..Len(queue) : at = Min(Staying(queue)) /\ ~gone[queue[at]]
      <3>1. \A i \in Staying(queue) : i \in 1..Len(queue) /\ ~gone[queue[i]]
        BY <1>1 DEF Staying
      <3> QED BY <2>2, <3>1
    <2>4. PICK u \in Users : u = queue[at]
      BY <1>1, <2>3
    <2>5. /\ queue' = SubSeq(queue, at + 1, Len(queue))
          /\ asleep' = [asleep EXCEPT ![u] = FALSE]
          /\ woken' = woken \cup {u} /\ missed' = FALSE
      BY <1>2, <1>4, <2>3, <2>4 DEF WakesFirst
    <2>6. /\ queue' \in Seq(Users) /\ Once(queue')
          /\ \A r : Member(queue', r) => Member(queue, r) /\ r # u
      BY <1>1, <2>4, <2>5, After
    <2>7. Member(queue, u)
      BY <2>4 DEF Member
    <2>8. \A r : Member(queue, r) => r \in Users /\ r \notin woken
      BY <1>1 DEF QueueInv, Member
    <2>9. ASSUME NEW r, Member(queue', r)
          PROVE  Member(queue, r) /\ r \notin woken' /\ asleep'[r] = asleep[r]
      BY <1>1, <2>5, <2>6, <2>8, <2>9
    <2>10. \A v \in woken' : v \in woken \/ (Member(queue, v) /\ ~gone[v])
      BY <2>3, <2>4, <2>5, <2>7
    <2>11. /\ asleep' \in [Users -> BOOLEAN] /\ woken' \in SUBSET Users
           /\ missed' \in BOOLEAN /\ woken' # {}
      BY <1>1, <2>5
    <2> QED BY <2>6, <2>9, <2>10, <2>11 DEF Woke
  <1> QED BY <1>3, <1>4

\* What a wakeup leaves right, when nothing happens to the requests but to u,
\* which is neither in the queue nor woken.
LEMMA WokeRight ==
  ASSUME Types, QueueInv, Woke, NEW u \in Users, ~Member(queue, u), u \notin woken,
         \A v \in Users \ {u} : fsm'[v] = fsm[v] /\ gone'[v] = gone[v],
         running' # None => running' = running /\ fsm'[running] # "none" /\ ~gone'[running]
  PROVE  QueueInv' /\ WakerInv'
  <1>1. /\ Once(queue') /\ woken' \in SUBSET Users
        /\ \A r : Member(queue', r) => Member(queue, r) /\ r \notin woken' /\ asleep'[r] = asleep[r]
        /\ \A v \in woken' : v \in woken \/ (Member(queue, v) /\ ~gone[v])
        /\ queue' # <<>> => woken' # {}
    BY DEF Woke
  <1>2. ASSUME NEW v \in Users, Member(queue', v)
        PROVE  fsm'[v] = "init" /\ (asleep'[v] \/ gone'[v]) /\ v \notin woken'
    BY <1>1, <1>2 DEF QueueInv
  <1>3. ASSUME NEW v \in woken' PROVE fsm'[v] = "init" /\ ~gone'[v]
    BY <1>1, <1>3 DEF QueueInv
  <1>4. running' # None => /\ fsm'[running'] # "none" /\ ~gone'[running']
                           /\ ~Member(queue', running') /\ running' \notin woken'
    BY <1>1 DEF QueueInv
  <1>5. QueueInv'
    BY <1>1, <1>2, <1>3, <1>4 DEF QueueInv
  <1> QED BY <1>1, <1>5 DEF WakerInv
-----------------------------------------------------------------------------
(* The pool.                                                               *)

LEMMA NoneIsNone ==
  ASSUME PgsqlAssumption
  PROVE  /\ None \notin Users /\ None \notin Conns /\ None \notin Dbs
         /\ IsFiniteSet(Conns) /\ ConnMax \in Nat \ {0} /\ DbOf \in [Users -> Dbs]
         /\ Answers \subseteq Seq(Result)
  BY DEF PgsqlAssumption

LEMMA PoolSame ==
  ASSUME PoolInv, CountInv, UNCHANGED <<name, job, free, count, pconn>>
  PROVE  PoolInv' /\ CountInv'
  BY DEF PoolInv, CountInv, Of

\* A request gets a connection: a free one, or one that is new.
LEMMA TakesPool ==
  ASSUME PgsqlAssumption, Types, PoolInv, NEW u \in Users, NEW c \in Conns,
         pconn[u] = None, job[c] = None,
         job' = [job EXCEPT ![c] = u], pconn' = [pconn EXCEPT ![u] = c],
         name'[c] = DbOf[u], \A x \in Conns \ {c} : name'[x] = name[x],
         Once(free'), \A x : Member(free', x) <=> Member(free, x) /\ x # c
  PROVE  PoolInv'
  <1>1. /\ job \in [Conns -> Users \cup {None}] /\ pconn \in [Users -> Conns \cup {None}]
        /\ DbOf[u] # None
    <2>1. DbOf[u] \in Dbs
      BY NoneIsNone
    <2> QED BY <2>1, NoneIsNone DEF Types
  <1>2. /\ \A x \in Conns : job'[x] = IF x = c THEN u ELSE job[x]
        /\ \A v \in Users : pconn'[v] = IF v = u THEN c ELSE pconn[v]
    BY <1>1
  <1>3. ASSUME NEW x \in Conns, NEW v \in Users PROVE job'[x] = v <=> pconn'[v] = x
    <2>1. job[x] = v <=> pconn[v] = x
      BY DEF PoolInv
    <2>2. job[c] # v /\ pconn[u] # x
      BY NoneIsNone
    <2> QED BY <1>2, <2>1, <2>2 DEF PoolInv
  <1>4. ASSUME NEW x \in Conns
        PROVE  /\ Member(free', x) => name'[x] # None /\ job'[x] = None
               /\ name'[x] # None => Member(free', x) \/ job'[x] # None
               /\ job'[x] # None => name'[x] # None
    <2>1. /\ Member(free, x) => name[x] # None /\ job[x] = None
          /\ name[x] # None => Member(free, x) \/ job[x] # None
          /\ job[x] # None => name[x] # None
      BY DEF PoolInv
    <2> QED BY <1>1, <1>2, <2>1, NoneIsNone
  <1>5. ASSUME NEW v \in Users, pconn'[v] # None PROVE name'[pconn'[v]] = DbOf[v]
    <2>1. CASE v = u
      BY <1>2, <2>1
    <2>2. CASE v # u
      <3>1. pconn[v] \in Conns /\ pconn[v] # None /\ name[pconn[v]] = DbOf[v] /\ pconn'[v] = pconn[v]
        BY <1>1, <1>2, <1>5, <2>2 DEF PoolInv
      <3>2. job[pconn[v]] = v
        BY <3>1 DEF PoolInv
      <3>3. pconn[v] # c
        BY <3>2, NoneIsNone
      <3> QED BY <3>1, <3>3
    <2> QED BY <2>1, <2>2
  <1> QED BY <1>3, <1>4, <1>5 DEF PoolInv

\* A connection loses its request: it is free again, or it is gone.
LEMMA GivesPool ==
  ASSUME PgsqlAssumption, Types, PoolInv, NEW u \in Users, NEW c \in Conns, pconn[u] = c,
         job' = [job EXCEPT ![c] = None], pconn' = [pconn EXCEPT ![u] = None],
         \A x \in Conns \ {c} : name'[x] = name[x],
         \/ name'[c] = name[c] /\ Once(free') /\ \A x : Member(free', x) <=> Member(free, x) \/ x = c
         \/ name'[c] = None /\ free' = free
  PROVE  PoolInv'
  <1>1. /\ job \in [Conns -> Users \cup {None}] /\ pconn \in [Users -> Conns \cup {None}]
        /\ job[c] = u /\ u # None
    BY NoneIsNone DEF Types, PoolInv
  <1>2. /\ \A x \in Conns : job'[x] = IF x = c THEN None ELSE job[x]
        /\ \A v \in Users : pconn'[v] = IF v = u THEN None ELSE pconn[v]
    BY <1>1
  <1>3. ASSUME NEW x \in Conns, NEW v \in Users PROVE job'[x] = v <=> pconn'[v] = x
    <2>1. job[x] = v <=> pconn[v] = x
      BY DEF PoolInv
    <2>2. None # v /\ None # x
      BY NoneIsNone
    <2> QED BY <1>1, <1>2, <2>1, <2>2
  <1>4. ASSUME NEW x \in Conns
        PROVE  /\ Member(free', x) => name'[x] # None /\ job'[x] = None
               /\ name'[x] # None => Member(free', x) \/ job'[x] # None
               /\ job'[x] # None => name'[x] # None
    <2>1. /\ Member(free, x) => name[x] # None /\ job[x] = None
          /\ name[x] # None => Member(free, x) \/ job[x] # None
          /\ job[x] # None => name[x] # None
      BY DEF PoolInv
    <2> QED BY <1>1, <1>2, <2>1
  <1>5. ASSUME NEW v \in Users, pconn'[v] # None PROVE name'[pconn'[v]] = DbOf[v]
    <2>1. v # u /\ pconn[v] \in Conns /\ name[pconn[v]] = DbOf[v] /\ pconn'[v] = pconn[v]
      BY <1>1, <1>2, <1>5 DEF PoolInv
    <2>2. job[pconn[v]] = v
      BY <2>1 DEF PoolInv
    <2>3. pconn[v] # c
      BY <1>1, <2>1, <2>2
    <2> QED BY <2>1, <2>3
  <1>6. Once(free')
    BY DEF PoolInv
  <1> QED BY <1>3, <1>4, <1>5, <1>6 DEF PoolInv

\* The count of a database that gets a connection, and of one that loses one.
LEMMA CountGrows ==
  ASSUME PgsqlAssumption, Types, CountInv, NEW d \in Dbs, NEW c \in Conns, name[c] = None,
         count[d] < ConnMax,
         name' = [name EXCEPT ![c] = d], count' = [count EXCEPT ![d] = @ + 1]
  PROVE  CountInv'
  <1>1. /\ name \in [Conns -> Dbs \cup {None}] /\ count \in [Dbs -> Nat]
        /\ None # d /\ IsFiniteSet(Conns) /\ ConnMax \in Nat
    BY NoneIsNone DEF Types
  <1>2. \A e \in Dbs : IsFiniteSet(Of(e))
    BY <1>1, FS_Subset DEF Of
  <1>3. Of(d)' = Of(d) \cup {c} /\ c \notin Of(d)
    BY <1>1 DEF Of
  <1>4. \A e \in Dbs \ {d} : Of(e)' = Of(e)
    BY <1>1, NoneIsNone DEF Of
  <1>5. Cardinality(Of(d)') = Cardinality(Of(d)) + 1
    BY <1>2, <1>3, FS_AddElement
  <1>6. count[d] \in Nat /\ count'[d] = count[d] + 1 /\ \A e \in Dbs \ {d} : count'[e] = count[e]
    BY <1>1
  <1>7. count[d] = Cardinality(Of(d))
    BY DEF CountInv
  <1>8. count'[d] = Cardinality(Of(d)') /\ count'[d] <= ConnMax
    BY <1>1, <1>5, <1>6, <1>7
  <1>9. \A e \in Dbs \ {d} : count'[e] = Cardinality(Of(e)') /\ count'[e] <= ConnMax
    BY <1>4, <1>6 DEF CountInv
  <1> QED BY <1>8, <1>9 DEF CountInv

LEMMA CountShrinks ==
  ASSUME PgsqlAssumption, Types, CountInv, NEW d \in Dbs, NEW c \in Conns, name[c] = d,
         name' = [name EXCEPT ![c] = None], count' = [count EXCEPT ![d] = @ - 1]
  PROVE  CountInv' /\ count' \in [Dbs -> Nat]
  <1>1. /\ name \in [Conns -> Dbs \cup {None}] /\ count \in [Dbs -> Nat]
        /\ None # d /\ IsFiniteSet(Conns) /\ ConnMax \in Nat
    BY NoneIsNone DEF Types
  <1>2. \A e \in Dbs : IsFiniteSet(Of(e))
    BY <1>1, FS_Subset DEF Of
  <1>3. Of(d)' = Of(d) \ {c} /\ c \in Of(d)
    BY <1>1 DEF Of
  <1>4. \A e \in Dbs \ {d} : Of(e)' = Of(e)
    BY <1>1, NoneIsNone DEF Of
  <1>5. Cardinality(Of(d)') = Cardinality(Of(d)) - 1 /\ Cardinality(Of(d)') \in Nat
    <2>1. IsFiniteSet(Of(d) \ {c}) /\ Cardinality(Of(d) \ {c}) = Cardinality(Of(d)) - 1
      BY <1>2, <1>3, FS_RemoveElement
    <2> QED BY <1>3, <2>1, FS_CardinalityType
  <1>6. count[d] \in Nat /\ count'[d] = count[d] - 1 /\ \A e \in Dbs \ {d} : count'[e] = count[e]
    BY <1>1
  <1>7. count[d] = Cardinality(Of(d)) /\ count[d] <= ConnMax
    BY DEF CountInv
  <1>8. count'[d] = Cardinality(Of(d)') /\ count'[d] <= ConnMax /\ count'[d] \in Nat
    BY <1>1, <1>5, <1>6, <1>7
  <1>9. \A e \in Dbs \ {d} : count'[e] = Cardinality(Of(e)') /\ count'[e] <= ConnMax
    BY <1>4, <1>6 DEF CountInv
  <1>10. count' \in [Dbs -> Nat]
    BY <1>1, <1>6, <1>8
  <1> QED BY <1>8, <1>9, <1>10 DEF CountInv

\* A request that finds no connection and may not have a new one is not the
\* only one: a connection is in use.
LEMMA SomeoneIsBusy ==
  ASSUME PgsqlAssumption, Types, PoolInv, CountInv, NEW d \in Dbs,
         FreeOf(d) = {}, ~MayConnect(d)
  PROVE  Busy # {}
  <1>1. count[d] = Cardinality(Of(d)) /\ count[d] \in Nat /\ ConnMax \in Nat \ {0}
    BY NoneIsNone DEF Types, CountInv
  <1>2. ~(count[d] < ConnMax)
    BY DEF MayConnect
  <1>3. Cardinality(Of(d)) # 0
    BY <1>1, <1>2
  <1>4. PICK c \in Conns : name[c] = d
    BY <1>3, FS_EmptySet DEF Of
  <1>5. ~Member(free, c)
    <2>1. free \in Seq(Conns)
      BY DEF Types
    <2> QED BY <1>4, <2>1 DEF FreeOf, Member
  <1>6. name[c] # None
    BY <1>4, NoneIsNone
  <1> QED BY <1>5, <1>6 DEF PoolInv, Busy
-----------------------------------------------------------------------------
(* kore_pgsql_cleanup.                                                     *)

\* The connection goes back to the pool, and who waits is woken.
LEMMA ReleasedOf ==
  ASSUME PgsqlAssumption, PgsqlInv, NEW u \in Users, pconn[u] # None, Released(u, asleep)
  PROVE  /\ Woke /\ PoolInv' /\ CountInv'
         /\ pconn' = [pconn EXCEPT ![u] = None] /\ pstate' = [pstate EXCEPT ![u] = "complete"]
         /\ name' = name /\ job' \in [Conns -> Users \cup {None}]
         /\ coming' \in [Conns -> Seq(Result)] /\ inerror' = inerror
         /\ free' \in Seq(Conns) /\ count' = count
  <1>1. Types /\ PoolInv /\ CountInv /\ QueueInv
    BY DEF PgsqlInv
  <1>2. PICK c \in Conns : c = pconn[u]
    BY <1>1 DEF Types
  <1>3. /\ job' = [job EXCEPT ![c] = None] /\ coming' = [coming EXCEPT ![c] = <<>>]
        /\ free' = Append(free, c) /\ pconn' = [pconn EXCEPT ![u] = None]
        /\ pstate' = [pstate EXCEPT ![u] = "complete"] /\ WakesNext(queue, asleep)
        /\ name' = name /\ inerror' = inerror /\ count' = count
    BY <1>2 DEF Released
  <1>4. /\ job \in [Conns -> Users \cup {None}] /\ coming \in [Conns -> Seq(Result)]
        /\ free \in Seq(Conns) /\ Once(free)
    BY <1>1 DEF Types, PoolInv
  <1>5. job[c] = u /\ u # None
    BY <1>1, <1>2, NoneIsNone DEF PoolInv
  <1>6. ~Member(free, c)
    BY <1>1, <1>5 DEF PoolInv
  <1>7. /\ free' \in Seq(Conns) /\ Once(free')
        /\ \A x : Member(free', x) <=> Member(free, x) \/ x = c
    BY <1>3, <1>4, <1>6, Grown
  <1>8. PoolInv'
    BY <1>1, <1>2, <1>3, <1>7, GivesPool
  <1>9. CountInv'
    BY <1>1, <1>3 DEF CountInv, Of
  <1>10. Woke
    BY <1>1, <1>3, WakesNextOf
  <1>11. job' \in [Conns -> Users \cup {None}] /\ coming' \in [Conns -> Seq(Result)]
    <2>1. <<>> \in Seq(Result)
      OBVIOUS
    <2> QED BY <1>3, <1>4, <2>1
  <1> QED BY <1>3, <1>7, <1>8, <1>9, <1>10, <1>11

\* The request has left the queue and has no connection.
LEMMA CleansUpOf ==
  ASSUME PgsqlAssumption, PgsqlInv, NEW u \in Users, CleansUp(u), u \notin woken,
         \A v \in Users \ {u} : fsm'[v] = fsm[v] /\ gone'[v] = gone[v],
         running' = None, running \in {u, None}, running = u => fsm[u] # "init",
         fsm' = [fsm EXCEPT ![u] = "ended"], gone' \in [Users -> BOOLEAN]
  PROVE  PgsqlInv'
  <1>1. Types /\ PoolInv /\ CountInv /\ StepInv /\ QueueInv /\ WakerInv
    BY DEF PgsqlInv
  <1>2. /\ fsm \in [Users -> Step] /\ pconn \in [Users -> Conns \cup {None}]
        /\ pstate \in [Users -> {"init", "wait", "result", "done", "error", "complete"}]
    BY <1>1 DEF Types
  <1>3. \A v \in Users : fsm'[v] = IF v = u THEN "ended" ELSE fsm[v]
    BY <1>2
  <1>4. fsm' \in [Users -> Step]
    BY <1>2 DEF Step
  <1>5. CASE pconn[u] # None
    <2>1. Released(u, asleep)
      BY <1>5 DEF CleansUp
    <2>2. /\ Woke /\ PoolInv' /\ CountInv'
          /\ pconn' = [pconn EXCEPT ![u] = None] /\ pstate' = [pstate EXCEPT ![u] = "complete"]
          /\ name' = name /\ job' \in [Conns -> Users \cup {None}]
          /\ coming' \in [Conns -> Seq(Result)] /\ inerror' = inerror
          /\ free' \in Seq(Conns) /\ count' = count
      BY <1>5, <2>1, ReleasedOf
    <2>3. ~Member(queue, u)
      BY <1>1, <1>5 DEF StepInv, QueueInv
    <2>4. QueueInv' /\ WakerInv'
      BY <1>1, <2>2, <2>3, WokeRight
    <2>5. /\ pconn' \in [Users -> Conns \cup {None}]
          /\ pstate' \in [Users -> {"init", "wait", "result", "done", "error", "complete"}]
          /\ \A v \in Users : v # u => pconn'[v] = pconn[v] /\ pstate'[v] = pstate[v]
          /\ pconn'[u] = None /\ pstate'[u] = "complete"
      BY <1>2, <2>2
    <2>6. StepInv'
      BY <1>1, <1>3, <2>5 DEF StepInv
    <2>7. Types'
      BY <1>1, <1>4, <2>2, <2>5 DEF Types, Woke
    <2> QED BY <2>2, <2>4, <2>6, <2>7 DEF PgsqlInv
  <1>6. CASE pconn[u] = None
    <2>1. /\ queue' = LeavesQueue(u)
          /\ UNCHANGED <<pool, pconn, pstate, asleep, woken, missed>>
      BY <1>6 DEF CleansUp
    <2>2. /\ queue' \in Seq(Users) /\ Once(queue')
          /\ \A r : Member(queue', r) <=> Member(queue, r) /\ r # u
      BY <1>1, <2>1, LeavesQueueOf
    <2>3. PoolInv' /\ CountInv'
      BY <1>1, <2>1, PoolSame DEF pool
    <2>4. Types'
      BY <1>1, <1>4, <2>1, <2>2 DEF Types, pool
    <2>5. StepInv'
      BY <1>1, <1>3, <1>6, <2>1 DEF StepInv
    <2>6. ASSUME NEW v \in Users, Member(queue', v)
          PROVE  fsm'[v] = "init" /\ (asleep'[v] \/ gone'[v]) /\ v \notin woken'
      <3>1. v # u /\ fsm[v] = "init" /\ (asleep[v] \/ gone[v]) /\ v \notin woken
        BY <1>1, <2>2, <2>6 DEF QueueInv
      <3> QED BY <1>3, <2>1, <3>1
    <2>7. ASSUME NEW v \in woken' PROVE fsm'[v] = "init" /\ ~gone'[v]
      <3>1. v \in Users /\ v # u /\ fsm[v] = "init" /\ ~gone[v]
        BY <1>1, <2>1, <2>7 DEF QueueInv, Types
      <3> QED BY <1>3, <3>1
    <2>8. QueueInv'
      BY <2>2, <2>6, <2>7 DEF QueueInv
    <2>9. WakerInv'
      <3>1. queue' # <<>> => queue # <<>>
        <4>1. queue \in Seq(Users)
          BY <1>1 DEF Types
        <4> QED BY <2>2, <4>1, NoMember
      <3> QED BY <1>1, <2>1, <3>1 DEF WakerInv, Busy, pool
    <2> QED BY <2>3, <2>4, <2>5, <2>8, <2>9 DEF PgsqlInv
  <1> QED BY <1>5, <1>6

LEMMA EndsStep ==
  ASSUME PgsqlAssumption, PgsqlInv, NEW u \in Users, Ends(u) PROVE PgsqlInv'
  <1>1. /\ running = u /\ fsm[u] \in {"error", "done"} /\ CleansUp(u)
        /\ fsm' = [fsm EXCEPT ![u] = "ended"] /\ running' = None /\ gone' = gone
    BY DEF Ends
  <1>2. /\ fsm \in [Users -> Step] /\ gone \in [Users -> BOOLEAN] /\ u # None
    BY NoneIsNone DEF PgsqlInv, Types
  <1>3. \A v \in Users \ {u} : fsm'[v] = fsm[v] /\ gone'[v] = gone[v]
    BY <1>1, <1>2
  <1>4. u \notin woken
    BY <1>1, <1>2 DEF PgsqlInv, QueueInv
  <1> QED BY <1>1, <1>2, <1>3, <1>4, CleansUpOf

LEMMA FreedStep ==
  ASSUME PgsqlAssumption, PgsqlInv, NEW u \in Users, Freed(u) PROVE PgsqlInv'
  <1>1. /\ running = None /\ gone[u] /\ CleansUp(u)
        /\ fsm' = [fsm EXCEPT ![u] = "ended"] /\ gone' = [gone EXCEPT ![u] = FALSE]
        /\ running' = None
    BY DEF Freed
  <1>2. fsm \in [Users -> Step] /\ gone \in [Users -> BOOLEAN]
    BY DEF PgsqlInv, Types
  <1>3. \A v \in Users \ {u} : fsm'[v] = fsm[v] /\ gone'[v] = gone[v]
    BY <1>1, <1>2
  <1>4. u \notin woken
    BY <1>1 DEF PgsqlInv, QueueInv
  <1>5. gone' \in [Users -> BOOLEAN]
    BY <1>1, <1>2
  <1>6. running # u
    BY <1>1, NoneIsNone
  <1> QED BY <1>1, <1>3, <1>4, <1>5, <1>6, CleansUpOf
-----------------------------------------------------------------------------
(* The steps of a request.                                                 *)

LEMMA StartStep ==
  ASSUME PgsqlAssumption, PgsqlInv, NEW u \in Users, Start(u) PROVE PgsqlInv'
  <1>1. Types /\ PoolInv /\ CountInv /\ StepInv /\ QueueInv /\ WakerInv
    BY DEF PgsqlInv
  <1>2. /\ running = None /\ fsm[u] = "none" /\ fsm' = [fsm EXCEPT ![u] = "init"]
        /\ UNCHANGED <<pool, pstate, pconn, queue, asleep, gone, running, woken, missed>>
    BY DEF Start, Waits
  <1>3. fsm \in [Users -> Step] /\ fsm' \in [Users -> Step]
    BY <1>1, <1>2 DEF Types, Step
  <1>4. \A v \in Users : fsm'[v] = IF v = u THEN "init" ELSE fsm[v]
    BY <1>2, <1>3
  <1>5. Types'
    BY <1>1, <1>2, <1>3 DEF Types, pool
  <1>6. PoolInv' /\ CountInv'
    BY <1>1, <1>2, PoolSame DEF pool
  <1>7. StepInv'
    BY <1>1, <1>2, <1>4 DEF StepInv
  <1>8. QueueInv'
    <2>1. \A v \in Users : fsm[v] = "init" => fsm'[v] = "init"
      BY <1>4
    <2>2. woken \in SUBSET Users
      BY <1>1 DEF Types
    <2> QED BY <1>1, <1>2, <2>1, <2>2 DEF QueueInv
  <1>9. WakerInv'
    BY <1>1, <1>2 DEF WakerInv, Busy, pool
  <1> QED BY <1>5, <1>6, <1>7, <1>8, <1>9 DEF PgsqlInv

LEMMA RunStep ==
  ASSUME PgsqlAssumption, PgsqlInv, NEW u \in Users, Run(u) PROVE PgsqlInv'
  <1>1. Types /\ PoolInv /\ CountInv /\ StepInv /\ QueueInv /\ WakerInv
    BY DEF PgsqlInv
  <1>2. /\ running = None /\ fsm[u] \notin {"none", "ended"} /\ ~asleep[u] /\ ~gone[u]
        /\ running' = u /\ woken' = woken \ {u}
        /\ UNCHANGED <<pool, pstate, pconn, queue, fsm, asleep, gone, missed>>
    BY DEF Run, Awake, Exists
  <1>3. Types'
    BY <1>1, <1>2 DEF Types, pool
  <1>4. PoolInv' /\ CountInv'
    BY <1>1, <1>2, PoolSame DEF pool
  <1>5. StepInv'
    BY <1>1, <1>2, NoneIsNone DEF StepInv
  <1>6. ~Member(queue, u)
    BY <1>1, <1>2 DEF QueueInv
  <1>7. QueueInv'
    BY <1>1, <1>2, <1>6 DEF QueueInv
  <1>8. u \in woken => fsm[u] = "init"
    BY <1>1 DEF QueueInv
  <1>9. u # None
    BY NoneIsNone
  <1>10. WakerInv'
    BY <1>1, <1>2, <1>8, <1>9 DEF WakerInv, Busy, pool
  <1> QED BY <1>3, <1>4, <1>5, <1>7, <1>10 DEF PgsqlInv

LEMMA RollbackStep ==
  ASSUME PgsqlAssumption, PgsqlInv, NEW u \in Users, Rollback(u) PROVE PgsqlInv'
  <1>1. Types /\ PoolInv /\ CountInv /\ StepInv /\ QueueInv /\ WakerInv
    BY DEF PgsqlInv
  <1>2. running = u /\ fsm[u] = "init" /\ FreeOf(DbOf[u]) # {} /\ u # None
    BY NoneIsNone DEF Rollback, Connecting
  <1>3. PICK d \in Dbs : d = DbOf[u]
    BY NoneIsNone
  <1>4. PICK c \in Conns : c = FirstFree(d) /\ Member(free, c) /\ name[c] = d
    BY <1>1, <1>2, <1>3, FirstFreeOf
  <1>5. /\ inerror' = [inerror EXCEPT ![c] = FALSE]
        /\ \/ /\ free' = Append(Without(c, free), c)
              /\ name' = name /\ count' = count
           \/ /\ free' = Without(c, free)
              /\ name' = [name EXCEPT ![c] = None]
              /\ count' = [count EXCEPT ![d] = @ - 1]
        /\ WakesNext(queue, asleep)
        /\ job' = job /\ coming' = coming /\ pstate' = pstate /\ pconn' = pconn
        /\ fsm' = fsm /\ gone' = gone /\ running' = running
    BY <1>3, <1>4 DEF Rollback
  <1>6. free \in Seq(Conns) /\ Once(free)
    BY <1>1 DEF Types, PoolInv
  <1>7. /\ Without(c, free) \in Seq(Conns) /\ Once(Without(c, free))
        /\ \A x : Member(Without(c, free), x) <=> Member(free, x) /\ x # c
    BY <1>4, <1>6, WithoutOf
  <1>8. Woke
    BY <1>1, <1>5, WakesNextOf
  <1>9. ~Member(queue, u) /\ u \notin woken /\ ~gone[u]
    BY <1>1, <1>2 DEF QueueInv
  <1>10. QueueInv' /\ WakerInv'
    BY <1>1, <1>2, <1>5, <1>8, <1>9, WokeRight
  <1>11. StepInv'
    BY <1>1, <1>5 DEF StepInv
  <1>12. inerror' \in [Conns -> BOOLEAN]
    BY <1>1, <1>5 DEF Types
  <1>13. CASE free' = Append(Without(c, free), c) /\ name' = name /\ count' = count
    <2>1. /\ free' \in Seq(Conns) /\ Once(free')
          /\ \A x : Member(free', x) <=> Member(Without(c, free), x) \/ x = c
      BY <1>7, <1>13, Grown
    <2>2. \A x : Member(free', x) <=> Member(free, x)
      BY <1>4, <1>7, <2>1
    <2>3. PoolInv' /\ CountInv'
      BY <1>1, <1>5, <1>13, <2>1, <2>2 DEF PoolInv, CountInv, Of
    <2>4. Types'
      BY <1>1, <1>5, <1>8, <1>12, <1>13, <2>1 DEF Types, Woke
    <2> QED BY <1>10, <1>11, <2>3, <2>4 DEF PgsqlInv
  <1>14. CASE /\ free' = Without(c, free) /\ name' = [name EXCEPT ![c] = None]
              /\ count' = [count EXCEPT ![d] = @ - 1]
    <2>1. CountInv' /\ count' \in [Dbs -> Nat]
      BY <1>1, <1>4, <1>14, CountShrinks
    <2>2. name \in [Conns -> Dbs \cup {None}] /\ name' \in [Conns -> Dbs \cup {None}]
      BY <1>1, <1>14 DEF Types
    <2>3. \A x \in Conns : name'[x] = IF x = c THEN None ELSE name[x]
      BY <1>14, <2>2
    <2>4. job[c] = None
      BY <1>1, <1>4 DEF PoolInv
    <2>5. ASSUME NEW v \in Users, pconn[v] # None PROVE name'[pconn[v]] = DbOf[v]
      <3>1. pconn[v] \in Conns /\ name[pconn[v]] = DbOf[v]
        BY <1>1, <2>5 DEF Types, PoolInv
      <3>2. job[pconn[v]] = v
        BY <1>1, <3>1 DEF PoolInv
      <3>3. pconn[v] # c
        BY <2>4, <3>2, NoneIsNone
      <3> QED BY <2>3, <3>1, <3>3
    <2>6. PoolInv'
      BY <1>1, <1>5, <1>7, <1>14, <2>3, <2>4, <2>5 DEF PoolInv
    <2>7. Types'
      BY <1>1, <1>5, <1>7, <1>8, <1>12, <1>14, <2>1, <2>2 DEF Types, Woke
    <2> QED BY <1>10, <1>11, <2>1, <2>6, <2>7 DEF PgsqlInv
  <1> QED BY <1>5, <1>13, <1>14

\* What taking a connection leaves right beside the pool.
LEMMA TakesRest ==
  ASSUME PgsqlAssumption, PgsqlInv, NEW u \in Users, NEW c \in Conns,
         running = u, fsm[u] = "init", Takes(u, c)
  PROVE  /\ StepInv' /\ QueueInv' /\ WakerInv'
         /\ job' \in [Conns -> Users \cup {None}] /\ pconn' \in [Users -> Conns \cup {None}]
         /\ fsm' \in [Users -> Step]
  <1>1. Types /\ StepInv /\ QueueInv /\ WakerInv
    BY DEF PgsqlInv
  <1>2. /\ job' = [job EXCEPT ![c] = u] /\ pconn' = [pconn EXCEPT ![u] = c]
        /\ fsm' = [fsm EXCEPT ![u] = "query"]
        /\ UNCHANGED <<coming, inerror, pstate, queue, asleep, gone, running, woken, missed>>
    BY DEF Takes
  <1>3. /\ job \in [Conns -> Users \cup {None}] /\ pconn \in [Users -> Conns \cup {None}]
        /\ fsm \in [Users -> Step] /\ u # None /\ c # None
    BY <1>1, NoneIsNone DEF Types
  <1>4. /\ \A v \in Users : fsm'[v] = IF v = u THEN "query" ELSE fsm[v]
        /\ \A v \in Users : pconn'[v] = IF v = u THEN c ELSE pconn[v]
        /\ job'[c] = u
    BY <1>2, <1>3
  <1>5. fsm' \in [Users -> Step]
    BY <1>2, <1>3 DEF Step
  <1>6. job' \in [Conns -> Users \cup {None}] /\ pconn' \in [Users -> Conns \cup {None}]
    BY <1>2, <1>3
  <1>7. StepInv'
    BY <1>1, <1>2, <1>3, <1>4 DEF StepInv
  <1>8. QueueInv'
    <2>1. ~Member(queue, u) /\ u \notin woken /\ ~gone[u] /\ woken \in SUBSET Users
      BY <1>1, <1>3 DEF QueueInv, Types
    <2>2. \A v \in Users : v # u => fsm'[v] = fsm[v]
      BY <1>4
    <2>3. fsm'[u] # "none"
      BY <1>4
    <2> QED BY <1>1, <1>2, <2>1, <2>2, <2>3 DEF QueueInv
  <1>9. WakerInv'
    BY <1>3, <1>4 DEF WakerInv, Busy
  <1> QED BY <1>5, <1>6, <1>7, <1>8, <1>9

LEMMA TakesFreeStep ==
  ASSUME PgsqlAssumption, PgsqlInv, NEW u \in Users, TakesFree(u) PROVE PgsqlInv'
  <1>1. Types /\ PoolInv /\ CountInv /\ StepInv
    BY DEF PgsqlInv
  <1>2. running = u /\ fsm[u] = "init" /\ FreeOf(DbOf[u]) # {}
    BY DEF TakesFree, Connecting
  <1>3. PICK d \in Dbs : d = DbOf[u]
    BY NoneIsNone
  <1>4. PICK c \in Conns : c = FirstFree(d) /\ Member(free, c) /\ name[c] = d
    BY <1>1, <1>2, <1>3, FirstFreeOf
  <1>5. Takes(u, c) /\ free' = Without(c, free) /\ name' = name /\ count' = count
    BY <1>3, <1>4 DEF TakesFree
  <1>6. free \in Seq(Conns) /\ Once(free) /\ job[c] = None /\ pconn[u] = None
    BY <1>1, <1>2, <1>4 DEF Types, PoolInv, StepInv
  <1>7. /\ free' \in Seq(Conns) /\ Once(free')
        /\ \A x : Member(free', x) <=> Member(free, x) /\ x # c
    BY <1>4, <1>5, <1>6, WithoutOf
  <1>8. job' = [job EXCEPT ![c] = u] /\ pconn' = [pconn EXCEPT ![u] = c]
    BY <1>5 DEF Takes
  <1>9. PoolInv'
    BY <1>1, <1>3, <1>4, <1>5, <1>6, <1>7, <1>8, TakesPool
  <1>10. CountInv'
    BY <1>1, <1>5 DEF CountInv, Of
  <1>11. /\ StepInv' /\ QueueInv' /\ WakerInv'
         /\ job' \in [Conns -> Users \cup {None}] /\ pconn' \in [Users -> Conns \cup {None}]
         /\ fsm' \in [Users -> Step]
    BY <1>2, <1>5, TakesRest
  <1>12. Types'
    BY <1>1, <1>5, <1>7, <1>11 DEF Types, Takes
  <1> QED BY <1>9, <1>10, <1>11, <1>12 DEF PgsqlInv

\* kore_pgsql_setup fails: somebody was missed, or somebody will wake.
LEMMA SetupFailsRest ==
  ASSUME PgsqlAssumption, PgsqlInv, NEW u \in Users, running = u, fsm[u] = "init",
         SetupFails(u), missed' \in BOOLEAN, queue # <<>> => missed' \/ Busy # {}
  PROVE  PgsqlInv'
  <1>1. Types /\ PoolInv /\ CountInv /\ StepInv /\ QueueInv /\ WakerInv
    BY DEF PgsqlInv
  <1>2. /\ pstate' = [pstate EXCEPT ![u] = "error"] /\ fsm' = [fsm EXCEPT ![u] = "error"]
        /\ UNCHANGED <<pool, pconn, queue, asleep, gone, running, woken>>
    BY DEF SetupFails
  <1>3. /\ pstate \in [Users -> {"init", "wait", "result", "done", "error", "complete"}]
        /\ fsm \in [Users -> Step] /\ u # None
    BY <1>1, NoneIsNone DEF Types
  <1>4. /\ \A v \in Users : fsm'[v] = IF v = u THEN "error" ELSE fsm[v]
        /\ \A v \in Users : pstate'[v] = IF v = u THEN "error" ELSE pstate[v]
    BY <1>2, <1>3
  <1>5. fsm' \in [Users -> Step]
    BY <1>2, <1>3 DEF Step
  <1>6. pstate' \in [Users -> {"init", "wait", "result", "done", "error", "complete"}]
    BY <1>2, <1>3
  <1>7. Types'
    BY <1>1, <1>2, <1>5, <1>6 DEF Types, pool
  <1>8. PoolInv' /\ CountInv'
    BY <1>1, <1>2, PoolSame DEF pool
  <1>9. StepInv'
    BY <1>1, <1>2, <1>3, <1>4 DEF StepInv
  <1>10. QueueInv'
    <2>1. ~Member(queue, u) /\ u \notin woken /\ ~gone[u] /\ woken \in SUBSET Users
      BY <1>1, <1>3 DEF QueueInv, Types
    <2>2. \A v \in Users : v # u => fsm'[v] = fsm[v]
      BY <1>4
    <2>3. fsm'[u] # "none"
      BY <1>4
    <2> QED BY <1>1, <1>2, <2>1, <2>2, <2>3 DEF QueueInv
  <1>11. WakerInv'
    BY <1>2 DEF WakerInv, Busy, pool
  <1> QED BY <1>7, <1>8, <1>9, <1>10, <1>11 DEF PgsqlInv

LEMMA ConnectsStep ==
  ASSUME PgsqlAssumption, PgsqlInv, NEW u \in Users, Connects(u) PROVE PgsqlInv'
  <1>1. Types /\ PoolInv /\ CountInv /\ StepInv
    BY DEF PgsqlInv
  <1>2. running = u /\ fsm[u] = "init" /\ MayConnect(DbOf[u])
    BY DEF Connects, Connecting
  <1>3. PICK d \in Dbs : d = DbOf[u]
    BY NoneIsNone
  <1>4. CASE SetupFails(u) /\ missed' = TRUE
    BY <1>2, <1>4, SetupFailsRest
  <1>5. CASE /\ Unused # {}
             /\ LET c == CHOOSE c \in Unused : TRUE IN
                  /\ Takes(u, c)
                  /\ name' = [name EXCEPT ![c] = DbOf[u]]
             /\ UNCHANGED free
             /\ count' = [count EXCEPT ![DbOf[u]] = @ + 1]
    <2>1. PICK c \in Unused : Takes(u, c) /\ name' = [name EXCEPT ![c] = d]
      BY <1>3, <1>5
    <2>2. c \in Conns /\ name[c] = None
      BY DEF Unused
    <2>3. free' = free /\ count' = [count EXCEPT ![d] = @ + 1]
      BY <1>3, <1>5
    <2>4. job[c] = None /\ pconn[u] = None /\ Once(free) /\ ~Member(free, c)
      BY <1>1, <1>2, <2>2 DEF PoolInv, StepInv
    <2>5. job' = [job EXCEPT ![c] = u] /\ pconn' = [pconn EXCEPT ![u] = c]
      BY <2>1 DEF Takes
    <2>6. name \in [Conns -> Dbs \cup {None}] /\ count \in [Dbs -> Nat]
      BY <1>1 DEF Types
    <2>7. name'[c] = d /\ \A x \in Conns \ {c} : name'[x] = name[x]
      BY <2>1, <2>2, <2>6
    <2>8. \A x : Member(free', x) <=> Member(free, x) /\ x # c
      BY <2>3, <2>4
    <2>9. PoolInv'
      BY <1>1, <1>3, <2>2, <2>3, <2>4, <2>5, <2>7, <2>8, TakesPool
    <2>10. CountInv'
      <3>1. count[d] < ConnMax
        BY <1>2, <1>3 DEF MayConnect
      <3> QED BY <1>1, <2>1, <2>2, <2>3, <3>1, CountGrows
    <2>11. /\ StepInv' /\ QueueInv' /\ WakerInv'
           /\ job' \in [Conns -> Users \cup {None}] /\ pconn' \in [Users -> Conns \cup {None}]
           /\ fsm' \in [Users -> Step]
      BY <1>2, <2>1, <2>2, TakesRest
    <2>12. name' \in [Conns -> Dbs \cup {None}] /\ count' \in [Dbs -> Nat]
      <3>1. name' \in [Conns -> Dbs \cup {None}]
        BY <2>1, <2>6
      <3>2. count[d] + 1 \in Nat
        BY <2>6
      <3>3. count' \in [Dbs -> Nat]
        BY <2>3, <2>6, <3>2
      <3> QED BY <3>1, <3>3
    <2>13. Types'
      BY <1>1, <2>1, <2>3, <2>11, <2>12 DEF Types, Takes
    <2> QED BY <2>9, <2>10, <2>11, <2>13 DEF PgsqlInv
  <1> QED BY <1>4, <1>5 DEF Connects

LEMMA QueuesStep ==
  ASSUME PgsqlAssumption, PgsqlInv, NEW u \in Users, Queues(u) PROVE PgsqlInv'
  <1>1. Types /\ PoolInv /\ CountInv /\ StepInv /\ QueueInv /\ WakerInv
    BY DEF PgsqlInv
  <1>2. /\ running = u /\ fsm[u] = "init" /\ FreeOf(DbOf[u]) = {} /\ ~MayConnect(DbOf[u])
        /\ u # None
    BY NoneIsNone DEF Queues, Connecting
  <1>3. Busy # {}
    <2>1. DbOf[u] \in Dbs
      BY NoneIsNone
    <2> QED BY <1>1, <1>2, <2>1, SomeoneIsBusy
  <1>4. CASE SetupFails(u) /\ UNCHANGED missed
    <2>1. missed' \in BOOLEAN
      BY <1>1, <1>4 DEF Types
    <2> QED BY <1>2, <1>3, <1>4, <2>1, SetupFailsRest
  <1>5. CASE /\ queue' = Append(queue, u)
             /\ asleep' = [asleep EXCEPT ![u] = TRUE]
             /\ running' = None
             /\ UNCHANGED <<pool, pstate, pconn, fsm, gone, woken, missed>>
    <2>1. queue \in Seq(Users) /\ Once(queue) /\ asleep \in [Users -> BOOLEAN]
      BY <1>1 DEF Types, QueueInv
    <2>2. ~Member(queue, u) /\ u \notin woken
      BY <1>1, <1>2 DEF QueueInv
    <2>3. /\ queue' \in Seq(Users) /\ Once(queue')
          /\ \A r : Member(queue', r) <=> Member(queue, r) \/ r = u
      BY <1>5, <2>1, <2>2, Grown
    <2>4. asleep' \in [Users -> BOOLEAN] /\ \A v \in Users : asleep'[v] = (v = u \/ asleep[v])
      BY <1>5, <2>1
    <2>5. Types'
      BY <1>1, <1>5, <2>3, <2>4 DEF Types, pool
    <2>6. PoolInv' /\ CountInv'
      BY <1>1, <1>5, PoolSame DEF pool
    <2>7. StepInv'
      BY <1>1, <1>2, <1>5 DEF StepInv
    <2>8. ASSUME NEW v \in Users, Member(queue', v)
          PROVE  fsm'[v] = "init" /\ (asleep'[v] \/ gone'[v]) /\ v \notin woken'
      <3>1. CASE v = u
        BY <1>2, <1>5, <2>2, <2>4, <3>1
      <3>2. CASE v # u
        <4>1. fsm[v] = "init" /\ (asleep[v] \/ gone[v]) /\ v \notin woken
          BY <1>1, <2>3, <2>8, <3>2 DEF QueueInv
        <4> QED BY <1>5, <2>4, <4>1
      <3> QED BY <3>1, <3>2
    <2>9. QueueInv'
      BY <1>1, <1>5, <2>3, <2>8 DEF QueueInv
    <2>10. WakerInv'
      BY <1>3, <1>5 DEF WakerInv, Busy, pool
    <2> QED BY <2>5, <2>6, <2>7, <2>9, <2>10 DEF PgsqlInv
  <1> QED BY <1>4, <1>5 DEF Queues

\* A request that has its connection, or looks at what came, disturbs
\* neither the queue nor the pool.
LEMMA OwnStep ==
  ASSUME PgsqlAssumption, PgsqlInv, NEW u \in Users, fsm[u] # "init", pconn[u] # None \/ u = running,
         \A v \in Users \ {u} : fsm'[v] = fsm[v] /\ asleep'[v] = asleep[v],
         \A v \in Users : gone'[v] <=> gone[v],
         fsm'[u] # "none", running' = running \/ (running = u /\ running' = None),
         UNCHANGED <<name, job, free, count, pconn, queue, woken, missed>>
  PROVE  PoolInv' /\ CountInv' /\ QueueInv' /\ WakerInv'
  <1>1. Types /\ PoolInv /\ CountInv /\ QueueInv /\ WakerInv /\ StepInv
    BY DEF PgsqlInv
  <1>2. PoolInv' /\ CountInv'
    BY <1>1, PoolSame
  <1>3. ~Member(queue, u) /\ u \notin woken /\ woken \in SUBSET Users
    BY <1>1 DEF QueueInv, Types
  <1>4. ASSUME NEW v \in Users, Member(queue', v)
        PROVE  fsm'[v] = "init" /\ (asleep'[v] \/ gone'[v]) /\ v \notin woken'
    BY <1>1, <1>3, <1>4 DEF QueueInv
  <1>5. ASSUME NEW v \in woken' PROVE fsm'[v] = "init" /\ ~gone'[v]
    BY <1>1, <1>3, <1>5 DEF QueueInv
  <1>6. running' # None =>
          /\ fsm'[running'] # "none" /\ ~gone'[running']
          /\ ~Member(queue', running') /\ running' \notin woken'
    <2>1. running \in Users \cup {None}
      BY <1>1 DEF Types
    <2> QED BY <1>1, <2>1 DEF QueueInv
  <1>7. QueueInv'
    BY <1>1, <1>4, <1>5, <1>6 DEF QueueInv
  <1>8. WakerInv'
    <2>1. running # None /\ fsm[running] = "init" =>
            running' = running /\ fsm'[running] = "init"
      BY <1>1 DEF Types
    <2> QED BY <1>1, <2>1 DEF WakerInv, Busy
  <1> QED BY <1>2, <1>7, <1>8

LEMMA QueryStep ==
  ASSUME PgsqlAssumption, PgsqlInv, NEW u \in Users, Query(u) PROVE PgsqlInv'
  <1>1. Types /\ StepInv
    BY DEF PgsqlInv
  <1>2. /\ running = u /\ fsm[u] = "query" /\ fsm' = [fsm EXCEPT ![u] = "wait"]
        /\ UNCHANGED <<name, job, inerror, free, count, pconn, queue, gone, woken, missed>>
        /\ u # None
    BY NoneIsNone DEF Query
  <1>3. PICK c \in Conns : c = pconn[u] /\ pconn[u] # None
    BY <1>1, <1>2 DEF Types, StepInv
  <1>4. /\ fsm \in [Users -> Step] /\ asleep \in [Users -> BOOLEAN]
        /\ pstate \in [Users -> {"init", "wait", "result", "done", "error", "complete"}]
        /\ coming \in [Conns -> Seq(Result)] /\ Answers \subseteq Seq(Result)
    BY <1>1, NoneIsNone DEF Types
  <1>5. PICK s \in {"wait", "error"} :
          /\ pstate' = [pstate EXCEPT ![u] = s]
          /\ coming' \in [Conns -> Seq(Result)] /\ asleep' \in [Users -> BOOLEAN]
          /\ \A v \in Users \ {u} : asleep'[v] = asleep[v]
          /\ running' \in {running, None}
    <2>1. CASE /\ \E reply \in Answers : coming' = [coming EXCEPT ![c] = reply]
               /\ pstate' = [pstate EXCEPT ![u] = "wait"]
               /\ asleep' = [asleep EXCEPT ![u] = TRUE]
               /\ running' = None
      <3>1. coming' \in [Conns -> Seq(Result)]
        BY <1>4, <2>1
      <3>2. asleep' \in [Users -> BOOLEAN] /\ \A v \in Users \ {u} : asleep'[v] = asleep[v]
        BY <1>4, <2>1
      <3> QED BY <2>1, <3>1, <3>2
    <2>2. CASE pstate' = [pstate EXCEPT ![u] = "error"] /\ UNCHANGED <<coming, asleep, running>>
      BY <1>4, <2>2
    <2> QED BY <1>3, <2>1, <2>2 DEF Query
  <1>6. fsm' \in [Users -> Step] /\ \A v \in Users : fsm'[v] = IF v = u THEN "wait" ELSE fsm[v]
    BY <1>2, <1>4 DEF Step
  <1>7. /\ pstate' \in [Users -> {"init", "wait", "result", "done", "error", "complete"}]
        /\ \A v \in Users : pstate'[v] = IF v = u THEN s ELSE pstate[v]
    BY <1>4, <1>5
  <1>8. running' \in Users \cup {None}
    BY <1>1, <1>5 DEF Types
  <1>9. Types'
    BY <1>1, <1>2, <1>5, <1>6, <1>7, <1>8 DEF Types
  <1>10. StepInv'
    BY <1>1, <1>2, <1>3, <1>5, <1>6, <1>7 DEF StepInv
  <1>11. PoolInv' /\ CountInv' /\ QueueInv' /\ WakerInv'
    BY <1>2, <1>3, <1>5, <1>6, OwnStep
  <1> QED BY <1>9, <1>10, <1>11 DEF PgsqlInv

\* kore_pgsql_handle changes what it says of the request, and nothing else.
LEMMA HandlesOf ==
  ASSUME PgsqlAssumption, PgsqlInv, NEW c \in Conns, NEW u \in Users, job[c] = u, Handles(c)
  PROVE  /\ pconn[u] = c /\ pconn[u] # None
         /\ \E s \in {"error", "wait", "done", "result"} : pstate' = [pstate EXCEPT ![u] = s]
         /\ pstate' \in [Users -> {"init", "wait", "result", "done", "error", "complete"}]
         /\ coming' \in [Conns -> Seq(Result)] /\ inerror' \in [Conns -> BOOLEAN]
         /\ asleep' \in [Users -> BOOLEAN]
         /\ \A v \in Users \ {u} : asleep'[v] = asleep[v]
         /\ UNCHANGED <<name, job, free, count, pconn, queue, woken, missed>>
  <1>1. /\ pconn[u] = c /\ c # None
    BY NoneIsNone DEF PgsqlInv, PoolInv
  <1>2. /\ pstate \in [Users -> {"init", "wait", "result", "done", "error", "complete"}]
        /\ coming \in [Conns -> Seq(Result)] /\ inerror \in [Conns -> BOOLEAN]
        /\ asleep \in [Users -> BOOLEAN]
    BY DEF PgsqlInv, Types
  <1>3. UNCHANGED <<name, job, free, count, pconn, queue, woken, missed>>
    BY DEF Handles
  <1> DEFINE Says(s) == /\ pstate' = [pstate EXCEPT ![u] = s]
                        /\ asleep' = [asleep EXCEPT ![u] = Sleeps(s)]
             Told == \E s \in {"error", "wait", "done", "result"} : Says(s)
             Typed == coming' \in [Conns -> Seq(Result)] /\ inerror' \in [Conns -> BOOLEAN]
  <1>4. Told /\ Typed
    <2>1. CASE \E s \in {"error", "wait", "done"} : Says(s) /\ UNCHANGED <<coming, inerror>>
      BY <1>2, <2>1
    <2>2. CASE /\ coming[c] # <<>> /\ coming' = [coming EXCEPT ![c] = Tail(@)]
               /\ Says(CASE Head(coming[c]) = "tuples"  -> "result"
                         [] Head(coming[c]) = "command" -> "done"
                         [] Head(coming[c]) = "fatal"   -> "error")
               /\ \E failed \in BOOLEAN : inerror' = [inerror EXCEPT ![c] = @ \/ failed]
      <3>1. coming[c] \in Seq(Result) /\ Head(coming[c]) \in Result /\ Tail(coming[c]) \in Seq(Result)
        BY <1>2, <2>2
      <3>2. (CASE Head(coming[c]) = "tuples"  -> "result"
               [] Head(coming[c]) = "command" -> "done"
               [] Head(coming[c]) = "fatal"   -> "error") \in {"error", "wait", "done", "result"}
        BY <3>1 DEF Result
      <3>3. coming' \in [Conns -> Seq(Result)]
        BY <1>2, <2>2, <3>1
      <3>4. inerror' \in [Conns -> BOOLEAN]
        <4>1. PICK failed \in BOOLEAN : inerror' = [inerror EXCEPT ![c] = @ \/ failed]
          BY <2>2
        <4>2. (inerror[c] \/ failed) \in BOOLEAN
          OBVIOUS
        <4> QED BY <1>2, <4>1, <4>2
      <3> QED BY <2>2, <3>2, <3>3, <3>4
    <2>3. \A failed : (failed \in IF Head(coming[c]) = "fatal" THEN BOOLEAN ELSE {FALSE}) => failed \in BOOLEAN
      OBVIOUS
    <2> QED BY <2>1, <2>2, <2>3 DEF Handles
  <1>5. PICK s \in {"error", "wait", "done", "result"} : Says(s)
    BY <1>4
  <1>6. /\ pstate' \in [Users -> {"init", "wait", "result", "done", "error", "complete"}]
        /\ asleep' \in [Users -> BOOLEAN] /\ \A v \in Users \ {u} : asleep'[v] = asleep[v]
    <2>1. Sleeps(s) \in BOOLEAN
      BY DEF Sleeps
    <2> QED BY <1>2, <1>5, <2>1
  <1> QED BY <1>1, <1>3, <1>4, <1>5, <1>6

LEMMA ReadStep ==
  ASSUME PgsqlAssumption, PgsqlInv, NEW u \in Users, Read(u) PROVE PgsqlInv'
  <1>1. Types /\ PoolInv /\ StepInv
    BY DEF PgsqlInv
  <1>2. /\ running = u /\ fsm[u] = "read" /\ fsm' = [fsm EXCEPT ![u] = "wait"]
        /\ Handles(pconn[u]) /\ gone' = gone /\ running' = running /\ u # None
    BY NoneIsNone DEF Read
  <1>3. PICK c \in Conns : c = pconn[u] /\ job[c] = u
    BY <1>1, <1>2 DEF Types, StepInv, PoolInv
  <1>4. /\ pconn[u] = c /\ pconn[u] # None
        /\ \E s \in {"error", "wait", "done", "result"} : pstate' = [pstate EXCEPT ![u] = s]
        /\ pstate' \in [Users -> {"init", "wait", "result", "done", "error", "complete"}]
        /\ coming' \in [Conns -> Seq(Result)] /\ inerror' \in [Conns -> BOOLEAN]
        /\ asleep' \in [Users -> BOOLEAN]
        /\ \A v \in Users \ {u} : asleep'[v] = asleep[v]
        /\ UNCHANGED <<name, job, free, count, pconn, queue, woken, missed>>
    BY <1>2, <1>3, HandlesOf
  <1>5. fsm \in [Users -> Step]
    BY <1>1 DEF Types
  <1>6. fsm' \in [Users -> Step] /\ \A v \in Users : fsm'[v] = IF v = u THEN "wait" ELSE fsm[v]
    BY <1>2, <1>5 DEF Step
  <1>7. \A v \in Users \ {u} : pstate'[v] = pstate[v]
    BY <1>1, <1>4 DEF Types
  <1>8. Types'
    BY <1>1, <1>2, <1>4, <1>6 DEF Types
  <1>9. StepInv'
    BY <1>1, <1>2, <1>4, <1>6, <1>7 DEF StepInv
  <1>10. PoolInv' /\ CountInv' /\ QueueInv' /\ WakerInv'
    BY <1>2, <1>4, <1>6, OwnStep
  <1> QED BY <1>8, <1>9, <1>10 DEF PgsqlInv

LEMMA EventStep ==
  ASSUME PgsqlAssumption, PgsqlInv, NEW c \in Conns, Event(c) PROVE PgsqlInv'
  <1>1. Types /\ PoolInv /\ StepInv
    BY DEF PgsqlInv
  <1>2. /\ running = None /\ job[c] # None /\ Handles(c)
        /\ gone' = gone /\ fsm' = fsm /\ running' = running
    BY DEF Event, Waits
  <1>3. PICK u \in Users : u = job[c]
    BY <1>1, <1>2 DEF Types
  <1>4. /\ pconn[u] = c /\ pconn[u] # None
        /\ \E s \in {"error", "wait", "done", "result"} : pstate' = [pstate EXCEPT ![u] = s]
        /\ pstate' \in [Users -> {"init", "wait", "result", "done", "error", "complete"}]
        /\ coming' \in [Conns -> Seq(Result)] /\ inerror' \in [Conns -> BOOLEAN]
        /\ asleep' \in [Users -> BOOLEAN]
        /\ \A v \in Users \ {u} : asleep'[v] = asleep[v]
        /\ UNCHANGED <<name, job, free, count, pconn, queue, woken, missed>>
    BY <1>2, <1>3, HandlesOf
  <1>6. gone' \in [Users -> BOOLEAN] /\ \A v \in Users : gone'[v] <=> gone[v]
    BY <1>1, <1>2 DEF Types
  <1>7. fsm[u] = "wait"
    <2>1. u # running
      BY <1>2, NoneIsNone
    <2> QED BY <1>1, <1>4, <2>1 DEF StepInv
  <1>8. \A v \in Users \ {u} : pstate'[v] = pstate[v]
    BY <1>1, <1>4 DEF Types
  <1>9. Types'
    BY <1>1, <1>2, <1>4, <1>6 DEF Types
  <1>10. StepInv'
    BY <1>1, <1>2, <1>4, <1>7, <1>8 DEF StepInv
  <1>11. PoolInv' /\ CountInv' /\ QueueInv' /\ WakerInv'
    BY <1>2, <1>4, <1>6, <1>7, OwnStep
  <1> QED BY <1>9, <1>10, <1>11 DEF PgsqlInv

LEMMA WaitStep ==
  ASSUME PgsqlAssumption, PgsqlInv, NEW u \in Users, Wait(u) PROVE PgsqlInv'
  <1>1. Types /\ PoolInv /\ CountInv /\ StepInv /\ QueueInv /\ WakerInv
    BY DEF PgsqlInv
  <1>2. running = u /\ fsm[u] = "wait" /\ u # None
    BY NoneIsNone DEF Wait
  <1>3. CASE /\ running' = None
             /\ UNCHANGED <<pool, pstate, pconn, queue, fsm, asleep, gone, woken, missed>>
    <2>1. Types'
      BY <1>1, <1>3 DEF Types, pool
    <2>2. StepInv'
      BY <1>1, <1>2, <1>3 DEF StepInv
    <2>3. PoolInv' /\ CountInv' /\ QueueInv' /\ WakerInv'
      BY <1>2, <1>3, OwnStep DEF pool
    <2> QED BY <2>1, <2>2, <2>3 DEF PgsqlInv
  <1>4. CASE /\ pstate[u] \in {"complete", "error", "result"}
             /\ fsm' = [fsm EXCEPT ![u] = IF pstate[u] = "result" THEN "read"
                                          ELSE IF pstate[u] = "error" THEN "error" ELSE "done"]
             /\ UNCHANGED <<pool, pstate, pconn, queue, asleep, gone, running, woken, missed>>
    <2>1. PICK s \in {"read", "error", "done"} :
            fsm' = [fsm EXCEPT ![u] = s] /\ (s = "read" => pstate[u] = "result")
      BY <1>4
    <2>2. fsm \in [Users -> Step]
      BY <1>1 DEF Types
    <2>3. fsm' \in [Users -> Step] /\ \A v \in Users : fsm'[v] = IF v = u THEN s ELSE fsm[v]
      BY <2>1, <2>2 DEF Step
    <2>4. Types'
      BY <1>1, <1>4, <2>3 DEF Types, pool
    <2>5. StepInv'
      BY <1>1, <1>2, <1>4, <2>1, <2>3 DEF StepInv
    <2>6. PoolInv' /\ CountInv' /\ QueueInv' /\ WakerInv'
      BY <1>2, <1>4, <2>3, OwnStep DEF pool
    <2> QED BY <2>4, <2>5, <2>6 DEF PgsqlInv
  <1>5. CASE pstate[u] = "done" /\ Released(u, asleep) /\ UNCHANGED <<fsm, gone, running>>
    <2>1. pconn[u] # None
      BY <1>1, <1>5 DEF StepInv
    <2>2. /\ Woke /\ PoolInv' /\ CountInv'
          /\ pconn' = [pconn EXCEPT ![u] = None] /\ pstate' = [pstate EXCEPT ![u] = "complete"]
          /\ name' = name /\ job' \in [Conns -> Users \cup {None}]
          /\ coming' \in [Conns -> Seq(Result)] /\ inerror' = inerror
          /\ free' \in Seq(Conns) /\ count' = count
      BY <1>5, <2>1, ReleasedOf
    <2>3. ~Member(queue, u) /\ u \notin woken /\ ~gone[u]
      BY <1>1, <1>2 DEF QueueInv
    <2>4. QueueInv' /\ WakerInv'
      BY <1>1, <1>2, <1>5, <2>2, <2>3, WokeRight
    <2>5. /\ pconn' \in [Users -> Conns \cup {None}]
          /\ pstate' \in [Users -> {"init", "wait", "result", "done", "error", "complete"}]
          /\ \A v \in Users : v # u => pconn'[v] = pconn[v] /\ pstate'[v] = pstate[v]
          /\ pconn'[u] = None /\ pstate'[u] = "complete"
      BY <1>1, <2>2 DEF Types
    <2>6. StepInv'
      BY <1>1, <1>2, <1>5, <2>5 DEF StepInv
    <2>7. Types'
      BY <1>1, <1>5, <2>2, <2>5 DEF Types, Woke
    <2> QED BY <2>2, <2>4, <2>6, <2>7 DEF PgsqlInv
  <1> QED BY <1>3, <1>4, <1>5 DEF Wait
-----------------------------------------------------------------------------
(* What goes wrong.                                                        *)

LEMMA LostStep ==
  ASSUME PgsqlAssumption, PgsqlInv, NEW c \in Conns, Lost(c) PROVE PgsqlInv'
  <1>1. Types /\ PoolInv /\ CountInv /\ StepInv /\ QueueInv /\ WakerInv
    BY DEF PgsqlInv
  <1>2. running = None /\ job[c] # None /\ name[c] # None
    BY <1>1 DEF Lost, Waits, PoolInv
  <1>3. PICK u \in Users : u = job[c]
    BY <1>1, <1>2 DEF Types
  <1>4. PICK d \in Dbs : d = name[c]
    BY <1>1, <1>2 DEF Types
  <1>5. /\ name' = [name EXCEPT ![c] = None] /\ count' = [count EXCEPT ![d] = @ - 1]
        /\ asleep' = [asleep EXCEPT ![u] = FALSE] /\ pstate' = [pstate EXCEPT ![u] = "error"]
        /\ pconn' = [pconn EXCEPT ![u] = None] /\ job' = [job EXCEPT ![c] = None]
        /\ coming' = [coming EXCEPT ![c] = <<>>] /\ inerror' = [inerror EXCEPT ![c] = FALSE]
        /\ missed' = TRUE
        /\ UNCHANGED <<free, queue, fsm, gone, running, woken>>
    BY <1>3, <1>4 DEF Lost, Waits
  <1>6. pconn[u] = c /\ u # running /\ c # None
    BY <1>1, <1>2, <1>3, NoneIsNone DEF PoolInv
  <1>7. fsm[u] # "init"
    BY <1>1, <1>6 DEF StepInv
  <1>8. name \in [Conns -> Dbs \cup {None}] /\ name' \in [Conns -> Dbs \cup {None}]
    BY <1>1, <1>5 DEF Types
  <1>9. name'[c] = None /\ \A x \in Conns \ {c} : name'[x] = name[x]
    BY <1>5, <1>8
  <1>10. PoolInv'
    BY <1>1, <1>5, <1>6, <1>9, GivesPool
  <1>11. CountInv' /\ count' \in [Dbs -> Nat]
    BY <1>1, <1>4, <1>5, CountShrinks
  <1>12. coming' \in [Conns -> Seq(Result)] /\ inerror' \in [Conns -> BOOLEAN]
    <2>1. <<>> \in Seq(Result)
      OBVIOUS
    <2> QED BY <1>1, <1>5, <2>1 DEF Types
  <1>13. /\ pconn' \in [Users -> Conns \cup {None}] /\ job' \in [Conns -> Users \cup {None}]
         /\ pstate' \in [Users -> {"init", "wait", "result", "done", "error", "complete"}]
         /\ asleep' \in [Users -> BOOLEAN]
    BY <1>1, <1>5 DEF Types
  <1>14. \A v \in Users : /\ pconn'[v] = IF v = u THEN None ELSE pconn[v]
                          /\ pstate'[v] = IF v = u THEN "error" ELSE pstate[v]
                          /\ v # u => asleep'[v] = asleep[v]
    BY <1>1, <1>5 DEF Types
  <1>15. Types'
    BY <1>1, <1>5, <1>8, <1>11, <1>12, <1>13 DEF Types
  <1>16. fsm[u] = "wait"
    BY <1>1, <1>6, <1>7 DEF StepInv
  <1>17. StepInv'
    <2>1. ASSUME NEW v \in Users
          PROVE  /\ v # running' => fsm'[v] \in {"none", "init", "wait", "ended"}
                 /\ fsm'[v] \in {"none", "init", "ended"} => pconn'[v] = None
                 /\ fsm'[v] = "query" => pconn'[v] # None
                 /\ fsm'[v] = "read" => pstate'[v] = "result"
                 /\ pstate'[v] \in {"wait", "result", "done"} => pconn'[v] # None
      <3>1. fsm'[v] = fsm[v] /\ running' = running
        BY <1>5
      <3>2. CASE v = u
        BY <1>6, <1>14, <1>16, <3>1, <3>2
      <3>3. CASE v # u
        BY <1>1, <1>14, <3>1, <3>3 DEF StepInv
      <3> QED BY <3>2, <3>3
    <2> QED BY <2>1 DEF StepInv
  <1>18. QueueInv'
    <2>1. ~Member(queue, u)
      BY <1>1, <1>7 DEF QueueInv
    <2> QED BY <1>1, <1>2, <1>5, <1>14, <2>1 DEF QueueInv
  <1>19. WakerInv'
    BY <1>5 DEF WakerInv
  <1> QED BY <1>10, <1>11, <1>15, <1>17, <1>18, <1>19 DEF PgsqlInv

LEMMA ClientGoneStep ==
  ASSUME PgsqlAssumption, PgsqlInv, NEW u \in Users, ClientGone(u) PROVE PgsqlInv'
  <1>1. Types /\ PoolInv /\ CountInv /\ StepInv /\ QueueInv /\ WakerInv
    BY DEF PgsqlInv
  <1>2. /\ running = None
        /\ gone' = [gone EXCEPT ![u] = TRUE] /\ asleep' = [asleep EXCEPT ![u] = FALSE]
        /\ woken' = woken \ {u} /\ missed' = (missed \/ u \in woken)
        /\ UNCHANGED <<pool, pstate, pconn, queue, fsm, running>>
    BY DEF ClientGone, Waits
  <1>3. gone \in [Users -> BOOLEAN] /\ asleep \in [Users -> BOOLEAN]
    BY <1>1 DEF Types
  <1>4. /\ gone' \in [Users -> BOOLEAN] /\ asleep' \in [Users -> BOOLEAN]
        /\ \A v \in Users : gone'[v] = IF v = u THEN TRUE ELSE gone[v]
        /\ \A v \in Users : v # u => asleep'[v] = asleep[v]
    BY <1>2, <1>3
  <1>5. Types'
    BY <1>1, <1>2, <1>4 DEF Types, pool
  <1>6. PoolInv' /\ CountInv'
    BY <1>1, <1>2, PoolSame DEF pool
  <1>7. StepInv'
    BY <1>1, <1>2 DEF StepInv
  <1>8. ASSUME NEW v \in Users, Member(queue', v)
        PROVE  fsm'[v] = "init" /\ (asleep'[v] \/ gone'[v]) /\ v \notin woken'
    BY <1>1, <1>2, <1>4, <1>8 DEF QueueInv
  <1>9. ASSUME NEW v \in woken' PROVE fsm'[v] = "init" /\ ~gone'[v]
    BY <1>1, <1>2, <1>4, <1>9 DEF QueueInv, Types
  <1>10. QueueInv'
    BY <1>1, <1>2, <1>8, <1>9 DEF QueueInv
  <1>11. WakerInv'
    BY <1>1, <1>2 DEF WakerInv, Busy, pool
  <1> QED BY <1>5, <1>6, <1>7, <1>10, <1>11 DEF PgsqlInv

-----------------------------------------------------------------------------
(* All steps.                                                              *)

LEMMA PgsqlStart == ASSUME PgsqlAssumption, Init PROVE PgsqlInv
  <1>1. Types
    <2>1. <<>> \in Seq(Result) /\ <<>> \in Seq(Conns) /\ <<>> \in Seq(Users)
      OBVIOUS
    <2>2. /\ name \in [Conns -> Dbs \cup {None}] /\ job \in [Conns -> Users \cup {None}]
          /\ coming \in [Conns -> Seq(Result)] /\ inerror \in [Conns -> BOOLEAN]
          /\ free \in Seq(Conns) /\ count \in [Dbs -> Nat]
      BY <2>1 DEF Init
    <2>3. /\ pstate \in [Users -> {"init", "wait", "result", "done", "error", "complete"}]
          /\ pconn \in [Users -> Conns \cup {None}] /\ queue \in Seq(Users)
          /\ asleep \in [Users -> BOOLEAN] /\ gone \in [Users -> BOOLEAN]
      BY <2>1 DEF Init
    <2>4. /\ fsm \in [Users -> Step]
          /\ running \in Users \cup {None} /\ woken \in SUBSET Users /\ missed \in BOOLEAN
      BY DEF Init, Step
    <2> QED BY <2>2, <2>3, <2>4 DEF Types
  <1>2. \A x : ~Member(free, x) /\ ~Member(queue, x)
    BY DEF Init, Member
  <1>3. PoolInv
    BY <1>2, NoneIsNone DEF Init, PoolInv, Once
  <1>4. CountInv
    <2>1. \A d \in Dbs : Of(d) = {}
      BY NoneIsNone DEF Init, Of
    <2>2. Cardinality({}) = 0 /\ ConnMax \in Nat
      BY FS_EmptySet, NoneIsNone
    <2>3. \A d \in Dbs : count[d] = 0 /\ 0 <= ConnMax
      BY <2>2 DEF Init
    <2> QED BY <2>1, <2>2, <2>3 DEF CountInv
  <1>5. StepInv /\ QueueInv /\ WakerInv
    BY <1>2 DEF Init, StepInv, QueueInv, WakerInv, Once
  <1> QED BY <1>1, <1>3, <1>4, <1>5 DEF PgsqlInv

LEMMA PgsqlStep == ASSUME PgsqlAssumption, PgsqlInv, [Next]_vars PROVE PgsqlInv'
  <1>1. ASSUME NEW u \in Users, Works(u) PROVE PgsqlInv'
    BY <1>1, RunStep, RollbackStep, TakesFreeStep, ConnectsStep, QueuesStep, QueryStep,
       WaitStep, ReadStep, EndsStep, FreedStep DEF Works
  <1>2. ASSUME UNCHANGED vars \/ BeginPass \/ EndPass PROVE PgsqlInv'
    <2>1. UNCHANGED <<pool, pstate, pconn, queue, fsm, asleep, gone, running, woken, missed>>
      BY <1>2 DEF vars, BeginPass, EndPass
    <2>2. Types'
      BY <2>1 DEF pool, PgsqlInv, Types
    <2>3. PoolInv' /\ CountInv'
      BY <2>1, PoolSame DEF pool, PgsqlInv
    <2>4. StepInv'
      BY <2>1 DEF PgsqlInv, StepInv
    <2>5. QueueInv'
      BY <2>1 DEF PgsqlInv, QueueInv
    <2>6. WakerInv'
      BY <2>1 DEF pool, PgsqlInv, WakerInv, Busy
    <2> QED BY <2>2, <2>3, <2>4, <2>5, <2>6 DEF PgsqlInv
  <1> QED BY <1>1, <1>2, StartStep, EventStep, ClientGoneStep, LostStep DEF Next, Worker

LEMMA InvImpliesRight == ASSUME PgsqlAssumption, PgsqlInv PROVE ConnectionsAreRight
  <1>1. Types /\ PoolInv /\ CountInv /\ StepInv /\ QueueInv /\ WakerInv
    BY DEF PgsqlInv
  <1>2. /\ free \in Seq(Conns) /\ queue \in Seq(Users) /\ Once(free) /\ Once(queue)
    BY <1>1 DEF Types, PoolInv, QueueInv
  <1>3. Len(free) = Cardinality(Range(free)) /\ Len(queue) = Cardinality(Range(queue))
    BY <1>2, LengthOf
  <1>4. /\ \A x : x \in Range(free) <=> Member(free, x)
        /\ \A x : x \in Range(queue) <=> Member(queue, x)
    BY <1>2 DEF Range, Member
  <1>5. \A c \in Conns :
          (IF c \in Range(free) THEN 1 ELSE 0) + (IF job[c] # None THEN 1 ELSE 0)
            = (IF name[c] # None THEN 1 ELSE 0)
    BY <1>1, <1>4 DEF PoolInv
  <1>6. PoolIsRight
    BY <1>1, <1>3, <1>5 DEF PoolIsRight, PoolInv, CountInv, Of
  <1>7. SomebodyWakes
    BY <1>1 DEF SomebodyWakes, WakerInv
  <1>8. QueueIsRight
    <2>1. \A u \in Range(queue) : u \in Users /\ Member(queue, u)
      BY <1>2, <1>4 DEF Member
    <2>2. \A u \in Range(queue) : fsm[u] = "init" /\ (asleep[u] \/ gone[u])
      BY <1>1, <2>1 DEF QueueInv
    <2>3. \A u \in Range(queue) : pconn[u] = None
      BY <1>1, <2>1, <2>2 DEF StepInv
    <2> QED BY <1>3, <2>2, <2>3 DEF QueueIsRight
  <1> QED BY <1>6, <1>7, <1>8 DEF ConnectionsAreRight

\* The connections of pgsql.c are right: each belongs to the pool or to one
\* request, never both, their number per database is what its count says and
\* at most its limit, whatever goes wrong; who waits for one sleeps in the
\* queue, once, and has somebody to wake it unless one was missed.
THEOREM ConnectionsStayRight == ASSUME PgsqlAssumption PROVE Spec => []ConnectionsAreRight
  <1>1. Init => PgsqlInv
    BY PgsqlStart
  <1>2. PgsqlInv /\ [Next]_vars => PgsqlInv'
    BY PgsqlStep
  <1>3. PgsqlInv => ConnectionsAreRight
    BY InvImpliesRight
  <1> QED BY <1>1, <1>2, <1>3, PTL DEF Spec
-----------------------------------------------------------------------------
\* Background tasks (KoreTasks).
CONSTANTS Tasks, MaxThreads

VARIABLES tstate, channel, peer, request, calling, to, order, tasks, pc, hand

Jobs == INSTANCE KoreTasks

Threads    == 1..MaxThreads
TaskStates == {"none", "created", "running", "finished", "destroyed"}
Places     == {"none", "top", "waiting", "signalled", "took", "entry", "crashed"}

JobTypes ==
  /\ tstate \in [Tasks -> TaskStates] /\ peer \in [Tasks -> BOOLEAN]
  /\ request \in [Tasks -> {"awake", "asleep", "deleted", "freed"}]
  /\ calling \in Tasks \cup {None} /\ to \in 0..MaxThreads
  /\ order \in Seq(Threads) /\ Len(order) <= MaxThreads
  /\ tasks \in [Threads -> Seq(Tasks)]
  /\ pc \in [Threads -> Places] /\ hand \in [Threads -> Tasks \cup {None}]

\* A thread works on a task between taking and finishing it, and those that
\* were not started do nothing.
ThreadInv ==
  /\ \A h \in Threads : pc[h] \in {"took", "entry"} <=> hand[h] # None
  /\ \A h \in Threads : h > Len(order) => pc[h] = "none"
  /\ Len(order) < MaxThreads \/ order # <<>>

\* A task that is in a list or in a hand is in that list or hand alone, its
\* thread has not finished it, and the worker has not seen it finished.
HolderInv ==
  /\ \A h \in Threads : Once(tasks[h])
  /\ \A g, h \in Threads : \A t \in Tasks : Member(tasks[g], t) /\ Member(tasks[h], t) => g = h
  /\ \A g, h \in Threads : hand[g] # None /\ hand[g] = hand[h] => g = h
  /\ \A g, h \in Threads : hand[h] # None => ~Member(tasks[g], hand[h])
  /\ \A h \in Threads : \A t \in Tasks :
       Member(tasks[h], t) => peer[t] /\ tstate[t] \in {"created", "running"}
  /\ \A h \in Threads : hand[h] # None =>
       peer[hand[h]] /\ tstate[hand[h]] \in {"created", "running"}

\* Between appending to a list and signalling, the worker does nothing else.
SignalInv ==
  /\ calling = None <=> to = 0
  /\ \A h \in Threads : pc[h] = "waiting" /\ tasks[h] # <<>> => to = h

JobsInv == JobTypes /\ ThreadInv /\ HolderInv /\ SignalInv

LEMMA JobsStart == ASSUME Jobs!TasksAssumption, Jobs!Init PROVE JobsInv
  <1>1. MaxThreads \in Nat /\ MaxThreads > 0 /\ None \notin Tasks /\ Jobs!Threads = Threads
    BY DEF Jobs!TasksAssumption, Jobs!Threads, Threads
  <1>2. /\ tstate = [t \in Tasks |-> "none"] /\ peer = [t \in Tasks |-> FALSE]
        /\ request = [t \in Tasks |-> "awake"] /\ calling = None /\ to = 0 /\ order = <<>>
        /\ tasks = [h \in Threads |-> <<>>] /\ pc = [h \in Threads |-> "none"]
        /\ hand = [h \in Threads |-> None]
    BY <1>1 DEF Jobs!Init
  <1>3. /\ order \in Seq(Threads) /\ Len(order) = 0
        /\ \A h \in Threads : tasks[h] = <<>> /\ tasks[h] \in Seq(Tasks)
        /\ \A h \in Threads : \A t : ~Member(tasks[h], t)
        /\ \A h \in Threads : Once(tasks[h])
    BY <1>2 DEF Member, Once
  <1>4. JobTypes
    BY <1>1, <1>2, <1>3 DEF JobTypes, TaskStates, Places
  <1>5. ThreadInv
    BY <1>1, <1>2, <1>3 DEF ThreadInv
  <1>6. HolderInv
    BY <1>2, <1>3 DEF HolderInv
  <1>7. SignalInv
    BY <1>2, <1>3 DEF SignalInv
  <1> QED BY <1>4, <1>5, <1>6, <1>7 DEF JobsInv

\* The thread kore_task_run chooses is a thread, and a new one does nothing.
LEMMA NextThread ==
  ASSUME Jobs!TasksAssumption, JobTypes, ThreadInv
  PROVE  LET o == Append(IF Jobs!Spawned THEN order ELSE Tail(order), Jobs!Next1)
         IN /\ Jobs!Next1 \in Threads /\ o \in Seq(Threads) /\ o # <<>>
            /\ Len(o) <= MaxThreads
            /\ Jobs!Spawned => pc[Jobs!Next1] = "none" /\ Len(o) = Jobs!Next1
            /\ ~Jobs!Spawned => Len(o) = Len(order)
  <1>1. MaxThreads \in Nat /\ order \in Seq(Threads) /\ Len(order) \in Nat
        /\ Len(order) <= MaxThreads
    BY DEF Jobs!TasksAssumption, JobTypes
  <1>2. CASE Jobs!Spawned
    <2>1. Len(order) < MaxThreads /\ Jobs!Next1 = Len(order) + 1
      BY <1>2 DEF Jobs!Spawned, Jobs!Next1
    <2>2. Jobs!Next1 \in Threads /\ Jobs!Next1 > Len(order)
      BY <1>1, <2>1 DEF Threads
    <2>3. /\ Append(order, Jobs!Next1) \in Seq(Threads)
          /\ Len(Append(order, Jobs!Next1)) = Len(order) + 1
      BY <1>1, <2>2
    <2>4. pc[Jobs!Next1] = "none"
      BY <2>2 DEF ThreadInv
    <2> QED BY <1>1, <1>2, <2>1, <2>2, <2>3, <2>4
  <1>3. CASE ~Jobs!Spawned
    <2>1. order # <<>> /\ Jobs!Next1 = Head(order)
      BY <1>3 DEF Jobs!Spawned, Jobs!Next1, ThreadInv
    <2>2. /\ Head(order) \in Threads /\ Tail(order) \in Seq(Threads)
          /\ Len(Tail(order)) = Len(order) - 1
      BY <1>1, <2>1
    <2>3. /\ Append(Tail(order), Head(order)) \in Seq(Threads)
          /\ Len(Append(Tail(order), Head(order))) = Len(order)
      BY <1>1, <2>2
    <2>4. Append(Tail(order), Head(order)) # <<>>
      BY <1>1, <2>1, <2>3
    <2> QED BY <1>1, <1>3, <2>1, <2>2, <2>3, <2>4
  <1> QED BY <1>2, <1>3

LEMMA RunKeeps ==
  ASSUME Jobs!TasksAssumption, JobsInv, NEW t \in Tasks, Jobs!Run(t) PROVE JobsInv'
  <1> DEFINE n == Jobs!Next1
             o == Append(IF Jobs!Spawned THEN order ELSE Tail(order), Jobs!Next1)
  <1>1. JobTypes /\ ThreadInv /\ HolderInv /\ SignalInv
    BY DEF JobsInv
  <1>2. /\ n \in Threads /\ o \in Seq(Threads) /\ o # <<>> /\ Len(o) <= MaxThreads
        /\ Jobs!Spawned => pc[n] = "none" /\ Len(o) = n
        /\ ~Jobs!Spawned => Len(o) = Len(order)
    BY <1>1, NextThread
  <1>3. /\ calling = None /\ tstate[t] = "none" /\ hand' = hand
        /\ tstate' = [tstate EXCEPT ![t] = "created"] /\ peer' = [peer EXCEPT ![t] = TRUE]
        /\ request' = [request EXCEPT ![t] = "asleep"] /\ order' = o
        /\ tasks' = [tasks EXCEPT ![n] = Append(tasks[n], t)]
        /\ pc' = [pc EXCEPT ![n] = IF Jobs!Spawned THEN "top" ELSE pc[n]]
        /\ calling' = t /\ to' = n
    BY DEF Jobs!Run
  <1>a. Jobs!Spawned <=> Len(order) < MaxThreads
    BY DEF Jobs!Spawned
  <1> HIDE DEF n, o
  <1>4. MaxThreads \in Nat /\ None \notin Tasks /\ n \in Nat /\ n # 0
    BY <1>2 DEF Jobs!TasksAssumption, Threads
  <1>5. /\ tasks[n] \in Seq(Tasks) /\ Once(tasks[n]) /\ \A h \in Threads : ~Member(tasks[h], t)
        /\ \A h \in Threads : hand[h] # t
    <2>1. tasks[n] \in Seq(Tasks)
      BY <1>1, <1>2 DEF JobTypes
    <2>2. Once(tasks[n])
      BY <1>1, <1>2 DEF HolderInv
    <2>3. tstate[t] \notin {"created", "running"} /\ t # None
      BY <1>3, <1>4
    <2> QED BY <1>1, <2>1, <2>2, <2>3 DEF HolderInv
  <1>6. /\ Append(tasks[n], t) \in Seq(Tasks) /\ Once(Append(tasks[n], t))
        /\ \A r : Member(Append(tasks[n], t), r) <=> Member(tasks[n], r) \/ r = t
    BY <1>2, <1>5, Grown
  <1>7. /\ tasks' \in [Threads -> Seq(Tasks)]
        /\ \A h \in Threads : Once(tasks'[h])
        /\ \A h \in Threads : \A r : Member(tasks'[h], r) <=> Member(tasks[h], r) \/ (r = t /\ h = n)
    BY <1>1, <1>2, <1>3, <1>6 DEF JobTypes, HolderInv
  <1>8. \A h \in Threads : h # n => tasks'[h] = tasks[h] /\ pc'[h] = pc[h]
    BY <1>1, <1>3 DEF JobTypes
  <1>9. /\ pc' \in [Threads -> Places]
        /\ Jobs!Spawned => pc'[n] = "top"
        /\ ~Jobs!Spawned => pc'[n] = pc[n]
    BY <1>1, <1>2, <1>3 DEF JobTypes, Places
  <1>10. \A r \in Tasks : r # t => tstate'[r] = tstate[r] /\ peer'[r] = peer[r]
    BY <1>1, <1>3 DEF JobTypes
  <1>11. tstate'[t] = "created" /\ peer'[t]
    BY <1>1, <1>3 DEF JobTypes
  <1>12. JobTypes'
    <2>1. /\ tstate' \in [Tasks -> TaskStates] /\ peer' \in [Tasks -> BOOLEAN]
          /\ request' \in [Tasks -> {"awake", "asleep", "deleted", "freed"}]
      BY <1>1, <1>3 DEF JobTypes, TaskStates
    <2>2. calling' \in Tasks \cup {None} /\ to' \in 0..MaxThreads
      BY <1>2, <1>3, <1>4 DEF Threads
    <2>3. order' \in Seq(Threads) /\ Len(order') <= MaxThreads
      BY <1>2, <1>3
    <2>4. hand' \in [Threads -> Tasks \cup {None}]
      BY <1>1, <1>3 DEF JobTypes
    <2> QED BY <1>7, <1>9, <2>1, <2>2, <2>3, <2>4 DEF JobTypes
  <1>13. ThreadInv'
    <2>1. \A h \in Threads : pc'[h] \in {"took", "entry"} <=> hand'[h] # None
      BY <1>1, <1>2, <1>3, <1>8, <1>9 DEF ThreadInv
    <2>2. \A h \in Threads : h > Len(o) => pc'[h] = "none"
      <3>1. Len(order) \in Nat /\ Len(o) \in Nat /\ Len(order) <= MaxThreads
        BY <1>1, <1>2 DEF JobTypes
      <3>2. Len(o) >= Len(order)
        <4>1. CASE Jobs!Spawned
          <5>1. ~(n <= Len(order))
            <6>1. Jobs!Next1 = Len(order) + 1
              BY <4>1 DEF Jobs!Next1
            <6> QED BY <3>1, <6>1 DEF n
          <5> QED BY <1>2, <1>4, <3>1, <4>1, <5>1
        <4>2. CASE ~Jobs!Spawned
          BY <1>2, <3>1, <4>2
        <4> QED BY <4>1, <4>2
      <3>3. ASSUME NEW h \in Threads, h > Len(o) PROVE pc'[h] = "none"
        <4>1. h > Len(order) /\ h \in Nat
          BY <3>1, <3>2, <3>3 DEF Threads
        <4>2. CASE h # n
          BY <1>1, <1>8, <4>1, <4>2 DEF ThreadInv
        <4>3. CASE h = n
          <5>1. ~Jobs!Spawned
            BY <1>2, <3>1, <3>3, <4>1, <4>3
          <5> QED BY <1>1, <1>9, <4>1, <4>3, <5>1 DEF ThreadInv
        <4> QED BY <4>2, <4>3
      <3> QED BY <3>3
    <2> QED BY <1>2, <1>3, <2>1, <2>2 DEF ThreadInv
  <1>14. HolderInv'
    BY <1>1, <1>3, <1>5, <1>7, <1>10, <1>11, <1>12 DEF HolderInv, JobTypes
  <1>15. SignalInv'
    <2>1. \A h \in Threads : pc[h] = "waiting" => tasks[h] = <<>>
      BY <1>1, <1>3 DEF SignalInv, Threads
    <2> QED BY <1>2, <1>3, <1>4, <1>8, <2>1 DEF SignalInv
  <1> QED BY <1>12, <1>13, <1>14, <1>15 DEF JobsInv

LEMMA SignalsKeeps ==
  ASSUME Jobs!TasksAssumption, JobsInv, Jobs!Signals PROVE JobsInv'
  <1>1. JobTypes /\ ThreadInv /\ HolderInv /\ SignalInv
    BY DEF JobsInv
  <1>2. /\ pc' = [pc EXCEPT ![to] = IF pc[to] = "waiting" THEN "signalled" ELSE pc[to]]
        /\ calling # None /\ calling' = None /\ to' = 0
        /\ UNCHANGED <<tstate, channel, peer, request, order, tasks, hand>>
    BY DEF Jobs!Signals, Jobs!Signalled
  <1>3. to \in Threads
    BY <1>1, <1>2 DEF JobTypes, SignalInv, Threads, Jobs!TasksAssumption
  <1>4. /\ pc' \in [Threads -> Places]
        /\ \A h \in Threads : h # to => pc'[h] = pc[h]
        /\ pc[to] = "waiting" => pc'[to] = "signalled"
        /\ pc[to] # "waiting" => pc'[to] = pc[to]
    BY <1>1, <1>2, <1>3 DEF JobTypes, Places
  <1>5. JobTypes'
    BY <1>1, <1>2, <1>4 DEF JobTypes, Jobs!TasksAssumption
  <1>6. ThreadInv'
    BY <1>1, <1>2, <1>3, <1>4 DEF ThreadInv
  <1>7. HolderInv'
    BY <1>1, <1>2 DEF HolderInv
  <1>8. SignalInv'
    BY <1>1, <1>2, <1>3, <1>4 DEF SignalInv
  <1> QED BY <1>5, <1>6, <1>7, <1>8 DEF JobsInv

\* Nothing the worker does with a task that no thread has disturbs the rest.
LEMMA OthersKeep ==
  ASSUME Jobs!TasksAssumption, JobsInv, JobTypes',
         \A t \in Tasks : tstate[t] \in {"created", "running"} /\ peer[t]
                            => tstate'[t] \in {"created", "running"},
         UNCHANGED <<peer, calling, to, order, tasks, pc, hand>>
  PROVE  JobsInv'
  <1>1. JobTypes /\ ThreadInv /\ HolderInv /\ SignalInv
    BY DEF JobsInv
  <1>2. ThreadInv'
    BY <1>1 DEF ThreadInv
  <1>3. HolderInv'
    BY <1>1 DEF HolderInv, JobTypes
  <1>4. SignalInv'
    BY <1>1 DEF SignalInv
  <1> QED BY <1>2, <1>3, <1>4 DEF JobsInv

LEMMA HandleKeeps ==
  ASSUME Jobs!TasksAssumption, JobsInv, NEW t \in Tasks,
         Jobs!Handle(t) \/ Jobs!PageHandler(t) \/ Jobs!ClientGone(t) \/ Jobs!RequestFreed(t)
  PROVE  JobsInv'
  <1>1. JobTypes
    BY DEF JobsInv
  <1>2. CASE Jobs!Handle(t)
    <2>1. /\ request' = [request EXCEPT ![t] = IF request[t] = "asleep" THEN "awake" ELSE request[t]]
          /\ tstate' = [tstate EXCEPT ![t] =
               IF peer[t] THEN tstate[t]
               ELSE IF request[t] = "deleted" THEN "destroyed" ELSE "finished"]
          /\ UNCHANGED <<peer, calling, to, order, tasks, pc, hand>>
      BY <1>2 DEF Jobs!Handle
    <2>2. JobTypes'
      BY <1>1, <2>1 DEF JobTypes, TaskStates
    <2>3. \A r \in Tasks : tstate[r] \in {"created", "running"} /\ peer[r]
                            => tstate'[r] \in {"created", "running"}
      BY <1>1, <2>1 DEF JobTypes
    <2> QED BY <2>1, <2>2, <2>3, OthersKeep
  <1>3. CASE Jobs!PageHandler(t)
    <2>1. /\ \/ tstate' = tstate
             \/ tstate[t] = "finished" /\ tstate' = [tstate EXCEPT ![t] = "destroyed"]
          /\ \/ request' = [request EXCEPT ![t] = "asleep"]
             \/ request' = [request EXCEPT ![t] = "deleted"]
          /\ UNCHANGED <<peer, calling, to, order, tasks, pc, hand>>
      <3>1. CASE tstate[t] # "finished"
        BY <1>3, <3>1 DEF Jobs!PageHandler
      <3>2. CASE tstate[t] = "finished"
        BY <1>3, <3>2 DEF Jobs!PageHandler
      <3> QED BY <3>1, <3>2
    <2>2. JobTypes'
      BY <1>1, <2>1 DEF JobTypes, TaskStates
    <2>3. \A r \in Tasks : tstate[r] \in {"created", "running"} /\ peer[r]
                            => tstate'[r] \in {"created", "running"}
      BY <1>1, <2>1 DEF JobTypes
    <2> QED BY <2>1, <2>2, <2>3, OthersKeep
  <1>4. CASE Jobs!ClientGone(t)
    <2>1. /\ tstate' = tstate /\ request' = [request EXCEPT ![t] = "deleted"]
          /\ UNCHANGED <<peer, calling, to, order, tasks, pc, hand>>
      BY <1>4 DEF Jobs!ClientGone
    <2>2. JobTypes'
      BY <1>1, <2>1 DEF JobTypes
    <2> QED BY <2>1, <2>2, OthersKeep
  <1>5. CASE Jobs!RequestFreed(t)
    <2>1. /\ tstate[t] \in {"finished", "destroyed"}
          /\ tstate' = [tstate EXCEPT ![t] = "destroyed"]
          /\ request' = [request EXCEPT ![t] = "freed"]
          /\ UNCHANGED <<peer, calling, to, order, tasks, pc, hand>>
      BY <1>5 DEF Jobs!RequestFreed, Jobs!Finished
    <2>2. JobTypes'
      BY <1>1, <2>1 DEF JobTypes, TaskStates
    <2>3. \A r \in Tasks : tstate[r] \in {"created", "running"} /\ peer[r]
                            => tstate'[r] \in {"created", "running"}
      BY <1>1, <2>1 DEF JobTypes
    <2> QED BY <2>1, <2>2, <2>3, OthersKeep
  <1> QED BY <1>2, <1>3, <1>4, <1>5

\* What the thread takes leaves its list.
LEMMA TakesKeeps ==
  ASSUME Jobs!TasksAssumption, JobsInv, NEW h \in Threads, Jobs!Takes(h),
         pc[h] \in {"top", "signalled", "waiting"},
         UNCHANGED <<tstate, channel, peer, request, calling, to, order>>
  PROVE  JobsInv'
  <1>1. JobTypes /\ ThreadInv /\ HolderInv /\ SignalInv
    BY DEF JobsInv
  <1>2. hand[h] = None /\ h <= Len(order) /\ h \in Nat /\ Len(order) \in Nat
    BY <1>1 DEF ThreadInv, JobTypes, Threads
  <1>3. CASE tasks[h] = <<>>
    <2>1. pc' = [pc EXCEPT ![h] = "crashed"] /\ UNCHANGED <<tasks, hand>>
      BY <1>3 DEF Jobs!Takes
    <2>2. /\ pc' \in [Threads -> Places] /\ pc'[h] = "crashed"
          /\ \A g \in Threads : g # h => pc'[g] = pc[g]
      BY <1>1, <2>1 DEF JobTypes, Places
    <2>3. JobTypes'
      BY <1>1, <2>1, <2>2 DEF JobTypes
    <2>4. ThreadInv'
      BY <1>1, <1>2, <2>1, <2>2 DEF ThreadInv
    <2>5. HolderInv'
      BY <1>1, <2>1 DEF HolderInv
    <2>6. SignalInv'
      BY <1>1, <2>1, <2>2 DEF SignalInv
    <2> QED BY <2>3, <2>4, <2>5, <2>6 DEF JobsInv
  <1>4. CASE tasks[h] # <<>>
    <2> DEFINE x == Head(tasks[h])
               s == Tail(tasks[h])
    <2>1. /\ hand' = [hand EXCEPT ![h] = x] /\ tasks' = [tasks EXCEPT ![h] = s]
          /\ pc' = [pc EXCEPT ![h] = "took"]
      BY <1>4 DEF Jobs!Takes
    <2>2. tasks[h] \in Seq(Tasks) /\ Once(tasks[h]) /\ Len(tasks[h]) \in Nat /\ Len(tasks[h]) >= 1
      BY <1>1, <1>4 DEF JobTypes, HolderInv
    <2>3. /\ x \in Tasks /\ Member(tasks[h], x)
          /\ s \in Seq(Tasks) /\ Once(s) /\ \A r : Member(s, r) <=> Member(tasks[h], r) /\ r # x
      BY <1>4, <2>2, FirstOut
    <2> HIDE DEF x, s
    <2>4. /\ pc' \in [Threads -> Places] /\ pc'[h] = "took"
          /\ \A g \in Threads : g # h => pc'[g] = pc[g]
      BY <1>1, <2>1 DEF JobTypes, Places
    <2>5. /\ tasks' \in [Threads -> Seq(Tasks)] /\ tasks'[h] = s
          /\ \A g \in Threads : g # h => tasks'[g] = tasks[g]
      BY <1>1, <2>1, <2>3 DEF JobTypes
    <2>6. /\ hand' \in [Threads -> Tasks \cup {None}] /\ hand'[h] = x
          /\ \A g \in Threads : g # h => hand'[g] = hand[g]
      BY <1>1, <2>1, <2>3 DEF JobTypes
    <2>7. x # None
      BY <2>3 DEF Jobs!TasksAssumption
    <2>8. JobTypes'
      BY <1>1, <2>4, <2>5, <2>6 DEF JobTypes
    <2>9. ThreadInv'
      BY <1>1, <1>2, <2>4, <2>6, <2>7 DEF ThreadInv
    <2>10. HolderInv'
      <3>1. \A g \in Threads : Once(tasks'[g])
        BY <1>1, <2>3, <2>5 DEF HolderInv
      <3>2. \A g \in Threads : \A r : Member(tasks'[g], r) => Member(tasks[g], r) /\ r # x
        <4>1. \A g \in Threads : g # h => ~Member(tasks[g], x)
          BY <1>1, <2>3 DEF HolderInv
        <4> QED BY <2>3, <2>5, <4>1
      <3>3. \A g \in Threads : g # h => hand[g] # x
        BY <1>1, <2>3, <2>7 DEF HolderInv
      <3>4. peer[x] /\ tstate[x] \in {"created", "running"}
        BY <1>1, <2>3 DEF HolderInv
      <3>5. \A f, g \in Threads : hand'[f] # None /\ hand'[f] = hand'[g] => f = g
        BY <1>1, <2>6, <3>3 DEF HolderInv
      <3>6. \A f, g \in Threads : hand'[g] # None => ~Member(tasks'[f], hand'[g])
        BY <1>1, <2>6, <3>2 DEF HolderInv
      <3>7. \A g \in Threads : hand'[g] # None =>
              peer[hand'[g]] /\ tstate[hand'[g]] \in {"created", "running"}
        BY <1>1, <2>6, <3>4 DEF HolderInv
      <3>8. \A f, g \in Threads : \A r \in Tasks :
              Member(tasks'[f], r) /\ Member(tasks'[g], r) => f = g
        BY <1>1, <3>2 DEF HolderInv
      <3>9. \A g \in Threads : \A r \in Tasks :
              Member(tasks'[g], r) => peer[r] /\ tstate[r] \in {"created", "running"}
        BY <1>1, <3>2 DEF HolderInv
      <3> QED BY <3>1, <3>5, <3>6, <3>7, <3>8, <3>9 DEF HolderInv
    <2>11. SignalInv'
      BY <1>1, <2>4, <2>5 DEF SignalInv
    <2> QED BY <2>8, <2>9, <2>10, <2>11 DEF JobsInv
  <1> QED BY <1>3, <1>4

LEMMA ThreadKeeps ==
  ASSUME Jobs!TasksAssumption, JobsInv, NEW h \in Threads,
         Jobs!ThreadStep(h) \/ Jobs!Spurious(h) \/ Jobs!Writes(h)
  PROVE  JobsInv'
  <1>1. JobTypes /\ ThreadInv /\ HolderInv /\ SignalInv
    BY DEF JobsInv
  <1>2. CASE Jobs!Top(h)
    <2>1. pc[h] = "top" /\ UNCHANGED <<tstate, channel, peer, request, calling, to, order>>
      BY <1>2 DEF Jobs!Top, Jobs!main
    <2>2. CASE tasks[h] = <<>>
      <3>1. pc' = [pc EXCEPT ![h] = "waiting"] /\ UNCHANGED <<tasks, hand>>
        BY <1>2, <2>2 DEF Jobs!Top
      <3>2. /\ pc' \in [Threads -> Places] /\ pc'[h] = "waiting"
            /\ \A g \in Threads : g # h => pc'[g] = pc[g]
        BY <1>1, <3>1 DEF JobTypes, Places
      <3>3. JobTypes'
        BY <1>1, <2>1, <3>1, <3>2 DEF JobTypes
      <3>4. ThreadInv'
        BY <1>1, <2>1, <3>1, <3>2 DEF ThreadInv
      <3>5. HolderInv'
        BY <1>1, <2>1, <3>1 DEF HolderInv
      <3>6. SignalInv'
        BY <1>1, <2>1, <2>2, <3>1, <3>2 DEF SignalInv
      <3> QED BY <3>3, <3>4, <3>5, <3>6 DEF JobsInv
    <2>3. CASE tasks[h] # <<>>
      <3>1. Jobs!Takes(h)
        BY <1>2, <2>3 DEF Jobs!Top
      <3> QED BY <2>1, <3>1, TakesKeeps
    <2> QED BY <2>2, <2>3
  <1>3. CASE Jobs!Wakes(h) \/ Jobs!Spurious(h)
    <2>1. /\ pc[h] \in {"signalled", "waiting"} /\ Jobs!Takes(h)
          /\ UNCHANGED <<tstate, channel, peer, request, calling, to, order>>
      BY <1>3 DEF Jobs!Wakes, Jobs!Spurious, Jobs!WakesFrom, Jobs!main
    <2> QED BY <2>1, TakesKeeps
  <1>4. CASE Jobs!Executes(h)
    <2>1. /\ pc[h] = "took" /\ tstate' = [tstate EXCEPT ![hand[h]] = "running"]
          /\ pc' = [pc EXCEPT ![h] = "entry"]
          /\ UNCHANGED <<channel, peer, request, calling, to, order, tasks, hand>>
      BY <1>4 DEF Jobs!Executes, Jobs!main
    <2>2. /\ pc' \in [Threads -> Places] /\ pc'[h] = "entry"
          /\ \A g \in Threads : g # h => pc'[g] = pc[g]
      BY <1>1, <2>1 DEF JobTypes, Places
    <2>3. /\ tstate' \in [Tasks -> TaskStates]
          /\ \A r \in Tasks : tstate'[r] = tstate[r] \/ tstate'[r] = "running"
      BY <1>1, <2>1 DEF JobTypes, TaskStates
    <2>4. JobTypes'
      BY <1>1, <2>1, <2>2, <2>3 DEF JobTypes
    <2>5. ThreadInv'
      BY <1>1, <2>1, <2>2 DEF ThreadInv
    <2>6. HolderInv'
      BY <1>1, <2>1, <2>3 DEF HolderInv, JobTypes
    <2>7. SignalInv'
      BY <1>1, <2>1, <2>2 DEF SignalInv
    <2> QED BY <2>4, <2>5, <2>6, <2>7 DEF JobsInv
  <1>5. CASE Jobs!Finishes(h)
    <2>1. /\ pc[h] = "entry" /\ peer' = [peer EXCEPT ![hand[h]] = FALSE]
          /\ hand' = [hand EXCEPT ![h] = None] /\ pc' = [pc EXCEPT ![h] = "top"]
          /\ UNCHANGED <<tstate, channel, request, calling, to, order, tasks>>
      BY <1>5 DEF Jobs!Finishes, Jobs!Closes, Jobs!main
    <2>2. /\ pc' \in [Threads -> Places] /\ pc'[h] = "top"
          /\ \A g \in Threads : g # h => pc'[g] = pc[g]
      BY <1>1, <2>1 DEF JobTypes, Places
    <2>3. hand[h] # None /\ h <= Len(order) /\ h \in Nat /\ Len(order) \in Nat
      BY <1>1, <2>1 DEF ThreadInv, JobTypes, Threads
    <2>4. /\ hand' \in [Threads -> Tasks \cup {None}] /\ hand'[h] = None
          /\ \A g \in Threads : g # h => hand'[g] = hand[g]
      BY <1>1, <2>1 DEF JobTypes
    <2>5. /\ peer' \in [Tasks -> BOOLEAN]
          /\ \A r \in Tasks : r # hand[h] => peer'[r] = peer[r]
      BY <1>1, <2>1 DEF JobTypes
    <2>6. JobTypes'
      BY <1>1, <2>1, <2>2, <2>4, <2>5 DEF JobTypes
    <2>7. ThreadInv'
      BY <1>1, <2>1, <2>2, <2>3, <2>4 DEF ThreadInv
    <2>8. HolderInv'
      <3>1. \A g \in Threads : ~Member(tasks[g], hand[h])
        BY <1>1, <2>3 DEF HolderInv
      <3>2. \A g \in Threads : g # h => hand[g] # hand[h]
        BY <1>1, <2>3 DEF HolderInv
      <3>3. \A f, g \in Threads : hand'[f] # None /\ hand'[f] = hand'[g] => f = g
        BY <1>1, <2>4 DEF HolderInv
      <3>4. \A f, g \in Threads : hand'[g] # None => ~Member(tasks[f], hand'[g])
        BY <1>1, <2>4 DEF HolderInv
      <3>5. \A g \in Threads : hand'[g] # None =>
              peer'[hand'[g]] /\ tstate[hand'[g]] \in {"created", "running"}
        <4>1. \A g \in Threads : hand'[g] # None => hand[g] \in Tasks /\ hand'[g] = hand[g] /\ g # h
          BY <1>1, <2>4 DEF JobTypes
        <4> QED BY <1>1, <2>5, <3>2, <4>1 DEF HolderInv
      <3>6. \A g \in Threads : \A r \in Tasks :
              Member(tasks[g], r) => peer'[r] /\ tstate[r] \in {"created", "running"}
        BY <1>1, <2>5, <3>1 DEF HolderInv
      <3> QED BY <1>1, <2>1, <3>3, <3>4, <3>5, <3>6 DEF HolderInv
    <2>9. SignalInv'
      BY <1>1, <2>1, <2>2 DEF SignalInv
    <2> QED BY <2>6, <2>7, <2>8, <2>9 DEF JobsInv
  <1>6. CASE Jobs!Writes(h)
    <2>1. UNCHANGED <<tstate, peer, request, calling, to, order, tasks, pc, hand>>
      BY <1>6 DEF Jobs!Writes, Jobs!main
    <2> QED BY <1>1, <2>1 DEF JobsInv, JobTypes, ThreadInv, HolderInv, SignalInv
  <1> QED BY <1>2, <1>3, <1>4, <1>5, <1>6 DEF Jobs!ThreadStep

LEMMA JobsStep == ASSUME Jobs!TasksAssumption, JobsInv, [Jobs!Next]_(Jobs!vars) PROVE JobsInv'
  <1>1. CASE Jobs!Next
    <2>1. Jobs!Threads = Threads
      BY DEF Jobs!Threads, Threads
    <2>2. CASE \E t \in Tasks : Jobs!MainStep(t) \/ Jobs!ClientGone(t)
      BY <2>2, RunKeeps, HandleKeeps DEF Jobs!MainStep
    <2>3. CASE \E h \in Threads : Jobs!ThreadStep(h) \/ Jobs!Spurious(h) \/ Jobs!Writes(h)
      BY <2>3, ThreadKeeps
    <2> QED BY <1>1, <2>1, <2>2, <2>3, SignalsKeeps DEF Jobs!Next
  <1>2. CASE UNCHANGED Jobs!vars
    BY <1>2 DEF Jobs!vars, Jobs!main, JobsInv, JobTypes, ThreadInv, HolderInv, SignalInv
  <1> QED BY <1>1, <1>2

LEMMA JobsRight ==
  ASSUME Jobs!TasksAssumption, JobsInv
  PROVE  Jobs!NotFreedInUse /\ Jobs!NoTaskForgotten
  <1>1. JobTypes /\ HolderInv /\ SignalInv /\ Jobs!Threads = Threads
    BY DEF JobsInv, Jobs!Threads, Threads
  <1>2. \A h \in Threads : \A t : t \in Jobs!Range(tasks[h]) <=> Member(tasks[h], t)
    BY <1>1 DEF JobTypes, Jobs!Range, Member
  <1>3. \A t \in Tasks : \A h \in Jobs!Holders(t) :
          h \in Threads /\ (hand[h] = t \/ Member(tasks[h], t))
    BY <1>1, <1>2 DEF Jobs!Holders
  <1>4. ASSUME NEW t \in Tasks, NEW h \in Jobs!Holders(t)
        PROVE  tstate[t] \in {"created", "running"}
    <2>1. None \notin Tasks
      BY DEF Jobs!TasksAssumption
    <2> QED BY <1>1, <1>3, <1>4, <2>1 DEF HolderInv
  <1>5. ASSUME NEW t \in Tasks, NEW g \in Jobs!Holders(t), NEW h \in Jobs!Holders(t) PROVE g = h
    <2>1. None \notin Tasks /\ t # None
      BY DEF Jobs!TasksAssumption
    <2>2. /\ g \in Threads /\ (hand[g] = t \/ Member(tasks[g], t))
          /\ h \in Threads /\ (hand[h] = t \/ Member(tasks[h], t))
      BY <1>3
    <2> QED BY <1>1, <2>1, <2>2 DEF HolderInv
  <1>6. \A t \in Tasks : tstate[t] \in {"destroyed", "finished"} => Jobs!Holders(t) = {}
    BY <1>4
  <1>7. Jobs!NotFreedInUse
    BY <1>5, <1>6 DEF Jobs!NotFreedInUse
  <1>8. Jobs!NoTaskForgotten
    BY <1>1 DEF SignalInv, Jobs!NoTaskForgotten
  <1> QED BY <1>7, <1>8

\* The memory and the locks of a task are not freed while a thread has it or
\* will take it, no two threads have one task, and a thread that sleeps while
\* its list has a task is about to be signalled (kore_task_run, task_thread,
\* kore_task_finish, kore_task_destroy).
THEOREM TasksStayHeld ==
  ASSUME Jobs!TasksAssumption
  PROVE  Jobs!Spec => [](Jobs!NotFreedInUse /\ Jobs!NoTaskForgotten)
  <1>1. Jobs!Init => JobsInv
    BY JobsStart
  <1>2. JobsInv /\ [Jobs!Next]_(Jobs!vars) => JobsInv'
    BY JobsStep
  <1>3. JobsInv => Jobs!NotFreedInUse /\ Jobs!NoTaskForgotten
    BY JobsRight
  <1> QED BY <1>1, <1>2, <1>3, PTL DEF Jobs!Spec
-----------------------------------------------------------------------------
\* Timers (KoreTimers).
CONSTANTS Timers, Intervals, MaxWait, MaxClock, MaxSlow

VARIABLES clock, now, list, nextrun, interval, oneshot, fires, at, until, slow, late, early

Times == INSTANCE KoreTimers WITH running <- fires, pc <- at

TimerTypes ==
  /\ clock \in Nat /\ now \in Nat /\ until \in Nat /\ late \in Nat
  /\ list \in Seq(Timers) /\ nextrun \in [Timers -> Nat] /\ interval \in [Timers -> Nat]
  /\ fires \in Timers \cup {None}
  /\ at \in {"pass", "callback", "wait", "events"}

\* The list is in order, without the timer whose callback runs.
OrderInv ==
  /\ Once(list) /\ ~Member(list, fires) /\ Sorted(list, nextrun)
  /\ at = "callback" <=> fires # None

\* In a pass the clock is as far beyond what the pass takes it to be as the
\* callbacks were slow; a wait ends before the first timer, or as late.
WaitInv ==
  /\ at \in {"pass", "callback"} => clock = now + late
  /\ at = "wait" => \A i \in 1..Len(list) : until <= nextrun[list[i]] + late

TimersInv == TimerTypes /\ OrderInv /\ WaitInv

\* The operators of the library are the same in the instance.
LEMMA SameLists ==
  /\ \A S : Times!Min(S) = Min(S)
  /\ \A S : Times!Cardinality(S) = Cardinality(S)
  /\ \A s, k : Times!RemoveAt(s, k) = RemoveAt(s, k)
  /\ \A s : Times!ToSet(s) = {s[i] : i \in DOMAIN s}
  <1>1. \A S : Times!Min(S) = Min(S)
    BY DEF Times!Min, Min
  <1>2. \A S : Times!Cardinality(S) = Cardinality(S)
    BY DEF Times!Cardinality, Cardinality
  <1>3. \A s, k : Times!RemoveAt(s, k) = RemoveAt(s, k)
    BY DEF Times!RemoveAt, RemoveAt
  <1>4. \A s : Times!ToSet(s) = {s[i] : i \in DOMAIN s}
    BY DEF Times!ToSet
  <1> QED BY <1>1, <1>2, <1>3, <1>4

LEMMA TimesLists ==
  ASSUME list \in Seq(Timers)
  PROVE  /\ \A t : t \in Times!Listed <=> Member(list, t)
         /\ \A t, v : Times!Inserted(t, v) = Placed(list, t, nextrun, v)
  <1>1. \A t : t \in Times!Listed <=> Member(list, t)
    BY SameLists DEF Times!Listed, Member
  <1>2. \A t, v : Times!Inserted(t, v) =
          LET n == Times!Cardinality({i \in DOMAIN list : nextrun[list[i]] <= v})
          IN SubSeq(list, 1, n) \o <<t>> \o SubSeq(list, n + 1, Len(list))
    BY DEF Times!Inserted
  <1>3. \A S : Times!Cardinality(S) = Cardinality(S)
    BY SameLists
  <1> QED BY <1>1, <1>2, <1>3 DEF Placed

\* kore_timer_remove.
LEMMA RemovedOf ==
  ASSUME TimerTypes, OrderInv, NEW t \in Timers, Member(list, t)
  PROVE  LET u == Times!RemoveFirst(list, t) IN
         /\ u \in Seq(Timers) /\ Once(u) /\ Sorted(u, nextrun)
         /\ \A r : Member(u, r) <=> Member(list, r) /\ r # t
  <1> DEFINE T == {i \in 1..Len(list) : list[i] = t}
  <1>1. T \in SUBSET Nat /\ T # {} /\ \A i \in T : i \in 1..Len(list) /\ list[i] = t
    BY DEF Member
  <1>2. Times!RemoveFirst(list, t) = RemoveAt(list, Min(T))
    <2>1. Times!RemoveFirst(list, t) = Times!RemoveAt(list, Times!Min(T))
      BY <1>1 DEF Times!RemoveFirst, Times!SelectInSeq
    <2> HIDE DEF T
    <2> QED BY <2>1, SameLists
  <1> HIDE DEF T
  <1>3. PICK k \in 1..Len(list) : k = Min(T) /\ list[k] = t
    BY <1>1, LeastOf
  <1>4. list \in Seq(Timers) /\ nextrun \in [Timers -> Nat] /\ Once(list) /\ Sorted(list, nextrun)
    BY DEF TimerTypes, OrderInv
  <1>5. /\ RemoveAt(list, k) \in Seq(Timers) /\ Once(RemoveAt(list, k))
        /\ \A r : Member(RemoveAt(list, k), r) <=> Member(list, r) /\ r # list[k]
    BY <1>4, Shorter
  <1>6. Sorted(RemoveAt(list, k), nextrun)
    BY <1>4, StaysSorted
  <1> QED BY <1>2, <1>3, <1>5, <1>6

LEMMA TimersStart == ASSUME Times!IntervalAssumption, Times!Init PROVE TimersInv
  <1>1. /\ clock = 0 /\ now = 0 /\ list = <<>> /\ nextrun = [t \in Timers |-> 0]
        /\ interval = [t \in Timers |-> 1] /\ fires = None
        /\ at = "events" /\ until = 0 /\ late = 0
    BY DEF Times!Init
  <1>2. list \in Seq(Timers) /\ Len(list) = 0
    BY <1>1
  <1> QED
    BY <1>1, <1>2 DEF TimersInv, TimerTypes, OrderInv, WaitInv, Once, Member, Sorted

\* A timer that is put into the list, by a call or by its own end.
LEMMA AddedKeeps ==
  ASSUME TimerTypes, OrderInv, NEW t \in Timers, NEW v \in Nat, ~Member(list, t),
         nextrun' = [nextrun EXCEPT ![t] = v], list' = Times!Inserted(t, v)
  PROVE  /\ list' \in Seq(Timers) /\ Once(list') /\ Sorted(list', nextrun')
         /\ nextrun' \in [Timers -> Nat]
         /\ \A r : Member(list', r) <=> Member(list, r) \/ r = t
  <1> DEFINE u == Placed(list, t, nextrun, v)
  <1>1. list \in Seq(Timers) /\ nextrun \in [Timers -> Nat] /\ Once(list) /\ Sorted(list, nextrun)
    BY DEF TimerTypes, OrderInv
  <1>2. list' = u
    BY <1>1, TimesLists
  <1>3. /\ u \in Seq(Timers) /\ Once(u) /\ Sorted(u, [nextrun EXCEPT ![t] = v])
        /\ \A r : Member(u, r) <=> Member(list, r) \/ r = t
    BY <1>1, InsertedOf
  <1> HIDE DEF u
  <1>4. nextrun' \in [Timers -> Nat]
    BY <1>1
  <1> QED BY <1>2, <1>3, <1>4

LEMMA CallsKeeps == ASSUME Times!IntervalAssumption, TimersInv, Times!Calls PROVE TimersInv'
  <1>1. TimerTypes /\ OrderInv /\ WaitInv
    BY DEF TimersInv
  <1>2. at \in {"callback", "events"} /\ UNCHANGED <<clock, now, fires, at, until, late>>
    BY DEF Times!Calls
  <1>3. CASE \E t \in Timers, i \in Intervals, once \in BOOLEAN : Times!Add(t, i, once)
    <2>1. PICK t \in Timers, i \in Intervals, once \in BOOLEAN : Times!Add(t, i, once)
      BY <1>3
    <2>2. clock + i \in Nat /\ i \in Nat
      BY <1>1 DEF TimerTypes, Times!IntervalAssumption
    <2>3. ~Member(list, t) /\ t # fires
      BY <1>1, <2>1, TimesLists DEF Times!Add, TimerTypes
    <2>4. /\ nextrun' = [nextrun EXCEPT ![t] = clock + i] /\ list' = Times!Inserted(t, clock + i)
          /\ interval' = [interval EXCEPT ![t] = i]
      BY <2>1 DEF Times!Add
    <2>5. /\ list' \in Seq(Timers) /\ Once(list') /\ Sorted(list', nextrun')
          /\ nextrun' \in [Timers -> Nat]
          /\ \A r : Member(list', r) <=> Member(list, r) \/ r = t
      BY <1>1, <2>2, <2>3, <2>4, AddedKeeps
    <2>6. interval' \in [Timers -> Nat]
      BY <1>1, <2>2, <2>4 DEF TimerTypes
    <2>7. TimerTypes'
      BY <1>1, <1>2, <2>5, <2>6 DEF TimerTypes
    <2>8. OrderInv'
      BY <1>1, <1>2, <2>3, <2>5 DEF OrderInv
    <2>9. WaitInv'
      BY <1>1, <1>2 DEF WaitInv
    <2> QED BY <2>7, <2>8, <2>9 DEF TimersInv
  <1>4. CASE \E t \in Timers : Times!RemoveTimer(t)
    <2>1. PICK t \in Timers : Times!RemoveTimer(t)
      BY <1>4
    <2>2. /\ Member(list, t) /\ list' = Times!RemoveFirst(list, t)
          /\ UNCHANGED <<nextrun, interval>>
      BY <1>1, <2>1, TimesLists DEF Times!RemoveTimer, TimerTypes
    <2>3. /\ list' \in Seq(Timers) /\ Once(list') /\ Sorted(list', nextrun)
          /\ \A r : Member(list', r) <=> Member(list, r) /\ r # t
      BY <1>1, <2>2, RemovedOf
    <2>4. TimerTypes'
      BY <1>1, <1>2, <2>2, <2>3 DEF TimerTypes
    <2>5. OrderInv'
      BY <1>1, <1>2, <2>2, <2>3 DEF OrderInv
    <2>6. WaitInv'
      BY <1>1, <1>2 DEF WaitInv
    <2> QED BY <2>4, <2>5, <2>6 DEF TimersInv
  <1> QED BY <1>3, <1>4 DEF Times!Calls

LEMMA RunKeepsTimers ==
  ASSUME Times!IntervalAssumption, TimersInv, Times!Run PROVE TimersInv'
  <1>1. TimerTypes /\ OrderInv /\ WaitInv
    BY DEF TimersInv
  <1>2. /\ at = "pass" /\ list # <<>> /\ fires' = Head(list) /\ list' = Tail(list)
        /\ at' = "callback" /\ UNCHANGED <<clock, now, nextrun, interval, until, late>>
    BY DEF Times!Run, Times!Due
  <1>3. list \in Seq(Timers) /\ Once(list) /\ Sorted(list, nextrun) /\ nextrun \in [Timers -> Nat]
    BY <1>1 DEF TimerTypes, OrderInv
  <1>4. /\ Head(list) \in Timers /\ Tail(list) \in Seq(Timers) /\ Once(Tail(list))
        /\ \A r : Member(Tail(list), r) <=> Member(list, r) /\ r # Head(list)
    BY <1>2, <1>3, FirstOut
  <1>5. Sorted(Tail(list), nextrun)
    BY <1>2, <1>3, TailSorted
  <1>6. Head(list) # None
    BY <1>4 DEF Times!IntervalAssumption
  <1>7. TimerTypes'
    BY <1>1, <1>2, <1>4 DEF TimerTypes
  <1>8. OrderInv'
    BY <1>2, <1>4, <1>5, <1>6 DEF OrderInv
  <1>9. WaitInv'
    BY <1>1, <1>2 DEF WaitInv
  <1> QED BY <1>7, <1>8, <1>9 DEF TimersInv

LEMMA RunEndsKeeps ==
  ASSUME Times!IntervalAssumption, TimersInv, Times!RunEnds PROVE TimersInv'
  <1>1. TimerTypes /\ OrderInv /\ WaitInv
    BY DEF TimersInv
  <1>2. /\ at = "callback" /\ fires' = None /\ at' = "pass"
        /\ UNCHANGED <<clock, now, interval, until, late>>
    BY DEF Times!RunEnds
  <1>3. fires \in Timers /\ ~Member(list, fires)
    BY <1>1, <1>2 DEF TimerTypes, OrderInv
  <1>4. ~Member(list, None)
    BY <1>1 DEF TimerTypes, Member, Times!IntervalAssumption
  <1>5. /\ list' \in Seq(Timers) /\ Once(list') /\ Sorted(list', nextrun')
        /\ nextrun' \in [Timers -> Nat] /\ ~Member(list', None)
    <2>1. CASE oneshot[fires]
      <3>1. UNCHANGED <<list, nextrun>>
        BY <2>1 DEF Times!RunEnds
      <3> QED BY <1>1, <1>4, <3>1 DEF TimerTypes, OrderInv
    <2>2. CASE ~oneshot[fires]
      <3>1. /\ nextrun' = [nextrun EXCEPT ![fires] = now + interval[fires]]
            /\ list' = Times!Inserted(fires, now + interval[fires])
        BY <2>2 DEF Times!RunEnds
      <3>2. now + interval[fires] \in Nat /\ fires # None
        BY <1>1, <1>3 DEF TimerTypes, Times!IntervalAssumption
      <3>3. /\ list' \in Seq(Timers) /\ Once(list') /\ Sorted(list', nextrun')
            /\ nextrun' \in [Timers -> Nat]
            /\ \A r : Member(list', r) <=> Member(list, r) \/ r = fires
        BY <1>1, <1>3, <3>1, <3>2, AddedKeeps
      <3> QED BY <1>4, <3>2, <3>3
    <2> QED BY <2>1, <2>2
  <1>6. TimerTypes'
    BY <1>1, <1>2, <1>5 DEF TimerTypes
  <1>7. OrderInv'
    BY <1>2, <1>5 DEF OrderInv
  <1>8. WaitInv'
    BY <1>1, <1>2 DEF WaitInv
  <1> QED BY <1>6, <1>7, <1>8 DEF TimersInv

\* The wait is no longer than kore_timer_run says.
LEMMA NetWaitOf ==
  ASSUME Times!IntervalAssumption, TimersInv, ~Times!Due
  PROVE  /\ Times!NetWait \in Nat
         /\ list # <<>> => now + Times!NetWait <= nextrun[Head(list)]
  <1> DEFINE w == Times!Wakeup
             x == IF w > 1 THEN w - 1 ELSE w
  <1>1. /\ now \in Nat /\ MaxWait \in Nat
        /\ list # <<>> => nextrun[Head(list)] \in Nat /\ ~(nextrun[Head(list)] <= now)
    BY DEF TimersInv, TimerTypes, Times!Due, Times!IntervalAssumption
  <1>2. /\ w \in Nat
        /\ list # <<>> => w = nextrun[Head(list)] - now
    BY <1>1 DEF Times!Wakeup
  <1> HIDE DEF w
  <1>3. x \in Nat /\ x <= w
    BY <1>2
  <1>4. Times!NetWait = Min({MaxWait, x})
    BY SameLists DEF Times!NetWait, w
  <1> HIDE DEF x
  <1> DEFINE T == {MaxWait, x}
  <1>5. T \in SUBSET Nat /\ T # {} /\ x \in T
    BY <1>1, <1>3
  <1>6. Min(T) \in T /\ \A y \in T : Min(T) <= y
    <2> HIDE DEF T
    <2> QED BY <1>5, LeastOf
  <1>7. Min(T) \in Nat /\ Min(T) <= x
    BY <1>5, <1>6
  <1> QED BY <1>1, <1>2, <1>3, <1>4, <1>7

LEMMA WaitKeeps == ASSUME Times!IntervalAssumption, TimersInv, Times!Wait PROVE TimersInv'
  <1>1. TimerTypes /\ OrderInv /\ WaitInv
    BY DEF TimersInv
  <1>2. /\ at = "pass" /\ ~Times!Due /\ at' = "wait" /\ until' = clock + Times!NetWait
        /\ UNCHANGED <<clock, now, list, nextrun, interval, fires, late>>
    BY DEF Times!Wait, Times!timers
  <1>3. /\ Times!NetWait \in Nat
        /\ list # <<>> => now + Times!NetWait <= nextrun[Head(list)]
    BY <1>2, NetWaitOf
  <1>4. clock = now + late
    BY <1>1, <1>2 DEF WaitInv
  <1>5. TimerTypes'
    BY <1>1, <1>2, <1>3 DEF TimerTypes
  <1>6. OrderInv'
    BY <1>1, <1>2 DEF OrderInv
  <1>7. ASSUME NEW i \in 1..Len(list) PROVE until' <= nextrun[list[i]] + late
    <2>1. /\ list \in Seq(Timers) /\ list # <<>> /\ Head(list) = list[1] /\ 1 \in 1..Len(list)
          /\ list[1] \in Timers /\ list[i] \in Timers
      BY <1>1 DEF TimerTypes
    <2>2. nextrun[list[1]] <= nextrun[list[i]]
      <3>1. nextrun[list[1]] \in Nat
        BY <1>1, <2>1 DEF TimerTypes
      <3>2. CASE i = 1
        BY <3>1, <3>2
      <3>3. CASE 1 < i
        BY <1>1, <2>1, <3>3 DEF OrderInv, Sorted
      <3> QED BY <3>2, <3>3
    <2>3. /\ nextrun[list[1]] \in Nat /\ nextrun[list[i]] \in Nat /\ now \in Nat /\ late \in Nat
      BY <1>1, <2>1 DEF TimerTypes
    <2> QED BY <1>2, <1>3, <1>4, <2>1, <2>2, <2>3
  <1>8. WaitInv'
    BY <1>2, <1>7 DEF WaitInv
  <1> QED BY <1>5, <1>6, <1>8 DEF TimersInv

LEMMA PassesKeeps == ASSUME TimersInv, Times!Passes PROVE TimersInv'
  <1>1. TimerTypes /\ OrderInv /\ WaitInv
    BY DEF TimersInv
  <1>2. /\ clock' = clock + 1
        /\ UNCHANGED <<now, list, nextrun, interval, fires, at, until>>
        /\ (at = "wait" /\ late' = late) \/ (at # "wait" /\ late' = late + 1)
    BY DEF Times!Passes, Times!timers
  <1>3. clock \in Nat /\ late \in Nat /\ now \in Nat
    BY <1>1 DEF TimerTypes
  <1>4. TimerTypes'
    BY <1>1, <1>2 DEF TimerTypes
  <1>5. OrderInv'
    BY <1>1, <1>2 DEF OrderInv
  <1>6. WaitInv'
    BY <1>1, <1>2, <1>3 DEF WaitInv
  <1> QED BY <1>4, <1>5, <1>6 DEF TimersInv

LEMMA TimersStep ==
  ASSUME Times!IntervalAssumption, TimersInv, [Times!Next]_(Times!vars) PROVE TimersInv'
  <1>1. TimerTypes /\ OrderInv /\ WaitInv
    BY DEF TimersInv
  <1>2. CASE Times!BeginPass
    <2>1. /\ at = "events" /\ at' = "pass" /\ now' = clock /\ late' = 0
          /\ UNCHANGED <<clock, list, nextrun, interval, fires, until>>
      BY <1>2 DEF Times!BeginPass, Times!timers
    <2> QED BY <1>1, <2>1 DEF TimersInv, TimerTypes, OrderInv, WaitInv
  <1>3. CASE Times!Event
    <2>1. /\ at = "wait" /\ at' = "events"
          /\ UNCHANGED <<clock, now, list, nextrun, interval, fires, until, late>>
      BY <1>3 DEF Times!Event, Times!timers
    <2> QED BY <1>1, <2>1 DEF TimersInv, TimerTypes, OrderInv, WaitInv
  <1>4. CASE UNCHANGED Times!vars
    BY <1>1, <1>4 DEF Times!vars, Times!timers, TimersInv, TimerTypes, OrderInv, WaitInv
  <1> QED
    BY <1>2, <1>3, <1>4, CallsKeeps, RunKeepsTimers, RunEndsKeeps, WaitKeeps, PassesKeeps
       DEF Times!Next

LEMMA TimersRight == ASSUME TimersInv PROVE Times!InOrder /\ Times!NoneWaits
  <1>1. list \in Seq(Timers) /\ OrderInv /\ WaitInv /\ DOMAIN list = 1..Len(list)
    BY DEF TimersInv, TimerTypes
  <1>2. Times!IsInjective(list)
    BY <1>1 DEF OrderInv, Once, Times!IsInjective
  <1>3. \A t : t \in Times!Listed <=> Member(list, t)
    BY <1>1, TimesLists
  <1>4. Times!InOrder
    BY <1>1, <1>2, <1>3 DEF OrderInv, Sorted, Times!InOrder
  <1>5. Times!NoneWaits
    BY <1>1, <1>3 DEF WaitInv, Member, Times!NoneWaits
  <1> QED BY <1>4, <1>5

\* The timers of a worker are in the order of their time, each once, and the
\* loop waits for events no longer than to the first one, but for what the
\* callbacks of the pass took (kore_timer_add, kore_timer_run,
\* kore_worker_entry).
THEOREM TimersStayInOrder ==
  ASSUME Times!IntervalAssumption
  PROVE  Times!Spec => [](Times!InOrder /\ Times!NoneWaits)
  <1>1. Times!Init => TimersInv
    BY TimersStart
  <1>2. TimersInv /\ [Times!Next]_(Times!vars) => TimersInv'
    BY TimersStep
  <1>3. TimersInv => Times!InOrder /\ Times!NoneWaits
    BY TimersRight
  <1> QED BY <1>1, <1>2, <1>3, PTL DEF Times!Spec
-----------------------------------------------------------------------------
\* Coroutines (KorePython).
CONSTANTS Coros, Requests, MaxOps, MaxObjects

VARIABLES up, there, ended, ops, runnable, awake, deleted, loop, next, coro, closing,
          doing, parent, owner, inside, waiters, objects, waiting, beaten, nobody

Python == INSTANCE KorePython WITH running <- coro, gone <- deleted, missed <- nobody

\* Those that will run: http_requests has those of requests, coro_runnable
\* the others.
Ups == {c \in Coros : Python!IsAwake(c)}

PyTypes ==
  /\ there \subseteq Coros /\ ended \subseteq Coros /\ deleted \subseteq Coros
  /\ inside \subseteq Coros /\ beaten \subseteq Coros
  /\ next \in Coros \cup {None} /\ coro \in Coros \cup {None} /\ owner \in Coros \cup {None}
  /\ closing \in Seq(Coros) /\ waiters \in Seq(Coros) /\ waiting \in Seq(Coros)
  /\ doing \in [Coros -> {"go", "lock", "pop", "suspend", "due", "gather"}]
  /\ parent \in [Coros -> Coros \cup {None}]
  /\ loop \in {"http", "coros", "http again", "events"}

PyOrders ==
  /\ runnable \in Seq(Coros) /\ awake \in Seq(Coros) /\ Once(runnable) /\ Once(awake)
  /\ \A c : Member(runnable, c) => c \notin Requests
  /\ \A c : Member(awake, c) => c \in Requests

\* A coroutine is in a list at most once; only those that are there will run,
\* have a client that may go, or await something.
PyThere ==
  /\ Once(waiting) /\ Once(waiters) /\ Once(closing)
  /\ Ups \subseteq there /\ there \cap ended = {}
  /\ deleted \subseteq there \cap Requests
  /\ \A c \in Coros : doing[c] # "go" => c \in there

\* The one that runs, and the next of the pass, are those of its list.
PyRuns ==
  /\ coro # None => coro \in Ups \ deleted /\ closing = <<>>
  /\ next # None => next \in Ups /\ next # coro /\ loop # "events"
                    /\ (next \in Requests <=> loop # "coros")

\* What is deleted goes from a coroutine to those it gathers, and never back:
\* the last one in the list is of a request or awaits nothing.
Last1 == closing[Len(closing)]
PyClosing ==
  /\ \A i \in 1..Len(closing) : closing[i] \in there
  /\ \A i, j \in 1..Len(closing) : j = i + 1 => parent[closing[i]] = closing[j]
  /\ closing # <<>> => /\ next # Last1 /\ (Last1 \in Requests \/ doing[Last1] = "go")
                       /\ parent[Last1] # None => parent[Last1] \in Ups

PyParents ==
  \A c \in Coros : parent[c] # None =>
    /\ c \in there \ Requests /\ parent[c] \in there
    /\ doing[parent[c]] = "gather"

\* Who is in a list to be woken sleeps, unless its client is gone.
PyWaits ==
  /\ \A c : Member(waiting, c) =>
       c \in there /\ doing[c] = "pop" /\ (c \in Ups => c \in deleted)
  /\ \A c : Member(waiters, c) =>
       /\ c \in there \cup ended
       /\ c \in there => doing[c] = "lock" /\ (c \in Ups => c \in deleted)

PyListed ==
  \A c \in there \ beaten :
    /\ doing[c] = "lock" => c \in Ups \/ Member(waiters, c)
    /\ doing[c] = "pop"  => c \in Ups \/ Member(waiting, c)

PyGathers ==
  \A c \in there : doing[c] = "gather" /\ (\A k \in there : parent[k] # c) =>
    c \in Ups \/ Member(closing, c)

PyLock ==
  /\ inside = {owner} \ {None} /\ inside \subseteq there
  /\ owner = None /\ waiters # <<>> =>
       nobody \/ \E c \in there \cap Ups : doing[c] = "lock"

PyRight ==
  /\ PyTypes /\ PyOrders /\ PyThere /\ PyRuns /\ PyClosing /\ PyParents
  /\ PyWaits /\ PyListed /\ PyGathers /\ PyLock
PyInv == up => PyRight

LEMMA SamePython ==
  /\ \A s, k : Python!RemoveFirst(s, k) = RemoveFirst(s, k)
  /\ \A s : Python!Range(s) = {s[i] : i \in DOMAIN s}
  /\ \A S : Python!SetToSeq(S) = SetToSeq(S)
  <1>1. \A s, k : Python!RemoveFirst(s, k) = RemoveFirst(s, k)
    BY DEF Python!RemoveFirst, RemoveFirst, Python!RemoveAt, RemoveAt,
           Python!SelectInSeq, SelectInSeq, Python!Min, Min
  <1>2. \A s : Python!Range(s) = {s[i] : i \in DOMAIN s}
    BY DEF Python!Range
  <1>3. \A S : Python!SetToSeq(S) = SetToSeq(S)
    <2>1. \A S : Python!Cardinality(S) = Cardinality(S)
      BY DEF Python!Cardinality, Cardinality
    <2> QED BY <2>1 DEF Python!SetToSeq, SetToSeq, Python!IsInjective, IsInjective
  <1> QED BY <1>1, <1>2, <1>3

LEMMA UpsOf ==
  ASSUME PyOrders
  PROVE  \A c \in Coros : c \in Ups <=> Member(runnable, c) \/ Member(awake, c)
  BY SamePython DEF PyOrders, Ups, Python!IsAwake, Member

LEMMA UpsAfter ==
  ASSUME PyOrders'
  PROVE  \A c \in Coros : c \in Ups' <=> Member(runnable', c) \/ Member(awake', c)
  BY SamePython DEF PyOrders, Ups, Python!IsAwake, Member

\* After an entry of a list comes another one, or none.
LEMMA AfterOf ==
  ASSUME NEW s \in Seq(Coros), Once(s), NEW c, Member(s, c)
  PROVE  LET n == Python!After(s, c) IN n = None \/ (Member(s, n) /\ n # c)
  <1>1. PICK i \in 1..Len(s) : i = (CHOOSE k \in DOMAIN s : s[k] = c) /\ s[i] = c
    BY DEF Member
  <1>2. Python!After(s, c) = IF i = Len(s) THEN None ELSE s[i + 1]
    BY <1>1 DEF Python!After
  <1>3. ASSUME i # Len(s) PROVE i + 1 \in 1..Len(s) /\ i + 1 # i
    <2>1. Len(s) \in Nat
      OBVIOUS
    <2> QED BY <1>3, <2>1
  <1>4. ASSUME i # Len(s) PROVE Member(s, s[i + 1]) /\ s[i + 1] # c
    BY <1>1, <1>3, <1>4 DEF Member, Once
  <1> QED BY <1>2, <1>4

\* TAILQ_INSERT_HEAD.
LEMMA GrownAtHead ==
  ASSUME NEW S, NEW s \in Seq(S), Once(s), NEW x \in S, ~Member(s, x)
  PROVE  /\ <<x>> \o s \in Seq(S) /\ Once(<<x>> \o s)
         /\ \A r : Member(<<x>> \o s, r) <=> Member(s, r) \/ r = x
  <1>1. /\ <<x>> \in Seq(S) /\ Once(<<x>>) /\ \A r : Member(<<x>>, r) <=> r = x
    BY DEF Once, Member
  <1>2. \A r : ~(Member(<<x>>, r) /\ Member(s, r))
    BY <1>1
  <1> QED BY <1>1, <1>2, Joined

LEMMA TakenOut ==
  ASSUME NEW S, NEW s \in Seq(S), Once(s), NEW x
  PROVE  LET u == Python!RemoveFirst(s, x) IN
         u \in Seq(S) /\ Once(u) /\ \A r : Member(u, r) <=> Member(s, r) /\ r # x
  <1>1. CASE Member(s, x)
    BY <1>1, RemovedOnce, SamePython
  <1>2. CASE ~Member(s, x)
    <2>1. RemoveFirst(s, x) = s
      BY <1>2 DEF RemoveFirst, Member
    <2> QED BY <1>2, <2>1, SamePython
  <1> QED BY <1>1, <1>2

\* http_request_wakeup, python_coro_wakeup.
LEMMA WakeOf ==
  ASSUME PyOrders, NEW x \in Coros, Python!Wake(x) PROVE PyOrders' /\ Ups' = Ups \cup {x}
  <1>1. \A c \in Coros : c \in Ups <=> Member(runnable, c) \/ Member(awake, c)
    BY UpsOf
  <1>2. Ups \subseteq Coros /\ Ups' \subseteq Coros
    BY DEF Ups
  <1>3. CASE x \in Ups
    <2>1. UNCHANGED <<runnable, awake>>
      BY <1>3 DEF Python!Wake, Ups
    <2>2. PyOrders'
      BY <2>1 DEF PyOrders
    <2>3. Ups' = Ups
      BY <2>1 DEF Ups, Python!IsAwake
    <2> QED BY <1>3, <2>2, <2>3
  <1>4. CASE x \notin Ups /\ x \in Requests
    <2>1. awake' = Append(awake, x) /\ runnable' = runnable /\ ~Member(awake, x)
      BY <1>1, <1>4 DEF Python!Wake, Ups
    <2>2. awake \in Seq(Coros) /\ Once(awake)
      BY DEF PyOrders
    <2>3. /\ awake' \in Seq(Coros) /\ Once(awake')
          /\ \A r : Member(awake', r) <=> Member(awake, r) \/ r = x
      BY <2>1, <2>2, Grown
    <2>4. PyOrders'
      BY <1>4, <2>1, <2>3 DEF PyOrders
    <2>5. \A c \in Coros : c \in Ups' <=> Member(runnable', c) \/ Member(awake', c)
      BY <2>4, UpsAfter
    <2> QED BY <1>1, <1>2, <2>1, <2>3, <2>4, <2>5
  <1>5. CASE x \notin Ups /\ x \notin Requests
    <2>1. runnable' = <<x>> \o runnable /\ awake' = awake /\ ~Member(runnable, x)
      BY <1>1, <1>5 DEF Python!Wake, Ups
    <2>2. runnable \in Seq(Coros) /\ Once(runnable)
      BY DEF PyOrders
    <2>3. /\ runnable' \in Seq(Coros) /\ Once(runnable')
          /\ \A r : Member(runnable', r) <=> Member(runnable, r) \/ r = x
      BY <2>1, <2>2, GrownAtHead
    <2>4. PyOrders'
      BY <1>5, <2>1, <2>3 DEF PyOrders
    <2>5. \A c \in Coros : c \in Ups' <=> Member(runnable', c) \/ Member(awake', c)
      BY <2>4, UpsAfter
    <2> QED BY <1>1, <1>2, <2>1, <2>3, <2>4, <2>5
  <1> QED BY <1>3, <1>4, <1>5

\* TAILQ_REMOVE from the one list, and from the other.
LEMMA SleepOf ==
  ASSUME PyOrders, NEW x \in Coros,
         awake' = Python!RemoveFirst(awake, x), runnable' = Python!RemoveFirst(runnable, x)
  PROVE  PyOrders' /\ Ups' = Ups \ {x}
  <1>1. /\ awake' \in Seq(Coros) /\ Once(awake')
        /\ \A r : Member(awake', r) <=> Member(awake, r) /\ r # x
    BY TakenOut DEF PyOrders
  <1>2. /\ runnable' \in Seq(Coros) /\ Once(runnable')
        /\ \A r : Member(runnable', r) <=> Member(runnable, r) /\ r # x
    BY TakenOut DEF PyOrders
  <1>3. PyOrders'
    BY <1>1, <1>2 DEF PyOrders
  <1>4. \A c \in Coros : c \in Ups <=> Member(runnable, c) \/ Member(awake, c)
    BY UpsOf
  <1>5. \A c \in Coros : c \in Ups' <=> Member(runnable', c) \/ Member(awake', c)
    BY <1>3, UpsAfter
  <1>6. Ups \subseteq Coros /\ Ups' \subseteq Coros
    BY DEF Ups
  <1> QED BY <1>1, <1>2, <1>3, <1>4, <1>5, <1>6

LEMMA StillUp ==
  ASSUME PyOrders, UNCHANGED <<runnable, awake>> PROVE PyOrders' /\ Ups' = Ups
  BY DEF PyOrders, Ups, Python!IsAwake

\* In what follows c is the coroutine that runs: it is there, and sleeps in
\* no list.
LEMMA RunningOf ==
  ASSUME PyRight, coro # None
  PROVE  /\ coro \in Coros /\ coro \in Ups /\ coro \in there /\ coro \notin deleted
         /\ closing = <<>> /\ Len(closing) = 0 /\ next # coro
         /\ ~Member(waiting, coro)
         /\ ~Member(waiters, coro)
  BY DEF PyRight, PyTypes, PyThere, PyRuns, PyWaits, Member

LEMMA KeptTypes ==
  ASSUME PyTypes, NEW c \in Coros, NEW what \in {"go", "lock", "pop", "suspend", "due", "gather"},
         doing' = [doing EXCEPT ![c] = what]
  PROVE  /\ doing' \in [Coros -> {"go", "lock", "pop", "suspend", "due", "gather"}]
         /\ doing'[c] = what /\ \A d \in Coros : d # c => doing'[d] = doing[d]
  BY DEF PyTypes

\* async with of a lock that is taken, queue.pop() of none, kore.suspend.
LEMMA AwaitsKeeps ==
  ASSUME PyRight, NEW c \in Coros, coro = c, None \notin Coros, doing[c] = "go",
         NEW what \in {"lock", "pop", "suspend"}, doing' = [doing EXCEPT ![c] = what],
         PyOrders', Ups' = Ups \ {c}, coro' = None,
         waiters' = IF what = "lock" THEN Append(waiters, c) ELSE waiters,
         waiting' = IF what = "pop" THEN Append(waiting, c) ELSE waiting,
         what = "lock" => owner # None,
         UNCHANGED <<there, ended, parent, loop, next, deleted, closing, owner, inside,
                     beaten, nobody>>
  PROVE  PyRight'
  <1>1. /\ PyTypes /\ PyThere /\ PyRuns /\ PyClosing /\ PyParents
        /\ PyWaits /\ PyListed /\ PyGathers /\ PyLock
    BY DEF PyRight
  <1>2. /\ c \in Ups /\ c \in there /\ c \notin deleted /\ closing = <<>> /\ Len(closing) = 0
        /\ next # c /\ ~Member(waiting, c) /\ ~Member(waiters, c)
    BY RunningOf
  <1>3. /\ doing' \in [Coros -> {"go", "lock", "pop", "suspend", "due", "gather"}]
        /\ doing'[c] = what /\ \A d \in Coros : d # c => doing'[d] = doing[d]
    BY <1>1, KeptTypes
  <1>4. /\ waiters' \in Seq(Coros) /\ Once(waiters')
        /\ \A r : Member(waiters', r) <=> Member(waiters, r) \/ (r = c /\ what = "lock")
    <2>1. waiters \in Seq(Coros) /\ Once(waiters)
      BY <1>1 DEF PyTypes, PyThere
    <2>2. /\ Append(waiters, c) \in Seq(Coros) /\ Once(Append(waiters, c))
          /\ \A r : Member(Append(waiters, c), r) <=> Member(waiters, r) \/ r = c
      BY <1>2, <2>1, Grown
    <2> QED BY <2>1, <2>2
  <1>5. /\ waiting' \in Seq(Coros) /\ Once(waiting')
        /\ \A r : Member(waiting', r) <=> Member(waiting, r) \/ (r = c /\ what = "pop")
    <2>1. waiting \in Seq(Coros) /\ Once(waiting)
      BY <1>1 DEF PyTypes, PyThere
    <2>2. /\ Append(waiting, c) \in Seq(Coros) /\ Once(Append(waiting, c))
          /\ \A r : Member(Append(waiting, c), r) <=> Member(waiting, r) \/ r = c
      BY <1>2, <2>1, Grown
    <2> QED BY <2>1, <2>2
  <1>6. PyTypes'
    BY <1>1, <1>3, <1>4, <1>5 DEF PyTypes
  <1>7. PyThere'
    BY <1>1, <1>2, <1>3, <1>4, <1>5 DEF PyThere
  <1>8. PyRuns'
    BY <1>1, <1>2 DEF PyRuns
  <1>9. PyClosing'
    BY <1>2 DEF PyClosing
  <1>10. PyParents'
    BY <1>1, <1>3 DEF PyParents, PyTypes
  <1>11. PyWaits'
    <2>1. \A r : Member(waiting, r) => r \in Coros /\ r # c
      BY <1>1, <1>2, MemberIn DEF PyTypes
    <2>2. \A r : Member(waiters, r) => r \in Coros /\ r # c
      BY <1>1, <1>2, MemberIn DEF PyTypes
    <2> QED BY <1>1, <1>2, <1>3, <1>4, <1>5, <2>1, <2>2 DEF PyWaits
  <1>12. PyListed'
    BY <1>1, <1>3, <1>4, <1>5 DEF PyListed, PyTypes
  <1>13. PyGathers'
    BY <1>1, <1>3 DEF PyGathers, PyTypes
  <1>14. PyLock'
    BY <1>1, <1>2, <1>3 DEF PyLock, PyTypes
  <1> QED
    BY <1>6, <1>7, <1>8, <1>9, <1>10, <1>11, <1>12, <1>13, <1>14 DEF PyRight

\* What the coroutine awaits is there: it goes on, and may have got the lock.
LEMMA GoesOnKeeps ==
  ASSUME PyRight, NEW c \in Coros, coro = c, None \notin Coros,
         doing' = [doing EXCEPT ![c] = "go"], PyOrders', Ups' = Ups,
         doing[c] = "gather" => \A k \in there : parent[k] # c,
         \/ doing[c] # "lock" /\ UNCHANGED <<owner, inside, nobody>>
         \/ owner = None /\ owner' = c /\ inside' = inside \cup {c} /\ nobody' = FALSE,
         UNCHANGED <<there, ended, parent, loop, next, coro, deleted, closing,
                     waiters, waiting, beaten>>
  PROVE  PyRight'
  <1>1. /\ PyTypes /\ PyThere /\ PyRuns /\ PyClosing /\ PyParents
        /\ PyWaits /\ PyListed /\ PyGathers /\ PyLock
    BY DEF PyRight
  <1>2. /\ c \in Ups /\ c \in there /\ c \notin deleted /\ closing = <<>> /\ Len(closing) = 0
        /\ next # c /\ ~Member(waiting, c) /\ ~Member(waiters, c)
    BY RunningOf
  <1>3. /\ doing' \in [Coros -> {"go", "lock", "pop", "suspend", "due", "gather"}]
        /\ doing'[c] = "go" /\ \A d \in Coros : d # c => doing'[d] = doing[d]
    BY <1>1, KeptTypes
  <1>6. PyTypes'
    BY <1>1, <1>3 DEF PyTypes
  <1>7. PyThere'
    BY <1>1, <1>2, <1>3 DEF PyThere
  <1>8. PyRuns'
    BY <1>1, <1>2 DEF PyRuns
  <1>9. PyClosing'
    BY <1>2 DEF PyClosing
  <1>10. PyParents'
    BY <1>1, <1>3 DEF PyParents, PyTypes
  <1>11. PyWaits'
    <2>1. \A r : Member(waiting, r) => r \in Coros /\ r # c
      BY <1>1, <1>2, MemberIn DEF PyTypes
    <2>2. \A r : Member(waiters, r) => r \in Coros /\ r # c
      BY <1>1, <1>2, MemberIn DEF PyTypes
    <2> QED BY <1>1, <1>2, <1>3, <2>1, <2>2 DEF PyWaits
  <1>12. PyListed'
    BY <1>1, <1>3 DEF PyListed, PyTypes
  <1>13. PyGathers'
    BY <1>1, <1>3 DEF PyGathers, PyTypes
  <1>14. PyLock'
    <2>1. CASE doing[c] # "lock" /\ UNCHANGED <<owner, inside, nobody>>
      BY <1>1, <1>2, <1>3, <2>1 DEF PyLock, PyTypes
    <2>2. CASE owner = None /\ owner' = c /\ inside' = inside \cup {c}
      BY <1>1, <1>2, <2>2 DEF PyLock
    <2> QED BY <2>1, <2>2
  <1> QED
    BY <1>6, <1>7, <1>8, <1>9, <1>10, <1>11, <1>12, <1>13, <1>14 DEF PyRight

\* It sleeps on: another one was faster, or one that it gathers is there.
LEMMA SleepsOnKeeps ==
  ASSUME PyRight, NEW c \in Coros, coro = c, None \notin Coros, coro' = None,
         PyOrders', Ups' = Ups \ {c},
         \/ doing[c] = "lock" /\ owner # None /\ beaten' = beaten \cup {c}
         \/ doing[c] = "pop" /\ beaten' = beaten \cup {c}
         \/ doing[c] = "gather" /\ beaten' = beaten /\ \E k \in there : parent[k] = c,
         UNCHANGED <<there, ended, doing, parent, loop, next, deleted, closing, owner,
                     inside, waiters, waiting, nobody>>
  PROVE  PyRight'
  <1>1. /\ PyTypes /\ PyThere /\ PyRuns /\ PyClosing /\ PyParents
        /\ PyWaits /\ PyListed /\ PyGathers /\ PyLock
    BY DEF PyRight
  <1>2. /\ c \in Ups /\ c \in there /\ c \notin deleted /\ closing = <<>> /\ Len(closing) = 0
        /\ next # c /\ ~Member(waiting, c) /\ ~Member(waiters, c)
    BY RunningOf
  <1>6. PyTypes'
    BY <1>1 DEF PyTypes
  <1>7. PyThere'
    BY <1>1 DEF PyThere
  <1>8. PyRuns'
    BY <1>1, <1>2 DEF PyRuns
  <1>9. PyClosing'
    BY <1>2 DEF PyClosing
  <1>10. PyParents'
    BY <1>1 DEF PyParents
  <1>11. PyWaits'
    BY <1>1 DEF PyWaits
  <1>12. PyListed'
    BY <1>1 DEF PyListed
  <1>13. PyGathers'
    BY <1>1 DEF PyGathers
  <1>14. PyLock'
    BY <1>1 DEF PyLock, PyTypes
  <1> QED
    BY <1>6, <1>7, <1>8, <1>9, <1>10, <1>11, <1>12, <1>13, <1>14 DEF PyRight

\* pyqueue_push wakes the first of those that wait.
LEMMA HandsKeeps ==
  ASSUME PyRight, None \notin Coros, coro # None, waiting # <<>>, waiting' = Tail(waiting),
         PyOrders', Ups' = Ups \cup {Head(waiting)},
         UNCHANGED <<there, ended, doing, parent, loop, next, coro, deleted, closing, owner,
                     inside, waiters, beaten, nobody>>
  PROVE  PyRight'
  <1>1. /\ PyTypes /\ PyThere /\ PyRuns /\ PyClosing /\ PyParents
        /\ PyWaits /\ PyListed /\ PyGathers /\ PyLock
    BY DEF PyRight
  <1> DEFINE h == Head(waiting)
  <1>2. /\ h \in Coros /\ Member(waiting, h) /\ waiting' \in Seq(Coros) /\ Once(waiting')
        /\ \A r : Member(waiting', r) <=> Member(waiting, r) /\ r # h
    BY <1>1, FirstOut DEF PyTypes, PyThere
  <1>3. Ups' = Ups \cup {h}
    OBVIOUS
  <1> HIDE DEF h
  <1>4. /\ h \in there /\ doing[h] = "pop" /\ (h \in Ups => h \in deleted)
        /\ coro \in Coros /\ closing = <<>> /\ Len(closing) = 0
    BY <1>1, <1>2, RunningOf DEF PyWaits
  <1>20. PyTypes'
    BY <1>1, <1>2 DEF PyTypes
  <1>21. PyThere'
    BY <1>1, <1>2, <1>3, <1>4 DEF PyThere
  <1>22. PyRuns'
    BY <1>1, <1>3 DEF PyRuns
  <1>23. PyClosing'
    BY <1>4 DEF PyClosing
  <1>24. PyParents'
    BY <1>1 DEF PyParents
  <1>25. PyWaits'
    BY <1>1, <1>2, <1>3, <1>4 DEF PyWaits
  <1>26. PyListed'
    BY <1>1, <1>2, <1>3 DEF PyListed
  <1>27. PyGathers'
    BY <1>1, <1>3 DEF PyGathers
  <1>28. PyLock'
    BY <1>1, <1>3 DEF PyLock
  <1> QED
    BY <1>20, <1>21, <1>22, <1>23, <1>24, <1>25, <1>26, <1>27, <1>28 DEF PyRight

\* pylock_do_release, for one that leaves the body or is deleted in it.
LEMMA ReleasesKeeps ==
  ASSUME PyRight, None \notin Coros, NEW c \in Coros, c \in inside, Python!Releases,
         inside' = inside \ {c},
         UNCHANGED <<there, ended, doing, parent, loop, next, coro, deleted, closing,
                     waiting, beaten>>
  PROVE  PyRight'
  <1>1. /\ PyTypes /\ PyThere /\ PyRuns /\ PyClosing /\ PyParents
        /\ PyWaits /\ PyListed /\ PyGathers /\ PyLock
    BY DEF PyRight
  <1>2. owner = c /\ inside = {c} /\ inside' = {} /\ owner' = None /\ c # None
    BY <1>1 DEF PyLock, Python!Releases, Python!HandOver
  <1>3. PyOrders
    BY DEF PyRight
  <1>4. /\ PyOrders' /\ Ups \subseteq Ups' /\ Ups' \subseteq there
        /\ waiters' \in Seq(Coros) /\ Once(waiters')
        /\ \A r : Member(waiters', r) => Member(waiters, r)
        /\ \A r \in Ups' \ Ups : doing[r] = "lock" /\ ~Member(waiters', r)
        /\ \A r \in there \ Ups' : Member(waiters, r) => Member(waiters', r)
        /\ waiters' # <<>> => nobody' \/ \E r \in there \cap Ups' : doing[r] = "lock"
    <2>1. CASE waiters = <<>>
      <3>1. UNCHANGED <<waiters, runnable, awake>>
        BY <2>1 DEF Python!Releases
      <3> QED BY <1>1, <1>3, <2>1, <3>1, StillUp DEF PyTypes, PyThere
    <2>2. CASE waiters # <<>>
      <3> DEFINE h == Head(waiters)
      <3>1. /\ waiters' = Tail(waiters)
            /\ IF h \in there THEN Python!Wake(h) /\ nobody' = FALSE
                              ELSE nobody' = TRUE /\ UNCHANGED <<runnable, awake>>
        BY <2>2 DEF Python!Releases, Python!HandOver
      <3>2. /\ h \in Coros /\ Member(waiters, h) /\ waiters' \in Seq(Coros) /\ Once(waiters')
            /\ \A r : Member(waiters', r) <=> Member(waiters, r) /\ r # h
        BY <1>1, <2>2, <3>1, FirstOut DEF PyTypes, PyThere
      <3> HIDE DEF h
      <3>3. CASE h \in there
        <4>1. PyOrders' /\ Ups' = Ups \cup {h}
          BY <1>3, <3>1, <3>2, <3>3, WakeOf
        <4>2. doing[h] = "lock" /\ Ups \subseteq there
          BY <1>1, <3>2, <3>3 DEF PyWaits, PyThere
        <4> QED BY <3>2, <3>3, <4>1, <4>2
      <3>4. CASE h \notin there
        <4>1. PyOrders' /\ Ups' = Ups /\ nobody' = TRUE /\ Ups \subseteq there
          BY <1>1, <1>3, <3>1, <3>4, StillUp DEF PyThere
        <4> QED BY <3>2, <3>4, <4>1
      <3> QED BY <3>3, <3>4
    <2> QED BY <2>1, <2>2
  <1>20. PyTypes'
    BY <1>1, <1>2, <1>4 DEF PyTypes
  <1>21. PyThere'
    BY <1>1, <1>4 DEF PyThere
  <1>22. PyRuns'
    BY <1>1, <1>4 DEF PyRuns
  <1>23. PyClosing'
    BY <1>1, <1>4 DEF PyClosing, Last1
  <1>24. PyParents'
    BY <1>1 DEF PyParents
  <1>25. PyWaits'
    BY <1>1, <1>4 DEF PyWaits, PyThere
  <1>26. PyListed'
    BY <1>1, <1>4 DEF PyListed
  <1>27. PyGathers'
    BY <1>1, <1>4 DEF PyGathers
  <1>28. PyLock'
    BY <1>2, <1>4 DEF PyLock
  <1> QED
    BY <1>4, <1>20, <1>21, <1>22, <1>23, <1>24, <1>25, <1>26, <1>27, <1>28 DEF PyRight

\* kore.gather.
LEMMA GathersKeeps ==
  ASSUME PyRight, None \notin Coros, IsFiniteSet(Coros), NEW c \in Coros, coro = c,
         doing[c] = "go", NEW kids, kids # {},
         kids \subseteq (Coros \ (there \cup ended)) \ Requests,
         there' = there \cup kids,
         parent' = [k \in Coros |-> IF k \in kids THEN c ELSE parent[k]],
         runnable' = Python!SetToSeq(kids) \o Python!RemoveFirst(runnable, c),
         awake' = Python!RemoveFirst(awake, c), coro' = None,
         doing' = [doing EXCEPT ![c] = "gather"],
         UNCHANGED <<ended, loop, next, deleted, closing, owner, inside, waiters, waiting,
                     beaten, nobody>>
  PROVE  PyRight'
  <1>1. /\ PyTypes /\ PyThere /\ PyRuns /\ PyClosing /\ PyParents
        /\ PyWaits /\ PyListed /\ PyGathers /\ PyLock
    BY DEF PyRight
  <1>2. /\ c \in Ups /\ c \in there /\ c \notin deleted /\ closing = <<>> /\ Len(closing) = 0
        /\ next # c /\ ~Member(waiting, c) /\ ~Member(waiters, c)
    BY RunningOf
  <1>3. /\ doing' \in [Coros -> {"go", "lock", "pop", "suspend", "due", "gather"}]
        /\ doing'[c] = "gather" /\ \A d \in Coros : d # c => doing'[d] = doing[d]
    BY <1>1, KeptTypes
  <1>4. /\ parent' \in [Coros -> Coros \cup {None}]
        /\ \A k \in kids : parent'[k] = c
        /\ \A k \in Coros \ kids : parent'[k] = parent[k]
    BY <1>1 DEF PyTypes
  <1>5. PyOrders' /\ Ups' = (Ups \ {c}) \cup kids
    <2> DEFINE t == SetToSeq(kids)
               u == Python!RemoveFirst(runnable, c)
    <2>0. PyOrders
      BY DEF PyRight
    <2>1. IsFiniteSet(kids)
      BY FS_Subset
    <2>2. t \in Seq(kids) /\ Once(t) /\ \A r : Member(t, r) <=> r \in kids
      BY <2>1, FiniteToSeq
    <2>3. /\ u \in Seq(Coros) /\ Once(u) /\ \A r : Member(u, r) <=> Member(runnable, r) /\ r # c
      BY <2>0, TakenOut DEF PyOrders
    <2>4. /\ awake' \in Seq(Coros) /\ Once(awake')
          /\ \A r : Member(awake', r) <=> Member(awake, r) /\ r # c
      BY <2>0, TakenOut DEF PyOrders
    <2>5. runnable' = t \o u
      BY SamePython
    <2> HIDE DEF t, u
    <2>6. t \in Seq(Coros)
      BY <2>2
    <2>7. \A r \in Coros : r \in Ups <=> Member(runnable, r) \/ Member(awake, r)
      BY <2>0, UpsOf
    <2>8. \A r : ~(Member(t, r) /\ Member(u, r))
      BY <1>1, <2>2, <2>3, <2>7 DEF PyThere
    <2>9. /\ t \o u \in Seq(Coros) /\ Once(t \o u)
          /\ \A r : Member(t \o u, r) <=> Member(t, r) \/ Member(u, r)
      BY <2>2, <2>3, <2>6, <2>8, Joined
    <2>10. PyOrders'
      BY <2>0, <2>2, <2>3, <2>4, <2>5, <2>9 DEF PyOrders
    <2>11. \A r \in Coros : r \in Ups' <=> Member(runnable', r) \/ Member(awake', r)
      BY <2>10, UpsAfter
    <2>12. Ups \subseteq Coros /\ Ups' \subseteq Coros
      BY DEF Ups
    <2>13. \A r \in Coros : r \in Ups' <=> (r \in Ups /\ r # c) \/ r \in kids
      BY <2>2, <2>3, <2>4, <2>5, <2>7, <2>9, <2>11
    <2> QED BY <2>10, <2>12, <2>13
  <1>6. /\ kids \cap there = {} /\ kids \cap ended = {} /\ kids \subseteq Coros
        /\ kids \cap Requests = {} /\ c \notin kids
    BY <1>2
  <1>20. PyTypes'
    BY <1>1, <1>2, <1>3, <1>4, <1>6 DEF PyTypes
  <1>21. PyThere'
    BY <1>1, <1>2, <1>3, <1>5, <1>6 DEF PyThere
  <1>22. PyRuns'
    BY <1>1, <1>2, <1>5 DEF PyRuns
  <1>23. PyClosing'
    BY <1>2 DEF PyClosing
  <1>24. PyParents'
    BY <1>1, <1>2, <1>3, <1>4, <1>6 DEF PyParents, PyTypes
  <1>25. PyWaits'
    <2>1. \A r : Member(waiting, r) => r \in Coros /\ r # c
      BY <1>1, <1>2, MemberIn DEF PyTypes
    <2>2. \A r : Member(waiters, r) => r \in Coros /\ r # c
      BY <1>1, <1>2, MemberIn DEF PyTypes
    <2> QED BY <1>1, <1>3, <1>5, <1>6, <2>1, <2>2 DEF PyWaits
  <1>26. PyListed'
    BY <1>1, <1>3, <1>5, <1>6 DEF PyListed, PyThere, PyTypes
  <1>27. PyGathers'
    BY <1>1, <1>3, <1>4, <1>5, <1>6 DEF PyGathers, PyThere, PyTypes
  <1>28. PyLock'
    BY <1>1, <1>3, <1>5, <1>6 DEF PyLock, PyTypes
  <1> QED
    BY <1>5, <1>20, <1>21, <1>22, <1>23, <1>24, <1>25, <1>26, <1>27, <1>28 DEF PyRight

\* A coroutine ends: the one that gathers it is told.
LEMMA EndsKeeps ==
  ASSUME PyRight, None \notin Coros, NEW c \in Coros, coro = c, doing[c] = "go",
         c \notin inside, Python!Tells(c), closing' = <<c>>, coro' = None,
         UNCHANGED <<there, ended, doing, parent, loop, next, deleted, owner, inside,
                     waiters, waiting, beaten, nobody>>
  PROVE  PyRight'
  <1>1. /\ PyTypes /\ PyThere /\ PyRuns /\ PyClosing /\ PyParents
        /\ PyWaits /\ PyListed /\ PyGathers /\ PyLock /\ PyOrders
    BY DEF PyRight
  <1>2. /\ c \in Ups /\ c \in there /\ c \notin deleted /\ closing = <<>> /\ Len(closing) = 0
        /\ next # c
    BY RunningOf
  <1>3. /\ PyOrders' /\ Ups \subseteq Ups' /\ Ups' \subseteq Ups \cup {parent[c]}
        /\ parent[c] # None => parent[c] \in Ups' /\ parent[c] \in there
                               /\ doing[parent[c]] = "gather"
    <2>1. CASE parent[c] = None
      <3>1. UNCHANGED <<runnable, awake>>
        BY <2>1 DEF Python!Tells
      <3> QED BY <1>1, <2>1, <3>1, StillUp
    <2>2. CASE parent[c] # None
      <3>1. /\ Python!Wake(parent[c]) /\ parent[c] \in Coros /\ parent[c] \in there
            /\ doing[parent[c]] = "gather"
        BY <1>1, <2>2 DEF Python!Tells, PyTypes, PyParents
      <3> QED BY <1>1, <3>1, WakeOf
    <2> QED BY <2>1, <2>2
  <1>4. /\ closing' \in Seq(Coros) /\ Once(closing') /\ Len(closing') = 1 /\ closing'[1] = c
        /\ closing' # <<>>
    BY DEF Once
  <1>5. Ups' \subseteq there /\ \A r \in Ups' \ Ups : doing[r] = "gather"
    BY <1>1, <1>3 DEF PyThere, Ups
  <1>19. PyOrders'
    BY <1>3
  <1>20. PyTypes'
    BY <1>1, <1>4 DEF PyTypes
  <1>21. PyThere'
    BY <1>1, <1>4, <1>5 DEF PyThere
  <1>22. PyRuns'
    BY <1>1, <1>3 DEF PyRuns
  <1>23. PyClosing'
    BY <1>2, <1>3, <1>4 DEF PyClosing, Last1
  <1>24. PyParents'
    BY <1>1 DEF PyParents
  <1>25. PyWaits'
    BY <1>1, <1>5 DEF PyWaits
  <1>26. PyListed'
    BY <1>1, <1>3 DEF PyListed
  <1>27. PyGathers'
    BY <1>1, <1>2, <1>3 DEF PyGathers, Member
  <1>28. PyLock'
    BY <1>1, <1>3 DEF PyLock
  <1> QED
    BY <1>19, <1>20, <1>21, <1>22, <1>23, <1>24, <1>25, <1>26, <1>27, <1>28 DEF PyRight

\* A pass goes on to the next one, which runs or is deleted with its request.
LEMMA PickKeeps ==
  ASSUME PyRight, None \notin Coros, Python!Pick
  PROVE  PyRight'
  <1>1. /\ PyTypes /\ PyThere /\ PyRuns /\ PyClosing /\ PyParents
        /\ PyWaits /\ PyListed /\ PyGathers /\ PyLock /\ PyOrders
    BY DEF PyRight
  <1>2. /\ coro = None /\ closing = <<>> /\ loop # "events" /\ next # None
        /\ next' = Python!After(Python!Order, next)
        /\ \/ next \in deleted /\ closing' = <<next>> /\ UNCHANGED coro
           \/ next \notin deleted /\ coro' = next /\ UNCHANGED closing
        /\ UNCHANGED <<there, ended, doing, parent, runnable, awake, loop, deleted, owner,
                       inside, waiters, waiting, beaten, nobody>>
    BY DEF Python!Pick, Python!Idle, Python!coros, Python!lock, Python!fifo
  <1>3. PyOrders' /\ Ups' = Ups
    BY <1>1, <1>2, StillUp
  <1>4. /\ next \in Coros /\ next \in Ups /\ next \in there
        /\ next \in Requests <=> loop # "coros"
    BY <1>1, <1>2 DEF PyRuns, PyThere, PyTypes
  <1>5. next' = None \/ /\ next' \in Ups /\ next' # next
                        /\ next' \in Requests <=> loop # "coros"
    <2>1. \A r \in Coros : r \in Ups <=> Member(runnable, r) \/ Member(awake, r)
      BY <1>1, UpsOf
    <2>2. /\ \A r : Member(runnable, r) => r \in Coros /\ r \notin Requests
          /\ \A r : Member(awake, r) => r \in Coros /\ r \in Requests
          /\ runnable \in Seq(Coros) /\ Once(runnable) /\ awake \in Seq(Coros) /\ Once(awake)
      BY <1>1, MemberIn DEF PyOrders
    <2>3. CASE loop = "coros"
      <3>1. Member(runnable, next) /\ next' = Python!After(runnable, next)
        BY <1>2, <1>4, <2>1, <2>2, <2>3 DEF Python!Order
      <3>2. next' = None \/ (Member(runnable, next') /\ next' # next)
        BY <2>2, <3>1, AfterOf
      <3> QED BY <2>1, <2>2, <2>3, <3>2
    <2>4. CASE loop # "coros"
      <3>1. Member(awake, next) /\ next' = Python!After(awake, next)
        BY <1>2, <1>4, <2>1, <2>2, <2>4 DEF Python!Order
      <3>2. next' = None \/ (Member(awake, next') /\ next' # next)
        BY <2>2, <3>1, AfterOf
      <3> QED BY <2>1, <2>2, <2>4, <3>2
    <2> QED BY <2>3, <2>4
  <1>6. Ups \subseteq Coros
    BY DEF Ups
  <1>7. /\ <<next>> \in Seq(Coros) /\ Once(<<next>>) /\ Len(<<next>>) = 1
        /\ <<next>>[1] = next /\ <<next>> # <<>>
    BY <1>4 DEF Once
  <1>8. next \in deleted => next \in Requests /\ parent[next] = None
    BY <1>1, <1>4 DEF PyThere, PyParents
  <1>19. PyOrders'
    BY <1>3
  <1>20. PyTypes'
    BY <1>1, <1>2, <1>4, <1>5, <1>6, <1>7 DEF PyTypes
  <1>21. PyThere'
    BY <1>1, <1>2, <1>3, <1>7 DEF PyThere
  <1>22. PyRuns'
    BY <1>2, <1>3, <1>4, <1>5, <1>6 DEF PyRuns
  <1>23. PyClosing'
    <2>1. CASE next \in deleted
      BY <1>2, <1>4, <1>5, <1>7, <1>8, <2>1 DEF PyClosing, Last1
    <2>2. CASE next \notin deleted
      <3>1. closing' = <<>> /\ Len(closing') = 0
        BY <1>2, <2>2
      <3> QED BY <3>1 DEF PyClosing
    <2> QED BY <2>1, <2>2
  <1>24. PyParents'
    BY <1>1, <1>2 DEF PyParents
  <1>25. PyWaits'
    BY <1>1, <1>2, <1>3 DEF PyWaits
  <1>26. PyListed'
    BY <1>1, <1>2, <1>3 DEF PyListed
  <1>27. PyGathers'
    <2>1. \A r : ~Member(closing, r)
      BY <1>2 DEF Member
    <2> QED BY <1>1, <1>2, <1>3, <2>1 DEF PyGathers
  <1>28. PyLock'
    BY <1>1, <1>2, <1>3 DEF PyLock
  <1> QED
    BY <1>19, <1>20, <1>21, <1>22, <1>23, <1>24, <1>25, <1>26, <1>27, <1>28 DEF PyRight

\* A pass begins with the first of its list.
LEMMA PassKeeps ==
  ASSUME PyRight, None \notin Coros, Python!EndPass \/ Python!StartPass
  PROVE  PyRight'
  <1>1. /\ PyTypes /\ PyThere /\ PyRuns /\ PyClosing /\ PyParents
        /\ PyWaits /\ PyListed /\ PyGathers /\ PyLock /\ PyOrders
    BY DEF PyRight
  <1>2. /\ coro = None /\ closing = <<>> /\ coro' = None /\ closing' = <<>>
        /\ UNCHANGED <<there, ended, doing, parent, runnable, awake, deleted, owner,
                       inside, waiters, waiting, beaten, nobody>>
        /\ \/ loop' = "coros" /\ next' = Python!First(runnable)
           \/ loop' \in {"http", "http again"} /\ next' = Python!First(awake)
           \/ loop' = "events" /\ next' = None
    <2>1. CASE Python!EndPass
      <3>1. loop \in {"http", "coros", "http again"}
        BY <1>1, <2>1 DEF Python!EndPass, PyTypes
      <3> QED BY <2>1, <3>1
         DEF Python!EndPass, Python!Idle, Python!coros, Python!sched, Python!lock, Python!fifo
    <2>2. CASE Python!StartPass
      BY <2>2 DEF Python!StartPass, Python!Idle, Python!coros, Python!sched, Python!lock,
                  Python!fifo
    <2> QED BY <2>1, <2>2
  <1>3. PyOrders' /\ Ups' = Ups
    BY <1>1, <1>2, StillUp
  <1>4. next' # None => next' \in Ups /\ loop' # "events" /\ (next' \in Requests <=> loop' # "coros")
    <2>1. \A r \in Coros : r \in Ups <=> Member(runnable, r) \/ Member(awake, r)
      BY <1>1, UpsOf
    <2>2. ASSUME NEW q \in Seq(Coros), Python!First(q) # None
          PROVE  Member(q, Python!First(q)) /\ Python!First(q) \in Coros
      <3>1. q # <<>> /\ Python!First(q) = Head(q)
        BY <2>2 DEF Python!First
      <3>2. Head(q) = q[1] /\ 1 \in 1..Len(q) /\ Head(q) \in Coros
        BY <3>1
      <3> QED BY <3>1, <3>2 DEF Member
    <2>3. /\ \A r : Member(runnable, r) => r \notin Requests
          /\ \A r : Member(awake, r) => r \in Requests
          /\ runnable \in Seq(Coros) /\ awake \in Seq(Coros)
      BY <1>1 DEF PyOrders
    <2>4. CASE loop' = "coros" /\ next' = Python!First(runnable)
      BY <2>1, <2>2, <2>3, <2>4
    <2>5. CASE loop' \in {"http", "http again"} /\ next' = Python!First(awake)
      BY <2>1, <2>2, <2>3, <2>5
    <2>6. CASE next' = None
      BY <2>6
    <2> QED BY <1>2, <2>4, <2>5, <2>6
  <1>5. Ups \subseteq Coros /\ Len(closing) = 0
    BY <1>2 DEF Ups
  <1>19. PyOrders'
    BY <1>3
  <1>20. PyTypes'
    BY <1>1, <1>2, <1>4, <1>5 DEF PyTypes
  <1>21. PyThere'
    BY <1>1, <1>2, <1>3 DEF PyThere
  <1>22. PyRuns'
    BY <1>2, <1>3, <1>4, <1>5 DEF PyRuns
  <1>23. PyClosing'
    <2>1. closing' = <<>> /\ Len(closing') = 0
      BY <1>2
    <2> QED BY <2>1 DEF PyClosing
  <1>24. PyParents'
    BY <1>1, <1>2 DEF PyParents
  <1>25. PyWaits'
    BY <1>1, <1>2, <1>3 DEF PyWaits
  <1>26. PyListed'
    BY <1>1, <1>2, <1>3 DEF PyListed
  <1>27. PyGathers'
    BY <1>1, <1>2, <1>3 DEF PyGathers
  <1>28. PyLock'
    BY <1>1, <1>2, <1>3 DEF PyLock
  <1> QED
    BY <1>19, <1>20, <1>21, <1>22, <1>23, <1>24, <1>25, <1>26, <1>27, <1>28 DEF PyRight

\* Of several that are deleted the last one is of a request, and gathers.
LEMMA SeveralClose ==
  ASSUME PyRight, None \notin Coros, closing # <<>>, Len(closing) # 1
  PROVE  /\ Last1 \in Requests /\ parent[Last1] = None /\ doing[Last1] = "gather"
         /\ 2 \in 1..Len(closing) /\ parent[closing[1]] = closing[2]
  <1>1. PyClosing /\ PyParents /\ closing \in Seq(Coros)
    BY DEF PyRight, PyTypes
  <1>2. Len(closing) \in Nat /\ Len(closing) > 1
    <2>1. closing \in Seq(Coros)
      BY <1>1
    <2> QED BY <2>1
  <1> DEFINE j == Len(closing) - 1
  <1>3. /\ j \in 1..Len(closing) /\ Len(closing) \in 1..Len(closing) /\ Len(closing) = j + 1
        /\ 1 \in 1..Len(closing) /\ 2 \in 1..Len(closing) /\ 2 = 1 + 1
    BY <1>2
  <1> HIDE DEF j
  <1>4. closing[j] \in Coros /\ Last1 \in Coros
    BY <1>1, <1>3 DEF Last1
  <1>5. parent[closing[j]] = Last1 /\ parent[closing[1]] = closing[2]
    BY <1>1, <1>3 DEF PyClosing, Last1
  <1>6. doing[Last1] = "gather"
    BY <1>1, <1>4, <1>5 DEF PyParents
  <1>7. Last1 \in Requests
    BY <1>1, <1>6 DEF PyClosing
  <1> QED BY <1>1, <1>3, <1>4, <1>5, <1>6, <1>7 DEF PyParents

\* What the first of those gathers is deleted before it.
LEMMA ClosesKidKeeps ==
  ASSUME PyRight, None \notin Coros, Python!ClosesKid
  PROVE  PyRight'
  <1>1. /\ PyTypes /\ PyThere /\ PyRuns /\ PyClosing /\ PyParents
        /\ PyWaits /\ PyListed /\ PyGathers /\ PyLock /\ PyOrders
    BY DEF PyRight
  <1>2. closing # <<>> /\ UNCHANGED <<up, there, ended, doing, parent, runnable, awake, coro,
            loop, next, deleted, owner, inside, waiters, waiting, beaten, nobody>>
    BY DEF Python!ClosesKid, Python!coros, Python!sched, Python!pass, Python!lock, Python!fifo
  <1>3. PICK k \in there : parent[k] = Head(closing) /\ closing' = <<k>> \o closing
    BY DEF Python!ClosesKid, Python!Kids
  <1>4. /\ closing \in Seq(Coros) /\ Once(closing) /\ Len(closing) \in Nat \ {0}
        /\ Head(closing) = closing[1] /\ k \in Coros
        /\ 1 \in 1..Len(closing) /\ Len(closing) \in 1..Len(closing)
    <2>1. closing \in Seq(Coros) /\ Once(closing) /\ k \in Coros
      BY <1>1, <1>3 DEF PyTypes, PyThere
    <2>2. /\ Len(closing) \in Nat \ {0} /\ Head(closing) = closing[1]
          /\ 1 \in 1..Len(closing) /\ Len(closing) \in 1..Len(closing)
      BY <1>2, <2>1
    <2> QED BY <2>1, <2>2
  <1>5. closing[1] \in Coros /\ k \notin Requests /\ doing[closing[1]] = "gather"
    BY <1>1, <1>3, <1>4 DEF PyParents
  <1>6. ~Member(closing, k)
    <2> SUFFICES ASSUME NEW j \in 1..Len(closing), closing[j] = k PROVE FALSE
      BY DEF Member
    <2>1. CASE j = Len(closing)
      <3>1. k = Last1 /\ doing[k] = "go"
        BY <1>1, <1>2, <1>5, <2>1 DEF Last1, PyClosing
      <3>2. CASE Len(closing) = 1
        BY <1>5, <2>1, <3>1, <3>2 DEF Last1
      <3>3. CASE Len(closing) # 1
        BY <1>2, <3>1, <3>3, SeveralClose
      <3> QED BY <3>2, <3>3
    <2>2. CASE j # Len(closing)
      <3>1. j + 1 \in 1..Len(closing) /\ j + 1 # 1
        BY <1>4, <2>2
      <3>2. closing[j + 1] = closing[1]
        BY <1>1, <1>3, <1>4, <3>1 DEF PyClosing
      <3> QED BY <1>4, <3>1, <3>2 DEF Once
    <2> QED BY <2>1, <2>2
  <1>7. /\ closing' \in Seq(Coros) /\ Once(closing')
        /\ \A r : Member(closing', r) <=> Member(closing, r) \/ r = k
    BY <1>3, <1>4, <1>6, GrownAtHead
  <1>8. /\ Len(closing') = Len(closing) + 1 /\ closing' # <<>>
        /\ closing'[1] = k
        /\ \A i \in 1..Len(closing') : i # 1 =>
             i - 1 \in 1..Len(closing) /\ closing'[i] = closing[i - 1]
    BY <1>3, <1>4
  <1>9. Ups' = Ups /\ PyOrders'
    BY <1>1, <1>2, StillUp
  <1>19. PyOrders'
    BY <1>9
  <1>20. PyTypes'
    BY <1>1, <1>2, <1>7 DEF PyTypes
  <1>21. PyThere'
    BY <1>1, <1>2, <1>7, <1>9 DEF PyThere
  <1>22. PyRuns'
    BY <1>1, <1>2, <1>9 DEF PyRuns
  <1>23. PyClosing'
    <2>1. ASSUME NEW i \in 1..Len(closing') PROVE closing'[i] \in there
      BY <1>1, <1>3, <1>8 DEF PyClosing
    <2>2. ASSUME NEW i \in 1..Len(closing'), NEW j \in 1..Len(closing'), j = i + 1
          PROVE  parent[closing'[i]] = closing'[j]
      <3>1. j # 1 /\ j - 1 = i /\ closing'[j] = closing[i] /\ i \in 1..Len(closing)
        BY <1>4, <1>8, <2>2
      <3>2. CASE i = 1
        BY <1>3, <1>4, <1>8, <3>1, <3>2
      <3>3. CASE i # 1
        <4>1. i - 1 \in 1..Len(closing) /\ closing'[i] = closing[i - 1] /\ i = (i - 1) + 1
          BY <1>8, <3>3
        <4> QED BY <1>1, <3>1, <4>1 DEF PyClosing
      <3> QED BY <3>2, <3>3
    <2>3. Last1' = Last1
      <3>1. Len(closing') \in 1..Len(closing') /\ Len(closing') # 1 /\ Len(closing') - 1 = Len(closing)
        BY <1>4, <1>8
      <3> QED BY <1>8, <3>1 DEF Last1
    <2> QED BY <1>1, <1>2, <1>9, <2>1, <2>2, <2>3 DEF PyClosing
  <1>24. PyParents'
    BY <1>1, <1>2 DEF PyParents
  <1>25. PyWaits'
    BY <1>1, <1>2, <1>9 DEF PyWaits
  <1>26. PyListed'
    BY <1>1, <1>2, <1>9 DEF PyListed
  <1>27. PyGathers'
    BY <1>1, <1>2, <1>7, <1>9 DEF PyGathers
  <1>28. PyLock'
    BY <1>1, <1>2, <1>9 DEF PyLock
  <1> QED
    BY <1>19, <1>20, <1>21, <1>22, <1>23, <1>24, <1>25, <1>26, <1>27, <1>28 DEF PyRight

\* The first of those, outside of the body, is deleted.
LEMMA ClosesKeeps ==
  ASSUME PyRight, None \notin Coros, Python!Closes, Head(closing) \notin inside
  PROVE  PyRight'
  <1>1. /\ PyTypes /\ PyThere /\ PyRuns /\ PyClosing /\ PyParents
        /\ PyWaits /\ PyListed /\ PyGathers /\ PyLock /\ PyOrders
    BY DEF PyRight
  <1> DEFINE c == Head(closing)
  <1>2. /\ closing # <<>> /\ closing' = Tail(closing)
        /\ \A k \in there : parent[k] # c
        /\ there' = there \ {c} /\ ended' = ended \cup {c}
        /\ parent' = [parent EXCEPT ![c] = None] /\ doing' = [doing EXCEPT ![c] = "go"]
        /\ awake' = Python!RemoveFirst(awake, c) /\ runnable' = Python!RemoveFirst(runnable, c)
    BY DEF Python!Closes, Python!WithLock, Python!Kids
  <1>3. /\ next' = IF next = c THEN Python!After(runnable, c) ELSE next
        /\ deleted' = deleted \ {c} /\ beaten' = beaten \ {c}
        /\ waiting' = Python!RemoveFirst(waiting, c)
        /\ nobody' = (nobody \/ (doing[c] = "lock" /\ Python!IsAwake(c)))
        /\ UNCHANGED <<loop, coro, owner, inside, waiters>>
    BY DEF Python!Closes, Python!WithLock, Python!LeavesIt, Python!lock
  <1>4. /\ closing \in Seq(Coros) /\ Once(closing) /\ Len(closing) \in Nat \ {0}
        /\ 1 \in 1..Len(closing) /\ Len(closing) \in 1..Len(closing)
        /\ c = closing[1] /\ c \in Coros /\ Member(closing, c)
    <2>1. closing \in Seq(Coros) /\ Once(closing)
      BY <1>1 DEF PyTypes, PyThere
    <2>2. /\ Len(closing) \in Nat \ {0} /\ c = closing[1] /\ c \in Coros
          /\ 1 \in 1..Len(closing) /\ Len(closing) \in 1..Len(closing)
      BY <1>2, <2>1
    <2> QED BY <2>1, <2>2 DEF Member
  <1>5. /\ closing' \in Seq(Coros) /\ Once(closing')
        /\ \A r : Member(closing', r) <=> Member(closing, r) /\ r # c
    BY <1>2, <1>4, FirstOut
  <1>6. /\ Len(closing') = Len(closing) - 1
        /\ \A i \in 1..Len(closing') : i + 1 \in 1..Len(closing) /\ closing'[i] = closing[i + 1]
    BY <1>2, <1>4
  <1>7. c \notin inside /\ c \in there /\ coro = None
    BY <1>1, <1>2, <1>4 DEF PyClosing, PyRuns
  <1> HIDE DEF c
  <1>8. PyOrders' /\ Ups' = Ups \ {c}
    BY <1>1, <1>2, <1>4, SleepOf
  <1>9. /\ doing' \in [Coros -> {"go", "lock", "pop", "suspend", "due", "gather"}]
        /\ doing'[c] = "go" /\ \A d \in Coros : d # c => doing'[d] = doing[d]
    BY <1>1, <1>2, <1>4, KeptTypes
  <1>10. /\ parent' \in [Coros -> Coros \cup {None}]
         /\ parent'[c] = None /\ \A d \in Coros : d # c => parent'[d] = parent[d]
    BY <1>1, <1>2, <1>4 DEF PyTypes
  <1>11. /\ waiting' \in Seq(Coros) /\ Once(waiting')
         /\ \A r : Member(waiting', r) <=> Member(waiting, r) /\ r # c
    BY <1>1, <1>3, TakenOut DEF PyTypes, PyThere
  <1>12. Len(closing) # 1 =>
           /\ Last1 \in Requests /\ parent[Last1] = None /\ c # Last1
           /\ parent[c] = closing[2] /\ closing'[1] = closing[2] /\ Last1' = Last1
           /\ Member(closing', closing[2])
    <2> SUFFICES ASSUME Len(closing) # 1
                 PROVE  /\ Last1 \in Requests /\ parent[Last1] = None /\ c # Last1
                        /\ parent[c] = closing[2] /\ closing'[1] = closing[2]
                        /\ Last1' = Last1 /\ Member(closing', closing[2])
      OBVIOUS
    <2>1. /\ Last1 \in Requests /\ parent[Last1] = None
          /\ 2 \in 1..Len(closing) /\ parent[c] = closing[2]
      BY <1>2, <1>4, SeveralClose
    <2>2. c # Last1
      BY <1>4 DEF Last1, Once
    <2>3. /\ 1 \in 1..Len(closing') /\ Len(closing') \in 1..Len(closing')
          /\ Len(closing') + 1 = Len(closing)
      BY <1>4, <1>6
    <2>4. closing'[1] = closing[2] /\ Last1' = Last1
      BY <1>6, <2>3 DEF Last1
    <2> QED BY <2>1, <2>2, <2>3, <2>4 DEF Member
  <1>13. next' # None => /\ next' \in Ups /\ next' # c /\ loop # "events"
                         /\ next' \in Requests <=> loop # "coros"
                         /\ Len(closing) # 1 => next' # Last1
    <2>1. CASE next # c
      BY <1>1, <1>2, <1>3, <2>1 DEF PyRuns, PyClosing
    <2>2. CASE next = c
      <3>1. next # None /\ next \in Ups /\ next # Last1 /\ loop # "events"
            /\ (next \in Requests <=> loop # "coros")
        BY <1>1, <1>2, <1>4, <2>2 DEF PyRuns, PyClosing
      <3>2. Len(closing) # 1
        BY <1>4, <2>2, <3>1 DEF Last1
      <3>3. parent[c] # None
        <4>1. closing[2] \in Coros
          BY <1>5, <1>12, <3>2, MemberIn
        <4> QED BY <1>12, <3>2, <4>1
      <3>4. c \notin Requests /\ loop = "coros"
        BY <1>1, <1>4, <2>2, <3>1, <3>3 DEF PyParents
      <3>5. /\ runnable \in Seq(Coros) /\ Once(runnable)
            /\ \A r : Member(runnable, r) => r \notin Requests
            /\ \A r : Member(awake, r) => r \in Requests
        BY <1>1 DEF PyOrders
      <3>6. \A r \in Coros : r \in Ups <=> Member(runnable, r) \/ Member(awake, r)
        BY <1>1, UpsOf
      <3>7. Member(runnable, c)
        BY <1>4, <2>2, <3>1, <3>4, <3>5, <3>6
      <3>8. next' = None \/ (Member(runnable, next') /\ next' # c)
        BY <1>3, <2>2, <3>5, <3>7, AfterOf
      <3>9. \A r : Member(runnable, r) => r \in Coros
        BY <3>5, MemberIn
      <3> QED BY <1>12, <3>1, <3>2, <3>4, <3>5, <3>6, <3>8, <3>9
    <2> QED BY <2>1, <2>2
  <1>14. Ups \subseteq Coros
    BY DEF Ups
  <1>19. PyOrders'
    BY <1>8
  <1>20. PyTypes'
    <2>1. /\ there' \subseteq Coros /\ ended' \subseteq Coros /\ deleted' \subseteq Coros
          /\ inside' \subseteq Coros /\ beaten' \subseteq Coros
      BY <1>1, <1>2, <1>3, <1>4 DEF PyTypes
    <2>2. next' \in Coros \cup {None}
      BY <1>13, <1>14
    <2>3. coro' \in Coros \cup {None} /\ owner' \in Coros \cup {None} /\ waiters' \in Seq(Coros)
          /\ loop' \in {"http", "coros", "http again", "events"}
      BY <1>1, <1>3 DEF PyTypes
    <2> QED BY <1>5, <1>9, <1>10, <1>11, <2>1, <2>2, <2>3 DEF PyTypes
  <1>21. PyThere'
    BY <1>1, <1>2, <1>3, <1>4, <1>5, <1>8, <1>9, <1>11 DEF PyThere
  <1>22. PyRuns'
    BY <1>3, <1>7, <1>8, <1>13 DEF PyRuns
  <1>23. PyClosing'
    <2>1. ASSUME NEW i \in 1..Len(closing') PROVE closing'[i] \in there' /\ closing'[i] # c
      <3>1. i + 1 \in 1..Len(closing) /\ closing'[i] = closing[i + 1] /\ i + 1 # 1
        BY <1>6
      <3>2. closing[i + 1] # c
        BY <1>4, <3>1 DEF Once
      <3> QED BY <1>1, <1>2, <3>1, <3>2 DEF PyClosing
    <2>2. ASSUME NEW i \in 1..Len(closing'), NEW j \in 1..Len(closing'), j = i + 1
          PROVE  parent'[closing'[i]] = closing'[j]
      <3>1. /\ i + 1 \in 1..Len(closing) /\ closing'[i] = closing[i + 1]
            /\ j + 1 \in 1..Len(closing) /\ closing'[j] = closing[j + 1]
            /\ j + 1 = (i + 1) + 1
        BY <1>6, <2>2
      <3>2. parent[closing'[i]] = closing'[j]
        BY <1>1, <3>1 DEF PyClosing
      <3>3. closing'[i] \in Coros /\ closing'[i] # c
        BY <1>5, <2>1
      <3> QED BY <1>10, <3>2, <3>3
    <2>3. ASSUME closing' # <<>>
          PROVE  /\ next' # Last1' /\ (Last1' \in Requests \/ doing'[Last1'] = "go")
                 /\ parent'[Last1'] # None => parent'[Last1'] \in Ups'
      <3>1. Len(closing) # 1
        BY <1>5, <1>6, <2>3
      <3>2. Last1' = Last1 /\ Last1 \in Requests /\ parent[Last1] = None /\ c # Last1
            /\ Last1 \in Coros
        BY <1>4, <1>12, <3>1 DEF Last1
      <3>3. parent'[Last1] = None
        BY <1>10, <3>2
      <3> QED BY <1>13, <3>1, <3>2, <3>3
    <2> QED BY <2>1, <2>2, <2>3 DEF PyClosing
  <1>24. PyParents'
    <2> SUFFICES ASSUME NEW d \in Coros, parent'[d] # None
                 PROVE  /\ d \in there' \ Requests /\ parent'[d] \in there'
                        /\ doing'[parent'[d]] = "gather"
      BY DEF PyParents
    <2>1. d # c /\ parent'[d] = parent[d] /\ parent[d] # None
      BY <1>10
    <2>2. d \in there \ Requests /\ parent[d] \in there /\ doing[parent[d]] = "gather"
      BY <1>1, <2>1 DEF PyParents
    <2>3. parent[d] # c /\ parent[d] \in Coros
      BY <1>1, <1>2, <2>2 DEF PyTypes
    <2> QED BY <1>2, <1>9, <2>1, <2>2, <2>3
  <1>25. PyWaits'
    BY <1>1, <1>2, <1>3, <1>8, <1>9, <1>11 DEF PyWaits, PyTypes, PyThere
  <1>26. PyListed'
    BY <1>1, <1>2, <1>3, <1>8, <1>9, <1>11 DEF PyListed, PyTypes
  <1>27. PyGathers'
    <2> SUFFICES ASSUME NEW d \in there', doing'[d] = "gather",
                        \A k \in there' : parent'[k] # d
                 PROVE  d \in Ups' \/ Member(closing', d)
      BY DEF PyGathers
    <2>1. d \in there /\ d # c /\ d \in Coros /\ doing[d] = "gather"
      BY <1>1, <1>2, <1>9 DEF PyTypes
    <2>2. CASE parent[c] = d
      <3>1. CASE Len(closing) = 1
        <4>1. c = Last1 /\ parent[Last1] = d
          BY <1>4, <2>2, <3>1 DEF Last1
        <4>2. d \in Ups
          BY <1>1, <1>2, <2>1, <4>1 DEF PyClosing
        <4> QED BY <1>8, <2>1, <4>2
      <3>2. CASE Len(closing) # 1
        BY <1>12, <2>2, <3>2
      <3> QED BY <3>1, <3>2
    <2>3. CASE parent[c] # d
      <3>1. \A k \in there : parent[k] # d
        BY <1>1, <1>2, <1>10, <2>3 DEF PyTypes
      <3>2. d \in Ups \/ Member(closing, d)
        BY <1>1, <2>1, <3>1 DEF PyGathers
      <3> QED BY <1>5, <1>8, <2>1, <3>2
    <2> QED BY <2>2, <2>3
  <1>28. PyLock'
    <2>1. inside' = {owner'} \ {None} /\ inside' \subseteq there'
      BY <1>1, <1>2, <1>3, <1>7 DEF PyLock
    <2>2. ASSUME owner' = None, waiters' # <<>>
          PROVE  nobody' \/ \E d \in there' \cap Ups' : doing'[d] = "lock"
      <3>1. nobody \/ \E d \in there \cap Ups : doing[d] = "lock"
        BY <1>1, <1>3, <2>2 DEF PyLock
      <3>2. CASE nobody
        BY <1>3, <3>2
      <3>3. CASE c \in Ups /\ doing[c] = "lock"
        BY <1>3, <3>3 DEF Ups
      <3>4. ASSUME NEW d \in there \cap Ups, doing[d] = "lock", d # c
            PROVE  d \in there' \cap Ups' /\ doing'[d] = "lock"
        BY <1>2, <1>8, <1>9, <1>14, <3>4
      <3> QED BY <3>1, <3>2, <3>3, <3>4
    <2> QED BY <2>1, <2>2 DEF PyLock
  <1> QED
    BY <1>19, <1>20, <1>21, <1>22, <1>23, <1>24, <1>25, <1>26, <1>27, <1>28 DEF PyRight

\* A request, or kore.task_create.
LEMMA ComesKeeps ==
  ASSUME PyRight, None \notin Coros, NEW c \in Coros, Python!Comes(c)
  PROVE  PyRight'
  <1>1. /\ PyTypes /\ PyThere /\ PyRuns /\ PyClosing /\ PyParents
        /\ PyWaits /\ PyListed /\ PyGathers /\ PyLock /\ PyOrders
    BY DEF PyRight
  <1>2. /\ coro = None /\ closing = <<>> /\ loop = "events" /\ c \notin there /\ c \notin ended
        /\ there' = there \cup {c}
        /\ IF c \in Requests THEN awake' = <<c>> \o awake /\ UNCHANGED runnable
                             ELSE runnable' = <<c>> \o runnable /\ UNCHANGED awake
        /\ UNCHANGED <<ended, doing, parent, coro, loop, next, deleted, closing, owner, inside,
                       waiters, waiting, beaten, nobody>>
    BY DEF Python!Comes, Python!Idle, Python!New, Python!pass, Python!lock, Python!fifo
  <1>3. /\ c \notin Ups /\ c \notin deleted /\ doing[c] = "go" /\ parent[c] = None
        /\ \A d \in Coros : parent[d] # c
        /\ ~Member(waiters, c) /\ ~Member(waiting, c)
    BY <1>1, <1>2 DEF PyThere, PyParents, PyWaits
  <1>4. PyOrders' /\ Ups' = Ups \cup {c}
    <2>1. \A r \in Coros : r \in Ups <=> Member(runnable, r) \/ Member(awake, r)
      BY <1>1, UpsOf
    <2>2. Ups \subseteq Coros /\ Ups' \subseteq Coros
      BY DEF Ups
    <2>3. CASE c \in Requests
      <3>1. /\ awake' \in Seq(Coros) /\ Once(awake') /\ runnable' = runnable
            /\ \A r : Member(awake', r) <=> Member(awake, r) \/ r = c
        <4>1. /\ awake \in Seq(Coros) /\ Once(awake) /\ ~Member(awake, c)
              /\ awake' = <<c>> \o awake /\ runnable' = runnable
          BY <1>1, <1>2, <1>3, <2>1, <2>3 DEF PyOrders
        <4> QED BY <4>1, GrownAtHead
      <3>2. PyOrders'
        BY <1>1, <2>3, <3>1 DEF PyOrders
      <3>3. \A r \in Coros : r \in Ups' <=> Member(runnable', r) \/ Member(awake', r)
        BY <3>2, UpsAfter
      <3> QED BY <2>1, <2>2, <3>1, <3>2, <3>3
    <2>4. CASE c \notin Requests
      <3>1. /\ runnable' \in Seq(Coros) /\ Once(runnable') /\ awake' = awake
            /\ \A r : Member(runnable', r) <=> Member(runnable, r) \/ r = c
        <4>1. /\ runnable \in Seq(Coros) /\ Once(runnable) /\ ~Member(runnable, c)
              /\ runnable' = <<c>> \o runnable /\ awake' = awake
          BY <1>1, <1>2, <1>3, <2>1, <2>4 DEF PyOrders
        <4> QED BY <4>1, GrownAtHead
      <3>2. PyOrders'
        BY <1>1, <2>4, <3>1 DEF PyOrders
      <3>3. \A r \in Coros : r \in Ups' <=> Member(runnable', r) \/ Member(awake', r)
        BY <3>2, UpsAfter
      <3> QED BY <2>1, <2>2, <3>1, <3>2, <3>3
    <2> QED BY <2>3, <2>4
  <1>5. next = None
    BY <1>1, <1>2 DEF PyRuns
  <1>19. PyOrders'
    BY <1>4
  <1>20. PyTypes'
    BY <1>1, <1>2 DEF PyTypes
  <1>21. PyThere'
    BY <1>1, <1>2, <1>3, <1>4 DEF PyThere
  <1>22. PyRuns'
    BY <1>2, <1>5 DEF PyRuns
  <1>23. PyClosing'
    <2>1. closing' = <<>> /\ Len(closing') = 0
      BY <1>2
    <2> QED BY <2>1 DEF PyClosing
  <1>24. PyParents'
    BY <1>1, <1>2 DEF PyParents
  <1>25. PyWaits'
    BY <1>1, <1>2, <1>3, <1>4 DEF PyWaits
  <1>26. PyListed'
    BY <1>1, <1>2, <1>3, <1>4 DEF PyListed
  <1>27. PyGathers'
    BY <1>1, <1>2, <1>3, <1>4 DEF PyGathers
  <1>28. PyLock'
    BY <1>1, <1>2, <1>4 DEF PyLock
  <1> QED
    BY <1>19, <1>20, <1>21, <1>22, <1>23, <1>24, <1>25, <1>26, <1>27, <1>28 DEF PyRight

\* The timer of kore.suspend.
LEMMA TimerKeeps ==
  ASSUME PyRight, None \notin Coros, NEW c \in Coros, Python!TimerFires(c)
  PROVE  PyRight'
  <1>1. /\ PyTypes /\ PyThere /\ PyRuns /\ PyClosing /\ PyParents
        /\ PyWaits /\ PyListed /\ PyGathers /\ PyLock /\ PyOrders
    BY DEF PyRight
  <1>2. /\ coro = None /\ closing = <<>> /\ loop = "events" /\ doing[c] = "suspend"
        /\ doing' = [doing EXCEPT ![c] = "due"] /\ Python!Wake(c)
        /\ UNCHANGED <<there, ended, parent, coro, loop, next, deleted, closing, owner, inside,
                       waiters, waiting, beaten, nobody>>
    BY DEF Python!TimerFires, Python!Idle, Python!Resumes, Python!pass, Python!lock, Python!fifo
  <1>3. /\ c \in there /\ ~Member(waiters, c) /\ ~Member(waiting, c)
        /\ \A d \in Coros : parent[d] # c
    BY <1>1, <1>2 DEF PyThere, PyWaits, PyParents
  <1>4. PyOrders' /\ Ups' = Ups \cup {c}
    BY <1>1, <1>2, WakeOf
  <1>5. /\ doing' \in [Coros -> {"go", "lock", "pop", "suspend", "due", "gather"}]
        /\ doing'[c] = "due" /\ \A d \in Coros : d # c => doing'[d] = doing[d]
    BY <1>1, <1>2, KeptTypes
  <1>6. next = None
    BY <1>1, <1>2 DEF PyRuns
  <1>19. PyOrders'
    BY <1>4
  <1>20. PyTypes'
    BY <1>1, <1>2, <1>5 DEF PyTypes
  <1>21. PyThere'
    BY <1>1, <1>2, <1>3, <1>4, <1>5 DEF PyThere
  <1>22. PyRuns'
    BY <1>2, <1>6 DEF PyRuns
  <1>23. PyClosing'
    <2>1. closing' = <<>> /\ Len(closing') = 0
      BY <1>2
    <2> QED BY <2>1 DEF PyClosing
  <1>24. PyParents'
    BY <1>1, <1>2, <1>3, <1>5 DEF PyParents, PyTypes
  <1>25. PyWaits'
    <2>1. \A r : Member(waiting, r) => r \in Coros /\ r # c
      BY <1>1, <1>3, MemberIn DEF PyTypes
    <2>2. \A r : Member(waiters, r) => r \in Coros /\ r # c
      BY <1>1, <1>3, MemberIn DEF PyTypes
    <2> QED BY <1>1, <1>2, <1>4, <1>5, <2>1, <2>2 DEF PyWaits
  <1>26. PyListed'
    BY <1>1, <1>2, <1>4, <1>5 DEF PyListed, PyTypes
  <1>27. PyGathers'
    BY <1>1, <1>2, <1>4, <1>5 DEF PyGathers, PyTypes
  <1>28. PyLock'
    BY <1>1, <1>2, <1>4, <1>5 DEF PyLock, PyTypes
  <1> QED
    BY <1>19, <1>20, <1>21, <1>22, <1>23, <1>24, <1>25, <1>26, <1>27, <1>28 DEF PyRight

\* A client goes: its request is woken, to be deleted.
LEMMA ClientKeeps ==
  ASSUME PyRight, None \notin Coros, NEW c \in Coros, Python!ClientGone(c)
  PROVE  PyRight'
  <1>1. /\ PyTypes /\ PyThere /\ PyRuns /\ PyClosing /\ PyParents
        /\ PyWaits /\ PyListed /\ PyGathers /\ PyLock /\ PyOrders
    BY DEF PyRight
  <1>2. /\ coro = None /\ closing = <<>> /\ loop = "events"
        /\ c \in there /\ c \in Requests /\ c \notin deleted
        /\ deleted' = deleted \cup {c} /\ Python!Wake(c)
        /\ UNCHANGED <<there, ended, doing, parent, coro, loop, next, closing, owner, inside,
                       waiters, waiting, beaten, nobody>>
    BY DEF Python!ClientGone, Python!Idle, Python!coros, Python!pass, Python!lock, Python!fifo
  <1>4. PyOrders' /\ Ups' = Ups \cup {c}
    BY <1>1, <1>2, WakeOf
  <1>6. next = None
    BY <1>1, <1>2 DEF PyRuns
  <1>19. PyOrders'
    BY <1>4
  <1>20. PyTypes'
    BY <1>1, <1>2 DEF PyTypes
  <1>21. PyThere'
    BY <1>1, <1>2, <1>4 DEF PyThere
  <1>22. PyRuns'
    BY <1>2, <1>6 DEF PyRuns
  <1>23. PyClosing'
    <2>1. closing' = <<>> /\ Len(closing') = 0
      BY <1>2
    <2> QED BY <2>1 DEF PyClosing
  <1>24. PyParents'
    BY <1>1, <1>2 DEF PyParents
  <1>25. PyWaits'
    BY <1>1, <1>2, <1>4 DEF PyWaits
  <1>26. PyListed'
    BY <1>1, <1>2, <1>4 DEF PyListed
  <1>27. PyGathers'
    BY <1>1, <1>2, <1>4 DEF PyGathers
  <1>28. PyLock'
    BY <1>1, <1>2, <1>4 DEF PyLock
  <1> QED
    BY <1>19, <1>20, <1>21, <1>22, <1>23, <1>24, <1>25, <1>26, <1>27, <1>28 DEF PyRight

LEMMA PyStart ==
  ASSUME Python!Init, None \notin Coros PROVE PyInv
  <1>1. /\ there = {} /\ ended = {} /\ deleted = {} /\ inside = {} /\ beaten = {}
        /\ runnable = <<>> /\ awake = <<>> /\ waiters = <<>> /\ waiting = <<>>
        /\ next = None /\ coro = None /\ owner = None /\ loop = "events" /\ closing = <<>>
        /\ doing = [c \in Coros |-> "go"] /\ parent = [c \in Coros |-> None]
    BY DEF Python!Init
  <1>2. /\ <<>> \in Seq(Coros) /\ Once(<<>>) /\ Len(<<>>) = 0 /\ \A r : ~Member(<<>>, r)
    BY DEF Once, Member
  <1>3. PyOrders
    BY <1>1, <1>2 DEF PyOrders
  <1>4. Ups = {}
    BY <1>1, <1>2, <1>3, UpsOf DEF Ups
  <1>5. PyTypes
    BY <1>1, <1>2 DEF PyTypes
  <1>6. PyThere
    BY <1>1, <1>2, <1>4 DEF PyThere
  <1>7. PyClosing
    BY <1>1, <1>2 DEF PyClosing
  <1>8. PyRuns /\ PyParents /\ PyWaits /\ PyListed /\ PyGathers /\ PyLock
    BY <1>1, <1>2 DEF PyRuns, PyParents, PyWaits, PyListed, PyGathers, PyLock
  <1> QED BY <1>3, <1>5, <1>6, <1>7, <1>8 DEF PyInv, PyRight

LEMMA PyStays ==
  ASSUME PyRight, UNCHANGED Python!vars PROVE PyRight'
  <1>1. UNCHANGED <<there, ended, doing, parent, runnable, awake, coro, loop, next, deleted,
                    closing, owner, inside, waiters, waiting, beaten, nobody>>
    BY DEF Python!vars, Python!coros, Python!sched, Python!pass, Python!lock, Python!fifo
  <1>2. PyRight /\ PyOrders
    BY DEF PyRight
  <1>3. PyOrders' /\ Ups' = Ups
    BY <1>1, <1>2, StillUp
  <1>4. PyTypes' /\ PyThere' /\ PyRuns' /\ PyParents'
    BY <1>1, <1>2, <1>3 DEF PyRight, PyTypes, PyThere, PyRuns, PyParents
  <1>5. PyClosing'
    BY <1>1, <1>2, <1>3 DEF PyRight, PyClosing, Last1
  <1>6. PyWaits' /\ PyListed' /\ PyGathers' /\ PyLock'
    BY <1>1, <1>2, <1>3 DEF PyRight, PyWaits, PyListed, PyGathers, PyLock
  <1> QED BY <1>3, <1>4, <1>5, <1>6 DEF PyRight

\* What the coroutine that runs does.
LEMMA LockKeeps ==
  ASSUME PyRight, None \notin Coros, NEW c \in Coros,
         Python!Enter(c) \/ Python!Exit(c) \/ Python!LockAgain(c)
  PROVE  PyInv'
  <1>1. PyTypes /\ PyOrders /\ PyLock /\ c # None
    BY DEF PyRight
  <1>2. CASE Python!Enter(c)
    <2>1. /\ coro = c /\ doing[c] = "go"
          /\ UNCHANGED <<there, ended, parent, loop, next, deleted, closing, waiting, beaten>>
      BY <1>2 DEF Python!Enter, Python!Acts, Python!Does, Python!coros, Python!sched, Python!pass, Python!lock,
             Python!fifo
    <2>2. CASE Python!LockFree
      <3>1. /\ owner = None /\ owner' = c /\ inside' = inside \cup {c} /\ nobody' = FALSE
            /\ doing' = [doing EXCEPT ![c] = "go"]
            /\ UNCHANGED <<waiters, runnable, awake, coro>>
        BY <1>2, <2>2 DEF Python!Enter, Python!LockFree, Python!Acts, Python!Does, Python!coros, Python!sched, Python!pass, Python!lock,
             Python!fifo
      <3>2. PyOrders' /\ Ups' = Ups
        BY <1>1, <3>1, StillUp
      <3>3. PyRight'
        BY <2>1, <3>1, <3>2, GoesOnKeeps
      <3> QED BY <3>3 DEF PyInv
    <2>3. CASE ~Python!LockFree
      <3>1. /\ owner # None /\ waiters' = Append(waiters, c) /\ coro' = None
            /\ awake' = Python!RemoveFirst(awake, c)
            /\ runnable' = Python!RemoveFirst(runnable, c)
            /\ doing' = [doing EXCEPT ![c] = "lock"] /\ UNCHANGED <<owner, inside, nobody>>
        BY <1>2, <2>3 DEF Python!Enter, Python!LockFree, Python!Sleeps, Python!Acts, Python!Does, Python!coros, Python!sched, Python!pass, Python!lock,
             Python!fifo
      <3>2. PyOrders' /\ Ups' = Ups \ {c}
        BY <1>1, <3>1, SleepOf
      <3>3. PyRight'
        BY <2>1, <3>1, <3>2, AwaitsKeeps
      <3> QED BY <3>3 DEF PyInv
    <2> QED BY <2>2, <2>3
  <1>3. CASE Python!Exit(c)
    <2>1. CASE Python!Dies
      BY <2>1 DEF Python!Dies, PyInv
    <2>2. CASE ~Python!Dies
      <3>1. /\ owner = c /\ Python!Releases /\ inside' = inside \ {c}
            /\ UNCHANGED <<there, ended, doing, parent, loop, next, coro, deleted, closing,
                           waiting, beaten>>
        BY <1>3, <2>2 DEF Python!Exit, Python!coros, Python!pass, Python!fifo
      <3>2. c \in inside
        BY <1>1, <3>1 DEF PyLock
      <3>3. PyRight'
        BY <3>1, <3>2, ReleasesKeeps
      <3> QED BY <3>3 DEF PyInv
    <2> QED BY <2>1, <2>2
  <1>4. CASE Python!LockAgain(c)
    <2>1. CASE Python!Dies
      BY <2>1 DEF Python!Dies, PyInv
    <2>2. CASE ~Python!Dies
      <3>1. /\ coro = c /\ doing[c] = "lock"
            /\ UNCHANGED <<there, ended, parent, loop, next, deleted, closing, waiters, waiting>>
        BY <1>4, <2>2 DEF Python!LockAgain, Python!Acts, Python!Does, Python!coros, Python!sched, Python!pass, Python!lock,
             Python!fifo
      <3>2. CASE Python!LockFree
        <4>1. /\ owner = None /\ owner' = c /\ inside' = inside \cup {c} /\ nobody' = FALSE
              /\ doing' = [doing EXCEPT ![c] = "go"]
              /\ UNCHANGED <<runnable, awake, coro, beaten>>
          BY <1>4, <2>2, <3>2 DEF Python!LockAgain, Python!LockFree, Python!GoesOn, Python!sched
        <4>2. PyOrders' /\ Ups' = Ups
          BY <1>1, <4>1, StillUp
        <4>3. PyRight'
          BY <3>1, <4>1, <4>2, GoesOnKeeps
        <4> QED BY <4>3 DEF PyInv
      <3>3. CASE ~Python!LockFree
        <4>1. /\ owner # None /\ coro' = None /\ beaten' = beaten \cup {c}
              /\ awake' = Python!RemoveFirst(awake, c)
              /\ runnable' = Python!RemoveFirst(runnable, c)
              /\ UNCHANGED <<doing, owner, inside, nobody>>
          BY <1>4, <2>2, <3>3 DEF Python!LockAgain, Python!LockFree, Python!Beaten,
             Python!Sleeps, Python!lock
        <4>2. PyOrders' /\ Ups' = Ups \ {c}
          BY <1>1, <4>1, SleepOf
        <4>3. PyRight'
          BY <3>1, <4>1, <4>2, SleepsOnKeeps
        <4> QED BY <4>3 DEF PyInv
      <3> QED BY <3>2, <3>3
    <2> QED BY <2>1, <2>2
  <1> QED BY <1>2, <1>3, <1>4

LEMMA QueueKeeps ==
  ASSUME PyRight, None \notin Coros, NEW c \in Coros,
         Python!Push(c) \/ Python!Pop(c) \/ Python!PopNow(c) \/ Python!PopAgain(c)
  PROVE  PyInv'
  <1>1. PyTypes /\ PyOrders /\ c # None
    BY DEF PyRight
  <1>2. CASE Python!Push(c)
    <2>1. /\ coro = c /\ doing[c] = "go" /\ doing' = [doing EXCEPT ![c] = "go"]
          /\ UNCHANGED <<there, ended, parent, coro, loop, next, deleted, closing, owner, inside,
                         waiters, beaten, nobody>>
      BY <1>2 DEF Python!Push, Python!Acts, Python!Does, Python!coros, Python!sched, Python!pass, Python!lock,
             Python!fifo
    <2>2. CASE waiting = <<>>
      <3>1. UNCHANGED <<waiting, runnable, awake>>
        BY <1>2, <2>2 DEF Python!Push
      <3>2. PyOrders' /\ Ups' = Ups
        BY <1>1, <3>1, StillUp
      <3>3. PyRight'
        BY <2>1, <3>1, <3>2, GoesOnKeeps
      <3> QED BY <3>3 DEF PyInv
    <2>3. CASE waiting # <<>>
      <3>1. waiting' = Tail(waiting) /\ Python!Wake(Head(waiting))
        BY <1>2, <2>3 DEF Python!Push, Python!Hands
      <3>2. Head(waiting) \in Coros
        <4>1. waiting \in Seq(Coros)
          BY <1>1 DEF PyTypes
        <4> QED BY <2>3, <4>1
      <3>3. PyOrders' /\ Ups' = Ups \cup {Head(waiting)}
        BY <1>1, <3>1, <3>2, WakeOf
      <3>4. doing' = doing
        BY <1>1, <2>1 DEF PyTypes
      <3>5. PyRight'
        BY <1>1, <2>1, <2>3, <3>1, <3>3, <3>4, HandsKeeps
      <3> QED BY <3>5 DEF PyInv
    <2> QED BY <2>2, <2>3
  <1>3. CASE Python!Pop(c)
    <2>1. CASE Python!Dies
      BY <2>1 DEF Python!Dies, PyInv
    <2>2. CASE ~Python!Dies
      <3>1. /\ coro = c /\ doing[c] = "go" /\ doing' = [doing EXCEPT ![c] = "pop"]
            /\ waiting' = Append(waiting, c) /\ coro' = None
            /\ awake' = Python!RemoveFirst(awake, c)
            /\ runnable' = Python!RemoveFirst(runnable, c)
            /\ UNCHANGED <<there, ended, parent, loop, next, deleted, closing, owner, inside,
                           waiters, beaten, nobody>>
        BY <1>3, <2>2 DEF Python!Pop, Python!Sleeps, Python!Acts, Python!Does, Python!coros, Python!sched, Python!pass, Python!lock,
             Python!fifo
      <3>2. PyOrders' /\ Ups' = Ups \ {c}
        BY <1>1, <3>1, SleepOf
      <3>3. PyRight'
        BY <3>1, <3>2, AwaitsKeeps
      <3> QED BY <3>3 DEF PyInv
    <2> QED BY <2>1, <2>2
  <1>4. CASE Python!PopNow(c)
    <2>1. /\ coro = c /\ doing[c] = "go" /\ doing' = [doing EXCEPT ![c] = "go"]
          /\ UNCHANGED <<there, ended, parent, runnable, awake, coro, loop, next, deleted,
                         closing, owner, inside, waiters, waiting, beaten, nobody>>
      BY <1>4 DEF Python!PopNow, Python!Acts, Python!Does, Python!coros, Python!sched, Python!pass, Python!lock,
             Python!fifo
    <2>2. PyOrders' /\ Ups' = Ups
      BY <1>1, <2>1, StillUp
    <2>3. PyRight'
      BY <2>1, <2>2, GoesOnKeeps
    <2> QED BY <2>3 DEF PyInv
  <1>5. CASE Python!PopAgain(c)
    <2>1. /\ coro = c /\ doing[c] = "pop"
          /\ UNCHANGED <<there, ended, parent, loop, next, deleted, closing, owner, inside,
                         waiters, waiting, nobody>>
      BY <1>5 DEF Python!PopAgain, Python!pass, Python!lock
    <2>2. \/ /\ doing' = [doing EXCEPT ![c] = "go"]
             /\ UNCHANGED <<runnable, awake, coro, beaten>>
          \/ /\ coro' = None /\ beaten' = beaten \cup {c} /\ UNCHANGED doing
             /\ awake' = Python!RemoveFirst(awake, c)
             /\ runnable' = Python!RemoveFirst(runnable, c)
      BY <1>5 DEF Python!PopAgain, Python!GoesOn, Python!Beaten, Python!Sleeps, Python!sched
    <2>3. CASE doing' = [doing EXCEPT ![c] = "go"] /\ UNCHANGED <<runnable, awake, coro, beaten>>
      <3>1. PyOrders' /\ Ups' = Ups
        BY <1>1, <2>3, StillUp
      <3>2. PyRight'
        BY <2>1, <2>3, <3>1, GoesOnKeeps
      <3> QED BY <3>2 DEF PyInv
    <2>4. CASE /\ coro' = None /\ beaten' = beaten \cup {c} /\ UNCHANGED doing
               /\ awake' = Python!RemoveFirst(awake, c)
               /\ runnable' = Python!RemoveFirst(runnable, c)
      <3>1. PyOrders' /\ Ups' = Ups \ {c}
        BY <1>1, <2>4, SleepOf
      <3>2. PyRight'
        BY <2>1, <2>4, <3>1, SleepsOnKeeps
      <3> QED BY <3>2 DEF PyInv
    <2> QED BY <2>2, <2>3, <2>4
  <1> QED BY <1>2, <1>3, <1>4, <1>5

LEMMA OtherOpsKeep ==
  ASSUME PyRight, None \notin Coros, IsFiniteSet(Coros), NEW c \in Coros,
         \/ Python!Suspend(c) \/ Python!SuspendEnds(c) \/ Python!GatherAgain(c) \/ Python!Ends(c)
         \/ \E kids \in SUBSET (Coros \ Requests) : Python!Gather(c, kids)
  PROVE  PyRight'
  <1>1. PyTypes /\ PyOrders /\ c # None
    BY DEF PyRight
  <1>2. CASE Python!Suspend(c)
    <2>1. /\ coro = c /\ doing[c] = "go" /\ doing' = [doing EXCEPT ![c] = "suspend"]
          /\ coro' = None
          /\ awake' = Python!RemoveFirst(awake, c)
          /\ runnable' = Python!RemoveFirst(runnable, c)
          /\ UNCHANGED <<there, ended, parent, loop, next, deleted, closing, owner, inside,
                         waiters, waiting, beaten, nobody>>
      BY <1>2 DEF Python!Suspend, Python!Sleeps, Python!Acts, Python!Does, Python!coros, Python!sched, Python!pass, Python!lock,
             Python!fifo
    <2>2. PyOrders' /\ Ups' = Ups \ {c}
      BY <1>1, <2>1, SleepOf
    <2> QED BY <2>1, <2>2, AwaitsKeeps
  <1>3. CASE Python!SuspendEnds(c)
    <2>1. /\ coro = c /\ doing[c] = "due" /\ doing' = [doing EXCEPT ![c] = "go"]
          /\ UNCHANGED <<there, ended, parent, runnable, awake, coro, loop, next, deleted,
                         closing, owner, inside, waiters, waiting, beaten, nobody>>
      BY <1>3 DEF Python!SuspendEnds, Python!GoesOn, Python!sched, Python!pass, Python!lock,
                  Python!fifo
    <2>2. PyOrders' /\ Ups' = Ups
      BY <1>1, <2>1, StillUp
    <2> QED BY <2>1, <2>2, GoesOnKeeps
  <1>4. CASE Python!GatherAgain(c)
    <2>1. /\ coro = c /\ doing[c] = "gather"
          /\ UNCHANGED <<there, ended, parent, loop, next, deleted, closing, owner, inside,
                         waiters, waiting, beaten, nobody>>
      BY <1>4 DEF Python!GatherAgain, Python!pass, Python!lock, Python!fifo
    <2>2. CASE Python!Kids(c) = {}
      <3>1. /\ doing' = [doing EXCEPT ![c] = "go"] /\ UNCHANGED <<runnable, awake, coro>>
            /\ \A k \in there : parent[k] # c
        BY <1>4, <2>2 DEF Python!GatherAgain, Python!GoesOn, Python!sched, Python!Kids
      <3>2. PyOrders' /\ Ups' = Ups
        BY <1>1, <3>1, StillUp
      <3> QED BY <2>1, <3>1, <3>2, GoesOnKeeps
    <2>3. CASE Python!Kids(c) # {}
      <3>1. /\ coro' = None /\ UNCHANGED doing
            /\ awake' = Python!RemoveFirst(awake, c)
            /\ runnable' = Python!RemoveFirst(runnable, c)
            /\ \E k \in there : parent[k] = c
        BY <1>4, <2>3 DEF Python!GatherAgain, Python!Sleeps, Python!Kids
      <3>2. PyOrders' /\ Ups' = Ups \ {c}
        BY <1>1, <3>1, SleepOf
      <3> QED BY <2>1, <3>1, <3>2, SleepsOnKeeps
    <2> QED BY <2>2, <2>3
  <1>5. CASE Python!Ends(c)
    <2>1. /\ coro = c /\ doing[c] = "go" /\ c \notin inside /\ Python!Tells(c)
          /\ closing' = <<c>> /\ coro' = None
          /\ UNCHANGED <<there, ended, doing, parent, loop, next, deleted, owner, inside,
                         waiters, waiting, beaten, nobody>>
      BY <1>5 DEF Python!Ends, Python!coros, Python!pass, Python!lock, Python!fifo
    <2> QED BY <2>1, EndsKeeps
  <1>6. CASE \E kids \in SUBSET (Coros \ Requests) : Python!Gather(c, kids)
    <2>1. PICK kids \in SUBSET (Coros \ Requests) : Python!Gather(c, kids)
      BY <1>6
    <2>2. /\ coro = c /\ doing[c] = "go" /\ kids # {}
          /\ kids \subseteq (Coros \ (there \cup ended)) \ Requests
          /\ there' = there \cup kids
          /\ parent' = [k \in Coros |-> IF k \in kids THEN c ELSE parent[k]]
          /\ runnable' = Python!SetToSeq(kids) \o Python!RemoveFirst(runnable, c)
          /\ awake' = Python!RemoveFirst(awake, c) /\ coro' = None
          /\ doing' = [doing EXCEPT ![c] = "gather"]
          /\ UNCHANGED <<ended, loop, next, deleted, closing, owner, inside, waiters, waiting,
                         beaten, nobody>>
      BY <2>1 DEF Python!Gather, Python!New, Python!Acts, Python!Does, Python!coros, Python!sched, Python!pass, Python!lock,
             Python!fifo
    <2> QED BY <2>2, GathersKeeps
  <1> QED BY <1>2, <1>3, <1>4, <1>5, <1>6

LEMMA PyStep ==
  ASSUME PyInv, Python!PythonAssumption, [Python!Next]_(Python!vars) PROVE PyInv'
  <1>1. None \notin Coros /\ IsFiniteSet(Coros)
    BY DEF Python!PythonAssumption, Python!IsFiniteSet, IsFiniteSet
  <1>2. CASE UNCHANGED Python!vars
    <2>1. up' = up
      BY <1>2 DEF Python!vars
    <2> QED BY <1>2, <2>1, PyStays DEF PyInv
  <1>3. CASE Python!Pick \/ Python!EndPass \/ Python!StartPass \/ Python!ClosesKid
    <2>1. PyRight
      BY <1>3 DEF PyInv, Python!Pick, Python!EndPass, Python!StartPass, Python!ClosesKid, Python!Idle
    <2> QED BY <1>1, <1>3, <2>1, PickKeeps, PassKeeps, ClosesKidKeeps DEF PyInv
  <1>4. CASE Python!Closes
    <2>1. PyRight
      BY <1>4 DEF PyInv, Python!Closes
    <2>2. CASE Head(closing) \notin inside
      BY <1>1, <1>4, <2>1, <2>2, ClosesKeeps DEF PyInv
    <2>3. CASE Head(closing) \in inside
      <3>1. Python!WithLock(Head(closing))
        BY <1>4, <2>3 DEF Python!Closes
      <3>2. CASE Python!Dies
        BY <3>2 DEF Python!Dies, PyInv
      <3>3. CASE ~Python!Dies
        <4>1. /\ Python!Releases /\ inside' = inside \ {Head(closing)}
              /\ UNCHANGED <<there, ended, doing, parent, loop, next, coro, deleted, closing,
                             waiting, beaten>>
          BY <3>1, <3>3 DEF Python!WithLock, Python!LetsGo, Python!coros, Python!pass, Python!fifo
        <4>2. Head(closing) \in Coros
          BY <2>1, <2>3 DEF PyRight, PyTypes
        <4>3. PyRight'
          BY <1>1, <2>1, <2>3, <4>1, <4>2, ReleasesKeeps
        <4> QED BY <4>3 DEF PyInv
      <3> QED BY <3>2, <3>3
    <2> QED BY <2>2, <2>3
  <1>5. ASSUME NEW c \in Coros, Python!Step(c) PROVE PyInv'
    <2>1. PyRight
      BY <1>5 DEF PyInv, Python!Step, Python!Enter, Python!Exit, Python!Push, Python!Pop,
         Python!PopNow, Python!Suspend, Python!Gather, Python!LockAgain, Python!PopAgain,
         Python!SuspendEnds, Python!GatherAgain, Python!Ends, Python!Acts
    <2>2. CASE Python!Enter(c) \/ Python!Exit(c) \/ Python!LockAgain(c)
      BY <1>1, <2>1, <2>2, LockKeeps
    <2>3. CASE Python!Push(c) \/ Python!Pop(c) \/ Python!PopNow(c) \/ Python!PopAgain(c)
      BY <1>1, <2>1, <2>3, QueueKeeps
    <2>4. CASE \/ Python!Suspend(c) \/ Python!SuspendEnds(c) \/ Python!GatherAgain(c)
               \/ Python!Ends(c)
               \/ \E kids \in SUBSET (Coros \ Requests) : Python!Gather(c, kids)
      BY <1>1, <2>1, <2>4, OtherOpsKeep DEF PyInv
    <2> QED BY <1>5, <2>2, <2>3, <2>4 DEF Python!Step
  <1>6. ASSUME NEW c \in Coros, Python!Comes(c) \/ Python!TimerFires(c) \/ Python!ClientGone(c)
        PROVE  PyInv'
    <2>1. PyRight
      BY <1>6 DEF PyInv, Python!Comes, Python!TimerFires, Python!ClientGone, Python!Idle
    <2> QED BY <1>1, <1>6, <2>1, ComesKeeps, TimerKeeps, ClientKeeps DEF PyInv
  <1> QED BY <1>2, <1>3, <1>4, <1>5, <1>6 DEF Python!Next, Python!Loop

LEMMA PyImplies ==
  ASSUME PyInv
  PROVE  /\ Python!OneInside /\ Python!WaitersAreListed /\ Python!EntriesAreLive
         /\ Python!GatherersWake /\ Python!FreeLockIsTaken
  <1> SUFFICES ASSUME up
               PROVE  /\ Python!OneInside /\ Python!WaitersAreListed /\ Python!EntriesAreLive
                      /\ Python!GatherersWake /\ Python!FreeLockIsTaken
    BY DEF Python!OneInside, Python!WaitersAreListed, Python!EntriesAreLive,
           Python!GatherersWake, Python!FreeLockIsTaken
  <1>1. /\ PyTypes /\ PyThere /\ PyParents /\ PyWaits /\ PyListed /\ PyGathers /\ PyLock
    BY DEF PyInv, PyRight
  <1>2. \A c \in there : c \in Coros /\ (c \in Ups <=> Python!IsAwake(c))
    BY <1>1 DEF PyTypes, Ups
  <1>3. Python!OneInside
    BY <1>1 DEF PyLock, Python!OneInside
  <1>4. /\ \A r : r \in Python!Range(waiters) <=> Member(waiters, r)
        /\ \A r : r \in Python!Range(waiting) <=> Member(waiting, r)
    <2>1. ASSUME NEW s \in Seq(Coros) PROVE \A r : r \in Python!Range(s) <=> Member(s, r)
      <3>1. DOMAIN s = 1..Len(s)
        OBVIOUS
      <3>2. Python!Range(s) = {s[i] : i \in DOMAIN s}
        BY SamePython
      <3> QED BY <3>1, <3>2 DEF Member
    <2> QED BY <1>1, <2>1 DEF PyTypes
  <1>5. Python!WaitersAreListed
    BY <1>1, <1>2, <1>4 DEF PyListed, Python!WaitersAreListed
  <1>6. Python!EntriesAreLive
    BY <1>1, <1>4 DEF PyWaits, Python!EntriesAreLive
  <1>7. Python!GatherersWake
    <2> SUFFICES ASSUME closing = <<>> PROVE Python!GatherersWake
      BY DEF Python!GatherersWake
    <2>1. \A r : ~Member(closing, r)
      BY DEF Member
    <2>2. ASSUME NEW c \in there, doing[c] = "gather", Python!Kids(c) = {}
          PROVE  Python!IsAwake(c)
      <3>1. \A k \in there : parent[k] # c
        BY <2>2 DEF Python!Kids
      <3> QED BY <1>1, <1>2, <2>1, <2>2, <3>1 DEF PyGathers
    <2>3. ASSUME NEW c \in there, parent[c] # None
          PROVE  parent[c] \in there /\ doing[parent[c]] = "gather"
      BY <1>1, <1>2, <2>3 DEF PyParents
    <2> QED BY <2>2, <2>3 DEF Python!GatherersWake
  <1>8. Python!FreeLockIsTaken
    BY <1>1, <1>2 DEF PyLock, Python!FreeLockIsTaken
  <1> QED BY <1>3, <1>5, <1>6, <1>7, <1>8

\* At most one coroutine is in the body of a lock, and it exists; who awaits
\* the lock or an object is in the list of those to be woken, and an entry of
\* the queue is of a coroutine that awaits; a coroutine whose gathered ones all
\* ended will run; a lock that is free is taken by one that was woken, unless
\* that one was deleted (pylock_*, pyqueue_*, pygather_*, coro_delete).
THEOREM CoroutinesStayRight ==
  ASSUME Python!PythonAssumption
  PROVE  Python!Spec => [](/\ Python!OneInside /\ Python!WaitersAreListed
                           /\ Python!EntriesAreLive /\ Python!GatherersWake
                           /\ Python!FreeLockIsTaken)
  <1>1. Python!Init => PyInv
    BY PyStart DEF Python!PythonAssumption
  <1>2. PyInv /\ [Python!Next]_(Python!vars) => PyInv'
    BY PyStep
  <1>3. PyInv => /\ Python!OneInside /\ Python!WaitersAreListed /\ Python!EntriesAreLive
                 /\ Python!GatherersWake /\ Python!FreeLockIsTaken
    BY PyImplies
  <1> QED BY <1>1, <1>2, <1>3, PTL DEF Python!Spec
-----------------------------------------------------------------------------
\* Shared files (KoreFiles).
CONSTANTS Clients, Refs, Paths, Canonical, MaxMtime, MaxQueue

VARIABLES mtime, path, seen, cnt, listed, fds, sendqueue

Files == INSTANCE KoreFiles WITH Conns <- Clients, queue <- sendqueue

\* A state of the references, as fileref.c's functions take and give it, and
\* when it is right for answers that use each of them u[r] times.
RefStates == [path : [Refs -> Paths \cup {None}], seen : [Refs -> Nat], cnt : [Refs -> Int],
              listed : [Refs -> BOOLEAN], fds : [Refs \cup {None} -> Int]]

RefsRight(s, u) ==
  /\ \A r \in Refs :
       /\ s.cnt[r] = u[r]
       /\ s.cnt[r] > 0 => s.path[r] # None
       /\ s.listed[r] => s.path[r] # None
       /\ s.path[r] # None /\ ~s.listed[r] => s.cnt[r] > 0
       /\ s.fds[r] = IF s.path[r] # None THEN 1 ELSE 0
  /\ \A r, q \in Refs : s.listed[r] /\ s.listed[q] /\ s.path[r] = s.path[q] => r = q

StateOk(s, u) == s \in RefStates /\ u \in [Refs -> Nat] /\ RefsRight(s, u)

\* The places of the send queues q that hold r, and how often it is used.
QueuesOk(q)  == q \in [Clients -> Seq(Refs)] /\ \A c \in Clients : Len(q[c]) <= MaxQueue
Holding(q, r) ==
  {e \in Clients \X (1..MaxQueue) : e[2] <= Len(q[e[1]]) /\ q[e[1]][e[2]] = r}
UsesOf(q)    == [r \in Refs |-> Cardinality(Holding(q, r))]

FilesInv == StateOk(Files!Now, UsesOf(sendqueue)) /\ QueuesOk(sendqueue) /\ mtime \in Nat

LEMMA FilesConstants ==
  ASSUME Files!FilesAssumption
  PROVE  /\ IsFiniteSet(Clients) /\ Canonical \in Paths /\ None \notin Refs \cup Paths
         /\ MaxQueue \in Nat /\ MaxMtime \in Nat
  BY DEF Files!FilesAssumption, Files!IsFiniteSet, IsFiniteSet

LEMMA SameCardinality == \A S : Files!Cardinality(S) = Cardinality(S)
  BY DEF Files!Cardinality, Cardinality, Files!IsFiniteSet, IsFiniteSet
-----------------------------------------------------------------------------
LEMMA StateIs ==
  ASSUME NEW s \in RefStates
  PROVE  /\ s = [path |-> s.path, seen |-> s.seen, cnt |-> s.cnt, listed |-> s.listed,
                 fds |-> s.fds]
         /\ s.path \in [Refs -> Paths \cup {None}] /\ s.seen \in [Refs -> Nat]
         /\ s.cnt \in [Refs -> Int] /\ s.fds \in [Refs \cup {None} -> Int]
         /\ s.listed \in [Refs -> BOOLEAN]
  BY DEF RefStates

LEMMA DropIs ==
  ASSUME NEW s \in RefStates, NEW r \in Refs, Files!FilesAssumption
  PROVE  /\ Files!Drop(s, r) \in RefStates
         /\ Files!Drop(s, r).path = [s.path EXCEPT ![r] = None]
         /\ Files!Drop(s, r).seen = [s.seen EXCEPT ![r] = 0]
         /\ Files!Drop(s, r).cnt = s.cnt
         /\ Files!Drop(s, r).listed = [s.listed EXCEPT ![r] = FALSE]
         /\ Files!Drop(s, r).fds = [s.fds EXCEPT ![r] = s.fds[r] - 1]
  <1> DEFINE p1 == [s.path EXCEPT ![r] = None]
             p2 == [s.seen EXCEPT ![r] = 0]
             p3 == [s.listed EXCEPT ![r] = FALSE]
             p4 == [s.fds EXCEPT ![r] = s.fds[r] - 1]
             T(a, b, l, f) == [path |-> a, seen |-> b, cnt |-> s.cnt, listed |-> l, fds |-> f]
  <1>0. s = T(s.path, s.seen, s.listed, s.fds)
    BY StateIs
  <1>1. [s EXCEPT !.path[r] = None] = T(p1, s.seen, s.listed, s.fds)
    BY <1>0
  <1>2. \A a : [T(a, s.seen, s.listed, s.fds) EXCEPT !.seen[r] = 0] = T(a, p2, s.listed, s.fds)
    OBVIOUS
  <1>3. ASSUME NEW a, NEW b
        PROVE  [T(a, b, s.listed, s.fds) EXCEPT !.listed[r] = FALSE] = T(a, b, p3, s.fds)
    <2>1. \A v : [T(a, b, s.listed, s.fds) EXCEPT !.listed[r] = v]
                    = T(a, b, [s.listed EXCEPT ![r] = v], s.fds)
      OBVIOUS
    <2> HIDE DEF T
    <2> QED BY <2>1, Zenon
  <1>4. \A a, b, l : [T(a, b, l, s.fds) EXCEPT !.fds[r] = s.fds[r] - 1] = T(a, b, l, p4)
    OBVIOUS
  <1>5. Files!Drop(s, r) =
         [[[[s EXCEPT !.path[r] = None] EXCEPT !.seen[r] = 0] EXCEPT !.listed[r] = FALSE]
            EXCEPT !.fds[r] = s.fds[r] - 1]
    BY DEF Files!Drop
  <1>7. /\ p1 \in [Refs -> Paths \cup {None}] /\ p2 \in [Refs -> Nat]
        /\ s.cnt \in [Refs -> Int] /\ p3 \in [Refs -> BOOLEAN]
        /\ p4 \in [Refs \cup {None} -> Int]
    BY StateIs
  <1> HIDE DEF p1, p2, p3, p4
  <1>6. Files!Drop(s, r) = T(p1, p2, p3, p4)
    BY <1>1, <1>2, <1>3, <1>4, <1>5
  <1>8. /\ T(p1, p2, p3, p4) \in RefStates
        /\ T(p1, p2, p3, p4).path = p1 /\ T(p1, p2, p3, p4).seen = p2
        /\ T(p1, p2, p3, p4).cnt = s.cnt /\ T(p1, p2, p3, p4).listed = p3
        /\ T(p1, p2, p3, p4).fds = p4
    BY <1>7 DEF RefStates
  <1> HIDE DEF T
  <1>9. /\ Files!Drop(s, r) \in RefStates
        /\ Files!Drop(s, r).path = p1 /\ Files!Drop(s, r).seen = p2
        /\ Files!Drop(s, r).cnt = s.cnt /\ Files!Drop(s, r).listed = p3
        /\ Files!Drop(s, r).fds = p4
    BY <1>6, <1>8
  <1> QED BY <1>9 DEF p1, p2, p3, p4

LEMMA DropAt ==
  ASSUME NEW s \in RefStates, NEW r \in Refs, Files!FilesAssumption
  PROVE  /\ Files!Drop(s, r) \in RefStates
         /\ Files!Drop(s, r).cnt = s.cnt
         /\ \A q \in Refs :
              /\ Files!Drop(s, r).path[q] = IF q = r THEN None ELSE s.path[q]
              /\ Files!Drop(s, r).seen[q] = IF q = r THEN 0 ELSE s.seen[q]
              /\ Files!Drop(s, r).listed[q] <=> q # r /\ s.listed[q]
              /\ Files!Drop(s, r).fds[q] = IF q = r THEN s.fds[r] - 1 ELSE s.fds[q]
  <1> DEFINE t == Files!Drop(s, r)
  <1>1. /\ t \in RefStates /\ t.cnt = s.cnt /\ t.path = [s.path EXCEPT ![r] = None]
        /\ t.seen = [s.seen EXCEPT ![r] = 0] /\ t.listed = [s.listed EXCEPT ![r] = FALSE]
        /\ t.fds = [s.fds EXCEPT ![r] = s.fds[r] - 1]
    BY DropIs
  <1>2. /\ s.path \in [Refs -> Paths \cup {None}] /\ s.seen \in [Refs -> Nat]
        /\ s.fds \in [Refs \cup {None} -> Int] /\ s.listed \in [Refs -> BOOLEAN]
    BY StateIs
  <1> HIDE DEF t
  <1>3. ASSUME NEW q \in Refs
        PROVE  /\ t.path[q] = IF q = r THEN None ELSE s.path[q]
               /\ t.seen[q] = IF q = r THEN 0 ELSE s.seen[q]
               /\ t.listed[q] <=> q # r /\ s.listed[q]
               /\ t.fds[q] = IF q = r THEN s.fds[r] - 1 ELSE s.fds[q]
    <2>1. q \in Refs \cup {None}
      OBVIOUS
    <2>2. t.path[q] = IF q = r THEN None ELSE s.path[q]
      BY <1>1, <1>2
    <2>3. t.seen[q] = IF q = r THEN 0 ELSE s.seen[q]
      BY <1>1, <1>2
    <2>4. t.listed[q] <=> q # r /\ s.listed[q]
      BY <1>1, <1>2
    <2>5. t.fds[q] = IF q = r THEN s.fds[r] - 1 ELSE s.fds[q]
      BY <1>1, <1>2, <2>1
    <2> QED BY <2>2, <2>3, <2>4, <2>5
  <1> QED BY <1>1, <1>3 DEF t

LEMMA ListedAt ==
  ASSUME NEW s \in RefStates, NEW r
  PROVE  [s EXCEPT !.listed[r] = FALSE]
           = [path |-> s.path, seen |-> s.seen, cnt |-> s.cnt, fds |-> s.fds,
              listed |-> [s.listed EXCEPT ![r] = FALSE]]
  <1> DEFINE p3 == [s.listed EXCEPT ![r] = FALSE]
             T(a, b, l, f) == [path |-> a, seen |-> b, cnt |-> s.cnt, listed |-> l, fds |-> f]
  <1>1. s = T(s.path, s.seen, s.listed, s.fds)
    BY StateIs
  <1>2. ASSUME NEW a, NEW b
        PROVE  [T(a, b, s.listed, s.fds) EXCEPT !.listed[r] = FALSE] = T(a, b, p3, s.fds)
    <2>1. \A v : [T(a, b, s.listed, s.fds) EXCEPT !.listed[r] = v]
                    = T(a, b, [s.listed EXCEPT ![r] = v], s.fds)
      OBVIOUS
    <2> HIDE DEF T
    <2> QED BY <2>1, Zenon
  <1>3. T(s.path, s.seen, p3, s.fds) = [path |-> s.path, seen |-> s.seen, cnt |-> s.cnt,
                                        fds |-> s.fds, listed |-> p3]
    OBVIOUS
  <1> HIDE DEF p3, T
  <1>4. [s EXCEPT !.listed[r] = FALSE] = T(s.path, s.seen, p3, s.fds)
    BY <1>1, <1>2
  <1> QED BY <1>3, <1>4 DEF p3

LEMMA DropOk ==
  ASSUME Files!FilesAssumption, NEW u, NEW s, NEW r \in Refs, s \in RefStates, u \in [Refs -> Nat],
         u[r] = 0,
         \A q \in Refs :
           /\ s.cnt[q] = u[q]
           /\ s.cnt[q] > 0 => s.path[q] # None
           /\ s.listed[q] => s.path[q] # None
           /\ q # r => (s.path[q] # None /\ ~s.listed[q] => s.cnt[q] > 0)
           /\ s.fds[q] = IF s.path[q] # None THEN 1 ELSE 0,
         s.path[r] # None,
         \A q, p \in Refs : s.listed[p] /\ s.listed[q] /\ s.path[p] = s.path[q] => p = q
  PROVE  StateOk(Files!Drop(s, r), u)
  <1> DEFINE t == Files!Drop(s, r)
  <1>1. t \in RefStates
    BY DropAt
  <1>2. /\ t.cnt = s.cnt
        /\ \A q \in Refs : t.path[q] = IF q = r THEN None ELSE s.path[q]
        /\ \A q \in Refs : t.listed[q] <=> q # r /\ s.listed[q]
        /\ \A q \in Refs : t.fds[q] = IF q = r THEN s.fds[r] - 1 ELSE s.fds[q]
    BY DropAt
  <1> HIDE DEF t
  <1>3. \A q \in Refs :
       /\ t.cnt[q] = u[q]
       /\ t.cnt[q] > 0 => t.path[q] # None
       /\ t.listed[q] => t.path[q] # None
       /\ t.path[q] # None /\ ~t.listed[q] => t.cnt[q] > 0
       /\ t.fds[q] = IF t.path[q] # None THEN 1 ELSE 0
    <2> SUFFICES ASSUME NEW q \in Refs
                 PROVE  /\ t.cnt[q] = u[q]
                        /\ t.cnt[q] > 0 => t.path[q] # None
                        /\ t.listed[q] => t.path[q] # None
                        /\ t.path[q] # None /\ ~t.listed[q] => t.cnt[q] > 0
                        /\ t.fds[q] = IF t.path[q] # None THEN 1 ELSE 0
      OBVIOUS
    <2>1. CASE q = r
      <3>1. t.cnt[q] = 0 /\ u[q] = 0 /\ t.path[q] = None /\ ~t.listed[q]
        BY <1>2, <2>1
      <3>2. s.fds[r] = 1
        OBVIOUS
      <3>3. t.fds[q] = 0
        BY <1>2, <2>1, <3>2
      <3> QED BY <3>1, <3>3
    <2>2. CASE q # r
      <3>1. /\ t.cnt[q] = s.cnt[q] /\ t.path[q] = s.path[q]
            /\ t.listed[q] <=> s.listed[q]
            /\ t.fds[q] = s.fds[q]
        BY <1>2, <2>2
      <3> QED BY <2>2, <3>1
    <2> QED BY <2>1, <2>2
  <1>4. \A q, p \in Refs : t.listed[p] /\ t.listed[q] /\ t.path[p] = t.path[q] => p = q
    BY <1>2
  <1>5. StateOk(t, u)
    BY <1>1, <1>3, <1>4 DEF StateOk, RefsRight
  <1> QED BY <1>5 DEF t

\* A reference that is taken out of the list stays right for those who use it.
LEMMA SoftRemoveOk ==
  ASSUME Files!FilesAssumption, NEW u, NEW s, NEW r \in Refs, StateOk(s, u), s.listed[r]
  PROVE  /\ StateOk(Files!SoftRemove(s, r), u)
         /\ \A q \in Refs : /\ Files!SoftRemove(s, r).listed[q] <=> q # r /\ s.listed[q]
                            /\ q # r => /\ Files!SoftRemove(s, r).path[q] = s.path[q]
                                        /\ Files!SoftRemove(s, r).seen[q] = s.seen[q]
                            /\ s.path[q] = None => Files!SoftRemove(s, r).path[q] = None
  <1>1. s \in RefStates /\ u \in [Refs -> Nat] /\ RefsRight(s, u)
    BY DEF StateOk
  <1>2. s.path \in [Refs -> Paths \cup {None}] /\ s.listed \in [Refs -> BOOLEAN]
        /\ s.seen \in [Refs -> Nat]
    BY <1>1 DEF RefStates
  <1>3. CASE s.cnt[r] = 0
    <2>1. Files!SoftRemove(s, r) = Files!Drop(s, r)
      BY <1>3 DEF Files!SoftRemove
    <2>2. StateOk(Files!Drop(s, r), u)
      BY <1>1, <1>3, DropOk DEF RefsRight
    <2>3. ASSUME NEW q \in Refs
          PROVE  /\ Files!Drop(s, r).listed[q] <=> q # r /\ s.listed[q]
                 /\ q # r => /\ Files!Drop(s, r).path[q] = s.path[q]
                             /\ Files!Drop(s, r).seen[q] = s.seen[q]
                 /\ s.path[q] = None => Files!Drop(s, r).path[q] = None
      <3>0. s \in RefStates
        BY <1>1
      <3>1. /\ Files!Drop(s, r).path[q] = IF q = r THEN None ELSE s.path[q]
            /\ Files!Drop(s, r).seen[q] = IF q = r THEN 0 ELSE s.seen[q]
            /\ Files!Drop(s, r).listed[q] <=> q # r /\ s.listed[q]
        BY <3>0, DropAt
      <3>2. CASE q = r
        BY <3>1, <3>2
      <3>3. CASE q # r
        BY <3>1, <3>3
      <3> QED BY <3>2, <3>3
    <2> QED BY <2>1, <2>2, <2>3
  <1>4. CASE s.cnt[r] # 0
    <2> DEFINE t == [s EXCEPT !.listed[r] = FALSE]
    <2>1. Files!SoftRemove(s, r) = t
      BY <1>4 DEF Files!SoftRemove
    <2>2. /\ t.path = s.path /\ t.seen = s.seen /\ t.cnt = s.cnt /\ t.fds = s.fds
          /\ t.listed = [s.listed EXCEPT ![r] = FALSE]
      BY <1>1 DEF RefStates
    <2>3. t \in RefStates
      <3>1. [s.listed EXCEPT ![r] = FALSE] \in [Refs -> BOOLEAN]
        BY <1>2
      <3>2. t = [path |-> s.path, seen |-> s.seen, cnt |-> s.cnt, fds |-> s.fds,
                 listed |-> [s.listed EXCEPT ![r] = FALSE]]
        BY <1>1, ListedAt
      <3>3. /\ s.path \in [Refs -> Paths \cup {None}] /\ s.seen \in [Refs -> Nat]
            /\ s.cnt \in [Refs -> Int] /\ s.fds \in [Refs \cup {None} -> Int]
        BY <1>1 DEF RefStates
      <3> QED BY <3>1, <3>2, <3>3 DEF RefStates
    <2> HIDE DEF t
    <2>4. \A q \in Refs : t.listed[q] <=> q # r /\ s.listed[q]
      BY <1>2, <2>2
    <2>5. RefsRight(t, u)
      BY <1>1, <1>4, <2>2, <2>4 DEF RefsRight
    <2> QED BY <1>1, <2>1, <2>2, <2>3, <2>4, <2>5 DEF StateOk
  <1> QED BY <1>3, <1>4

\* An answer that ends gives its reference back.
LEMMA ReleaseOk ==
  ASSUME Files!FilesAssumption, NEW u, NEW s, NEW r \in Refs, StateOk(s, u), u[r] > 0
  PROVE  StateOk(Files!Release(s, r), [u EXCEPT ![r] = u[r] - 1])
  <1> DEFINE t == [s EXCEPT !.cnt[r] = s.cnt[r] - 1]
             v == [u EXCEPT ![r] = u[r] - 1]
  <1>1. s \in RefStates /\ u \in [Refs -> Nat] /\ RefsRight(s, u)
    BY DEF StateOk
  <1>2. /\ s.path \in [Refs -> Paths \cup {None}] /\ s.seen \in [Refs -> Nat]
        /\ s.cnt \in [Refs -> Int] /\ s.fds \in [Refs \cup {None} -> Int]
        /\ s.listed \in [Refs -> BOOLEAN]
    BY <1>1 DEF RefStates
  <1>3. /\ t.path = s.path /\ t.seen = s.seen /\ t.listed = s.listed /\ t.fds = s.fds
        /\ t.cnt = [s.cnt EXCEPT ![r] = s.cnt[r] - 1]
    BY <1>1 DEF RefStates
  <1>4. t \in RefStates
    <2>1. [s.cnt EXCEPT ![r] = s.cnt[r] - 1] \in [Refs -> Int]
      BY <1>2
    <2>2. t = [path |-> s.path, seen |-> s.seen, cnt |-> [s.cnt EXCEPT ![r] = s.cnt[r] - 1],
               fds |-> s.fds, listed |-> s.listed]
      BY <1>1 DEF RefStates
    <2> QED BY <1>2, <2>1, <2>2 DEF RefStates
  <1>5. v \in [Refs -> Nat]
    BY <1>1
  <1>6. Files!Release(s, r) = IF t.cnt[r] = 0 /\ ~t.listed[r] THEN Files!Drop(t, r) ELSE t
    BY DEF Files!Release
  <1> HIDE DEF t
  <1>7. \A q \in Refs : t.cnt[q] = IF q = r THEN s.cnt[r] - 1 ELSE s.cnt[q]
    BY <1>2, <1>3
  <1>8. \A q \in Refs : v[q] = IF q = r THEN u[r] - 1 ELSE u[q]
    BY <1>1
  <1> HIDE DEF v
  <1>9. \A q \in Refs :
       /\ t.cnt[q] = v[q]
       /\ t.cnt[q] > 0 => t.path[q] # None
       /\ t.listed[q] => t.path[q] # None
       /\ q # r => (t.path[q] # None /\ ~t.listed[q] => t.cnt[q] > 0)
       /\ t.fds[q] = IF t.path[q] # None THEN 1 ELSE 0
    BY <1>1, <1>3, <1>7, <1>8 DEF RefsRight
  <1>10. \A q, p \in Refs : t.listed[p] /\ t.listed[q] /\ t.path[p] = t.path[q] => p = q
    BY <1>1, <1>3 DEF RefsRight
  <1>11. t.path[r] # None
    BY <1>1, <1>3 DEF RefsRight
  <1>12. CASE t.cnt[r] = 0 /\ ~t.listed[r]
    <2>1. StateOk(Files!Drop(t, r), v)
      BY <1>4, <1>5, <1>9, <1>10, <1>11, <1>12, DropOk
    <2> QED BY <1>6, <1>12, <2>1 DEF v
  <1>13. CASE ~(t.cnt[r] = 0 /\ ~t.listed[r])
    <2>1. t.path[r] # None /\ ~t.listed[r] => t.cnt[r] > 0
      BY <1>5, <1>9, <1>13
    <2>2. RefsRight(t, v)
      BY <1>9, <1>10, <2>1 DEF RefsRight
    <2> QED BY <1>4, <1>5, <1>6, <1>13, <2>2 DEF StateOk, v
  <1> QED BY <1>12, <1>13
-----------------------------------------------------------------------------
\* The count of one reference grows by one.
LEMMA CountedIs ==
  ASSUME NEW s \in RefStates, NEW r \in Refs
  PROVE  LET t == [s EXCEPT !.cnt[r] = @ + 1] IN
         /\ t \in RefStates
         /\ t.path = s.path /\ t.seen = s.seen /\ t.listed = s.listed /\ t.fds = s.fds
         /\ \A q \in Refs : t.cnt[q] = IF q = r THEN s.cnt[r] + 1 ELSE s.cnt[q]
  <1> DEFINE t == [s EXCEPT !.cnt[r] = @ + 1]
  <1>1. /\ s.path \in [Refs -> Paths \cup {None}] /\ s.seen \in [Refs -> Nat]
        /\ s.cnt \in [Refs -> Int] /\ s.fds \in [Refs \cup {None} -> Int]
        /\ s.listed \in [Refs -> BOOLEAN]
    BY StateIs
  <1>2. /\ t.path = s.path /\ t.seen = s.seen /\ t.listed = s.listed /\ t.fds = s.fds
        /\ t.cnt = [s.cnt EXCEPT ![r] = s.cnt[r] + 1]
    BY DEF RefStates
  <1>3. [s.cnt EXCEPT ![r] = s.cnt[r] + 1] \in [Refs -> Int]
    BY <1>1
  <1>4. t = [path |-> s.path, seen |-> s.seen, cnt |-> [s.cnt EXCEPT ![r] = s.cnt[r] + 1],
             fds |-> s.fds, listed |-> s.listed]
    BY DEF RefStates
  <1>5. t \in RefStates
    BY <1>1, <1>3, <1>4 DEF RefStates
  <1> HIDE DEF t
  <1>6. \A q \in Refs : t.cnt[q] = IF q = r THEN s.cnt[r] + 1 ELSE s.cnt[q]
    BY <1>1, <1>2
  <1> QED BY <1>2, <1>5, <1>6 DEF t

\* What a look-up leaves: nothing to serve, and the path in no list, or r
\* counted once more and with the time the file has.
SeenAgrees(s)   == \A q \in Refs : s.listed[q] => s.seen[q] = seen[q]
KeepsFree(s, t) == \A q \in Refs : s.path[q] = None => t.path[q] = None
FoundOk(g, u)   == /\ g[1] \in Refs /\ g[2].seen[g[1]] = mtime
                   /\ StateOk(g[2], [u EXCEPT ![g[1]] = u[g[1]] + 1])

LEMMA GetOk ==
  ASSUME Files!FilesAssumption, NEW s, NEW u, NEW p \in Paths, StateOk(s, u), SeenAgrees(s)
  PROVE  \/ /\ Files!Get(s, p)[1] = None /\ StateOk(Files!Get(s, p)[2], u)
            /\ \A q \in Refs : ~(Files!Get(s, p)[2].listed[q] /\ Files!Get(s, p)[2].path[q] = p)
            /\ SeenAgrees(Files!Get(s, p)[2]) /\ KeepsFree(s, Files!Get(s, p)[2])
         \/ FoundOk(Files!Get(s, p), u)
  <1> DEFINE found == {r \in Refs : s.path[r] = p /\ s.listed[r]}
             r == CHOOSE r \in found : TRUE
  <1>1. s \in RefStates /\ u \in [Refs -> Nat] /\ RefsRight(s, u)
    BY DEF StateOk
  <1>2. CASE found = {}
    <2>1. Files!Get(s, p) = <<None, s>>
      BY <1>2 DEF Files!Get
    <2>2. Files!Get(s, p)[1] = None /\ Files!Get(s, p)[2] = s
      BY <2>1
    <2>3. \A q \in Refs : ~(s.listed[q] /\ s.path[q] = p)
      BY <1>2
    <2> QED BY <2>2, <2>3 DEF KeepsFree
  <1>3. CASE found # {}
    <2>1. r \in Refs /\ s.path[r] = p /\ s.listed[r]
      <3>1. r \in found
        BY <1>3
      <3> QED BY <3>1
    <2>2. Files!Get(s, p) = IF Files!Stale(r) THEN <<None, Files!SoftRemove(s, r)>>
                            ELSE <<r, [s EXCEPT !.cnt[r] = @ + 1]>>
      BY <1>3 DEF Files!Get
    <2>3. \A q \in Refs : s.listed[q] /\ s.path[q] = p => q = r
      BY <1>1, <2>1 DEF RefsRight
    <2>4. s.seen[r] = seen[r]
      BY <2>1 DEF SeenAgrees
    <2> HIDE DEF r, found
    <2>5. CASE Files!Stale(r)
      <3> DEFINE t == Files!SoftRemove(s, r)
      <3>1. Files!Get(s, p)[1] = None /\ Files!Get(s, p)[2] = t
        BY <2>2, <2>5
      <3>2. /\ StateOk(t, u)
            /\ \A q \in Refs : /\ t.listed[q] <=> q # r /\ s.listed[q]
                               /\ q # r => t.path[q] = s.path[q] /\ t.seen[q] = s.seen[q]
                               /\ s.path[q] = None => t.path[q] = None
        BY <2>1, SoftRemoveOk
      <3> HIDE DEF t
      <3>3. \A q \in Refs : ~(t.listed[q] /\ t.path[q] = p)
        <4> SUFFICES ASSUME NEW q \in Refs, t.listed[q], t.path[q] = p PROVE FALSE
          OBVIOUS
        <4>1. q # r /\ s.listed[q] /\ t.path[q] = s.path[q]
          BY <3>2
        <4> QED BY <2>3, <4>1
      <3>4. SeenAgrees(t)
        BY <3>2 DEF SeenAgrees
      <3>5. KeepsFree(s, t)
        BY <3>2 DEF KeepsFree
      <3> QED BY <3>1, <3>2, <3>3, <3>4, <3>5
    <2>6. CASE ~Files!Stale(r)
      <3> DEFINE t == [s EXCEPT !.cnt[r] = @ + 1]
      <3>1. Files!Get(s, p)[1] = r /\ Files!Get(s, p)[2] = t
        BY <2>2, <2>6
      <3>2. /\ t \in RefStates
            /\ t.path = s.path /\ t.seen = s.seen /\ t.listed = s.listed /\ t.fds = s.fds
            /\ \A q \in Refs : t.cnt[q] = IF q = r THEN s.cnt[r] + 1 ELSE s.cnt[q]
        BY <1>1, <2>1, CountedIs
      <3> HIDE DEF t
      <3>3. t.seen[r] = mtime
        BY <2>4, <2>6, <3>2 DEF Files!Stale
      <3> DEFINE v == [u EXCEPT ![r] = u[r] + 1]
      <3>4. v \in [Refs -> Nat] /\ \A q \in Refs : v[q] = IF q = r THEN u[r] + 1 ELSE u[q]
        BY <1>1, <2>1
      <3> HIDE DEF v
      <3>5. RefsRight(t, v)
        BY <1>1, <2>1, <3>2, <3>4 DEF RefsRight
      <3>6. StateOk(t, v)
        BY <3>2, <3>4, <3>5 DEF StateOk
      <3> QED BY <2>1, <3>1, <3>3, <3>6 DEF FoundOk, v
    <2> QED BY <2>5, <2>6
  <1> QED BY <1>2, <1>3

\* A new reference for a path that no reference in the list has.
Made(s, r, p) == [s EXCEPT !.path[r] = p, !.seen[r] = mtime, !.cnt[r] = 1,
                           !.listed[r] = TRUE, !.fds[r] = @ + 1]

LEMMA MadeIs ==
  ASSUME Files!FilesAssumption, NEW s \in RefStates, NEW r \in Refs, NEW p \in Paths, mtime \in Nat
  PROVE  LET t == Made(s, r, p) IN
         /\ t \in RefStates
         /\ \A q \in Refs :
              /\ t.path[q] = IF q = r THEN p ELSE s.path[q]
              /\ t.seen[q] = IF q = r THEN mtime ELSE s.seen[q]
              /\ t.cnt[q] = IF q = r THEN 1 ELSE s.cnt[q]
              /\ t.listed[q] <=> q = r \/ s.listed[q]
              /\ t.fds[q] = IF q = r THEN s.fds[r] + 1 ELSE s.fds[q]
  <1> DEFINE p1 == [s.path EXCEPT ![r] = p]
             p2 == [s.seen EXCEPT ![r] = mtime]
             p3 == [s.cnt EXCEPT ![r] = 1]
             p4 == [s.listed EXCEPT ![r] = TRUE]
             p5 == [s.fds EXCEPT ![r] = s.fds[r] + 1]
             T(a, b, c, l, f) == [path |-> a, seen |-> b, cnt |-> c, listed |-> l, fds |-> f]
             t == [s EXCEPT !.path[r] = p, !.seen[r] = mtime, !.cnt[r] = 1,
                            !.listed[r] = TRUE, !.fds[r] = @ + 1]
  <1>0. s = T(s.path, s.seen, s.cnt, s.listed, s.fds)
    BY StateIs
  <1>1. [s EXCEPT !.path[r] = p] = T(p1, s.seen, s.cnt, s.listed, s.fds)
    BY <1>0
  <1>2. \A a : [T(a, s.seen, s.cnt, s.listed, s.fds) EXCEPT !.seen[r] = mtime]
                = T(a, p2, s.cnt, s.listed, s.fds)
    OBVIOUS
  <1>3. \A a, b : [T(a, b, s.cnt, s.listed, s.fds) EXCEPT !.cnt[r] = 1]
                   = T(a, b, p3, s.listed, s.fds)
    OBVIOUS
  <1>4. ASSUME NEW a, NEW b, NEW c
        PROVE  [T(a, b, c, s.listed, s.fds) EXCEPT !.listed[r] = TRUE] = T(a, b, c, p4, s.fds)
    <2>1. \A v : [T(a, b, c, s.listed, s.fds) EXCEPT !.listed[r] = v]
                    = T(a, b, c, [s.listed EXCEPT ![r] = v], s.fds)
      OBVIOUS
    <2> HIDE DEF T
    <2> QED BY <2>1, Zenon
  <1>5. \A a, b, c, l : [T(a, b, c, l, s.fds) EXCEPT !.fds[r] = @ + 1] = T(a, b, c, l, p5)
    OBVIOUS
  <1>6. t = [[[[[s EXCEPT !.path[r] = p] EXCEPT !.seen[r] = mtime] EXCEPT !.cnt[r] = 1]
                 EXCEPT !.listed[r] = TRUE] EXCEPT !.fds[r] = @ + 1]
    OBVIOUS
  <1>7. /\ s.path \in [Refs -> Paths \cup {None}] /\ s.seen \in [Refs -> Nat]
        /\ s.cnt \in [Refs -> Int] /\ s.fds \in [Refs \cup {None} -> Int]
        /\ s.listed \in [Refs -> BOOLEAN]
    BY StateIs
  <1>8. /\ p1 \in [Refs -> Paths \cup {None}] /\ p2 \in [Refs -> Nat] /\ p3 \in [Refs -> Int]
        /\ p4 \in [Refs -> BOOLEAN] /\ p5 \in [Refs \cup {None} -> Int]
    BY <1>7
  <1>9. \A q \in Refs :
          /\ p1[q] = IF q = r THEN p ELSE s.path[q]
          /\ p2[q] = IF q = r THEN mtime ELSE s.seen[q]
          /\ p3[q] = IF q = r THEN 1 ELSE s.cnt[q]
    BY <1>7
  <1>10. \A q \in Refs : p4[q] <=> q = r \/ s.listed[q]
    BY <1>7
  <1>11. \A q \in Refs : p5[q] = IF q = r THEN s.fds[r] + 1 ELSE s.fds[q]
    BY <1>7
  <1> HIDE DEF p1, p2, p3, p4, p5, t
  <1>12. T(p1, p2, p3, p4, p5) \in RefStates
    BY <1>8 DEF RefStates
  <1>13. /\ T(p1, p2, p3, p4, p5).path = p1 /\ T(p1, p2, p3, p4, p5).seen = p2
         /\ T(p1, p2, p3, p4, p5).cnt = p3 /\ T(p1, p2, p3, p4, p5).listed = p4
         /\ T(p1, p2, p3, p4, p5).fds = p5
    OBVIOUS
  <1> HIDE DEF T
  <1>14. t = T(p1, p2, p3, p4, p5)
    <2> DEFINE s1 == [s EXCEPT !.path[r] = p]
               s2 == [s1 EXCEPT !.seen[r] = mtime]
               s3 == [s2 EXCEPT !.cnt[r] = 1]
               s4 == [s3 EXCEPT !.listed[r] = TRUE]
    <2>0. t = [s4 EXCEPT !.fds[r] = @ + 1]
      BY <1>6
    <2>1. s1 = T(p1, s.seen, s.cnt, s.listed, s.fds)
      BY <1>1
    <2> HIDE DEF s1
    <2>2. s2 = T(p1, p2, s.cnt, s.listed, s.fds)
      BY <1>2, <2>1
    <2> HIDE DEF s2
    <2>3. s3 = T(p1, p2, p3, s.listed, s.fds)
      BY <1>3, <2>2
    <2> HIDE DEF s3
    <2>4. s4 = T(p1, p2, p3, p4, s.fds)
      BY <1>4, <2>3
    <2> HIDE DEF s4
    <2> QED BY <1>5, <2>0, <2>4
  <1>15. t \in RefStates /\ t.path = p1 /\ t.seen = p2 /\ t.cnt = p3 /\ t.listed = p4 /\ t.fds = p5
    BY <1>12, <1>13, <1>14
  <1>16. \A q \in Refs :
          /\ t.path[q] = IF q = r THEN p ELSE s.path[q]
          /\ t.seen[q] = IF q = r THEN mtime ELSE s.seen[q]
          /\ t.cnt[q] = IF q = r THEN 1 ELSE s.cnt[q]
          /\ t.listed[q] <=> q = r \/ s.listed[q]
          /\ t.fds[q] = IF q = r THEN s.fds[r] + 1 ELSE s.fds[q]
    BY <1>9, <1>10, <1>11, <1>15
  <1>17. Made(s, r, p) = t
    BY DEF Made, t
  <1> QED BY <1>15, <1>16, <1>17

\* A reference that is made, or found by kore_fileref_create after all.
LEMMA CreateOk ==
  ASSUME Files!FilesAssumption, mtime \in Nat, NEW s, NEW u, NEW p \in Paths,
         StateOk(s, u), SeenAgrees(s), \E q \in Refs : s.path[q] = None
  PROVE  FoundOk(Files!Create(s, p), u)
  <1> DEFINE got == Files!Get(s, p)
             r == CHOOSE r \in Refs : got[2].path[r] = None
             t == Made(got[2], r, p)
             h == [got[2] EXCEPT !.fds[None] = 1]
  <1>1. \/ /\ got[1] = None /\ StateOk(got[2], u)
           /\ \A q \in Refs : ~(got[2].listed[q] /\ got[2].path[q] = p)
           /\ KeepsFree(s, got[2])
        \/ FoundOk(got, u)
    BY GetOk
  <1>2. Files!Create(s, p) = IF got[1] # None THEN <<got[1], h>> ELSE <<r, t>>
    BY DEF Files!Create, Made
  <1>3. None \notin Refs \cup Paths
    BY FilesConstants
  <1> HIDE DEF got
  <1>4. CASE FoundOk(got, u)
    <2>1. Files!Create(s, p)[1] = got[1] /\ Files!Create(s, p)[2] = h
      BY <1>2, <1>3, <1>4 DEF FoundOk
    <2> DEFINE v == [u EXCEPT ![got[1]] = u[got[1]] + 1]
               g == got[2]
    <2>2. g \in RefStates /\ v \in [Refs -> Nat] /\ RefsRight(g, v)
      BY <1>4 DEF FoundOk, StateOk
    <2> HIDE DEF v
    <2>3. h.path = g.path /\ h.seen = g.seen /\ h.cnt = g.cnt /\ h.listed = g.listed
          /\ h.fds = [g.fds EXCEPT ![None] = 1]
      BY <2>2 DEF RefStates
    <2>4. /\ g.path \in [Refs -> Paths \cup {None}] /\ g.seen \in [Refs -> Nat]
          /\ g.cnt \in [Refs -> Int] /\ g.fds \in [Refs \cup {None} -> Int]
          /\ g.listed \in [Refs -> BOOLEAN]
      BY <2>2, StateIs
    <2>5. h \in RefStates
      <3>1. h = [path |-> g.path, seen |-> g.seen, cnt |-> g.cnt,
                 fds |-> [g.fds EXCEPT ![None] = 1], listed |-> g.listed]
        BY <2>2 DEF RefStates
      <3>2. [g.fds EXCEPT ![None] = 1] \in [Refs \cup {None} -> Int]
        BY <2>4
      <3> QED BY <2>4, <3>1, <3>2 DEF RefStates
    <2> HIDE DEF h, g
    <2>6. \A q \in Refs : h.fds[q] = g.fds[q]
      BY <1>3, <2>3, <2>4
    <2>7. RefsRight(h, v)
      BY <2>2, <2>3, <2>6 DEF RefsRight
    <2>8. StateOk(h, v)
      BY <2>2, <2>5, <2>7 DEF StateOk
    <2> QED BY <1>4, <2>1, <2>3, <2>8 DEF FoundOk, v, g
  <1>5. CASE /\ got[1] = None /\ StateOk(got[2], u)
             /\ \A q \in Refs : ~(got[2].listed[q] /\ got[2].path[q] = p)
             /\ KeepsFree(s, got[2])
    <2> DEFINE g == got[2]
    <2>1. Files!Create(s, p)[1] = r /\ Files!Create(s, p)[2] = t
      BY <1>2, <1>5
    <2>2. r \in Refs /\ g.path[r] = None
      BY <1>5 DEF KeepsFree
    <2>3. g \in RefStates /\ u \in [Refs -> Nat] /\ RefsRight(g, u)
      BY <1>5 DEF StateOk
    <2> HIDE DEF r, g
    <2>4. /\ t \in RefStates
          /\ \A q \in Refs :
                  /\ t.path[q] = IF q = r THEN p ELSE g.path[q]
                  /\ t.seen[q] = IF q = r THEN mtime ELSE g.seen[q]
                  /\ t.cnt[q] = IF q = r THEN 1 ELSE g.cnt[q]
                  /\ t.listed[q] <=> q = r \/ g.listed[q]
                  /\ t.fds[q] = IF q = r THEN g.fds[r] + 1 ELSE g.fds[q]
      BY <2>2, <2>3, MadeIs DEF g
    <2> USE DEF g
    <2> HIDE DEF t
    <2> DEFINE v == [u EXCEPT ![r] = u[r] + 1]
    <2>5. v \in [Refs -> Nat] /\ \A q \in Refs : v[q] = IF q = r THEN u[r] + 1 ELSE u[q]
      BY <2>2, <2>3
    <2>6. u[r] = 0 /\ ~g.listed[r] /\ g.fds[r] = 0
      BY <2>2, <2>3 DEF RefsRight
    <2>7. \A q \in Refs : ~(g.listed[q] /\ g.path[q] = p)
      BY <1>5
    <2> HIDE DEF v, g
    <2>8. ASSUME NEW q \in Refs
          PROVE  /\ t.cnt[q] = v[q]
                 /\ t.cnt[q] > 0 => t.path[q] # None
                 /\ t.listed[q] => t.path[q] # None
                 /\ t.path[q] # None /\ ~t.listed[q] => t.cnt[q] > 0
                 /\ t.fds[q] = IF t.path[q] # None THEN 1 ELSE 0
      <3>1. CASE q = r
        BY <1>3, <2>4, <2>5, <2>6, <3>1
      <3>2. CASE q # r
        BY <2>3, <2>4, <2>5, <3>2 DEF RefsRight
      <3> QED BY <3>1, <3>2
    <2>9. ASSUME NEW q \in Refs, NEW x \in Refs, t.listed[q], t.listed[x], t.path[q] = t.path[x]
          PROVE  q = x
      BY <2>3, <2>4, <2>7, <2>9 DEF RefsRight
    <2>10. RefsRight(t, v)
      BY <2>8, <2>9 DEF RefsRight
    <2>11. StateOk(t, v)
      BY <2>4, <2>5, <2>10 DEF StateOk
    <2>12. t.seen[r] = mtime
      BY <2>2, <2>4
    <2> QED BY <2>1, <2>2, <2>11, <2>12 DEF FoundOk, v
  <1> QED BY <1>1, <1>4, <1>5

LEMMA LookupOk ==
  ASSUME Files!FilesAssumption, mtime \in Nat, NEW u, NEW p \in Paths,
         StateOk(Files!Now, u), Files!Unused # {}
  PROVE  \/ Files!Lookup(p)[1] = None /\ StateOk(Files!Lookup(p)[2], u)
         \/ FoundOk(Files!Lookup(p), u)
  <1> DEFINE got == Files!Get(Files!Now, Canonical)
  <1>1. Canonical \in Paths /\ None \notin Refs
    BY FilesConstants
  <1>2. SeenAgrees(Files!Now)
    BY DEF SeenAgrees, Files!Now
  <1>3. \/ /\ got[1] = None /\ StateOk(got[2], u)
           /\ SeenAgrees(got[2]) /\ KeepsFree(Files!Now, got[2])
        \/ FoundOk(got, u)
    BY <1>1, <1>2, GetOk
  <1>4. Files!Lookup(p) = IF got[1] # None \/ mtime = 0 THEN got ELSE Files!Create(got[2], p)
    BY DEF Files!Lookup
  <1> HIDE DEF got
  <1>5. CASE FoundOk(got, u)
    BY <1>1, <1>4, <1>5 DEF FoundOk
  <1>6. CASE /\ got[1] = None /\ StateOk(got[2], u)
             /\ SeenAgrees(got[2]) /\ KeepsFree(Files!Now, got[2])
    <2>1. \E q \in Refs : got[2].path[q] = None
      BY <1>6 DEF KeepsFree, Files!Unused, Files!Used, Files!Now
    <2>2. CASE mtime = 0
      BY <1>4, <1>6, <2>2
    <2>3. CASE mtime # 0
      BY <1>4, <1>6, <2>1, <2>3, CreateOk
    <2> QED BY <2>2, <2>3
  <1> QED BY <1>3, <1>5, <1>6
-----------------------------------------------------------------------------
\* How often the send queues use a reference.
LEMMA HoldingFinite ==
  ASSUME Files!FilesAssumption, NEW q, NEW r
  PROVE  IsFiniteSet(Holding(q, r)) /\ Cardinality(Holding(q, r)) \in Nat
  <1>1. IsFiniteSet(Clients) /\ MaxQueue \in Nat
    BY FilesConstants
  <1>2. 1 \in Int /\ MaxQueue \in Int
    BY <1>1
  <1>3. IsFiniteSet(1..MaxQueue)
    BY <1>2, FS_Interval
  <1>4. IsFiniteSet(Clients \X (1..MaxQueue))
    BY <1>1, <1>3, FS_Product
  <1>5. Holding(q, r) \in SUBSET (Clients \X (1..MaxQueue))
    BY DEF Holding
  <1>6. IsFiniteSet(Holding(q, r))
    BY <1>4, <1>5, FS_Subset
  <1> QED BY <1>6, FS_CardinalityType

LEMMA UsesIs == \A r : Files!Uses(r) = Cardinality(Holding(sendqueue, r))
  <1> SUFFICES ASSUME NEW r PROVE Files!Uses(r) = Cardinality(Holding(sendqueue, r))
    OBVIOUS
  <1>1. Files!Uses(r) = Files!Cardinality(Holding(sendqueue, r))
    <2>1. {e \in Files!Places : sendqueue[e[1]][e[2]] = r} = Holding(sendqueue, r)
      BY DEF Files!Places, Holding
    <2> QED BY <2>1 DEF Files!Uses
  <1> QED BY <1>1, SameCardinality

LEMMA UsesTyped ==
  ASSUME Files!FilesAssumption, NEW q
  PROVE  UsesOf(q) \in [Refs -> Nat]
  BY HoldingFinite DEF UsesOf

\* An answer is put behind the others.
LEMMA AppendedUses ==
  ASSUME Files!FilesAssumption, NEW q, QueuesOk(q), NEW c \in Clients, NEW x \in Refs,
         Len(q[c]) < MaxQueue
  PROVE  /\ QueuesOk([q EXCEPT ![c] = Append(q[c], x)])
         /\ UsesOf([q EXCEPT ![c] = Append(q[c], x)]) = [UsesOf(q) EXCEPT ![x] = UsesOf(q)[x] + 1]
  <1> DEFINE p == [q EXCEPT ![c] = Append(q[c], x)]
             n == Len(q[c])
  <1>1. q \in [Clients -> Seq(Refs)] /\ \A d \in Clients : Len(q[d]) <= MaxQueue
    BY DEF QueuesOk
  <1>2. n \in Nat /\ MaxQueue \in Nat /\ q[c] \in Seq(Refs)
    BY <1>1, FilesConstants
  <1>3. /\ Append(q[c], x) \in Seq(Refs) /\ Len(Append(q[c], x)) = n + 1
        /\ Append(q[c], x)[n + 1] = x
        /\ \A i \in 1..n : Append(q[c], x)[i] = q[c][i]
    BY <1>2
  <1>4. p \in [Clients -> Seq(Refs)] /\ p[c] = Append(q[c], x)
        /\ \A d \in Clients : d # c => p[d] = q[d]
    BY <1>1, <1>3
  <1> HIDE DEF p
  <1>5. QueuesOk(p)
    <2>1. ASSUME NEW d \in Clients PROVE Len(p[d]) <= MaxQueue
      <3>1. CASE d = c
        <4>1. Len(p[d]) = Len(Append(q[c], x))
          BY <1>4, <3>1
        <4>2. Len(q[c]) <= MaxQueue
          BY <1>1
        <4> QED BY <1>2, <1>3, <4>1, <4>2
      <3>2. CASE d # c
        BY <1>1, <1>4, <3>2
      <3> QED BY <3>1, <3>2
    <2> QED BY <1>4, <2>1 DEF QueuesOk
  <1>6. ASSUME NEW r
        PROVE  Holding(p, r) = IF r = x THEN Holding(q, r) \cup {<<c, n + 1>>} ELSE Holding(q, r)
    <2>1. ASSUME NEW d \in Clients, NEW i \in 1..MaxQueue
          PROVE  /\ <<d, i>> \in Holding(p, r) <=> i <= Len(p[d]) /\ p[d][i] = r
                 /\ <<d, i>> \in Holding(q, r) <=> i <= Len(q[d]) /\ q[d][i] = r
      BY DEF Holding
    <2>2. ASSUME NEW d \in Clients, NEW i \in 1..MaxQueue
          PROVE  <<d, i>> \in Holding(p, r) <=>
                   <<d, i>> \in Holding(q, r) \/ (r = x /\ d = c /\ i = n + 1)
      <3>1. CASE d # c
        BY <1>4, <2>1, <3>1
      <3>2. CASE d = c /\ i <= n
        <4>1. i \in 1..n /\ i # n + 1 /\ i <= n + 1
          BY <1>2, <3>2
        <4>2. p[d][i] = q[d][i] /\ i <= Len(p[d]) /\ i <= Len(q[d])
          BY <1>3, <1>4, <3>2, <4>1
        <4> QED BY <2>1, <4>1, <4>2
      <3>3. CASE d = c /\ i > n
        <4>1. ~(i <= Len(q[d]))
          BY <1>2, <3>3
        <4>2. i <= Len(p[d]) <=> i = n + 1
          BY <1>2, <1>3, <1>4, <3>3
        <4>3. p[d][n + 1] = x
          BY <1>3, <1>4, <3>3
        <4> QED BY <2>1, <3>3, <4>1, <4>2, <4>3
      <3> QED BY <1>2, <3>1, <3>2, <3>3
    <2>3. /\ Holding(p, r) \subseteq Clients \X (1..MaxQueue)
          /\ Holding(q, r) \subseteq Clients \X (1..MaxQueue)
      BY DEF Holding
    <2>4. <<c, n + 1>> \in Clients \X (1..MaxQueue)
      BY <1>2
    <2>5. \A e \in Clients \X (1..MaxQueue) :
            e \in Holding(p, r) <=> e \in Holding(q, r) \/ (r = x /\ e = <<c, n + 1>>)
      BY <2>2
    <2> QED BY <2>3, <2>4, <2>5
  <1>7. <<c, n + 1>> \notin Holding(q, x)
    BY <1>2 DEF Holding
  <1>8. ASSUME NEW r \in Refs
        PROVE  UsesOf(p)[r] = IF r = x THEN UsesOf(q)[x] + 1 ELSE UsesOf(q)[r]
    <2>1. UsesOf(p)[r] = Cardinality(Holding(p, r)) /\ UsesOf(q)[r] = Cardinality(Holding(q, r))
      BY DEF UsesOf
    <2>2. CASE r = x
      <3>1. IsFiniteSet(Holding(q, r)) /\ <<c, n + 1>> \notin Holding(q, r)
        BY <1>7, <2>2, HoldingFinite
      <3>2. Cardinality(Holding(q, r) \cup {<<c, n + 1>>}) = Cardinality(Holding(q, r)) + 1
        BY <3>1, FS_AddElement
      <3> QED BY <1>6, <2>1, <2>2, <3>2
    <2>3. CASE r # x
      BY <1>6, <2>1, <2>3
    <2> QED BY <2>2, <2>3
  <1>9. UsesOf(p) = [UsesOf(q) EXCEPT ![x] = UsesOf(q)[x] + 1]
    <2>1. UsesOf(p) \in [Refs -> Nat] /\ UsesOf(q) \in [Refs -> Nat]
      BY UsesTyped
    <2> QED BY <1>8, <2>1
  <1> QED BY <1>5, <1>9 DEF p

\* The places that are left when the first k answers of c's queue are gone.
Left(q, c, k, r) == {e \in Holding(q, r) : e[1] # c \/ e[2] > k}
UsesLeft(q, c, k) == [r \in Refs |-> Cardinality(Left(q, c, k, r))]

LEMMA LeftNext ==
  ASSUME Files!FilesAssumption, NEW q, QueuesOk(q), NEW c \in Clients, NEW k \in Nat,
         k + 1 <= Len(q[c])
  PROVE  LET x == q[c][k + 1] IN
         /\ x \in Refs /\ UsesLeft(q, c, k) \in [Refs -> Nat] /\ UsesLeft(q, c, k)[x] > 0
         /\ UsesLeft(q, c, k + 1) = [UsesLeft(q, c, k) EXCEPT ![x] = UsesLeft(q, c, k)[x] - 1]
  <1> DEFINE x == q[c][k + 1]
             U(j) == UsesLeft(q, c, j)
             y == <<c, k + 1>>
  <1>1. q[c] \in Seq(Refs) /\ Len(q[c]) <= MaxQueue /\ MaxQueue \in Nat
    BY FilesConstants DEF QueuesOk
  <1>2. x \in Refs /\ k + 1 \in 1..MaxQueue /\ k + 1 <= Len(q[c])
    BY <1>1
  <1>3. \A j, r : IsFiniteSet(Left(q, c, j, r)) /\ Cardinality(Left(q, c, j, r)) \in Nat
    <2> SUFFICES ASSUME NEW j, NEW r
                 PROVE  IsFiniteSet(Left(q, c, j, r)) /\ Cardinality(Left(q, c, j, r)) \in Nat
      OBVIOUS
    <2>1. Left(q, c, j, r) \in SUBSET Holding(q, r)
      BY DEF Left
    <2>2. IsFiniteSet(Left(q, c, j, r))
      BY <2>1, HoldingFinite, FS_Subset
    <2> QED BY <2>2, FS_CardinalityType
  <1>4. U(k) \in [Refs -> Nat] /\ U(k + 1) \in [Refs -> Nat]
    BY <1>3 DEF UsesLeft
  <1>5. y \in Left(q, c, k, x)
    BY <1>2 DEF Left, Holding
  <1>6. ASSUME NEW r
        PROVE  Left(q, c, k + 1, r) = IF r = x THEN Left(q, c, k, r) \ {y} ELSE Left(q, c, k, r)
    <2>1. ASSUME NEW e \in Holding(q, r)
          PROVE  e \in Left(q, c, k + 1, r) <=> e \in Left(q, c, k, r) /\ ~(r = x /\ e = y)
      <3>1. PICK d \in Clients, i \in 1..MaxQueue : e = <<d, i>>
        BY DEF Holding
      <3>2. q[d][i] = r
        BY <2>1, <3>1 DEF Holding
      <3>3. /\ e \in Left(q, c, k + 1, r) <=> d # c \/ i > k + 1
            /\ e \in Left(q, c, k, r) <=> d # c \/ i > k
            /\ e = y <=> d = c /\ i = k + 1
        BY <2>1, <3>1 DEF Left
      <3>4. i > k + 1 <=> i > k /\ i # k + 1
        OBVIOUS
      <3> QED BY <3>2, <3>3, <3>4
    <2>2. Left(q, c, k + 1, r) \subseteq Holding(q, r) /\ Left(q, c, k, r) \subseteq Holding(q, r)
      BY DEF Left
    <2> HIDE DEF x, y
    <2> QED BY <2>1, <2>2
  <1>7. U(k)[x] = Cardinality(Left(q, c, k, x)) /\ U(k)[x] > 0
    <2>1. Cardinality(Left(q, c, k, x)) # 0
      BY <1>3, <1>5, FS_EmptySet
    <2> QED BY <1>2, <1>3, <2>1 DEF UsesLeft
  <1>8. ASSUME NEW r \in Refs
        PROVE  U(k + 1)[r] = IF r = x THEN U(k)[x] - 1 ELSE U(k)[r]
    <2>1. /\ U(k + 1)[r] = Cardinality(Left(q, c, k + 1, r))
          /\ U(k)[r] = Cardinality(Left(q, c, k, r))
      BY DEF UsesLeft
    <2>2. CASE r = x
      <3>1. Cardinality(Left(q, c, k, r) \ {y}) = Cardinality(Left(q, c, k, r)) - 1
        BY <1>3, <1>5, <2>2, FS_RemoveElement
      <3> QED BY <1>6, <2>1, <2>2, <3>1
    <2>3. CASE r # x
      BY <1>6, <2>1, <2>3
    <2> QED BY <2>2, <2>3
  <1>9. U(k + 1) = [U(k) EXCEPT ![x] = U(k)[x] - 1]
    BY <1>4, <1>8
  <1> QED BY <1>2, <1>4, <1>7, <1>9

LEMMA LeftFirst ==
  ASSUME NEW q, NEW c, QueuesOk(q), Files!FilesAssumption
  PROVE  UsesLeft(q, c, 0) = UsesOf(q)
  <1>1. \A r : Left(q, c, 0, r) = Holding(q, r)
    BY DEF Left, Holding
  <1> QED BY <1>1 DEF UsesLeft, UsesOf

\* All of c's answers are gone.
LEMMA LeftAll ==
  ASSUME Files!FilesAssumption, NEW q, QueuesOk(q), NEW c \in Clients
  PROVE  /\ QueuesOk([q EXCEPT ![c] = <<>>])
         /\ UsesOf([q EXCEPT ![c] = <<>>]) = UsesLeft(q, c, Len(q[c]))
  <1> DEFINE p == [q EXCEPT ![c] = <<>>]
  <1>1. q \in [Clients -> Seq(Refs)] /\ \A d \in Clients : Len(q[d]) <= MaxQueue
    BY DEF QueuesOk
  <1>2. MaxQueue \in Nat /\ <<>> \in Seq(Refs) /\ Len(<<>>) = 0
    BY FilesConstants
  <1>3. p \in [Clients -> Seq(Refs)] /\ p[c] = <<>> /\ \A d \in Clients : d # c => p[d] = q[d]
    BY <1>1, <1>2
  <1> HIDE DEF p
  <1>4. QueuesOk(p)
    <2>1. ASSUME NEW d \in Clients PROVE Len(p[d]) <= MaxQueue
      <3>1. CASE d = c
        <4>1. Len(p[d]) = 0
          BY <1>2, <1>3, <3>1
        <4> QED BY <1>2, <4>1
      <3>2. CASE d # c
        BY <1>1, <1>3, <3>2
      <3> QED BY <3>1, <3>2
    <2> QED BY <1>3, <2>1 DEF QueuesOk
  <1>5. ASSUME NEW r PROVE Holding(p, r) = Left(q, c, Len(q[c]), r)
    <2>1. ASSUME NEW d \in Clients, NEW i \in 1..MaxQueue
          PROVE  <<d, i>> \in Holding(p, r) <=> <<d, i>> \in Left(q, c, Len(q[c]), r)
      <3>1. /\ <<d, i>> \in Holding(p, r) <=> i <= Len(p[d]) /\ p[d][i] = r
            /\ <<d, i>> \in Left(q, c, Len(q[c]), r)
                 <=> i <= Len(q[d]) /\ q[d][i] = r /\ (d # c \/ i > Len(q[c]))
        BY DEF Holding, Left
      <3>2. CASE d = c
        <4>1. ~(i <= Len(p[d])) /\ ~(i <= Len(q[d]) /\ i > Len(q[c]))
          BY <1>1, <1>2, <1>3, <3>2
        <4> QED BY <3>1, <3>2, <4>1
      <3>3. CASE d # c
        BY <1>3, <3>1, <3>3
      <3> QED BY <3>2, <3>3
    <2>2. /\ Holding(p, r) \subseteq Clients \X (1..MaxQueue)
          /\ Left(q, c, Len(q[c]), r) \subseteq Clients \X (1..MaxQueue)
      BY DEF Holding, Left
    <2> QED BY <2>1, <2>2
  <1>6. UsesOf(p) = UsesLeft(q, c, Len(q[c]))
    BY <1>5 DEF UsesOf, UsesLeft
  <1> QED BY <1>4, <1>6 DEF p

\* The first of c's answers is gone, and the others come a place nearer.
LEMMA TailUses ==
  ASSUME Files!FilesAssumption, NEW q, QueuesOk(q), NEW c \in Clients, q[c] # <<>>
  PROVE  /\ QueuesOk([q EXCEPT ![c] = Tail(q[c])])
         /\ UsesOf([q EXCEPT ![c] = Tail(q[c])]) = UsesLeft(q, c, 1)
  <1> DEFINE p == [q EXCEPT ![c] = Tail(q[c])]
  <1>1. q \in [Clients -> Seq(Refs)] /\ \A d \in Clients : Len(q[d]) <= MaxQueue
    BY DEF QueuesOk
  <1>2. MaxQueue \in Nat /\ q[c] \in Seq(Refs)
    BY <1>1, FilesConstants
  <1>3. /\ Tail(q[c]) \in Seq(Refs) /\ Len(Tail(q[c])) = Len(q[c]) - 1 /\ Len(q[c]) \in Nat
        /\ Len(q[c]) > 0
        /\ \A i \in 1..(Len(q[c]) - 1) : Tail(q[c])[i] = q[c][i + 1]
    BY <1>2
  <1>4. p \in [Clients -> Seq(Refs)] /\ p[c] = Tail(q[c]) /\ \A d \in Clients : d # c => p[d] = q[d]
    BY <1>1, <1>3
  <1> HIDE DEF p
  <1>5. QueuesOk(p)
    <2>1. ASSUME NEW d \in Clients PROVE Len(p[d]) <= MaxQueue
      <3>1. CASE d = c
        <4>1. Len(p[d]) = Len(Tail(q[c]))
          BY <1>4, <3>1
        <4>2. Len(q[c]) <= MaxQueue
          BY <1>1
        <4> QED BY <1>2, <1>3, <4>1, <4>2
      <3>2. CASE d # c
        BY <1>1, <1>4, <3>2
      <3> QED BY <3>1, <3>2
    <2> QED BY <1>4, <2>1 DEF QueuesOk
  <1>6. ASSUME NEW r
        PROVE  Cardinality(Holding(p, r)) = Cardinality(Left(q, c, 1, r))
    <2> DEFINE A == Left(q, c, 1, r)
               B == Holding(p, r)
               f == [e \in A |-> IF e[1] = c THEN <<c, e[2] - 1>> ELSE e]
    <2>1. ASSUME NEW d \in Clients, NEW i \in 1..MaxQueue
          PROVE  /\ <<d, i>> \in B <=> i <= Len(p[d]) /\ p[d][i] = r
                 /\ <<d, i>> \in A <=> i <= Len(q[d]) /\ q[d][i] = r /\ (d # c \/ i > 1)
      BY DEF Holding, Left
    <2>2. A \subseteq Clients \X (1..MaxQueue) /\ B \subseteq Clients \X (1..MaxQueue)
      BY DEF Holding, Left
    <2>3. IsFiniteSet(A)
      <3>1. A \in SUBSET Holding(q, r)
        BY DEF Left
      <3> QED BY <3>1, HoldingFinite, FS_Subset
    <2> HIDE DEF A, B
    <2>4. ASSUME NEW e \in A PROVE f[e] \in B
      <3>1. PICK d \in Clients, i \in 1..MaxQueue : e = <<d, i>>
        BY <2>2
      <3>2. i <= Len(q[d]) /\ q[d][i] = r /\ (d # c \/ i > 1)
        BY <2>1, <3>1
      <3>3. CASE d = c
        <4>1. f[e] = <<c, i - 1>>
          BY <3>1, <3>3
        <4>2. i - 1 \in 1..MaxQueue /\ i - 1 \in 1..(Len(q[c]) - 1) /\ (i - 1) + 1 = i
          BY <1>2, <1>3, <3>2, <3>3
        <4>3. i - 1 <= Len(p[c]) /\ p[c][i - 1] = r
          BY <1>3, <1>4, <3>2, <3>3, <4>2
        <4> QED BY <2>1, <4>1, <4>2, <4>3
      <3>4. CASE d # c
        <4>1. f[e] = <<d, i>>
          BY <3>1, <3>4
        <4> QED BY <1>4, <2>1, <3>2, <3>4, <4>1
      <3> QED BY <3>3, <3>4
    <2>5. ASSUME NEW e \in A, NEW g \in A, f[e] = f[g] PROVE e = g
      <3>1. PICK d \in Clients, i \in 1..MaxQueue : e = <<d, i>>
        BY <2>2
      <3>2. PICK b \in Clients, j \in 1..MaxQueue : g = <<b, j>>
        BY <2>2
      <3>3. f[e] = IF d = c THEN <<c, i - 1>> ELSE <<d, i>>
        BY <3>1
      <3>4. f[g] = IF b = c THEN <<c, j - 1>> ELSE <<b, j>>
        BY <3>2
      <3> HIDE DEF f
      <3>5. d = b
        <4>1. f[e][1] = d
          BY <3>3
        <4>2. f[g][1] = b
          BY <3>4
        <4> QED BY <2>5, <4>1, <4>2
      <3>6. CASE d = c
        <4>1. <<c, i - 1>> = <<c, j - 1>>
          BY <2>5, <3>3, <3>4, <3>5, <3>6
        <4>2. i - 1 = j - 1
          BY <4>1
        <4> QED BY <3>1, <3>2, <3>5, <4>2
      <3>7. CASE d # c
        BY <2>5, <3>1, <3>2, <3>3, <3>4, <3>5, <3>7
      <3> QED BY <3>6, <3>7
    <2>6. ASSUME NEW g \in B PROVE \E e \in A : f[e] = g
      <3>1. PICK d \in Clients, i \in 1..MaxQueue : g = <<d, i>>
        BY <2>2
      <3>2. i <= Len(p[d]) /\ p[d][i] = r
        BY <2>1, <3>1
      <3>3. CASE d = c
        <4>1. i \in 1..(Len(q[c]) - 1) /\ i + 1 \in 1..MaxQueue /\ i + 1 <= Len(q[c])
              /\ i + 1 > 1 /\ (i + 1) - 1 = i
          BY <1>1, <1>2, <1>3, <1>4, <3>2, <3>3
        <4>2. q[c][i + 1] = r
          BY <1>3, <1>4, <3>2, <3>3, <4>1
        <4>3. <<c, i + 1>> \in A
          BY <2>1, <4>1, <4>2
        <4>4. f[<<c, i + 1>>] = <<c, i>>
          BY <4>1, <4>3
        <4> QED BY <3>1, <3>3, <4>3, <4>4
      <3>4. CASE d # c
        <4>1. <<d, i>> \in A
          BY <1>4, <2>1, <3>2, <3>4
        <4>2. f[<<d, i>>] = <<d, i>>
          BY <3>4, <4>1
        <4> QED BY <3>1, <4>1, <4>2
      <3> QED BY <3>3, <3>4
    <2>7. f \in Bijection(A, B)
      <3>1. f \in [A -> B]
        BY <2>4
      <3> HIDE DEF f
      <3> QED BY <2>5, <2>6, <3>1 DEF Bijection, Injection, Surjection, IsInjective
    <2>8. ExistsBijection(A, B)
      BY <2>7 DEF ExistsBijection
    <2> QED BY <2>3, <2>8, FS_Bijection DEF A, B
  <1>7. UsesOf(p) = UsesLeft(q, c, 1)
    BY <1>6 DEF UsesOf, UsesLeft
  <1> QED BY <1>5, <1>7 DEF p
-----------------------------------------------------------------------------
LEMMA ReleaseTyped ==
  ASSUME Files!FilesAssumption, NEW s \in RefStates, NEW r \in Refs
  PROVE  Files!Release(s, r) \in RefStates
  <1> DEFINE t == [s EXCEPT !.cnt[r] = s.cnt[r] - 1]
  <1>1. t \in RefStates
    <2>1. /\ s.path \in [Refs -> Paths \cup {None}] /\ s.seen \in [Refs -> Nat]
          /\ s.cnt \in [Refs -> Int] /\ s.fds \in [Refs \cup {None} -> Int]
          /\ s.listed \in [Refs -> BOOLEAN]
      BY StateIs
    <2>2. [s.cnt EXCEPT ![r] = s.cnt[r] - 1] \in [Refs -> Int]
      BY <2>1
    <2>3. t = [path |-> s.path, seen |-> s.seen, cnt |-> [s.cnt EXCEPT ![r] = s.cnt[r] - 1],
               fds |-> s.fds, listed |-> s.listed]
      BY DEF RefStates
    <2> QED BY <2>1, <2>2, <2>3 DEF RefStates
  <1>2. Files!Release(s, r) = IF t.cnt[r] = 0 /\ ~t.listed[r] THEN Files!Drop(t, r) ELSE t
    BY DEF Files!Release
  <1> HIDE DEF t
  <1>3. Files!Drop(t, r) \in RefStates
    BY <1>1, DropIs
  <1> QED BY <1>1, <1>2, <1>3

\* kore_connection_remove gives the references back one after the other.
LEMMA ReleasesAllIs ==
  ASSUME Files!FilesAssumption, Files!Now \in RefStates, NEW q \in Seq(Refs)
  PROVE  /\ Files!ReleasesAll(q)[0] = Files!Now
         /\ \A k \in Nat : k + 1 <= Len(q) =>
              Files!ReleasesAll(q)[k + 1] = Files!Release(Files!ReleasesAll(q)[k], q[k + 1])
  <1> DEFINE n == Len(q)
             V == RefStates
             h == [p \in Nat \X V |-> IF p[1] + 1 <= n THEN Files!Release(p[2], q[p[1] + 1])
                                       ELSE p[2]]
             F(g) == [k \in 0..n |-> IF k = 0 THEN Files!Now
                                     ELSE Files!Release(g[k - 1], q[k])]
  <1>1. n \in Nat /\ \A k \in Nat : k + 1 <= n => q[k + 1] \in Refs
    OBVIOUS
  <1>2. h \in [Nat \X V -> V] /\ \A k \in Nat, s \in V :
          k + 1 <= n => h[<<k, s>>] = Files!Release(s, q[k + 1])
    <2>1. ASSUME NEW p \in Nat \X V
          PROVE  (IF p[1] + 1 <= n THEN Files!Release(p[2], q[p[1] + 1]) ELSE p[2]) \in V
      <3>1. p[1] \in Nat /\ p[2] \in V
        OBVIOUS
      <3>2. CASE p[1] + 1 <= n
        BY <1>1, <3>1, <3>2, ReleaseTyped
      <3>3. CASE ~(p[1] + 1 <= n)
        BY <3>1, <3>3
      <3> QED BY <3>2, <3>3
    <2> HIDE DEF V
    <2>2. h \in [Nat \X V -> V]
      BY <2>1
    <2>3. ASSUME NEW k \in Nat, NEW s \in V, k + 1 <= n
          PROVE  h[<<k, s>>] = Files!Release(s, q[k + 1])
      <3>1. <<k, s>> \in Nat \X V /\ <<k, s>>[1] = k /\ <<k, s>>[2] = s
        OBVIOUS
      <3> QED BY <2>3, <3>1
    <2> QED BY <2>2, <2>3
  <1> HIDE DEF h, n
  <1>3. PICK f \in [Nat -> V] : f[0] = Files!Now /\ \A k \in Nat : f[k + 1] = h[<<k, f[k]>>]
    <2> HIDE DEF V
    <2>1. Files!Now \in V
      BY DEF V
    <2>2. h \in [Nat \X V -> V]
      BY <1>2
    <2>3. CanFollow(V, Files!Now, h)
      BY <2>1, <2>2, RecursiveOnNat
    <2> QED BY <2>3 DEF CanFollow
  <1> DEFINE e == [k \in 0..n |-> f[k]]
  <1>4. e = F(e)
    <2>1. ASSUME NEW k \in 0..n
          PROVE  f[k] = IF k = 0 THEN Files!Now ELSE Files!Release(e[k - 1], q[k])
      <3>1. CASE k = 0
        BY <1>3, <3>1
      <3>2. CASE k # 0
        <4>1. k - 1 \in Nat /\ (k - 1) + 1 = k /\ k <= n /\ k - 1 \in 0..n
          BY <1>1, <3>2
        <4>2. f[k - 1] \in V
          BY <1>3, <4>1
        <4>3. f[(k - 1) + 1] = h[<<k - 1, f[k - 1]>>]
          BY <1>3, <4>1
        <4>4. h[<<k - 1, f[k - 1]>>] = Files!Release(f[k - 1], q[(k - 1) + 1])
          BY <1>2, <4>1, <4>2
        <4>5. e[k - 1] = f[k - 1]
          BY <4>1
        <4> QED BY <3>2, <4>1, <4>3, <4>4, <4>5
      <3> QED BY <3>1, <3>2
    <2> QED BY <2>1
  <1> HIDE DEF e
  <1> DEFINE g == CHOOSE x : x = F(x)
  <1>5. g = F(g)
    <2>1. \E x : x = F(x)
      BY <1>4
    <2> HIDE DEF F
    <2> QED BY <2>1
  <1>6. Files!ReleasesAll(q) = g
    BY DEF Files!ReleasesAll, n
  <1> HIDE DEF g
  <1>7. g[0] = Files!Now
    BY <1>1, <1>5
  <1>8. ASSUME NEW k \in Nat, k + 1 <= n
        PROVE  g[k + 1] = Files!Release(g[k], q[k + 1])
    <2>1. k + 1 \in 0..n /\ k + 1 # 0 /\ (k + 1) - 1 = k
      BY <1>1, <1>8
    <2>2. F(g)[k + 1] = Files!Release(g[(k + 1) - 1], q[k + 1])
      BY <2>1
    <2> QED BY <1>5, <2>1, <2>2
  <1> QED BY <1>6, <1>7, <1>8 DEF n

LEMMA AllReleased ==
  ASSUME Files!FilesAssumption, FilesInv, NEW c \in Clients
  PROVE  StateOk(Files!ReleasesAll(sendqueue[c])[Len(sendqueue[c])],
                 UsesLeft(sendqueue, c, Len(sendqueue[c])))
  <1> DEFINE q == sendqueue[c]
             a == Files!ReleasesAll(q)
             T == {k \in Nat : k <= Len(q) /\ ~StateOk(a[k], UsesLeft(sendqueue, c, k))}
  <1>1. q \in Seq(Refs) /\ Len(q) \in Nat /\ QueuesOk(sendqueue)
    BY DEF FilesInv, QueuesOk
  <1>2. Files!Now \in RefStates
    BY DEF FilesInv, StateOk
  <1>3. /\ a[0] = Files!Now
        /\ \A k \in Nat : k + 1 <= Len(q) => a[k + 1] = Files!Release(a[k], q[k + 1])
    BY <1>1, <1>2, ReleasesAllIs
  <1> HIDE DEF a
  <1>4. T = {}
    <2> SUFFICES ASSUME T # {} PROVE FALSE
      OBVIOUS
    <2>1. PICK m \in T : \A y \in T : m <= y
      <3>1. T \in SUBSET Nat
        OBVIOUS
      <3> HIDE DEF T
      <3> QED BY <3>1, LeastOf
    <2>2. m \in Nat /\ m <= Len(q) /\ ~StateOk(a[m], UsesLeft(sendqueue, c, m))
      OBVIOUS
    <2>3. CASE m = 0
      <3>1. StateOk(a[0], UsesLeft(sendqueue, c, 0))
        BY <1>1, <1>3, LeftFirst DEF FilesInv
      <3> QED BY <2>2, <2>3, <3>1
    <2>4. CASE m # 0
      <3> DEFINE k == m - 1
      <3>1. k \in Nat /\ k + 1 = m /\ k + 1 <= Len(q) /\ k <= Len(q) /\ ~(m <= k)
        BY <1>1, <2>2, <2>4
      <3>2. k \notin T
        BY <2>1, <3>1
      <3>3. StateOk(a[k], UsesLeft(sendqueue, c, k))
        BY <3>1, <3>2
      <3> HIDE DEF k, T
      <3>4. /\ q[k + 1] \in Refs /\ UsesLeft(sendqueue, c, k)[q[k + 1]] > 0
            /\ UsesLeft(sendqueue, c, k + 1)
                 = [UsesLeft(sendqueue, c, k) EXCEPT ![q[k + 1]]
                       = UsesLeft(sendqueue, c, k)[q[k + 1]] - 1]
        BY <1>1, <3>1, LeftNext
      <3> HIDE DEF q
      <3>5. StateOk(Files!Release(a[k], q[k + 1]), UsesLeft(sendqueue, c, k + 1))
        BY <3>3, <3>4, ReleaseOk
      <3>6. a[k + 1] = Files!Release(a[k], q[k + 1])
        BY <1>3, <3>1
      <3> QED BY <2>2, <3>1, <3>5, <3>6
    <2> QED BY <2>3, <2>4
  <1>5. Len(q) \notin T
    BY <1>4
  <1> QED BY <1>1, <1>5 DEF a
-----------------------------------------------------------------------------
LEMMA FilesStart == ASSUME Files!FilesAssumption, Files!Init PROVE FilesInv
  <1>1. None \notin Refs \cup Paths /\ MaxQueue \in Nat
    BY FilesConstants
  <1>2. Files!Now = [path |-> [r \in Refs |-> None], seen |-> [r \in Refs |-> 0],
                     cnt |-> [r \in Refs |-> 0], listed |-> [r \in Refs |-> FALSE],
                     fds |-> [r \in Refs \cup {None} |-> 0]]
    BY DEF Files!Init, Files!Now
  <1>3. Files!Now \in RefStates
    BY <1>2 DEF RefStates
  <1>4. sendqueue = [c \in Clients |-> <<>>] /\ mtime = 1
    BY DEF Files!Init
  <1>5. QueuesOk(sendqueue)
    <2>1. <<>> \in Seq(Refs) /\ Len(<<>>) = 0
      OBVIOUS
    <2> QED BY <1>1, <1>4, <2>1 DEF QueuesOk
  <1>6. ASSUME NEW r \in Refs PROVE UsesOf(sendqueue)[r] = 0
    <2>1. \A c \in Clients, i \in 1..MaxQueue : ~(i <= Len(sendqueue[c]))
      BY <1>4
    <2>2. Holding(sendqueue, r) = {}
      BY <2>1 DEF Holding
    <2> QED BY <2>2, FS_EmptySet DEF UsesOf
  <1>7. UsesOf(sendqueue) \in [Refs -> Nat]
    BY UsesTyped
  <1>8. RefsRight(Files!Now, UsesOf(sendqueue))
    BY <1>1, <1>2, <1>6 DEF RefsRight
  <1> QED BY <1>3, <1>4, <1>5, <1>7, <1>8 DEF FilesInv, StateOk

LEMMA BecomesOk ==
  ASSUME NEW s, Files!Becomes(s), StateOk(s, UsesOf(sendqueue')), QueuesOk(sendqueue'),
         mtime' \in Nat
  PROVE  FilesInv'
  <1>1. Files!Now' = [path |-> s.path, seen |-> s.seen, cnt |-> s.cnt, listed |-> s.listed,
                      fds |-> s.fds]
    BY DEF Files!Becomes, Files!Now
  <1>2. s \in RefStates
    BY DEF StateOk
  <1>3. Files!Now' = s
    BY <1>1, <1>2, StateIs
  <1>4. StateOk(Files!Now', UsesOf(sendqueue'))
    BY <1>3
  <1> QED BY <1>4 DEF FilesInv

\* filemap_serve: what it finds, and what becomes of the references and queues.
LEMMA ServeKeeps ==
  ASSUME Files!FilesAssumption, FilesInv, NEW c \in Clients, NEW p \in Paths, Files!Serve(c, p)
  PROVE  /\ FilesInv'
         /\ \A d \in Clients : Len(sendqueue'[d]) > Len(sendqueue[d]) =>
              seen'[sendqueue'[d][Len(sendqueue'[d])]] = mtime
  <1> DEFINE f == Files!Lookup(p)
             U == UsesOf(sendqueue)
             n == Len(sendqueue[c])
  <1>1. /\ Files!Unused # {} /\ n < MaxQueue /\ mtime' = mtime
        /\ \/ f[1] = None /\ Files!Becomes(f[2]) /\ sendqueue' = sendqueue
           \/ /\ f[1] # None /\ Files!Becomes(f[2])
              /\ sendqueue' = [sendqueue EXCEPT ![c] = Append(sendqueue[c], f[1])]
           \/ /\ f[1] # None /\ Files!Becomes(Files!Release(f[2], f[1]))
              /\ sendqueue' = sendqueue
    BY DEF Files!Serve
  <1>2. /\ StateOk(Files!Now, U) /\ QueuesOk(sendqueue) /\ mtime \in Nat
        /\ U \in [Refs -> Nat]
    BY DEF FilesInv, StateOk
  <1>3. \/ f[1] = None /\ StateOk(f[2], U)
        \/ FoundOk(f, U)
    BY <1>1, <1>2, LookupOk
  <1>4. None \notin Refs
    BY FilesConstants
  <1> HIDE DEF f
  <1>5. CASE f[1] = None /\ Files!Becomes(f[2]) /\ sendqueue' = sendqueue
    <2>1. StateOk(f[2], U)
      BY <1>3, <1>4, <1>5 DEF FoundOk
    <2>2. FilesInv'
      BY <1>1, <1>2, <1>5, <2>1, BecomesOk
    <2>3. \A d \in Clients : ~(Len(sendqueue'[d]) > Len(sendqueue[d]))
      <3>1. \A d \in Clients : Len(sendqueue[d]) \in Nat
        BY <1>2 DEF QueuesOk
      <3> QED BY <1>5, <3>1
    <2> QED BY <2>2, <2>3
  <1>6. CASE /\ f[1] # None /\ Files!Becomes(f[2])
             /\ sendqueue' = [sendqueue EXCEPT ![c] = Append(sendqueue[c], f[1])]
    <2>1. /\ f[1] \in Refs /\ f[2].seen[f[1]] = mtime
          /\ StateOk(f[2], [U EXCEPT ![f[1]] = U[f[1]] + 1])
      BY <1>3, <1>6 DEF FoundOk
    <2>2. /\ QueuesOk(sendqueue') /\ UsesOf(sendqueue') = [U EXCEPT ![f[1]] = U[f[1]] + 1]
      <3> DEFINE w == [sendqueue EXCEPT ![c] = Append(sendqueue[c], f[1])]
      <3>1. QueuesOk(sendqueue) /\ f[1] \in Refs /\ Len(sendqueue[c]) < MaxQueue
        BY <1>1, <1>2, <2>1
      <3>2. QueuesOk(w)
        BY <3>1, AppendedUses
      <3>3. UsesOf(w) = [UsesOf(sendqueue) EXCEPT ![f[1]] = UsesOf(sendqueue)[f[1]] + 1]
        BY <3>1, AppendedUses
      <3>4. sendqueue' = w
        BY <1>6
      <3> HIDE DEF w
      <3> QED BY <3>2, <3>3, <3>4
    <2> HIDE DEF U
    <2>3. FilesInv'
      BY <1>1, <1>2, <1>6, <2>1, <2>2, BecomesOk
    <2>4. ASSUME NEW d \in Clients, Len(sendqueue'[d]) > Len(sendqueue[d])
          PROVE  seen'[sendqueue'[d][Len(sendqueue'[d])]] = mtime
      <3>1. sendqueue \in [Clients -> Seq(Refs)]
        BY <1>2 DEF QueuesOk
      <3>2. d # c => sendqueue'[d] = sendqueue[d] /\ Len(sendqueue[d]) \in Nat
        BY <1>6, <3>1
      <3>3. d = c
        BY <2>4, <3>2
      <3>4. sendqueue'[d] = Append(sendqueue[c], f[1])
        BY <1>6, <3>1, <3>3
      <3>5. sendqueue'[d][Len(sendqueue'[d])] = f[1]
        <4>1. sendqueue[c] \in Seq(Refs)
          BY <3>1
        <4> QED BY <3>4, <4>1
      <3>6. seen' = f[2].seen
        BY <1>6 DEF Files!Becomes
      <3> QED BY <2>1, <3>5, <3>6
    <2> QED BY <2>3, <2>4
  <1>7. CASE /\ f[1] # None /\ Files!Becomes(Files!Release(f[2], f[1]))
             /\ sendqueue' = sendqueue
    <2> DEFINE v == [U EXCEPT ![f[1]] = U[f[1]] + 1]
    <2>1. f[1] \in Refs /\ StateOk(f[2], v)
      BY <1>3, <1>7 DEF FoundOk
    <2> HIDE DEF U
    <2>2. v \in [Refs -> Nat] /\ v[f[1]] = U[f[1]] + 1 /\ U[f[1]] \in Nat
      BY <1>2, <2>1
    <2>3. [v EXCEPT ![f[1]] = v[f[1]] - 1] = U
      <3> DEFINE w == [v EXCEPT ![f[1]] = v[f[1]] - 1]
      <3>1. \A r \in Refs : v[r] = IF r = f[1] THEN U[r] + 1 ELSE U[r]
        BY <1>2, <2>1
      <3> HIDE DEF v
      <3>2. \A r \in Refs : w[r] = IF r = f[1] THEN v[r] - 1 ELSE v[r]
        BY <2>1, <2>2
      <3>3. w \in [Refs -> Nat]
        BY <2>1, <2>2
      <3> HIDE DEF w
      <3>4. \A r \in Refs : w[r] = U[r]
        BY <1>2, <3>1, <3>2
      <3>5. w = U
        BY <1>2, <3>3, <3>4
      <3> QED BY <3>5 DEF w
    <2>4. v[f[1]] > 0
      BY <2>2
    <2> HIDE DEF v
    <2>5. StateOk(Files!Release(f[2], f[1]), U)
      BY <2>1, <2>3, <2>4, ReleaseOk
    <2>6. FilesInv'
      BY <1>1, <1>2, <1>7, <2>5, BecomesOk DEF U
    <2>7. \A d \in Clients : ~(Len(sendqueue'[d]) > Len(sendqueue[d]))
      <3>1. \A d \in Clients : Len(sendqueue[d]) \in Nat
        BY <1>2 DEF QueuesOk
      <3> QED BY <1>7, <3>1
    <2> QED BY <2>6, <2>7
  <1> QED BY <1>1, <1>5, <1>6, <1>7

\* No other action makes a send queue longer.
NoneLonger == \A d \in Clients : ~(Len(sendqueue'[d]) > Len(sendqueue[d]))

LEMMA SentKeeps ==
  ASSUME Files!FilesAssumption, FilesInv, NEW c \in Clients, Files!Sent(c)
  PROVE  FilesInv' /\ NoneLonger
  <1> DEFINE U == UsesOf(sendqueue)
             q == sendqueue[c]
  <1>1. /\ q # <<>> /\ sendqueue' = [sendqueue EXCEPT ![c] = Tail(q)] /\ mtime' = mtime
        /\ Files!Becomes(Files!Release(Files!Now, Head(q)))
    BY DEF Files!Sent
  <1>2. StateOk(Files!Now, U) /\ QueuesOk(sendqueue) /\ mtime \in Nat
    BY DEF FilesInv
  <1>3. sendqueue \in [Clients -> Seq(Refs)] /\ \A d \in Clients : Len(sendqueue[d]) \in Nat
    BY <1>2 DEF QueuesOk
  <1>4. q \in Seq(Refs) /\ 0 \in Nat /\ 0 + 1 <= Len(q) /\ 0 + 1 = 1 /\ Head(q) = q[1]
    <2>1. q \in Seq(Refs)
      BY <1>3
    <2> QED BY <1>1, <2>1
  <1>5. QueuesOk(sendqueue') /\ UsesOf(sendqueue') = UsesLeft(sendqueue, c, 1)
    BY <1>1, <1>2, TailUses
  <1>6. LET x == sendqueue[c][0 + 1] IN
        /\ x \in Refs /\ UsesLeft(sendqueue, c, 0) \in [Refs -> Nat]
        /\ UsesLeft(sendqueue, c, 0)[x] > 0
        /\ UsesLeft(sendqueue, c, 0 + 1)
              = [UsesLeft(sendqueue, c, 0) EXCEPT ![x] = UsesLeft(sendqueue, c, 0)[x] - 1]
    <2> DEFINE a == UsesLeft(sendqueue, c, 0)
               d == UsesLeft(sendqueue, c, 0 + 1)
               x == sendqueue[c][0 + 1]
    <2>1. c \in Clients /\ 0 \in Nat /\ 0 + 1 <= Len(sendqueue[c])
      BY <1>4
    <2>2. x \in Refs /\ a \in [Refs -> Nat]
      BY <1>2, <2>1, LeftNext
    <2>3. a[x] > 0
      BY <1>2, <2>1, LeftNext
    <2>4. d = [a EXCEPT ![x] = a[x] - 1]
      BY <1>2, <2>1, LeftNext
    <2> QED BY <2>2, <2>3, <2>4
  <1>7. UsesLeft(sendqueue, c, 0) = U
    BY <1>2, LeftFirst
  <1>8. /\ Head(q) \in Refs /\ U[Head(q)] > 0
        /\ UsesLeft(sendqueue, c, 1) = [U EXCEPT ![Head(q)] = U[Head(q)] - 1]
    BY <1>4, <1>6, <1>7
  <1> HIDE DEF U
  <1>9. StateOk(Files!Release(Files!Now, Head(q)), UsesOf(sendqueue'))
    <2>1. StateOk(Files!Release(Files!Now, Head(q)), [U EXCEPT ![Head(q)] = U[Head(q)] - 1])
      BY <1>2, <1>8, ReleaseOk
    <2> QED BY <1>5, <1>8, <2>1
  <1>10. FilesInv'
    BY <1>1, <1>2, <1>5, <1>9, BecomesOk
  <1>11. ASSUME NEW d \in Clients PROVE ~(Len(sendqueue'[d]) > Len(sendqueue[d]))
    <2>1. CASE d = c
      <3>1. sendqueue'[d] = Tail(q)
        BY <1>1, <1>3, <2>1
      <3>2. Len(Tail(q)) = Len(q) - 1 /\ Len(q) \in Nat
        BY <1>1, <1>4
      <3> QED BY <2>1, <3>1, <3>2
    <2>2. CASE d # c
      BY <1>1, <1>3, <2>2
    <2> QED BY <2>1, <2>2
  <1> QED BY <1>10, <1>11 DEF NoneLonger

LEMMA RemovedKeeps ==
  ASSUME Files!FilesAssumption, FilesInv, NEW c \in Clients, Files!Removed(c)
  PROVE  FilesInv' /\ NoneLonger
  <1> DEFINE q == sendqueue[c]
  <1>1. /\ sendqueue' = [sendqueue EXCEPT ![c] = <<>>] /\ mtime' = mtime
        /\ Files!Becomes(Files!ReleasesAll(q)[Len(q)])
    BY DEF Files!Removed
  <1>2. QueuesOk(sendqueue) /\ mtime \in Nat
    BY DEF FilesInv
  <1>3. sendqueue \in [Clients -> Seq(Refs)] /\ \A d \in Clients : Len(sendqueue[d]) \in Nat
    BY <1>2 DEF QueuesOk
  <1>4. QueuesOk(sendqueue') /\ UsesOf(sendqueue') = UsesLeft(sendqueue, c, Len(q))
    BY <1>1, <1>2, LeftAll
  <1>5. StateOk(Files!ReleasesAll(q)[Len(q)], UsesOf(sendqueue'))
    BY <1>4, AllReleased
  <1>6. FilesInv'
    BY <1>1, <1>2, <1>4, <1>5, BecomesOk
  <1>7. ASSUME NEW d \in Clients PROVE ~(Len(sendqueue'[d]) > Len(sendqueue[d]))
    <2>1. CASE d = c
      <3>1. sendqueue'[d] = <<>> /\ Len(<<>>) = 0
        BY <1>1, <1>3, <2>1
      <3> QED BY <1>3, <3>1
    <2>2. CASE d # c
      BY <1>1, <1>3, <2>2
    <2> QED BY <2>1, <2>2
  <1> QED BY <1>6, <1>7 DEF NoneLonger

LEMMA ExpiresKeeps ==
  ASSUME Files!FilesAssumption, FilesInv, NEW r \in Refs, Files!Expires(r)
  PROVE  FilesInv' /\ NoneLonger
  <1> DEFINE s == Files!Now
             U == UsesOf(sendqueue)
  <1>1. /\ path[r] # None /\ cnt[r] = 0 /\ Files!Becomes(Files!Drop(s, r))
        /\ mtime' = mtime /\ sendqueue' = sendqueue
    BY DEF Files!Expires, Files!Used, Files!Idle
  <1>2. StateOk(s, U) /\ QueuesOk(sendqueue) /\ mtime \in Nat
    BY DEF FilesInv
  <1>3. s.path[r] # None /\ s.cnt[r] = 0
    BY <1>1 DEF Files!Now
  <1> HIDE DEF s, U
  <1>4. s \in RefStates /\ U \in [Refs -> Nat] /\ RefsRight(s, U)
    BY <1>2 DEF StateOk
  <1>5. U[r] = 0
    BY <1>3, <1>4 DEF RefsRight
  <1>6. \A q \in Refs :
           /\ s.cnt[q] = U[q]
           /\ s.cnt[q] > 0 => s.path[q] # None
           /\ s.listed[q] => s.path[q] # None
           /\ q # r => (s.path[q] # None /\ ~s.listed[q] => s.cnt[q] > 0)
           /\ s.fds[q] = IF s.path[q] # None THEN 1 ELSE 0
    BY <1>4 DEF RefsRight
  <1>7. \A q, p \in Refs : s.listed[p] /\ s.listed[q] /\ s.path[p] = s.path[q] => p = q
    BY <1>4 DEF RefsRight
  <1>8. StateOk(Files!Drop(s, r), U)
    BY <1>3, <1>4, <1>5, <1>6, <1>7, DropOk
  <1>9. FilesInv'
    BY <1>1, <1>2, <1>8, BecomesOk DEF U
  <1>10. \A d \in Clients : Len(sendqueue[d]) \in Nat
    BY <1>2 DEF QueuesOk
  <1> QED BY <1>1, <1>9, <1>10 DEF NoneLonger

\* Nothing happens to the references and the queues.
LEMMA FilesStay ==
  ASSUME FilesInv, UNCHANGED <<Files!refs, fds, sendqueue>>, mtime' \in Nat
  PROVE  FilesInv' /\ NoneLonger
  <1>1. /\ path' = path /\ seen' = seen /\ cnt' = cnt /\ listed' = listed /\ fds' = fds
        /\ sendqueue' = sendqueue
    BY DEF Files!refs
  <1>2. Files!Now' = Files!Now
    BY <1>1 DEF Files!Now
  <1>3. FilesInv'
    BY <1>1, <1>2 DEF FilesInv
  <1>4. \A d \in Clients : Len(sendqueue[d]) \in Nat
    BY DEF FilesInv, QueuesOk
  <1> QED BY <1>1, <1>3, <1>4 DEF NoneLonger

FreshStep ==
  \A d \in Clients : Len(sendqueue'[d]) > Len(sendqueue[d]) =>
    seen'[sendqueue'[d][Len(sendqueue'[d])]] = mtime

LEMMA FilesStep ==
  ASSUME Files!FilesAssumption, FilesInv, [Files!Next]_(Files!vars)
  PROVE  FilesInv' /\ FreshStep
  <1>1. NoneLonger => FreshStep
    BY DEF NoneLonger, FreshStep
  <1>2. ASSUME NEW c \in Clients, Files!Sent(c) PROVE FilesInv' /\ FreshStep
    BY <1>1, <1>2, SentKeeps
  <1>3. ASSUME NEW c \in Clients, Files!Removed(c) PROVE FilesInv' /\ FreshStep
    BY <1>1, <1>3, RemovedKeeps
  <1>4. ASSUME NEW c \in Clients, NEW p \in Paths, Files!Serve(c, p) PROVE FilesInv' /\ FreshStep
    BY <1>4, ServeKeeps DEF FreshStep
  <1>5. ASSUME NEW r \in Refs, Files!Expires(r) PROVE FilesInv' /\ FreshStep
    BY <1>1, <1>5, ExpiresKeeps
  <1>6. ASSUME NEW m \in 0..MaxMtime, Files!Changes(m) PROVE FilesInv' /\ FreshStep
    <2>1. mtime' = m /\ UNCHANGED <<Files!refs, fds, sendqueue>> /\ m \in Nat
      BY <1>6, FilesConstants DEF Files!Changes
    <2> QED BY <1>1, <2>1, FilesStay
  <1>7. ASSUME UNCHANGED Files!vars PROVE FilesInv' /\ FreshStep
    <2>1. mtime' \in Nat /\ UNCHANGED <<Files!refs, fds, sendqueue>>
      BY <1>7 DEF FilesInv, Files!vars
    <2> QED BY <1>1, <2>1, FilesStay
  <1> QED BY <1>2, <1>3, <1>4, <1>5, <1>6, <1>7 DEF Files!Next

LEMMA FilesRight ==
  ASSUME Files!FilesAssumption, FilesInv
  PROVE  Files!CountsAreRight /\ Files!OneEach
  <1>1. /\ path = Files!Now.path /\ cnt = Files!Now.cnt /\ listed = Files!Now.listed
        /\ fds = Files!Now.fds
    BY DEF Files!Now
  <1>2. RefsRight(Files!Now, UsesOf(sendqueue))
    BY DEF FilesInv, StateOk
  <1>3. \A r \in Refs : UsesOf(sendqueue)[r] = Files!Uses(r)
    BY UsesIs DEF UsesOf
  <1>4. Files!CountsAreRight
    BY <1>1, <1>2, <1>3 DEF Files!CountsAreRight, RefsRight, Files!Used
  <1>5. ASSUME NEW p \in Paths PROVE Files!Cardinality(Files!Cached(p)) <= 1
    <2> DEFINE C == Files!Cached(p)
    <2>1. \A r, q \in C : r = q
      BY <1>1, <1>2 DEF Files!Cached, RefsRight
    <2> HIDE DEF C
    <2>2. CASE C = {}
      BY <2>2, FS_EmptySet, SameCardinality DEF C
    <2>3. CASE C # {}
      <3>1. PICK r : r \in C
        BY <2>3
      <3>2. C = {r}
        BY <2>1, <3>1
      <3>3. Cardinality(C) = 1
        BY <3>2, FS_Singleton
      <3> QED BY <3>3, SameCardinality DEF C
    <2> QED BY <2>2, <2>3
  <1>6. \A r \in Refs : fds[r] = IF Files!Used(r) THEN 1 ELSE 0
    BY <1>1, <1>2 DEF RefsRight, Files!Used
  <1> QED BY <1>4, <1>5, <1>6 DEF Files!OneEach

\* Every answer in a send queue is counted at its reference and none twice,
\* whatever is changed, expires or goes; a reference that is used is there,
\* with its descriptor; one is cached for a path at most; and an answer
\* begins with the file as it is (kore_fileref_get, _create, _release,
\* fileref_soft_remove, fileref_expiration_check, filemap_serve).
THEOREM FilesStayShared ==
  ASSUME Files!FilesAssumption
  PROVE  Files!Spec => [](Files!CountsAreRight /\ Files!OneEach) /\ Files!FreshAtStart
  <1>1. Files!Init => FilesInv
    BY FilesStart
  <1>2. FilesInv /\ [Files!Next]_(Files!vars) => FilesInv'
    BY FilesStep
  <1>3. FilesInv => Files!CountsAreRight /\ Files!OneEach
    BY FilesRight
  <1>4. FilesInv /\ [Files!Next]_(Files!vars) =>
          [\A c \in Clients : Len(sendqueue'[c]) > Len(sendqueue[c]) =>
             seen'[Files!Last(sendqueue'[c])] = mtime]_(Files!vars)
    BY FilesStep DEF FreshStep, Files!Last
  <1> QED BY <1>1, <1>2, <1>3, <1>4, PTL DEF Files!Spec, Files!FreshAtStart
=============================================================================
