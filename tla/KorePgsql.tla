----------------------------- MODULE KorePgsql ------------------------------
(* Kore's PostgreSQL layer (kore-3.2.0/src/pgsql.c): a pool of connections *)
(* per database, the queries of requests on them, and the requests that    *)
(* wait for a connection.  The requests run the state machine of           *)
(* examples/pgsql, step by step under http_state_run.                      *)
EXTENDS Naturals, Sequences, FiniteSets, SequencesExt

CONSTANTS Users,       \* requests, each with its struct kore_pgsql
          Dbs,         \* the databases that are registered
          DbOf,        \* the database a request wants
          Conns,       \* struct pgsql_conn
          None,
          ConnMax,     \* db->conn_max
          QueueLimit,  \* pgsql_queue_limit
          MaxTrouble,  \* bound: connections lost and clients that go
          Answers      \* what the server may answer: sequences of Result

Result == {"tuples", "command", "fatal"}    \* PQresultStatus

PgsqlAssumption ==
  /\ None \notin Conns \cup Users \cup Dbs
  /\ DbOf \in [Users -> Dbs] /\ {ConnMax, QueueLimit} \subseteq Nat \ {0}
  /\ IsFiniteSet(Conns)
  /\ MaxTrouble \in Nat
  /\ Answers \subseteq Seq(Result)

VARIABLES
  name,     \* the database of a connection, None when there is no such one
  job,      \* conn->job->pgsql
  coming,   \* results the server has for the connection's query
  inerror,  \* PQtransactionStatus is PQTRANS_INERROR
  free,     \* pgsql_conn_free
  count,    \* db->conn_count
  pstate,   \* pgsql->state
  pconn,    \* pgsql->conn
  queue,    \* pgsql_wait_queue
  fsm,      \* req->fsm_state, "none" before the request comes, "ended" after
  asleep,   \* HTTP_REQUEST_SLEEPING
  gone,     \* HTTP_REQUEST_DELETE
  running,  \* the request http_state_run works on
  phase,    \* the worker's loop: event_wait gives out its "events", or
            \* http_process has "begun" or "ran" some request
  todo,     \* what http_process has yet to come to
  heard,    \* connections that had their event of this event_wait
  left,     \* in event_wait: requests that http_process left before it with
            \* rows to read, when http_request_ms was over
  woken,    \* woken from the queue and not run since
  missed,   \* a connection went, or a woken request, and nobody was woken
  trouble

pool == <<name, job, coming, inerror, free, count>>
pass == <<phase, todo, heard, left>>
vars == <<pool, pstate, pconn, queue, fsm, asleep, gone, running, pass, woken, missed, trouble>>

Init ==
  /\ name = [c \in Conns |-> None]  /\ job = [c \in Conns |-> None]
  /\ coming = [c \in Conns |-> <<>>] /\ inerror = [c \in Conns |-> FALSE]
  /\ free = <<>> /\ count = [d \in Dbs |-> 0]
  /\ pstate = [u \in Users |-> "init"] /\ pconn = [u \in Users |-> None]
  /\ queue = <<>>
  /\ fsm = [u \in Users |-> "none"] /\ asleep = [u \in Users |-> FALSE]
  /\ gone = [u \in Users |-> FALSE]
  /\ phase = "events" /\ todo = {} /\ heard = {} /\ left = {}
  /\ running = None /\ woken = {} /\ missed = FALSE /\ trouble = 0
-----------------------------------------------------------------------------
(* TAILQ_FOREACH and TAILQ_REMOVE.                                         *)
Place(x, s)   == Min({i \in DOMAIN s : s[i] = x})
Without(x, s) == RemoveAt(s, Place(x, s))

(* pgsql_queue_wakeup: requests that are to be deleted are dropped, and the *)
(* first other one, whatever its database, wakes.                          *)
Staying(q) == {i \in DOMAIN q : ~gone[q[i]]}
WakesFirst(q, sleeping) ==
  IF Staying(q) = {}
    THEN queue' = <<>> /\ asleep' = sleeping /\ UNCHANGED <<woken, missed>>
    ELSE LET at == Min(Staying(q))
             u == q[at]
         IN /\ queue' = SubSeq(q, at + 1, Len(q))
            /\ asleep' = [sleeping EXCEPT ![u] = FALSE]
            /\ woken' = woken \cup {u} /\ missed' = FALSE

NobodyWakes(q, sleeping) ==    \* mutant: the release wakes nobody
  queue' = q /\ asleep' = sleeping /\ UNCHANGED <<woken, missed>>
WakesNext(q, sleeping) == WakesFirst(q, sleeping)

(* pgsql_conn_release: the query is cancelled unless it is done, what is   *)
(* left of its results is drained.                                         *)
Released(u, sleeping) ==
  LET c == pconn[u] IN
  /\ job' = [job EXCEPT ![c] = None]
  /\ coming' = [coming EXCEPT ![c] = <<>>]
  /\ free' = Append(free, c)
  /\ pconn' = [pconn EXCEPT ![u] = None]
  /\ pstate' = [pstate EXCEPT ![u] = "complete"]
  /\ WakesNext(queue, sleeping)
  /\ UNCHANGED <<name, inerror, count>>

StaysQueued(u) == queue        \* mutant: no pgsql_queue_remove in the cleanup
LeavesQueue(u) == IF u \in Range(queue) THEN Without(u, queue) ELSE queue

(* kore_pgsql_cleanup: out of the queue, and the connection goes back.     *)
CleansUp(u) ==
  IF pconn[u] # None THEN Released(u, asleep)
  ELSE /\ queue' = LeavesQueue(u)
       /\ UNCHANGED <<pool, pconn, pstate, asleep, woken, missed>>
-----------------------------------------------------------------------------
(* The state machine of a request; it goes on until it returns.            *)

Waits == phase = "events" /\ running = None     \* in event_wait

(* A request comes, and its struct kore_pgsql is bound to it.              *)
Start(u) ==
  /\ Waits /\ fsm[u] = "none"
  /\ fsm' = [fsm EXCEPT ![u] = "init"]
  /\ UNCHANGED <<pool, pstate, pconn, queue, asleep, gone, running, pass, woken, missed>>

Exists(u) == fsm[u] \notin {"none", "ended"}
Awake(u)  == Exists(u) /\ ~asleep[u]

(* http_process comes to a request that is awake.                          *)
Run(u) ==
  /\ running = None /\ u \in todo /\ Awake(u) /\ ~gone[u]
  /\ running' = u
  /\ woken' = woken \ {u}
  /\ phase' = "ran" /\ todo' = todo \ {u}
  /\ UNCHANGED <<pool, pstate, pconn, queue, fsm, asleep, gone, heard, left, missed>>

(* Who is woken goes to the tail of http_requests, which this pass comes   *)
(* to unless it is at the last request: next is fetched before the request *)
(* runs.                                                                   *)
ThisPass(u) ==
  todo' = IF todo \ {u} = {} THEN {} ELSE (todo \ {u}) \cup (woken' \ woken)

FreeOf(d)     == {i \in DOMAIN free : name[free[i]] = d}
FirstFree(d)  == free[Min(FreeOf(d))]
Busy          == {c \in Conns : job[c] # None}
Connecting(u) == running = u /\ fsm[u] = "init"

(* pgsql_conn_next: a connection left in a failed transaction is rolled    *)
(* back, which releases it and wakes somebody, before it is looked at      *)
(* again; or it is closed when that fails.                                 *)
Rollback(u) ==
  /\ Connecting(u) /\ FreeOf(DbOf[u]) # {}
  /\ LET c == FirstFree(DbOf[u]) IN
     /\ inerror[c]
     /\ inerror' = [inerror EXCEPT ![c] = FALSE]
     /\ \/ /\ free' = Append(Without(c, free), c)
           /\ UNCHANGED <<name, count>>
        \/ /\ free' = Without(c, free)
           /\ name' = [name EXCEPT ![c] = None]
           /\ count' = [count EXCEPT ![DbOf[u]] = @ - 1]
  /\ WakesNext(queue, asleep)
  /\ UNCHANGED <<job, coming, pstate, pconn, fsm, gone, running>>

(* kore_pgsql_setup has the connection: pgsql_conn_next and the job.       *)
Takes(u, c) ==
  /\ job' = [job EXCEPT ![c] = u]
  /\ pconn' = [pconn EXCEPT ![u] = c]
  /\ fsm' = [fsm EXCEPT ![u] = "query"]
  /\ UNCHANGED <<coming, inerror, pstate, queue, asleep, gone, running, woken, missed>>

TakesFree(u) ==
  /\ Connecting(u) /\ FreeOf(DbOf[u]) # {} /\ ~inerror[FirstFree(DbOf[u])]
  /\ Takes(u, FirstFree(DbOf[u]))
  /\ free' = Without(FirstFree(DbOf[u]), free)
  /\ UNCHANGED <<name, count>>

(* kore_pgsql_setup returns an error.                                      *)
SetupFails(u) ==
  /\ pstate' = [pstate EXCEPT ![u] = "error"]
  /\ fsm' = [fsm EXCEPT ![u] = "error"]
  /\ UNCHANGED <<pool, pconn, queue, asleep, gone, running, woken>>

Unlimited(d) == TRUE             \* mutant: conn_max is not looked at
MayConnect(d) == count[d] < ConnMax

Unused == {c \in Conns : name[c] = None}      \* there is memory for a new one

(* pgsql_conn_create, which may fail: the server refuses.                  *)
Connects(u) ==
  /\ Connecting(u) /\ FreeOf(DbOf[u]) = {} /\ MayConnect(DbOf[u])
  /\ \/ /\ Unused # {}
        /\ LET c == CHOOSE c \in Unused : TRUE IN
             /\ Takes(u, c)
             /\ name' = [name EXCEPT ![c] = DbOf[u]]
        /\ UNCHANGED free
        /\ count' = [count EXCEPT ![DbOf[u]] = @ + 1]
     \/ SetupFails(u) /\ missed' = TRUE

(* pgsql_queue_add, and the state machine asks for a retry; or the queue   *)
(* is full.                                                                *)
Queues(u) ==
  /\ Connecting(u) /\ FreeOf(DbOf[u]) = {} /\ ~MayConnect(DbOf[u])
  /\ \/ /\ Len(queue) < QueueLimit
        /\ queue' = Append(queue, u)
        /\ asleep' = [asleep EXCEPT ![u] = TRUE]
        /\ running' = None
        /\ UNCHANGED <<pool, pstate, pconn, fsm, gone, woken, missed>>
     \/ Len(queue) >= QueueLimit /\ SetupFails(u) /\ UNCHANGED missed

(* kore_pgsql_query: pgsql_schedule and a retry, or PQsendQuery fails.     *)
Query(u) ==
  /\ running = u /\ fsm[u] = "query"
  /\ fsm' = [fsm EXCEPT ![u] = "wait"]
  /\ \/ /\ \E reply \in Answers : coming' = [coming EXCEPT ![pconn[u]] = reply]
        /\ pstate' = [pstate EXCEPT ![u] = "wait"]
        /\ asleep' = [asleep EXCEPT ![u] = TRUE]
        /\ running' = None
     \/ /\ pstate' = [pstate EXCEPT ![u] = "error"]
        /\ UNCHANGED <<coming, asleep, running>>
  /\ UNCHANGED <<name, job, inerror, free, count, pconn, queue, gone, woken, missed>>

SleepsOn(s) == TRUE      \* mutant: no http_request_wakeup
Sleeps(s)   == s = "wait"

(* kore_pgsql_handle without an error: PQconsumeInput fails, PQisBusy, or  *)
(* pgsql_read_result takes the next result.  The request sleeps if it has  *)
(* to wait and wakes if not.                                               *)
Handles(c) ==
  LET u == job[c]
      Gets(s) == /\ pstate' = [pstate EXCEPT ![u] = s]
                 /\ asleep' = [asleep EXCEPT ![u] = Sleeps(s)]
  IN
  /\ \/ Gets("error") /\ UNCHANGED <<coming, inerror>>
     \/ Gets("wait")  /\ UNCHANGED <<coming, inerror>>
     \/ coming[c] = <<>> /\ Gets("done") /\ UNCHANGED <<coming, inerror>>
     \/ /\ coming[c] # <<>>
        /\ coming' = [coming EXCEPT ![c] = Tail(@)]
        /\ Gets(CASE Head(coming[c]) = "tuples"  -> "result"
                  [] Head(coming[c]) = "command" -> "done"
                  [] Head(coming[c]) = "fatal"   -> "error")
        /\ \E failed \in IF Head(coming[c]) = "fatal" THEN BOOLEAN ELSE {FALSE} :
             inerror' = [inerror EXCEPT ![c] = @ \/ failed]
  /\ UNCHANGED <<name, job, free, count, pconn, queue, woken, missed>>

(* request_db_wait, and kore_pgsql_continue for a query that is done.      *)
Wait(u) ==
  /\ running = u /\ fsm[u] = "wait"
  /\ \/ /\ pstate[u] = "wait"
        /\ running' = None
        /\ UNCHANGED <<pool, pstate, pconn, queue, fsm, asleep, gone, woken, missed>>
     \/ /\ pstate[u] \in {"complete", "error", "result"}
        /\ fsm' = [fsm EXCEPT ![u] = IF pstate[u] = "result" THEN "read"
                                     ELSE IF pstate[u] = "error" THEN "error" ELSE "done"]
        /\ UNCHANGED <<pool, pstate, pconn, queue, asleep, gone, running, woken, missed>>
     \/ /\ pstate[u] = "done"
        /\ Released(u, asleep)
        /\ UNCHANGED <<fsm, gone, running>>

(* request_db_read: kore_pgsql_continue goes on to the next result.        *)
Read(u) ==
  /\ running = u /\ fsm[u] = "read"
  /\ fsm' = [fsm EXCEPT ![u] = "wait"]
  /\ Handles(pconn[u])
  /\ UNCHANGED <<gone, running>>

(* request_error and request_done answer, and the request is freed.        *)
Ends(u) ==
  /\ running = u /\ fsm[u] \in {"error", "done"}
  /\ CleansUp(u)
  /\ fsm' = [fsm EXCEPT ![u] = "ended"]
  /\ running' = None
  /\ UNCHANGED gone
-----------------------------------------------------------------------------
(* The worker's loop: event_wait, then http_process (worker.c:427, 462).   *)

BeginPass ==
  /\ Waits
  /\ phase' = "begun" /\ todo' = {u \in Users : Awake(u)} /\ heard' = {}
  /\ left' = {}
  /\ UNCHANGED <<pool, pstate, pconn, queue, fsm, asleep, gone, running, woken, missed>>

(* The list is done, or those that ran took http_request_ms.               *)
EndPass ==
  /\ phase # "events" /\ running = None
  /\ todo = {} \/ phase = "ran"
  /\ phase' = "events" /\ todo' = {} /\ left' = {u \in todo : pstate[u] = "result"}
  /\ UNCHANGED <<pool, pstate, pconn, queue, fsm, asleep, gone, running, heard, woken, missed>>

(* kore_pgsql_handle on an event, one of a connection in an event_wait.    *)
Event(c) ==
  /\ Waits /\ c \notin heard /\ job[c] # None
  /\ heard' = heard \cup {c}
  /\ Handles(c)
  /\ UNCHANGED <<fsm, gone, running, phase, todo, left>>

(* pgsql_conn_cleanup: the server closed the connection.                   *)
Lost(c) ==
  /\ Waits /\ c \notin heard /\ job[c] # None
  /\ trouble < MaxTrouble /\ trouble' = trouble + 1
  /\ heard' = heard \cup {c}
  /\ name' = [name EXCEPT ![c] = None]
  /\ count' = [count EXCEPT ![name[c]] = @ - 1]
  /\ asleep' = [asleep EXCEPT ![job[c]] = FALSE]
  /\ pstate' = [pstate EXCEPT ![job[c]] = "error"]
  /\ pconn' = [pconn EXCEPT ![job[c]] = None]
  /\ job' = [job EXCEPT ![c] = None]
  /\ coming' = [coming EXCEPT ![c] = <<>>]
  /\ inerror' = [inerror EXCEPT ![c] = FALSE]
  /\ missed' = TRUE
  /\ UNCHANGED <<free, queue, fsm, gone, running, phase, todo, left, woken>>

(* The client is gone: kore_connection_remove wakes its request, for       *)
(* http_process to free it.                                                *)
ClientGone(u) ==
  /\ Waits /\ Exists(u) /\ ~gone[u]
  /\ trouble < MaxTrouble /\ trouble' = trouble + 1
  /\ gone' = [gone EXCEPT ![u] = TRUE]
  /\ asleep' = [asleep EXCEPT ![u] = FALSE]
  /\ woken' = woken \ {u}
  /\ missed' = (missed \/ u \in woken)
  /\ UNCHANGED <<pool, pstate, pconn, queue, fsm, running, pass>>

(* http_process comes to one that is to be deleted: http_request_free.     *)
Freed(u) ==
  /\ running = None /\ u \in todo /\ gone[u] /\ ~asleep[u]
  /\ CleansUp(u)
  /\ fsm' = [fsm EXCEPT ![u] = "ended"]
  /\ gone' = [gone EXCEPT ![u] = FALSE]
  /\ UNCHANGED running

Works(u) ==
  \/ Run(u)
  \/ /\ \/ Rollback(u) \/ TakesFree(u) \/ Connects(u) \/ Queues(u)
        \/ Query(u) \/ Wait(u) \/ Read(u) \/ Ends(u) \/ Freed(u)
     /\ ThisPass(u) /\ UNCHANGED <<phase, heard, left>>

Worker == BeginPass \/ EndPass \/ \E u \in Users : Works(u)

Next ==
  \/ /\ \/ \E u \in Users : Start(u)
        \/ \E c \in Conns : Event(c)
        \/ Worker
     /\ UNCHANGED trouble
  \/ \E u \in Users : ClientGone(u)
  \/ \E c \in Conns : Lost(c)

(* The worker runs, and every query has an answer, in one of the worker's  *)
(* waits for events.                                                       *)
Answer(c) == Event(c) /\ ~asleep'[job[c]] /\ UNCHANGED trouble
Fairness ==
  /\ WF_vars(Worker /\ UNCHANGED trouble)
  /\ \A c \in Conns : SF_vars(Answer(c))

Spec == Init /\ [][Next]_vars /\ Fairness
-----------------------------------------------------------------------------
(* A connection belongs to the pool or to one request, never both, and the *)
(* count that limits new connections is right, however queries end         *)
(* (pgsql.c:461-500, 597-675).                                             *)
PoolIsRight ==
  /\ \A c \in Conns : \A u \in Users : job[c] = u <=> pconn[u] = c
  /\ \A c \in Conns :
       (IF c \in Range(free) THEN 1 ELSE 0) + (IF job[c] # None THEN 1 ELSE 0)
         = (IF name[c] # None THEN 1 ELSE 0)
  /\ Len(free) = Cardinality(Range(free))
  /\ \A d \in Dbs : count[d] = Cardinality({c \in Conns : name[c] = d}) /\ count[d] <= ConnMax
  /\ \A u \in Users : pconn[u] # None => name[pconn[u]] = DbOf[u]

(* A request that waits for a connection has somebody who will wake it,    *)
(* whatever the databases of those who wait: a connection in use, whose    *)
(* release wakes the first, or one that was woken and will take its        *)
(* connection.  Only when a connection or a woken request went (pgsql.c:   *)
(* 677, http.c:361) has nobody been told.                                  *)
SomebodyWakes == queue # <<>> => Busy # {} \/ woken # {} \/ running # None \/ missed

(* The entries of the queue are of requests that are there, once each.     *)
QueueIsRight ==
  /\ \A u \in Range(queue) : fsm[u] = "init" /\ pconn[u] = None /\ (asleep[u] \/ gone[u])
  /\ Len(queue) = Cardinality(Range(queue))

(* Database connections: each has one owner and counts once, a request     *)
(* that waits for one has somebody who wakes it, and is queued once        *)
(* (pgsql_conn_release, pgsql_queue_wakeup).                               *)
ConnectionsAreRight == PoolIsRight /\ SomebodyWakes /\ QueueIsRight

(* Rows that came are read before the next result replaces them (pgsql.c:  *)
(* 717, kore_pgsql_handle), but for those of a request that the pass before *)
(* the event left in the list because http_request_ms was over             *)
(* (http.c:268): these are lost.                                           *)
Replaced(u) ==
  pstate[u] = "result" /\ (pstate'[u] # "result" \/ coming'[pconn[u]] # coming[pconn[u]])
RowsAreRead ==
  [][\A u \in Users :
       Replaced(u) => fsm[u] = "read" \/ gone[u] \/ pconn'[u] = None \/ u \in left]_vars

(* A query that was sent ends, with its results, an error or without its   *)
(* client.                                                                 *)
EveryQueryEnds == \A u \in Users : pconn[u] # None ~> pconn[u] = None

(* Rows are read before the next result replaces them, and every query     *)
(* ends (kore_pgsql_handle, kore_pgsql_continue).                          *)
QueriesEnd == RowsAreRead /\ EveryQueryEnds
=============================================================================
