---------------------------- MODULE KoreRequests ---------------------------
(* One worker of Kore: its connections (connection.c, net.c), the HTTP     *)
(* requests on them (http.c), the websockets some become (websocket.c) and *)
(* the tasks that requests sleep for (tasks.c).  One thread goes round: it *)
(* handles the events of its sockets, processes the requests, and prunes   *)
(* the connections.  A client sends a request when the one before was      *)
(* answered; what it sends arrives in units, the head and parts of a body. *)
EXTENDS Integers, Sequences, FiniteSets, FiniteSetsExt, SequencesExt

CONSTANTS Conns,      \* the connections of the clients
          Reqs,       \* http_request_pool: http_request_limit of them
          None,
          Kinds,      \* what clients ask for, of Kind
          MaxAsked    \* bound: requests and frames of all connections

(* A GET; one that wants the connection closed; a POST whose body is one   *)
(* unit, or two; a head that is refused; a POST refused for its length; a  *)
(* websocket handshake.                                                    *)
Kind == {"get", "close", "post", "post_long", "bad", "too_long", "upgrade"}

RequestsAssumption ==
  /\ None \notin Conns \cup Reqs /\ Kinds \subseteq Kind
  /\ IsFiniteSet(Reqs) /\ Reqs # {} /\ MaxAsked \in Nat

VARIABLES
  state,   \* of the connection: CONN_STATE_*, "none" when it is not there
  rnb,     \* the callback of c->rnb; "held" when a request took its buffer
  extra,   \* c->rnb->extra: the request whose body comes
  flags,   \* c->flags, and c->proto
  out,     \* c->send_queue
  owner,   \* req->owner
  rflags,  \* req->flags
  left,    \* req->content_length while the body comes
  about,   \* the number and the kind of the request
  awake,   \* http_requests; the others are in http_requests_sleeping
  task,    \* the task bound to the request
  loop,    \* where the worker's loop is
  next,    \* the request http_process goes on with
  inbox,   \* what the client sent and the worker has not read
  asked,   \* requests and frames the client sent
  got      \* what the client received: numbers of requests, and frames

conns == <<state, rnb, extra, flags, out>>
reqs  == <<owner, rflags, left, about, awake>>
world == <<inbox, asked, got>>
vars  == <<conns, reqs, task, loop, next, world>>

Live(r)   == "live" \in rflags[r]
Asleep(r) == "asleep" \in rflags[r]
Of(c)     == {r \in Reqs : Live(r) /\ owner[r] = c}     \* c->http_requests
Body(k)   == IF k = "post_long" THEN 2 ELSE IF k = "post" THEN 1 ELSE 0

(* Answers are the numbers of their requests, from 1 on.                   *)
Frame      == 0
CloseFrame == -1

NoRequest == [n |-> 0, kind |-> "get"]

Init ==
  /\ state = [c \in Conns |-> "none"] /\ rnb = [c \in Conns |-> "none"]
  /\ extra = [c \in Conns |-> None]   /\ flags = [c \in Conns |-> {}]
  /\ out = [c \in Conns |-> <<>>]
  /\ owner = [r \in Reqs |-> None]    /\ rflags = [r \in Reqs |-> {}]
  /\ left = [r \in Reqs |-> 0]
  /\ about = [r \in Reqs |-> NoRequest]
  /\ awake = <<>>
  /\ task = [r \in Reqs |-> "none"]
  /\ loop = "events" /\ next = None
  /\ inbox = [c \in Conns |-> <<>>]
  /\ asked = [c \in Conns |-> 0] /\ got = [c \in Conns |-> <<>>]
-----------------------------------------------------------------------------
(* http_request_sleep and http_request_wakeup: the lists.                  *)

Wakes(rs)  == awake \o SetToSeq({r \in rs : Asleep(r)})
Place(r)   == CHOOSE i \in DOMAIN awake : awake[i] = r
Without(r) == RemoveAt(awake, Place(r))

(* What a connection is sent, and how it ends.                             *)

(* The closing frame of websocket_disconnect, the callback c->disconnect.  *)
Farewell(fs) ==
  IF "websocket" \in fs /\ "close_sent" \notin fs THEN <<CloseFrame>> ELSE <<>>

(* net_send_flush: the queue q goes, or stays when the socket is full.     *)
Flushed(c, q, goes) ==
  /\ got' = [got EXCEPT ![c] = IF goes THEN @ \o q ELSE @]
  /\ out' = [out EXCEPT ![c] = IF goes THEN <<>> ELSE q]

(* kore_connection_disconnect, once; prune removes the connection later,    *)
(* and what is still in the queue with it.                                 *)
Disconnected(c, q, fs) ==
  /\ state' = [state EXCEPT ![c] = "leaving"]
  /\ flags' = [flags EXCEPT ![c] = @ \cup fs \cup {"close_sent"}]
  /\ out' = [out EXCEPT ![c] = IF state[c] = "leaving" THEN q
                                 ELSE q \o Farewell(flags[c] \cup fs)]
  /\ UNCHANGED got

(* http_response_normal and the flush after it: CONN_CLOSE_EMPTY ends the  *)
(* connection once the queue is empty.                                     *)
Answers(c, n, fs) ==
  \E goes \in IF state[c] = "leaving" THEN {FALSE} ELSE BOOLEAN :
    LET ends == goes /\ "close" \in flags[c] \cup fs IN
    /\ Flushed(c, Append(out[c], n), goes)
    /\ flags' = [flags EXCEPT ![c] = @ \cup fs]
    /\ state' = [state EXCEPT ![c] = IF ends THEN "leaving" ELSE @]
-----------------------------------------------------------------------------
(* Events of a connection.                                                 *)

(* kore_connection_accept, for a client that connects.                     *)
Accept(c) ==
  /\ loop = "events" /\ state[c] = "none" /\ asked[c] = 0
  /\ state' = [state EXCEPT ![c] = "shake"]
  /\ flags' = [flags EXCEPT ![c] = {"idle"}]
  /\ UNCHANGED <<rnb, extra, out, reqs, task, loop, next, world>>

(* kore_connection_handle in CONN_STATE_TLS_SHAKE: SSL_accept waits for    *)
(* more with the idle timer stopped, fails, or is done.                    *)
Shakes(c) ==
  /\ loop = "events" /\ state[c] = "shake"
  /\ \/ /\ flags' = [flags EXCEPT ![c] = {}]
        /\ UNCHANGED <<state, rnb>>
     \/ /\ state' = [state EXCEPT ![c] = "leaving"]
        /\ UNCHANGED <<rnb, flags>>
     \/ /\ state' = [state EXCEPT ![c] = "open"]
        /\ rnb' = [rnb EXCEPT ![c] = "header"]
        /\ flags' = [flags EXCEPT ![c] = {"idle"}]
  /\ UNCHANGED <<extra, out, reqs, task, loop, next, world>>

Listens(c, callback) ==
  /\ loop = "events" /\ state[c] = "open" /\ rnb[c] = callback /\ inbox[c] # <<>>
Takes(c, n) == inbox' = [inbox EXCEPT ![c] = SubSeq(@, n + 1, Len(@))]

(* http_request_new at its end: the new request goes to the head.          *)
NewRequest(r, c, fs, units) ==
  /\ ~Live(r)
  /\ owner' = [owner EXCEPT ![r] = c]
  /\ rflags' = [rflags EXCEPT ![r] = {"live"} \cup fs]
  /\ left' = [left EXCEPT ![r] = units]
  /\ about' = [about EXCEPT ![r] = [n |-> asked[c], kind |-> Head(inbox[c])]]
  /\ awake' = IF "asleep" \in fs THEN awake ELSE <<r>> \o awake

Refused == {"bad", "too_long"}

(* http_header_recv of a head and what came with it.  Refused at once, or  *)
(* for want of a request; refused with a request that is deleted; complete;*)
(* or asleep until the rest of the body has come.                          *)
HeaderRecv(c) ==
  LET kind == Head(inbox[c])
      rest == Body(kind) - (Len(inbox[c]) - 1)
  IN
  /\ Listens(c, "header")
  /\ Takes(c, Len(inbox[c]))
  /\ \/ /\ kind = "bad" \/ \A r \in Reqs : Live(r)
        /\ Answers(c, asked[c], {"close"})
        /\ UNCHANGED <<rnb, extra, reqs>>
     \/ /\ kind = "too_long"
        /\ \E r \in Reqs : NewRequest(r, c, {"delete"}, 0)
        /\ Answers(c, asked[c], {"close"})
        /\ rnb' = [rnb EXCEPT ![c] = "held"]
        /\ UNCHANGED extra
     \/ /\ kind \notin Refused /\ rest = 0
        /\ \E r \in Reqs : NewRequest(r, c, {"complete"}, 0)
        /\ rnb' = [rnb EXCEPT ![c] = "held"]
        /\ UNCHANGED <<state, extra, flags, out, got>>
     \/ /\ kind \notin Refused /\ rest > 0
        /\ \E r \in Reqs :
             /\ NewRequest(r, c, {"asleep"}, rest)
             /\ extra' = [extra EXCEPT ![c] = r]
        /\ rnb' = [rnb EXCEPT ![c] = "body"]
        /\ UNCHANGED <<state, flags, out, got>>
  /\ UNCHANGED <<task, loop, next, asked>>

(* http_body_recv: a unit of the body; at the last one the request wakes,  *)
(* and the connection listens for a head; a failure ends the connection.   *)
BodyRecv(c) ==
  LET r == extra[c] IN
  /\ Listens(c, "body")
  /\ Takes(c, 1)
  /\ left' = [left EXCEPT ![r] = @ - 1]
  /\ \/ /\ left[r] > 1
        /\ UNCHANGED <<rnb, extra, rflags, awake, state, flags, out, got>>
     \/ /\ left[r] = 1
        /\ extra' = [extra EXCEPT ![c] = None]
        /\ rflags' = [rflags EXCEPT ![r] = (@ \ {"asleep"}) \cup {"complete"}]
        /\ awake' = Wakes({r})
        /\ rnb' = [rnb EXCEPT ![c] = "header"]
        /\ UNCHANGED <<state, flags, out, got>>
     \/ /\ rflags' = [rflags EXCEPT ![r] = @ \cup {"delete"}]      \* write() failed
        /\ Disconnected(c, Append(out[c], about[r].n), {"close"})
        /\ UNCHANGED <<rnb, extra, awake>>
  /\ UNCHANGED <<owner, about, task, loop, next, asked>>

Unsaid == {}                     \* mutant: CONN_WS_CLOSE_SENT is not set
Said   == {"close_sent"}

(* websocket_recv_opcode and websocket_recv_frame: a message, which the    *)
(* handler broadcasts to the others, or a closing frame, which is answered *)
(* with one.                                                               *)
FrameRecv(c) ==
  /\ Listens(c, "frame")
  /\ Takes(c, 1)
  /\ \/ /\ Head(inbox[c]) = "message"
        /\ out' = [d \in Conns |->
             IF d # c /\ "websocket" \in flags[d] /\ state[d] # "leaving"
               THEN Append(out[d], Frame) ELSE out[d]]
        /\ UNCHANGED <<state, flags, got>>
     \/ /\ Head(inbox[c]) = "bye"
        /\ Disconnected(c, out[c] \o Farewell(flags[c]), Said)
  /\ UNCHANGED <<rnb, extra, reqs, task, loop, next, asked>>

(* EPOLLOUT: what is left of the queue goes, and the connection with it    *)
(* when CONN_CLOSE_EMPTY is set.                                           *)
Writable(c) ==
  /\ loop = "events" /\ state[c] = "open" /\ out[c] # <<>>
  /\ Flushed(c, out[c], TRUE)
  /\ state' = [state EXCEPT ![c] = IF "close" \in flags[c] THEN "leaving" ELSE @]
  /\ UNCHANGED <<rnb, extra, flags, reqs, task, loop, next, inbox, asked>>

(* EPOLLRDHUP, an error, or a read of nothing: the client is gone.         *)
HangUp(c) ==
  /\ loop = "events" /\ state[c] \in {"shake", "open"}
  /\ Disconnected(c, out[c], {})
  /\ UNCHANGED <<rnb, extra, reqs, task, loop, next, inbox, asked>>
-----------------------------------------------------------------------------
(* http_process.                                                           *)

Ready(c) == \E callback \in {"header", "body", "frame"} : Listens(c, callback)

(* epoll_wait has reported every socket there is something to read from.   *)
BeginPass ==
  /\ loop = "events" /\ \A c \in Conns : ~Ready(c)
  /\ loop' = "process"
  /\ next' = IF awake = <<>> THEN None ELSE Head(awake)
  /\ UNCHANGED <<conns, reqs, task, world>>

(* TAILQ_NEXT, taken before the request is processed; or the end of the    *)
(* pass, when the requests took more than http_request_ms.                 *)
Following(r) ==
  IF Place(r) = Len(awake) THEN None ELSE awake[Place(r) + 1]
GoesOn(r) == next' \in {Following(r), None}

StaysHeld(kind) == "held"      \* mutant: no net_recv_reset in http_response_normal
Resumes(kind)   == IF kind = "upgrade" THEN "frame" ELSE "header"

(* The request's page handler, or its authenticator, answers ...           *)
HandlerAnswers(r, c) ==
  LET kind == about[r].kind IN
  /\ Answers(c, about[r].n, IF kind = "close" THEN {"close"}
                            ELSE IF kind = "upgrade" THEN {"websocket"} ELSE {})
  /\ rnb' = [rnb EXCEPT ![c] = IF "close" \in flags'[c] THEN @ ELSE Resumes(kind)]
  /\ rflags' = [rflags EXCEPT ![r] = @ \cup {"delete"}]
  /\ UNCHANGED <<awake, task>>

(* ... returns KORE_RESULT_ERROR ...                                       *)
HandlerFails(r, c) ==
  /\ Disconnected(c, out[c], {})
  /\ rflags' = [rflags EXCEPT ![r] = @ \cup {"delete"}]
  /\ UNCHANGED <<rnb, awake, task>>

(* ... or KORE_RESULT_RETRY, once it has started a task and put the        *)
(* request to sleep (kore_task_bind_request, kore_task_run).               *)
HandlerWaits(r) ==
  /\ task[r] = "none"
  /\ task' = [task EXCEPT ![r] = "running"]
  /\ rflags' = [rflags EXCEPT ![r] = @ \cup {"asleep"}]
  /\ awake' = Without(r)
  /\ UNCHANGED <<state, rnb, flags, out, got>>

(* http_process_request; the request stays on the list until a later pass. *)
HandleRequest ==
  /\ loop = "process" /\ next # None
  /\ {"complete", "delete"} \cap rflags[next] = {"complete"}
  /\ GoesOn(next)
  /\ \/ HandlerAnswers(next, owner[next]) \/ HandlerFails(next, owner[next])
     \/ HandlerWaits(next)
  /\ UNCHANGED <<extra, owner, left, about, loop, inbox, asked>>

NoTaskPending(r) == TRUE         \* mutant: pending tasks are not counted
TasksDone(r)     == task[r] # "running"

(* http_request_free, which gives up when tasks of the request still run;  *)
(* and a request whose body is not there yet.                              *)
FreeRequest ==
  /\ loop = "process" /\ next # None
  /\ {"complete", "delete"} \cap rflags[next] # {"complete"}
  /\ GoesOn(next)
  /\ IF "delete" \in rflags[next] /\ TasksDone(next)
       THEN /\ rflags' = [rflags EXCEPT ![next] = {}]
            /\ owner' = [owner EXCEPT ![next] = None]
            /\ awake' = Without(next)
            /\ task' = [task EXCEPT ![next] = IF @ = "running" THEN @ ELSE "none"]
            /\ left' = [left EXCEPT ![next] = 0]
            /\ about' = [about EXCEPT ![next] = NoRequest]
       ELSE UNCHANGED <<rflags, owner, awake, task, left, about>>
  /\ UNCHANGED <<conns, loop, world>>

(* The prune is due every half second.                                     *)
EndPass ==
  /\ loop = "process" /\ next = None
  /\ loop' \in {"prune", "events"}
  /\ UNCHANGED <<conns, reqs, task, next, world>>
-----------------------------------------------------------------------------
(* kore_connection_check_timeout and kore_connection_prune.                *)

MayExpire(c)  == "idle" \in flags[c] /\ Of(c) = {}

Expires(c) ==
  /\ loop = "prune" /\ state[c] \in {"shake", "open"} /\ MayExpire(c)
  /\ Disconnected(c, out[c], {})
  /\ UNCHANGED <<rnb, extra, reqs, task, loop, next, inbox, asked>>

LeavesAsleep(rs) == awake     \* mutant: the requests are not woken
WakesAll(rs)     == Wakes(rs)

(* kore_connection_remove: its requests are to be deleted.                 *)
Removed(c) ==
  /\ loop = "prune" /\ state[c] = "leaving"
  /\ owner' = [r \in Reqs |-> IF r \in Of(c) THEN None ELSE owner[r]]
  /\ awake' = WakesAll(Of(c))
  /\ rflags' = [r \in Reqs |->
       IF r \in Of(c) THEN (rflags[r] \ {"asleep"}) \cup {"delete"} ELSE rflags[r]]
  /\ state' = [state EXCEPT ![c] = "none"]
  /\ rnb' = [rnb EXCEPT ![c] = "none"]
  /\ extra' = [extra EXCEPT ![c] = None]
  /\ flags' = [flags EXCEPT ![c] = {}]
  /\ out' = [out EXCEPT ![c] = <<>>]
  /\ inbox' = [inbox EXCEPT ![c] = <<>>] /\ got' = [got EXCEPT ![c] = <<>>]
  /\ UNCHANGED <<left, about, task, loop, next, asked>>

EndPrune ==
  /\ loop = "prune" /\ \A c \in Conns : state[c] # "leaving"
  /\ loop' = "events"
  /\ UNCHANGED <<conns, reqs, task, next, world>>
-----------------------------------------------------------------------------
(* The tasks and the clients.                                              *)

(* The thread is done and has closed its end (task_thread); the loop finds *)
(* the other end closed (kore_task_handle) and the request wakes.          *)
TaskHandled(r) ==
  /\ loop = "events" /\ task[r] = "running"
  /\ task' = [task EXCEPT ![r] = "finished"]
  /\ awake' = Wakes({r})
  /\ rflags' = [rflags EXCEPT ![r] = @ \ {"asleep"}]
  /\ UNCHANGED <<conns, owner, left, about, loop, next, world>>

Allowed == MapThenSumSet(LAMBDA c : asked[c], Conns) < MaxAsked

(* A client that has its answer, or has none to wait for, asks again.      *)
Asks(c, kind) ==
  /\ state[c] = "open" /\ "close" \notin flags[c] /\ "websocket" \notin flags[c]
  /\ Allowed /\ Len(got[c]) = asked[c] /\ inbox[c] = <<>>
  /\ asked' = [asked EXCEPT ![c] = @ + 1]
  /\ \E with \in 0..Body(kind) :
       inbox' = [inbox EXCEPT ![c] = <<kind>> \o [i \in 1..with |-> "body"]]
  /\ UNCHANGED <<conns, reqs, task, loop, next, got>>

SendsBody(c) ==
  /\ state[c] = "open" /\ rnb[c] = "body" /\ Len(inbox[c]) < left[extra[c]]
  /\ inbox' = [inbox EXCEPT ![c] = Append(@, "body")]
  /\ UNCHANGED <<conns, reqs, task, loop, next, asked, got>>

SendsFrame(c, f) ==
  /\ state[c] = "open" /\ "websocket" \in flags[c] /\ Allowed
  /\ asked' = [asked EXCEPT ![c] = @ + 1]
  /\ inbox' = [inbox EXCEPT ![c] = Append(@, f)]
  /\ UNCHANGED <<conns, reqs, task, loop, next, got>>

Reads(c) == HeaderRecv(c) \/ BodyRecv(c) \/ FrameRecv(c)
LoopStep ==
  \/ BeginPass \/ HandleRequest \/ FreeRequest \/ EndPass \/ EndPrune
  \/ \E c \in Conns : Reads(c) \/ Removed(c)

Next ==
  \/ LoopStep
  \/ \E c \in Conns :
       \/ Accept(c) \/ Shakes(c) \/ Writable(c) \/ HangUp(c) \/ Expires(c)
       \/ SendsBody(c)
       \/ \E kind \in Kinds : Asks(c, kind)
       \/ \E f \in {"message", "bye"} : SendsFrame(c, f)
  \/ \E r \in Reqs : TaskHandled(r)

(* The loop goes round and its prune is due again and again, tasks end,    *)
(* and clients read what they are sent and send the bodies they announced. *)
Fairness ==
  /\ WF_vars(LoopStep)
  /\ SF_vars(EndPass /\ loop' = "prune")
  /\ SF_vars(\E r \in Reqs : TaskHandled(r))
  /\ SF_vars(\E c \in Conns : Writable(c))
  /\ \A c \in Conns : WF_vars(SendsBody(c))

Spec == Init /\ [][Next]_vars /\ Fairness
-----------------------------------------------------------------------------
(* Nothing refers to what was freed: the owner of a request is there, or   *)
(* it is NULL and the request is to be deleted; the request whose body is  *)
(* received is its connection's and waits; http_process goes on with a     *)
(* request of its list; a task that runs has its request.                  *)
NothingDangles ==
  /\ \A r \in Reqs : Live(r) =>
       \/ owner[r] \in Conns /\ state[owner[r]] \in {"open", "leaving"}
       \/ owner[r] = None /\ "delete" \in rflags[r] /\ ~Asleep(r)
  /\ \A c \in Conns : extra[c] # None => extra[c] \in Of(c) /\ Asleep(extra[c])
  /\ next # None => \E i \in DOMAIN awake : awake[i] = next
  /\ \A r \in Reqs : task[r] = "running" => Live(r)

(* A client gets one answer to each request, in the order it sent them and *)
(* before any frame, and one closing frame at most, whatever failed on the *)
(* way.                                                                    *)
OneAnswerEach ==
  \A c \in Conns :
    LET all == got[c] \o out[c]
    IN /\ \A i \in DOMAIN all : all[i] > 0 => \A j \in 1..i : all[j] = j
       /\ \A i, j \in DOMAIN all : all[i] = CloseFrame /\ all[j] = CloseFrame => i = j

(* Requests: nothing refers to a connection or a request that was freed,   *)
(* and a client gets one answer to each, in order (http_request_free,      *)
(* kore_connection_remove, http_response_normal).                          *)
RequestsAreRight == NothingDangles /\ OneAnswerEach

(* Every request is freed in the end, those whose connection was removed   *)
(* while they slept for a body or a task too.                              *)
RequestsAreFreed == \A r \in Reqs : []<>(~Live(r))

(* A client that asked and has no answer.  It asks again when it has.      *)
Unanswered(c) ==
  /\ asked[c] > 0 /\ state[c] # "none" /\ "websocket" \notin flags[c]
  /\ \A i \in DOMAIN got[c] : got[c][i] # asked[c]

(* A client that asked has its answer in the end, or its connection ends.  *)
Answered == \A c \in Conns : []<>(~Unanswered(c))

(* Every request is freed and every client has its answer in the end, or   *)
(* its connection is gone (http_process, kore_connection_prune).           *)
RequestsEnd == RequestsAreFreed /\ Answered
=============================================================================
