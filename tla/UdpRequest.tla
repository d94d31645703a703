----------------------------- MODULE UdpRequest -----------------------------
(* sock_clie_udp asks, sock_serv_udp_ascii answers, over UDP.  Clients on  *)
(* one host use one local port, one after the other, so an answer that     *)
(* comes late finds the next client there.                                 *)
EXTENDS Integers, Sequences

CONSTANTS
  Client,      \* runs of the client program
  seconds,     \* seconds[c]: what c's last argument says, 0 if nothing
  Says,        \* the clients with data to send; the others send no bytes
  None,        \* no answer
  QueueLimit   \* bound: datagrams the client's socket holds

ASSUME UdpAssumption ==
  /\ seconds \in [Client -> Nat]
  /\ Says \subseteq Client
  /\ None \notin Client
  /\ QueueLimit \in Nat

VARIABLES
  pc,          \* where each run of the client is
  left,        \* the seconds get_answer has left
  got,         \* whose request the answer that was printed answers
  queue,       \* what the socket bound to the port has received
  use_answer,  \* the server's mode: none, OK or loopback
  server,      \* "up", "down"
  clilen,      \* the server's clilen was set, by the first recvfrom
  net,         \* datagrams on their way
  copied       \* history: the clients of whose datagrams a copy was made

vars == <<pc, left, got, queue, use_answer, server, clilen, net, copied>>

Datagram == [to : {"server", "client"}, of : Client, empty : BOOLEAN]
Modes == {"none", "OK", "loopback"}

Init ==
  /\ pc = [c \in Client |-> "new"]
  /\ left = [c \in Client |-> 0]
  /\ got = [c \in Client |-> None]
  /\ queue = <<>>
  /\ use_answer \in Modes
  /\ server = "up" /\ clilen = FALSE
  /\ net = {} /\ copied = {}
-----------------------------------------------------------------------------
(* The client.  Its socket lives as long as the program: who leaves frees  *)
(* the port and drops what the socket has received.                        *)

HasPort(c) == pc[c] \in {"bound", "recv", "sleep"}

PortFree == \A c \in Client : ~HasPort(c)

BindShares == TRUE    \* mutant: a port in use may be bound again
BindWorks == PortFree

Goes(c, to) ==
  /\ pc' = [pc EXCEPT ![c] = to]
  /\ queue' = IF to = "done" /\ HasPort(c) THEN <<>> ELSE queue

Bind(c) ==
  /\ pc[c] = "new"
  /\ Goes(c, IF BindWorks THEN "bound" ELSE "done")
  /\ UNCHANGED <<left, got, use_answer, server, clilen, net, copied>>

Waits(c) == seconds[c] > 0 /\ seconds[c] < 100

Send(c) ==
  /\ pc[c] = "bound"
  /\ \/ /\ net' = net \union {[to |-> "server", of |-> c,
                               empty |-> c \notin Says]}
        /\ left' = [left EXCEPT ![c] = seconds[c]]
        /\ Goes(c, IF Waits(c) THEN "recv" ELSE "done")
     \/ Goes(c, "done") /\ UNCHANGED <<net, left>>    \* sendto failed
  /\ UNCHANGED <<got, use_answer, server, clilen, copied>>

(* recv gives 0 for an empty datagram, as if none had been there.          *)
Recv(c) ==
  /\ pc[c] = "recv"
  /\ \/ /\ queue # <<>> /\ ~Head(queue).empty
        /\ got' = [got EXCEPT ![c] = Head(queue).of]
        /\ left' = [left EXCEPT ![c] = 0]
        /\ Goes(c, "done")
     \/ /\ queue # <<>> => Head(queue).empty
        /\ queue' = IF queue = <<>> THEN queue ELSE Tail(queue)
        /\ pc' = [pc EXCEPT ![c] = "sleep"]
        /\ UNCHANGED <<got, left>>
  /\ UNCHANGED <<use_answer, server, clilen, net, copied>>

Stuck(s) == s         \* mutant: the seconds are not counted
Counted(s) == s - 1
Overrun(s) == s < 0   \* mutant: one second too many
Over(s) == s = 0

Sleep(c) ==
  /\ pc[c] = "sleep"
  /\ left' = [left EXCEPT ![c] = Counted(left[c])]
  /\ Goes(c, IF Over(left'[c]) THEN "done" ELSE "recv")
  /\ UNCHANGED <<got, use_answer, server, clilen, net, copied>>
-----------------------------------------------------------------------------
(* The network takes a datagram out, or leaves a copy in.                  *)
Taken(d, new) ==
  \/ net' = (net \ {d}) \union new /\ UNCHANGED copied
  \/ net' = net \union new /\ copied' = copied \union {d.of}

Reply(d) ==
  [to |-> "client", of |-> d.of, empty |-> use_answer = "loopback" /\ d.empty]

Replies(d) == IF use_answer = "none" THEN {} ELSE {Reply(d)}

(* clilen is not initialised: the first recvfrom may fail, or leave out    *)
(* the address (the answer goes astray), or work; it sets clilen.          *)
Serve ==
  /\ server = "up"
  /\ \E d \in net :
       /\ d.to = "server"
       /\ \/ Taken(d, Replies(d)) /\ clilen' = TRUE /\ UNCHANGED server
          \/ ~clilen /\ Taken(d, {}) /\ clilen' = TRUE /\ UNCHANGED server
          \/ ~clilen /\ Taken(d, {}) /\ server' = "down" /\ UNCHANGED clilen
  /\ UNCHANGED <<pc, left, got, queue, use_answer>>

Deliver ==
  /\ \E d \in net :
       /\ d.to = "client"
       /\ Taken(d, {})
       /\ queue' = IF PortFree \/ Len(queue) = QueueLimit
                     THEN queue ELSE Append(queue, d)
  /\ UNCHANGED <<pc, left, got, use_answer, server, clilen>>

Lose ==
  /\ \E d \in net : net' = net \ {d}
  /\ UNCHANGED <<pc, left, got, queue, use_answer, server, clilen, copied>>

Run(c) == Bind(c) \/ Send(c) \/ Recv(c) \/ Sleep(c)

Next == (\E c \in Client : Run(c)) \/ Serve \/ Deliver \/ Lose

Spec == Init /\ [][Next]_vars

(* The kernel schedules a client that runs; nobody has to start one.       *)
FairSpec == Spec /\ \A c \in Client : WF_vars(Send(c) \/ Recv(c) \/ Sleep(c))
-----------------------------------------------------------------------------
(* What is on its way, in the socket and counted down is well typed, and   *)
(* no client counts below zero (sock_clie_udp/pru.c:316-342).              *)
TypeOK ==
  /\ pc \in [Client -> {"new", "bound", "recv", "sleep", "done"}]
  /\ left \in [Client -> Nat]
  /\ got \in [Client -> Client \union {None}]
  /\ queue \in Seq(Datagram) /\ Len(queue) <= QueueLimit
  /\ use_answer \in Modes
  /\ server \in {"up", "down"} /\ clilen \in BOOLEAN
  /\ net \subseteq Datagram /\ copied \subseteq Client

(* A client prints the answer to its own request, or to that of a client   *)
(* which has left: and that one left without it, unless the network made a *)
(* copy.  Never is the answer another waiting client needs taken from it   *)
(* (sock_clie_udp/pru.c:102-112, 316-333).                                 *)
OwnOrAbandoned ==
  \A c \in Client : LET x == got[c] IN
    x \in Client \ {c} => pc[x] = "done" /\ (x \in copied \/ got[x] # x)

(* Every run of the client ends, whatever the network and the server do    *)
(* (sock_clie_udp/pru.c:310-344).                                          *)
ClientsEnd == \A c \in Client : pc[c] = "bound" ~> pc[c] = "done"
=============================================================================
