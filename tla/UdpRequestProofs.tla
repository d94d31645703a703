-------------------------- MODULE UdpRequestProofs --------------------------
(* For any number of clients, any waits and any queue: an answer that a    *)
(* client prints is its own or was abandoned.                              *)
EXTENDS UdpRequest, TLAPS

(* One socket at a time is bound to the port (pru.c:107-112).              *)
OnePort == \A c, e \in Client : HasPort(c) /\ HasPort(e) => c = e

(* Datagrams belong to clients that have sent, and a client that has an    *)
(* answer printed it and left.                                             *)
Asked(x) == pc[x] \in {"recv", "sleep", "done"}
Sent ==
  /\ \A d \in net : Asked(d.of)
  /\ \A i \in DOMAIN queue : Asked(queue[i].of)

(* Without copies there is one datagram per request, the request itself or *)
(* its answer, in one place: on its way, in the socket, or printed.        *)
OnceOnTheWay ==
  /\ \A d, e \in net : d.of = e.of /\ d # e => d.of \in copied
  /\ \A d \in net, i \in DOMAIN queue : d.of = queue[i].of => d.of \in copied
  /\ \A d \in net, c \in Client : got[c] = d.of => d.of \in copied
OnceInSocket ==
  /\ \A i, j \in DOMAIN queue :
        queue[i].of = queue[j].of /\ i # j => queue[i].of \in copied
  /\ \A i \in DOMAIN queue, c \in Client :
        got[c] = queue[i].of => queue[i].of \in copied

(* Only a client that has left has an answer (pru.c:333).                  *)
Printed == \A c \in Client : got[c] # None => pc[c] = "done"

UdpInv ==
  /\ TypeOK /\ OnePort /\ Sent /\ Printed
  /\ OnceOnTheWay /\ OnceInSocket
  /\ OwnOrAbandoned

LEMMA InitHolds == Init => UdpInv
<1> SUFFICES ASSUME Init PROVE UdpInv
  OBVIOUS
<1>1. /\ pc \in [Client -> {"new", "bound", "recv", "sleep", "done"}]
      /\ left \in [Client -> Nat]
      /\ got \in [Client -> Client \union {None}]
      /\ use_answer \in Modes
      /\ server \in {"up", "down"}
      /\ net \subseteq Datagram /\ copied \subseteq Client
  BY DEF Init
<1>2. queue \in Seq(Datagram) /\ Len(queue) <= QueueLimit
  BY UdpAssumption DEF Init
<1>3. clilen \in BOOLEAN
  BY Zenon DEF Init
<1>4. DOMAIN queue = {} /\ net = {}
  BY DEF Init
<1>5. \A c \in Client : got[c] = None /\ ~HasPort(c)
  BY DEF Init, HasPort
<1> QED BY <1>1, <1>2, <1>3, <1>4, <1>5, UdpAssumption
        DEF UdpInv, TypeOK, OnePort, Sent, Printed, OnceOnTheWay,
            OnceInSocket, OwnOrAbandoned

(* What is in the socket came from a client (main.c:123-125).              *)
LEMMA QueueTyped ==
  ASSUME TypeOK
  PROVE  \A i \in DOMAIN queue : queue[i] \in Datagram /\ queue[i].of \in Client
<1>1. DOMAIN queue = 1..Len(queue)
  BY DEF TypeOK
<1>2. \A i \in 1..Len(queue) : queue[i] \in Datagram
  BY DEF TypeOK
<1>3. \A d \in Datagram : d.of \in Client
  BY DEF Datagram
<1> QED BY <1>1, <1>2, <1>3

LEMMA HeadTyped ==
  ASSUME TypeOK, queue # <<>>
  PROVE  /\ 1 \in DOMAIN queue /\ Head(queue) = queue[1]
         /\ Head(queue).of \in Client
<1>1. 1 \in DOMAIN queue /\ Head(queue) = queue[1]
  BY DEF TypeOK
<1> QED BY <1>1, QueueTyped

(* A step of the client that neither sends nor prints keeps what is in its *)
(* socket, but for the oldest datagrams, or all (pru.c:102-112, 318-342).  *)
LEMMA Stays ==
  ASSUME UdpInv, TypeOK', NEW c \in Client,
         pc' = [pc EXCEPT ![c] = pc'[c]],
         pc[c] = "done" => pc'[c] = "done",
         Asked(c) => Asked(c)',
         pc'[c] \in {"bound", "recv", "sleep"} => HasPort(c) \/ PortFree,
         NEW k \in Nat,
         \A i \in DOMAIN queue' :
            i + k \in DOMAIN queue /\ queue'[i] = queue[i + k],
         UNCHANGED <<got, net, copied>>
  PROVE  UdpInv'
<1>1. \A x \in Client : x # c => pc'[x] = pc[x]
  BY DEF UdpInv, TypeOK
<1>2. OnePort'
  BY <1>1 DEF UdpInv, OnePort, HasPort, PortFree
<1>3. \A x \in Client : Asked(x) => Asked(x)'
  BY <1>1 DEF Asked
<1>4. \A i, j \in DOMAIN queue' : i # j => i + k # j + k
  BY DEF TypeOK
<1>5. \A d \in net : d.of \in Client
  BY DEF UdpInv, TypeOK, Datagram
<1>6. \A i \in DOMAIN queue : queue[i].of \in Client
  BY QueueTyped DEF UdpInv
<1>7. Sent'
  BY <1>3, <1>5, <1>6 DEF UdpInv, Sent, Asked
<1>8. OnceOnTheWay'
  BY DEF UdpInv, OnceOnTheWay
<1>9. OnceInSocket'
  BY <1>4 DEF UdpInv, OnceInSocket
<1>10. OwnOrAbandoned' /\ Printed'
  BY <1>1 DEF UdpInv, OwnOrAbandoned, Printed
<1> QED BY <1>2, <1>7, <1>8, <1>9, <1>10 DEF UdpInv

-----------------------------------------------------------------------------
(* get_answer counts down while there is something left (pru.c:316).       *)
Counting == \A c \in Client : pc[c] \in {"recv", "sleep"} => left[c] > 0

LEMMA GoesTyped ==
  ASSUME TypeOK, NEW c \in Client,
         NEW to \in {"bound", "recv", "sleep", "done"}, Goes(c, to)
  PROVE  /\ pc' \in [Client -> {"new", "bound", "recv", "sleep", "done"}]
         /\ queue' \in Seq(Datagram) /\ Len(queue') <= QueueLimit
<1>1. pc' \in [Client -> {"new", "bound", "recv", "sleep", "done"}]
  BY DEF Goes, TypeOK
<1>2. <<>> \in Seq(Datagram) /\ Len(<<>>) <= QueueLimit
  BY UdpAssumption
<1>3. queue' = queue \/ queue' = <<>>
  BY DEF Goes
<1>4. queue \in Seq(Datagram) /\ Len(queue) <= QueueLimit
  BY DEF TypeOK
<1> QED BY <1>1, <1>2, <1>3, <1>4

LEMMA TakenTyped ==
  ASSUME TypeOK, NEW d \in net, NEW new, new \subseteq Datagram, Taken(d, new)
  PROVE  net' \subseteq Datagram /\ copied' \subseteq Client
<1>1. d \in Datagram /\ d.of \in Client
  BY DEF TypeOK, Datagram
<1> QED BY <1>1 DEF Taken, TypeOK

LEMMA RepliesTyped ==
  ASSUME TypeOK, NEW d \in net
  PROVE  Replies(d) \subseteq Datagram
<1>1. d.of \in Client /\ d.empty \in BOOLEAN
  BY DEF TypeOK, Datagram
<1>2. Reply(d).empty \in BOOLEAN
  BY <1>1, Zenon DEF Reply
<1>3. Reply(d) \in Datagram
  BY <1>1, <1>2 DEF Reply, Datagram
<1> QED BY <1>3 DEF Replies

LEMMA TypeStep == TypeOK /\ Counting /\ [Next]_vars => TypeOK' /\ Counting'
<1> SUFFICES ASSUME TypeOK, Counting, [Next]_vars PROVE TypeOK' /\ Counting'
  OBVIOUS
<1>1. ASSUME NEW c \in Client, Bind(c) PROVE TypeOK' /\ Counting'
  <2>1. /\ pc' \in [Client -> {"new", "bound", "recv", "sleep", "done"}]
        /\ queue' \in Seq(Datagram) /\ Len(queue') <= QueueLimit
    BY <1>1, GoesTyped DEF Bind
  <2>2. TypeOK'
    BY <1>1, <2>1 DEF TypeOK, Bind
  <2>3. Counting'
    BY <1>1 DEF TypeOK, Bind, Goes, Counting
  <2> QED BY <2>2, <2>3
<1>2. ASSUME NEW c \in Client, Send(c) PROVE TypeOK' /\ Counting'
  <2>1. /\ pc' \in [Client -> {"new", "bound", "recv", "sleep", "done"}]
        /\ queue' \in Seq(Datagram) /\ Len(queue') <= QueueLimit
    BY <1>2, GoesTyped DEF Send
  <2>2. ASSUME NEW e \in BOOLEAN
        PROVE  [to |-> "server", of |-> c, empty |-> e] \in Datagram
    BY DEF Datagram
  <2>3. net' \subseteq Datagram
    <3> DEFINE e == c \notin Says
    <3>1. e \in BOOLEAN
      BY Zenon
    <3>2. /\ net \subseteq Datagram
          /\ \/ net' = net \union {[to |-> "server", of |-> c, empty |-> e]}
             \/ net' = net
      BY <1>2 DEF Send, TypeOK
    <3> HIDE DEF e
    <3> QED BY <2>2, <3>1, <3>2
  <2>4. left' \in [Client -> Nat]
    BY <1>2, UdpAssumption DEF Send, TypeOK
  <2>5. TypeOK'
    BY <1>2, <2>1, <2>3, <2>4 DEF TypeOK, Send
  <2>6. Counting'
    BY <1>2 DEF TypeOK, Send, Goes, Counting, Waits
  <2> QED BY <2>5, <2>6
<1>3. ASSUME NEW c \in Client, Recv(c) PROVE TypeOK' /\ Counting'
  <2>1. CASE queue # <<>> /\ ~Head(queue).empty /\ Goes(c, "done")
             /\ got' = [got EXCEPT ![c] = Head(queue).of]
             /\ left' = [left EXCEPT ![c] = 0]
    <3>1. /\ pc' \in [Client -> {"new", "bound", "recv", "sleep", "done"}]
          /\ queue' \in Seq(Datagram) /\ Len(queue') <= QueueLimit
      BY <2>1, GoesTyped
    <3>2. Head(queue).of \in Client
      BY <2>1, HeadTyped
    <3>3. got' \in [Client -> Client \union {None}] /\ left' \in [Client -> Nat]
      BY <2>1, <3>2 DEF TypeOK
    <3>4. TypeOK'
      BY <1>3, <3>1, <3>3 DEF TypeOK, Recv
    <3>5. Counting'
      BY <2>1 DEF TypeOK, Goes, Counting
    <3> QED BY <3>4, <3>5
  <2>2. CASE /\ queue' = IF queue = <<>> THEN queue ELSE Tail(queue)
             /\ pc' = [pc EXCEPT ![c] = "sleep"]
             /\ UNCHANGED <<got, left>>
    <3>1. queue' \in Seq(Datagram) /\ Len(queue') <= QueueLimit
      BY <2>2, UdpAssumption DEF TypeOK
    <3>2. TypeOK'
      BY <1>3, <2>2, <3>1 DEF TypeOK, Recv
    <3>3. Counting'
      BY <1>3, <2>2 DEF TypeOK, Recv, Counting
    <3> QED BY <3>2, <3>3
  <2> QED BY <1>3, <2>1, <2>2 DEF Recv
<1>4. ASSUME NEW c \in Client, Sleep(c) PROVE TypeOK' /\ Counting'
  <2>1. left[c] \in Nat /\ left[c] > 0
    BY <1>4 DEF TypeOK, Counting, Sleep
  <2>2. left' = [left EXCEPT ![c] = left[c] - 1] /\ left'[c] = left[c] - 1
    BY <1>4 DEF Sleep, Counted, TypeOK
  <2>3. left' \in [Client -> Nat]
    BY <2>1, <2>2 DEF TypeOK
  <2>4. /\ pc' \in [Client -> {"new", "bound", "recv", "sleep", "done"}]
        /\ queue' \in Seq(Datagram) /\ Len(queue') <= QueueLimit
    BY <1>4, GoesTyped DEF Sleep
  <2>5. TypeOK'
    BY <1>4, <2>3, <2>4 DEF TypeOK, Sleep
  <2>6. Counting'
    <3>1. pc'[c] \in {"recv", "sleep"} => left'[c] # 0
      BY <1>4, <2>2 DEF Sleep, Goes, Over, TypeOK
    <3> QED BY <1>4, <2>1, <2>2, <3>1 DEF TypeOK, Sleep, Goes, Counting
  <2> QED BY <2>5, <2>6
<1>5. ASSUME Serve PROVE TypeOK' /\ Counting'
  <2>1. PICK d \in net :
          \/ Taken(d, Replies(d)) /\ clilen' = TRUE /\ UNCHANGED server
          \/ ~clilen /\ Taken(d, {}) /\ clilen' = TRUE /\ UNCHANGED server
          \/ ~clilen /\ Taken(d, {}) /\ server' = "down" /\ UNCHANGED clilen
    BY <1>5 DEF Serve
  <2>2. net' \subseteq Datagram /\ copied' \subseteq Client
    BY <2>1, RepliesTyped, TakenTyped
  <2>3. clilen' \in BOOLEAN
    BY <2>1, Zenon DEF TypeOK
  <2>4. server' \in {"up", "down"}
    BY <2>1 DEF TypeOK
  <2>5. UNCHANGED <<pc, left, got, queue, use_answer>>
    BY <1>5 DEF Serve
  <2> QED BY <2>2, <2>3, <2>4, <2>5 DEF TypeOK, Counting
<1>6. ASSUME Deliver PROVE TypeOK' /\ Counting'
  <2>1. PICK d \in net :
          /\ Taken(d, {})
          /\ queue' = IF PortFree \/ Len(queue) = QueueLimit
                        THEN queue ELSE Append(queue, d)
    BY <1>6 DEF Deliver
  <2>2. net' \subseteq Datagram /\ copied' \subseteq Client
    BY <2>1, TakenTyped
  <2>3. d \in Datagram /\ queue \in Seq(Datagram) /\ Len(queue) <= QueueLimit
    BY DEF TypeOK
  <2>4. queue' \in Seq(Datagram) /\ Len(queue') <= QueueLimit
    BY <2>1, <2>3, UdpAssumption
  <2>5. UNCHANGED <<pc, left, got, use_answer, server, clilen>>
    BY <1>6 DEF Deliver
  <2> QED BY <2>2, <2>4, <2>5 DEF TypeOK, Counting
<1>7. ASSUME Lose PROVE TypeOK' /\ Counting'
  BY <1>7 DEF Lose, TypeOK, Counting
<1>8. ASSUME UNCHANGED vars PROVE TypeOK' /\ Counting'
  BY <1>8 DEF vars, TypeOK, Counting
<1> QED BY <1>1, <1>2, <1>3, <1>4, <1>5, <1>6, <1>7, <1>8 DEF Next, Run

-----------------------------------------------------------------------------
LEMMA BindKeeps ==
  ASSUME UdpInv, TypeOK', NEW c \in Client, Bind(c)
  PROVE  UdpInv'
<1>1. /\ pc' = [pc EXCEPT ![c] = pc'[c]]
      /\ pc[c] = "new" /\ pc'[c] \in {"bound", "done"}
      /\ pc'[c] = "bound" => PortFree
      /\ queue' = queue
  BY DEF UdpInv, TypeOK, Bind, BindWorks, Goes, HasPort
<1>2. \A i \in DOMAIN queue' : i + 0 \in DOMAIN queue /\ queue'[i] = queue[i + 0]
  BY <1>1 DEF UdpInv, TypeOK
<1>3. UNCHANGED <<got, net, copied>> /\ 0 \in Nat
  BY DEF Bind
<1>4. ~Asked(c)
  BY <1>1 DEF Asked
<1> QED BY <1>1, <1>2, <1>3, <1>4, Stays

LEMMA SleepKeeps ==
  ASSUME UdpInv, TypeOK', NEW c \in Client, Sleep(c)
  PROVE  UdpInv'
<1>1. /\ pc' = [pc EXCEPT ![c] = pc'[c]]
      /\ pc[c] = "sleep" /\ pc'[c] \in {"recv", "done"}
      /\ queue' = queue \/ queue' = <<>>
  BY DEF UdpInv, TypeOK, Sleep, Goes
<1>2. \A i \in DOMAIN queue' : i + 0 \in DOMAIN queue /\ queue'[i] = queue[i + 0]
  BY <1>1 DEF UdpInv, TypeOK
<1>3. UNCHANGED <<got, net, copied>> /\ 0 \in Nat
  BY DEF Sleep
<1>4. HasPort(c) /\ (Asked(c) => Asked(c)')
  BY <1>1 DEF HasPort, Asked
<1> QED BY <1>1, <1>2, <1>3, <1>4, Stays

(* Before it sends, nothing of a client is anywhere (pru.c:260-277).       *)
LEMMA SendKeeps ==
  ASSUME UdpInv, TypeOK', NEW c \in Client, Send(c)
  PROVE  UdpInv'
<1>1. /\ pc' = [pc EXCEPT ![c] = pc'[c]]
      /\ pc[c] = "bound" /\ pc'[c] \in {"recv", "done"}
      /\ queue' = queue \/ queue' = <<>>
      /\ UNCHANGED <<got, copied>>
  BY DEF UdpInv, TypeOK, Send, Goes
<1>2. \A i \in DOMAIN queue' : i \in DOMAIN queue /\ queue'[i] = queue[i]
  BY <1>1 DEF UdpInv, TypeOK
<1>3. CASE net' = net
  <2>1. \A i \in DOMAIN queue' : i + 0 \in DOMAIN queue /\ queue'[i] = queue[i + 0]
    BY <1>1 DEF UdpInv, TypeOK
  <2>2. HasPort(c) /\ (Asked(c) => Asked(c)') /\ 0 \in Nat
    BY <1>1 DEF HasPort, Asked
  <2> QED BY <1>1, <1>3, <2>1, <2>2, Stays
<1>4. CASE net' # net
  <2>1. PICK m : m.of = c /\ net' = net \union {m}
    BY <1>4 DEF Send
  <2>2. /\ \A d \in net : d.of # c
        /\ \A i \in DOMAIN queue : queue[i].of # c
    BY <1>1 DEF UdpInv, Sent, Asked
  <2>3. \A e \in Client : got[e] # c
    <3>1. got[c] # c
      BY <1>1, UdpAssumption DEF UdpInv, Printed
    <3>2. \A e \in Client : e # c => got[e] # c
      BY <1>1 DEF UdpInv, OwnOrAbandoned
    <3> QED BY <3>1, <3>2
  <2>4. \A x \in Client : x # c => pc'[x] = pc[x]
    BY <1>1 DEF UdpInv, TypeOK
  <2>5. OnePort'
    BY <1>1, <2>4 DEF UdpInv, OnePort, HasPort
  <2>6. Sent'
    <3>1. \A x \in Client : Asked(x) => Asked(x)'
      BY <1>1, <2>4 DEF Asked
    <3>2. Asked(c)'
      BY <1>1 DEF Asked
    <3>3. \A d \in net : d.of \in Client
      BY DEF UdpInv, TypeOK, Datagram
    <3>4. \A i \in DOMAIN queue : queue[i].of \in Client
      BY QueueTyped DEF UdpInv
    <3> QED BY <1>2, <2>1, <3>1, <3>2, <3>3, <3>4 DEF UdpInv, Sent, Asked
  <2>7. OnceOnTheWay'
    BY <1>1, <1>2, <2>1, <2>2, <2>3 DEF UdpInv, OnceOnTheWay
  <2>8. OnceInSocket'
    BY <1>1, <1>2 DEF UdpInv, OnceInSocket
  <2>9. OwnOrAbandoned' /\ Printed'
    BY <1>1, <2>4 DEF UdpInv, OwnOrAbandoned, Printed
  <2> QED BY <2>5, <2>6, <2>7, <2>8, <2>9 DEF UdpInv
<1> QED BY <1>3, <1>4

(* An answer of another client that has not been copied is nowhere else,   *)
(* so that client has no answer; and it has left, for the port is taken    *)
(* (pru.c:318-333).                                                        *)
LEMMA RecvKeeps ==
  ASSUME UdpInv, TypeOK', NEW c \in Client, Recv(c)
  PROVE  UdpInv'
<1>1. /\ pc[c] = "recv" /\ HasPort(c)
      /\ UNCHANGED <<net, copied>>
  BY DEF Recv, HasPort
<1>2. CASE queue # <<>> /\ Goes(c, "done")
           /\ got' = [got EXCEPT ![c] = Head(queue).of]
  <2> DEFINE x == Head(queue).of
  <2>1. 1 \in DOMAIN queue /\ x = queue[1].of /\ x \in Client
    BY <1>2, HeadTyped DEF UdpInv
  <2>2. queue' = <<>> /\ pc' = [pc EXCEPT ![c] = "done"]
    BY <1>1, <1>2 DEF Goes
  <2>3. Asked(x) /\ (\A e \in Client : got[e] = x => x \in copied)
        /\ (\A d \in net : d.of = x => x \in copied)
    BY <2>1 DEF UdpInv, Sent, OnceOnTheWay, OnceInSocket
  <2>4. x # c => pc[x] = "done"
    BY <1>1, <2>1, <2>3 DEF UdpInv, OnePort, HasPort, Asked
  <2>5. \A e \in Client : e # c => pc'[e] = pc[e] /\ got'[e] = got[e]
    BY <1>2, <2>2 DEF UdpInv, TypeOK
  <2>6. got'[c] = x /\ pc'[c] = "done"
    BY <1>2, <2>2 DEF UdpInv, TypeOK
  <2> HIDE DEF x
  <2>7. OnePort'
    BY <2>5, <2>6 DEF UdpInv, OnePort, HasPort
  <2>8. DOMAIN queue' = {}
    BY <2>2
  <2>9. Sent'
    BY <1>1, <2>5, <2>6, <2>8 DEF UdpInv, Sent, Asked, TypeOK, Datagram
  <2>10. OnceOnTheWay' /\ OnceInSocket'
    <3>1. \A d \in net, e \in Client : got'[e] = d.of => d.of \in copied
      BY <2>3, <2>5, <2>6 DEF UdpInv, OnceOnTheWay
    <3> QED BY <1>1, <2>8, <3>1 DEF UdpInv, OnceOnTheWay, OnceInSocket
  <2>11. OwnOrAbandoned'
    <3>1. ASSUME NEW e \in Client, got'[e] \in Client \ {e}
          PROVE  pc'[got'[e]] = "done"
                 /\ (got'[e] \in copied' \/ got'[got'[e]] # got'[e])
      <4>1. CASE e = c
        BY <1>1, <2>3, <2>4, <2>5, <2>6, <3>1, <4>1
      <4>2. CASE e # c
        <5> DEFINE y == got[e]
        <5>1. y \in Client \ {e} /\ pc[y] = "done" /\ (y \in copied \/ got[y] # y)
          BY <2>5, <3>1, <4>2 DEF UdpInv, OwnOrAbandoned
        <5>2. y # c
          BY <1>1, <5>1
        <5> HIDE DEF y
        <5>3. pc'[y] = "done" /\ (y \in copied' \/ got'[y] # y)
          BY <1>1, <2>5, <5>1, <5>2
        <5> QED BY <2>5, <4>2, <5>3 DEF y
      <4> QED BY <4>1, <4>2
    <3> QED BY <3>1 DEF OwnOrAbandoned
  <2>12. Printed'
    BY <2>5, <2>6 DEF UdpInv, Printed
  <2> QED BY <2>7, <2>9, <2>10, <2>11, <2>12 DEF UdpInv
<1>3. CASE /\ queue' = IF queue = <<>> THEN queue ELSE Tail(queue)
           /\ pc' = [pc EXCEPT ![c] = "sleep"]
           /\ UNCHANGED got
  <2>1. pc' = [pc EXCEPT ![c] = pc'[c]] /\ pc'[c] = "sleep"
    BY <1>3 DEF UdpInv, TypeOK
  <2>2. Asked(c) => Asked(c)'
    BY <2>1 DEF Asked
  <2>3. \A i \in DOMAIN queue' : i + 1 \in DOMAIN queue /\ queue'[i] = queue[i + 1]
    <3>1. CASE queue = <<>>
      BY <1>3, <3>1
    <3>2. CASE queue # <<>>
      BY <1>3, <3>2 DEF UdpInv, TypeOK
    <3> QED BY <3>1, <3>2
  <2>4. 1 \in Nat /\ UNCHANGED <<got, net, copied>>
    BY <1>1, <1>3
  <2> QED BY <1>1, <2>1, <2>2, <2>3, <2>4, Stays
<1> QED BY <1>2, <1>3 DEF Recv

-----------------------------------------------------------------------------
(* The server answers a datagram it takes with at most one, to the same    *)
(* client (main.c:87-130).                                                 *)
LEMMA ServeKeeps ==
  ASSUME UdpInv, TypeOK', Serve
  PROVE  UdpInv'
<1>1. UNCHANGED <<pc, got, queue>>
  BY DEF Serve
<1>2. PICK d \in net : Taken(d, Replies(d)) \/ Taken(d, {})
  BY DEF Serve
<1>3. PICK new : /\ \A e \in new : e.of = d.of
                 /\ \A e, f \in new : e = f
                 /\ Taken(d, new)
  <2>1. \A e \in Replies(d) : e = Reply(d) /\ e.of = d.of
    BY DEF Replies, Reply
  <2> QED BY <1>2, <2>1
<1>4. copied \subseteq copied'
  BY <1>3 DEF Taken
<1>5. \/ net' = (net \ {d}) \union new
      \/ net' = net \union new /\ d.of \in copied'
  BY <1>3 DEF Taken
<1>6. \A e \in net' : e \in net \/ (e \in new /\ e.of = d.of)
  BY <1>3, <1>5
<1>7. Sent'
  BY <1>1, <1>6 DEF UdpInv, Sent, Asked
<1>8. OnceOnTheWay'
  <2>1. ASSUME NEW e \in net', NEW f \in net', e.of = f.of, e # f
        PROVE  e.of \in copied'
    <3>1. CASE e \in net /\ f \in net
      BY <1>4, <2>1, <3>1 DEF UdpInv, OnceOnTheWay
    <3>2. CASE e \notin net
      <4>1. e.of = d.of /\ f \in net
        BY <1>3, <1>5, <1>6, <2>1, <3>2
      <4>2. CASE f = d
        BY <1>3, <1>5, <2>1, <3>2, <4>1, <4>2
      <4>3. CASE f # d
        BY <1>4, <2>1, <4>1, <4>3 DEF UdpInv, OnceOnTheWay
      <4> QED BY <4>2, <4>3
    <3>3. CASE f \notin net
      <4>1. f.of = d.of /\ e \in net
        BY <1>3, <1>5, <1>6, <2>1, <3>3
      <4>2. CASE e = d
        BY <1>3, <1>5, <2>1, <3>3, <4>1, <4>2
      <4>3. CASE e # d
        BY <1>4, <2>1, <4>1, <4>3 DEF UdpInv, OnceOnTheWay
      <4> QED BY <4>2, <4>3
    <3> QED BY <3>1, <3>2, <3>3
  <2>2. \A e \in net', i \in DOMAIN queue' :
           e.of = queue'[i].of => e.of \in copied'
    BY <1>1, <1>4, <1>6 DEF UdpInv, OnceOnTheWay
  <2>3. \A e \in net', c \in Client : got'[c] = e.of => e.of \in copied'
    BY <1>1, <1>4, <1>6 DEF UdpInv, OnceOnTheWay
  <2> QED BY <2>1, <2>2, <2>3 DEF OnceOnTheWay
<1>9. OnceInSocket'
  BY <1>1, <1>4 DEF UdpInv, OnceInSocket
<1>10. OwnOrAbandoned' /\ Printed' /\ OnePort'
  BY <1>1, <1>4 DEF UdpInv, OwnOrAbandoned, Printed, OnePort, HasPort
<1> QED BY <1>7, <1>8, <1>9, <1>10 DEF UdpInv

(* A datagram that reaches the socket leaves the network, or was copied.   *)
LEMMA DeliverKeeps ==
  ASSUME UdpInv, TypeOK', Deliver
  PROVE  UdpInv'
<1>1. UNCHANGED <<pc, got>>
  BY DEF Deliver
<1>2. PICK d \in net : /\ Taken(d, {})
                       /\ queue' = queue \/ queue' = Append(queue, d)
  BY DEF Deliver
<1>3. copied \subseteq copied'
  BY <1>2 DEF Taken
<1>4. net' = net \ {d} \/ (net' = net /\ d.of \in copied')
  BY <1>2 DEF Taken
<1>5. \A i \in DOMAIN queue' :
         (i \in DOMAIN queue /\ queue'[i] = queue[i])
         \/ (i = Len(queue) + 1 /\ queue'[i] = d)
  <2>1. queue \in Seq(Datagram) /\ d \in Datagram
    BY DEF UdpInv, TypeOK
  <2>2. CASE queue' = queue
    BY <2>2
  <2>3. CASE queue' = Append(queue, d)
    BY <2>1, <2>3
  <2> QED BY <1>2, <2>2, <2>3
<1>6. Sent'
  BY <1>1, <1>4, <1>5 DEF UdpInv, Sent, Asked
<1>7. OnceOnTheWay'
  <2>1. ASSUME NEW e \in net', NEW i \in DOMAIN queue', e.of = queue'[i].of
        PROVE  e.of \in copied'
    <3>1. CASE i \in DOMAIN queue /\ queue'[i] = queue[i]
      BY <1>3, <1>4, <2>1, <3>1 DEF UdpInv, OnceOnTheWay
    <3>2. CASE queue'[i] = d
      BY <1>3, <1>4, <2>1, <3>2 DEF UdpInv, OnceOnTheWay
    <3> QED BY <1>5, <3>1, <3>2
  <2>2. \A e, f \in net' : e.of = f.of /\ e # f => e.of \in copied'
    BY <1>3, <1>4 DEF UdpInv, OnceOnTheWay
  <2>3. \A e \in net', c \in Client : got'[c] = e.of => e.of \in copied'
    BY <1>1, <1>3, <1>4 DEF UdpInv, OnceOnTheWay
  <2> QED BY <2>1, <2>2, <2>3 DEF OnceOnTheWay
<1>8. OnceInSocket'
  <2>1. ASSUME NEW i \in DOMAIN queue', NEW j \in DOMAIN queue',
               queue'[i].of = queue'[j].of, i # j
        PROVE  queue'[i].of \in copied'
    <3>1. CASE i \in DOMAIN queue /\ queue'[i] = queue[i]
               /\ j \in DOMAIN queue /\ queue'[j] = queue[j]
      BY <1>3, <2>1, <3>1 DEF UdpInv, OnceInSocket
    <3>2. CASE i \in DOMAIN queue /\ queue'[i] = queue[i] /\ queue'[j] = d
      BY <1>3, <2>1, <3>2 DEF UdpInv, OnceOnTheWay
    <3>3. CASE j \in DOMAIN queue /\ queue'[j] = queue[j] /\ queue'[i] = d
      BY <1>3, <2>1, <3>3 DEF UdpInv, OnceOnTheWay
    <3> QED BY <1>5, <2>1, <3>1, <3>2, <3>3
  <2>2. ASSUME NEW i \in DOMAIN queue', NEW c \in Client,
               got'[c] = queue'[i].of
        PROVE  queue'[i].of \in copied'
    <3>1. CASE i \in DOMAIN queue /\ queue'[i] = queue[i]
      BY <1>1, <1>3, <2>2, <3>1 DEF UdpInv, OnceInSocket
    <3>2. CASE queue'[i] = d
      BY <1>1, <1>3, <2>2, <3>2 DEF UdpInv, OnceOnTheWay
    <3> QED BY <1>5, <3>1, <3>2
  <2> QED BY <2>1, <2>2 DEF OnceInSocket
<1>9. OwnOrAbandoned' /\ Printed' /\ OnePort'
  BY <1>1, <1>3 DEF UdpInv, OwnOrAbandoned, Printed, OnePort, HasPort
<1> QED BY <1>6, <1>7, <1>8, <1>9 DEF UdpInv

LEMMA LoseKeeps ==
  ASSUME UdpInv, TypeOK', Lose
  PROVE  UdpInv'
<1>1. net' \subseteq net /\ UNCHANGED <<pc, got, queue, copied>>
  BY DEF Lose
<1>2. Sent'
  BY <1>1 DEF UdpInv, Sent, Asked
<1>3. OnceOnTheWay'
  BY <1>1 DEF UdpInv, OnceOnTheWay
<1>4. OnceInSocket'
  BY <1>1 DEF UdpInv, OnceInSocket
<1>5. OwnOrAbandoned' /\ Printed' /\ OnePort'
  BY <1>1 DEF UdpInv, OwnOrAbandoned, Printed, OnePort, HasPort
<1> QED BY <1>2, <1>3, <1>4, <1>5 DEF UdpInv

LEMMA StepKeeps == UdpInv /\ Counting /\ [Next]_vars => UdpInv' /\ Counting'
<1> SUFFICES ASSUME UdpInv, Counting, [Next]_vars PROVE UdpInv' /\ Counting'
  OBVIOUS
<1>1. TypeOK' /\ Counting'
  BY TypeStep DEF UdpInv
<1>2. ASSUME NEW c \in Client, Run(c) PROVE UdpInv'
  BY <1>1, <1>2, BindKeeps, SendKeeps, RecvKeeps, SleepKeeps DEF Run
<1>3. CASE UNCHANGED vars
  <2>1. UNCHANGED <<pc, got, queue, net, copied>>
    BY <1>3 DEF vars
  <2>2. Sent' /\ Printed' /\ OnePort' /\ OwnOrAbandoned'
    BY <2>1 DEF UdpInv, Sent, Asked, Printed, OnePort, HasPort, OwnOrAbandoned
  <2>3. OnceOnTheWay' /\ OnceInSocket'
    BY <2>1 DEF UdpInv, OnceOnTheWay, OnceInSocket
  <2> QED BY <1>1, <2>2, <2>3 DEF UdpInv
<1> QED BY <1>1, <1>2, <1>3, ServeKeeps, DeliverKeeps, LoseKeeps DEF Next

LEMMA Invariance == Spec => [](UdpInv /\ Counting)
<1>1. Init => Counting
  BY DEF Init, Counting
<1> QED BY <1>1, InitHolds, StepKeeps, PTL DEF Spec

(* Every reachable state is well typed; in particular get_answer never     *)
(* counts below zero, where it would go on for ever (pru.c:316-342).       *)
THEOREM TypesHold == Spec => []TypeOK
BY Invariance, PTL DEF UdpInv

(* An answer that is printed is the client's own, or its client has left   *)
(* without it, or the network made a copy: no client that is waiting loses *)
(* its answer to another (pru.c:102-112, 316-333).                         *)
THEOREM AnswersAreOwn == Spec => []OwnOrAbandoned
BY Invariance, PTL DEF UdpInv
=============================================================================
