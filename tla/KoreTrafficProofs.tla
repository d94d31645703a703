-------------------------- MODULE KoreTrafficProofs -------------------------
(* Theorems about the traffic of a worker: the requests of its connections *)
(* (KoreRequests), and the messages of the processes (KoreMessages).  For  *)
(* all connections and processes, any number of requests of the pool, and  *)
(* whatever the clients ask.                                               *)
EXTENDS KoreRequests, KoreMessages, ListFacts, Naturals, Sequences, FiniteSets, TLAPS


Unit == Kind \cup {"body", "message", "bye"}
Flag == {"idle", "close", "close_sent", "websocket"}

Types ==
  /\ state \in [Conns -> {"none", "shake", "open", "leaving"}]
  /\ rnb \in [Conns -> {"none", "header", "body", "frame", "held"}]
  /\ extra \in [Conns -> Reqs \cup {None}]
  /\ flags \in [Conns -> SUBSET Flag]
  /\ out \in [Conns -> Seq(Int)] /\ got \in [Conns -> Seq(Int)]
  /\ owner \in [Reqs -> Conns \cup {None}]
  /\ rflags \in [Reqs -> SUBSET {"live", "delete", "asleep", "complete"}]
  /\ left \in [Reqs -> Int]
  /\ about \in [Reqs -> [n : Nat, kind : Unit]]
  /\ awake \in Seq(Reqs)
  /\ task \in [Reqs -> {"none", "running", "finished"}]
  /\ next \in Reqs \cup {None}
  /\ inbox \in [Conns -> Seq(Unit)]
  /\ asked \in [Conns -> Nat]

\* The list of http_process holds requests that are live and awake, once; a
\* pass goes on with one of them; and a task that runs is of a request whose
\* body has come.
ListIsRight ==
  /\ \A r \in Reqs : ~Live(r) => rflags[r] = {}
  /\ \A r \in Reqs : Member(awake, r) => Live(r) /\ ~Asleep(r)
  /\ Once(awake)
  /\ next # None => loop = "process" /\ Member(awake, next)
  /\ \A r \in Reqs : task[r] = "running" => "complete" \in rflags[r]

\* A live request has its connection, or is to be deleted; the request whose
\* body comes is its connection's.
Owned(r) ==
  \/ owner[r] \in Conns /\ state[owner[r]] \in {"open", "leaving"}
  \/ owner[r] = None /\ "delete" \in rflags[r] /\ ~Asleep(r)

BodyIsOf(c) ==
  /\ extra[c] # None <=> rnb[c] = "body"
  /\ extra[c] # None =>
       /\ extra[c] \in Of(c) /\ Asleep(extra[c]) /\ "complete" \notin rflags[extra[c]]
       /\ "delete" \in rflags[extra[c]] => state[c] = "leaving"
       /\ Len(inbox[c]) <= left[extra[c]]

\* The clients wait for their answers: what c asked is in its inbox, or in
\* one request, or answered.
InOrder(s)      == \A i \in 1..Len(s) : s[i] = i
Everything(c)   == got[c] \o out[c]
Asking(c)       == \E i \in 1..Len(inbox[c]) : inbox[c][i] \in Kind
Pending(c)      == {r \in Of(c) : "delete" \notin rflags[r]}

OneIsOwed(c) ==
  /\ Len(Everything(c)) = asked[c] - 1
  /\ {"websocket", "close"} \cap flags[c] = {}

AnswersFirst(s) == \A i \in 1..Len(s) : s[i] > 0 => \A j \in 1..i : s[j] = j
ClosedOnce(s)   == \A i, j \in 1..Len(s) : s[i] = CloseFrame /\ s[j] = CloseFrame => i = j
Unclosed(s)     == \A i \in 1..Len(s) : s[i] # CloseFrame

\* What is right to have sent on a connection with flags fs.
Fine(s, fs) ==
  /\ AnswersFirst(s) /\ ClosedOnce(s)
  /\ "close_sent" \notin fs => Unclosed(s)
  /\ "websocket" \notin fs => InOrder(s)

Talks(c) ==
  /\ Asking(c) => OneIsOwed(c) /\ Pending(c) = {} /\ rnb[c] # "body"
  /\ \A r \in Pending(c) :
       OneIsOwed(c) /\ about[r].n = asked[c] /\ Pending(c) = {r}
  /\ rnb[c] = "body" => Pending(c) \subseteq {extra[c]}
  /\ "websocket" \notin flags[c] =>
       /\ Len(Everything(c)) <= asked[c]
       /\ inbox[c] # <<>> /\ rnb[c] # "body" => Asking(c) /\ Head(inbox[c]) \in Kind
  /\ rnb[c] = "frame" => "websocket" \in flags[c]
  /\ rnb[c] = "header" => "websocket" \notin flags[c]
  /\ state[c] \in {"none", "shake"} =>
       /\ inbox[c] = <<>> /\ "websocket" \notin flags[c] /\ rnb[c] = "none"
  /\ Fine(Everything(c), flags[c])

RequestsInv ==
  /\ Types /\ ListIsRight
  /\ \A r \in Reqs : Live(r) => Owned(r)
  /\ \A c \in Conns : BodyIsOf(c) /\ Talks(c)
-----------------------------------------------------------------------------
(* What a client is sent.                                                  *)

LEMMA Appended ==
  ASSUME NEW s \in Seq(Int), NEW t \in Seq(Int), NEW x \in Int
  PROVE  /\ s \o t \in Seq(Int) /\ Append(t, x) \in Seq(Int)
         /\ s \o Append(t, x) = Append(s \o t, x)
         /\ s \o <<x>> = Append(s, x) /\ s \o <<>> = s
         /\ Len(s \o t) = Len(s) + Len(t) /\ Len(s) \in Nat /\ Len(t) \in Nat
  <1>1. s \o t \in Seq(Int) /\ Append(t, x) \in Seq(Int) /\ Len(s \o t) = Len(s) + Len(t)
    OBVIOUS
  <1>2. /\ s \o Append(t, x) \in Seq(Int) /\ Append(s \o t, x) \in Seq(Int)
        /\ Len(s \o Append(t, x)) = Len(s) + Len(t) + 1
        /\ Len(Append(s \o t, x)) = Len(s) + Len(t) + 1
    BY <1>1
  <1>3. \A i \in 1..(Len(s) + Len(t) + 1) : (s \o Append(t, x))[i] = Append(s \o t, x)[i]
    BY <1>1
  <1>4. s \o Append(t, x) = Append(s \o t, x)
    BY <1>2, <1>3, SeqEqual
  <1> QED BY <1>1, <1>4

LEMMA SentAfter == \A s, t \in Seq(Int), x \in Int : s \o Append(t, x) = Append(s \o t, x)
  BY Appended

LEMMA LastOf ==
  ASSUME NEW s \in Seq(Int), NEW x \in Int
  PROVE  /\ Append(s, x) \in Seq(Int) /\ Len(s) \in Nat /\ Len(Append(s, x)) = Len(s) + 1
         /\ \A i \in 1..(Len(s) + 1) : Append(s, x)[i] = IF i = Len(s) + 1 THEN x ELSE s[i]
  OBVIOUS

LEMMA AnswerIsFine ==
  ASSUME NEW s \in Seq(Int), InOrder(s), NEW fs
  PROVE  /\ Fine(s, fs) /\ Fine(Append(s, Len(s) + 1), fs)
  <1>1. InOrder(Append(s, Len(s) + 1))
    BY LastOf DEF InOrder
  <1>2. ASSUME NEW t \in Seq(Int), InOrder(t) PROVE Fine(t, fs)
    <2>1. \A i \in 1..Len(t) : t[i] = i /\ i # CloseFrame
      BY <1>2 DEF InOrder, CloseFrame
    <2>2. \A i \in 1..Len(t) : \A j \in 1..i : j \in 1..Len(t)
      OBVIOUS
    <2>3. AnswersFirst(t)
      BY <2>1, <2>2 DEF AnswersFirst
    <2>4. Unclosed(t) /\ ClosedOnce(t)
      BY <2>1 DEF Unclosed, ClosedOnce
    <2> QED BY <1>2, <2>3, <2>4 DEF Fine
  <1>3. Append(s, Len(s) + 1) \in Seq(Int)
    OBVIOUS
  <1> QED BY <1>1, <1>2, <1>3

LEMMA FrameNumbers ==
  /\ Frame \in Int /\ Frame <= 0 /\ Frame # CloseFrame
  /\ CloseFrame \in Int /\ CloseFrame <= 0
  BY DEF Frame, CloseFrame

LEMMA SentIsFine ==
  ASSUME NEW s \in Seq(Int), NEW x \in Int, x <= 0, NEW fs, NEW gs, Fine(s, fs), "websocket" \in gs,
         "close_sent" \in fs => "close_sent" \in gs,
         x = CloseFrame => "close_sent" \notin fs /\ "close_sent" \in gs
  PROVE  Fine(Append(s, x), gs)
  <1> DEFINE t == Append(s, x)
  <1>1. /\ Len(s) \in Nat /\ Len(t) = Len(s) + 1
        /\ t[Len(s) + 1] = x
        /\ \A i \in 1..Len(s) : t[i] = s[i] /\ s[i] \in Int
    BY LastOf
  <1> HIDE DEF t
  <1>5. \A i \in 1..Len(t) : i \in 1..Len(s) \/ (i = Len(s) + 1 /\ t[i] = x)
    BY <1>1
  <1>2. AnswersFirst(t)
    <2> SUFFICES ASSUME NEW i \in 1..Len(t), t[i] > 0, NEW j \in 1..i PROVE t[j] = j
      BY DEF AnswersFirst
    <2>2. i \in 1..Len(s)
      BY <1>5
    <2>1. s[i] > 0 /\ j \in 1..Len(s) /\ t[j] = s[j]
      BY <1>1, <2>2
    <2> QED BY <2>1, <2>2 DEF Fine, AnswersFirst
  <1>3. ClosedOnce(t)
    BY <1>1, <1>5 DEF Fine, ClosedOnce, Unclosed
  <1>4. "close_sent" \notin gs => Unclosed(t)
    BY <1>1, <1>5 DEF Fine, Unclosed
  <1> QED BY <1>2, <1>3, <1>4 DEF Fine, t

LEMMA FrameIsFine ==
  ASSUME NEW s \in Seq(Int), NEW fs, Fine(s, fs), "websocket" \in fs
  PROVE  Fine(Append(s, Frame), fs)
  BY FrameNumbers, SentIsFine

LEMMA CloseIsFine ==
  ASSUME NEW s \in Seq(Int), NEW fs, NEW gs, Fine(s, fs),
         "websocket" \in gs, "close_sent" \notin fs, "close_sent" \in gs
  PROVE  Fine(Append(s, CloseFrame), gs)
  BY FrameNumbers, SentIsFine

LEMMA MoreFlags ==
  ASSUME NEW s, NEW fs, NEW gs, Fine(s, fs), fs \subseteq gs
  PROVE  Fine(s, gs)
  BY DEF Fine
-----------------------------------------------------------------------------
(* What a step leaves alone.                                               *)

Same(c) == UNCHANGED <<state[c], rnb[c], extra[c], flags[c], out[c], got[c], inbox[c], asked[c]>>

LEMMA TalksSame ==
  ASSUME NEW c, Same(c), Talks(c), Pending(c)' = Pending(c), \A r \in Pending(c) : about'[r].n = about[r].n
  PROVE  Talks(c)'
  BY DEF Talks, Same, OneIsOwed, Asking, Everything

LEMMA BodySame ==
  ASSUME NEW c, Same(c), BodyIsOf(c),
         extra[c] # None => /\ rflags'[extra[c]] = rflags[extra[c]] /\ owner'[extra[c]] = owner[extra[c]]
                            /\ left'[extra[c]] = left[extra[c]]
  PROVE  BodyIsOf(c)'
  BY DEF BodyIsOf, Same, Of, Live, Asleep

\* Steps that leave the requests alone.
LEMMA RequestsAlone ==
  ASSUME RequestsInv, Types', UNCHANGED <<reqs, task, next>>, next # None => loop' = loop,
         \A d \in Conns : /\ BodyIsOf(d)' /\ Talks(d)'
                          /\ state[d] \in {"open", "leaving"} => state'[d] \in {"open", "leaving"}
  PROVE  RequestsInv'
  <1>1. ListIsRight'
    BY DEF RequestsInv, ListIsRight, reqs, Live, Asleep
  <1>2. \A r \in Reqs : Live(r)' => Owned(r)'
    BY DEF RequestsInv, Owned, reqs, Live, Asleep
  <1>3. \A d \in Conns : BodyIsOf(d)' /\ Talks(d)'
    OBVIOUS
  <1>4. Types'
    OBVIOUS
  <1> QED BY <1>1, <1>2, <1>3, <1>4 DEF RequestsInv

LEMMA OneConnection ==
  ASSUME RequestsInv, Types', NEW c \in Conns, UNCHANGED <<reqs, task, next>>, next # None => loop' = loop,
         \A d \in Conns \ {c} : Same(d),
         state[c] \in {"open", "leaving"} => state'[c] \in {"open", "leaving"},
         BodyIsOf(c)', Talks(c)'
  PROVE  RequestsInv'
  <1>1. ASSUME NEW d \in Conns \ {c} PROVE BodyIsOf(d)' /\ Talks(d)'
    <2>1. Pending(d)' = Pending(d)
      BY DEF Of, Pending, reqs, Live
    <2>2. Talks(d)'
      BY <2>1, TalksSame DEF RequestsInv, reqs
    <2>3. BodyIsOf(d)'
      BY BodySame DEF RequestsInv, reqs
    <2> QED BY <2>2, <2>3
  <1> QED BY <1>1, RequestsAlone DEF Same

\* Steps of one connection and of requests R, none of another connection.
LEMMA OthersSame ==
  ASSUME RequestsInv, NEW c, NEW R,
         \A d \in Conns \ {c} : Same(d),
         \A r \in Reqs \ R : UNCHANGED <<rflags[r], owner[r], left[r], about[r]>>,
         \A r \in R : owner[r] \notin Conns \ {c} \/ ~Live(r),
         \A r \in R : owner'[r] \notin Conns \ {c} \/ ~Live(r)'
  PROVE  \A d \in Conns \ {c} : BodyIsOf(d)' /\ Talks(d)'
  <1> SUFFICES ASSUME NEW d \in Conns \ {c} PROVE BodyIsOf(d)' /\ Talks(d)'
    OBVIOUS
  <1>1. \A r \in Of(d) \cup Of(d)' : r \in Reqs /\ r \notin R
    BY DEF Of
  <1>2. Of(d)' = Of(d)
    BY <1>1 DEF Of, Live
  <1>3. Pending(d)' = Pending(d)
    BY <1>1, <1>2 DEF Pending
  <1>4. \A r \in Pending(d) : about'[r].n = about[r].n
    BY <1>1 DEF Pending
  <1>5. Talks(d)'
    BY <1>3, <1>4, TalksSame DEF RequestsInv
  <1>6. extra[d] # None => extra[d] \in Of(d)
    BY DEF RequestsInv, BodyIsOf
  <1>7. BodyIsOf(d)'
    BY <1>1, <1>6, BodySame DEF RequestsInv
  <1> QED BY <1>5, <1>7

LEMMA TypesOf ==
  ASSUME Types, NEW c \in Conns
  PROVE  /\ flags[c] \in SUBSET Flag /\ out[c] \in Seq(Int) /\ got[c] \in Seq(Int)
         /\ inbox[c] \in Seq(Unit) /\ asked[c] \in Nat /\ Everything(c) \in Seq(Int)
  <1>1. out[c] \in Seq(Int) /\ got[c] \in Seq(Int)
    BY DEF Types
  <1> QED BY <1>1, Appended DEF Types, Everything

\* The queue is flushed or not, after x was put into it.
LEMMA FlushSends ==
  ASSUME Types, NEW c \in Conns, NEW x \in Int, NEW goes \in BOOLEAN, Flushed(c, Append(out[c], x), goes)
  PROVE  /\ out' \in [Conns -> Seq(Int)] /\ got' \in [Conns -> Seq(Int)]
         /\ \A d \in Conns \ {c} : out'[d] = out[d] /\ got'[d] = got[d]
         /\ Everything(c)' = Append(Everything(c), x)
  <1> DEFINE q == Append(out[c], x)
  <1>1. out[c] \in Seq(Int) /\ got[c] \in Seq(Int)
    BY DEF Types
  <1>2. q \in Seq(Int) /\ got[c] \o q = Append(Everything(c), x) /\ got[c] \o q \in Seq(Int)
    <2> DEFINE s == got[c]
               t == out[c]
    <2>1. s \in Seq(Int) /\ t \in Seq(Int)
      BY <1>1
    <2>2. Everything(c) = s \o t
      BY DEF Everything
    <2> HIDE DEF s, t
    <2>3. Append(t, x) \in Seq(Int)
      BY <2>1, Appended
    <2>4. s \o Append(t, x) = Append(s \o t, x)
      BY <2>1, Appended
    <2>5. s \o Append(t, x) \in Seq(Int)
      BY <2>1, <2>3, Appended
    <2> QED BY <2>2, <2>3, <2>4, <2>5 DEF s, t
  <1> HIDE DEF q
  <1>3. CASE goes
    <2>1. got' = [got EXCEPT ![c] = got[c] \o q] /\ out' = [out EXCEPT ![c] = <<>>]
      BY <1>3 DEF Flushed, q
    <2>2. got'[c] = got[c] \o q /\ out'[c] = <<>>
      BY <2>1 DEF Types
    <2>3. <<>> \in Seq(Int) /\ (got[c] \o q) \o <<>> = got[c] \o q
      BY <1>2, ConcatEmptySeq
    <2> QED BY <1>2, <2>1, <2>2, <2>3 DEF Types, Everything
  <1>4. CASE ~goes
    <2>1. got' = [got EXCEPT ![c] = got[c]] /\ out' = [out EXCEPT ![c] = q]
      BY <1>4 DEF Flushed, q
    <2>2. got'[c] = got[c] /\ out'[c] = q
      BY <2>1 DEF Types
    <2> QED BY <1>2, <2>1, <2>2 DEF Types, Everything
  <1> QED BY <1>3, <1>4

\* The end of a connection, which may be told of it.
LEMMA Leaves ==
  ASSUME Types, NEW c \in Conns, NEW q \in Seq(Int), NEW fs \in SUBSET Flag, Disconnected(c, q, fs)
  PROVE  /\ state' \in [Conns -> {"none", "shake", "open", "leaving"}] /\ state'[c] = "leaving"
         /\ flags' \in [Conns -> SUBSET Flag] /\ flags'[c] = flags[c] \cup fs \cup {"close_sent"}
         /\ out' \in [Conns -> Seq(Int)] /\ got' = got
         /\ \A d \in Conns \ {c} : state'[d] = state[d] /\ flags'[d] = flags[d] /\ out'[d] = out[d]
         /\ \/ out'[c] = q
            \/ /\ out'[c] = Append(q, CloseFrame)
               /\ "websocket" \in flags[c] \cup fs /\ "close_sent" \notin flags[c] \cup fs
  <1> DEFINE gs == flags[c] \cup fs
             t == IF state[c] = "leaving" THEN q ELSE q \o Farewell(gs)
  <1>1. /\ state' = [state EXCEPT ![c] = "leaving"] /\ got' = got /\ out' = [out EXCEPT ![c] = t]
        /\ flags' = [flags EXCEPT ![c] = flags[c] \cup fs \cup {"close_sent"}]
    BY DEF Disconnected
  <1>2. t = q \/ (t = Append(q, CloseFrame) /\ "websocket" \in gs /\ "close_sent" \notin gs)
    BY Appended, FrameNumbers DEF Farewell
  <1> HIDE DEF t
  <1>3. t \in Seq(Int)
    <2>1. Append(q, CloseFrame) \in Seq(Int)
      BY Appended, FrameNumbers
    <2> QED BY <1>2, <2>1
  <1>4. flags[c] \cup fs \cup {"close_sent"} \in SUBSET Flag
    BY DEF Types, Flag
  <1> QED BY <1>1, <1>2, <1>3, <1>4 DEF Types

\* A connection that ends sends what is right to send.
LEMMA LeavesFine ==
  ASSUME Types, NEW c \in Conns, NEW q \in Seq(Int), NEW fs \in SUBSET Flag, Disconnected(c, q, fs),
         Fine(got[c] \o q, flags[c] \cup fs)
  PROVE  /\ Fine(Everything(c)', flags'[c])
         /\ "websocket" \notin flags[c] \cup fs => Everything(c)' = got[c] \o q
  <1> DEFINE gs == flags[c] \cup fs
             hs == flags[c] \cup fs \cup {"close_sent"}
             s == got[c] \o q
  <1>1. got[c] \in Seq(Int) /\ s \in Seq(Int)
    BY Appended DEF Types
  <1>2. /\ flags'[c] = hs /\ got' = got
        /\ \/ out'[c] = q
           \/ out'[c] = Append(q, CloseFrame) /\ "websocket" \in gs /\ "close_sent" \notin gs
    BY Leaves
  <1>3. CASE out'[c] = q
    BY <1>2, <1>3, MoreFlags DEF Everything
  <1>4. CASE out'[c] = Append(q, CloseFrame) /\ "websocket" \in gs /\ "close_sent" \notin gs
    <2>1. Everything(c)' = Append(s, CloseFrame)
      <3>1. got[c] \o Append(q, CloseFrame) = Append(s, CloseFrame)
        <4>1. CloseFrame \in Int
          BY FrameNumbers
        <4> QED BY <1>1, <4>1, SentAfter
      <3> QED BY <1>2, <1>4, <3>1 DEF Everything
    <2>2. Fine(Append(s, CloseFrame), hs)
      <3>1. Fine(s, gs) /\ "websocket" \in hs /\ "close_sent" \in hs
        BY <1>4
      <3> HIDE DEF s, gs, hs
      <3> QED BY <1>1, <1>4, <3>1, CloseIsFine
    <2> QED BY <1>2, <1>4, <2>1, <2>2
  <1> QED BY <1>2, <1>3, <1>4
-----------------------------------------------------------------------------
(* The events of a connection.                                             *)

LEMMA AcceptStep ==
  ASSUME RequestsInv, NEW c \in Conns, Accept(c)
  PROVE  RequestsInv'
  <1>1. /\ state[c] = "none" /\ state' = [state EXCEPT ![c] = "shake"]
        /\ flags' = [flags EXCEPT ![c] = {"idle"}]
        /\ UNCHANGED <<rnb, extra, out, reqs, task, loop, next, inbox, asked, got>>
    BY DEF Accept, world
  <1>2. Types'
    BY <1>1 DEF RequestsInv, Types, Flag, reqs
  <1>3. /\ state'[c] = "shake" /\ flags'[c] = {"idle"} /\ \A d \in Conns \ {c} : Same(d)
    BY <1>1 DEF RequestsInv, Types, Same
  <1>4. BodyIsOf(c)' /\ Pending(c)' = Pending(c)
    BY <1>1, <1>3 DEF RequestsInv, BodyIsOf, Of, Pending, Live, Asleep, reqs, Owned, Talks
  <1>5. Pending(c) = {}
    BY <1>1 DEF RequestsInv, Owned, Of, Pending
  <1>6. Talks(c)'
    <2>1. /\ inbox[c] = <<>> /\ rnb[c] = "none" /\ InOrder(Everything(c))
          /\ Len(Everything(c)) <= asked[c] /\ Everything(c) \in Seq(Int)
      BY <1>1, TypesOf DEF RequestsInv, Talks, Fine
    <2>2. Fine(Everything(c), {"idle"}) /\ Everything(c)' = Everything(c)
      BY <1>1, <2>1, AnswerIsFine DEF Everything
    <2>3. ~Asking(c)'
      BY <1>1, <2>1 DEF Asking
    <2> QED BY <1>1, <1>3, <1>4, <1>5, <2>1, <2>2, <2>3 DEF Talks
  <1> QED BY <1>1, <1>2, <1>3, <1>4, <1>6, OneConnection

LEMMA ShakesStep ==
  ASSUME RequestsInv, NEW c \in Conns, Shakes(c)
  PROVE  RequestsInv'
  <1>1. /\ state[c] = "shake" /\ loop = "events"
        /\ UNCHANGED <<extra, out, reqs, task, loop, next, inbox, asked, got>>
    BY DEF Shakes, world
  <1>2. /\ state' \in [Conns -> {"none", "shake", "open", "leaving"}]
        /\ rnb' \in [Conns -> {"none", "header", "body", "frame", "held"}]
        /\ flags' \in [Conns -> SUBSET Flag]
        /\ \A d \in Conns \ {c} : Same(d)
        /\ state'[c] \in {"shake", "leaving", "open"}
        /\ "websocket" \notin flags'[c]
        /\ rnb'[c] = rnb[c] \/ (rnb'[c] = "header" /\ state'[c] = "open")
    <2>1. Types /\ "websocket" \notin flags[c]
      BY <1>1 DEF RequestsInv, Talks
    <2>2. CASE flags' = [flags EXCEPT ![c] = {}] /\ UNCHANGED <<state, rnb>>
      <3>1. {} \in SUBSET Flag /\ state[c] = "shake"
        BY <1>1
      <3>2. /\ flags' \in [Conns -> SUBSET Flag] /\ flags'[c] = {}
            /\ \A d \in Conns \ {c} : flags'[d] = flags[d]
        BY <2>1, <2>2, <3>1 DEF Types
      <3>3. "websocket" \notin flags'[c]
        BY <3>2
      <3> QED BY <1>1, <2>1, <2>2, <3>1, <3>2, <3>3 DEF Types, Same
    <2>3. CASE state' = [state EXCEPT ![c] = "leaving"] /\ UNCHANGED <<rnb, flags>>
      <3>1. state'[c] = "leaving" /\ state' \in [Conns -> {"none", "shake", "open", "leaving"}]
        BY <2>1, <2>3 DEF Types
      <3> QED BY <1>1, <2>1, <2>3, <3>1 DEF Types, Same
    <2>4. CASE /\ state' = [state EXCEPT ![c] = "open"] /\ rnb' = [rnb EXCEPT ![c] = "header"]
               /\ flags' = [flags EXCEPT ![c] = {"idle"}]
      <3>1. {"idle"} \in SUBSET Flag
        BY DEF Flag
      <3> QED BY <1>1, <2>1, <2>4, <3>1 DEF Types, Same
    <2> QED BY <2>2, <2>3, <2>4 DEF Shakes
  <1>3. Types'
    BY <1>1, <1>2 DEF RequestsInv, Types, reqs
  <1>4. BodyIsOf(c)' /\ Pending(c)' = Pending(c)
    BY <1>1, <1>2 DEF RequestsInv, BodyIsOf, Of, Pending, Live, Asleep, reqs, Owned, Talks
  <1>5. Pending(c) = {}
    BY <1>1 DEF RequestsInv, Owned, Of, Pending
  <1>6. Talks(c)'
    <2>1. /\ inbox[c] = <<>> /\ rnb[c] = "none" /\ InOrder(Everything(c)) /\ "websocket" \notin flags[c]
          /\ Len(Everything(c)) <= asked[c] /\ Everything(c) \in Seq(Int)
      BY <1>1, TypesOf DEF RequestsInv, Talks, Fine
    <2>2. Fine(Everything(c), flags'[c]) /\ Everything(c)' = Everything(c)
      BY <1>1, <2>1, AnswerIsFine DEF Everything
    <2>3. ~Asking(c)'
      BY <1>1, <2>1 DEF Asking
    <2> QED BY <1>1, <1>2, <1>4, <1>5, <2>1, <2>2, <2>3 DEF Talks
  <1> QED BY <1>1, <1>2, <1>3, <1>4, <1>6, OneConnection

\* An event that ends the connection, and what the client was sent is right.
LEMMA EndStep ==
  ASSUME RequestsInv, NEW c \in Conns, Disconnected(c, out[c], {}),
         UNCHANGED <<rnb, extra, reqs, task, loop, next, inbox, asked>>
  PROVE  RequestsInv'
  <1>1. out[c] \in Seq(Int) /\ {} \in SUBSET Flag /\ Types /\ Everything(c) \in Seq(Int)
    BY TypesOf DEF RequestsInv
  <1>2. /\ Types' /\ state'[c] = "leaving" /\ flags'[c] = flags[c] \cup {} \cup {"close_sent"} /\ got' = got
        /\ \A d \in Conns \ {c} : Same(d)
    BY <1>1, Leaves DEF Types, reqs, Same
  <1>3. /\ Fine(Everything(c)', flags'[c])
        /\ "websocket" \notin flags[c] => Everything(c)' = Everything(c)
    <2>1. Fine(got[c] \o out[c], flags[c] \cup {})
      BY DEF RequestsInv, Talks, Everything
    <2> QED BY <1>1, <2>1, LeavesFine DEF Everything
  <1>4. BodyIsOf(c)' /\ Pending(c)' = Pending(c) /\ (Asking(c)' <=> Asking(c))
    BY <1>2 DEF RequestsInv, BodyIsOf, Of, Pending, Live, Asleep, reqs, Asking
  <1>5. Talks(c)'
    BY <1>2, <1>3, <1>4 DEF RequestsInv, Talks, OneIsOwed, reqs
  <1> QED BY <1>2, <1>4, <1>5, OneConnection

LEMMA WritableStep ==
  ASSUME RequestsInv, NEW c \in Conns, Writable(c)
  PROVE  RequestsInv'
  <1>1. /\ state[c] = "open" /\ Flushed(c, out[c], TRUE)
        /\ state' = [state EXCEPT ![c] = IF "close" \in flags[c] THEN "leaving" ELSE state[c]]
        /\ UNCHANGED <<rnb, extra, flags, reqs, task, loop, next, inbox, asked>>
    BY DEF Writable
  <1>2. Types /\ out[c] \in Seq(Int) /\ got[c] \in Seq(Int)
    BY DEF RequestsInv, Types
  <1>3. /\ got' = [got EXCEPT ![c] = got[c] \o out[c]] /\ out' = [out EXCEPT ![c] = <<>>]
    BY <1>1 DEF Flushed
  <1>4. got[c] \o out[c] \in Seq(Int) /\ <<>> \in Seq(Int) /\ (got[c] \o out[c]) \o <<>> = got[c] \o out[c]
    BY <1>2, Appended, ConcatEmptySeq
  <1>5. Everything(c)' = Everything(c)
    BY <1>2, <1>3, <1>4 DEF Everything, Types
  <1>6. /\ Types' /\ state'[c] \in {"open", "leaving"} /\ \A d \in Conns \ {c} : Same(d)
    BY <1>1, <1>2, <1>3, <1>4 DEF Types, reqs, Same
  <1>7. BodyIsOf(c)' /\ Pending(c)' = Pending(c) /\ (Asking(c)' <=> Asking(c))
    BY <1>1, <1>6 DEF RequestsInv, BodyIsOf, Of, Pending, Live, Asleep, reqs, Asking
  <1>8. Talks(c)'
    BY <1>1, <1>5, <1>6, <1>7 DEF RequestsInv, Talks, OneIsOwed, reqs
  <1> QED BY <1>1, <1>6, <1>7, <1>8, OneConnection
-----------------------------------------------------------------------------
(* What the clients send.                                                  *)

LEMMA AsksStep ==
  ASSUME RequestsAssumption, RequestsInv, NEW c \in Conns, NEW kind \in Kinds, Asks(c, kind)
  PROVE  RequestsInv'
  <1>1. /\ state[c] = "open" /\ {"close", "websocket"} \cap flags[c] = {}
        /\ Len(got[c]) = asked[c] /\ inbox[c] = <<>> /\ asked' = [asked EXCEPT ![c] = asked[c] + 1]
        /\ UNCHANGED <<conns, reqs, task, loop, next, got>>
    BY DEF Asks
  <1>2. PICK with \in 0..Body(kind) :
          inbox' = [inbox EXCEPT ![c] = <<kind>> \o [i \in 1..with |-> "body"]]
    BY DEF Asks
  <1> DEFINE s == <<kind>> \o [i \in 1..with |-> "body"]
  <1>3. kind \in Kind /\ kind \in Unit /\ "body" \in Unit
    BY DEF RequestsAssumption, Unit
  <1>4. s \in Seq(Unit) /\ s # <<>> /\ Head(s) = kind /\ Len(s) \in Nat \ {0} /\ s[1] = kind
    <2>1. with \in Nat
      BY DEF Body
    <2>2. [i \in 1..with |-> "body"] \in Seq(Unit)
      BY <1>3, <2>1
    <2> QED BY <1>3, <2>2
  <1> HIDE DEF s
  <1>5. Types /\ asked[c] \in Nat /\ out[c] \in Seq(Int) /\ got[c] \in Seq(Int)
    BY DEF RequestsInv, Types
  <1>6. /\ inbox'[c] = s /\ asked'[c] = asked[c] + 1 /\ Types' /\ \A d \in Conns \ {c} : Same(d)
    BY <1>1, <1>2, <1>4, <1>5 DEF Types, s, conns, reqs, Same
  <1>7. Len(Everything(c)) = asked[c]
    <2>1. Len(Everything(c)) = Len(got[c]) + Len(out[c]) /\ Len(out[c]) \in Nat
      BY <1>5, Appended DEF Everything
    <2>2. Len(Everything(c)) <= asked[c]
      BY <1>1 DEF RequestsInv, Talks
    <2> QED BY <1>1, <1>5, <2>1, <2>2
  <1>8. Pending(c) = {} /\ extra[c] = None /\ rnb[c] # "body"
    <2>1. Pending(c) = {}
      BY <1>5, <1>7 DEF RequestsInv, Talks, OneIsOwed
    <2>2. extra[c] = None
      BY <1>1, <2>1 DEF RequestsInv, BodyIsOf, Pending
    <2> QED BY <2>1, <2>2 DEF RequestsInv, BodyIsOf
  <1>9. BodyIsOf(c)' /\ Pending(c)' = {} /\ Everything(c)' = Everything(c)
    BY <1>1, <1>8 DEF BodyIsOf, Pending, Of, Live, conns, reqs, Everything
  <1>10. Talks(c)'
    <2>1. OneIsOwed(c)'
      BY <1>1, <1>5, <1>6, <1>7, <1>9 DEF OneIsOwed, conns
    <2>2. Fine(Everything(c), flags[c]) /\ (rnb[c] = "frame" => "websocket" \in flags[c])
      BY DEF RequestsInv, Talks
    <2>3. Asking(c)'
      BY <1>3, <1>4, <1>6 DEF Asking
    <2>4. Len(Everything(c)') <= asked'[c]
      BY <1>5, <1>6, <1>7, <1>9
    <2> QED BY <1>1, <1>3, <1>4, <1>6, <1>8, <1>9, <2>1, <2>2, <2>3, <2>4 DEF Talks, conns
  <1> QED BY <1>1, <1>6, <1>9, <1>10, OneConnection DEF conns

LEMMA Sent ==
  ASSUME NEW s \in Seq(Unit), NEW x \in Unit \ Kind
  PROVE  /\ Append(s, x) \in Seq(Unit) /\ Len(Append(s, x)) = Len(s) + 1 /\ Len(s) \in Nat
         /\ (\E i \in 1..Len(Append(s, x)) : Append(s, x)[i] \in Kind) <=> (\E i \in 1..Len(s) : s[i] \in Kind)
  <1>1. /\ Append(s, x) \in Seq(Unit) /\ Len(Append(s, x)) = Len(s) + 1 /\ Len(s) \in Nat
        /\ \A i \in 1..(Len(s) + 1) : Append(s, x)[i] = IF i = Len(s) + 1 THEN x ELSE s[i]
    OBVIOUS
  <1> QED BY <1>1

LEMMA SendsBodyStep ==
  ASSUME RequestsInv, NEW c \in Conns, SendsBody(c)
  PROVE  RequestsInv'
  <1>1. /\ state[c] = "open" /\ rnb[c] = "body" /\ Len(inbox[c]) < left[extra[c]]
        /\ inbox' = [inbox EXCEPT ![c] = Append(inbox[c], "body")]
        /\ UNCHANGED <<conns, reqs, task, loop, next, asked, got>>
    BY DEF SendsBody
  <1>2. Types /\ inbox[c] \in Seq(Unit) /\ "body" \in Unit \ Kind
    BY DEF RequestsInv, Types, Unit, Kind
  <1>3. /\ inbox'[c] = Append(inbox[c], "body") /\ Types' /\ \A d \in Conns \ {c} : Same(d)
    <2>1. Append(inbox[c], "body") \in Seq(Unit)
      BY <1>2, Sent
    <2>2. inbox' \in [Conns -> Seq(Unit)] /\ inbox'[c] = Append(inbox[c], "body")
      BY <1>1, <1>2, <2>1 DEF Types
    <2>3. Types'
      BY <1>1, <1>2, <2>2 DEF Types, conns, reqs
    <2>4. \A d \in Conns \ {c} : Same(d)
      BY <1>1, <1>2 DEF Types, conns, Same
    <2> QED BY <2>2, <2>3, <2>4
  <1>4. (Asking(c)' <=> Asking(c)) /\ Len(inbox'[c]) = Len(inbox[c]) + 1 /\ Len(inbox[c]) \in Nat
    BY <1>2, <1>3, Sent DEF Asking
  <1>5. Pending(c)' = Pending(c) /\ Everything(c)' = Everything(c)
    BY <1>1 DEF Pending, Of, Live, conns, reqs, Everything
  <1>6. BodyIsOf(c)'
    <2>1. extra[c] \in Of(c) /\ extra[c] # None
      BY <1>1 DEF RequestsInv, BodyIsOf
    <2>2. left[extra[c]] \in Int
      BY <1>2, <2>1 DEF Types, Of
    <2>3. Len(inbox'[c]) <= left[extra[c]]
      BY <1>1, <1>4, <2>2
    <2> QED BY <1>1, <2>3 DEF RequestsInv, BodyIsOf, Of, Live, Asleep, conns, reqs
  <1>7. Talks(c)'
    BY <1>1, <1>4, <1>5 DEF RequestsInv, Talks, OneIsOwed, conns, reqs
  <1> QED BY <1>1, <1>3, <1>6, <1>7, OneConnection DEF conns

LEMMA SendsFrameStep ==
  ASSUME RequestsInv, NEW c \in Conns, NEW f \in {"message", "bye"}, SendsFrame(c, f)
  PROVE  RequestsInv'
  <1>1. /\ state[c] = "open" /\ "websocket" \in flags[c] /\ asked' = [asked EXCEPT ![c] = asked[c] + 1]
        /\ inbox' = [inbox EXCEPT ![c] = Append(inbox[c], f)]
        /\ UNCHANGED <<conns, reqs, task, loop, next, got>>
    BY DEF SendsFrame
  <1>2. Types /\ inbox[c] \in Seq(Unit) /\ f \in Unit \ Kind /\ asked[c] \in Nat
    BY DEF RequestsInv, Types, Unit, Kind
  <1>3. /\ inbox'[c] = Append(inbox[c], f) /\ Types' /\ \A d \in Conns \ {c} : Same(d)
    <2>1. Append(inbox[c], f) \in Seq(Unit)
      BY <1>2, Sent
    <2>2. inbox' \in [Conns -> Seq(Unit)] /\ inbox'[c] = Append(inbox[c], f) /\ asked' \in [Conns -> Nat]
      BY <1>1, <1>2, <2>1 DEF Types
    <2>3. Types'
      BY <1>1, <1>2, <2>2 DEF Types, conns, reqs
    <2>4. \A d \in Conns \ {c} : Same(d)
      BY <1>1, <1>2 DEF Types, conns, Same
    <2> QED BY <2>2, <2>3, <2>4
  <1>4. Asking(c)' <=> Asking(c)
    BY <1>2, <1>3, Sent DEF Asking
  <1>5. Pending(c) = {} /\ ~Asking(c) /\ extra[c] = None
    <2>1. Pending(c) = {} /\ ~Asking(c)
      BY <1>1 DEF RequestsInv, Talks, OneIsOwed
    <2>2. extra[c] = None
      BY <1>1, <2>1 DEF RequestsInv, BodyIsOf, Pending
    <2> QED BY <2>1, <2>2
  <1>6. Pending(c)' = Pending(c) /\ Everything(c)' = Everything(c) /\ BodyIsOf(c)'
    BY <1>1, <1>5 DEF RequestsInv, Pending, Of, Live, conns, reqs, Everything, BodyIsOf
  <1>7. Talks(c)'
    BY <1>1, <1>4, <1>5, <1>6 DEF RequestsInv, Talks, conns, BodyIsOf
  <1> QED BY <1>1, <1>3, <1>6, <1>7, OneConnection DEF conns

\* A frame is read.
LEMMA Read ==
  ASSUME NEW s \in Seq(Unit), s # <<>>
  PROVE  /\ SubSeq(s, 2, Len(s)) \in Seq(Unit) /\ Len(SubSeq(s, 2, Len(s))) = Len(s) - 1
         /\ Len(s) \in Nat \ {0} /\ Head(s) \in Unit /\ Head(s) = s[1]
         /\ (\E i \in 1..Len(SubSeq(s, 2, Len(s))) : SubSeq(s, 2, Len(s))[i] \in Kind)
              => \E i \in 1..Len(s) : s[i] \in Kind
  <1>1. Len(s) \in Nat \ {0} /\ Head(s) = s[1] /\ s[1] \in Unit /\ 2 \in 1..(Len(s) + 1)
    OBVIOUS
  <1>2. SubSeq(s, 2, Len(s)) \in Seq(Unit)
    OBVIOUS
  <1>3. Len(SubSeq(s, 2, Len(s))) = Len(s) - 1
    OBVIOUS
  <1>4. \A i \in 1..(Len(s) - 1) : SubSeq(s, 2, Len(s))[i] = s[i + 1] /\ i + 1 \in 1..Len(s)
    BY <1>1
  <1> QED BY <1>1, <1>2, <1>3, <1>4

LEMMA FrameRecvStep ==
  ASSUME RequestsInv, NEW c \in Conns, FrameRecv(c)
  PROVE  RequestsInv'
  <1>1. /\ state[c] = "open" /\ rnb[c] = "frame" /\ inbox[c] # <<>>
        /\ inbox' = [inbox EXCEPT ![c] = SubSeq(inbox[c], 2, Len(inbox[c]))]
        /\ UNCHANGED <<rnb, extra, reqs, task, loop, next, asked>>
    BY DEF FrameRecv, Listens, Takes
  <1>2. /\ Types /\ inbox[c] \in Seq(Unit) /\ out[c] \in Seq(Int) /\ got[c] \in Seq(Int)
        /\ Everything(c) \in Seq(Int) /\ flags[c] \in SUBSET Flag
    BY TypesOf DEF RequestsInv
  <1>3. /\ inbox' \in [Conns -> Seq(Unit)] /\ \A d \in Conns \ {c} : inbox'[d] = inbox[d]
        /\ Asking(c)' => Asking(c)
    <2>1. SubSeq(inbox[c], 2, Len(inbox[c])) \in Seq(Unit)
      BY <1>1, <1>2, Read
    <2>2. inbox'[c] = SubSeq(inbox[c], 2, Len(inbox[c]))
      BY <1>1, <1>2 DEF Types
    <2>3. Asking(c)' => Asking(c)
      BY <1>1, <1>2, <2>2, Read DEF Asking
    <2> QED BY <1>1, <1>2, <2>1, <2>3 DEF Types
  <1>4. /\ "websocket" \in flags[c] /\ Fine(Everything(c), flags[c])
        /\ Pending(c) = {} /\ ~Asking(c) /\ extra[c] = None
    <2>1. "websocket" \in flags[c] /\ Fine(Everything(c), flags[c])
      BY <1>1 DEF RequestsInv, Talks
    <2>2. Pending(c) = {} /\ ~Asking(c)
      BY <2>1 DEF RequestsInv, Talks, OneIsOwed
    <2> QED BY <1>1, <2>1, <2>2 DEF RequestsInv, BodyIsOf
  <1>5. \A d \in Conns : Pending(d)' = Pending(d) /\ Of(d)' = Of(d)
    BY <1>1 DEF Pending, Of, Live, reqs
  <1>6. CASE Head(inbox[c]) = "message" /\ UNCHANGED <<state, flags, got>>
             /\ out' = [d \in Conns |->
                  IF d # c /\ "websocket" \in flags[d] /\ state[d] # "leaving"
                    THEN Append(out[d], Frame) ELSE out[d]]
    <2>1. ASSUME NEW d \in Conns PROVE BodyIsOf(d)'
      <3>1. CASE d = c
        BY <1>1, <1>4, <3>1 DEF RequestsInv, BodyIsOf
      <3>2. CASE d # c
        BY <1>1, <1>3, <1>5, <1>6, <3>2 DEF RequestsInv, BodyIsOf, Asleep, reqs
      <3> QED BY <3>1, <3>2
    <2>2. ASSUME NEW d \in Conns
          PROVE  out'[d] \in Seq(Int) /\ Fine(Everything(d)', flags[d])
                 /\ ("websocket" \notin flags[d] => out'[d] = out[d])
      <3>1. /\ out[d] \in Seq(Int) /\ got[d] \in Seq(Int) /\ Frame \in Int /\ Everything(d) \in Seq(Int)
            /\ Fine(Everything(d), flags[d])
        BY <1>2, TypesOf, FrameNumbers DEF RequestsInv, Talks
      <3>2. Append(out[d], Frame) \in Seq(Int) /\ got[d] \o Append(out[d], Frame) = Append(Everything(d), Frame)
        <4> DEFINE s == got[d]
                   q == out[d]
        <4>1. s \in Seq(Int) /\ q \in Seq(Int) /\ Frame \in Int
          BY <3>1
        <4> HIDE DEF s, q
        <4>2. Append(q, Frame) \in Seq(Int)
          BY <4>1, Appended
        <4>3. s \o Append(q, Frame) = Append(s \o q, Frame)
          BY <4>1, Appended
        <4>4. Everything(d) = s \o q
          BY DEF Everything, s, q
        <4> QED BY <4>2, <4>3, <4>4 DEF s, q
      <3>3. CASE out'[d] = out[d]
        BY <1>6, <3>1, <3>3 DEF Everything
      <3>4. CASE out'[d] = Append(out[d], Frame) /\ "websocket" \in flags[d]
        BY <1>6, <3>1, <3>2, <3>4, FrameIsFine DEF Everything
      <3> QED BY <1>6, <3>3, <3>4
    <2>3. Types'
      <3>1. out' \in [Conns -> Seq(Int)]
        BY <1>6, <2>2
      <3> QED BY <1>1, <1>2, <1>3, <1>6, <3>1 DEF Types, reqs
    <2>4. ASSUME NEW d \in Conns PROVE Talks(d)'
      <3>1. Asking(d)' => Asking(d)
        BY <1>3 DEF Asking
      <3>2. CASE "websocket" \in flags[d]
        <4>1. Pending(d) = {} /\ ~Asking(d)
          BY <3>2 DEF RequestsInv, Talks, OneIsOwed
        <4>2. state[d] \notin {"none", "shake"} /\ rnb[d] # "header"
          BY <3>2 DEF RequestsInv, Talks
        <4> QED BY <1>1, <1>5, <1>6, <2>2, <3>1, <3>2, <4>1, <4>2 DEF Talks
      <3>3. CASE "websocket" \notin flags[d]
        <4>1. d # c /\ Same(d)
          BY <1>1, <1>3, <1>4, <1>6, <2>2, <3>3 DEF Same
        <4> QED BY <1>1, <1>5, <4>1, TalksSame DEF RequestsInv, reqs
      <3> QED BY <3>2, <3>3
    <2> QED BY <1>1, <1>6, <2>1, <2>3, <2>4, RequestsAlone
  <1>7. CASE Head(inbox[c]) = "bye" /\ Disconnected(c, out[c] \o Farewell(flags[c]), {"close_sent"})
    <2> DEFINE q == out[c] \o Farewell(flags[c])
               gs == flags[c] \cup {"close_sent"}
    <2>1. q \in Seq(Int) /\ Fine(got[c] \o q, gs)
      <3>1. CASE "close_sent" \in flags[c]
        <4>1. q = out[c]
          BY <1>2, <3>1, ConcatEmptySeq DEF Farewell
        <4> QED BY <1>2, <1>4, <4>1, MoreFlags DEF Everything
      <3>2. CASE "close_sent" \notin flags[c]
        <4>1. q = Append(out[c], CloseFrame)
          BY <1>2, <1>4, <3>2, FrameNumbers, Appended DEF Farewell
        <4>2. q \in Seq(Int) /\ got[c] \o q = Append(Everything(c), CloseFrame)
          <5>1. CloseFrame \in Int
            BY FrameNumbers
          <5>2. Append(out[c], CloseFrame) \in Seq(Int)
            BY <1>2, <5>1
          <5>3. got[c] \o Append(out[c], CloseFrame) = Append(got[c] \o out[c], CloseFrame)
            BY <1>2, <5>1, SentAfter
          <5> QED BY <4>1, <5>2, <5>3 DEF Everything
        <4>3. "websocket" \in gs /\ "close_sent" \in gs
          BY <1>4
        <4> HIDE DEF q, gs
        <4> QED BY <1>2, <1>4, <3>2, <4>2, <4>3, CloseIsFine
      <3> QED BY <3>1, <3>2
    <2>2. {"close_sent"} \in SUBSET Flag
      BY DEF Flag
    <2>3. Disconnected(c, q, {"close_sent"})
      BY <1>7
    <2> HIDE DEF q
    <2>4. /\ state' \in [Conns -> {"none", "shake", "open", "leaving"}] /\ state'[c] = "leaving"
          /\ flags' \in [Conns -> SUBSET Flag] /\ flags'[c] = flags[c] \cup {"close_sent"} \cup {"close_sent"}
          /\ out' \in [Conns -> Seq(Int)] /\ got' = got
          /\ \A d \in Conns \ {c} : state'[d] = state[d] /\ flags'[d] = flags[d] /\ out'[d] = out[d]
      BY <1>2, <2>1, <2>2, <2>3, Leaves
    <2>5. Fine(Everything(c)', flags'[c])
      BY <1>2, <2>1, <2>2, <2>3, LeavesFine
    <2>6. Types' /\ \A d \in Conns \ {c} : Same(d)
      BY <1>1, <1>2, <1>3, <2>4 DEF Types, reqs, Same
    <2>7. "websocket" \in flags'[c]
      BY <1>4, <2>4
    <2>8. BodyIsOf(c)' /\ Talks(c)'
      BY <1>1, <1>3, <1>4, <1>5, <2>4, <2>5, <2>7 DEF BodyIsOf, Talks, RequestsInv
    <2> QED BY <1>1, <2>4, <2>6, <2>8, OneConnection
  <1> QED BY <1>6, <1>7 DEF FrameRecv, Said
-----------------------------------------------------------------------------
(* Answers and new requests.                                               *)

\* An answer goes to its connection, and to no other.
LEMMA AnswerGoes ==
  ASSUME Types, NEW c \in Conns, NEW n \in Int, NEW fs \in SUBSET Flag, Answers(c, n, fs), state[c] \in {"open", "leaving"}
  PROVE  /\ out' \in [Conns -> Seq(Int)] /\ got' \in [Conns -> Seq(Int)]
         /\ state' \in [Conns -> {"none", "shake", "open", "leaving"}] /\ flags' \in [Conns -> SUBSET Flag]
         /\ \A d \in Conns \ {c} : UNCHANGED <<state[d], flags[d], out[d], got[d]>>
         /\ Everything(c)' = Append(Everything(c), n)
         /\ flags'[c] = flags[c] \cup fs
         /\ state'[c] \in {"open", "leaving"} /\ (state[c] = "leaving" => state'[c] = "leaving")
  <1>1. PICK goes \in BOOLEAN :
          /\ Flushed(c, Append(out[c], n), goes)
          /\ flags' = [flags EXCEPT ![c] = flags[c] \cup fs]
          /\ state' = [state EXCEPT ![c] = IF goes /\ "close" \in flags[c] \cup fs THEN "leaving" ELSE state[c]]
    BY DEF Answers
  <1>2. /\ out' \in [Conns -> Seq(Int)] /\ got' \in [Conns -> Seq(Int)]
        /\ \A d \in Conns \ {c} : out'[d] = out[d] /\ got'[d] = got[d]
        /\ Everything(c)' = Append(Everything(c), n)
    BY <1>1, FlushSends
  <1>3. /\ flags' \in [Conns -> SUBSET Flag] /\ flags'[c] = flags[c] \cup fs
        /\ \A d \in Conns \ {c} : flags'[d] = flags[d]
    BY <1>1 DEF Types
  <1>4. /\ state' \in [Conns -> {"none", "shake", "open", "leaving"}]
        /\ state'[c] \in {"open", "leaving"} /\ (state[c] = "leaving" => state'[c] = "leaving")
        /\ \A d \in Conns \ {c} : state'[d] = state[d]
    BY <1>1 DEF Types
  <1> QED BY <1>2, <1>3, <1>4

\* What a new request is, and that the others are what they were.
Listed(r, c, fs, units) ==
  /\ owner' \in [Reqs -> Conns \cup {None}] /\ owner'[r] = c
  /\ rflags' \in [Reqs -> SUBSET {"live", "delete", "asleep", "complete"}] /\ rflags'[r] = {"live"} \cup fs
  /\ left' \in [Reqs -> Int] /\ left'[r] = units
  /\ about' \in [Reqs -> [n : Nat, kind : Unit]] /\ about'[r].n = asked[c]
  /\ awake' \in Seq(Reqs)
  /\ \A s \in Reqs \ {r} : UNCHANGED <<rflags[s], owner[s], left[s], about[s]>>

\* A new request comes to the list, unless it sleeps.
LEMMA NewIsListed ==
  ASSUME RequestsInv, NEW c \in Conns, NEW r \in Reqs, inbox[c] # <<>>, NEW units \in Int,
         NEW fs \in SUBSET {"delete", "asleep", "complete"}, NewRequest(r, c, fs, units),
         UNCHANGED <<task, next, loop>>
  PROVE  Listed(r, c, fs, units) /\ ListIsRight'
  <1>1. /\ ~Live(r) /\ owner' = [owner EXCEPT ![r] = c] /\ rflags' = [rflags EXCEPT ![r] = {"live"} \cup fs]
        /\ left' = [left EXCEPT ![r] = units]
        /\ about' = [about EXCEPT ![r] = [n |-> asked[c], kind |-> Head(inbox[c])]]
        /\ awake' = IF "asleep" \in fs THEN awake ELSE <<r>> \o awake
    BY DEF NewRequest
  <1>2. Types /\ ListIsRight
    BY DEF RequestsInv
  <1>3. {"live"} \cup fs \in SUBSET {"live", "delete", "asleep", "complete"}
    OBVIOUS
  <1>4. [n |-> asked[c], kind |-> Head(inbox[c])] \in [n : Nat, kind : Unit]
    <2>1. Head(inbox[c]) \in Unit /\ asked[c] \in Nat
      BY <1>2, Read DEF Types
    <2> QED BY <2>1
  <1>5. /\ owner' \in [Reqs -> Conns \cup {None}] /\ owner'[r] = c
        /\ rflags' \in [Reqs -> SUBSET {"live", "delete", "asleep", "complete"}] /\ rflags'[r] = {"live"} \cup fs
        /\ \A s \in Reqs \ {r} : UNCHANGED <<rflags[s], owner[s]>>
    BY <1>1, <1>2, <1>3 DEF Types
  <1>6. /\ left' \in [Reqs -> Int] /\ left'[r] = units /\ \A s \in Reqs \ {r} : left'[s] = left[s]
    BY <1>1, <1>2 DEF Types
  <1>7. /\ about' \in [Reqs -> [n : Nat, kind : Unit]] /\ about'[r].n = asked[c]
        /\ \A s \in Reqs \ {r} : about'[s] = about[s]
    BY <1>1, <1>2, <1>4 DEF Types
  <1>8. ~Member(awake, r)
    BY <1>1, <1>2 DEF ListIsRight
  <1>9. /\ <<r>> \in Seq(Reqs) /\ Once(<<r>>) /\ \A s : Member(<<r>>, s) <=> s = r
    BY DEF Once, Member
  <1>10. awake \in Seq(Reqs) /\ Once(awake)
    BY <1>2 DEF Types, ListIsRight
  <1>11. /\ <<r>> \o awake \in Seq(Reqs) /\ Once(<<r>> \o awake)
         /\ \A s : Member(<<r>> \o awake, s) <=> s = r \/ Member(awake, s)
    <2>1. \A s : ~(Member(<<r>>, s) /\ Member(awake, s))
      BY <1>8, <1>9
    <2> DEFINE t == <<r>>
    <2>2. t \in Seq(Reqs) /\ Once(t) /\ (\A s : Member(t, s) <=> s = r) /\ \A s : ~(Member(t, s) /\ Member(awake, s))
      BY <1>9, <2>1
    <2> HIDE DEF t
    <2>3. /\ t \o awake \in Seq(Reqs) /\ Once(t \o awake)
          /\ \A s : Member(t \o awake, s) <=> s = r \/ Member(awake, s)
      BY <1>10, <2>2, Joined
    <2> QED BY <2>3 DEF t
  <1>12. /\ awake' \in Seq(Reqs) /\ Once(awake')
         /\ \A s : Member(awake, s) => Member(awake', s)
         /\ \A s : Member(awake', s) => Member(awake, s) \/ (s = r /\ "asleep" \notin fs)
    BY <1>1, <1>10, <1>11
  <1>13. ListIsRight'
    <2>1. \A s \in Reqs : ~Live(s)' => rflags'[s] = {}
      BY <1>2, <1>5 DEF ListIsRight, Live
    <2>2. \A s \in Reqs : Member(awake', s) => Live(s)' /\ ~Asleep(s)'
      <3> SUFFICES ASSUME NEW s \in Reqs, Member(awake', s) PROVE Live(s)' /\ ~Asleep(s)'
        OBVIOUS
      <3>1. CASE s = r
        BY <1>5, <1>8, <1>12, <3>1 DEF Live, Asleep
      <3>2. CASE s # r
        BY <1>2, <1>5, <1>12, <3>2 DEF ListIsRight, Live, Asleep
      <3> QED BY <3>1, <3>2
    <2>3. \A s \in Reqs : task'[s] = "running" => "complete" \in rflags'[s]
      BY <1>1, <1>2, <1>5 DEF ListIsRight
    <2> QED BY <1>2, <1>12, <2>1, <2>2, <2>3 DEF ListIsRight
  <1> QED BY <1>5, <1>6, <1>7, <1>12, <1>13 DEF Listed

LEMMA NewStep ==
  ASSUME RequestsInv, NEW c \in Conns, NEW r \in Reqs, inbox[c] # <<>>, NEW units \in Int,
         NEW fs \in SUBSET {"delete", "asleep", "complete"}, NewRequest(r, c, fs, units),
         UNCHANGED <<task, next, loop>>, state'[c] \in {"open", "leaving"}, Types',
         \A d \in Conns \ {c} : Same(d), BodyIsOf(c)', Talks(c)'
  PROVE  RequestsInv'
  <1>1. /\ owner'[r] = c /\ ListIsRight'
        /\ \A s \in Reqs \ {r} : UNCHANGED <<rflags[s], owner[s], left[s], about[s]>>
    <2>1. Listed(r, c, fs, units) /\ ListIsRight'
      BY NewIsListed
    <2> QED BY <2>1 DEF Listed
  <1>2. ~Live(r)
    BY DEF NewRequest
  <1>3. \A d \in Conns \ {c} : BodyIsOf(d)' /\ Talks(d)'
    <2> DEFINE R == {r}
    <2>1. /\ \A s \in Reqs \ R : UNCHANGED <<rflags[s], owner[s], left[s], about[s]>>
          /\ \A s \in R : owner[s] \notin Conns \ {c} \/ ~Live(s)
          /\ \A s \in R : owner'[s] \notin Conns \ {c} \/ ~Live(s)'
      BY <1>1, <1>2
    <2> HIDE DEF R
    <2> QED BY <2>1, OthersSame
  <1>4. \A s \in Reqs : Live(s)' => Owned(s)'
    <2> SUFFICES ASSUME NEW s \in Reqs, Live(s)' PROVE Owned(s)'
      OBVIOUS
    <2>1. CASE s = r
      BY <1>1, <2>1 DEF Owned
    <2>2. CASE s # r
      <3>1. Live(s) /\ Owned(s) /\ UNCHANGED <<rflags[s], owner[s]>>
        BY <1>1, <2>2 DEF RequestsInv, Live
      <3>2. \A d \in Conns : state[d] \in {"open", "leaving"} => state'[d] \in {"open", "leaving"}
        BY DEF Same
      <3> QED BY <3>1, <3>2 DEF Owned, Asleep
    <2> QED BY <2>1, <2>2
  <1> QED BY <1>1, <1>3, <1>4 DEF RequestsInv

LEMMA NewIsPending ==
  ASSUME RequestsInv, NEW c \in Conns, NEW r \in Reqs, inbox[c] # <<>>, NEW units \in Int,
         NEW fs \in SUBSET {"delete", "asleep", "complete"}, NewRequest(r, c, fs, units),
         UNCHANGED <<task, next, loop>>
  PROVE  /\ Of(c)' = Of(c) \cup {r}
         /\ Pending(c)' = Pending(c) \cup IF "delete" \in fs THEN {} ELSE {r}
  <1>1. /\ owner'[r] = c /\ rflags'[r] = {"live"} \cup fs
        /\ \A s \in Reqs \ {r} : UNCHANGED <<rflags[s], owner[s], left[s], about[s]>>
    <2>1. Listed(r, c, fs, units)
      BY NewIsListed
    <2> QED BY <2>1 DEF Listed
  <1>2. ~Live(r)
    BY DEF NewRequest
  <1>3. Of(c)' = Of(c) \cup {r}
    BY <1>1, <1>2 DEF Of, Live
  <1>4. "delete" \in rflags'[r] <=> "delete" \in fs
    BY <1>1
  <1>5. \A s \in Of(c) : s # r /\ rflags'[s] = rflags[s]
    BY <1>1, <1>2 DEF Of
  <1> QED BY <1>3, <1>4, <1>5 DEF Pending

LEMMA HeaderRecvStep ==
  ASSUME RequestsAssumption, RequestsInv, NEW c \in Conns, HeaderRecv(c)
  PROVE  RequestsInv'
  <1> DEFINE kind == Head(inbox[c])
             rest == Body(kind) - (Len(inbox[c]) - 1)
             n == asked[c]
             all == Everything(c)
  <1>1. /\ state[c] = "open" /\ rnb[c] = "header" /\ inbox[c] # <<>>
        /\ inbox' = [inbox EXCEPT ![c] = SubSeq(inbox[c], Len(inbox[c]) + 1, Len(inbox[c]))]
        /\ UNCHANGED <<task, loop, next, asked>>
    BY DEF HeaderRecv, Listens, Takes
  <1>2. /\ Types /\ inbox[c] \in Seq(Unit) /\ out[c] \in Seq(Int) /\ got[c] \in Seq(Int)
        /\ all \in Seq(Int) /\ flags[c] \in SUBSET Flag /\ n \in Nat
    BY TypesOf DEF RequestsInv
  <1>3. inbox' \in [Conns -> Seq(Unit)] /\ inbox'[c] = <<>> /\ \A d \in Conns \ {c} : inbox'[d] = inbox[d]
    <2>1. SubSeq(inbox[c], Len(inbox[c]) + 1, Len(inbox[c])) = <<>> /\ <<>> \in Seq(Unit)
      BY <1>2
    <2> QED BY <1>1, <1>2, <2>1 DEF Types
  <1>4. ~Asking(c)' /\ Len(inbox'[c]) = 0
    BY <1>3 DEF Asking
  <1>5. /\ "websocket" \notin flags[c] /\ OneIsOwed(c) /\ Pending(c) = {} /\ extra[c] = None
        /\ kind \in Kind /\ Fine(all, flags[c]) /\ InOrder(all) /\ Len(all) = n - 1
    <2>1. "websocket" \notin flags[c] /\ Fine(all, flags[c])
      BY <1>1 DEF RequestsInv, Talks
    <2>2. OneIsOwed(c) /\ Pending(c) = {} /\ kind \in Kind
      BY <1>1, <2>1 DEF RequestsInv, Talks
    <2>3. extra[c] = None
      BY <1>1 DEF RequestsInv, BodyIsOf
    <2> QED BY <2>1, <2>2, <2>3 DEF OneIsOwed, Fine
  <1>6. ASSUME Answers(c, n, {"close"})
        PROVE  /\ out' \in [Conns -> Seq(Int)] /\ got' \in [Conns -> Seq(Int)]
               /\ state' \in [Conns -> {"none", "shake", "open", "leaving"}] /\ flags' \in [Conns -> SUBSET Flag]
               /\ \A d \in Conns \ {c} : UNCHANGED <<state[d], flags[d], out[d], got[d]>>
               /\ "websocket" \notin flags'[c] /\ state'[c] \in {"open", "leaving"}
               /\ Fine(Everything(c)', flags'[c]) /\ Len(Everything(c)') <= asked'[c]
    <2>1. {"close"} \in SUBSET Flag /\ n \in Int
      BY <1>2 DEF Flag
    <2>2. /\ out' \in [Conns -> Seq(Int)] /\ got' \in [Conns -> Seq(Int)]
          /\ state' \in [Conns -> {"none", "shake", "open", "leaving"}] /\ flags' \in [Conns -> SUBSET Flag]
          /\ \A d \in Conns \ {c} : UNCHANGED <<state[d], flags[d], out[d], got[d]>>
          /\ Everything(c)' = Append(all, n) /\ flags'[c] = flags[c] \cup {"close"}
          /\ state'[c] \in {"open", "leaving"}
      BY <1>1, <1>2, <1>6, <2>1, AnswerGoes
    <2>3. n = Len(all) + 1 /\ Len(Append(all, n)) = n
      <3>1. Len(all) \in Nat /\ Len(Append(all, n)) = Len(all) + 1
        BY <1>2, <2>1, LastOf
      <3> QED BY <1>2, <1>5, <3>1
    <2> HIDE DEF all
    <2>4. Fine(Append(all, n), flags'[c])
      BY <1>2, <1>5, <2>3, AnswerIsFine
    <2>5. Len(Everything(c)') <= asked'[c]
      BY <1>1, <1>2, <2>2, <2>3
    <2> QED BY <1>5, <2>2, <2>4, <2>5
  <1>7. CASE Answers(c, n, {"close"}) /\ UNCHANGED <<rnb, extra, reqs>>
    <2>1. Types'
      BY <1>1, <1>2, <1>3, <1>6, <1>7 DEF Types, reqs
    <2>2. \A d \in Conns \ {c} : Same(d)
      BY <1>1, <1>3, <1>6, <1>7 DEF Same
    <2>3. BodyIsOf(c)' /\ Pending(c)' = {}
      BY <1>1, <1>5, <1>7 DEF RequestsInv, BodyIsOf, Pending, Of, Live, reqs
    <2>4. Talks(c)'
      BY <1>1, <1>3, <1>4, <1>6, <1>7, <2>3 DEF Talks
    <2> QED BY <1>1, <1>6, <1>7, <2>1, <2>2, <2>3, <2>4, OneConnection
  <1>8. ASSUME NEW r \in Reqs, NEW fs \in SUBSET {"delete", "asleep", "complete"}, NEW units \in Int,
               NewRequest(r, c, fs, units)
        PROVE  /\ owner' \in [Reqs -> Conns \cup {None}] /\ owner'[r] = c
               /\ rflags' \in [Reqs -> SUBSET {"live", "delete", "asleep", "complete"}] /\ rflags'[r] = {"live"} \cup fs
               /\ left' \in [Reqs -> Int] /\ left'[r] = units
               /\ about' \in [Reqs -> [n : Nat, kind : Unit]] /\ about'[r].n = n
               /\ awake' \in Seq(Reqs)
               /\ Pending(c)' = IF "delete" \in fs THEN {} ELSE {r}
               /\ r \in Of(c)'
    <2>1. Pending(c)' = Pending(c) \cup (IF "delete" \in fs THEN {} ELSE {r}) /\ Of(c)' = Of(c) \cup {r}
      BY <1>1, <1>8, NewIsPending
    <2>2. Listed(r, c, fs, units)
      BY <1>1, <1>8, NewIsListed
    <2> QED BY <1>5, <2>1, <2>2 DEF Listed
  <1>9. ASSUME NEW r \in Reqs, NewRequest(r, c, {"delete"}, 0), Answers(c, n, {"close"}),
               rnb' = [rnb EXCEPT ![c] = "held"], UNCHANGED extra
        PROVE  RequestsInv'
    <2> DEFINE fs == {"delete"}
    <2>1. fs \in SUBSET {"delete", "asleep", "complete"} /\ "delete" \in fs /\ NewRequest(r, c, fs, 0) /\ 0 \in Int
      BY <1>9
    <2> HIDE DEF fs
    <2>2. Types' /\ rnb'[c] = "held" /\ \A d \in Conns \ {c} : Same(d)
      <3>1. /\ owner' \in [Reqs -> Conns \cup {None}] /\ left' \in [Reqs -> Int] /\ awake' \in Seq(Reqs)
            /\ rflags' \in [Reqs -> SUBSET {"live", "delete", "asleep", "complete"}]
            /\ about' \in [Reqs -> [n : Nat, kind : Unit]]
        BY <1>8, <2>1
      <3>2. rnb' \in [Conns -> {"none", "header", "body", "frame", "held"}] /\ rnb'[c] = "held"
        BY <1>2, <1>9 DEF Types
      <3>3. Types'
        BY <1>1, <1>2, <1>3, <1>6, <1>9, <3>1, <3>2 DEF Types
      <3>4. \A d \in Conns \ {c} : Same(d)
        BY <1>1, <1>2, <1>3, <1>6, <1>9 DEF Types, Same
      <3> QED BY <3>2, <3>3, <3>4
    <2>3. BodyIsOf(c)'
      BY <1>5, <1>9, <2>2 DEF BodyIsOf
    <2>4. Talks(c)'
      <3>1. Pending(c)' = {}
        BY <1>8, <2>1
      <3> QED BY <1>3, <1>4, <1>6, <1>9, <2>2, <3>1 DEF Talks
    <2> QED BY <1>1, <1>6, <1>9, <2>1, <2>2, <2>3, <2>4, NewStep
  <1>10. ASSUME UNCHANGED <<state, flags, out, got>>
         PROVE  Everything(c)' = all /\ OneIsOwed(c)' /\ Len(all) <= asked'[c]
    <2>1. UNCHANGED <<out[c], got[c], flags[c], asked[c]>>
      BY <1>1, <1>10
    <2>2. Everything(c)' = all /\ asked'[c] = n
      BY <2>1 DEF Everything
    <2>3. Len(all) <= n
      BY <1>2, <1>5
    <2> HIDE DEF all, n
    <2> QED BY <1>5, <2>1, <2>2, <2>3 DEF OneIsOwed
  <1>11. ASSUME NEW r \in Reqs, NewRequest(r, c, {"complete"}, 0),
                rnb' = [rnb EXCEPT ![c] = "held"], UNCHANGED <<state, extra, flags, out, got>>
         PROVE  RequestsInv'
    <2> DEFINE fs == {"complete"}
    <2>1. fs \in SUBSET {"delete", "asleep", "complete"} /\ "delete" \notin fs /\ NewRequest(r, c, fs, 0) /\ 0 \in Int
      BY <1>11
    <2> HIDE DEF fs
    <2>2. Types' /\ rnb'[c] = "held" /\ \A d \in Conns \ {c} : Same(d)
      <3>1. /\ owner' \in [Reqs -> Conns \cup {None}] /\ left' \in [Reqs -> Int] /\ awake' \in Seq(Reqs)
            /\ rflags' \in [Reqs -> SUBSET {"live", "delete", "asleep", "complete"}]
            /\ about' \in [Reqs -> [n : Nat, kind : Unit]]
        BY <1>8, <2>1
      <3>2. rnb' \in [Conns -> {"none", "header", "body", "frame", "held"}] /\ rnb'[c] = "held"
        BY <1>2, <1>11 DEF Types
      <3>3. Types'
        BY <1>1, <1>2, <1>3, <1>11, <3>1, <3>2 DEF Types
      <3>4. \A d \in Conns \ {c} : Same(d)
        BY <1>1, <1>2, <1>3, <1>11 DEF Types, Same
      <3> QED BY <3>2, <3>3, <3>4
    <2>3. BodyIsOf(c)'
      BY <1>5, <1>11, <2>2 DEF BodyIsOf
    <2>4. Talks(c)'
      <3>1. Pending(c)' = {r} /\ about'[r].n = asked'[c]
        BY <1>1, <1>8, <2>1
      <3> QED BY <1>1, <1>3, <1>4, <1>5, <1>10, <1>11, <2>2, <3>1 DEF Talks
    <2> QED BY <1>1, <1>11, <2>1, <2>2, <2>3, <2>4, NewStep
  <1>12. ASSUME NEW r \in Reqs, NewRequest(r, c, {"asleep"}, rest), rest > 0, rest \in Int,
                extra' = [extra EXCEPT ![c] = r],
                rnb' = [rnb EXCEPT ![c] = "body"], UNCHANGED <<state, flags, out, got>>
         PROVE  RequestsInv'
    <2> DEFINE fs == {"asleep"}
    <2>1. /\ fs \in SUBSET {"delete", "asleep", "complete"} /\ "delete" \notin fs /\ "complete" \notin fs
          /\ "asleep" \in fs /\ NewRequest(r, c, fs, rest)
      BY <1>12
    <2> HIDE DEF fs, rest
    <2>2. Types' /\ rnb'[c] = "body" /\ extra'[c] = r /\ \A d \in Conns \ {c} : Same(d)
      <3>1. /\ owner' \in [Reqs -> Conns \cup {None}] /\ left' \in [Reqs -> Int] /\ awake' \in Seq(Reqs)
            /\ rflags' \in [Reqs -> SUBSET {"live", "delete", "asleep", "complete"}]
            /\ about' \in [Reqs -> [n : Nat, kind : Unit]]
        BY <1>8, <1>12, <2>1
      <3>2. rnb' \in [Conns -> {"none", "header", "body", "frame", "held"}] /\ rnb'[c] = "body"
        BY <1>2, <1>12 DEF Types
      <3>3. Types'
        BY <1>1, <1>2, <1>3, <1>12, <3>1, <3>2 DEF Types
      <3>4. \A d \in Conns \ {c} : Same(d)
        BY <1>1, <1>2, <1>3, <1>12 DEF Types, Same
      <3> QED BY <1>2, <1>12, <3>2, <3>3, <3>4 DEF Types
    <2>3. BodyIsOf(c)'
      <3>1. /\ r \in Of(c)' /\ Asleep(r)' /\ "complete" \notin rflags'[r] /\ "delete" \notin rflags'[r]
            /\ left'[r] = rest
        BY <1>8, <1>12, <2>1 DEF Asleep
      <3>2. Len(inbox'[c]) <= left'[r]
        BY <1>4, <1>12, <3>1
      <3>3. extra'[c] # None
        BY <2>2 DEF RequestsAssumption
      <3> QED BY <2>2, <3>1, <3>2, <3>3 DEF BodyIsOf
    <2>4. Talks(c)'
      <3>1. Pending(c)' = {r} /\ about'[r].n = asked'[c]
        BY <1>1, <1>8, <1>12, <2>1
      <3> QED BY <1>1, <1>3, <1>4, <1>5, <1>10, <1>12, <2>2, <3>1 DEF Talks
    <2> QED BY <1>1, <1>12, <2>1, <2>2, <2>3, <2>4, NewStep
  <1>13. rest \in Int
    BY <1>2 DEF Body
  <1> QED BY <1>7, <1>9, <1>11, <1>12, <1>13 DEF HeaderRecv
-----------------------------------------------------------------------------
(* Steps of one request.                                                   *)

\* A request that wakes comes to the list.
LEMMA Woken ==
  ASSUME RequestsAssumption, Types, ListIsRight, NEW rs \in SUBSET Reqs
  PROVE  /\ Wakes(rs) \in Seq(Reqs) /\ Once(Wakes(rs))
         /\ \A s : Member(awake, s) => Member(Wakes(rs), s)
         /\ \A s : Member(Wakes(rs), s) => Member(awake, s) \/ (s \in rs /\ Asleep(s))
  <1> DEFINE S == {r \in rs : Asleep(r)}
             t == SetToSeq(S)
  <1>1. IsFiniteSet(S)
    BY FS_Subset DEF RequestsAssumption
  <1>2. S \in SUBSET Reqs /\ \A s \in S : s \in rs /\ Asleep(s)
    OBVIOUS
  <1>3. Wakes(rs) = awake \o t
    BY DEF Wakes
  <1> HIDE DEF S
  <1>4. t \in Seq(S) /\ Once(t)
    BY <1>1, FiniteToSeq
  <1> HIDE DEF t
  <1>5. t \in Seq(Reqs) /\ \A s : Member(t, s) => s \in S
    <2>1. Len(t) \in Nat /\ t \in [1..Len(t) -> S]
      BY <1>4
    <2>2. t \in [1..Len(t) -> Reqs]
      BY <1>2, <2>1
    <2> QED BY <2>1, <2>2 DEF Member
  <1>6. awake \in Seq(Reqs) /\ Once(awake)
    BY DEF Types, ListIsRight
  <1>7. \A s : ~(Member(awake, s) /\ Member(t, s))
    BY <1>2, <1>5 DEF ListIsRight
  <1>8. /\ awake \o t \in Seq(Reqs) /\ Once(awake \o t)
        /\ \A s : Member(awake \o t, s) <=> Member(awake, s) \/ Member(t, s)
    BY <1>4, <1>5, <1>6, <1>7, Joined
  <1> QED BY <1>2, <1>3, <1>5, <1>8

\* A step of one request and of its connection.
LEMMA OneRequest ==
  ASSUME RequestsInv, Types', ListIsRight', NEW c \in Conns, NEW r \in Reqs,
         \A d \in Conns \ {c} : Same(d),
         \A s \in Reqs \ {r} : UNCHANGED <<rflags[s], owner[s], left[s], about[s]>>,
         owner[r] \notin Conns \ {c}, owner'[r] \notin Conns \ {c}, Live(r)' => Owned(r)',
         state[c] \in {"open", "leaving"} => state'[c] \in {"open", "leaving"},
         BodyIsOf(c)', Talks(c)'
  PROVE  RequestsInv'
  <1>1. \A d \in Conns \ {c} : BodyIsOf(d)' /\ Talks(d)'
    <2> DEFINE R == {r}
    <2>1. /\ \A s \in Reqs \ R : UNCHANGED <<rflags[s], owner[s], left[s], about[s]>>
          /\ \A s \in R : owner[s] \notin Conns \ {c} \/ ~Live(s)
          /\ \A s \in R : owner'[s] \notin Conns \ {c} \/ ~Live(s)'
      OBVIOUS
    <2> HIDE DEF R
    <2> QED BY <2>1, OthersSame
  <1>2. \A s \in Reqs : Live(s)' => Owned(s)'
    <2> SUFFICES ASSUME NEW s \in Reqs, s # r, Live(s)' PROVE Owned(s)'
      OBVIOUS
    <2>1. Live(s) /\ Owned(s) /\ UNCHANGED <<rflags[s], owner[s]>>
      BY DEF RequestsInv, Live
    <2>2. \A d \in Conns : state[d] \in {"open", "leaving"} => state'[d] \in {"open", "leaving"}
      BY DEF Same
    <2> QED BY <2>1, <2>2 DEF Owned, Asleep
  <1> QED BY <1>1, <1>2 DEF RequestsInv

\* A step of one request whose body is not coming, which stays as pending as
\* it was; the connections stay.
LEMMA RequestOnly ==
  ASSUME RequestsInv, Types', ListIsRight', NEW r \in Reqs, \A d \in Conns : Same(d),
         \A s \in Reqs \ {r} : UNCHANGED <<rflags[s], owner[s], left[s], about[s]>>,
         \A d \in Conns : extra[d] # r,
         \A d \in Conns : Pending(d)' = Pending(d) /\ (r \in Pending(d) => about'[r] = about[r]),
         Live(r)' => Owned(r)'
  PROVE  RequestsInv'
  <1>1. ASSUME NEW d \in Conns PROVE BodyIsOf(d)' /\ Talks(d)'
    <2>1. \A s \in Pending(d) : about'[s].n = about[s].n
      BY DEF Pending, Of
    <2>2. extra[d] # None => extra[d] \in Reqs \ {r}
      BY DEF RequestsInv, BodyIsOf, Of
    <2>3. BodyIsOf(d)'
      BY <2>2, BodySame DEF RequestsInv
    <2> QED BY <2>1, <2>3, TalksSame DEF RequestsInv
  <1>2. \A s \in Reqs : Live(s)' => Owned(s)'
    <2> SUFFICES ASSUME NEW s \in Reqs, s # r, Live(s)' PROVE Owned(s)'
      OBVIOUS
    <2>1. Live(s) /\ Owned(s) /\ UNCHANGED <<rflags[s], owner[s]>>
      BY DEF RequestsInv, Live
    <2> QED BY <2>1 DEF Owned, Asleep, Same
  <1> QED BY <1>1, <1>2 DEF RequestsInv

LEMMA TaskHandledStep ==
  ASSUME RequestsAssumption, RequestsInv, NEW r \in Reqs, TaskHandled(r)
  PROVE  RequestsInv'
  <1>1. /\ task[r] = "running" /\ loop = "events"
        /\ task' = [task EXCEPT ![r] = "finished"] /\ awake' = Wakes({r})
        /\ rflags' = [rflags EXCEPT ![r] = rflags[r] \ {"asleep"}]
        /\ UNCHANGED <<state, rnb, extra, flags, out, owner, left, about, loop, next, inbox, asked, got>>
    BY DEF TaskHandled, conns, world
  <1>2. Types /\ ListIsRight /\ {r} \in SUBSET Reqs
    BY DEF RequestsInv
  <1>3. "complete" \in rflags[r] /\ Live(r) /\ next = None
    BY <1>1, <1>2 DEF ListIsRight
  <1>4. /\ rflags' \in [Reqs -> SUBSET {"live", "delete", "asleep", "complete"}] /\ rflags'[r] = rflags[r] \ {"asleep"}
        /\ \A s \in Reqs \ {r} : rflags'[s] = rflags[s]
    <2>1. rflags[r] \ {"asleep"} \in SUBSET {"live", "delete", "asleep", "complete"}
      BY <1>2 DEF Types
    <2> QED BY <1>1, <1>2, <2>1 DEF Types
  <1>5. /\ awake' \in Seq(Reqs) /\ Once(awake')
        /\ \A s : Member(awake', s) => Member(awake, s) \/ s = r
    BY <1>1, <1>2, Woken
  <1>6. Types'
    BY <1>1, <1>2, <1>4, <1>5 DEF Types
  <1>7. ListIsRight'
    <2>1. \A s \in Reqs : Live(s)' <=> Live(s)
      BY <1>4 DEF Live
    <2>2. \A s \in Reqs : ~Live(s)' => rflags'[s] = {}
      BY <1>2, <1>3, <1>4, <2>1 DEF ListIsRight
    <2>3. \A s \in Reqs : Member(awake', s) => Live(s)' /\ ~Asleep(s)'
      BY <1>2, <1>3, <1>4, <1>5, <2>1 DEF ListIsRight, Asleep
    <2>4. \A s \in Reqs : task'[s] = "running" => "complete" \in rflags'[s]
      BY <1>1, <1>2, <1>4 DEF ListIsRight, Types
    <2> QED BY <1>1, <1>3, <1>5, <2>2, <2>3, <2>4 DEF ListIsRight
  <1>8. \A d \in Conns : extra[d] # r
    <2>1. r # None
      BY DEF RequestsAssumption
    <2> QED BY <1>3, <2>1 DEF RequestsInv, BodyIsOf
  <1>9. \A d \in Conns : Pending(d)' = Pending(d)
    BY <1>1, <1>4 DEF Pending, Of, Live
  <1>10. Live(r)' => Owned(r)'
    BY <1>1, <1>3, <1>4 DEF RequestsInv, Owned, Asleep
  <1>11. \A d \in Conns : Same(d)
    BY <1>1 DEF Same
  <1> QED BY <1>1, <1>4, <1>6, <1>7, <1>8, <1>9, <1>10, <1>11, RequestOnly

LEMMA BodyRecvStep ==
  ASSUME RequestsAssumption, RequestsInv, NEW c \in Conns, NEW r, r = extra[c], BodyRecv(c)
  PROVE  RequestsInv'
  <1> DEFINE all == Everything(c)
  <1>1. /\ state[c] = "open" /\ rnb[c] = "body" /\ inbox[c] # <<>> /\ loop = "events"
        /\ inbox' = [inbox EXCEPT ![c] = SubSeq(inbox[c], 2, Len(inbox[c]))]
        /\ left' = [left EXCEPT ![r] = left[r] - 1]
        /\ UNCHANGED <<owner, about, task, loop, next, asked>>
    BY DEF BodyRecv, Listens, Takes
  <1>2. /\ Types /\ inbox[c] \in Seq(Unit) /\ out[c] \in Seq(Int) /\ got[c] \in Seq(Int)
        /\ all \in Seq(Int) /\ flags[c] \in SUBSET Flag /\ asked[c] \in Nat
    BY TypesOf DEF RequestsInv
  <1>3. /\ r \in Of(c) /\ r \in Reqs /\ owner[r] = c /\ Live(r) /\ Asleep(r) /\ "complete" \notin rflags[r]
        /\ "delete" \notin rflags[r] /\ Len(inbox[c]) <= left[r] /\ left[r] \in Int
    <2>1. /\ r \in Of(c) /\ Asleep(r) /\ "complete" \notin rflags[r]
          /\ "delete" \notin rflags[r] /\ Len(inbox[c]) <= left[r]
      BY <1>1 DEF RequestsInv, BodyIsOf
    <2> QED BY <1>2, <2>1 DEF Of, Types
  <1>4. /\ Pending(c) = {r} /\ OneIsOwed(c) /\ about[r].n = asked[c] /\ ~Asking(c)
        /\ "websocket" \notin flags[c] /\ Fine(all, flags[c]) /\ InOrder(all) /\ Len(all) = asked[c] - 1
    <2>1. Pending(c) = {r}
      BY <1>1, <1>3 DEF RequestsInv, Talks, Pending
    <2>2. OneIsOwed(c) /\ about[r].n = asked[c] /\ ~Asking(c)
      BY <2>1 DEF RequestsInv, Talks
    <2> QED BY <2>1, <2>2 DEF OneIsOwed, RequestsInv, Talks, Fine
  <1>5. /\ inbox' \in [Conns -> Seq(Unit)] /\ \A d \in Conns \ {c} : inbox'[d] = inbox[d]
        /\ inbox'[c] \in Seq(Unit) /\ Len(inbox'[c]) = Len(inbox[c]) - 1 /\ Len(inbox[c]) \in Nat /\ ~Asking(c)'
    <2>1. /\ SubSeq(inbox[c], 2, Len(inbox[c])) \in Seq(Unit) /\ Len(SubSeq(inbox[c], 2, Len(inbox[c]))) = Len(inbox[c]) - 1
          /\ Len(inbox[c]) \in Nat
      BY <1>1, <1>2, Read
    <2>2. inbox'[c] = SubSeq(inbox[c], 2, Len(inbox[c]))
      BY <1>1, <1>2 DEF Types
    <2>3. ~Asking(c)'
      BY <1>1, <1>2, <1>4, <2>2, Read DEF Asking
    <2> QED BY <1>1, <1>2, <2>1, <2>2, <2>3 DEF Types
  <1>6. /\ left' \in [Reqs -> Int] /\ left'[r] = left[r] - 1 /\ \A s \in Reqs \ {r} : left'[s] = left[s]
    <2>1. left[r] - 1 \in Int
      BY <1>3
    <2> QED BY <1>1, <1>2, <1>3, <2>1 DEF Types
  <1>7. Len(inbox'[c]) <= left'[r] /\ (left[r] = 1 => inbox'[c] = <<>>)
    <2>1. Len(inbox'[c]) <= left'[r]
      BY <1>3, <1>5, <1>6
    <2>2. left[r] = 1 => Len(inbox'[c]) = 0
      <3>1. Len(inbox'[c]) \in Nat
        BY <1>5
      <3> QED BY <1>3, <1>6, <2>1, <3>1
    <2> QED BY <1>5, <2>1, <2>2, EmptySeq
  <1>8. owner'[r] = c /\ owner[r] \notin Conns \ {c}
    BY <1>1, <1>3
  <1> HIDE DEF all
  <1>9. CASE UNCHANGED <<rnb, extra, rflags, awake, state, flags, out, got>>
    <2>1. Types' /\ ListIsRight'
      <3>1. Types'
        BY <1>1, <1>2, <1>5, <1>6, <1>9 DEF Types
      <3> QED BY <1>1, <1>9, <3>1 DEF RequestsInv, ListIsRight, Live, Asleep
    <2>2. \A d \in Conns \ {c} : Same(d)
      BY <1>1, <1>5, <1>9 DEF Same
    <2>3. BodyIsOf(c)'
      BY <1>1, <1>3, <1>7, <1>9 DEF RequestsInv, BodyIsOf, Of, Live, Asleep
    <2>4. Pending(c)' = Pending(c) /\ Everything(c)' = Everything(c)
      BY <1>1, <1>9 DEF Pending, Of, Live, Everything
    <2>5. Talks(c)'
      BY <1>1, <1>5, <1>9, <2>4 DEF RequestsInv, Talks, OneIsOwed
    <2>6. Owned(r)'
      BY <1>1, <1>3, <1>9 DEF Owned
    <2> QED BY <1>1, <1>3, <1>6, <1>8, <1>9, <2>1, <2>2, <2>3, <2>5, <2>6, OneRequest
  <1>10. CASE /\ left[r] = 1 /\ extra' = [extra EXCEPT ![c] = None] /\ awake' = Wakes({r})
              /\ rflags' = [rflags EXCEPT ![r] = (rflags[r] \ {"asleep"}) \cup {"complete"}]
              /\ rnb' = [rnb EXCEPT ![c] = "header"] /\ UNCHANGED <<state, flags, out, got>>
    <2>1. /\ rflags' \in [Reqs -> SUBSET {"live", "delete", "asleep", "complete"}]
          /\ rflags'[r] = (rflags[r] \ {"asleep"}) \cup {"complete"}
          /\ \A s \in Reqs \ {r} : rflags'[s] = rflags[s]
      <3>1. (rflags[r] \ {"asleep"}) \cup {"complete"} \in SUBSET {"live", "delete", "asleep", "complete"}
        BY <1>2, <1>3 DEF Types
      <3> QED BY <1>2, <1>3, <1>10, <3>1 DEF Types
    <2>2. /\ awake' \in Seq(Reqs) /\ Once(awake')
          /\ \A s : Member(awake, s) => Member(awake', s)
          /\ \A s : Member(awake', s) => Member(awake, s) \/ s = r
      <3>1. {r} \in SUBSET Reqs /\ Types /\ ListIsRight
        BY <1>3 DEF RequestsInv
      <3> QED BY <1>10, <3>1, Woken
    <2>3. /\ extra' \in [Conns -> Reqs \cup {None}] /\ extra'[c] = None
          /\ rnb' \in [Conns -> {"none", "header", "body", "frame", "held"}] /\ rnb'[c] = "header"
          /\ \A d \in Conns \ {c} : Same(d)
      BY <1>1, <1>2, <1>5, <1>10 DEF Types, Same
    <2>4. Types'
      BY <1>1, <1>2, <1>5, <1>6, <1>10, <2>1, <2>2, <2>3 DEF Types
    <2>5. \A s \in Reqs : Live(s)' <=> Live(s)
      BY <2>1 DEF Live
    <2>6. ListIsRight'
      <3>1. \A s \in Reqs : ~Live(s)' => rflags'[s] = {}
        BY <1>3, <2>1, <2>5 DEF RequestsInv, ListIsRight
      <3>2. \A s \in Reqs : Member(awake', s) => Live(s)' /\ ~Asleep(s)'
        BY <1>3, <2>1, <2>2, <2>5 DEF RequestsInv, ListIsRight, Asleep
      <3>3. \A s \in Reqs : task'[s] = "running" => "complete" \in rflags'[s]
        BY <1>1, <2>1 DEF RequestsInv, ListIsRight
      <3> QED BY <1>1, <2>2, <3>1, <3>2, <3>3 DEF RequestsInv, ListIsRight
    <2>7. BodyIsOf(c)'
      BY <2>3 DEF BodyIsOf
    <2>8. Talks(c)'
      <3>1. Pending(c)' = Pending(c)
        BY <1>1, <1>3, <2>1, <2>5 DEF Pending, Of
      <3>2. Everything(c)' = Everything(c) /\ OneIsOwed(c)'
        BY <1>1, <1>4, <1>10 DEF Everything, OneIsOwed
      <3>3. Len(Everything(c)) <= asked[c] /\ UNCHANGED <<flags[c], asked[c], state[c]>>
        BY <1>1, <1>4, <1>10 DEF RequestsInv, Talks
      <3> QED BY <1>1, <1>4, <1>5, <1>7, <1>10, <2>3, <3>1, <3>2, <3>3 DEF Talks, all
    <2>9. Owned(r)'
      BY <1>1, <1>3, <1>10 DEF Owned
    <2> QED BY <1>1, <1>3, <1>6, <1>8, <1>10, <2>1, <2>3, <2>4, <2>6, <2>7, <2>8, <2>9, OneRequest
  <1>11. CASE /\ rflags' = [rflags EXCEPT ![r] = rflags[r] \cup {"delete"}]
              /\ Disconnected(c, Append(out[c], about[r].n), {"close"}) /\ UNCHANGED <<rnb, extra, awake>>
    <2> DEFINE q == Append(out[c], about[r].n)
               fs == {"close"}
    <2>1. /\ q \in Seq(Int) /\ got[c] \o q = Append(all, asked[c]) /\ asked[c] = Len(all) + 1
          /\ Len(Append(all, asked[c])) = asked[c]
      <3>1. asked[c] \in Int /\ asked[c] = Len(all) + 1
        <4>1. Len(all) \in Nat
          BY <1>2
        <4> QED BY <1>2, <1>4, <4>1
      <3>2. got[c] \o Append(out[c], asked[c]) = Append(got[c] \o out[c], asked[c])
        BY <1>2, <3>1, SentAfter
      <3>3. Len(Append(all, asked[c])) = Len(all) + 1
        BY <1>2, <3>1, LastOf
      <3>4. Append(out[c], asked[c]) \in Seq(Int) /\ Append(out[c], about[r].n) = Append(out[c], asked[c])
        BY <1>2, <1>4, <3>1
      <3> QED BY <3>1, <3>2, <3>3, <3>4 DEF Everything, all
    <2>2. fs \in SUBSET Flag /\ "websocket" \notin flags[c] \cup fs
      BY <1>4 DEF Flag
    <2>3. Disconnected(c, q, fs)
      BY <1>11
    <2>4. Fine(got[c] \o q, flags[c] \cup fs)
      BY <1>2, <1>4, <2>1, AnswerIsFine
    <2> HIDE DEF q, fs
    <2>5. /\ state' \in [Conns -> {"none", "shake", "open", "leaving"}] /\ state'[c] = "leaving"
          /\ flags' \in [Conns -> SUBSET Flag] /\ flags'[c] = flags[c] \cup fs \cup {"close_sent"}
          /\ out' \in [Conns -> Seq(Int)] /\ got' = got
          /\ \A d \in Conns \ {c} : state'[d] = state[d] /\ flags'[d] = flags[d] /\ out'[d] = out[d]
      BY <1>2, <2>1, <2>2, <2>3, Leaves
    <2>6. Fine(Everything(c)', flags'[c]) /\ Everything(c)' = got[c] \o q
      BY <1>2, <2>1, <2>2, <2>3, <2>4, LeavesFine
    <2>7. /\ rflags' \in [Reqs -> SUBSET {"live", "delete", "asleep", "complete"}]
          /\ rflags'[r] = rflags[r] \cup {"delete"}
          /\ \A s \in Reqs \ {r} : rflags'[s] = rflags[s]
      <3>1. rflags[r] \cup {"delete"} \in SUBSET {"live", "delete", "asleep", "complete"}
        BY <1>2, <1>3 DEF Types
      <3> QED BY <1>2, <1>3, <1>11, <3>1 DEF Types
    <2>8. \A s \in Reqs : (Live(s)' <=> Live(s)) /\ (Asleep(s)' <=> Asleep(s))
      BY <2>7 DEF Live, Asleep
    <2>9. Types' /\ ListIsRight'
      <3>1. Types'
        BY <1>1, <1>2, <1>5, <1>6, <1>11, <2>5, <2>7 DEF Types
      <3>2. \A s \in Reqs : ~Live(s)' => rflags'[s] = {}
        BY <1>3, <2>7, <2>8 DEF RequestsInv, ListIsRight
      <3>3. \A s \in Reqs : task'[s] = "running" => "complete" \in rflags'[s]
        BY <1>1, <2>7 DEF RequestsInv, ListIsRight
      <3> QED BY <1>1, <1>11, <2>8, <3>1, <3>2, <3>3 DEF RequestsInv, ListIsRight
    <2>10. \A d \in Conns \ {c} : Same(d)
      BY <1>1, <1>5, <1>11, <2>5 DEF Same
    <2>11. BodyIsOf(c)'
      <3>1. r \in Of(c)' /\ Asleep(r)' /\ "complete" \notin rflags'[r]
        BY <1>3, <1>8, <2>7, <2>8 DEF Of
      <3>2. extra'[c] = r /\ r # None /\ rnb'[c] = "body"
        BY <1>1, <1>3, <1>11 DEF RequestsAssumption
      <3> QED BY <1>7, <2>5, <3>1, <3>2 DEF BodyIsOf
    <2>12. Talks(c)'
      <3>1. Pending(c)' = {}
        BY <1>1, <1>3, <1>4, <2>7, <2>8 DEF Pending, Of
      <3>2. "websocket" \notin flags'[c]
        BY <2>2, <2>5
      <3>3. Len(Everything(c)') <= asked'[c]
        BY <1>1, <1>2, <2>1, <2>6
      <3> QED BY <1>1, <1>5, <1>11, <2>5, <2>6, <3>1, <3>2, <3>3 DEF Talks
    <2>13. Owned(r)'
      BY <1>8, <2>5 DEF Owned
    <2> QED BY <1>1, <1>3, <1>6, <1>8, <1>11, <2>5, <2>7, <2>9, <2>10, <2>11, <2>12, <2>13, OneRequest
  <1> QED BY <1>9, <1>10, <1>11 DEF BodyRecv
-----------------------------------------------------------------------------
(* http_process and the prune.                                             *)

\* The request after r on the list is another one, which stays there.
LEMMA GoesOnWith ==
  ASSUME Types, ListIsRight, NEW r \in Reqs, Member(awake, r)
  PROVE  /\ Place(r) \in 1..Len(awake) /\ awake[Place(r)] = r
         /\ \A s \in {Following(r), None} : s # None => s \in Reqs /\ s # r /\ Member(awake, s)
  <1>1. awake \in Seq(Reqs) /\ Once(awake) /\ DOMAIN awake = 1..Len(awake) /\ Len(awake) \in Nat
    BY DEF Types, ListIsRight
  <1>2. Place(r) \in 1..Len(awake) /\ awake[Place(r)] = r
    BY <1>1 DEF Place, Member
  <1>3. ASSUME Following(r) # None
        PROVE  Following(r) \in Reqs /\ Following(r) # r /\ Member(awake, Following(r))
    <2> DEFINE k == Place(r)
    <2>1. k # Len(awake) /\ Following(r) = awake[k + 1]
      BY <1>3 DEF Following
    <2> HIDE DEF k
    <2>2. k \in 1..Len(awake) /\ awake[k] = r
      BY <1>2 DEF k
    <2>3. k + 1 \in 1..Len(awake) /\ k + 1 # k
      <3>1. \A n \in Nat : \A i \in 1..n : i # n => i + 1 \in 1..n /\ i + 1 # i
        OBVIOUS
      <3> QED BY <1>1, <2>1, <2>2, <3>1
    <2>4. awake[k + 1] # r /\ awake[k + 1] \in Reqs
      BY <1>1, <2>2, <2>3 DEF Once
    <2> QED BY <2>1, <2>3, <2>4 DEF Member
  <1> QED BY <1>2, <1>3

\* The request that http_process goes on with.
LEMMA NextIsRight ==
  ASSUME RequestsInv, next # None
  PROVE  /\ next \in Reqs /\ loop = "process" /\ Member(awake, next) /\ Live(next) /\ ~Asleep(next)
         /\ \A d \in Conns : extra[d] # next
         /\ \A s \in {Following(next), None} : s # None => s \in Reqs /\ s # next /\ Member(awake, s)
  <1>1. next \in Reqs /\ loop = "process" /\ Member(awake, next) /\ Live(next) /\ ~Asleep(next)
    BY DEF RequestsInv, ListIsRight, Types
  <1>2. \A d \in Conns : extra[d] # next
    BY <1>1 DEF RequestsInv, BodyIsOf
  <1>3. \A s \in {Following(next), None} : s # None => s \in Reqs /\ s # next /\ Member(awake, s)
    BY <1>1, GoesOnWith DEF RequestsInv
  <1> QED BY <1>1, <1>2, <1>3

\* The list without a request.
LEMMA Left ==
  ASSUME Types, ListIsRight, NEW r \in Reqs, Member(awake, r)
  PROVE  /\ Without(r) \in Seq(Reqs) /\ Once(Without(r))
         /\ \A s : Member(Without(r), s) <=> Member(awake, s) /\ s # r
  <1>1. awake \in Seq(Reqs) /\ Once(awake) /\ Place(r) \in 1..Len(awake) /\ awake[Place(r)] = r
    BY GoesOnWith DEF Types, ListIsRight
  <1> QED BY <1>1, Shorter DEF Without

LEMMA HandlerAnswersStep ==
  ASSUME RequestsAssumption, RequestsInv, NEW r, r = next, NEW c, c = owner[r],
         next # None, {"complete", "delete"} \cap rflags[r] = {"complete"}, GoesOn(r),
         HandlerAnswers(r, c), UNCHANGED <<extra, owner, left, about, loop, inbox, asked>>
  PROVE  RequestsInv'
  <1> DEFINE all == Everything(c)
             fs == IF about[r].kind = "close" THEN {"close"}
                   ELSE IF about[r].kind = "upgrade" THEN {"websocket"} ELSE {}
  <1>1. /\ Answers(c, about[r].n, fs)
        /\ rnb' = [rnb EXCEPT ![c] = IF "close" \in flags'[c] THEN rnb[c] ELSE Resumes(about[r].kind)]
        /\ rflags' = [rflags EXCEPT ![r] = rflags[r] \cup {"delete"}]
        /\ UNCHANGED <<awake, task>>
    BY DEF HandlerAnswers
  <1>2. /\ r \in Reqs /\ loop = "process" /\ Member(awake, r) /\ Live(r) /\ ~Asleep(r)
        /\ \A d \in Conns : extra[d] # r
        /\ next' # None => next' \in Reqs /\ Member(awake, next')
        /\ next' \in Reqs \cup {None}
    BY NextIsRight DEF GoesOn
  <1>3. "complete" \in rflags[r] /\ "delete" \notin rflags[r]
    OBVIOUS
  <1>4. c \in Conns /\ state[c] \in {"open", "leaving"} /\ r \in Pending(c)
    <2>1. c \in Conns /\ state[c] \in {"open", "leaving"}
      BY <1>2, <1>3 DEF RequestsInv, Owned
    <2> QED BY <1>2, <1>3, <2>1 DEF Pending, Of
  <1>5. /\ Types /\ inbox[c] \in Seq(Unit) /\ out[c] \in Seq(Int) /\ got[c] \in Seq(Int)
        /\ all \in Seq(Int) /\ flags[c] \in SUBSET Flag /\ asked[c] \in Nat
    BY <1>4, TypesOf DEF RequestsInv
  <1>6. /\ Pending(c) = {r} /\ OneIsOwed(c) /\ about[r].n = asked[c] /\ ~Asking(c)
        /\ "websocket" \notin flags[c] /\ "close" \notin flags[c]
        /\ Fine(all, flags[c]) /\ InOrder(all) /\ Len(all) = asked[c] - 1
    <2>1. Pending(c) = {r} /\ OneIsOwed(c) /\ about[r].n = asked[c] /\ ~Asking(c)
      BY <1>4 DEF RequestsInv, Talks
    <2> QED BY <1>4, <2>1 DEF OneIsOwed, RequestsInv, Talks, Fine
  <1>7. rnb[c] \notin {"body", "frame"} /\ extra[c] = None /\ inbox[c] = <<>>
    <2>1. rnb[c] # "body"
      <3>1. rnb[c] = "body" => Pending(c) \subseteq {extra[c]}
        BY <1>4 DEF RequestsInv, Talks
      <3> QED BY <1>2, <1>4, <3>1
    <2>2. extra[c] = None /\ rnb[c] # "frame"
      BY <1>4, <1>6, <2>1 DEF RequestsInv, BodyIsOf, Talks
    <2> QED BY <1>4, <1>6, <2>1, <2>2 DEF RequestsInv, Talks
  <1>8. /\ fs \in SUBSET Flag /\ about[r].n \in Int /\ fs \in {{"close"}, {"websocket"}, {}}
        /\ "websocket" \in fs <=> about[r].kind = "upgrade"
        /\ "close" \in fs => about[r].kind = "close"
    BY <1>5, <1>6 DEF Flag
  <1> HIDE DEF fs, all
  <1>9. /\ out' \in [Conns -> Seq(Int)] /\ got' \in [Conns -> Seq(Int)]
        /\ state' \in [Conns -> {"none", "shake", "open", "leaving"}] /\ flags' \in [Conns -> SUBSET Flag]
        /\ \A d \in Conns \ {c} : UNCHANGED <<state[d], flags[d], out[d], got[d]>>
        /\ Everything(c)' = Append(all, asked[c]) /\ flags'[c] = flags[c] \cup fs
        /\ state'[c] \in {"open", "leaving"}
    BY <1>1, <1>4, <1>5, <1>6, <1>8, AnswerGoes DEF all
  <1>10. /\ rnb' \in [Conns -> {"none", "header", "body", "frame", "held"}]
         /\ \A d \in Conns \ {c} : rnb'[d] = rnb[d]
         /\ rnb'[c] # "body" /\ (rnb'[c] = "frame" => "websocket" \in flags'[c])
         /\ rnb'[c] = "header" => "websocket" \notin flags'[c]
    <2>1. rnb'[c] = IF "close" \in flags'[c] THEN rnb[c] ELSE Resumes(about[r].kind)
      BY <1>1, <1>4, <1>5 DEF Types
    <2>2. rnb' \in [Conns -> {"none", "header", "body", "frame", "held"}] /\ \A d \in Conns \ {c} : rnb'[d] = rnb[d]
      BY <1>1, <1>4, <1>5 DEF Types, Resumes
    <2>3. CASE "close" \in flags'[c]
      <3>1. "close" \in fs /\ about[r].kind # "upgrade"
        BY <1>6, <1>8, <1>9, <2>3
      <3>2. "websocket" \notin flags'[c]
        BY <1>6, <1>8, <1>9, <3>1
      <3> QED BY <1>7, <2>1, <2>2, <2>3, <3>2
    <2>4. CASE "close" \notin flags'[c]
      <3>1. CASE about[r].kind = "upgrade"
        BY <1>8, <1>9, <2>1, <2>2, <2>4, <3>1 DEF Resumes
      <3>2. CASE about[r].kind # "upgrade"
        <4>1. "websocket" \notin flags'[c]
          BY <1>6, <1>8, <1>9, <3>2
        <4> QED BY <2>1, <2>2, <2>4, <3>2, <4>1 DEF Resumes
      <3> QED BY <3>1, <3>2
    <2> QED BY <2>3, <2>4
  <1>11. /\ rflags' \in [Reqs -> SUBSET {"live", "delete", "asleep", "complete"}]
         /\ rflags'[r] = rflags[r] \cup {"delete"}
         /\ \A s \in Reqs \ {r} : rflags'[s] = rflags[s]
    <2>1. rflags[r] \cup {"delete"} \in SUBSET {"live", "delete", "asleep", "complete"}
      BY <1>2, <1>5 DEF Types
    <2> QED BY <1>1, <1>2, <1>5, <2>1 DEF Types
  <1>12. \A s \in Reqs : (Live(s)' <=> Live(s)) /\ (Asleep(s)' <=> Asleep(s))
    BY <1>11 DEF Live, Asleep
  <1>13. Types'
    BY <1>1, <1>2, <1>5, <1>9, <1>10, <1>11 DEF Types
  <1>14. ListIsRight'
    <2>1. \A s \in Reqs : ~Live(s)' => rflags'[s] = {}
      BY <1>2, <1>11, <1>12 DEF RequestsInv, ListIsRight
    <2>2. \A s \in Reqs : task'[s] = "running" => "complete" \in rflags'[s]
      BY <1>1, <1>11 DEF RequestsInv, ListIsRight
    <2> QED BY <1>1, <1>2, <1>12, <2>1, <2>2 DEF RequestsInv, ListIsRight
  <1>15. \A d \in Conns \ {c} : Same(d)
    BY <1>9, <1>10 DEF Same
  <1>16. BodyIsOf(c)'
    BY <1>7, <1>10 DEF BodyIsOf
  <1>17. Talks(c)'
    <2>1. Pending(c)' = {}
      BY <1>2, <1>6, <1>11, <1>12 DEF Pending, Of
    <2>2. ~Asking(c)' /\ inbox'[c] = <<>>
      BY <1>7 DEF Asking
    <2>3. asked[c] = Len(all) + 1 /\ Len(Append(all, asked[c])) = asked[c]
      <3>1. Len(all) \in Nat /\ asked[c] \in Int
        BY <1>5
      <3>2. asked[c] = Len(all) + 1
        BY <1>5, <1>6, <3>1
      <3> QED BY <1>5, <3>1, <3>2, LastOf
    <2>4. Fine(Append(all, asked[c]), flags'[c])
      BY <1>5, <1>6, <2>3, AnswerIsFine
    <2>5. Len(Everything(c)') <= asked'[c]
      BY <1>5, <1>9, <2>3
    <2> QED BY <1>9, <1>10, <2>1, <2>2, <2>4, <2>5 DEF Talks
  <1>18. Owned(r)'
    BY <1>4, <1>9 DEF Owned
  <1> QED BY <1>1, <1>2, <1>4, <1>9, <1>11, <1>13, <1>14, <1>15, <1>16, <1>17, <1>18, OneRequest

LEMMA HandlerFailsStep ==
  ASSUME RequestsAssumption, RequestsInv, NEW r, r = next, NEW c, c = owner[r],
         next # None, {"complete", "delete"} \cap rflags[r] = {"complete"}, GoesOn(r),
         HandlerFails(r, c), UNCHANGED <<extra, owner, left, about, loop, inbox, asked>>
  PROVE  RequestsInv'
  <1>1. /\ Disconnected(c, out[c], {})
        /\ rflags' = [rflags EXCEPT ![r] = rflags[r] \cup {"delete"}]
        /\ UNCHANGED <<rnb, awake, task>>
    BY DEF HandlerFails
  <1>2. /\ r \in Reqs /\ loop = "process" /\ Member(awake, r) /\ Live(r) /\ ~Asleep(r)
        /\ \A d \in Conns : extra[d] # r
        /\ next' # None => next' \in Reqs /\ Member(awake, next')
        /\ next' \in Reqs \cup {None}
    BY NextIsRight DEF GoesOn
  <1>3. "complete" \in rflags[r] /\ "delete" \notin rflags[r]
    OBVIOUS
  <1>4. c \in Conns /\ state[c] \in {"open", "leaving"} /\ r \in Pending(c)
    <2>1. c \in Conns /\ state[c] \in {"open", "leaving"}
      BY <1>2, <1>3 DEF RequestsInv, Owned
    <2> QED BY <1>2, <1>3, <2>1 DEF Pending, Of
  <1>5. /\ Types /\ out[c] \in Seq(Int) /\ {} \in SUBSET Flag
    BY <1>4, TypesOf DEF RequestsInv
  <1>6. Pending(c) = {r} /\ ~Asking(c)
    BY <1>4 DEF RequestsInv, Talks
  <1>7. /\ state' \in [Conns -> {"none", "shake", "open", "leaving"}] /\ state'[c] = "leaving"
        /\ flags' \in [Conns -> SUBSET Flag] /\ flags'[c] = flags[c] \cup {} \cup {"close_sent"}
        /\ out' \in [Conns -> Seq(Int)] /\ got' = got
        /\ \A d \in Conns \ {c} : state'[d] = state[d] /\ flags'[d] = flags[d] /\ out'[d] = out[d]
    BY <1>1, <1>4, <1>5, Leaves
  <1>8. /\ Fine(Everything(c)', flags'[c])
        /\ "websocket" \notin flags[c] => Everything(c)' = Everything(c)
    <2>1. Fine(got[c] \o out[c], flags[c] \cup {})
      <3>1. flags[c] \cup {} = flags[c]
        OBVIOUS
      <3> QED BY <1>4, <3>1 DEF RequestsInv, Talks, Everything
    <2> QED BY <1>1, <1>4, <1>5, <2>1, LeavesFine DEF Everything
  <1>9. /\ rflags' \in [Reqs -> SUBSET {"live", "delete", "asleep", "complete"}]
        /\ rflags'[r] = rflags[r] \cup {"delete"}
        /\ \A s \in Reqs \ {r} : rflags'[s] = rflags[s]
    <2>1. rflags[r] \cup {"delete"} \in SUBSET {"live", "delete", "asleep", "complete"}
      BY <1>2, <1>5 DEF Types
    <2> QED BY <1>1, <1>2, <1>5, <2>1 DEF Types
  <1>10. \A s \in Reqs : (Live(s)' <=> Live(s)) /\ (Asleep(s)' <=> Asleep(s))
    BY <1>9 DEF Live, Asleep
  <1>11. Types'
    BY <1>1, <1>2, <1>5, <1>7, <1>9 DEF Types
  <1>12. ListIsRight'
    <2>1. \A s \in Reqs : ~Live(s)' => rflags'[s] = {}
      BY <1>2, <1>9, <1>10 DEF RequestsInv, ListIsRight
    <2>2. \A s \in Reqs : task'[s] = "running" => "complete" \in rflags'[s]
      BY <1>1, <1>9 DEF RequestsInv, ListIsRight
    <2> QED BY <1>1, <1>2, <1>10, <2>1, <2>2 DEF RequestsInv, ListIsRight
  <1>13. \A d \in Conns \ {c} : Same(d)
    BY <1>1, <1>7 DEF Same
  <1>14. BodyIsOf(c)'
    <2>1. extra[c] # r
      BY <1>2, <1>4
    <2> QED BY <1>1, <1>4, <1>7, <1>9, <1>10, <2>1 DEF RequestsInv, BodyIsOf, Of
  <1>15. Talks(c)'
    <2>1. Pending(c)' = {}
      BY <1>2, <1>6, <1>9, <1>10 DEF Pending, Of
    <2>2. ~Asking(c)'
      BY <1>6 DEF Asking
    <2>3. "websocket" \notin flags'[c] =>
            /\ Len(Everything(c)') <= asked'[c]
            /\ inbox'[c] # <<>> /\ rnb'[c] # "body" => FALSE
      BY <1>1, <1>4, <1>6, <1>7, <1>8 DEF RequestsInv, Talks
    <2>4. "websocket" \in flags'[c] <=> "websocket" \in flags[c]
      BY <1>7
    <2> QED BY <1>1, <1>4, <1>7, <1>8, <2>1, <2>2, <2>3, <2>4 DEF RequestsInv, Talks
  <1>16. Owned(r)'
    BY <1>4, <1>7 DEF Owned
  <1> QED BY <1>1, <1>2, <1>4, <1>7, <1>9, <1>11, <1>12, <1>13, <1>14, <1>15, <1>16, OneRequest

LEMMA HandlerWaitsStep ==
  ASSUME RequestsAssumption, RequestsInv, NEW r, r = next,
         next # None, {"complete", "delete"} \cap rflags[r] = {"complete"}, GoesOn(r),
         HandlerWaits(r), UNCHANGED <<extra, owner, left, about, loop, inbox, asked>>
  PROVE  RequestsInv'
  <1>1. /\ task' = [task EXCEPT ![r] = "running"] /\ awake' = Without(r)
        /\ rflags' = [rflags EXCEPT ![r] = rflags[r] \cup {"asleep"}]
        /\ UNCHANGED <<state, rnb, flags, out, got>>
    BY DEF HandlerWaits
  <1>2. /\ r \in Reqs /\ loop = "process" /\ Member(awake, r) /\ Live(r) /\ ~Asleep(r)
        /\ \A d \in Conns : extra[d] # r
        /\ next' # None => next' \in Reqs /\ next' # r /\ Member(awake, next')
        /\ next' \in Reqs \cup {None}
    BY NextIsRight DEF GoesOn
  <1>3. "complete" \in rflags[r] /\ "delete" \notin rflags[r] /\ Types /\ ListIsRight
    BY DEF RequestsInv
  <1>4. /\ awake' \in Seq(Reqs) /\ Once(awake')
        /\ \A s : Member(awake', s) <=> Member(awake, s) /\ s # r
    BY <1>1, <1>2, <1>3, Left
  <1>5. /\ rflags' \in [Reqs -> SUBSET {"live", "delete", "asleep", "complete"}]
        /\ rflags'[r] = rflags[r] \cup {"asleep"}
        /\ \A s \in Reqs \ {r} : rflags'[s] = rflags[s]
    <2>1. rflags[r] \cup {"asleep"} \in SUBSET {"live", "delete", "asleep", "complete"}
      BY <1>2, <1>3 DEF Types
    <2> QED BY <1>1, <1>2, <1>3, <2>1 DEF Types
  <1>6. Types'
    BY <1>1, <1>2, <1>3, <1>4, <1>5 DEF Types
  <1>7. \A s \in Reqs : Live(s)' <=> Live(s)
    BY <1>5 DEF Live
  <1>8. ListIsRight'
    <2>1. \A s \in Reqs : ~Live(s)' => rflags'[s] = {}
      BY <1>2, <1>3, <1>5, <1>7 DEF ListIsRight
    <2>2. \A s \in Reqs : Member(awake', s) => Live(s)' /\ ~Asleep(s)'
      BY <1>3, <1>4, <1>5, <1>7 DEF ListIsRight, Asleep
    <2>3. \A s \in Reqs : task'[s] = "running" => "complete" \in rflags'[s]
      BY <1>1, <1>3, <1>5 DEF ListIsRight, Types
    <2> QED BY <1>2, <1>4, <2>1, <2>2, <2>3 DEF ListIsRight
  <1>9. \A d \in Conns : Same(d)
    BY <1>1 DEF Same
  <1>10. \A d \in Conns : Pending(d)' = Pending(d)
    BY <1>5, <1>7 DEF Pending, Of
  <1>11. Owned(r)'
    BY <1>1, <1>2, <1>3 DEF RequestsInv, Owned
  <1> QED BY <1>2, <1>5, <1>6, <1>8, <1>9, <1>10, <1>11, RequestOnly

LEMMA FreeRequestStep ==
  ASSUME RequestsAssumption, RequestsInv, NEW r, r = next, FreeRequest
  PROVE  RequestsInv'
  <1>1. /\ next # None /\ GoesOn(r) /\ UNCHANGED <<state, rnb, extra, flags, out, loop, inbox, asked, got>>
    BY DEF FreeRequest, conns, world
  <1>2. /\ r \in Reqs /\ loop = "process" /\ Member(awake, r) /\ Live(r) /\ ~Asleep(r)
        /\ \A d \in Conns : extra[d] # r
        /\ next' # None => next' \in Reqs /\ next' # r /\ Member(awake, next')
        /\ next' \in Reqs \cup {None}
    BY <1>1, NextIsRight DEF GoesOn
  <1>3. Types /\ ListIsRight /\ \A d \in Conns : Same(d)
    BY <1>1 DEF RequestsInv, Same
  <1>4. CASE UNCHANGED <<rflags, owner, awake, task, left, about>>
    <2>1. Types'
      BY <1>1, <1>2, <1>3, <1>4 DEF Types
    <2>2. ListIsRight'
      BY <1>1, <1>2, <1>3, <1>4 DEF ListIsRight, Live, Asleep
    <2>3. \A d \in Conns : Pending(d)' = Pending(d)
      BY <1>4 DEF Pending, Of, Live
    <2>4. Owned(r)'
      BY <1>1, <1>2, <1>4 DEF RequestsInv, Owned, Asleep
    <2> QED BY <1>2, <1>3, <1>4, <2>1, <2>2, <2>3, <2>4, RequestOnly
  <1>5. CASE /\ "delete" \in rflags[r] /\ TasksDone(r)
             /\ rflags' = [rflags EXCEPT ![r] = {}] /\ owner' = [owner EXCEPT ![r] = None]
             /\ awake' = Without(r)
             /\ task' = [task EXCEPT ![r] = IF task[r] = "running" THEN task[r] ELSE "none"]
             /\ left' = [left EXCEPT ![r] = 0] /\ about' = [about EXCEPT ![r] = NoRequest]
    <2>1. /\ awake' \in Seq(Reqs) /\ Once(awake')
          /\ \A s : Member(awake', s) <=> Member(awake, s) /\ s # r
      BY <1>2, <1>3, <1>5, Left
    <2>2. /\ rflags' \in [Reqs -> SUBSET {"live", "delete", "asleep", "complete"}] /\ rflags'[r] = {}
          /\ owner' \in [Reqs -> Conns \cup {None}] /\ owner'[r] = None
          /\ left' \in [Reqs -> Int]
          /\ \A s \in Reqs \ {r} : rflags'[s] = rflags[s] /\ owner'[s] = owner[s] /\ left'[s] = left[s]
      BY <1>2, <1>3, <1>5 DEF Types
    <2>3. /\ about' \in [Reqs -> [n : Nat, kind : Unit]]
          /\ \A s \in Reqs \ {r} : about'[s] = about[s]
      <3>1. NoRequest \in [n : Nat, kind : Unit]
        BY DEF NoRequest, Unit, Kind
      <3> QED BY <1>2, <1>3, <1>5, <3>1 DEF Types
    <2>4. task' \in [Reqs -> {"none", "running", "finished"}] /\ task'[r] = "none"
          /\ \A s \in Reqs \ {r} : task'[s] = task[s]
      BY <1>2, <1>3, <1>5 DEF Types, TasksDone
    <2>5. Types'
      BY <1>1, <1>2, <1>3, <2>1, <2>2, <2>3, <2>4 DEF Types
    <2>6. ~Live(r)' /\ ~Asleep(r)' /\ \A s \in Reqs \ {r} : (Live(s)' <=> Live(s)) /\ (Asleep(s)' <=> Asleep(s))
      BY <2>2 DEF Live, Asleep
    <2>7. ListIsRight'
      <3>1. \A s \in Reqs : ~Live(s)' => rflags'[s] = {}
        BY <1>3, <2>2, <2>6 DEF ListIsRight
      <3>2. \A s \in Reqs : Member(awake', s) => Live(s)' /\ ~Asleep(s)'
        BY <1>3, <2>1, <2>6 DEF ListIsRight
      <3>3. \A s \in Reqs : task'[s] = "running" => "complete" \in rflags'[s]
        BY <1>3, <2>2, <2>4 DEF ListIsRight
      <3> QED BY <1>1, <1>2, <2>1, <3>1, <3>2, <3>3 DEF ListIsRight
    <2>8. ASSUME NEW d \in Conns PROVE Pending(d)' = Pending(d) /\ r \notin Pending(d)
      BY <1>5, <2>2, <2>6 DEF Pending, Of
    <2> QED BY <1>2, <1>3, <2>2, <2>3, <2>5, <2>6, <2>7, <2>8, RequestOnly
  <1> QED BY <1>4, <1>5 DEF FreeRequest

LEMMA RemovedStep ==
  ASSUME RequestsAssumption, RequestsInv, NEW c \in Conns, NEW R, R = Of(c), Removed(c)
  PROVE  RequestsInv'
  <1>1. /\ loop = "prune" /\ state[c] = "leaving" /\ awake' = Wakes(R)
        /\ owner' = [r \in Reqs |-> IF r \in R THEN None ELSE owner[r]]
        /\ rflags' = [r \in Reqs |-> IF r \in R THEN (rflags[r] \ {"asleep"}) \cup {"delete"} ELSE rflags[r]]
        /\ state' = [state EXCEPT ![c] = "none"] /\ rnb' = [rnb EXCEPT ![c] = "none"]
        /\ extra' = [extra EXCEPT ![c] = None] /\ flags' = [flags EXCEPT ![c] = {}]
        /\ out' = [out EXCEPT ![c] = <<>>] /\ inbox' = [inbox EXCEPT ![c] = <<>>]
        /\ got' = [got EXCEPT ![c] = <<>>]
        /\ UNCHANGED <<left, about, task, loop, next, asked>>
    BY DEF Removed, WakesAll
  <1>2. /\ Types /\ ListIsRight /\ R \in SUBSET Reqs /\ next = None /\ None \notin Conns
        /\ \A r \in R : Live(r) /\ owner[r] = c
    BY <1>1 DEF RequestsInv, ListIsRight, Of, RequestsAssumption
  <1>3. /\ awake' \in Seq(Reqs) /\ Once(awake')
        /\ \A s : Member(awake', s) => Member(awake, s) \/ s \in R
    BY <1>1, <1>2, Woken
  <1>4. /\ rflags' \in [Reqs -> SUBSET {"live", "delete", "asleep", "complete"}]
        /\ \A r \in R : rflags'[r] = (rflags[r] \ {"asleep"}) \cup {"delete"} /\ owner'[r] = None
        /\ \A r \in Reqs \ R : rflags'[r] = rflags[r] /\ owner'[r] = owner[r]
        /\ owner' \in [Reqs -> Conns \cup {None}]
    <2>1. \A r \in Reqs : (rflags[r] \ {"asleep"}) \cup {"delete"} \in SUBSET {"live", "delete", "asleep", "complete"}
      BY <1>2 DEF Types
    <2> QED BY <1>1, <1>2, <2>1 DEF Types
  <1>5. /\ state' \in [Conns -> {"none", "shake", "open", "leaving"}] /\ state'[c] = "none"
        /\ rnb' \in [Conns -> {"none", "header", "body", "frame", "held"}] /\ rnb'[c] = "none"
        /\ extra' \in [Conns -> Reqs \cup {None}] /\ extra'[c] = None
        /\ flags' \in [Conns -> SUBSET Flag] /\ flags'[c] = {}
    BY <1>1, <1>2 DEF Types
  <1>6. /\ out' \in [Conns -> Seq(Int)] /\ out'[c] = <<>> /\ got' \in [Conns -> Seq(Int)] /\ got'[c] = <<>>
        /\ inbox' \in [Conns -> Seq(Unit)] /\ inbox'[c] = <<>>
    BY <1>1, <1>2 DEF Types
  <1>7. \A d \in Conns \ {c} : Same(d)
    BY <1>1, <1>2 DEF Types, Same
  <1>8. Types'
    BY <1>1, <1>2, <1>3, <1>4, <1>5, <1>6 DEF Types
  <1>9. \A s \in Reqs : /\ Live(s)' <=> Live(s)
                        /\ Asleep(s)' <=> Asleep(s) /\ s \notin R
    BY <1>4 DEF Live, Asleep
  <1>10. ListIsRight'
    <2>1. \A s \in Reqs : ~Live(s)' => rflags'[s] = {}
      BY <1>2, <1>4, <1>9 DEF ListIsRight
    <2>2. \A s \in Reqs : Member(awake', s) => Live(s)' /\ ~Asleep(s)'
      BY <1>2, <1>3, <1>9 DEF ListIsRight
    <2>3. \A s \in Reqs : task'[s] = "running" => "complete" \in rflags'[s]
      BY <1>1, <1>2, <1>4 DEF ListIsRight
    <2> QED BY <1>1, <1>2, <1>3, <2>1, <2>2, <2>3 DEF ListIsRight
  <1>11. \A d \in Conns \ {c} : BodyIsOf(d)' /\ Talks(d)'
    <2>1. \A s \in Reqs \ R : UNCHANGED <<rflags[s], owner[s], left[s], about[s]>>
      BY <1>1, <1>4
    <2>2. /\ \A s \in R : owner[s] \notin Conns \ {c} \/ ~Live(s)
          /\ \A s \in R : owner'[s] \notin Conns \ {c} \/ ~Live(s)'
      BY <1>2, <1>4
    <2> QED BY <1>7, <2>1, <2>2, OthersSame
  <1>12. \A s \in Reqs : Live(s)' => Owned(s)'
    <2> SUFFICES ASSUME NEW s \in Reqs, Live(s)' PROVE Owned(s)'
      OBVIOUS
    <2>1. CASE s \in R
      BY <1>4, <1>9, <2>1 DEF Owned
    <2>2. CASE s \notin R
      <3>1. Live(s) /\ Owned(s) /\ owner[s] # c
        BY <1>9, <2>2 DEF RequestsInv, Of
      <3>2. owner[s] \in Conns => state'[owner[s]] = state[owner[s]]
        BY <1>7, <3>1 DEF Same
      <3> QED BY <1>4, <1>9, <2>2, <3>1, <3>2 DEF Owned
    <2> QED BY <2>1, <2>2
  <1>13. BodyIsOf(c)' /\ Pending(c)' = {}
    BY <1>2, <1>4, <1>5, <1>9 DEF BodyIsOf, Pending, Of
  <1>14. Talks(c)'
    <2>1. Everything(c)' = <<>> /\ Len(Everything(c)') = 0
      BY <1>6 DEF Everything
    <2>2. Fine(<<>>, {})
      BY DEF Fine, AnswersFirst, ClosedOnce, Unclosed, InOrder
    <2>3. ~Asking(c)' /\ Len(Everything(c)') <= asked'[c]
      BY <1>1, <1>2, <1>6, <2>1 DEF Asking, Types
    <2> QED BY <1>5, <1>6, <1>13, <2>1, <2>2, <2>3 DEF Talks
  <1> QED BY <1>8, <1>10, <1>11, <1>12, <1>13, <1>14 DEF RequestsInv
-----------------------------------------------------------------------------
(* The worker.                                                             *)

\* The loop goes on; it begins with the head of the list.
LEMMA LoopGoesOn ==
  ASSUME RequestsInv, UNCHANGED <<conns, reqs, task, world>>,
         next' # None => next' \in Reqs /\ loop' = "process" /\ Member(awake, next')
  PROVE  RequestsInv'
  <1>1. UNCHANGED <<state, rnb, extra, flags, out, owner, rflags, left, about, awake, task, inbox, asked, got>>
    BY DEF conns, reqs, world
  <1>2. Types' /\ ListIsRight'
    <2>1. Types'
      BY <1>1 DEF RequestsInv, Types
    <2> QED BY <1>1, <2>1 DEF RequestsInv, ListIsRight, Live, Asleep
  <1>3. \A r \in Reqs : Live(r)' => Owned(r)'
    BY <1>1 DEF RequestsInv, Live, Owned, Asleep
  <1>4. ASSUME NEW d \in Conns PROVE BodyIsOf(d)' /\ Talks(d)'
    <2>1. Pending(d)' = Pending(d) /\ Same(d)
      BY <1>1 DEF Pending, Of, Live, Same
    <2>2. BodyIsOf(d)'
      BY <1>1, <2>1, BodySame DEF RequestsInv
    <2> QED BY <1>1, <2>1, <2>2, TalksSame DEF RequestsInv
  <1> QED BY <1>2, <1>3, <1>4 DEF RequestsInv

LEMMA BeginPassStep ==
  ASSUME RequestsInv, BeginPass
  PROVE  RequestsInv'
  <1>1. /\ loop' = "process" /\ next' = (IF awake = <<>> THEN None ELSE Head(awake))
        /\ UNCHANGED <<conns, reqs, task, world>>
    BY DEF BeginPass
  <1>2. awake # <<>> => Head(awake) \in Reqs /\ Member(awake, Head(awake))
    <2>1. awake \in Seq(Reqs)
      BY DEF RequestsInv, Types
    <2>2. awake # <<>> => Head(awake) = awake[1] /\ 1 \in 1..Len(awake) /\ awake[1] \in Reqs
      BY <2>1
    <2> QED BY <2>2 DEF Member
  <1> QED BY <1>1, <1>2, LoopGoesOn

LEMMA RequestsStep ==
  ASSUME RequestsAssumption, RequestsInv, [Next]_vars
  PROVE  RequestsInv'
  <1>1. CASE BeginPass
    BY <1>1, BeginPassStep
  <1>2. CASE HandleRequest
    <2>1. PICK r : r = next
      OBVIOUS
    <2>2. PICK c : c = owner[r]
      OBVIOUS
    <2>3. /\ next # None /\ {"complete", "delete"} \cap rflags[r] = {"complete"} /\ GoesOn(r)
          /\ HandlerAnswers(r, c) \/ HandlerFails(r, c) \/ HandlerWaits(r)
          /\ UNCHANGED <<extra, owner, left, about, loop, inbox, asked>>
      BY <1>2, <2>1, <2>2 DEF HandleRequest
    <2> QED BY <2>1, <2>2, <2>3, HandlerAnswersStep, HandlerFailsStep, HandlerWaitsStep
  <1>3. CASE FreeRequest
    <2>1. PICK r : r = next
      OBVIOUS
    <2> QED BY <1>3, <2>1, FreeRequestStep
  <1>4. CASE EndPass \/ EndPrune
    <2>1. next' = None /\ UNCHANGED <<conns, reqs, task, world>>
      BY <1>4 DEF EndPass, EndPrune, RequestsInv, ListIsRight
    <2> QED BY <2>1, LoopGoesOn
  <1>5. CASE UNCHANGED vars
    BY <1>5, LoopGoesOn DEF vars, RequestsInv, ListIsRight, Types
  <1>6. ASSUME NEW c \in Conns, Reads(c) PROVE RequestsInv'
    <2>1. PICK r : r = extra[c]
      OBVIOUS
    <2> QED BY <1>6, <2>1, HeaderRecvStep, BodyRecvStep, FrameRecvStep DEF Reads
  <1>7. ASSUME NEW c \in Conns, Removed(c) PROVE RequestsInv'
    <2>1. PICK R : R = Of(c)
      OBVIOUS
    <2> QED BY <1>7, <2>1, RemovedStep
  <1>8. ASSUME NEW c \in Conns, HangUp(c) \/ Expires(c) PROVE RequestsInv'
    BY <1>8, EndStep DEF HangUp, Expires
  <1>9. ASSUME NEW c \in Conns, Accept(c) \/ Shakes(c) \/ Writable(c) \/ SendsBody(c) PROVE RequestsInv'
    BY <1>9, AcceptStep, ShakesStep, WritableStep, SendsBodyStep
  <1>10. ASSUME NEW c \in Conns, NEW kind \in Kinds, Asks(c, kind) PROVE RequestsInv'
    BY <1>10, AsksStep
  <1>11. ASSUME NEW c \in Conns, NEW f \in {"message", "bye"}, SendsFrame(c, f) PROVE RequestsInv'
    BY <1>11, SendsFrameStep
  <1>12. ASSUME NEW r \in Reqs, TaskHandled(r) PROVE RequestsInv'
    BY <1>12, TaskHandledStep
  <1> QED BY <1>1, <1>2, <1>3, <1>4, <1>5, <1>6, <1>7, <1>8, <1>9, <1>10, <1>11, <1>12 DEF Next, LoopStep

LEMMA RequestsStart ==
  ASSUME Init
  PROVE  RequestsInv
  <1>1. /\ state = [c \in Conns |-> "none"] /\ rnb = [c \in Conns |-> "none"]
        /\ extra = [c \in Conns |-> None] /\ flags = [c \in Conns |-> {}]
        /\ out = [c \in Conns |-> <<>>] /\ inbox = [c \in Conns |-> <<>>]
        /\ asked = [c \in Conns |-> 0] /\ got = [c \in Conns |-> <<>>]
    BY DEF Init
  <1>2. /\ owner = [r \in Reqs |-> None] /\ rflags = [r \in Reqs |-> {}] /\ left = [r \in Reqs |-> 0]
        /\ about = [r \in Reqs |-> NoRequest] /\ awake = <<>>
        /\ task = [r \in Reqs |-> "none"] /\ loop = "events" /\ next = None
    BY DEF Init
  <1>3. NoRequest \in [n : Nat, kind : Unit]
    BY DEF NoRequest, Unit, Kind
  <1>4. Types
    BY <1>1, <1>2, <1>3 DEF Types
  <1>5. ListIsRight
    BY <1>2 DEF ListIsRight, Live, Member, Once
  <1>6. \A r \in Reqs : ~Live(r)
    BY <1>2 DEF Live
  <1>7. ASSUME NEW c \in Conns PROVE BodyIsOf(c) /\ Talks(c)
    <2>1. /\ Pending(c) = {} /\ ~Asking(c) /\ inbox[c] = <<>> /\ rnb[c] = "none" /\ extra[c] = None
          /\ flags[c] = {} /\ asked[c] = 0
      BY <1>1, <1>6 DEF Pending, Of, Asking
    <2>2. Everything(c) = <<>> /\ Len(Everything(c)) = 0
      BY <1>1 DEF Everything
    <2>3. Fine(<<>>, {})
      BY DEF Fine, AnswersFirst, ClosedOnce, Unclosed, InOrder
    <2> QED BY <2>1, <2>2, <2>3 DEF BodyIsOf, Talks
  <1> QED BY <1>4, <1>5, <1>6, <1>7 DEF RequestsInv

LEMMA InvImpliesRight ==
  ASSUME RequestsInv
  PROVE  RequestsAreRight
  <1>1. NothingDangles
    <2>1. \A r \in Reqs : Live(r) =>
            \/ owner[r] \in Conns /\ state[owner[r]] \in {"open", "leaving"}
            \/ owner[r] = None /\ "delete" \in rflags[r] /\ ~Asleep(r)
      BY DEF RequestsInv, Owned
    <2>2. \A c \in Conns : extra[c] # None => extra[c] \in Of(c) /\ Asleep(extra[c])
      BY DEF RequestsInv, BodyIsOf
    <2>3. next # None => \E i \in DOMAIN awake : awake[i] = next
      <3>1. DOMAIN awake = 1..Len(awake)
        BY DEF RequestsInv, Types
      <3> QED BY <3>1 DEF RequestsInv, ListIsRight, Member
    <2>4. \A r \in Reqs : task[r] = "running" => Live(r)
      BY DEF RequestsInv, ListIsRight
    <2> QED BY <2>1, <2>2, <2>3, <2>4 DEF NothingDangles
  <1>2. OneAnswerEach
    <2> SUFFICES ASSUME NEW c \in Conns
                 PROVE  LET all == got[c] \o out[c]
                        IN /\ \A i \in DOMAIN all : all[i] > 0 => \A j \in 1..i : all[j] = j
                           /\ \A i, j \in DOMAIN all : all[i] = CloseFrame /\ all[j] = CloseFrame => i = j
      BY DEF OneAnswerEach
    <2>1. Everything(c) \in Seq(Int) /\ AnswersFirst(Everything(c)) /\ ClosedOnce(Everything(c))
      BY TypesOf DEF RequestsInv, Talks, Fine
    <2>2. DOMAIN Everything(c) = 1..Len(Everything(c))
      BY <2>1
    <2> QED BY <2>1, <2>2 DEF Everything, AnswersFirst, ClosedOnce
  <1> QED BY <1>1, <1>2 DEF RequestsAreRight

(* For every number of connections and requests: nothing of a worker refers *)
(* to a request or a connection that was freed, whatever order events,      *)
(* handlers, tasks and prunes come in, and a client has one answer to each  *)
(* request, in the order it sent them, and one closing frame.               *)
THEOREM RequestsStayRight ==
  ASSUME RequestsAssumption
  PROVE  Spec => []RequestsAreRight
  <1>1. Init => RequestsInv
    BY RequestsStart
  <1>2. RequestsInv /\ [Next]_vars => RequestsInv'
    BY RequestsStep
  <1>3. RequestsInv => RequestsAreRight
    BY InvImpliesRight
  <1> QED BY <1>1, <1>2, <1>3, PTL DEF Spec
-----------------------------------------------------------------------------
\* What each process sends, and what the parent passes on to it.
FromWorker(w) ==
  [id : {"KEYMGR_REQ", "CERTIFICATE_REQ"}, src : {w}, dst : {Keymgr}, n : Nat, version : Nat]
    \cup [id : ParentHandles, src : {w}, dst : {Parent}, n : Nat, version : Nat]
FromKeymgr ==
  [id : {"CERTIFICATE"}, src : {Keymgr}, dst : Workers \cup {All}, n : Nat, version : Nat]
    \cup [id : {"KEYMGR_RESP"}, src : {Keymgr}, dst : Workers, n : Nat, version : Nat]
ToWorker(w) ==
  [id : {"CERTIFICATE", "KEYMGR_RESP"}, src : {Keymgr}, dst : {w}, n : Nat, version : Nat]
ToKeymgr ==
  [id : {"KEYMGR_REQ", "CERTIFICATE_REQ"}, src : Workers, dst : {Keymgr}, n : Nat, version : Nat]
    \cup [id : {"CERTIFICATE"}, src : {Keymgr}, dst : {Keymgr}, n : Nat, version : Nat]

MessagesTypes ==
  /\ DOMAIN up = Procs /\ up[Keymgr] \in Seq(FromKeymgr)
  /\ \A w \in Workers : up[w] \in Seq(FromWorker(w))
  /\ DOMAIN down = Procs /\ down[Keymgr] \in Seq(ToKeymgr)
  /\ \A w \in Workers : down[w] \in Seq(ToWorker(w))
  /\ disk \in Nat /\ keys \in Nat /\ signed \in Nat
  /\ ctx \in [Workers -> Nat] /\ asks \in [Workers -> Nat] /\ used \in [Workers -> Nat]
  /\ result \in [Workers -> {"none", "wrong", "other key", "signed", "failed"}]
  /\ late \in [Workers -> BOOLEAN] /\ alive \in [Workers -> BOOLEAN]

\* The messages of the handshakes of w, on the way that they take.
Mine(w, m) == (m.id = "KEYMGR_REQ" /\ m.src = w) \/ (m.id = "KEYMGR_RESP" /\ m.dst = w)
Way(w) == <<up[w], down[Keymgr], up[Keymgr], down[w]>>

Has(s, w)    == \E i \in 1..Len(s) : Mine(w, s[i])
Single(s, w) == \A i, j \in 1..Len(s) : Mine(w, s[i]) /\ Mine(w, s[j]) => i = j
For(s, w, k) == \A i \in 1..Len(s) : Mine(w, s[i]) => s[i].n = k /\ k # 0

\* One message at most is on its way, and it is of handshake k.
Good(way, w, k) ==
  /\ \A a \in 1..4 : Single(way[a], w) /\ For(way[a], w, k)
  /\ \A a, b \in 1..4 : Has(way[a], w) /\ Has(way[b], w) => a = b

\* So it is, while w has not given up, with the handshake it is blocked for.
OneOnTheWay == \A w \in Workers : ~late[w] => Good(Way(w), w, asks[w])

MessagesInv == MessagesTypes /\ OneOnTheWay /\ WrongOnlyWhenLate
-----------------------------------------------------------------------------
(* What channels do to the messages of a worker.                           *)

\* t has no more of the messages of w than s.
NoMore(t, s, w) ==
  /\ Has(t, w) => Has(s, w)
  /\ Single(s, w) => Single(t, w)
  /\ \A k \in Nat : For(s, w, k) => For(t, w, k)

\* s becomes t by the loss, or the arrival, of a message of handshake n.
Loses(t, s, w, n) ==
  /\ Has(s, w) /\ NoMore(t, s, w)
  /\ Single(s, w) => ~Has(t, w)
  /\ \A k \in Nat : For(s, w, k) => n = k /\ k # 0
Gains(t, s, w, n) ==
  ~Has(s, w) => Single(t, w) /\ (n # 0 => For(t, w, n))

LEMMA Elements ==
  ASSUME NEW S, NEW s \in Seq(S)
  PROVE  \A i \in 1..Len(s) : s[i] \in S
  OBVIOUS

LEMMA SameIsNoMore == \A s, w : NoMore(s, s, w)
  BY DEF NoMore

LEMMA MessagesSent ==
  ASSUME NEW S, NEW s \in Seq(S), NEW m \in S, NEW w
  PROVE  /\ Append(s, m) \in Seq(S)
         /\ ~Mine(w, m) => NoMore(Append(s, m), s, w)
         /\ Gains(Append(s, m), s, w, m.n)
  <1>1. /\ Append(s, m) \in Seq(S) /\ Len(Append(s, m)) = Len(s) + 1 /\ Len(s) \in Nat
        /\ \A i \in 1..(Len(s) + 1) : Append(s, m)[i] = IF i = Len(s) + 1 THEN m ELSE s[i]
    OBVIOUS
  <1> QED BY <1>1 DEF NoMore, Gains, Has, Single, For

LEMMA MessagesRead ==
  ASSUME NEW S, NEW s \in Seq(S), s # <<>>, NEW w
  PROVE  /\ Head(s) \in S /\ Tail(s) \in Seq(S)
         /\ NoMore(Tail(s), s, w)
         /\ Mine(w, Head(s)) => Loses(Tail(s), s, w, Head(s).n)
  <1>1. /\ Len(s) \in Nat \ {0} /\ Head(s) = s[1] /\ s[1] \in S
        /\ Tail(s) \in Seq(S) /\ Len(Tail(s)) = Len(s) - 1
        /\ \A i \in 1..(Len(s) - 1) : Tail(s)[i] = s[i + 1] /\ i + 1 \in 1..Len(s)
    OBVIOUS
  <1> QED BY <1>1 DEF NoMore, Loses, Has, Single, For

LEMMA NoMoreIsGood ==
  ASSUME NEW way, NEW new, NEW w, NEW k \in Nat, Good(way, w, k),
         \A a \in 1..4 : NoMore(new[a], way[a], w)
  PROVE  Good(new, w, k)
  BY DEF Good, NoMore

\* The message of w goes from a to b.
LEMMA MovesOn ==
  ASSUME NEW way, NEW new, NEW w, NEW k \in Nat, Good(way, w, k), NEW n,
         NEW a \in 1..4, NEW b \in 1..4, a # b,
         Loses(new[a], way[a], w, n), Gains(new[b], way[b], w, n),
         \A c \in (1..4) \ {a, b} : new[c] = way[c]
  PROVE  Good(new, w, k)
  <1>1. /\ Has(way[a], w) /\ ~Has(new[a], w) /\ NoMore(new[a], way[a], w) /\ n = k /\ k # 0
    BY DEF Good, Loses
  <1>2. \A c \in (1..4) \ {a} : ~Has(way[c], w)
    BY <1>1 DEF Good
  <1>3. Single(new[b], w) /\ For(new[b], w, k)
    BY <1>1, <1>2 DEF Gains
  <1>4. \A c \in (1..4) \ {b} : ~Has(new[c], w)
    BY <1>1, <1>2
  <1>5. \A c \in 1..4 : Single(new[c], w) /\ For(new[c], w, k)
    BY <1>1, <1>3 DEF Good, NoMore
  <1> QED BY <1>4, <1>5 DEF Good
-----------------------------------------------------------------------------
(* What each step sends is of the kinds above, and the handshakes keep to  *)
(* their way.                                                              *)

LEMMA MessageKinds ==
  ASSUME MessagesAssumption, NEW w \in Workers
  PROVE  /\ \A m \in FromWorker(w) : (m.id \in ParentHandles <=> m.dst = Parent) /\ m.src = w
         /\ \A m \in FromKeymgr : m.id \notin ParentHandles /\ m.dst # Parent /\ m.src = Keymgr
         /\ \A m \in ToWorker(w) : m.id \notin ParentHandles /\ m.dst = w
         /\ \A m \in ToKeymgr : m.id \notin ParentHandles /\ m.dst = Keymgr
  BY DEF MessagesAssumption, FromWorker, FromKeymgr, ToWorker, ToKeymgr, ParentHandles, Procs, All, Parent

LEMMA InitMessages == ASSUME MessagesAssumption, MessagesInit PROVE MessagesInv
  <1>1. MessagesTypes
    BY DEF MessagesInit, MessagesTypes, Procs
  <1>2. OneOnTheWay
    <2>1. \A w \in Workers : \A a \in 1..4 : Way(w)[a] = <<>>
      BY DEF MessagesInit, Way, Procs
    <2> QED BY <2>1 DEF OneOnTheWay, Good, Has, Single, For
  <1> QED BY <1>1, <1>2 DEF MessagesInit, MessagesInv, WrongOnlyWhenLate

\* A step that gives the channels of a worker no more messages of its
\* handshakes, and leaves the rest of what they are about alone.
LEMMA QuietStep ==
  ASSUME MessagesTypes, MessagesTypes', OneOnTheWay, WrongOnlyWhenLate, UNCHANGED <<asks, late, result>>,
         \A w \in Workers : \A a \in 1..4 : NoMore(Way(w)'[a], Way(w)[a], w)
  PROVE  MessagesInv'
  <1>1. \A w \in Workers : asks[w] \in Nat /\ asks'[w] = asks[w] /\ late'[w] = late[w]
    BY DEF MessagesTypes
  <1>2. OneOnTheWay'
    BY <1>1, NoMoreIsGood DEF OneOnTheWay
  <1> QED BY <1>2 DEF MessagesInv, WrongOnlyWhenLate

LEMMA WayIs ==
  ASSUME NEW w
  PROVE  /\ Way(w)[1] = up[w] /\ Way(w)[2] = down[Keymgr] /\ Way(w)[3] = up[Keymgr] /\ Way(w)[4] = down[w]
         /\ Way(w)'[1] = up'[w] /\ Way(w)'[2] = down'[Keymgr] /\ Way(w)'[3] = up'[Keymgr] /\ Way(w)'[4] = down'[w]
  BY DEF Way

LEMMA WayNoMore ==
  ASSUME NEW w, NoMore(up'[w], up[w], w), NoMore(down'[Keymgr], down[Keymgr], w),
         NoMore(up'[Keymgr], up[Keymgr], w), NoMore(down'[w], down[w], w)
  PROVE  \A a \in 1..4 : NoMore(Way(w)'[a], Way(w)[a], w)
  <1> SUFFICES ASSUME NEW a \in 1..4 PROVE NoMore(Way(w)'[a], Way(w)[a], w)
    OBVIOUS
  <1>1. a = 1 \/ a = 2 \/ a = 3 \/ a = 4
    OBVIOUS
  <1> QED BY <1>1, WayIs

LEMMA WayMoves ==
  ASSUME NEW w, NEW k \in Nat, Good(Way(w), w, k), NEW n,
         \/ /\ Loses(up'[w], up[w], w, n) /\ Gains(down'[Keymgr], down[Keymgr], w, n)
            /\ up'[Keymgr] = up[Keymgr] /\ down'[w] = down[w]
         \/ /\ Loses(down'[Keymgr], down[Keymgr], w, n) /\ Gains(up'[Keymgr], up[Keymgr], w, n)
            /\ up'[w] = up[w] /\ down'[w] = down[w]
         \/ /\ Loses(up'[Keymgr], up[Keymgr], w, n) /\ Gains(down'[w], down[w], w, n)
            /\ up'[w] = up[w] /\ down'[Keymgr] = down[Keymgr]
  PROVE  Good(Way(w)', w, k)
  <1>1. \E a, b \in 1..4 :
          /\ a # b /\ Loses(Way(w)'[a], Way(w)[a], w, n) /\ Gains(Way(w)'[b], Way(w)[b], w, n)
          /\ \A c \in (1..4) \ {a, b} : Way(w)'[c] = Way(w)[c]
    BY WayIs
  <1> HIDE DEF Way
  <1> QED BY <1>1, MovesOn

LEMMA ReloadStep ==
  ASSUME MessagesAssumption, MessagesInv, Reload
  PROVE  MessagesInv'
  <1> DEFINE m == Message("CERTIFICATE", Keymgr, All, 0, disk)
  <1>1. /\ m \in FromKeymgr /\ \A w \in Workers : ~Mine(w, m)
    BY DEF MessagesInv, MessagesTypes, FromKeymgr, Message, Mine
  <1>2. /\ up'[Keymgr] = Append(up[Keymgr], m) /\ DOMAIN up' = Procs
        /\ \A w \in Workers : up'[w] = up[w]
    BY DEF Reload, SubmitsAll, MessagesInv, MessagesTypes, Procs, MessagesAssumption
  <1>3. /\ up'[Keymgr] \in Seq(FromKeymgr)
        /\ \A w \in Workers : NoMore(up'[Keymgr], up[Keymgr], w)
    <2> HIDE DEF m
    <2>1. up[Keymgr] \in Seq(FromKeymgr)
      BY DEF MessagesInv, MessagesTypes
    <2> QED BY <1>1, <1>2, <2>1, MessagesSent
  <1>4. MessagesTypes'
    BY <1>2, <1>3 DEF Reload, MessagesInv, MessagesTypes, tls
  <1>5. \A w \in Workers : \A a \in 1..4 : NoMore(Way(w)'[a], Way(w)[a], w)
    <2>1. down' = down
      BY DEF Reload
    <2> QED BY <1>2, <1>3, <2>1, WayNoMore, SameIsNoMore
  <1> QED BY <1>4, <1>5, QuietStep DEF MessagesInv, Reload, tls

LEMMA KeymgrStep ==
  ASSUME MessagesAssumption, MessagesInv, KeymgrReceives
  PROVE  MessagesInv'
  <1> DEFINE m == Head(down[Keymgr])
  <1>1. /\ down[Keymgr] \in Seq(ToKeymgr) /\ down[Keymgr] # <<>>
        /\ up[Keymgr] \in Seq(FromKeymgr)
        /\ down'[Keymgr] = Tail(down[Keymgr]) /\ DOMAIN down' = Procs
        /\ \A w \in Workers : down'[w] = down[w]
    BY DEF MessagesInv, MessagesTypes, KeymgrReceives, Receives, Procs, MessagesAssumption
  <1>2. m \in ToKeymgr /\ down'[Keymgr] \in Seq(ToKeymgr)
        /\ \A w \in Workers : NoMore(down'[Keymgr], down[Keymgr], w)
    BY <1>1, MessagesRead
  <1>3. CASE m.id = "KEYMGR_REQ"
    <2> DEFINE r == Message("KEYMGR_RESP", Keymgr, m.src, m.n, keys)
    <2>1. /\ r \in FromKeymgr /\ r.n = m.n /\ m.src \in Workers
          /\ \A w \in Workers : (Mine(w, r) <=> w = m.src) /\ (Mine(w, m) <=> w = m.src)
      BY <1>2, <1>3 DEF MessagesInv, MessagesTypes, ToKeymgr, FromKeymgr, Message, Mine
    <2>2. /\ up'[Keymgr] = Append(up[Keymgr], r) /\ DOMAIN up' = Procs
          /\ \A w \in Workers : up'[w] = up[w]
      BY <1>3 DEF KeymgrReceives, Sends, MessagesInv, MessagesTypes, Procs, MessagesAssumption
    <2>3. up'[Keymgr] \in Seq(FromKeymgr)
      BY <1>1, <2>1, <2>2, MessagesSent
    <2>4. MessagesTypes'
      BY <1>1, <1>2, <2>2, <2>3 DEF MessagesInv, MessagesTypes, KeymgrReceives, tls
    <2>5. ASSUME NEW w \in Workers, ~late[w]
          PROVE  Good(Way(w)', w, asks[w])
      <3>1. Good(Way(w), w, asks[w]) /\ asks[w] \in Nat
        BY <2>5 DEF MessagesInv, OneOnTheWay, MessagesTypes
      <3>2. CASE w = m.src
        <4> HIDE DEF m, r
        <4>1. Loses(down'[Keymgr], down[Keymgr], w, m.n)
          BY <1>1, <2>1, <3>2, MessagesRead DEF m
        <4>2. Gains(up'[Keymgr], up[Keymgr], w, m.n)
          BY <1>1, <2>1, <2>2, MessagesSent
        <4> QED BY <1>1, <2>2, <3>1, <4>1, <4>2, WayMoves
      <3>3. CASE w # m.src
        <4>1. NoMore(up'[Keymgr], up[Keymgr], w)
          BY <1>1, <2>1, <2>2, <3>3, MessagesSent
        <4>2. \A a \in 1..4 : NoMore(Way(w)'[a], Way(w)[a], w)
          BY <1>1, <1>2, <2>2, <4>1, WayNoMore, SameIsNoMore
        <4> QED BY <3>1, <4>2, NoMoreIsGood
      <3> QED BY <3>2, <3>3
    <2> QED BY <2>4, <2>5 DEF MessagesInv, OneOnTheWay, WrongOnlyWhenLate, KeymgrReceives, tls
  <1>4. CASE m.id # "KEYMGR_REQ"
    <2>1. /\ DOMAIN up' = Procs /\ \A w \in Workers : up'[w] = up[w]
          /\ up'[Keymgr] \in Seq(FromKeymgr)
          /\ \A w \in Workers : NoMore(up'[Keymgr], up[Keymgr], w)
      <3> DEFINE c == Message("CERTIFICATE", Keymgr, m.src, 0, disk)
      <3>1. CASE m.id = "CERTIFICATE_REQ"
        <4>1. c \in FromKeymgr /\ \A w \in Workers : ~Mine(w, c)
          BY <1>2, <3>1 DEF MessagesInv, MessagesTypes, ToKeymgr, FromKeymgr, Message, Mine
        <4>2. /\ up'[Keymgr] = Append(up[Keymgr], c) /\ DOMAIN up' = Procs
              /\ \A w \in Workers : up'[w] = up[w]
          BY <3>1 DEF KeymgrReceives, Sends, MessagesInv, MessagesTypes, Procs, MessagesAssumption
        <4> QED BY <1>1, <4>1, <4>2, MessagesSent
      <3>2. CASE m.id # "CERTIFICATE_REQ"
        BY <1>4, <3>2, SameIsNoMore DEF KeymgrReceives, MessagesInv, MessagesTypes
      <3> QED BY <3>1, <3>2
    <2>2. MessagesTypes'
      BY <1>1, <1>2, <2>1 DEF MessagesInv, MessagesTypes, KeymgrReceives, tls
    <2>3. \A w \in Workers : \A a \in 1..4 : NoMore(Way(w)'[a], Way(w)[a], w)
      BY <1>1, <1>2, <2>1, WayNoMore, SameIsNoMore
    <2> QED BY <2>2, <2>3, QuietStep DEF MessagesInv, KeymgrReceives, tls
  <1> QED BY <1>3, <1>4

\* The parent passes the head of a channel on, and a message of a handshake
\* to the one that it is for.
LEMMA RelaysStep ==
  ASSUME MessagesAssumption, MessagesInv, NEW p \in Procs, ParentRelays(p)
  PROVE  MessagesInv'
  <1> DEFINE m == Head(up[p])
  <1>1. /\ up[p] # <<>> /\ up'[p] = Tail(up[p]) /\ DOMAIN up' = Procs
        /\ \A q \in Procs \ {p} : up'[q] = up[q]
    BY DEF ParentRelays, MessagesInv, MessagesTypes
  <1>2. /\ \A w \in Workers : p = w => m \in FromWorker(w) /\ up'[p] \in Seq(FromWorker(w))
        /\ p = Keymgr => m \in FromKeymgr /\ up'[p] \in Seq(FromKeymgr)
        /\ \A w \in Workers : /\ NoMore(up'[p], up[p], w)
                              /\ Mine(w, m) => Loses(up'[p], up[p], w, m.n)
    <2>1. ASSUME NEW S, up[p] \in Seq(S)
          PROVE  /\ m \in S /\ up'[p] \in Seq(S)
                 /\ \A w \in Workers : /\ NoMore(up'[p], up[p], w)
                                       /\ Mine(w, m) => Loses(up'[p], up[p], w, m.n)
      BY <1>1, <2>1, MessagesRead
    <2> HIDE DEF m
    <2>2. CASE p = Keymgr
      BY <2>1, <2>2 DEF MessagesInv, MessagesTypes, MessagesAssumption
    <2>3. CASE p \in Workers
      BY <2>1, <2>3 DEF MessagesInv, MessagesTypes, MessagesAssumption
    <2> QED BY <2>2, <2>3 DEF Procs
  <1>3. UNCHANGED <<disk, keys, tls, alive, deaths>>
    BY DEF ParentRelays
  <1>7. \A w \in Workers : NoMore(up'[p], up[p], w)
    <2> HIDE DEF m
    <2> QED BY <1>2
  <1>6. ASSUME NEW w \in Workers
        PROVE  /\ NoMore(up'[w], up[w], w) /\ NoMore(up'[Keymgr], up[Keymgr], w)
               /\ p # w => up'[w] = up[w]
               /\ p # Keymgr => up'[Keymgr] = up[Keymgr]
    <2>1. w \in Procs /\ Keymgr \in Procs
      BY DEF Procs
    <2>2. \A q \in Procs : q # p => up'[q] = up[q]
      BY <1>1
    <2>3. NoMore(up'[p], up[p], w)
      BY <1>7
    <2>4. \A q \in Procs : NoMore(up'[q], up[q], w)
      BY <2>2, <2>3, SameIsNoMore
    <2> QED BY <2>1, <2>2, <2>4
  <1>4. CASE m.id \in ParentHandles
    <2>1. down' = down
      BY <1>4 DEF ParentRelays
    <2>2. MessagesTypes'
      BY <1>1, <1>2, <1>3, <2>1 DEF MessagesInv, MessagesTypes, Procs, tls
    <2>3. \A w \in Workers : \A a \in 1..4 : NoMore(Way(w)'[a], Way(w)[a], w)
      BY <1>6, <2>1, WayNoMore, SameIsNoMore
    <2> QED BY <1>3, <2>2, <2>3, QuietStep DEF MessagesInv, tls
  <1>5. CASE m.id \notin ParentHandles
    <2>1. /\ DOMAIN down' = Procs
          /\ \A q \in Procs : down'[q] = IF q \in Receivers(m) THEN Append(down[q], Addressed(m, q))
                                       ELSE down[q]
      BY <1>5 DEF ParentRelays
    <2>2. /\ \A w \in Workers \cap Receivers(m) : Addressed(m, w) \in ToWorker(w)
          /\ Keymgr \in Receivers(m) => Addressed(m, Keymgr) \in ToKeymgr
          /\ \A q \in Procs \cap Receivers(m) : Addressed(m, q).n = m.n
          /\ \A q \in Procs \cap Receivers(m), w \in Workers : Mine(w, Addressed(m, q)) <=> Mine(w, m)
          /\ \A w \in Workers : Mine(w, m) =>
               \/ p = w /\ Receivers(m) = {Keymgr}
               \/ p = Keymgr /\ Receivers(m) = {w}
      <3>1. CASE p \in Workers
        <4>1. /\ m.id \in {"KEYMGR_REQ", "CERTIFICATE_REQ"} /\ m.src = p /\ m.dst = Keymgr
              /\ m = [id |-> m.id, src |-> p, dst |-> Keymgr, n |-> m.n, version |-> m.version]
              /\ m.n \in Nat /\ m.version \in Nat
          BY <1>2, <1>5, <3>1 DEF FromWorker
        <4>2. Receivers(m) = {Keymgr} /\ Addressed(m, Keymgr) = m
          BY <4>1 DEF Receivers, Addressed, MessagesAssumption, Procs, All
        <4> HIDE DEF m
        <4> QED BY <3>1, <4>1, <4>2 DEF ToKeymgr, Mine, MessagesAssumption
      <3>2. CASE p = Keymgr
        <4>1. /\ m.id \in {"CERTIFICATE", "KEYMGR_RESP"} /\ m.src = Keymgr
              /\ m.id = "KEYMGR_RESP" => m.dst \in Workers
              /\ m.id = "CERTIFICATE" => m.dst \in Workers \cup {All}
              /\ m = [id |-> m.id, src |-> Keymgr, dst |-> m.dst, n |-> m.n, version |-> m.version]
              /\ m.n \in Nat /\ m.version \in Nat
          BY <1>2, <3>2 DEF FromKeymgr
        <4> HIDE DEF m
        <4>2. \A q : Addressed(m, q) = [id |-> m.id, src |-> Keymgr, dst |-> q, n |-> m.n, version |-> m.version]
          BY <4>1 DEF Addressed
        <4>3. /\ m.id = "KEYMGR_RESP" => Receivers(m) = {m.dst}
              /\ m.id = "CERTIFICATE" => Receivers(m) \subseteq Procs
          BY <4>1 DEF Receivers, MessagesAssumption, Procs, All
        <4> QED BY <3>2, <4>1, <4>2, <4>3 DEF ToWorker, ToKeymgr, Mine, MessagesAssumption, Procs
      <3> QED BY <3>1, <3>2 DEF Procs
    <2> HIDE DEF m
    <2>3. /\ down'[Keymgr] \in Seq(ToKeymgr)
          /\ \A w \in Workers : /\ ~Mine(w, m) => NoMore(down'[Keymgr], down[Keymgr], w)
                                /\ Keymgr \in Receivers(m) => Gains(down'[Keymgr], down[Keymgr], w, m.n)
      <3>1. down[Keymgr] \in Seq(ToKeymgr) /\ Keymgr \in Procs
        BY DEF MessagesInv, MessagesTypes, Procs
      <3>2. CASE Keymgr \in Receivers(m)
        <4>1. /\ down'[Keymgr] = Append(down[Keymgr], Addressed(m, Keymgr))
              /\ Addressed(m, Keymgr) \in ToKeymgr /\ Addressed(m, Keymgr).n = m.n
              /\ \A w \in Workers : Mine(w, Addressed(m, Keymgr)) <=> Mine(w, m)
          BY <2>1, <2>2, <3>1, <3>2
        <4> QED BY <3>1, <4>1, MessagesSent
      <3>3. CASE Keymgr \notin Receivers(m)
        BY <2>1, <3>1, <3>3, SameIsNoMore
      <3> QED BY <3>2, <3>3
    <2>6. ASSUME NEW w \in Workers
          PROVE  /\ down'[w] \in Seq(ToWorker(w))
                 /\ ~Mine(w, m) => NoMore(down'[w], down[w], w)
                 /\ w \in Receivers(m) => Gains(down'[w], down[w], w, m.n)
      <3>1. down[w] \in Seq(ToWorker(w)) /\ w \in Procs
        BY DEF MessagesInv, MessagesTypes, Procs
      <3>2. CASE w \in Receivers(m)
        <4>1. /\ down'[w] = Append(down[w], Addressed(m, w))
              /\ Addressed(m, w) \in ToWorker(w) /\ Addressed(m, w).n = m.n
              /\ Mine(w, Addressed(m, w)) <=> Mine(w, m)
          BY <2>1, <2>2, <3>1, <3>2
        <4> QED BY <3>1, <4>1, MessagesSent
      <3>3. CASE w \notin Receivers(m)
        BY <2>1, <3>1, <3>3, SameIsNoMore
      <3> QED BY <3>2, <3>3
    <2>4. MessagesTypes'
      BY <1>1, <1>2, <1>3, <2>1, <2>3, <2>6 DEF MessagesInv, MessagesTypes, Procs, tls
    <2>5. ASSUME NEW w \in Workers, ~late[w]
          PROVE  Good(Way(w)', w, asks[w])
      <3>1. Good(Way(w), w, asks[w]) /\ asks[w] \in Nat
        BY <2>5 DEF MessagesInv, OneOnTheWay, MessagesTypes
      <3>2. CASE ~Mine(w, m)
        <4>1. \A a \in 1..4 : NoMore(Way(w)'[a], Way(w)[a], w)
          <5>1. NoMore(down'[w], down[w], w) /\ NoMore(down'[Keymgr], down[Keymgr], w)
            <6>1. NoMore(down'[w], down[w], w)
              BY <2>6, <3>2
            <6>2. NoMore(down'[Keymgr], down[Keymgr], w)
              BY <2>3, <3>2
            <6> QED BY <6>1, <6>2
          <5> QED BY <1>6, <5>1, WayNoMore
        <4> QED BY <3>1, <4>1, NoMoreIsGood
      <3>3. CASE Mine(w, m) /\ p = w /\ Receivers(m) = {Keymgr}
        <4>1. /\ Loses(up'[w], up[w], w, m.n) /\ Gains(down'[Keymgr], down[Keymgr], w, m.n)
              /\ up'[Keymgr] = up[Keymgr] /\ down'[w] = down[w]
          <5>1. w # Keymgr /\ w \in Procs /\ w \notin Receivers(m) /\ Keymgr \in Receivers(m)
            BY <3>3 DEF Procs, MessagesAssumption
          <5>2. up'[Keymgr] = up[Keymgr] /\ down'[w] = down[w]
            BY <1>6, <2>1, <3>3, <5>1
          <5>3. Loses(up'[w], up[w], w, m.n)
            BY <1>2, <3>3
          <5>4. Gains(down'[Keymgr], down[Keymgr], w, m.n)
            BY <2>3, <5>1
          <5> QED BY <5>2, <5>3, <5>4
        <4> QED BY <3>1, <4>1, WayMoves
      <3>4. CASE Mine(w, m) /\ p = Keymgr /\ Receivers(m) = {w}
        <4>1. /\ Loses(up'[Keymgr], up[Keymgr], w, m.n) /\ Gains(down'[w], down[w], w, m.n)
              /\ up'[w] = up[w] /\ down'[Keymgr] = down[Keymgr]
          BY <1>2, <1>6, <2>1, <2>6, <3>4 DEF Procs, MessagesAssumption
        <4> QED BY <3>1, <4>1, WayMoves
      <3> QED BY <2>2, <3>2, <3>3, <3>4
    <2> QED BY <1>3, <2>4, <2>5 DEF MessagesInv, OneOnTheWay, WrongOnlyWhenLate, tls
  <1> QED BY <1>4, <1>5

LEMMA BeginsStep ==
  ASSUME MessagesAssumption, MessagesInv, NEW w \in Workers, BeginsHandshake(w)
  PROVE  MessagesInv'
  <1> DEFINE m == Message("KEYMGR_REQ", w, Keymgr, signed + 1, 0)
  <1>1. /\ up' = [up EXCEPT ![w] = Append(up[w], m)] /\ asks[w] = 0 /\ asks' = [asks EXCEPT ![w] = signed + 1]
        /\ signed' = signed + 1 /\ used' = [used EXCEPT ![w] = ctx[w]]
        /\ UNCHANGED <<down, disk, keys, ctx, result, late, alive>>
    BY DEF BeginsHandshake, Idle, Sends
  <1>2. /\ m \in FromWorker(w) /\ m.n = signed + 1 /\ signed + 1 \in Nat \ {0}
        /\ \A r \in Workers : r # w => ~Mine(r, m)
    <2>1. signed \in Nat
      BY DEF MessagesInv, MessagesTypes
    <2> QED BY <2>1 DEF FromWorker, Message, Mine
  <1> HIDE DEF m
  <1>3. up[w] \in Seq(FromWorker(w)) /\ w \in Procs /\ w # Keymgr /\ DOMAIN up = Procs
    BY DEF MessagesInv, MessagesTypes, Procs, MessagesAssumption
  <1>4. /\ up'[w] = Append(up[w], m) /\ up'[w] \in Seq(FromWorker(w)) /\ DOMAIN up' = Procs
        /\ \A q \in Procs \ {w} : up'[q] = up[q]
        /\ Gains(up'[w], up[w], w, signed + 1)
    BY <1>1, <1>2, <1>3, MessagesSent
  <1>5. MessagesTypes'
    BY <1>1, <1>2, <1>4 DEF MessagesInv, MessagesTypes, Procs, MessagesAssumption
  <1>6. ASSUME NEW r \in Workers, ~late[r]
        PROVE  Good(Way(r)', r, asks'[r])
    <2>1. Good(Way(r), r, asks[r]) /\ asks[r] \in Nat
      BY <1>6 DEF MessagesInv, OneOnTheWay, MessagesTypes
    <2>2. CASE r = w
      <3>1. \A a \in 1..4 : ~Has(Way(w)[a], w)
        BY <1>1, <2>1, <2>2 DEF Good, Has, For
      <3>2. /\ Way(w)'[1] = up'[w] /\ Way(w)[1] = up[w]
            /\ \A a \in (1..4) \ {1} : Way(w)'[a] = Way(w)[a]
        <4>1. Way(w)'[2] = Way(w)[2] /\ Way(w)'[3] = Way(w)[3] /\ Way(w)'[4] = Way(w)[4]
          BY <1>1, <1>3, <1>4, WayIs DEF Procs
        <4> QED BY <4>1, WayIs
      <3>3. Single(Way(w)'[1], w) /\ For(Way(w)'[1], w, signed + 1)
        BY <1>2, <1>4, <3>1, <3>2 DEF Gains
      <3>4. \A a \in (1..4) \ {1} : ~Has(Way(w)'[a], w)
        BY <3>1, <3>2
      <3>5. asks'[w] = signed + 1
        BY <1>1 DEF MessagesInv, MessagesTypes
      <3> QED BY <2>2, <3>3, <3>4, <3>5 DEF Good, Has, Single, For
    <2>3. CASE r # w
      <3>1. UNCHANGED <<up[r], up[Keymgr], down>> /\ asks'[r] = asks[r]
        BY <1>1, <1>3, <1>4, <2>3 DEF Procs, MessagesInv, MessagesTypes
      <3>2. \A a \in 1..4 : NoMore(Way(r)'[a], Way(r)[a], r)
        BY <3>1, WayNoMore, SameIsNoMore
      <3> QED BY <2>1, <3>1, <3>2, NoMoreIsGood
    <2> QED BY <2>2, <2>3
  <1> QED BY <1>1, <1>5, <1>6 DEF MessagesInv, OneOnTheWay, WrongOnlyWhenLate

LEMMA TellsStep ==
  ASSUME MessagesAssumption, MessagesInv, NEW w \in Workers, NEW id \in ParentHandles, TellsParent(w, id)
  PROVE  MessagesInv'
  <1> DEFINE m == Message(id, w, Parent, 0, 0)
  <1>1. /\ up' = [up EXCEPT ![w] = Append(up[w], m)] /\ signed' = signed + 1
        /\ UNCHANGED <<down, disk, keys, ctx, asks, used, result, late, alive>>
    BY DEF TellsParent, Sends
  <1>2. m \in FromWorker(w) /\ \A r \in Workers : ~Mine(r, m)
    BY DEF FromWorker, Message, Mine, ParentHandles
  <1> HIDE DEF m
  <1>3. up[w] \in Seq(FromWorker(w)) /\ w \in Procs /\ w # Keymgr /\ DOMAIN up = Procs
    BY DEF MessagesInv, MessagesTypes, Procs, MessagesAssumption
  <1>4. /\ up'[w] = Append(up[w], m) /\ up'[w] \in Seq(FromWorker(w)) /\ DOMAIN up' = Procs
        /\ \A q \in Procs \ {w} : up'[q] = up[q]
        /\ \A r \in Workers : NoMore(up'[w], up[w], r)
    BY <1>1, <1>2, <1>3, MessagesSent
  <1>5. MessagesTypes'
    <2>1. \A r \in Workers : up'[r] \in Seq(FromWorker(r))
      BY <1>4 DEF MessagesInv, MessagesTypes, Procs
    <2>2. up'[Keymgr] = up[Keymgr]
      BY <1>3, <1>4 DEF Procs
    <2>3. signed \in Nat
      BY DEF MessagesInv, MessagesTypes
    <2>4. signed' \in Nat
      BY <1>1, <2>3
    <2> QED BY <1>1, <1>4, <2>1, <2>2, <2>4 DEF MessagesInv, MessagesTypes
  <1>6. ASSUME NEW r \in Workers
        PROVE  \A a \in 1..4 : NoMore(Way(r)'[a], Way(r)[a], r)
    <2>1. \A q \in Procs : NoMore(up'[q], up[q], r)
      BY <1>4, SameIsNoMore
    <2> QED BY <1>1, <2>1, WayNoMore, SameIsNoMore DEF Procs
  <1> QED BY <1>1, <1>5, <1>6, QuietStep DEF MessagesInv

\* An answer that w takes is of the handshake that it is blocked for, and
\* no other is on its way.
LEMMA ReceivesStep ==
  ASSUME MessagesAssumption, MessagesInv, NEW w \in Workers, WorkerReceives(w)
  PROVE  MessagesInv'
  <1> DEFINE m == Head(down[w])
  <1>1. /\ down[w] # <<>> /\ down' = [down EXCEPT ![w] = Tail(down[w])]
        /\ UNCHANGED <<up, disk, keys, used, signed, late, alive>>
    BY DEF WorkerReceives, Receives
  <1>2. down[w] \in Seq(ToWorker(w)) /\ w \in Procs /\ w # Keymgr /\ DOMAIN down = Procs
    BY DEF MessagesInv, MessagesTypes, Procs, MessagesAssumption
  <1>3. /\ down'[w] = Tail(down[w]) /\ down'[w] \in Seq(ToWorker(w)) /\ DOMAIN down' = Procs
        /\ m \in ToWorker(w) /\ \A r : NoMore(down'[w], down[w], r)
        /\ \A q \in Procs \ {w} : down'[q] = down[q]
        /\ Mine(w, m) => Loses(down'[w], down[w], w, m.n)
    BY <1>1, <1>2, MessagesRead
  <1> HIDE DEF m
  <1>4. /\ \A r \in Workers : ctx'[r] \in Nat /\ asks'[r] \in Nat
        /\ ctx' \in [Workers -> Nat] /\ asks' \in [Workers -> Nat]
        /\ result' \in [Workers -> {"none", "wrong", "other key", "signed", "failed"}]
        /\ \A r \in Workers \ {w} : asks'[r] = asks[r] /\ result'[r] = result[r]
        /\ \/ asks'[w] = asks[w] /\ result'[w] = result[w]
           \/ /\ Mine(w, m) /\ asks[w] # 0 /\ asks'[w] = 0
              /\ result'[w] = "wrong" => m.n # asks[w]
    <2>1. /\ ctx \in [Workers -> Nat] /\ asks \in [Workers -> Nat]
          /\ result \in [Workers -> {"none", "wrong", "other key", "signed", "failed"}]
          /\ m.version \in Nat /\ m.dst = w
      BY <1>3 DEF MessagesInv, MessagesTypes, ToWorker
    <2>2. CASE m.id = "CERTIFICATE" /\ ctx' = [ctx EXCEPT ![w] = m.version] /\ UNCHANGED <<asks, result>>
      BY <2>1, <2>2
    <2>3. CASE m.id = "KEYMGR_RESP" /\ asks[w] # 0 /\ Ends(w, Fits(w, m)) /\ UNCHANGED ctx
      <3>1. Fits(w, m) \in {"wrong", "other key", "signed"} /\ (Fits(w, m) = "wrong" => m.n # asks[w])
        BY DEF Fits
      <3>2. asks' = [asks EXCEPT ![w] = 0] /\ result' = [result EXCEPT ![w] = Fits(w, m)]
        BY <2>3 DEF Ends
      <3>3. Mine(w, m)
        BY <2>1, <2>3 DEF Mine
      <3> QED BY <2>1, <2>3, <3>1, <3>2, <3>3
    <2>4. CASE UNCHANGED <<ctx, asks, result>>
      BY <2>1, <2>4
    <2> QED BY <2>2, <2>3, <2>4 DEF WorkerReceives, m
  <1>5. MessagesTypes'
    BY <1>1, <1>3, <1>4 DEF MessagesInv, MessagesTypes, Procs, MessagesAssumption
  <1>6. ASSUME NEW r \in Workers
        PROVE  \A a \in 1..4 : NoMore(Way(r)'[a], Way(r)[a], r)
    <2>1. \A q \in Procs : NoMore(down'[q], down[q], r)
      BY <1>3, SameIsNoMore
    <2> QED BY <1>1, <2>1, WayNoMore, SameIsNoMore DEF Procs
  <1>7. ASSUME NEW r \in Workers, ~late[r]
        PROVE  Good(Way(r)', r, asks'[r]) /\ result'[r] # "wrong"
    <2>1. Good(Way(r), r, asks[r]) /\ asks[r] \in Nat /\ result[r] # "wrong"
      BY <1>7 DEF MessagesInv, OneOnTheWay, MessagesTypes, WrongOnlyWhenLate
    <2>2. Good(Way(r)', r, asks[r])
      BY <1>6, <2>1, NoMoreIsGood
    <2>3. CASE asks'[r] = asks[r] /\ result'[r] = result[r]
      BY <2>1, <2>2, <2>3
    <2>4. CASE r = w /\ Mine(w, m) /\ asks'[w] = 0 /\ (result'[w] = "wrong" => m.n # asks[w])
      <3>1. Loses(Way(w)'[4], Way(w)[4], w, m.n)
        BY <1>3, <2>4, WayIs
      <3>2. ~Has(Way(w)'[4], w) /\ m.n = asks[w]
        BY <2>1, <2>4, <3>1 DEF Loses, Good
      <3>3. \A a \in 1..4 : ~Has(Way(w)'[a], w)
        <4>1. \A a \in (1..4) \ {4} : ~Has(Way(w)[a], w)
          BY <2>1, <2>4, <3>1 DEF Good, Loses
        <4> QED BY <1>6, <3>2, <4>1 DEF NoMore
      <3> QED BY <2>4, <3>2, <3>3 DEF Good, Has, Single, For
    <2> QED BY <1>4, <2>3, <2>4
  <1> QED BY <1>1, <1>5, <1>7 DEF MessagesInv, OneOnTheWay, WrongOnlyWhenLate

LEMMA LateStep ==
  ASSUME MessagesAssumption, MessagesInv, NEW w \in Workers, GivesUp(w) \/ Replaced(w)
  PROVE  MessagesInv'
  <1>1. /\ late' = [late EXCEPT ![w] = TRUE] /\ UNCHANGED <<disk, keys, used, signed>>
        /\ ctx' \in [Workers -> Nat] /\ asks' = [asks EXCEPT ![w] = 0] /\ alive' \in [Workers -> BOOLEAN]
        /\ \E how \in {"none", "failed"} : result' = [result EXCEPT ![w] = how]
    <2>1. ctx \in [Workers -> Nat] /\ alive \in [Workers -> BOOLEAN]
      BY DEF MessagesInv, MessagesTypes
    <2>2. CASE GivesUp(w)
      BY <2>1, <2>2 DEF GivesUp, Ends
    <2>3. CASE Replaced(w)
      BY <2>1, <2>3 DEF Replaced
    <2> QED BY <2>2, <2>3
  <1>2. w \in Procs /\ w # Keymgr
    BY DEF Procs, MessagesAssumption
  <1>3. /\ DOMAIN up' = Procs /\ DOMAIN down' = Procs
        /\ up'[w] \in {up[w], <<Message("CERTIFICATE_REQ", w, Keymgr, 0, 0)>>} /\ down'[w] \in {down[w], <<>>}
        /\ \A q \in Procs \ {w} : up'[q] = up[q] /\ down'[q] = down[q]
    BY <1>2 DEF GivesUp, Replaced, FirstMessages, channels, MessagesInv, MessagesTypes
  <1>4. up'[w] \in Seq(FromWorker(w)) /\ down'[w] \in Seq(ToWorker(w))
    <2>1. Message("CERTIFICATE_REQ", w, Keymgr, 0, 0) \in FromWorker(w)
      BY DEF Message, FromWorker
    <2> DEFINE S == FromWorker(w)
               c == Message("CERTIFICATE_REQ", w, Keymgr, 0, 0)
    <2>2. c \in S /\ up[w] \in Seq(S) /\ down[w] \in Seq(ToWorker(w)) /\ up'[w] \in {up[w], <<c>>}
      BY <1>3, <2>1 DEF MessagesInv, MessagesTypes
    <2> HIDE DEF S, c
    <2>3. <<c>> \in Seq(S)
      BY <2>2
    <2>4. up'[w] \in Seq(S)
      BY <2>2, <2>3
    <2>5. down'[w] \in Seq(ToWorker(w))
      <3>1. <<>> \in Seq(ToWorker(w))
        OBVIOUS
      <3> QED BY <1>3, <2>2, <3>1
    <2> QED BY <2>4, <2>5 DEF S
  <1>5. MessagesTypes'
    BY <1>1, <1>2, <1>3, <1>4 DEF MessagesInv, MessagesTypes, Procs
  <1>6. ASSUME NEW r \in Workers, ~late'[r]
        PROVE  Good(Way(r)', r, asks'[r]) /\ result'[r] # "wrong"
    <2>1. r # w /\ ~late[r] /\ asks'[r] = asks[r] /\ result'[r] = result[r]
      BY <1>1, <1>6 DEF MessagesInv, MessagesTypes
    <2>2. UNCHANGED <<up[r], down[Keymgr], up[Keymgr], down[r]>>
      BY <1>2, <1>3, <2>1 DEF Procs
    <2>3. Good(Way(r), r, asks[r]) /\ asks[r] \in Nat /\ result[r] # "wrong"
      BY <2>1 DEF MessagesInv, OneOnTheWay, MessagesTypes, WrongOnlyWhenLate
    <2>4. \A a \in 1..4 : NoMore(Way(r)'[a], Way(r)[a], r)
      BY <2>2, WayNoMore, SameIsNoMore
    <2> QED BY <2>1, <2>3, <2>4, NoMoreIsGood
  <1> QED BY <1>5, <1>6 DEF MessagesInv, OneOnTheWay, WrongOnlyWhenLate

LEMMA OtherStep ==
  ASSUME MessagesInv, Renewed \/ (\E w \in Workers : Dies(w)) \/ UNCHANGED messagesVars
  PROVE  MessagesInv'
  <1>1. UNCHANGED <<up, down, keys, tls>> /\ disk' \in {disk, disk + 1} /\ alive' \in [Workers -> BOOLEAN]
    BY DEF Renewed, Dies, messagesVars, channels, MessagesInv, MessagesTypes
  <1>2. MessagesTypes'
    <2>2. disk \in Nat
      BY DEF MessagesInv, MessagesTypes
    <2>1. disk' \in Nat
      BY <1>1, <2>2
    <2> QED BY <1>1, <2>1 DEF MessagesInv, MessagesTypes, tls
  <1>3. \A w \in Workers : \A a \in 1..4 : NoMore(Way(w)'[a], Way(w)[a], w)
    BY <1>1, WayNoMore, SameIsNoMore
  <1> QED BY <1>1, <1>2, <1>3, QuietStep DEF MessagesInv, tls

LEMMA NextMessages ==
  ASSUME MessagesAssumption, MessagesInv, [MessagesNext]_messagesVars
  PROVE  MessagesInv'
  BY ReloadStep, KeymgrStep, RelaysStep, BeginsStep, TellsStep, ReceivesStep, LateStep, OtherStep DEF MessagesNext, WorkerStep

LEMMA MessagesImply ==
  ASSUME MessagesAssumption, MessagesInv
  PROVE  MessagesAreRight
  <1>1. ASSUME NEW w \in Workers
        PROVE  /\ \A i \in 1..Len(up[w]) : up[w][i] \in FromWorker(w)
               /\ \A i \in 1..Len(down[w]) : down[w][i] \in ToWorker(w)
    <2>1. up[w] \in Seq(FromWorker(w)) /\ down[w] \in Seq(ToWorker(w))
      BY DEF MessagesInv, MessagesTypes
    <2> QED BY <2>1, Elements
  <1>2. /\ \A i \in 1..Len(up[Keymgr]) : up[Keymgr][i] \in FromKeymgr
        /\ \A i \in 1..Len(down[Keymgr]) : down[Keymgr][i] \in ToKeymgr
    <2>1. up[Keymgr] \in Seq(FromKeymgr) /\ down[Keymgr] \in Seq(ToKeymgr)
      BY DEF MessagesInv, MessagesTypes
    <2> QED BY <2>1, Elements
  <1>3. RightAddress
    <2>1. SUFFICES ASSUME NEW p \in Procs
                   PROVE  /\ \A i \in 1..Len(down[p]) : down[p][i].dst = p /\ down[p][i].id \notin ParentHandles
                          /\ \A i \in 1..Len(up[p]) :
                               /\ up[p][i].src = p
                               /\ (up[p][i].id \in ParentHandles) = (up[p][i].dst = Parent)
      BY DEF RightAddress
    <2>2. CASE p \in Workers
      BY <1>1, <2>2, MessageKinds
    <2>3. CASE p = Keymgr
      <3>1. \A m \in ToKeymgr : m.id \notin ParentHandles /\ m.dst = Keymgr
        BY DEF ToKeymgr, ParentHandles
      <3>2. \A m \in FromKeymgr : m.id \notin ParentHandles /\ m.src = Keymgr
        BY DEF FromKeymgr, ParentHandles
      <3>3. \A m \in FromKeymgr : m.dst \in Procs \cup {All}
        BY DEF FromKeymgr, Procs
      <3>4. Parent # All
        BY DEF Parent, All
      <3>5. Parent \notin Procs
        BY DEF MessagesAssumption
      <3>6. \A m \in FromKeymgr : m.dst # Parent
        BY <3>3, <3>4, <3>5
      <3> QED BY <1>2, <2>3, <3>1, <3>2, <3>6
    <2> QED BY <2>2, <2>3 DEF Procs
  <1> QED BY <1>3 DEF MessagesInv, MessagesAreRight

(* Every process receives what is addressed to it, and a worker takes      *)
(* another's answer for its own only after it gave up or as a replacement, *)
(* however many handshakes, renewals and deaths there are (msg_recv_data,  *)
(* keymgr_await_data).                                                     *)
THEOREM MessagesStayRight == ASSUME MessagesAssumption PROVE MessagesSpec => []MessagesAreRight
  <1>1. MessagesInit => MessagesInv
    BY InitMessages
  <1>2. MessagesInv /\ [MessagesNext]_messagesVars => MessagesInv'
    BY NextMessages
  <1>3. MessagesInv => MessagesAreRight
    BY MessagesImply
  <1> QED BY <1>1, <1>2, <1>3, PTL DEF MessagesSpec
-----------------------------------------------------------------------------
(* The certificates on their way to a worker: what the parent sent it,     *)
(* then what the key manager sent and the parent has not passed on.        *)

Line(w)      == down[w] \o up[Keymgr]
Cert(w, m)   == m.id = "CERTIFICATE" /\ m.dst \in {w, All}
Answer(w, m) == m.id = "KEYMGR_RESP" /\ m.dst = w

\* The certificate of key k comes to w before place n + 1 of its line s, or w
\* has c, and none to sign with.
Before(s, w, n, c, k) ==
  \/ c = 0 /\ \A j \in 1..n : ~Cert(w, s[j])
  \/ k <= c
  \/ \E j \in 1..n : Cert(w, s[j]) /\ k <= s[j].version

\* The certificates come in the order of their versions, up to d, each before
\* the answers made with its key, and that of the loaded keys k is on its way.
InLine(s, w, c, k, d) ==
  /\ \A i \in 1..Len(s) : Cert(w, s[i]) => s[i].version \in 1..d /\ c <= s[i].version
  /\ \A i, j \in 1..Len(s) :
       i < j /\ Cert(w, s[i]) /\ Cert(w, s[j]) => s[i].version <= s[j].version
  /\ \A i \in 1..Len(s) : Answer(w, s[i]) => Before(s, w, i - 1, c, s[i].version)
  /\ Before(s, w, Len(s), c, k)

CertificatesInOrder ==
  /\ disk # 0 /\ keys <= disk
  /\ \A w \in Workers : /\ InLine(Line(w), w, ctx[w], keys, disk) /\ ctx[w] <= disk
                        /\ asks[w] # 0 => ctx[w] # 0

\* Messages that say the same to w.
LEMMA SameLine ==
  ASSUME NEW w, NEW c, NEW k, NEW d, NEW s, NEW t, InLine(s, w, c, k, d), Len(t) = Len(s), Len(s) \in Nat,
         \A i \in 1..Len(s) : /\ Cert(w, t[i]) <=> Cert(w, s[i])
                              /\ Answer(w, t[i]) <=> Answer(w, s[i])
                              /\ t[i].version = s[i].version
  PROVE  InLine(t, w, c, k, d)
  <1>1. \A n \in 0..Len(s) : \A b : Before(s, w, n, c, b) => Before(t, w, n, c, b)
    <2> SUFFICES ASSUME NEW n \in 0..Len(s), NEW b, Before(s, w, n, c, b) PROVE Before(t, w, n, c, b)
      OBVIOUS
    <2>1. \A j \in 1..n : j \in 1..Len(s)
      OBVIOUS
    <2> QED BY <2>1 DEF Before
  <1>2. \A i \in 1..Len(s) : Answer(w, t[i]) => Before(t, w, i - 1, c, t[i].version)
    <2> SUFFICES ASSUME NEW i \in 1..Len(s), Answer(w, t[i]) PROVE Before(t, w, i - 1, c, t[i].version)
      OBVIOUS
    <2>1. i - 1 \in 0..Len(s) /\ Before(s, w, i - 1, c, s[i].version)
      BY DEF InLine
    <2> QED BY <1>1, <2>1
  <1>3. Before(t, w, Len(t), c, k)
    BY <1>1 DEF InLine
  <1> QED BY <1>2, <1>3 DEF InLine

\* One message leaves that says nothing to w.
LEMMA LessInLine ==
  ASSUME NEW w, NEW c, NEW k, NEW d, NEW s, NEW t, InLine(s, w, c, k, d), Len(s) \in Nat,
         NEW p \in 1..Len(s), ~Cert(w, s[p]), ~Answer(w, s[p]), Len(t) = Len(s) - 1,
         \A i \in 1..(Len(s) - 1) : t[i] = IF i < p THEN s[i] ELSE s[i + 1]
  PROVE  InLine(t, w, c, k, d)
  <1> DEFINE at(i) == IF i < p THEN i ELSE i + 1
             from(j) == IF j < p THEN j ELSE j - 1
  <1>1. /\ \A i \in 1..Len(t) : at(i) \in 1..Len(s) /\ t[i] = s[at(i)]
        /\ \A i, j \in 1..Len(t) : i < j => at(i) < at(j)
        /\ \A j \in 1..Len(s) : j # p => from(j) \in 1..Len(t) /\ at(from(j)) = j
    OBVIOUS
  <1>2. \A i \in 1..Len(t), j \in 1..Len(s) : j # p => (from(j) < i <=> j < at(i))
    OBVIOUS
  <1> HIDE DEF at, from
  <1>3. \A i \in 1..Len(t) : Cert(w, t[i]) => t[i].version \in 1..d /\ c <= t[i].version
    BY <1>1 DEF InLine
  <1>4. \A i, j \in 1..Len(t) :
          i < j /\ Cert(w, t[i]) /\ Cert(w, t[j]) => t[i].version <= t[j].version
    BY <1>1 DEF InLine
  <1>5. ASSUME NEW i \in 1..Len(t), Answer(w, t[i])
        PROVE  Before(t, w, i - 1, c, t[i].version)
    <2>1. Before(s, w, at(i) - 1, c, t[i].version)
      BY <1>1, <1>5 DEF InLine
    <2>4. at(i) \in 1..Len(s) /\ at(i) \in Nat /\ i \in Nat /\ Len(t) \in Nat /\ i <= Len(t)
      BY <1>1
    <2>2. \A j \in 1..(i - 1) : j \in 1..Len(t) /\ at(j) \in 1..(at(i) - 1)
      <3> SUFFICES ASSUME NEW j \in 1..(i - 1) PROVE j \in 1..Len(t) /\ at(j) \in 1..(at(i) - 1)
        OBVIOUS
      <3>1. j \in 1..Len(t) /\ j < i
        BY <2>4
      <3>2. at(j) \in 1..Len(s) /\ at(j) < at(i)
        BY <1>1, <3>1
      <3> QED BY <2>4, <3>1, <3>2
    <2>3. ASSUME NEW j \in 1..(at(i) - 1), Cert(w, s[j])
          PROVE  from(j) \in 1..(i - 1) /\ t[from(j)] = s[j]
      <3>1. j \in 1..Len(s) /\ j # p /\ j < at(i)
        BY <2>3, <2>4
      <3>2. from(j) \in 1..Len(t) /\ at(from(j)) = j /\ from(j) < i
        BY <1>1, <1>2, <3>1
      <3>3. t[from(j)] = s[j]
        BY <1>1, <3>2
      <3>4. from(j) \in 1..(i - 1)
        BY <2>4, <3>2
      <3> QED BY <3>3, <3>4
    <2> QED BY <1>1, <2>1, <2>2, <2>3 DEF Before
  <1>6. Before(t, w, Len(t), c, k)
    <2>1. Before(s, w, Len(s), c, k)
      BY DEF InLine
    <2>2. \A j \in 1..Len(s) : Cert(w, s[j]) => from(j) \in 1..Len(t) /\ t[from(j)] = s[j]
      BY <1>1
    <2> QED BY <1>1, <2>1, <2>2 DEF Before
  <1> QED BY <1>3, <1>4, <1>5, <1>6 DEF InLine

\* One more message at the end: a certificate of the newest version, an answer
\* made with the loaded key, or one that says nothing to w.
LEMMA MoreInLine ==
  ASSUME NEW w, NEW c \in Nat, NEW k, NEW d \in Nat \ {0}, NEW s, NEW t, InLine(s, w, c, k, d), Len(s) \in Nat,
         Len(t) = Len(s) + 1, \A i \in 1..Len(s) : t[i] = s[i], c <= d,
         Cert(w, t[Len(t)]) => t[Len(t)].version = d,
         Answer(w, t[Len(t)]) => t[Len(t)].version = k /\ ~Cert(w, t[Len(t)]),
         NEW k2 \in Nat, k2 <= d, k2 = k \/ Cert(w, t[Len(t)])
  PROVE  InLine(t, w, c, k2, d)
  <1> DEFINE n == Len(s)
  <1>1. n \in Nat /\ Len(t) = n + 1
    OBVIOUS
  <1>2. \A i \in 1..(n + 1) : i \in 1..n \/ i = n + 1
    BY <1>1
  <1>3. /\ \A i \in 1..n : Cert(w, t[i]) => t[i].version \in 1..d /\ c <= t[i].version
        /\ \A i, j \in 1..n : i < j /\ Cert(w, t[i]) /\ Cert(w, t[j]) => t[i].version <= t[j].version
        /\ \A i \in 1..n : Answer(w, t[i]) => Before(s, w, i - 1, c, t[i].version)
        /\ Before(s, w, n, c, k)
    BY DEF InLine
  <1>4. \A i \in 0..n : \A b : Before(s, w, i, c, b) => Before(t, w, i, c, b)
    <2> SUFFICES ASSUME NEW i \in 0..n, NEW b, Before(s, w, i, c, b) PROVE Before(t, w, i, c, b)
      OBVIOUS
    <2>1. \A j \in 1..i : j \in 1..n /\ t[j] = s[j]
      BY <1>1
    <2> QED BY <2>1 DEF Before
  <1> HIDE DEF n
  <1>5. \A i \in 1..(n + 1) : Cert(w, t[i]) => t[i].version \in 1..d /\ c <= t[i].version
    BY <1>1, <1>2, <1>3
  <1>6. \A i, j \in 1..(n + 1) :
          i < j /\ Cert(w, t[i]) /\ Cert(w, t[j]) => t[i].version <= t[j].version
    <2> SUFFICES ASSUME NEW i \in 1..(n + 1), NEW j \in 1..(n + 1), i < j, Cert(w, t[i]), Cert(w, t[j])
                 PROVE  t[i].version <= t[j].version
      OBVIOUS
    <2>1. i \in 1..n
      BY <1>1
    <2>2. CASE j = n + 1
      BY <1>1, <1>3, <2>1, <2>2
    <2> QED BY <1>2, <1>3, <2>1, <2>2
  <1>7. \A i \in 1..(n + 1) : Answer(w, t[i]) => Before(t, w, i - 1, c, t[i].version)
    <2> SUFFICES ASSUME NEW i \in 1..(n + 1), Answer(w, t[i]) PROVE Before(t, w, i - 1, c, t[i].version)
      OBVIOUS
    <2>1. i - 1 \in 0..n
      BY <1>1
    <2>2. CASE i \in 1..n
      BY <1>3, <1>4, <2>1, <2>2
    <2>3. CASE i = n + 1
      BY <1>1, <1>3, <1>4, <2>1, <2>3
    <2> QED BY <1>2, <2>2, <2>3
  <1>8. Before(t, w, n + 1, c, k2)
    <2>1. CASE Cert(w, t[n + 1])
      BY <1>1, <2>1 DEF Before
    <2>2. CASE ~Cert(w, t[n + 1]) /\ k2 = k
      <3>1. Before(t, w, n, c, k)
        BY <1>1, <1>3, <1>4
      <3> QED BY <1>1, <1>2, <2>2, <3>1 DEF Before
    <2> QED BY <1>1, <2>1, <2>2
  <1> QED BY <1>1, <1>5, <1>6, <1>7, <1>8 DEF InLine

\* w takes the first message: a certificate takes the place of its own.
LEMMA FirstInLine ==
  ASSUME NEW w, NEW c \in Nat, NEW k \in Nat, NEW d \in Nat, NEW s, NEW t, InLine(s, w, c, k, d),
         Len(s) \in Nat \ {0}, Len(t) = Len(s) - 1, \A i \in 1..(Len(s) - 1) : t[i] = s[i + 1],
         \A i \in 1..Len(s) : s[i].version \in Nat
  PROVE  /\ Cert(w, s[1]) => InLine(t, w, s[1].version, k, d) /\ s[1].version \in 1..d
         /\ ~Cert(w, s[1]) => InLine(t, w, c, k, d)
         /\ Answer(w, s[1]) => c = 0 \/ s[1].version <= c
  <1> DEFINE n == Len(s) - 1
             c2 == IF Cert(w, s[1]) THEN s[1].version ELSE c
  <1>1. /\ n \in Nat /\ Len(t) = n /\ Len(s) = n + 1 /\ \A i \in 1..n : t[i] = s[i + 1] /\ i + 1 \in 1..(n + 1)
        /\ 1 \in 1..(n + 1) /\ \A i \in 1..(n + 1) : i = 1 \/ i - 1 \in 1..n
    OBVIOUS
  <1>2. /\ \A i \in 1..(n + 1) : Cert(w, s[i]) => s[i].version \in 1..d /\ c <= s[i].version
        /\ \A i, j \in 1..(n + 1) :
             i < j /\ Cert(w, s[i]) /\ Cert(w, s[j]) => s[i].version <= s[j].version
        /\ \A i \in 1..(n + 1) : Answer(w, s[i]) => Before(s, w, i - 1, c, s[i].version)
        /\ Before(s, w, n + 1, c, k)
        /\ \A i \in 1..(n + 1) : s[i].version \in Nat
    BY <1>1 DEF InLine
  <1>3. c2 \in Nat /\ c <= c2 /\ (c2 # c => Cert(w, s[1]))
    BY <1>1, <1>2
  <1>4. ASSUME NEW i \in 0..n, NEW b \in Nat, Before(s, w, i + 1, c, b)
        PROVE  Before(t, w, i, c2, b)
    <2>1. \A j \in 1..i : t[j] = s[j + 1] /\ j + 1 \in 1..(i + 1)
      BY <1>1
    <2>2. CASE c = 0 /\ \A j \in 1..(i + 1) : ~Cert(w, s[j])
      <3>1. ~Cert(w, s[1])
        BY <2>2
      <3> QED BY <2>1, <2>2, <3>1 DEF Before
    <2>3. CASE b <= c
      BY <1>3, <2>3 DEF Before
    <2>4. CASE \E j \in 1..(i + 1) : Cert(w, s[j]) /\ b <= s[j].version
      <3>1. PICK j \in 1..(i + 1) : Cert(w, s[j]) /\ b <= s[j].version
        BY <2>4
      <3>2. CASE j = 1
        BY <3>1, <3>2 DEF Before
      <3>3. CASE j # 1
        <4>1. j - 1 \in 1..i /\ t[j - 1] = s[j]
          BY <1>1, <3>3
        <4> QED BY <3>1, <4>1 DEF Before
      <3> QED BY <3>2, <3>3
    <2> QED BY <1>4, <2>2, <2>3, <2>4 DEF Before
  <1>5. \A i \in 1..n : Cert(w, t[i]) => t[i].version \in 1..d /\ c2 <= t[i].version
    <2> SUFFICES ASSUME NEW i \in 1..n, Cert(w, t[i]) PROVE t[i].version \in 1..d /\ c2 <= t[i].version
      OBVIOUS
    <2>1. t[i] = s[i + 1] /\ i + 1 \in 1..(n + 1) /\ 1 < i + 1
      BY <1>1
    <2> QED BY <1>1, <1>2, <2>1
  <1>6. \A i, j \in 1..n :
          i < j /\ Cert(w, t[i]) /\ Cert(w, t[j]) => t[i].version <= t[j].version
    <2> SUFFICES ASSUME NEW i \in 1..n, NEW j \in 1..n, i < j, Cert(w, t[i]), Cert(w, t[j])
                 PROVE  t[i].version <= t[j].version
      OBVIOUS
    <2>1. /\ t[i] = s[i + 1] /\ t[j] = s[j + 1] /\ i + 1 < j + 1
          /\ i + 1 \in 1..(n + 1) /\ j + 1 \in 1..(n + 1)
      BY <1>1
    <2> QED BY <1>2, <2>1
  <1> HIDE DEF n, c2
  <1>7. \A i \in 1..n : Answer(w, t[i]) => Before(t, w, i - 1, c2, t[i].version)
    <2> SUFFICES ASSUME NEW i \in 1..n, Answer(w, t[i]) PROVE Before(t, w, i - 1, c2, t[i].version)
      OBVIOUS
    <2>1. t[i] = s[i + 1] /\ i + 1 \in 1..(n + 1) /\ i - 1 \in 0..n /\ (i + 1) - 1 = (i - 1) + 1
      BY <1>1
    <2>2. Before(s, w, (i - 1) + 1, c, s[i + 1].version) /\ s[i + 1].version \in Nat
      BY <1>2, <2>1
    <2> QED BY <1>4, <2>1, <2>2
  <1>8. Before(t, w, n, c2, k)
    BY <1>1, <1>2, <1>4
  <1>9. InLine(t, w, c2, k, d)
    BY <1>1, <1>5, <1>6, <1>7, <1>8 DEF InLine
  <1>10. Answer(w, s[1]) => c = 0 \/ s[1].version <= c
    BY <1>1, <1>2 DEF Before
  <1> QED BY <1>1, <1>2, <1>9, <1>10 DEF c2

\* A channel opened anew is empty, and the worker has no certificate.
LEMMA NewInLine ==
  ASSUME NEW w, NEW c \in Nat, NEW k \in Nat, NEW d \in Nat, NEW s, NEW t, InLine(s, w, c, k, d),
         Len(s) \in Nat, NEW p \in 0..Len(s), Len(t) = Len(s) - p,
         \A i \in 1..(Len(s) - p) : t[i] = s[i + p],
         \A i \in 1..Len(s) : s[i].version \in Nat
  PROVE  InLine(t, w, 0, k, d)
  <1> DEFINE n == Len(s) - p
  <1>1. /\ n \in Nat /\ Len(t) = n /\ Len(s) = n + p /\ \A i \in 1..n : t[i] = s[i + p] /\ i + p \in 1..(n + p)
    OBVIOUS
  <1>2. /\ \A i \in 1..(n + p) : Cert(w, s[i]) => s[i].version \in 1..d /\ c <= s[i].version
        /\ \A i, j \in 1..(n + p) :
             i < j /\ Cert(w, s[i]) /\ Cert(w, s[j]) => s[i].version <= s[j].version
        /\ \A i \in 1..(n + p) : Answer(w, s[i]) => Before(s, w, i - 1, c, s[i].version)
        /\ Before(s, w, n + p, c, k)
        /\ \A i \in 1..(n + p) : s[i].version \in Nat
    BY <1>1 DEF InLine
  <1>3. ASSUME NEW i \in 0..n, NEW b \in Nat, Before(s, w, i + p, c, b)
        PROVE  Before(t, w, i, 0, b)
    <2>1. CASE \A j \in 1..i : ~Cert(w, t[j])
      BY <2>1 DEF Before
    <2>2. CASE \E j \in 1..i : Cert(w, t[j])
      <3>1. PICK j \in 1..i : Cert(w, t[j])
        BY <2>2
      <3>2. t[j] = s[j + p] /\ j + p \in 1..(n + p) /\ j + p \in 1..(i + p)
        BY <1>1
      <3>3. t[j].version \in Nat /\ c <= t[j].version
        BY <1>2, <3>1, <3>2
      <3>4. CASE b <= c
        BY <3>1, <3>3, <3>4 DEF Before
      <3>5. CASE \E x \in 1..(i + p) : Cert(w, s[x]) /\ b <= s[x].version
        <4>1. PICK x \in 1..(i + p) : Cert(w, s[x]) /\ b <= s[x].version
          BY <3>5
        <4>2. CASE x <= p
          <5>1. x \in 1..(n + p) /\ x < j + p /\ s[x].version \in Nat
            BY <1>1, <1>2, <4>2
          <5>2. s[x].version <= t[j].version
            BY <1>2, <3>1, <3>2, <4>1, <5>1
          <5> QED BY <3>1, <3>3, <4>1, <5>1, <5>2 DEF Before
        <4>3. CASE ~(x <= p)
          <5>1. x - p \in 1..i /\ t[x - p] = s[x]
            BY <1>1, <4>3
          <5> QED BY <4>1, <5>1 DEF Before
        <4> QED BY <4>2, <4>3
      <3>6. ~(c = 0 /\ \A x \in 1..(i + p) : ~Cert(w, s[x]))
        BY <3>1, <3>2
      <3> QED BY <1>3, <3>4, <3>5, <3>6 DEF Before
    <2> QED BY <2>1, <2>2
  <1>4. \A i \in 1..n : Cert(w, t[i]) => t[i].version \in 1..d /\ 0 <= t[i].version
    <2>1. ASSUME NEW i \in 1..n, Cert(w, t[i]) PROVE t[i].version \in 1..d
      <3>1. t[i] = s[i + p] /\ i + p \in 1..(n + p)
        BY <1>1
      <3> QED BY <1>2, <2>1, <3>1
    <2>2. \A v \in 1..d : 0 <= v
      OBVIOUS
    <2> QED BY <2>1, <2>2
  <1>5. \A i, j \in 1..n :
          i < j /\ Cert(w, t[i]) /\ Cert(w, t[j]) => t[i].version <= t[j].version
    <2> SUFFICES ASSUME NEW i \in 1..n, NEW j \in 1..n, i < j, Cert(w, t[i]), Cert(w, t[j])
                 PROVE  t[i].version <= t[j].version
      OBVIOUS
    <2>1. /\ t[i] = s[i + p] /\ t[j] = s[j + p] /\ i + p < j + p
          /\ i + p \in 1..(n + p) /\ j + p \in 1..(n + p)
      BY <1>1
    <2> QED BY <1>2, <2>1
  <1> HIDE DEF n
  <1>6. \A i \in 1..n : Answer(w, t[i]) => Before(t, w, i - 1, 0, t[i].version)
    <2> SUFFICES ASSUME NEW i \in 1..n, Answer(w, t[i]) PROVE Before(t, w, i - 1, 0, t[i].version)
      OBVIOUS
    <2>1. t[i] = s[i + p] /\ i + p \in 1..(n + p) /\ i - 1 \in 0..n /\ (i + p) - 1 = (i - 1) + p
      BY <1>1
    <2>2. Before(s, w, (i - 1) + p, c, s[i + p].version) /\ s[i + p].version \in Nat
      BY <1>2, <2>1
    <2> QED BY <1>3, <2>1, <2>2
  <1>7. Before(t, w, n, 0, k)
    BY <1>1, <1>2, <1>3
  <1> QED BY <1>1, <1>4, <1>5, <1>6, <1>7 DEF InLine
-----------------------------------------------------------------------------
(* What each step does to the line of a worker.                            *)

LEMMA LineOf ==
  ASSUME NEW w, NEW D \in Seq(ToWorker(w)), NEW U \in Seq(FromKeymgr)
  PROVE  /\ Len(D \o U) = Len(D) + Len(U) /\ Len(D) \in Nat /\ Len(U) \in Nat
         /\ \A i \in 1..(Len(D) + Len(U)) :
              (D \o U)[i] = IF i <= Len(D) THEN D[i] ELSE U[i - Len(D)]
         /\ \A i \in 1..(Len(D) + Len(U)) : (D \o U)[i].version \in Nat
  <1> DEFINE S == ToWorker(w) \cup FromKeymgr
  <1>1. /\ D \in Seq(S) /\ U \in Seq(S)
    <2>1. /\ \A i \in 1..Len(D) : D[i] \in S
          /\ \A i \in 1..Len(U) : U[i] \in S
      BY Elements
    <2>2. /\ Len(D) \in Nat /\ Len(U) \in Nat /\ D = [i \in 1..Len(D) |-> D[i]] /\ U = [i \in 1..Len(U) |-> U[i]]
      OBVIOUS
    <2> DEFINE n == Len(D)
               m == Len(U)
    <2>3. n \in Nat /\ m \in Nat /\ D = [i \in 1..n |-> D[i]] /\ U = [i \in 1..m |-> U[i]]
      BY <2>2
    <2>4. /\ \A i \in 1..n : D[i] \in S
          /\ \A i \in 1..m : U[i] \in S
      BY <2>1
    <2> HIDE DEF n, m, S
    <2> QED BY <2>3, <2>4
  <1>2. \A m \in S : m.version \in Nat
    BY DEF ToWorker, FromKeymgr
  <1> HIDE DEF S
  <1>3. /\ Len(D \o U) = Len(D) + Len(U) /\ Len(D) \in Nat /\ Len(U) \in Nat
        /\ \A i \in 1..(Len(D) + Len(U)) :
              (D \o U)[i] = IF i <= Len(D) THEN D[i] ELSE U[i - Len(D)]
        /\ \A i \in 1..(Len(D) + Len(U)) : (D \o U)[i] \in S
    <2>1. /\ D \o U \in Seq(S) /\ Len(D \o U) = Len(D) + Len(U) /\ Len(D) \in Nat /\ Len(U) \in Nat
          /\ \A i \in 1..(Len(D) + Len(U)) :
                (D \o U)[i] = IF i <= Len(D) THEN D[i] ELSE U[i - Len(D)]
      BY <1>1, JoinedAt
    <2> QED BY <2>1, Elements
  <1> QED BY <1>2, <1>3

\* What is known of worker w.
Served(w) ==
  /\ InLine(Line(w), w, ctx[w], keys, disk) /\ ctx[w] <= disk
  /\ asks[w] # 0 => ctx[w] # 0

LEMMA ServedIs ==
  CertificatesInOrder <=> disk # 0 /\ keys <= disk /\ \A w \in Workers : Served(w)
  BY DEF CertificatesInOrder, Served

LEMMA ServedQuietly ==
  ASSUME MessagesTypes, CertificatesInOrder, NEW w \in Workers,
         UNCHANGED <<down[w], up[Keymgr], ctx[w], keys>>, disk' \in {disk, disk + 1},
         asks'[w] # 0 => asks[w] # 0 \/ ctx[w] # 0
  PROVE  Served(w)'
  <1>1. Line(w)' = Line(w) /\ disk \in Nat /\ disk' \in Nat /\ disk <= disk' /\ ctx[w] \in Nat
    <2>1. disk \in Nat /\ ctx[w] \in Nat
      BY DEF MessagesTypes
    <2>2. disk' \in Nat /\ disk <= disk'
      BY <2>1
    <2> QED BY <2>1, <2>2 DEF Line
  <1>2. InLine(Line(w), w, ctx[w], keys, disk) /\ ctx[w] <= disk /\ (asks[w] # 0 => ctx[w] # 0)
    BY DEF CertificatesInOrder
  <1> DEFINE s == Line(w)
  <1> HIDE DEF s
  <1>3. InLine(s, w, ctx[w], keys, disk')
    <2>1. \A v : v \in 1..disk => v \in 1..disk'
      BY <1>1
    <2> QED BY <1>2, <2>1 DEF InLine, s
  <1> QED BY <1>1, <1>2, <1>3 DEF Served, s

\* The key manager sends a message.
LEMMA ServedMore ==
  ASSUME MessagesTypes, CertificatesInOrder, NEW w \in Workers, NEW m \in FromKeymgr,
         up'[Keymgr] = Append(up[Keymgr], m),
         UNCHANGED <<down[w], ctx[w], disk, asks[w]>>,
         Cert(w, m) => m.version = disk, Answer(w, m) => m.version = keys,
         keys' \in Nat, keys' <= disk, keys' = keys \/ Cert(w, m)
  PROVE  Served(w)'
  <1> DEFINE D == down[w]
             U == up[Keymgr]
             s == D \o U
             t == D \o Append(U, m)
  <1>1. D \in Seq(ToWorker(w)) /\ U \in Seq(FromKeymgr) /\ Append(U, m) \in Seq(FromKeymgr)
    <2>1. D \in Seq(ToWorker(w)) /\ U \in Seq(FromKeymgr)
      BY DEF MessagesTypes
    <2> HIDE DEF D, U
    <2> QED BY <2>1
  <1>2. /\ disk \in Nat \ {0} /\ ctx[w] \in Nat /\ ctx[w] <= disk
        /\ InLine(s, w, ctx[w], keys, disk) /\ (asks[w] # 0 => ctx[w] # 0)
    BY DEF MessagesTypes, CertificatesInOrder, Line
  <1>3. /\ Len(U) \in Nat /\ Len(Append(U, m)) = Len(U) + 1
        /\ \A i \in 1..(Len(U) + 1) : Append(U, m)[i] = IF i = Len(U) + 1 THEN m ELSE U[i]
    BY <1>1
  <1>4. Line(w)' = t
    BY DEF Line
  <1> HIDE DEF D, U
  <1>5. /\ Len(s) = Len(D) + Len(U) /\ Len(D) \in Nat
        /\ \A i \in 1..(Len(D) + Len(U)) : s[i] = IF i <= Len(D) THEN D[i] ELSE U[i - Len(D)]
    BY <1>1, LineOf
  <1>6. /\ Len(t) = Len(D) + Len(Append(U, m))
        /\ \A i \in 1..(Len(D) + Len(Append(U, m))) :
             t[i] = IF i <= Len(D) THEN D[i] ELSE Append(U, m)[i - Len(D)]
    BY <1>1, LineOf
  <1> HIDE DEF s, t
  <1>7. /\ Len(s) \in Nat /\ Len(t) = Len(s) + 1 /\ t[Len(t)] = m
        /\ \A i \in 1..Len(s) : t[i] = s[i]
    <2>1. Len(s) \in Nat /\ Len(t) = Len(s) + 1
      BY <1>3, <1>5, <1>6
    <2>2. t[Len(t)] = m
      <3>1. Len(t) \in 1..(Len(D) + Len(Append(U, m))) /\ ~(Len(t) <= Len(D)) /\ Len(t) - Len(D) = Len(U) + 1
        BY <1>3, <1>5, <1>6
      <3>2. t[Len(t)] = Append(U, m)[Len(t) - Len(D)]
        BY <1>6, <3>1
      <3>3. Append(U, m)[Len(U) + 1] = m
        BY <1>3
      <3> QED BY <3>1, <3>2, <3>3
    <2>3. ASSUME NEW i \in 1..Len(s) PROVE t[i] = s[i]
      <3>1. i \in 1..(Len(D) + Len(U)) /\ i \in 1..(Len(D) + Len(Append(U, m)))
        BY <1>3, <1>5
      <3>2. CASE i <= Len(D)
        BY <1>5, <1>6, <3>1, <3>2
      <3>3. CASE ~(i <= Len(D))
        <4>1. i - Len(D) \in 1..(Len(U) + 1) /\ i - Len(D) # Len(U) + 1
          BY <1>3, <1>5, <3>1, <3>3
        <4> QED BY <1>3, <1>5, <1>6, <3>1, <3>3, <4>1
      <3> QED BY <3>2, <3>3
    <2> QED BY <2>1, <2>2, <2>3
  <1>8. Answer(w, m) => ~Cert(w, m)
    BY DEF Answer, Cert
  <1>9. InLine(t, w, ctx[w], keys', disk)
    BY <1>2, <1>7, <1>8, MoreInLine
  <1>10. ctx'[w] = ctx[w] /\ disk' = disk /\ asks'[w] = asks[w]
    OBVIOUS
  <1> QED BY <1>2, <1>4, <1>9, <1>10 DEF Served

\* The parent passes a message of the key manager on, to w or to another.
LEMMA ServedOn ==
  ASSUME MessagesAssumption, MessagesTypes, CertificatesInOrder, NEW w \in Workers, ParentRelays(Keymgr)
  PROVE  Served(w)'
  <1> DEFINE D == down[w]
             U == up[Keymgr]
             m == Head(U)
             s == D \o U
  <1>1. D \in Seq(ToWorker(w)) /\ U \in Seq(FromKeymgr) /\ U # <<>> /\ DOMAIN up = Procs /\ DOMAIN down = Procs
        /\ w \in Procs /\ Keymgr \in Procs
    BY DEF MessagesTypes, ParentRelays, Procs
  <1>2. /\ Len(U) \in Nat \ {0} /\ Len(Tail(U)) = Len(U) - 1 /\ m = U[1] /\ m \in FromKeymgr
        /\ \A i \in 1..(Len(U) - 1) : Tail(U)[i] = U[i + 1]
        /\ Tail(U) \in Seq(FromKeymgr)
    BY <1>1
  <1>3. /\ m.id \notin ParentHandles /\ m.dst \in Workers \cup {All} /\ m.version \in Nat
        /\ m = [id |-> m.id, src |-> m.src, dst |-> m.dst, n |-> m.n, version |-> m.version]
        /\ m.id \in {"CERTIFICATE", "KEYMGR_RESP"} /\ m.src = Keymgr /\ m.n \in Nat
        /\ (m.id = "KEYMGR_RESP" => m.dst # All)
    BY <1>2 DEF FromKeymgr, ParentHandles, MessagesAssumption, Procs
  <1>4. /\ up'[Keymgr] = Tail(U)
        /\ down'[w] = IF w \in Receivers(m) THEN Append(D, Addressed(m, w)) ELSE D
        /\ UNCHANGED <<disk, keys, ctx, asks>>
    BY <1>1, <1>3 DEF ParentRelays, tls
  <1>5. InLine(s, w, ctx[w], keys, disk) /\ ctx[w] <= disk /\ (asks[w] # 0 => ctx[w] # 0)
    BY DEF CertificatesInOrder, Line
  <1>6. w \in Receivers(m) <=> m.dst \in {w, All}
    BY <1>1, <1>3 DEF Receivers, MessagesAssumption, Procs
  <1> HIDE DEF D, U, m
  <1>7. /\ Len(s) = Len(D) + Len(U) /\ Len(D) \in Nat
        /\ \A i \in 1..(Len(D) + Len(U)) : s[i] = IF i <= Len(D) THEN D[i] ELSE U[i - Len(D)]
    BY <1>1, LineOf
  <1> HIDE DEF s
  <1>8. CASE w \in Receivers(m)
    <2> DEFINE a == Addressed(m, w)
               t == Append(D, a) \o Tail(U)
    <2>1. /\ a \in ToWorker(w) /\ a.version = m.version /\ (Cert(w, a) <=> Cert(w, m)) /\ (Answer(w, a) <=> Answer(w, m))
      <3>1. a = [id |-> m.id, src |-> Keymgr, dst |-> w, n |-> m.n, version |-> m.version]
        BY <1>3 DEF Addressed
      <3> HIDE DEF a
      <3> QED BY <1>3, <1>6, <1>8, <3>1 DEF ToWorker, Cert, Answer
    <2> HIDE DEF a
    <2>2. /\ Append(D, a) \in Seq(ToWorker(w)) /\ Len(Append(D, a)) = Len(D) + 1
          /\ \A i \in 1..(Len(D) + 1) : Append(D, a)[i] = IF i = Len(D) + 1 THEN a ELSE D[i]
      BY <1>1, <2>1
    <2>3. Line(w)' = t
      BY <1>4, <1>8 DEF Line, a
    <2>4. /\ Len(t) = Len(Append(D, a)) + Len(Tail(U))
          /\ \A i \in 1..(Len(Append(D, a)) + Len(Tail(U))) :
               t[i] = IF i <= Len(Append(D, a)) THEN Append(D, a)[i] ELSE Tail(U)[i - Len(Append(D, a))]
      BY <1>2, <2>2, LineOf
    <2> HIDE DEF t
    <2>5. Len(t) = Len(s) /\ Len(s) \in Nat
      BY <1>2, <1>7, <2>2, <2>4
    <2>6. ASSUME NEW i \in 1..Len(s), i # Len(D) + 1 PROVE t[i] = s[i]
      <3>1. i \in 1..(Len(D) + Len(U)) /\ i \in 1..(Len(Append(D, a)) + Len(Tail(U)))
        BY <1>2, <1>7, <2>2
      <3>2. CASE i <= Len(D)
        <4>1. i <= Len(Append(D, a)) /\ i \in 1..(Len(D) + 1)
          BY <1>7, <2>2, <3>2
        <4> QED BY <1>7, <2>2, <2>4, <2>6, <3>1, <3>2, <4>1
      <3>3. CASE ~(i <= Len(D))
        <4>1. /\ ~(i <= Len(Append(D, a))) /\ i - Len(Append(D, a)) \in 1..(Len(U) - 1)
              /\ (i - Len(Append(D, a))) + 1 = i - Len(D)
          BY <1>2, <1>7, <2>2, <2>6, <3>1, <3>3
        <4> QED BY <1>2, <1>7, <2>4, <3>1, <3>3, <4>1
      <3> QED BY <3>2, <3>3
    <2>7. t[Len(D) + 1] = a /\ s[Len(D) + 1] = m /\ Len(D) + 1 \in 1..Len(s)
      <3>1. /\ Len(D) + 1 \in 1..(Len(D) + Len(U)) /\ Len(D) + 1 \in 1..(Len(Append(D, a)) + Len(Tail(U)))
            /\ Len(D) + 1 <= Len(Append(D, a)) /\ ~(Len(D) + 1 <= Len(D)) /\ (Len(D) + 1) - Len(D) = 1
            /\ Len(D) + 1 \in 1..(Len(D) + 1)
        BY <1>2, <1>7, <2>2
      <3>2. t[Len(D) + 1] = a
        BY <2>2, <2>4, <3>1
      <3>3. s[Len(D) + 1] = m
        BY <1>2, <1>7, <3>1
      <3> QED BY <1>7, <3>1, <3>2, <3>3
    <2>8. \A i \in 1..Len(s) : /\ Cert(w, t[i]) <=> Cert(w, s[i])
                               /\ Answer(w, t[i]) <=> Answer(w, s[i])
                               /\ t[i].version = s[i].version
      BY <2>1, <2>6, <2>7
    <2>9. InLine(t, w, ctx[w], keys, disk)
      BY <1>5, <2>5, <2>8, SameLine
    <2> QED BY <1>4, <1>5, <2>3, <2>9 DEF Served
  <1>9. CASE w \notin Receivers(m)
    <2> DEFINE t == D \o Tail(U)
               p == Len(D) + 1
    <2>1. Line(w)' = t
      BY <1>4, <1>9 DEF Line
    <2>2. /\ Len(t) = Len(D) + Len(Tail(U))
          /\ \A i \in 1..(Len(D) + Len(Tail(U))) :
               t[i] = IF i <= Len(D) THEN D[i] ELSE Tail(U)[i - Len(D)]
      BY <1>1, <1>2, LineOf
    <2>3. ~Cert(w, m) /\ ~Answer(w, m)
      BY <1>3, <1>6, <1>9 DEF Cert, Answer
    <2> HIDE DEF t
    <2>4. Len(s) \in Nat /\ p \in 1..Len(s) /\ Len(t) = Len(s) - 1 /\ s[p] = m
      <3>1. /\ Len(s) \in Nat /\ p \in 1..Len(s) /\ Len(t) = Len(s) - 1
            /\ ~(p <= Len(D)) /\ p - Len(D) = 1
        BY <1>2, <1>7, <2>2
      <3> QED BY <1>2, <1>7, <3>1
    <2>5. ASSUME NEW i \in 1..(Len(s) - 1) PROVE t[i] = IF i < p THEN s[i] ELSE s[i + 1]
      <3>1. /\ i \in 1..(Len(D) + Len(U)) /\ i + 1 \in 1..(Len(D) + Len(U))
            /\ i \in 1..(Len(D) + Len(Tail(U)))
        BY <1>2, <1>7
      <3>2. CASE i <= Len(D)
        <4>1. i < p
          BY <1>7, <3>2
        <4> QED BY <1>7, <2>2, <3>1, <3>2, <4>1
      <3>3. CASE ~(i <= Len(D))
        <4>1. /\ ~(i < p) /\ ~(i + 1 <= Len(D)) /\ i - Len(D) \in 1..(Len(U) - 1)
              /\ (i - Len(D)) + 1 = (i + 1) - Len(D)
          BY <1>2, <1>7, <3>1, <3>3
        <4> QED BY <1>2, <1>7, <2>2, <3>1, <3>3, <4>1
      <3> QED BY <3>2, <3>3
    <2> HIDE DEF p
    <2>6. InLine(t, w, ctx[w], keys, disk)
      BY <1>5, <2>3, <2>4, <2>5, LessInLine
    <2> QED BY <1>4, <1>5, <2>1, <2>6 DEF Served
  <1> QED BY <1>8, <1>9

LEMMA RelayedInOrder ==
  ASSUME MessagesAssumption, MessagesInv, CertificatesInOrder, NEW p \in Procs, ParentRelays(p)
  PROVE  CertificatesInOrder'
  <1>1. MessagesTypes
    BY DEF MessagesInv
  <1>2. disk' = disk /\ keys' = keys /\ ctx' = ctx /\ asks' = asks
    BY DEF ParentRelays, tls
  <1>3. CASE p = Keymgr
    <2>1. \A w \in Workers : Served(w)'
      BY <1>1, <1>3, ServedOn
    <2> QED BY <1>2, <2>1 DEF CertificatesInOrder, Served
  <1>4. CASE p \in Workers
    <2> DEFINE m == Head(up[p])
    <2>1. up[p] \in Seq(FromWorker(p)) /\ up[p] # <<>> /\ DOMAIN up = Procs /\ DOMAIN down = Procs
      BY <1>1, <1>4 DEF MessagesTypes, ParentRelays
    <2>2. m \in FromWorker(p)
      <3> DEFINE S == FromWorker(p)
                 s == up[p]
      <3>1. s \in Seq(S) /\ s # <<>>
        BY <2>1
      <3> HIDE DEF S, s
      <3>2. Head(s) \in S
        BY <3>1
      <3> QED BY <3>2 DEF S, s
    <2>3. m.id \notin ParentHandles => m.dst = Keymgr
      BY <2>2 DEF FromWorker
    <2>4. up'[Keymgr] = up[Keymgr] /\ Keymgr \in Procs /\ Keymgr # p
      BY <1>4, <2>1 DEF ParentRelays, MessagesAssumption, Procs
    <2>5. ASSUME NEW w \in Workers PROVE down'[w] = down[w]
      <3>1. w \in Procs /\ w # Keymgr
        BY DEF Procs, MessagesAssumption
      <3>2. CASE m.id \in ParentHandles
        BY <3>2 DEF ParentRelays
      <3>3. CASE m.id \notin ParentHandles
        <4>1. Receivers(m) = {Keymgr}
          BY <2>3, <3>3 DEF Receivers, MessagesAssumption, Procs
        <4> QED BY <3>1, <3>3, <4>1 DEF ParentRelays
      <3> QED BY <3>2, <3>3
    <2>6. \A w \in Workers : Served(w)'
      BY <1>1, <1>2, <2>4, <2>5, ServedQuietly
    <2> QED BY <1>2, <2>6 DEF CertificatesInOrder, Served
  <1> QED BY <1>3, <1>4 DEF Procs

LEMMA SentInOrder ==
  ASSUME MessagesAssumption, MessagesInv, CertificatesInOrder, Reload \/ KeymgrReceives
  PROVE  CertificatesInOrder'
  <1>1. MessagesTypes /\ DOMAIN up = Procs /\ Keymgr \in Procs /\ DOMAIN down = Procs
        /\ disk \in Nat \ {0} /\ keys \in Nat /\ keys <= disk
    BY DEF MessagesInv, MessagesTypes, Procs, CertificatesInOrder
  <1>2. disk' = disk /\ ctx' = ctx /\ asks' = asks
    BY DEF Reload, KeymgrReceives, tls
  <1>3. CASE Reload
    <2> DEFINE m == Message("CERTIFICATE", Keymgr, All, 0, disk)
    <2>1. m \in FromKeymgr /\ m.version = disk /\ \A w : Cert(w, m) /\ ~Answer(w, m)
      BY <1>1 DEF FromKeymgr, Message, Cert, Answer
    <2>2. up'[Keymgr] = Append(up[Keymgr], m) /\ down' = down /\ keys' = disk
      BY <1>1, <1>3 DEF Reload, SubmitsAll
    <2> HIDE DEF m
    <2>3. keys' \in Nat /\ keys' <= disk
      BY <1>1, <2>2
    <2>4. \A w \in Workers : Served(w)'
      BY <1>1, <1>2, <2>1, <2>2, <2>3, ServedMore
    <2> QED BY <1>1, <1>2, <2>3, <2>4 DEF CertificatesInOrder, Served
  <1>4. CASE KeymgrReceives
    <2> DEFINE m == Head(down[Keymgr])
    <2>1. m \in ToKeymgr /\ (m.id \in {"CERTIFICATE_REQ", "KEYMGR_REQ"} => m.src \in Workers) /\ m.n \in Nat
      <3> DEFINE s == down[Keymgr]
      <3>1. s \in Seq(ToKeymgr) /\ s # <<>>
        BY <1>1, <1>4 DEF MessagesTypes, KeymgrReceives
      <3> HIDE DEF s
      <3>2. Head(s) \in ToKeymgr
        BY <3>1
      <3>3. m \in ToKeymgr
        BY <3>2 DEF s
      <3> HIDE DEF m
      <3> QED BY <3>3 DEF ToKeymgr
    <2>2. keys' = keys /\ \A w \in Workers : down'[w] = down[w]
      BY <1>1, <1>4 DEF KeymgrReceives, Receives, MessagesAssumption
    <2>3. CASE m.id = "CERTIFICATE_REQ"
      <3> DEFINE r == Message("CERTIFICATE", Keymgr, m.src, 0, disk)
      <3>1. up'[Keymgr] = Append(up[Keymgr], r)
        BY <1>1, <1>4, <2>3 DEF KeymgrReceives, Sends
      <3>2. r \in FromKeymgr /\ r.version = disk /\ \A w : ~Answer(w, r)
        BY <1>1, <2>1, <2>3 DEF FromKeymgr, Message, Answer
      <3> HIDE DEF m, r
      <3>3. \A w \in Workers : Served(w)'
        BY <1>1, <1>2, <2>2, <3>1, <3>2, ServedMore
      <3> QED BY <1>1, <1>2, <2>2, <3>3 DEF CertificatesInOrder, Served
    <2>4. CASE m.id = "KEYMGR_REQ"
      <3> DEFINE r == Message("KEYMGR_RESP", Keymgr, m.src, m.n, keys)
      <3>1. up'[Keymgr] = Append(up[Keymgr], r)
        BY <1>1, <1>4, <2>4 DEF KeymgrReceives, Sends
      <3>2. r \in FromKeymgr /\ r.version = keys /\ \A w : ~Cert(w, r)
        BY <1>1, <2>1, <2>4 DEF FromKeymgr, Message, Cert
      <3> HIDE DEF m, r
      <3>3. \A w \in Workers : Served(w)'
        BY <1>1, <1>2, <2>2, <3>1, <3>2, ServedMore
      <3> QED BY <1>1, <1>2, <2>2, <3>3 DEF CertificatesInOrder, Served
    <2>5. CASE m.id \notin {"CERTIFICATE_REQ", "KEYMGR_REQ"}
      <3>1. up'[Keymgr] = up[Keymgr]
        BY <1>4, <2>5 DEF KeymgrReceives
      <3> HIDE DEF m
      <3>3. \A w \in Workers : Served(w)'
        BY <1>1, <1>2, <2>2, <3>1, ServedQuietly
      <3> QED BY <1>1, <1>2, <2>2, <3>3 DEF CertificatesInOrder, Served
    <2> QED BY <2>3, <2>4, <2>5
  <1> QED BY <1>3, <1>4

\* What w takes is the first of its line.
LEMMA TakenInOrder ==
  ASSUME MessagesAssumption, MessagesInv, CertificatesInOrder, NEW w \in Workers, WorkerReceives(w)
  PROVE  /\ CertificatesInOrder'
         /\ \A r \in Workers \ {w} : asks'[r] = asks[r]
         /\ asks[w] # 0 /\ asks'[w] = 0 => Head(down[w]).version <= ctx[w]
  <1> DEFINE D == down[w]
             U == up[Keymgr]
             m == Head(D)
             s == D \o U
             t == Tail(D) \o U
  <1>1. MessagesTypes /\ DOMAIN down = Procs /\ w \in Procs
    BY DEF MessagesInv, MessagesTypes, Procs
  <1>2. /\ D \in Seq(ToWorker(w)) /\ U \in Seq(FromKeymgr) /\ D # <<>>
        /\ ctx \in [Workers -> Nat] /\ asks \in [Workers -> Nat]
        /\ keys \in Nat /\ disk \in Nat /\ disk # 0 /\ keys <= disk /\ ctx[w] <= disk
        /\ InLine(s, w, ctx[w], keys, disk) /\ (asks[w] # 0 => ctx[w] # 0)
    BY <1>1 DEF MessagesTypes, WorkerReceives, CertificatesInOrder, Line
  <1>3. /\ down'[w] = Tail(D) /\ up' = up /\ keys' = keys /\ disk' = disk
        /\ \A q \in Procs \ {w} : down'[q] = down[q]
    BY <1>1 DEF WorkerReceives, Receives
  <1>4. \/ m.id = "CERTIFICATE" /\ ctx' = [ctx EXCEPT ![w] = m.version] /\ asks' = asks
        \/ m.id = "KEYMGR_RESP" /\ asks' = [asks EXCEPT ![w] = 0] /\ ctx' = ctx /\ asks[w] # 0
        \/ m.id # "CERTIFICATE" /\ ctx' = ctx /\ asks' = asks
    BY DEF WorkerReceives, Ends
  <1>5. Line(w)' = t
    BY <1>3 DEF Line
  <1> HIDE DEF D, U
  <1>6. /\ Len(D) \in Nat \ {0} /\ m = D[1] /\ m \in ToWorker(w) /\ Tail(D) \in Seq(ToWorker(w))
        /\ Len(Tail(D)) = Len(D) - 1 /\ \A i \in 1..(Len(D) - 1) : Tail(D)[i] = D[i + 1]
    BY <1>2
  <1> HIDE DEF m
  <1>7. m.dst = w /\ (Cert(w, m) <=> m.id = "CERTIFICATE") /\ (Answer(w, m) <=> m.id = "KEYMGR_RESP")
        /\ m.version \in Nat
    BY <1>6 DEF ToWorker, Cert, Answer
  <1>8. /\ Len(s) = Len(D) + Len(U) /\ Len(U) \in Nat
        /\ \A i \in 1..(Len(D) + Len(U)) : s[i] = IF i <= Len(D) THEN D[i] ELSE U[i - Len(D)]
        /\ \A i \in 1..(Len(D) + Len(U)) : s[i].version \in Nat
    BY <1>2, LineOf
  <1>9. /\ Len(t) = Len(Tail(D)) + Len(U)
        /\ \A i \in 1..(Len(Tail(D)) + Len(U)) :
             t[i] = IF i <= Len(Tail(D)) THEN Tail(D)[i] ELSE U[i - Len(Tail(D))]
    BY <1>2, <1>6, LineOf
  <1> HIDE DEF s, t
  <1>10. Len(s) \in Nat \ {0} /\ Len(t) = Len(s) - 1 /\ s[1] = m
    <2>1. Len(s) \in Nat \ {0} /\ Len(t) = Len(s) - 1
      BY <1>6, <1>8, <1>9
    <2>2. 1 \in 1..(Len(D) + Len(U)) /\ 1 <= Len(D)
      BY <1>6, <1>8
    <2> QED BY <1>6, <1>8, <2>1, <2>2
  <1>11. ASSUME NEW i \in 1..(Len(s) - 1) PROVE t[i] = s[i + 1]
    <2>1. i \in 1..(Len(Tail(D)) + Len(U)) /\ i + 1 \in 1..(Len(D) + Len(U))
      BY <1>6, <1>8
    <2>2. CASE i <= Len(Tail(D))
      <3>1. i + 1 <= Len(D) /\ i \in 1..(Len(D) - 1)
        BY <1>6, <2>2
      <3> QED BY <1>6, <1>8, <1>9, <2>1, <2>2, <3>1
    <2>3. CASE ~(i <= Len(Tail(D)))
      <3>1. ~(i + 1 <= Len(D)) /\ i - Len(Tail(D)) = (i + 1) - Len(D)
        BY <1>6, <2>3
      <3> QED BY <1>8, <1>9, <2>1, <2>3, <3>1
    <2> QED BY <2>2, <2>3
  <1>12. /\ Cert(w, m) => InLine(t, w, m.version, keys, disk) /\ m.version \in 1..disk
         /\ ~Cert(w, m) => InLine(t, w, ctx[w], keys, disk)
         /\ Answer(w, m) => ctx[w] = 0 \/ m.version <= ctx[w]
    <2>1. ctx[w] \in Nat /\ \A i \in 1..Len(s) : s[i].version \in Nat
      BY <1>2, <1>8
    <2>2. s[1] = m
      BY <1>10
    <2>3. /\ Cert(w, s[1]) => InLine(t, w, s[1].version, keys, disk) /\ s[1].version \in 1..disk
          /\ ~Cert(w, s[1]) => InLine(t, w, ctx[w], keys, disk)
          /\ Answer(w, s[1]) => ctx[w] = 0 \/ s[1].version <= ctx[w]
      BY <1>2, <1>10, <1>11, <2>1, FirstInLine
    <2> QED BY <2>2, <2>3
  <1>13. Served(w)'
    <2>1. CASE m.id = "CERTIFICATE" /\ ctx' = [ctx EXCEPT ![w] = m.version] /\ asks' = asks
      <3>1. ctx'[w] = m.version /\ m.version \in 1..disk /\ InLine(t, w, m.version, keys, disk)
        BY <1>2, <1>7, <1>12, <2>1
      <3>2. ctx'[w] <= disk /\ ctx'[w] # 0
        BY <1>2, <3>1
      <3> QED BY <1>3, <1>5, <3>1, <3>2 DEF Served
    <2>2. CASE m.id = "KEYMGR_RESP" /\ asks' = [asks EXCEPT ![w] = 0] /\ ctx' = ctx
      BY <1>2, <1>3, <1>5, <1>7, <1>12, <2>2 DEF Served
    <2>3. CASE m.id # "CERTIFICATE" /\ ctx' = ctx /\ asks' = asks
      BY <1>2, <1>3, <1>5, <1>7, <1>12, <2>3 DEF Served
    <2> QED BY <1>4, <2>1, <2>2, <2>3
  <1>14. \A r \in Workers \ {w} : asks'[r] = asks[r] /\ ctx'[r] = ctx[r]
    BY <1>2, <1>4
  <1>15. \A r \in Workers \ {w} : Served(r)'
    <2>1. \A r \in Workers \ {w} : down'[r] = down[r]
      BY <1>3 DEF Procs
    <2> QED BY <1>1, <1>3, <1>14, <2>1, ServedQuietly
  <1>16. CertificatesInOrder'
    BY <1>2, <1>3, <1>13, <1>15 DEF CertificatesInOrder, Served
  <1>17. asks[w] # 0 /\ asks'[w] = 0 => m.version <= ctx[w]
    BY <1>2, <1>4, <1>7, <1>12
  <1> QED BY <1>14, <1>16, <1>17 DEF m, D

LEMMA ReplacedInOrder ==
  ASSUME MessagesAssumption, MessagesInv, CertificatesInOrder, NEW w \in Workers, Replaced(w)
  PROVE  CertificatesInOrder'
  <1> DEFINE D == down[w]
             U == up[Keymgr]
             s == D \o U
             t == <<>> \o U
  <1>1. MessagesTypes /\ DOMAIN down = Procs /\ DOMAIN up = Procs /\ w \in Procs /\ w # Keymgr /\ Keymgr \in Procs
    BY DEF MessagesInv, MessagesTypes, Procs, MessagesAssumption
  <1>2. /\ D \in Seq(ToWorker(w)) /\ U \in Seq(FromKeymgr) /\ <<>> \in Seq(ToWorker(w))
        /\ ctx \in [Workers -> Nat] /\ asks \in [Workers -> Nat]
        /\ keys \in Nat /\ disk \in Nat /\ disk # 0 /\ keys <= disk
        /\ InLine(s, w, ctx[w], keys, disk)
    <2>1. <<>> \in Seq(ToWorker(w))
      OBVIOUS
    <2> QED BY <1>1, <2>1 DEF MessagesTypes, CertificatesInOrder, Line
  <1>3. /\ down'[w] = <<>> /\ up'[Keymgr] = up[Keymgr] /\ keys' = keys /\ disk' = disk
        /\ \A q \in Procs \ {w} : down'[q] = down[q]
        /\ ctx' = [ctx EXCEPT ![w] = 0] /\ asks' = [asks EXCEPT ![w] = 0]
    BY <1>1 DEF Replaced
  <1>4. Line(w)' = t
    BY <1>3 DEF Line
  <1> HIDE DEF D, U
  <1>5. /\ Len(s) = Len(D) + Len(U) /\ Len(U) \in Nat /\ Len(D) \in Nat
        /\ \A i \in 1..(Len(D) + Len(U)) : s[i] = IF i <= Len(D) THEN D[i] ELSE U[i - Len(D)]
        /\ \A i \in 1..(Len(D) + Len(U)) : s[i].version \in Nat
    BY <1>2, LineOf
  <1>6. t = U
    BY <1>2
  <1>7. /\ Len(s) \in Nat /\ Len(D) \in 0..Len(s) /\ Len(t) = Len(s) - Len(D)
        /\ \A i \in 1..(Len(s) - Len(D)) : t[i] = s[i + Len(D)]
        /\ \A i \in 1..Len(s) : s[i].version \in Nat
    <2> HIDE DEF s, t
    <2>1. Len(s) \in Nat /\ Len(D) \in 0..Len(s) /\ Len(t) = Len(s) - Len(D)
      BY <1>5, <1>6
    <2>2. ASSUME NEW i \in 1..(Len(s) - Len(D)) PROVE t[i] = s[i + Len(D)]
      <3>1. i + Len(D) \in 1..(Len(D) + Len(U)) /\ ~(i + Len(D) <= Len(D)) /\ (i + Len(D)) - Len(D) = i
        BY <1>5
      <3> QED BY <1>5, <1>6, <3>1
    <2> QED BY <1>5, <2>1, <2>2
  <1> HIDE DEF s, t
  <1>8. InLine(t, w, 0, keys, disk)
    <2>1. ctx[w] \in Nat
      BY <1>2
    <2> QED BY <1>2, <1>7, <2>1, NewInLine
  <1>9. Served(w)'
    BY <1>2, <1>3, <1>4, <1>8 DEF Served
  <1>10. \A r \in Workers \ {w} : Served(r)'
    <2>1. \A r \in Workers \ {w} : down'[r] = down[r] /\ asks'[r] = asks[r] /\ ctx'[r] = ctx[r]
      BY <1>2, <1>3 DEF Procs
    <2> QED BY <1>1, <1>3, <2>1, ServedQuietly
  <1> QED BY <1>2, <1>3, <1>9, <1>10 DEF CertificatesInOrder, Served

\* A step that leaves the lines and the certificates alone.
LEMMA KeptInOrder ==
  ASSUME MessagesAssumption, MessagesInv, CertificatesInOrder,
         \/ \E w \in Workers : \/ BeginsHandshake(w) \/ GivesUp(w) \/ Dies(w)
                               \/ \E id \in ParentHandles : TellsParent(w, id)
         \/ Renewed \/ UNCHANGED messagesVars
  PROVE  CertificatesInOrder'
  <1>1. MessagesTypes /\ disk \in Nat /\ keys \in Nat /\ disk # 0 /\ keys <= disk
        /\ DOMAIN up = Procs /\ Keymgr \in Procs /\ Keymgr \notin Workers
        /\ asks \in [Workers -> Nat] /\ ctx \in [Workers -> Nat]
    BY DEF MessagesInv, MessagesTypes, Procs, MessagesAssumption, CertificatesInOrder
  <1>2. /\ down' = down /\ keys' = keys /\ ctx' = ctx /\ up'[Keymgr] = up[Keymgr] /\ disk' \in {disk, disk + 1}
        /\ \A r \in Workers : asks'[r] # 0 => asks[r] # 0 \/ ctx[r] # 0
    <2>1. CASE \E w \in Workers : BeginsHandshake(w)
      BY <1>1, <2>1 DEF BeginsHandshake, Sends
    <2>2. CASE \E w \in Workers : GivesUp(w)
      BY <1>1, <2>2 DEF GivesUp, Ends, channels
    <2>3. CASE \E w \in Workers : \E id \in ParentHandles : TellsParent(w, id)
      BY <1>1, <2>3 DEF TellsParent, Sends
    <2>4. CASE Renewed \/ UNCHANGED messagesVars \/ \E w \in Workers : Dies(w)
      BY <2>4 DEF Renewed, Dies, messagesVars, channels, tls
    <2> QED BY <2>1, <2>2, <2>3, <2>4
  <1>3. \A w \in Workers : Served(w)'
    BY <1>1, <1>2, ServedQuietly
  <1>4. disk' # 0 /\ keys' <= disk'
    BY <1>1, <1>2
  <1> QED BY <1>3, <1>4 DEF CertificatesInOrder, Served

\* The answer of a step that takes one.
TakesInOrder ==
  \A w \in Workers :
    asks[w] # 0 /\ asks'[w] = 0 /\ result'[w] \in {"signed", "other key"} =>
      Head(down[w]).version <= ctx[w]

LEMMA NextInOrder ==
  ASSUME MessagesAssumption, MessagesInv, CertificatesInOrder, [MessagesNext]_messagesVars
  PROVE  CertificatesInOrder' /\ TakesInOrder
  <1>1. /\ asks \in [Workers -> Nat] /\ signed \in Nat
        /\ result \in [Workers -> {"none", "wrong", "other key", "signed", "failed"}]
    BY DEF MessagesInv, MessagesTypes
  <1>2. CASE asks' = asks
    BY <1>2, RelayedInOrder, SentInOrder, TakenInOrder, ReplacedInOrder, KeptInOrder
    DEF MessagesNext, WorkerStep, TakesInOrder
  <1>3. CASE \E w \in Workers : WorkerReceives(w)
    <2>1. PICK w \in Workers : WorkerReceives(w)
      BY <1>3
    <2> QED BY <2>1, TakenInOrder DEF TakesInOrder
  <1>4. CASE \E w \in Workers : BeginsHandshake(w)
    <2>1. PICK w \in Workers : BeginsHandshake(w)
      BY <1>4
    <2>2. asks[w] = 0 /\ asks' = [asks EXCEPT ![w] = signed + 1]
      BY <2>1 DEF BeginsHandshake, Idle
    <2>3. TakesInOrder
      BY <1>1, <2>2 DEF TakesInOrder
    <2> QED BY <1>4, <2>3, KeptInOrder
  <1>5. CASE \E w \in Workers : GivesUp(w)
    <2>1. PICK w \in Workers : GivesUp(w)
      BY <1>5
    <2>2. asks' = [asks EXCEPT ![w] = 0] /\ result' = [result EXCEPT ![w] = "failed"]
      BY <2>1 DEF GivesUp, Ends
    <2>3. TakesInOrder
      BY <1>1, <2>2 DEF TakesInOrder
    <2> QED BY <1>5, <2>3, KeptInOrder
  <1>6. CASE \E w \in Workers : Replaced(w)
    <2>1. PICK w \in Workers : Replaced(w)
      BY <1>6
    <2>2. asks' = [asks EXCEPT ![w] = 0] /\ result' = [result EXCEPT ![w] = "none"]
      BY <2>1 DEF Replaced
    <2>3. TakesInOrder
      BY <1>1, <2>2 DEF TakesInOrder
    <2> QED BY <2>1, <2>3, ReplacedInOrder
  <1>7. \/ asks' = asks
        \/ \E w \in Workers : WorkerReceives(w) \/ BeginsHandshake(w) \/ GivesUp(w) \/ Replaced(w)
    BY DEF MessagesNext, WorkerStep, Reload, KeymgrReceives, Renewed, ParentRelays, Dies, TellsParent, tls,
           messagesVars
  <1> QED BY <1>2, <1>3, <1>4, <1>5, <1>6, <1>7

LEMMA InitInOrder ==
  ASSUME MessagesAssumption, MessagesInit
  PROVE  CertificatesInOrder
  <1>1. \A w \in Workers : Line(w) = <<>> \o <<>> /\ ctx[w] = 0 /\ asks[w] = 0
    BY DEF MessagesInit, Line, Procs
  <1>2. <<>> \o <<>> = <<>> /\ Len(<<>>) = 0
    OBVIOUS
  <1>3. \A w : InLine(<<>>, w, 0, 0, 1)
    BY <1>2 DEF InLine, Before
  <1>4. disk = 1 /\ keys = 0
    BY DEF MessagesInit
  <1> QED BY <1>1, <1>2, <1>3, <1>4 DEF CertificatesInOrder

(* The key that an answer was made with is not newer than the certificate  *)
(* of the worker that takes it, however many renewals, deaths and late     *)
(* answers there are: the certificate came first (keymgr.c:185-192).       *)
THEOREM CertificateComesFirst == ASSUME MessagesAssumption PROVE MessagesSpec => CertificateFirst
  <1>1. MessagesInit => MessagesInv /\ CertificatesInOrder
    BY InitMessages, InitInOrder
  <1>2. MessagesInv /\ CertificatesInOrder /\ [MessagesNext]_messagesVars => (MessagesInv /\ CertificatesInOrder)'
    BY NextMessages, NextInOrder
  <1>3. MessagesInv /\ CertificatesInOrder /\ [MessagesNext]_messagesVars => [TakesInOrder]_messagesVars
    BY NextInOrder
  <1>4. CertificateFirst <=> [][TakesInOrder]_messagesVars
    BY DEF CertificateFirst, TakesInOrder
  <1> QED BY <1>1, <1>2, <1>3, <1>4, PTL DEF MessagesSpec
=============================================================================
