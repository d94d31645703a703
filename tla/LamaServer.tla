----------------------------- MODULE LamaServer -----------------------------
(***************************************************************************)
(* The CDR server of test_csv3.  StartServerTCP accepts connections and    *)
(* forks one child per connection; a child builds ./tmp/normal_fecha.dbs   *)
(* out of the daily call records (CreateCdrFromDates), takes a number from *)
(* seclama.log (AsteriskGetSecLama), writes the billable calls to lama.cal *)
(* (AsteriskCDRProcessFile) and sends lama.cal to the client.  The three   *)
(* files are shared by all the children and none of them is ever locked.   *)
(*                                                                         *)
(* Files are sequences of units of text, as bytes are: the lines have      *)
(* lengths of their own.  A stdio stream holds up to Buffer units before   *)
(* it writes them at its own offset, and reads as many at a time.  Every   *)
(* action is at most one visible operation on one file or one socket.      *)
(***************************************************************************)
EXTENDS Integers, Sequences, FiniteSets, SequencesExt

CONSTANTS
  Conn,        \* the connections the clients may open
  MaxOpen,     \* how many of them the clients hold open at once
  HangUp,      \* TRUE if a client may give up before it is answered
  Polite,      \* the clients that send their request and read the answer
  MaxProcs,    \* processes the system grants the server's children
  MaxStarts,   \* bound: times the server is started
  Day,         \* 1..n, the days a request may name
  Today,
  Request,     \* what clients ask: well formed or not, first and last day
  Cdr,         \* call records: Cdr[d] of day d's backup, Cdr[0] the live ones
  Billable,    \* the rows cb2 keeps: ANSWERED and at least one second long
  FirstSeq,    \* what seclama.log holds at first
  MaxSeq,      \* 65000 in the code
  CallWidth,   \* the length of a call record, in the working file
  RowWidth,    \* the length of the line cb2 writes of it
  HdrText, FinText,  \* of the header and the FIN line, but for their number
  OddWidths,   \* of the lines cb2 may write of a record torn in two
  Buffer,      \* units in a stdio buffer
  Gets         \* the most one fgets reads: 255 bytes

Live  == 0     \* the file of the day that is not over, ./Master.csv
Empty == -1    \* seclama.log between its truncation and its rewriting

Number == {n \in Nat : n <= 99999}   \* what five digits write

\* The call records there are.
Rows == UNION {{Cdr[d][i] : i \in DOMAIN Cdr[d]} : d \in DOMAIN Cdr}

ASSUME ConstAssumption ==
  /\ IsFiniteSet(Conn) /\ Polite \subseteq Conn
  /\ MaxOpen \in Nat \ {0} /\ MaxProcs \in Nat \ {0} /\ MaxStarts \in Nat
  /\ HangUp \in BOOLEAN
  /\ Day \subseteq Nat \ {0} /\ Today \in Day
  /\ Request # {} /\ Request \subseteq [ok : BOOLEAN, first : Day, last : Day]
  /\ DOMAIN Cdr \subseteq Day \cup {Live}
  /\ \A d \in DOMAIN Cdr : Cdr[d] \in Seq(Rows)
  /\ FirstSeq \in Number /\ MaxSeq \in Number /\ MaxSeq < 99999
  /\ CallWidth \in [Rows -> Nat \ {0}] /\ RowWidth \in [Rows -> Nat \ {0}]
  /\ HdrText \in Nat /\ FinText \in Nat /\ OddWidths \subseteq Nat \ {0}
  /\ Buffer \in Nat \ {0} /\ Gets \in Nat \ {0}

-----------------------------------------------------------------------------
(* Text.  A line is its kind, what it tells and its length; a unit of text *)
(* is a line and a place of it.  Every line ends in a line feed.           *)
Digits(n) == 1 + Cardinality({k \in 1..9 : 10 ^ k <= n})

Call(r) == <<"call", r, CallWidth[r]>>
Row(r)  == <<"row", r, RowWidth[r]>>
Hdr(n)  == <<"hdr", n, HdrText + Digits(n)>>
Fin(n)  == <<"fin", n, FinText + Digits(n)>>
Odd(w)  == <<"odd", 0, w>>
Late(w) == <<"late", 0, w>>   \* of a record cut short by the end of the file

Text(line)   == [k \in 1..line[3] |-> <<line, k>>]
Texts(lines) == FlattenSeq([i \in DOMAIN lines |-> Text(lines[i])])

\* A write beyond the end of a file that another process truncated leaves
\* NUL bytes.
Hole == <<<<"hole", 0, 1>>, 0>>

Ends(u) == u[2] = u[1][3]

\* What was read last: nothing yet, or text that is not as anybody wrote it.
Start == <<<<"start", 0, 0>>, 0>>
Torn  == <<<<"torn", 0, 1>>, 0>>
Follows(t, u) == IF Ends(t) THEN u[2] = 1 ELSE u = <<t[1], t[2] + 1>>
Smooth(last, text) ==
  \A i \in DOMAIN text : Follows(IF i = 1 THEN last ELSE text[i - 1], text[i])

\* The units at positions m + 1 to n of s, as far as they exist.
Slice(s, m, n) == SubSeq(s, m + 1, IF n < Len(s) THEN n ELSE Len(s))

\* A file after text is written at offset at: what is beyond stays.
WriteAt(file, at, text) ==
  [i \in 1..(IF at + Len(text) > Len(file) THEN at + Len(text)
             ELSE Len(file)) |->
     IF i > at /\ i <= at + Len(text) THEN text[i - at]
     ELSE IF i <= Len(file) THEN file[i] ELSE Hole]
-----------------------------------------------------------------------------
VARIABLES
  server,   \* "listening" or "down"
  starts,   \* how many times it was started
  procs,    \* children forked since then: nobody waits for them
  pc,       \* where each connection is
  hung,     \* the connections whose client has gone
  req,      \* what each client asked
  loc,      \* the local variables of each child
  seq,      \* the number each child took
  work,     \* ./tmp/normal_fecha.dbs
  seclama,  \* seclama.log
  lama,     \* lama.cal
  got,      \* the text each client received
  issued    \* history: the numbers AsteriskGetSecLama returned, in order

proc  == <<server, starts, procs>>
files == <<work, seclama, lama>>
vars  == <<server, starts, procs, pc, hung, req, loc, seq, work, seclama,
           lama, got, issued>>

Working == {"recv", "shell", "cat", "read", "trunc", "put", "open", "parse",
            "close", "send"}
Ended   == {"done", "failed", "dead"}
PC      == {"idle", "queued"} \cup Working \cup Ended

Held(c) == pc[c] \in {"queued"} \cup Working /\ c \notin hung

NoLocals == [src |-> 1, found |-> FALSE, in |-> 0, last |-> Start,
             out |-> <<>>, at |-> 0, count |-> 0]

Init ==
  /\ server = "listening" /\ starts = 1 /\ procs = 0
  /\ pc = [c \in Conn |-> "idle"]
  /\ hung = {}
  /\ req = [c \in Conn |-> CHOOSE r \in Request : TRUE]
  /\ loc = [c \in Conn |-> NoLocals]
  /\ seq = [c \in Conn |-> Empty]
  /\ work = <<>> /\ seclama = FirstSeq /\ lama = <<>>
  /\ got = [c \in Conn |-> <<>>]
  /\ issued = <<>>
-----------------------------------------------------------------------------
(* The number in seclama.log, and the records of a request.                *)
\* n written over the digits of old: those beyond the end of n stay.
Powers == {10, 100, 1000, 10000, 100000}
Scale(n) == CHOOSE p \in Powers : n < p /\ \A q \in Powers : n < q => p <= q
OverwriteUnflushed(old, n) == old   \* mutant: no fclose
Overwrite(old, n) ==
  IF old = Empty \/ Scale(n) >= Scale(old) THEN n
  ELSE LET rest == Scale(old) \div Scale(n) IN (n * rest) + (old % rest)

\* The files a request makes the child concatenate, in order.
Sources(r) ==
  LET n    == IF r.last < r.first THEN 0 ELSE r.last - r.first + 1
      days == [i \in 1..n |-> r.first + i - 1]
  IN IF r.last # Today THEN days
     ELSE IF r.first = Today THEN <<Live>> ELSE Append(days, Live)

\* The entries of s at some of its places, in their order.
Nth(places, k) == CHOOSE i \in places : Cardinality({j \in places : j <= i}) = k
Chosen(s, places) == [k \in 1..Cardinality(places) |-> s[Nth(places, k)]]

\* What cb2 keeps of some text, at the ends of records, and the lines it writes.
Kept(text) ==
  Chosen(text, {i \in DOMAIN text : Ends(text[i]) /\ text[i][1][2] \in Billable})
RowLines(ends) == Texts([i \in DOMAIN ends |-> Row(ends[i][1][2])])

\* The text of call records.
CallText(rows) == Texts([i \in DOMAIN rows |-> Call(rows[i])])
-----------------------------------------------------------------------------
(* The clients, and the parent's loop.                                     *)
Connect(c) ==
  /\ server = "listening" /\ pc[c] = "idle"
  /\ Cardinality({d \in Conn : Held(d)}) < MaxOpen
  /\ pc' = [pc EXCEPT ![c] = "queued"]
  /\ \E r \in Request : req' = [req EXCEPT ![c] = r]
  /\ UNCHANGED <<proc, hung, loc, seq, files, got, issued>>

ClientLeaves(c) ==
  /\ HangUp /\ Held(c)
  /\ hung' = hung \cup {c}
  /\ UNCHANGED <<proc, pc, req, loc, seq, files, got, issued>>

ForkAnyway == TRUE   \* mutant: no error path
ForkWorks  == procs < MaxProcs

Accept(c) ==
  /\ server = "listening" /\ pc[c] = "queued"
  /\ ForkWorks
  /\ procs' = procs + 1
  /\ pc' = [pc EXCEPT ![c] = "recv"]
  /\ UNCHANGED <<server, starts, hung, req, loc, seq, files, got, issued>>

\* StartServerTCP returns -1: main sleeps and exits, the children go on, the
\* connections nobody accepted are reset.
GoDown ==
  /\ server' = "down"
  /\ pc' = [c \in Conn |-> IF pc[c] = "queued" THEN "dead" ELSE pc[c]]
  /\ UNCHANGED <<starts, procs, hung, req, loc, seq, files, got, issued>>

ForkRetries == /\ server = "listening" /\ procs >= MaxProcs   \* mutant: goes on
               /\ UNCHANGED vars
ForkFails ==
  /\ server = "listening" /\ procs >= MaxProcs
  /\ \E c \in Conn : pc[c] = "queued"
  /\ GoDown

AcceptFails == server = "listening" /\ GoDown

\* The process group is killed, or the machine stops: the files stay.
Halt ==
  /\ server = "listening"
  /\ server' = "down"
  /\ pc' = [c \in Conn |-> IF pc[c] \in {"queued"} \cup Working THEN "dead"
                           ELSE pc[c]]
  /\ UNCHANGED <<starts, procs, hung, req, loc, seq, files, got, issued>>

Restart ==
  /\ server = "down" /\ starts < MaxStarts
  /\ server' = "listening" /\ starts' = starts + 1
  /\ procs' = 0
  /\ UNCHANGED <<pc, hung, req, loc, seq, files, got, issued>>
-----------------------------------------------------------------------------
(* The child.                                                              *)
Goto(c, from, to) == pc[c] = from /\ pc' = [pc EXCEPT ![c] = to]

\* recv waits for the client, or for its end: it may return the request, a
\* part of it, nothing or an error; all but the first fail the checks of
\* ProcessReqTCP, as a malformed request does.
Recv(c) ==
  /\ \/ req[c].ok /\ Goto(c, "recv", "shell")
     \/ Goto(c, "recv", "failed")
  /\ UNCHANGED <<proc, hung, req, loc, seq, files, got, issued>>

\* The redirection of a cat: ">" as long as none has succeeded, then ">>".
RedirectAnew(c) == <<>>   \* mutant: always ">"
Redirect(c) == IF loc[c].found THEN work ELSE <<>>

\* system(): the shell opens the working file.
Shell(c) ==
  /\ loc[c].src <= Len(Sources(req[c]))
  /\ Goto(c, "shell", "cat")
  /\ work' = Redirect(c)
  /\ UNCHANGED <<proc, hung, req, loc, seq, seclama, lama, got, issued>>

\* cat fails on a day without a backup, and the loop goes on.
Cat(c) ==
  LET src == Sources(req[c])[loc[c].src] IN
  /\ Goto(c, "cat", "shell")
  /\ IF src \in DOMAIN Cdr
     THEN /\ work' = IF loc[c].found THEN work \o CallText(Cdr[src])
                     ELSE WriteAt(work, 0, CallText(Cdr[src]))
          /\ loc' = [loc EXCEPT ![c].src = @ + 1, ![c].found = TRUE]
     ELSE /\ loc' = [loc EXCEPT ![c].src = @ + 1]
          /\ UNCHANGED work
  /\ UNCHANGED <<proc, hung, req, seq, seclama, lama, got, issued>>

CatsDone(c) ==
  /\ loc[c].src > Len(Sources(req[c]))
  /\ Goto(c, "shell", IF loc[c].found THEN "read" ELSE "failed")
  /\ UNCHANGED <<proc, hung, req, loc, seq, files, got, issued>>

InAnyRange(n) == TRUE     \* mutant: no check
InRange(n) == n <= MaxSeq

\* AsteriskGetSecLama: of an empty file fgets reads nothing, and atoi makes 0
\* of the file name the buffer still holds.
ReadSeq(c) ==
  LET n == IF seclama = Empty THEN 0 ELSE seclama IN
  /\ IF InRange(n)
     THEN Goto(c, "read", "trunc") /\ seq' = [seq EXCEPT ![c] = n]
     ELSE Goto(c, "read", "failed") /\ UNCHANGED seq
  /\ UNCHANGED <<proc, hung, req, loc, files, got, issued>>

TruncSeq(c) ==
  /\ Goto(c, "trunc", "put")
  /\ seclama' = Empty
  /\ UNCHANGED <<proc, hung, req, loc, seq, work, lama, got, issued>>

PutSeq(c) ==
  /\ Goto(c, "put", "open")
  /\ seclama' = Overwrite(seclama, seq[c] + 1)
  /\ issued' = Append(issued, seq[c])
  /\ UNCHANGED <<proc, hung, req, loc, seq, work, lama, got>>

OpenLama(c) ==
  /\ Goto(c, "open", "parse")
  /\ lama' = <<>>
  /\ loc' = [loc EXCEPT ![c].out = Text(Hdr(seq[c]))]
  /\ UNCHANGED <<proc, hung, req, seq, work, seclama, got, issued>>

\* The stream for lama.cal writes a buffer out when it gets more than one.
Flush(c) ==
  /\ Len(loc[c].out) > Buffer
  /\ pc[c] \in {"parse", "close"}
  /\ lama' = WriteAt(lama, loc[c].at, Slice(loc[c].out, 0, Buffer))
  /\ loc' = [loc EXCEPT ![c].at = @ + Buffer,
                        ![c].out = Slice(@, Buffer, Len(@))]
  /\ UNCHANGED <<proc, pc, hung, req, seq, work, seclama, got, issued>>

\* One buffer of the working file: the records kept go to the stream.  Of text
\* that other children have torn, any lines may come, one for a line feed.
Parse(c) ==
  LET text == Slice(work, loc[c].in, loc[c].in + Buffer)
      kept == Kept(text)
      feeds == Cardinality({i \in DOMAIN text : Ends(text[i])})
      whole == Smooth(loc[c].last, text)
  IN
  /\ loc[c].in < Len(work) /\ Len(loc[c].out) <= Buffer
  /\ Goto(c, "parse", "parse")
  /\ \E odd \in IF whole THEN {<<>>} ELSE SeqOf(OddWidths, feeds) :
       loc' = [loc EXCEPT ![c].in = @ + Len(text),
                          ![c].last = IF whole THEN text[Len(text)] ELSE Torn,
                          ![c].out = @ \o IF whole THEN RowLines(kept)
                                          ELSE Texts([i \in DOMAIN odd |-> Odd(odd[i])]),
                          ![c].count = @ + IF whole THEN Len(kept) ELSE Len(odd)]
  /\ UNCHANGED <<proc, hung, req, seq, files, got, issued>>

\* The end of the working file: the FIN line goes to the stream, and csv_fini
\* may have cb2 write a record that was cut short.
NoFin(c)  == IF loc[c].count = 0 THEN <<>>   \* mutant: no FIN of nothing
             ELSE Text(Fin(loc[c].count))
AddFin(c) == Text(Fin(loc[c].count))

EndOfWork(c) ==
  /\ loc[c].in >= Len(work) /\ Len(loc[c].out) <= Buffer
  /\ Goto(c, "parse", "close")
  /\ \E late \in {<<>>} \cup
                IF Ends(loc[c].last) THEN {} ELSE {Text(Late(w)) : w \in OddWidths} :
       loc' = [loc EXCEPT ![c].out = @ \o AddFin(c) \o late]
  /\ UNCHANGED <<proc, hung, req, seq, files, got, issued>>

CloseLama(c) ==
  /\ Len(loc[c].out) <= Buffer
  /\ Goto(c, "close", "send")
  /\ lama' = WriteAt(lama, loc[c].at, loc[c].out)
  /\ loc' = [loc EXCEPT ![c].out = <<>>, ![c].at = 0]
  /\ UNCHANGED <<proc, hung, req, seq, work, seclama, got, issued>>

\* What the next fgets takes of what the stream has read of lama.cal: a line,
\* or as much as it may; at the end of the file, the rest.  0 to read on.
NextGets(c) ==
  LET text == loc[c].out
      stops == {n \in DOMAIN text : Ends(text[n]) \/ n = Gets}
  IN IF stops # {} THEN Min(stops)
     ELSE IF loc[c].at >= Len(lama) THEN Len(text) ELSE 0

ReadLama(c) ==
  /\ NextGets(c) = 0 /\ loc[c].at < Len(lama)
  /\ Goto(c, "send", "send")
  /\ LET text == Slice(lama, loc[c].at, loc[c].at + Buffer)
     IN loc' = [loc EXCEPT ![c].at = @ + Len(text), ![c].out = @ \o text]
  /\ UNCHANGED <<proc, hung, req, seq, files, got, issued>>

\* strlen ends at a NUL: what a piece has behind a hole is lost.
BeforeHole(text) ==
  LET holes == {i \in DOMAIN text : text[i] = Hole}
  IN IF holes = {} THEN text ELSE SubSeq(text, 1, Min(holes) - 1)

\* One piece of lama.cal goes to the client, when the client reads.  A write
\* to a client that has left may kill the child (SIGPIPE).
Send(c) ==
  LET n == NextGets(c) IN
  /\ n > 0
  /\ \/ /\ Goto(c, "send", "send")
        /\ loc' = [loc EXCEPT ![c].out = Slice(@, n, Len(@))]
        /\ got' = IF c \in hung THEN got
                  ELSE [got EXCEPT ![c] = @ \o BeforeHole(Slice(loc[c].out, 0, n))]
     \/ c \in hung /\ Goto(c, "send", "failed") /\ UNCHANGED <<loc, got>>
  /\ UNCHANGED <<proc, hung, req, seq, files, issued>>

\* The end of lama.cal: the child returns 0 and exits.
Finish(c) ==
  /\ NextGets(c) = 0 /\ loc[c].at >= Len(lama)
  /\ Goto(c, "send", "done")
  /\ UNCHANGED <<proc, hung, req, loc, seq, files, got, issued>>

\* What a child does by itself, and when it waits for its client.
Own(c) ==
  \/ Shell(c) \/ Cat(c) \/ CatsDone(c)
  \/ ReadSeq(c) \/ TruncSeq(c) \/ PutSeq(c)
  \/ OpenLama(c) \/ Flush(c) \/ Parse(c) \/ EndOfWork(c) \/ CloseLama(c)
  \/ ReadLama(c) \/ Finish(c)
Waits(c) == Recv(c) \/ Send(c)

Child(c) == Own(c) \/ Waits(c)

Next ==
  \/ \E c \in Conn : Connect(c) \/ ClientLeaves(c) \/ Accept(c) \/ Child(c)
  \/ ForkFails \/ AcceptFails \/ Halt \/ Restart

Spec == Init /\ [][Next]_vars

(* The kernel schedules the parent and every child, and ends the waiting   *)
(* of a child whose client has gone.  recv and write have no timeout: they *)
(* go on when the client sends and reads, which the polite ones do.        *)
(* Nothing forces a client to connect or to leave, or the server to fail   *)
(* or to be restarted.                                                     *)
FairSpec ==
  /\ Spec
  /\ WF_vars(ForkFails)
  /\ \A c \in Conn : /\ WF_vars(Accept(c)) /\ WF_vars(Own(c))
                     /\ WF_vars(c \in hung /\ Waits(c))
  /\ \A c \in Polite : WF_vars(Waits(c))
-----------------------------------------------------------------------------
TypeOK ==
  /\ server \in {"listening", "down"}
  /\ starts \in Nat \ {0} /\ procs \in 0..MaxProcs
  /\ pc \in [Conn -> PC]
  /\ hung \subseteq Conn
  /\ req \in [Conn -> Request]
  /\ seq \in [Conn -> Int]
  /\ seclama \in {Empty} \cup Number
  /\ issued \in Seq(Int)

(* Whatever the interleaving, seclama.log is empty only while a child is   *)
(* between its truncation and its rewriting (cdr_asterisk.c:169-177), or   *)
(* after a halt: two children that race may leave a wrong number there,    *)
(* never no number.                                                        *)
SeqFileWhole ==
  (server = "listening" /\ starts = 1 /\ seclama = Empty)
    => \E c \in Conn : pc[c] = "put"

(* Whatever the interleaving and the lengths of the replies, once no child *)
(* is writing it and none was killed, lama.cal ends as a FIN line does, or *)
(* as the line csv_fini adds to it for a record cut short                  *)
(* (cdr_asterisk.c:99-113): never with a record or half a line.  Of a line *)
(* that a shorter reply has overwritten, it may be the end only.           *)
LamaClosed ==
  (/\ server = "listening" /\ starts = 1 /\ lama # <<>>
   /\ \A c \in Conn : pc[c] \notin {"parse", "close"})
    => LET u == lama[Len(lama)] IN Ends(u) /\ u[1][1] \in {"fin", "late"}

\* The records of the days of a request, wherever there are any: of the first
\* k of its files, and of all of them.
Backup(d) == IF d \in DOMAIN Cdr THEN CallText(Cdr[d]) ELSE <<>>
Gathered(r) ==
  LET upto[k \in Nat] == IF k = 0 THEN <<>>
                         ELSE upto[k - 1] \o Backup(Sources(r)[k])
  IN upto
Records(r) == Gathered(r)[Len(Sources(r))]

Reply(c) ==
  LET kept == Kept(Records(req[c]))
  IN Text(Hdr(seq[c])) \o RowLines(kept) \o Text(Fin(Len(kept)))

(* Once a child has returned 0 ("ya procese todo y lo envie",              *)
(* server_tcp.c:187) its client has the header with its own number, the    *)
(* billable records of its dates, in order, and their count; before that   *)
(* it has a prefix of it.                                                  *)
ReplyExact ==
  \A c \in Conn :
    /\ IsPrefix(got[c], Reply(c))
    /\ pc[c] = "done" /\ c \notin hung => got[c] = Reply(c)

(* LAMA/lama.org: the number of the LAMA request grows always.             *)
NumbersGrow ==
  \A i, j \in DOMAIN issued : i < j => issued[i] < issued[j]

(* A connection that waits in the backlog is served, or refused because    *)
(* the server stopped, if its client sends its request and reads the       *)
(* answer: no other client holds it up, not one that connects and is       *)
(* silent nor one that never reads, and no child waits for another.        *)
Served == \A c \in Polite : pc[c] = "queued" ~> pc[c] \in Ended
-----------------------------------------------------------------------------
(* What a client relies on: a dispenser of numbers (LamaSequence), which   *)
(* only a crash between truncation and rewriting sets back.                *)
NextToIssue ==
  IF \E c \in Conn : pc[c] = "put"
  THEN seq[CHOOSE c \in Conn : pc[c] = "put"]
  ELSE IF seclama = Empty THEN 0 ELSE seclama

Sequence == INSTANCE LamaSequence WITH
              up <- (server = "listening"), next <- NextToIssue
SequenceSpec == Sequence!Spec
=============================================================================
