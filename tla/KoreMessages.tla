---------------------------- MODULE KoreMessages ---------------------------
(* The messages between Kore's processes (kore-3.2.0/src/msg.c): every     *)
(* process has one channel to the parent, which handles what is for itself *)
(* and passes the rest on.  Over it the key manager hands out certificates *)
(* (keymgr.c, worker.c) and signs for the workers' TLS handshakes          *)
(* (domain.c), while workers die and are replaced and certificates renewed.*)
EXTENDS Naturals, Sequences, FiniteSets

CONSTANTS Workers, Keymgr,
          MaxRenewals,   \* bound: certificates written after the first
          MaxDeaths,     \* bound: workers that die
          MaxSigned      \* bound: handshakes, and messages to the parent

Procs == Workers \cup {Keymgr}
All    == "KORE_MSG_WORKER_ALL"
Parent == "KORE_MSG_PARENT"

MessagesAssumption ==
  /\ Keymgr \notin Workers /\ {All, Parent} \cap Procs = {}
  /\ {MaxRenewals, MaxDeaths, MaxSigned} \subseteq Nat

VARIABLES
  up,     \* what each process sent and the parent has not read
  down,   \* what the parent sent each process and it has not read
  disk,   \* the certificate and key in the files, by version
  keys,   \* the private key the key manager has loaded; 0 before it starts
  ctx,    \* the certificate of each worker's ssl_ctx; 0 for none
  asks,   \* the handshake each worker is blocked in keymgr_await_data for, or 0
  used,   \* the certificate that handshake uses
  signed, \* handshakes begun: the number of the last one
  result, \* how the last one ended
  late,   \* the worker gave up waiting, or took over from one that died
  alive,  \* FALSE from a worker's death to its replacement
  deaths,
  stopping \* the parent has raised SIGQUIT for a KORE_MSG_SHUTDOWN

channels == <<up, down>>
tls      == <<ctx, asks, used, signed, result, late>>
messagesVars == <<up, down, disk, keys, tls, alive, deaths, stopping>>

(* What a message is about: a handshake, a certificate's or key's version. *)
Message(id, src, dst, n, v) ==
  [id |-> id, src |-> src, dst |-> dst, n |-> n, version |-> v]

MessagesInit ==
  /\ up = [p \in Procs |-> <<>>] /\ down = [p \in Procs |-> <<>>]
  /\ disk = 1 /\ keys = 0
  /\ ctx = [w \in Workers |-> 0]
  /\ asks = [w \in Workers |-> 0]
  /\ used = [w \in Workers |-> 0]
  /\ signed = 0
  /\ result = [w \in Workers |-> "none"]
  /\ late = [w \in Workers |-> FALSE]
  /\ alive = [w \in Workers |-> TRUE]
  /\ deaths = 0 /\ stopping = FALSE
-----------------------------------------------------------------------------
(* kore_msg_send: the message is queued on the process's own channel.      *)
Sends(p, m) == up' = [up EXCEPT ![p] = Append(@, m)]

Receives(p) == down' = [down EXCEPT ![p] = Tail(@)]

ParentHandles == {"SHUTDOWN", "ACCESSLOG"}

(* Mutant: every worker gets every message.                                *)
Everyone(m) == Procs
Receivers(m) == IF m.dst = All THEN Procs ELSE {m.dst}

KeepsDst(m, q) == m              \* mutant: the receiver's id is not put in
Addressed(m, q) == [m EXCEPT !.dst = q]

(* msg_recv_data in the parent: a message of a registered type is handled  *)
(* here; any other goes, with its dst made the receiver's own id, to the   *)
(* connections whose worker it names, the sender's too.                    *)
ParentRelays(p) ==
  /\ up[p] # <<>>
  /\ up' = [up EXCEPT ![p] = Tail(@)]
  /\ LET m == Head(up[p]) IN
       IF m.id \in ParentHandles
         THEN /\ stopping' = (stopping \/ m.id = "SHUTDOWN")
              /\ UNCHANGED down
         ELSE /\ down' = [q \in Procs |->
                   IF q \in Receivers(m) THEN Append(down[q], Addressed(m, q))
                   ELSE down[q]]
              /\ UNCHANGED stopping
  /\ UNCHANGED <<disk, keys, tls, alive, deaths>>
-----------------------------------------------------------------------------
(* The key manager.                                                        *)

SubmitsNobody(v) == up          \* mutant: the new keys are loaded in silence
SubmitsAll(v) ==
  [up EXCEPT ![Keymgr] = Append(@, Message("CERTIFICATE", Keymgr, All, 0, v))]

(* keymgr_reload, when it starts and for a SIGUSR1: the keys are read from *)
(* their files, and the certificates from theirs and sent to all.          *)
Reload ==
  /\ keys < disk /\ ~stopping
  /\ keys' = disk
  /\ up' = SubmitsAll(disk)
  /\ UNCHANGED <<down, disk, tls, alive, deaths, stopping>>

(* What the loop of the key manager does with a message.  A certificate    *)
(* asked for is read from the file again.                                  *)
KeymgrReceives ==
  /\ keys > 0 /\ down[Keymgr] # <<>>
  /\ Receives(Keymgr)
  /\ LET m == Head(down[Keymgr]) IN
       \/ /\ m.id = "CERTIFICATE_REQ"
          /\ Sends(Keymgr, Message("CERTIFICATE", Keymgr, m.src, 0, disk))
       \/ /\ m.id = "KEYMGR_REQ"
          /\ Sends(Keymgr, Message("KEYMGR_RESP", Keymgr, m.src, m.n, keys))
       \/ /\ m.id \notin {"CERTIFICATE_REQ", "KEYMGR_REQ"}
          /\ UNCHANGED up
  /\ UNCHANGED <<disk, keys, tls, alive, deaths, stopping>>
-----------------------------------------------------------------------------
(* A worker.                                                               *)

Idle(w) == alive[w] /\ asks[w] = 0

(* keymgr_rsa_privenc, keymgr_ecdsa_sign up to keymgr_await_data: a        *)
(* handshake in a domain with an ssl_ctx needs a signature.                *)
BeginsHandshake(w) ==
  /\ Idle(w) /\ ctx[w] # 0 /\ signed < MaxSigned
  /\ Sends(w, Message("KEYMGR_REQ", w, Keymgr, signed + 1, 0))
  /\ asks' = [asks EXCEPT ![w] = signed + 1]
  /\ signed' = signed + 1
  /\ used' = [used EXCEPT ![w] = ctx[w]]
  /\ UNCHANGED <<down, disk, keys, ctx, result, late, alive, deaths, stopping>>

Ends(w, how) ==
  /\ asks' = [asks EXCEPT ![w] = 0]
  /\ result' = [result EXCEPT ![w] = how]

(* Whether the answer fits the handshake that takes it.                    *)
Fits(w, answer) ==
  IF answer.n # asks[w] THEN "wrong"
  ELSE IF answer.version # used[w] THEN "other key" ELSE "signed"

(* msg_recv_data in a worker, from the loop or from keymgr_await_data: a   *)
(* certificate makes a new ssl_ctx (kore_domain_tlsinit); an answer ends   *)
(* the wait, or is forgotten by the next one.                              *)
WorkerReceives(w) ==
  /\ alive[w] /\ down[w] # <<>>
  /\ Receives(w)
  /\ LET m == Head(down[w]) IN
       \/ /\ m.id = "CERTIFICATE"
          /\ ctx' = [ctx EXCEPT ![w] = m.version]
          /\ UNCHANGED <<asks, result>>
       \/ /\ m.id = "KEYMGR_RESP" /\ asks[w] # 0
          /\ Ends(w, Fits(w, m))
          /\ UNCHANGED ctx
       \/ /\ m.id \notin {"CERTIFICATE", "KEYMGR_RESP"} \/ (m.id = "KEYMGR_RESP" /\ asks[w] = 0)
          /\ UNCHANGED <<ctx, asks, result>>
  /\ UNCHANGED <<up, disk, keys, used, signed, late, alive, deaths, stopping>>

(* keymgr_await_data gives up after a second: the request stays where it is.*)
GivesUp(w) ==
  /\ alive[w] /\ asks[w] # 0
  /\ Ends(w, "failed")
  /\ late' = [late EXCEPT ![w] = TRUE]
  /\ UNCHANGED <<channels, disk, keys, ctx, used, signed, alive, deaths, stopping>>

(* kore_accesslog, kore_shutdown.                                          *)
TellsParent(w, id) ==
  /\ Idle(w) /\ signed < MaxSigned
  /\ signed' = signed + 1
  /\ Sends(w, Message(id, w, Parent, 0, 0))
  /\ UNCHANGED <<down, disk, keys, ctx, asks, used, result, late, alive, deaths, stopping>>

Dies(w) ==
  /\ alive[w] /\ deaths < MaxDeaths
  /\ alive' = [alive EXCEPT ![w] = FALSE]
  /\ deaths' = deaths + 1
  /\ UNCHANGED <<channels, disk, keys, tls, stopping>>

DoesNotAsk(w) == <<>>     \* mutant: the new worker waits to be told
FirstMessages(w) == <<Message("CERTIFICATE_REQ", w, Keymgr, 0, 0)>>

(* kore_worker_wait: kore_msg_parent_remove closes the channel with all    *)
(* that is in it, a new worker is forked with restarted set and asks for   *)
(* the certificates, kore_msg_parent_add opens a channel to it.            *)
Replaced(w) ==
  /\ ~alive[w] /\ ~stopping
  /\ alive' = [alive EXCEPT ![w] = TRUE]
  /\ up' = [up EXCEPT ![w] = FirstMessages(w)]
  /\ down' = [down EXCEPT ![w] = <<>>]
  /\ ctx' = [ctx EXCEPT ![w] = 0]
  /\ asks' = [asks EXCEPT ![w] = 0]
  /\ result' = [result EXCEPT ![w] = "none"]
  /\ late' = [late EXCEPT ![w] = TRUE]
  /\ UNCHANGED <<disk, keys, used, signed, deaths, stopping>>

(* Somebody writes a new certificate and key.                              *)
Renewed ==
  /\ disk <= MaxRenewals
  /\ disk' = disk + 1
  /\ UNCHANGED <<channels, keys, tls, alive, deaths, stopping>>

WorkerStep(w) == WorkerReceives(w) \/ GivesUp(w)

MessagesNext ==
  \/ Reload \/ KeymgrReceives \/ Renewed
  \/ \E p \in Procs : ParentRelays(p)
  \/ \E w \in Workers :
       \/ WorkerStep(w) \/ BeginsHandshake(w) \/ Dies(w) \/ Replaced(w)
       \/ \E id \in ParentHandles : TellsParent(w, id)

(* Every process reads its channel, waits a second at most, and is replaced *)
(* when it dies; SIGUSR1 comes some time after a renewal.                  *)
MessagesFairness ==
  /\ WF_messagesVars(Reload) /\ WF_messagesVars(KeymgrReceives)
  /\ \A p \in Procs : WF_messagesVars(ParentRelays(p))
  /\ \A w \in Workers : WF_messagesVars(WorkerStep(w)) /\ WF_messagesVars(Replaced(w))

MessagesSpec == MessagesInit /\ [][MessagesNext]_messagesVars /\ MessagesFairness
-----------------------------------------------------------------------------
(* No process reaches the fatal() of msg_recv_data (msg.c:174-177): what   *)
(* a process receives is addressed to it, what the parent handles to the   *)
(* parent; and the first message of a channel that outlived its worker is  *)
(* never one for the worker before it.                                     *)
RightAddress ==
  \A p \in Procs :
    /\ \A i \in 1..Len(down[p]) : down[p][i].dst = p /\ down[p][i].id \notin ParentHandles
    /\ \A i \in 1..Len(up[p]) :
         /\ up[p][i].src = p
         /\ (up[p][i].id \in ParentHandles) = (up[p][i].dst = Parent)

(* A worker that never gave up waiting and is not a replacement never      *)
(* takes another's answer for its own (domain.c:740-750).                  *)
WrongOnlyWhenLate == \A w \in Workers : result[w] = "wrong" => late[w]

(* Every process receives what is addressed to it, and a worker takes      *)
(* another's answer for its own only if it gave up waiting or is a         *)
(* replacement (msg_recv_data, keymgr_await_data).                         *)
MessagesAreRight == RightAddress /\ WrongOnlyWhenLate

(* When an answer is taken, the key it was made with is not newer than the *)
(* worker's certificate: the new certificate arrived first, so that a      *)
(* handshake that fails for it is followed by one that does not            *)
(* (keymgr.c:185-192).                                                     *)
CertificateFirst ==
  [][\A w \in Workers :
       asks[w] # 0 /\ asks'[w] = 0 /\ result'[w] \in {"signed", "other key"} =>
         Head(down[w]).version <= ctx[w]]_messagesVars

(* In the end every worker has the certificate of the keys, whatever       *)
(* workers died, before or after it was sent (worker.c:365-368).           *)
CertificateInTheEnd ==
  <>[](stopping \/ \A w \in Workers : alive[w] /\ ctx[w] = keys)

(* A worker has a certificate before an answer made with its key, and in   *)
(* the end every worker has that of the keys (keymgr_certificate_request,  *)
(* worker_certificate_recv).                                               *)
CertificatesArrive == CertificateFirst /\ CertificateInTheEnd
=============================================================================
