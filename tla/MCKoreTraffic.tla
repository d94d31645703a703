---------------------------- MODULE MCKoreTraffic ----------------------------
(* What the processes of Kore take in - the requests of the clients, and   *)
(* the messages they send each other - each checked on an instance of its  *)
(* own: `part' says which one a behaviour is of.  The requests are those   *)
(* whose bodies come in two units or are too long, and websockets; the     *)
(* messages those of a renewal, a worker that dies, and two handshakes or  *)
(* words to the parent.                                                    *)
EXTENDS KoreRequests, KoreMessages

VARIABLE part

(* What each module assumes of its constants.                              *)
ASSUME RequestsAssumption /\ MessagesAssumption

TrafficInit == part \in {"http", "messages"} /\ Init /\ MessagesInit

TrafficNext ==
  /\ \/ part = "http" /\ Next /\ UNCHANGED messagesVars
     \/ part = "messages" /\ MessagesNext /\ UNCHANGED vars
  /\ UNCHANGED part

(* The fairness of each module, for the behaviours of its part.            *)
RequestsFairness ==
  /\ WF_vars(part = "http" /\ LoopStep)
  /\ SF_vars(part = "http" /\ EndPass /\ loop' = "prune")
  /\ SF_vars(part = "http" /\ \E r \in Reqs : TaskHandled(r))
  /\ SF_vars(part = "http" /\ \E c \in Conns : Writable(c))
  /\ \A c \in Conns : WF_vars(part = "http" /\ SendsBody(c))
PassingFairness ==
  /\ WF_messagesVars(part = "messages" /\ Reload)
  /\ WF_messagesVars(part = "messages" /\ KeymgrReceives)
  /\ \A p \in Procs : WF_messagesVars(part = "messages" /\ ParentRelays(p))
  /\ \A w \in Workers : /\ WF_messagesVars(part = "messages" /\ WorkerStep(w))
                        /\ WF_messagesVars(part = "messages" /\ Replaced(w))

TrafficSpec ==
  /\ TrafficInit /\ [][TrafficNext]_<<part, vars, messagesVars>>
  /\ RequestsFairness /\ PassingFairness
=============================================================================
