----------------------------- MODULE KoreConfig -----------------------------
(* What a server of Kore is told and what comes of it: the lines of its    *)
(* configuration file, one action a directive (config.c), the domains,     *)
(* page handlers, authentication blocks and validators they make           *)
(* (domain.c, module.c, auth.c, validator.c), what a request finds there   *)
(* and what reloading the modules on SIGHUP does to it.                    *)
(* A line that Kore ignores is not modelled, nor is a directive that only  *)
(* stores a word; the numbers are classes: below, at and above the limits. *)
EXTENDS Naturals, Sequences, FiniteSetsExt

CONSTANTS
  None,
  Names,        \* of domains
  Covers,       \* pairs: the first name is a pattern that matches the second
  Paths, AuthNames, ValidatorNames, Functions, Modules,
  Exports,      \* [Modules -> [1..n -> SUBSET Functions]]: each build of a module
  Directives,   \* those that occur in the instance
  MaxLines, MaxDepth, MaxEach   \* bounds: lines, open files, of each list

ConfigAssumption ==
  /\ Covers \subseteq Names \X Names
  /\ Exports \in [Modules -> Seq(SUBSET Functions)]

VARIABLES
  phase,        \* "parse", "fatal" or "running"
  lines, depth, \* lines read; files open: the configuration and its includes
  at,           \* current_domain, _handler, _auth (0: NULL), _method, _flags
  domains, auths, validators, modules,
  numbers,      \* the number settings
  users,        \* root, runas, keymgr_root and keymgr_runas: those that are set
  built         \* the build of each module in its file; 0: there is none

vars == <<phase, lines, depth, at, domains, auths, validators, modules, numbers, users, built>>
tree == <<domains, auths, validators, modules>>

Least(I) == IF I = {} THEN 0 ELSE Min(I)

DomainLookup(ds, n) == Least({d \in DOMAIN ds : ds[d].name = n \/ <<ds[d].name, n>> \in Covers})
AuthLookup(a)       == Least({i \in DOMAIN auths : auths[i].name = a})
ValidatorLookup(v)  == Least({i \in DOMAIN validators : validators[i].name = v})
HandlerOf(d, p)     == Least({h \in DOMAIN domains[d].handlers : domains[d].handlers[h].path = p})

(* The module and its build that a function is called in: the first that   *)
(* has it.                                                                 *)
Getcall(ms, f) ==
  LET i == Least({j \in DOMAIN ms : f \in Exports[ms[j].path][ms[j].mtime]})
  IN IF i = 0 THEN None ELSE <<ms[i].path, ms[i].mtime>>

\* The numbers, their least value and the bits of the largest.
HttpLimits ==
  [http_header_max |-> <<1, 16>>, http_body_max |-> <<0, 63>>,
   http_body_disk_offload |-> <<0, 63>>, http_hsts_enable |-> <<0, 63>>,
   http_keepalive_time |-> <<0, 16>>, http_request_ms |-> <<0, 32>>,
   http_request_limit |-> <<0, 32>>]
WorkerLimits ==
  [workers |-> <<1, 8>>, worker_max_connections |-> <<1, 32>>,
   worker_rlimit_nofiles |-> <<1, 32>>, worker_accept_threshold |-> <<1, 32>>,
   worker_set_affinity |-> <<0, 1>>, socket_backlog |-> <<0, 32>>]
PgsqlLimits == [pgsql_conn_max |-> <<0, 16>>, pgsql_queue_limit |-> <<0, 32>>]
TaskLimits  == [task_threads |-> <<0, 8>>]
Options ==
  Directives \cap UNION {DOMAIN HttpLimits, DOMAIN WorkerLimits, DOMAIN PgsqlLimits, DOMAIN TaskLimits}

(* `line' is the params line that is open, for ParamsAsDeclared.           *)
Closed == [domain |-> 0, handler |-> 0, auth |-> 0, method |-> None, flags |-> {}, line |-> None]

Init ==
  /\ phase = "parse" /\ lines = 0 /\ depth = 1 /\ at = Closed
  /\ domains = <<>> /\ auths = <<>> /\ validators = <<>> /\ modules = <<>>
  /\ numbers = [o \in Options |-> "default"] /\ users = {}
  /\ built = [m \in Modules |-> 1]

Reads(directive) ==
  /\ directive \in Directives
  /\ phase = "parse" /\ lines < MaxLines
  /\ lines' = lines + 1 /\ UNCHANGED <<phase, depth, built>>
-----------------------------------------------------------------------------
NotReset == {"query"} \cap at.flags      \* mutant: the flags of the block stay
Reset    == {}

Unchecked(a) == TRUE                     \* mutant: a block without a validator
HasValidator(a) == auths[a].validator # 0

(* "}": the innermost block that is open, a params block before an         *)
(* authentication block before a domain.                                   *)
CloseHandler ==
  /\ at.handler # 0
  /\ at' = [at EXCEPT !.handler = 0, !.method = None, !.flags = Reset, !.line = None]
CloseAuth ==
  /\ at.handler = 0 /\ at.auth # 0 /\ HasValidator(at.auth)
  /\ at' = [at EXCEPT !.auth = 0]
CloseDomain ==
  /\ at.handler = 0 /\ at.auth = 0
  /\ at' = [at EXCEPT !.domain = 0]
Close ==
  /\ Reads("close") /\ at # Closed
  /\ CloseHandler \/ CloseAuth \/ CloseDomain
  /\ UNCHANGED <<tree, numbers, users>>

(* Another file goes on in the blocks that are open; its end returns to    *)
(* the line after.                                                         *)
Include ==
  /\ "include" \in Directives /\ phase = "parse" /\ lines < MaxLines /\ depth < MaxDepth
  /\ lines' = lines + 1 /\ depth' = depth + 1
  /\ UNCHANGED <<phase, at, tree, numbers, users, built>>
IncludeEnds ==
  /\ phase = "parse" /\ depth > 1
  /\ depth' = depth - 1
  /\ UNCHANGED <<phase, lines, at, tree, numbers, users, built>>

LoadOk(m, onload) == built[m] # 0 /\ onload \in Exports[m][built[m]] \cup {None}
Load(m, onload) ==
  /\ Reads("load") /\ LoadOk(m, onload) /\ Len(modules) < MaxEach
  /\ modules' = Append(modules, [path |-> m, mtime |-> built[m], onload |-> onload])
  /\ UNCHANGED <<at, domains, auths, validators, numbers, users>>

\* mutant: only the same name is refused
DomainAnew(n)  == at.domain = 0 /\ \A d \in DOMAIN domains : domains[d].name # n
DomainNewOk(n) == at.domain = 0 /\ DomainLookup(domains, n) = 0
Domain(n) ==
  /\ Reads("domain") /\ DomainNewOk(n) /\ Len(domains) < MaxEach
  /\ domains' = Append(domains, [name |-> n, handlers |-> <<>>, set |-> {}])
  /\ at' = [at EXCEPT !.domain = DomainLookup(domains', n)]
  /\ UNCHANGED <<auths, validators, modules, numbers, users>>

(* certfile, certkey, client_verify and accesslog, once in a domain.       *)
OnceOk(what) == at.domain # 0 /\ what \notin domains[at.domain].set
Once(what) ==
  /\ Reads(what) /\ OnceOk(what)
  /\ domains' = [domains EXCEPT ![at.domain].set = @ \cup {what}]
  /\ UNCHANGED <<at, auths, validators, modules, numbers, users>>

(* static and dynamic: a path of a dynamic handler is a pattern; here it   *)
(* matches every path.                                                     *)
HandlerOk(f, a) ==
  at.domain # 0 /\ (a # None => AuthLookup(a) # 0) /\ Getcall(modules, f) # None
HandlerNew(type, p, f, a) ==
  /\ Reads(type) /\ HandlerOk(f, a) /\ Len(domains[at.domain].handlers) < MaxEach
  /\ LET hdlr == [type |-> type, path |-> p, func |-> f, rcall |-> Getcall(modules, f),
                  auth |-> IF a = None THEN 0 ELSE AuthLookup(a),
                  methods |-> {"get", "post"}, params |-> {}]
         d == DomainLookup(domains, domains[at.domain].name)
     IN domains' = [domains EXCEPT ![d].handlers = Append(@, hdlr)]
  /\ UNCHANGED <<at, auths, validators, modules, numbers, users>>

RestrictOk(p) == at.domain # 0 /\ HandlerOf(at.domain, p) # 0
RestrictTo(p, ms) ==
  /\ Reads("restrict") /\ RestrictOk(p)
  /\ domains' = [domains EXCEPT ![at.domain].handlers[HandlerOf(at.domain, p)].methods = ms]
  /\ UNCHANGED <<at, auths, validators, modules, numbers, users>>

ValidatorOk(type, arg) == type = "function" => Getcall(modules, arg) # None
Validator(v, type, arg) ==
  /\ Reads("validator") /\ ValidatorOk(type, arg) /\ Len(validators) < MaxEach
  /\ validators' = Append(validators,
       [name |-> v, type |-> type, arg |-> arg,
        rcall |-> IF type = "function" THEN Getcall(modules, arg) ELSE None])
  /\ UNCHANGED <<at, domains, auths, modules, numbers, users>>

(* "params [qs:]method path {": the arguments are of the query if the      *)
(* line says so, or if the method is get.                                  *)
ParamsOk(p) == at.domain # 0 /\ at.handler = 0 /\ HandlerOf(at.domain, p) # 0
Params(qs, m, p) ==
  /\ Reads("params") /\ ParamsOk(p)
  /\ LET prefix == IF qs THEN {"query"} ELSE at.flags
         implied == IF m = "get" THEN {"query"} ELSE {}
     IN at' = [at EXCEPT !.handler = HandlerOf(at.domain, p), !.method = m,
                         !.flags = prefix \cup implied, !.line = <<qs, m>>]
  /\ UNCHANGED <<tree, numbers, users>>

ValidateOk(v) == at.handler # 0 /\ ValidatorLookup(v) # 0
Validate(v) ==
  /\ Reads("validate") /\ ValidateOk(v)
  /\ domains' = [domains EXCEPT ![at.domain].handlers[at.handler].params = @ \cup
       {[method |-> at.method, flags |-> at.flags, validator |-> ValidatorLookup(v), line |-> at.line]}]
  /\ UNCHANGED <<at, auths, validators, modules, numbers, users>>

AuthOk(a) == at.auth = 0 /\ AuthLookup(a) = 0
Authentication(a) ==
  /\ Reads("authentication") /\ AuthOk(a) /\ Len(auths) < MaxEach
  /\ auths' = Append(auths, [name |-> a, type |-> None, value |-> None,
                             redirect |-> None, validator |-> 0])
  /\ at' = [at EXCEPT !.auth = Len(auths) + 1]
  /\ UNCHANGED <<domains, validators, modules, numbers, users>>

(* authentication_type, _value and _uri.                                   *)
AuthSets(field, values) ==
  /\ Reads(field) /\ at.auth # 0
  /\ \E x \in values : auths' = [auths EXCEPT ![at.auth] = [@ EXCEPT ![field] = x]]
  /\ UNCHANGED <<at, domains, validators, modules, numbers, users>>
AuthValidatorOk(v) == at.auth # 0 /\ ValidatorLookup(v) # 0
AuthValidator(v) ==
  /\ Reads("authentication_validator") /\ AuthValidatorOk(v)
  /\ auths' = [auths EXCEPT ![at.auth].validator = ValidatorLookup(v)]
  /\ UNCHANGED <<at, domains, validators, modules, numbers, users>>

Number(o, class) ==
  /\ Reads(o) /\ class \in {"least", "most"}
  /\ numbers' = [numbers EXCEPT ![o] = class]
  /\ UNCHANGED <<at, tree, users>>

User(u) ==
  /\ Reads(u) /\ users' = users \cup {u}
  /\ UNCHANGED <<at, tree, numbers>>

(* A directive that returns an error, or dies itself, ends Kore.           *)
Wrongs ==
  \/ "close" \in Directives /\ at.handler = 0 /\ at.auth # 0 /\ ~HasValidator(at.auth)
  \/ "load" \in Directives /\ \E m \in Modules, f \in Functions : ~LoadOk(m, f)
  \/ "domain" \in Directives /\ \E n \in Names : ~DomainNewOk(n)
  \/ \E what \in {"certfile", "certkey", "client_verify", "accesslog"} \cap Directives : ~OnceOk(what)
  \/ "static" \in Directives /\ \E f \in Functions, a \in AuthNames : ~HandlerOk(f, a)
  \/ "restrict" \in Directives /\ \E p \in Paths : ~RestrictOk(p)
  \/ "validator" \in Directives /\ \E f \in Functions : ~ValidatorOk("function", f)
  \/ "params" \in Directives /\ \E p \in Paths : ~ParamsOk(p)
  \/ "validate" \in Directives /\ \E v \in ValidatorNames : ~ValidateOk(v)
  \/ "authentication" \in Directives /\ \E a \in AuthNames : ~AuthOk(a)
  \/ "authentication_validator" \in Directives /\ \E v \in ValidatorNames : ~AuthValidatorOk(v)
  \/ Options # {}     \* a number below or above its limits
Wrong ==
  /\ phase = "parse" /\ lines < MaxLines /\ Wrongs
  /\ phase' = "fatal" /\ lines' = lines + 1
  /\ UNCHANGED <<depth, at, tree, numbers, users, built>>

(* The end of the configuration: the options given to Kore, -n (nochroot)  *)
(* and -r (norunas), and who started it.                                   *)
Finish(root, nochroot, norunas) ==
  /\ phase = "parse" /\ depth = 1
  /\ phase' = IF /\ modules # <<>>
                 /\ root \/ nochroot
                 /\ norunas \/ (root /\ "runas" \in users)
             THEN "running" ELSE "fatal"
  /\ users' = users \cup {"root", "keymgr_root"} \cup (IF norunas THEN {} ELSE {"keymgr_runas"})
  /\ UNCHANGED <<lines, depth, at, tree, numbers, built>>

(* One directive of each name.                                             *)
Line ==
  \/ Close \/ Include \/ IncludeEnds \/ Wrong
  \/ \E m \in Modules, f \in Functions \cup {None} : Load(m, f)
  \/ \E n \in Names : Domain(n)
  \/ \E what \in {"certfile", "certkey", "client_verify", "accesslog"} : Once(what)
  \/ \E type \in {"static", "dynamic"}, p \in Paths, f \in Functions, a \in AuthNames \cup {None} :
       HandlerNew(type, p, f, a)
  \/ \E p \in Paths, ms \in {{"get"}, {"post"}} : RestrictTo(p, ms)
  \/ \E v \in ValidatorNames : \/ Validator(v, "regex", None)
                               \/ \E f \in Functions : Validator(v, "function", f)
                               \/ Validate(v) \/ AuthValidator(v)
  \/ \E qs \in BOOLEAN, m \in {"get", "post"}, p \in Paths : Params(qs, m, p)
  \/ \E a \in AuthNames : Authentication(a)
  \/ AuthSets("type", {"cookie", "header", "request"})
  \/ AuthSets("value", {"given"}) \/ AuthSets("redirect", {"given"})
  \/ \E o \in Options, class \in {"below", "least", "most", "above"} : Number(o, class)
  \/ \E u \in {"root", "runas", "keymgr_root", "keymgr_runas"} : User(u)
-----------------------------------------------------------------------------
(* What a request with a cookie, a header or itself to show gets.          *)
HandlerFind(host, path) ==
  LET d  == DomainLookup(domains, host)
      hs == IF d = 0 THEN <<>> ELSE domains[d].handlers
      h  == Least({i \in DOMAIN hs : hs[i].type = "dynamic" \/ hs[i].path = path})
  IN IF h = 0 THEN None ELSE hs[h]

(* `shown' is what the request has of it: nothing, or what the validator   *)
(* thinks of what it has.                                                  *)
AuthRun(a, shown) ==
  IF a.type = None THEN "no answer"                                  \* unknown auth type
  ELSE IF /\ shown # "nothing"
          /\ a.validator = 0 \/ (a.type # "request" /\ a.value = None)
       THEN "crash"
  ELSE IF shown = "good" THEN "page"
  ELSE IF shown = "retry" THEN "waits"
  ELSE IF a.type = "request" THEN "its own"
  ELSE IF a.redirect = None THEN "403" ELSE "302"

Answer(host, path, method, shown) ==
  LET hdlr == HandlerFind(host, path)
  IN IF hdlr = None THEN "404"
     ELSE IF method \notin hdlr.methods THEN "405"
     ELSE IF hdlr.auth # 0 THEN AuthRun(auths[hdlr.auth], shown) ELSE "page"

(* The params against which an argument of a request is checked.           *)
Accepts(hdlr, method, query) ==
  {p \in hdlr.params : p.method = method /\ query = ("query" \in p.flags)}
-----------------------------------------------------------------------------
(* Somebody replaces a module, or takes its file away.                     *)
Install(m, b) ==
  /\ phase = "running" /\ b # built[m]
  /\ built' = [built EXCEPT ![m] = b]
  /\ UNCHANGED <<phase, lines, depth, at, tree, numbers, users>>

OldCalls(ms, hs) == hs                   \* mutant: the handlers keep their calls
Recalled(ms, hs) == [h \in DOMAIN hs |-> [hs[h] EXCEPT !.rcall = Getcall(ms, hs[h].func)]]

(* kore_module_reload: each module whose file is another one and whose     *)
(* onload function does not refuse, then the calls of every handler and    *)
(* validator.  A function that is gone ends the worker.  Neither bind nor  *)
(* the connect callback of its listener is modelled: that call is looked   *)
(* up once (kore.c:453-454) and not again here, so that it goes into what  *)
(* module.c:354 unloaded.                                                  *)
Reloaded(refused) ==
  [i \in DOMAIN modules |->
     LET m == modules[i]
     IN IF built[m.path] \in {0, m.mtime} \/ (m.onload # None /\ i \in refused)
        THEN m ELSE [m EXCEPT !.mtime = built[m.path]]]
Reload(refused) ==
  LET ms == Reloaded(refused)
      Gone == \/ \E i \in DOMAIN ms : ms[i].onload \notin Exports[ms[i].path][ms[i].mtime] \cup {None}
              \/ \E d \in DOMAIN domains : \E h \in DOMAIN domains[d].handlers :
                   Getcall(ms, domains[d].handlers[h].func) = None
              \/ \E v \in DOMAIN validators :
                   validators[v].type = "function" /\ Getcall(ms, validators[v].arg) = None
  IN /\ phase = "running" /\ modules' = ms
     /\ IF Gone THEN phase' = "fatal" /\ UNCHANGED <<domains, validators>>
        ELSE /\ domains' = [d \in DOMAIN domains |->
                  [domains[d] EXCEPT !.handlers = Recalled(ms, @)]]
             /\ validators' = [v \in DOMAIN validators |->
                  IF validators[v].type = "function"
                  THEN [validators[v] EXCEPT !.rcall = Getcall(ms, validators[v].arg)] ELSE validators[v]]
             /\ UNCHANGED phase
     /\ UNCHANGED <<lines, depth, at, auths, numbers, users, built>>

Next ==
  \/ Line
  \/ \E root, nochroot, norunas \in BOOLEAN : Finish(root, nochroot, norunas)
  \/ \E m \in Modules : \E b \in {0} \cup DOMAIN Exports[m] : Install(m, b)
  \/ \E refused \in SUBSET DOMAIN modules : Reload(refused)

Spec == Init /\ [][Next]_vars
-----------------------------------------------------------------------------
(* A domain is found under its own name: no domain before it covers it, so *)
(* that its handlers are its own and its pages can be reached              *)
(* (kore_domain_new, kore_module_handler_new).                             *)
DomainsAreReachable ==
  \A d \in DOMAIN domains : DomainLookup(domains, domains[d].name) = d

(* An argument is checked where its own params line says: in the query for *)
(* "qs:" and get, else in the body, whatever blocks came before            *)
(* (configure_params, http_argument_add).                                  *)
ParamsAsDeclared ==
  \A d \in DOMAIN domains : \A h \in DOMAIN domains[d].handlers :
    \A m \in {"get", "post"}, query \in BOOLEAN :
      Accepts(domains[d].handlers[h], m, query) =
        {p \in domains[d].handlers[h].params :
           p.line[2] = m /\ query = (p.line[1] \/ m = "get")}

(* Once Kore runs, a request crashes a worker only through a cookie or     *)
(* header block without a value, or a block that was never closed: "no     *)
(* authentication validator for %s" (config.c:321-324) covers the rest.    *)
CrashesAreKnown ==
  phase = "running" =>
    \A d \in DOMAIN domains, p \in Paths, m \in {"get", "post"} :
      LET hdlr == HandlerFind(domains[d].name, p)
      IN Answer(domains[d].name, p, m, "good") = "crash" =>
           hdlr.auth = at.auth \/ (auths[hdlr.auth].value = None /\ auths[hdlr.auth].type # "request")

(* No page handler or validator calls into a module that was unloaded, or  *)
(* past a module that now has the function first (kore_module_reload).     *)
(* Not covered are the connect callback of a listener (kore.c:454) and the *)
(* callbacks of a websocket (websocket.c:111-127): nothing looks them up   *)
(* again.                                                                  *)
CallsAreFresh ==
  phase = "running" =>
    /\ \A d \in DOMAIN domains : \A h \in DOMAIN domains[d].handlers :
         domains[d].handlers[h].rcall = Getcall(modules, domains[d].handlers[h].func)
    /\ \A v \in DOMAIN validators : validators[v].type = "function" =>
         validators[v].rcall = Getcall(modules, validators[v].arg)

(* What the configuration promises after any lines and reloads, as far as  *)
(* its four parts say (config.c, domain.c, http.c, auth.c, module.c).      *)
ConfigurationHolds ==
  DomainsAreReachable /\ ParamsAsDeclared /\ CrashesAreKnown /\ CallsAreFresh
=============================================================================
