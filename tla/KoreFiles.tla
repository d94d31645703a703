----------------------------- MODULE KoreFiles ------------------------------
(* Static files in one worker of Kore: a file map resolves the path of a   *)
(* request (kore-3.2.0/src/filemap.c), open files are shared and cached    *)
(* (fileref.c), and the send queues of connections hold them (http.c,      *)
(* net.c).  One file: its canonical path, and other ways to write it.      *)
EXTENDS Integers, Sequences, FiniteSets, SequencesExt

CONSTANTS Conns,     \* connections
          Refs,      \* bound: entries of ref_pool, which grows in the code
          Paths,     \* ways to write the path of the file
          Canonical, \* what realpath() makes of each
          None,
          MaxMtime,  \* bound: how often the file is changed
          MaxQueue   \* bound: answers in a send queue

FilesAssumption ==
  /\ IsFiniteSet(Conns) /\ Canonical \in Paths /\ None \notin Refs \cup Paths
  /\ {MaxMtime, MaxQueue} \subseteq Nat

VARIABLES
  mtime,   \* of the file; 0 when there is none
  path,    \* ref->path; None when the entry is not in use
  seen,    \* ref->mtime
  cnt,     \* ref->cnt
  listed,  \* in refs: not KORE_FILEREF_SOFT_REMOVED
  fds,     \* open descriptors of each ref; of None: 1 when some have no ref
  queue    \* c->send_queue: the filerefs in it

refs == <<path, seen, cnt, listed>>
vars == <<mtime, refs, fds, queue>>

Init ==
  /\ mtime = 1
  /\ path = [r \in Refs |-> None] /\ seen = [r \in Refs |-> 0]
  /\ cnt = [r \in Refs |-> 0]     /\ listed = [r \in Refs |-> FALSE]
  /\ fds = [r \in Refs \cup {None} |-> 0]
  /\ queue = [c \in Conns |-> <<>>]

Used(r)   == path[r] # None
Unused    == {r \in Refs : ~Used(r)}
Cached(p) == {r \in Refs : Used(r) /\ listed[r] /\ path[r] = p}
-----------------------------------------------------------------------------
(* fileref.c, as functions of the state s of the refs: a record.           *)
Now == [path |-> path, seen |-> seen, cnt |-> cnt, listed |-> listed, fds |-> fds]
Becomes(s) ==
  /\ path' = s.path /\ seen' = s.seen /\ cnt' = s.cnt
  /\ listed' = s.listed /\ fds' = s.fds

(* fileref_drop: the descriptor is closed.                                 *)
Drop(s, r) ==
  [s EXCEPT !.path[r] = None, !.seen[r] = 0, !.listed[r] = FALSE, !.fds[r] = s.fds[r] - 1]

DropsAlways(s, r) == Drop(s, r)  \* mutant: whoever uses it
(* fileref_soft_remove: out of the list; dropped when nobody uses it.      *)
SoftRemove(s, r) ==
  IF s.cnt[r] = 0 THEN Drop(s, r) ELSE [s EXCEPT !.listed[r] = FALSE]

(* kore_fileref_release: a ref that was removed goes with its last user,   *)
(* another one stays until it expires.                                     *)
Release(s, r) ==
  LET t == [s EXCEPT !.cnt[r] = @ - 1] IN
  IF t.cnt[r] = 0 /\ ~t.listed[r] THEN Drop(t, r) ELSE t

NeverStale(r) == FALSE           \* mutant: the times are not compared
Stale(r)      == seen[r] # mtime

(* kore_fileref_get: the ref for a path and the state after it, the ref    *)
(* counted; none when the file changed or is gone, and it is removed.      *)
Get(s, p) ==
  LET found == {r \in Refs : s.path[r] = p /\ s.listed[r]} IN
  IF found = {} THEN <<None, s>>
  ELSE LET r == CHOOSE r \in found : TRUE IN
       IF Stale(r) THEN <<None, SoftRemove(s, r)>>
       ELSE <<r, [s EXCEPT !.cnt[r] = @ + 1]>>

CreatesAnother(s, p) ==          \* mutant: does not look for one
  LET r == CHOOSE r \in Refs : s.path[r] = None IN
  <<r, [s EXCEPT !.path[r] = p, !.seen[r] = mtime, !.cnt[r] = 1,
                 !.listed[r] = TRUE, !.fds[r] = @ + 1]>>
(* kore_fileref_create with a descriptor that was just opened: when there  *)
(* is a ref for the path already, that one, and the descriptor is nobody's.*)
Create(s, p) ==
  LET got == Get(s, p) IN
  IF got[1] # None THEN <<got[1], [got[2] EXCEPT !.fds[None] = 1]>>
  ELSE LET r == CHOOSE r \in Refs : got[2].path[r] = None IN
       <<r, [got[2] EXCEPT !.path[r] = p, !.seen[r] = mtime, !.cnt[r] = 1,
                           !.listed[r] = TRUE, !.fds[r] = @ + 1]>>

(* filemap_serve looks for the canonical path, and creates a ref under the *)
(* one that was asked for.                                                 *)
Lookup(p) ==
  LET got == Get(Now, Canonical) IN
  IF got[1] # None \/ mtime = 0 THEN got ELSE Create(got[2], p)
-----------------------------------------------------------------------------
(* http_response_fileref: the file goes to the send queue, or the answer   *)
(* to HEAD or If-Modified-Since is a head alone.                           *)
Serve(c, p) ==
  LET found == Lookup(p) IN
  /\ Len(queue[c]) < MaxQueue /\ Unused # {}
  /\ \/ /\ found[1] = None
        /\ Becomes(found[2])
        /\ UNCHANGED queue
     \/ /\ found[1] # None
        /\ queue' = [queue EXCEPT ![c] = Append(@, found[1])]
        /\ Becomes(found[2])
     \/ /\ found[1] # None
        /\ Becomes(Release(found[2], found[1]))
        /\ UNCHANGED queue
  /\ UNCHANGED mtime

(* net_remove_netbuf once the file is sent, whatever became of it on disk. *)
Sent(c) ==
  /\ queue[c] # <<>>
  /\ queue' = [queue EXCEPT ![c] = Tail(@)]
  /\ Becomes(Release(Now, Head(queue[c])))
  /\ UNCHANGED mtime

(* kore_connection_remove: what is left of the queue goes.                 *)
ReleasesAll(q) ==
  LET after[k \in 0..Len(q)] ==
        IF k = 0 THEN Now ELSE Release(after[k - 1], q[k])
  IN  after
Removed(c) ==
  /\ queue[c] # <<>>
  /\ queue' = [queue EXCEPT ![c] = <<>>]
  /\ Becomes(ReleasesAll(queue[c])[Len(queue[c])])
  /\ UNCHANGED mtime

NeverIdle(r) == FALSE            \* mutant: the timer is not set
Idle(r)      == cnt[r] = 0

(* fileref_expiration_check, for a ref nobody used for 30 seconds.         *)
Expires(r) ==
  /\ Used(r) /\ listed[r] /\ Idle(r)
  /\ Becomes(Drop(Now, r))
  /\ UNCHANGED <<mtime, queue>>

(* Somebody changes the file, or removes it.                               *)
Changes(m) ==
  /\ m \in {0} \cup (mtime + 1)..MaxMtime /\ mtime # 0
  /\ mtime' = m
  /\ UNCHANGED <<refs, fds, queue>>

Next ==
  \/ \E c \in Conns :
       Sent(c) \/ Removed(c) \/ \E p \in Paths : Serve(c, p)
  \/ \E r \in Refs : Expires(r)
  \/ \E m \in 0..MaxMtime : Changes(m)

(* Clients read or go, and the timer of the cache is due again and again.  *)
Fairness ==
  /\ \A c \in Conns : WF_vars(Sent(c) \/ Removed(c))
  /\ \A r \in Refs : WF_vars(Expires(r))

Spec == Init /\ [][Next]_vars /\ Fairness
-----------------------------------------------------------------------------
Places  == {e \in Conns \X (1..MaxQueue) : e[2] <= Len(queue[e[1]])}
Uses(r) == Cardinality({e \in Places : queue[e[1]][e[2]] = r})

(* Every answer in a queue is counted and none twice, through changes of   *)
(* the file, expiry and connections that go: a ref that is used is there.  *)
CountsAreRight ==
  \A r \in Refs :
    /\ cnt[r] = Uses(r)
    /\ cnt[r] > 0 => Used(r)
    /\ Used(r) /\ ~listed[r] => cnt[r] > 0

(* Each ref has its descriptor, and one ref at most is cached for a path.  *)
OneEach ==
  /\ \A r \in Refs : fds[r] = IF Used(r) THEN 1 ELSE 0
  /\ \A p \in Paths : Cardinality(Cached(p)) <= 1

(* An answer begins with the file as it is, never with a cached older one. *)
FreshAtStart ==
  [][\A c \in Conns : Len(queue'[c]) > Len(queue[c]) =>
       seen'[Last(queue'[c])] = mtime]_vars

(* The refs of a file that changed go once the answers with them are sent. *)
OldOnesGo == \A r \in Refs : []<>(~Used(r) \/ seen[r] = mtime)
=============================================================================
