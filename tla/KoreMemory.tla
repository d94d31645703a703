------------------------------ MODULE KoreMemory ------------------------------
(* The memory of a worker: kore_malloc and its kin (mem.c), which take     *)
(* what fits a block from the pool of its size (pool.c), called by the     *)
(* worker and by its task threads, and the tags under which a module finds *)
(* its memory again after a reload.                                        *)
(* An address is <<its block, its number>>; block Blocks is not pooled.    *)
EXTENDS Integers, Sequences, FiniteSets, SequencesExt

CONSTANTS
  Threads, Main,
  Blocks, Unit,      \* KORE_MEM_BLOCKS, 11, and the least of their sizes, 8
  Elements, Growth,  \* of a pool at first; and when it is empty: a quarter
  Lengths,           \* that are asked for
  Ids,               \* of tags
  Null,
  MaxLive, MaxLarge  \* bounds: addresses in use, those that are not pooled

MemoryAssumption ==
  /\ Main \in Threads /\ Lengths \subseteq Nat
  /\ Blocks \in Nat \ {0} /\ Unit \in Nat \ {0}
  /\ Elements \in Nat \ {0} /\ Growth \in Nat \ {0} /\ MaxLarge \in Nat

VARIABLES
  freelist, elms, inuse, lock,  \* of each pool
  busy,                         \* entries in POOL_ELEMENT_BUSY
  len,                          \* the size_t before an address
  tags,                         \* [ptr, id], in their order
  holds, step, job              \* of each thread: its addresses, its call

pools   == <<freelist, elms, inuse, lock, busy>>
threads == <<holds, step, job>>
memoryVars == <<pools, len, tags, threads>>

Pools == 0..(Blocks - 1)
NoJob == [op |-> "none", block |-> 0, len |-> 0, ptr |-> Null, old |-> Null]

Region(b, from, n) == [i \in 1..n |-> <<b, from + n - i + 1>>]
MemoryInit ==
  /\ freelist = [b \in Pools |-> Region(b, 0, Elements)]
  /\ elms = [b \in Pools |-> Elements] /\ inuse = [b \in Pools |-> 0]
  /\ lock = [b \in Pools |-> 0] /\ busy = {}
  /\ len = <<>> /\ tags = <<>>
  /\ holds = [t \in Threads |-> {}] /\ step = [t \in Threads |-> "idle"]
  /\ job = [t \in Threads |-> NoJob]

(* memblock_index *)
BlockSize(b) == Unit * 2^b
Index(n)     == CHOOSE b \in Pools : n <= BlockSize(b) /\ \A c \in Pools : n <= BlockSize(c) => b <= c
Largest      == BlockSize(Blocks - 1)
Live      == UNION {holds[t] : t \in Threads}
Sets(t, j, at) == job' = [job EXCEPT ![t] = j] /\ step' = [step EXCEPT ![t] = at]
With(f, x, y)  == [z \in DOMAIN f \cup {x} |-> IF z = x THEN y ELSE f[z]]
-----------------------------------------------------------------------------
(* kore_malloc: 0 bytes are 8.  kore_realloc gives the old address back    *)
(* when it has that length, or else frees it once it has a new one.        *)
Malloc(t, n, old) ==
  /\ step[t] = "idle"
  /\ Cardinality(Live) + Cardinality({u \in Threads : job[u].op = "get"}) < MaxLive
  /\ LET m == IF n = 0 THEN Unit ELSE n IN
     IF m <= Largest
     THEN /\ Sets(t, [op |-> "get", block |-> Index(m), len |-> m, ptr |-> Null, old |-> old], "lock")
          /\ UNCHANGED <<holds, len>>
     ELSE \E k \in 1..MaxLarge :
            /\ <<Blocks, k>> \notin Live
            /\ len' = With(len, <<Blocks, k>>, m)
            /\ holds' = [holds EXCEPT ![t] = @ \cup {<<Blocks, k>>}]
            /\ Sets(t, [NoJob EXCEPT !.old = old], IF old = Null THEN "idle" ELSE "free old")
  /\ UNCHANGED <<pools, tags>>
Realloc(t, ptr, n) ==
  /\ ptr \in holds[t] /\ n # len[ptr]
  /\ Malloc(t, n, ptr)

(* kore_free, which forgets the tag of the address, if it has one.         *)
KeepsTags(ptr) == tags                   \* mutant: kore_free does not untag
Untagged(ptr)  == RemoveFirstMatch(tags, LAMBDA g : g.ptr = ptr)
Free(t, ptr) ==
  /\ ptr \in holds[t]
  /\ \/ step[t] = "idle" /\ (t = Main \/ Untagged(ptr) = tags)
     \/ step[t] = "free old" /\ ptr = job[t].old
  /\ holds' = [holds EXCEPT ![t] = @ \ {ptr}]
  /\ tags' = Untagged(ptr)
  /\ IF len[ptr] <= Largest
     THEN Sets(t, [op |-> "put", block |-> Index(len[ptr]), len |-> 0, ptr |-> ptr,
                   old |-> Null], "lock")
     ELSE Sets(t, NoJob, "idle")
  /\ len' = Restrict(len, DOMAIN len \ {ptr})
  /\ UNCHANGED pools
-----------------------------------------------------------------------------
Fatal(t) == step' = [step EXCEPT ![t] = "fatal"] /\ UNCHANGED <<pools, len, tags, holds, job>>

AnyTime(b)  == TRUE                      \* mutant: without the lock
LockFree(b) == lock[b] = 0
PoolLock(t) ==
  /\ step[t] = "lock" /\ LockFree(job[t].block)
  /\ lock' = [lock EXCEPT ![job[t].block] = 1]
  /\ step' = [step EXCEPT ![t] = job[t].op]
  /\ UNCHANGED <<freelist, elms, inuse, busy, len, tags, holds, job>>

(* kore_pool_get, in two steps: the first entry, after pool_region_create  *)
(* if there is none, and its removal from the list.                        *)
PoolGet(t) ==
  LET b == job[t].block
      list == IF freelist[b] = <<>> THEN Region(b, elms[b], Growth) ELSE freelist[b]
  IN /\ step[t] = "get"
     /\ IF Head(list) \in busy THEN Fatal(t)
        ELSE /\ freelist' = [freelist EXCEPT ![b] = list]
             /\ elms' = [elms EXCEPT ![b] = IF freelist[b] = <<>> THEN @ + Growth ELSE @]
             /\ Sets(t, [job[t] EXCEPT !.ptr = Head(list)], "remove")
             /\ UNCHANGED <<inuse, lock, busy, len, tags, holds>>
PoolRemove(t) ==
  LET b == job[t].block
  IN /\ step[t] = "remove"
     /\ freelist' = [freelist EXCEPT ![b] = RemoveFirst(@, job[t].ptr)]
     /\ busy' = busy \cup {job[t].ptr} /\ inuse' = [inuse EXCEPT ![b] = @ + 1]
     /\ step' = [step EXCEPT ![t] = "unlock"]
     /\ UNCHANGED <<elms, lock, len, tags, holds, job>>

PoolPut(t) ==
  LET b == job[t].block
  IN /\ step[t] = "put"
     /\ IF job[t].ptr \notin busy THEN Fatal(t)
        ELSE /\ busy' = busy \ {job[t].ptr} /\ inuse' = [inuse EXCEPT ![b] = @ - 1]
             /\ freelist' = [freelist EXCEPT ![b] = <<job[t].ptr>> \o @]
             /\ step' = [step EXCEPT ![t] = "unlock"]
             /\ UNCHANGED <<elms, lock, len, tags, holds, job>>

(* pool_unlock, after which kore_malloc writes the length.                 *)
PoolUnlock(t) ==
  LET j == job[t] IN
  /\ step[t] = "unlock"
  /\ IF lock[j.block] # 1 THEN Fatal(t)
     ELSE /\ lock' = [lock EXCEPT ![j.block] = 0]
          /\ IF j.op = "get"
             THEN /\ len' = With(len, j.ptr, j.len)
                  /\ holds' = [holds EXCEPT ![t] = @ \cup {j.ptr}]
             ELSE UNCHANGED <<len, holds>>
          /\ IF j.old = Null THEN Sets(t, NoJob, "idle")
             ELSE Sets(t, [NoJob EXCEPT !.old = j.old], "free old")
          /\ UNCHANGED <<freelist, elms, inuse, busy, tags>>
-----------------------------------------------------------------------------
Lookup(id) == {tags[i].ptr : i \in {j \in DOMAIN tags : tags[j].id = id}}
(* kore_mem_tag; an id that is taken is fatal.                             *)
Tag(ptr, id) ==
  /\ step[Main] = "idle" /\ ptr \in holds[Main] /\ Untagged(ptr) = tags
  /\ Lookup(id) = {}
  /\ tags' = Append(tags, [ptr |-> ptr, id |-> id])
  /\ UNCHANGED <<pools, len, threads>>

MemoryNext ==
  \/ \E t \in Threads, n \in Lengths : Malloc(t, n, Null)
  \/ \E t \in Threads, n \in Lengths : \E ptr \in holds[t] : Realloc(t, ptr, n)
  \/ \E t \in Threads : \E ptr \in holds[t] : Free(t, ptr)
  \/ \E ptr \in holds[Main], id \in Ids : Tag(ptr, id)
  \/ \E t \in Threads :
       PoolLock(t) \/ PoolGet(t) \/ PoolRemove(t) \/ PoolPut(t) \/ PoolUnlock(t)

MemorySpec == MemoryInit /\ [][MemoryNext]_memoryVars
-----------------------------------------------------------------------------
Exclusive ==
  \A t \in Threads : \A ptr \in holds[t] :
    /\ \A u \in Threads \ {t} : ptr \notin holds[u]
    /\ ptr[1] # Blocks => /\ ptr \in busy /\ ptr \notin ToSet(freelist[ptr[1]])
                          /\ len[ptr] <= BlockSize(ptr[1])
Counted ==
  \A b \in Pools : lock[b] = 0 =>
    elms[b] = inuse[b] + Len(freelist[b]) /\ IsInjective(freelist[b])
TagsAreLive ==
  \A i \in DOMAIN tags :
    /\ tags[i].ptr \in holds[Main]
    /\ Lookup(tags[i].id) = {tags[i].ptr}

(* No address is given to two threads, or while it is still in a free      *)
(* list, and each is as long as was asked for, however the calls of the    *)
(* threads meet; a pool counts what it has; what a tag finds has not been  *)
(* freed; and no entry is found in the wrong state ("element %p was not    *)
(* free", "was not busy", pool.c) (kore_pool_get, kore_pool_put,           *)
(* kore_realloc, kore_mem_lookup).                                         *)
MemoryIsRight ==
  Exclusive /\ Counted /\ TagsAreLive /\ \A t \in Threads : step[t] # "fatal"
=============================================================================
