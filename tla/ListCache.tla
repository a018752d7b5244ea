----------------------------- MODULE ListCache -----------------------------
(***************************************************************************)
(* cache.c: a cache as a linked list of blocks, called by several threads. *)
(* The block end holds no object: it is filled by the next insertion, and  *)
(* the block that was made for the object becomes the new end.             *)
(*                                                                         *)
(* No program of the repository calls it; the threads here call cache_find *)
(* and cache_insert in any order.  A thread that has found a block may     *)
(* read it, without the lock, until its next call.                         *)
(*                                                                         *)
(* The process ends in "nomemory" when Malloc fails, in "assert" when a    *)
(* REQUIRES of contracts.h fails, and, if the heap is corrupted, in        *)
(* "corrupted": cache_evict gives the object to dlclose and to Free, and   *)
(* no pointer can be given to both.                                        *)
(*                                                                         *)
(* A definition introduced by "Mistake:" is not used by the model: it is a *)
(* broken variant of the one that follows, for a property to notice.       *)
(***************************************************************************)
EXTENDS Integers, SequencesExt

CONSTANTS
  Thread,  \* the threads that call the cache
  Block,   \* addresses Malloc can return for a block
  Name,    \* names of objects
  Size,    \* sizes of objects
  MaxSize, \* MAX_CACHE_SIZE
  NULL

\* There are finitely many addresses.
ASSUME ListAssumption ==
  /\ NULL \notin Thread \cup Block \cup [name : Name, size : Nat]
  /\ IsFiniteSet(Block)
  /\ MaxSize \in Nat /\ Size \subseteq Nat \ {0}

Entry == [name : Name, size : Size]

VARIABLES
  status,           \* "up", or how the process ended
  start, end,       \* C->start, C->end
  next,             \* next[b]: b->next
  content,          \* content[b]: b->object_name with b->object_size, or NULL
  live,             \* the blocks that are allocated
  cache_size,       \* C->cache_size
  cache_block_num,  \* C->cache_block_num
  lock,             \* the thread that holds C->lock, or NULL
  pc,               \* pc[t]: where thread t is
  arg,              \* arg[t]: what it asks for or inserts
  ptr,              \* ptr[t]: the local ptr of cache_find
  found             \* found[t]: the block its last call returned, or NULL

list   == <<start, end, next, content, live, cache_size, cache_block_num>>
locals == <<arg, ptr, found>>
vars   == <<status, list, lock, pc, locals>>

Goto(t, from, to) ==
  /\ pc[t] = from
  /\ pc' = [pc EXCEPT ![t] = to]

\* The blocks of the list in order, the end left out.
Chain ==
  LET N == Cardinality(Block)
      At[i \in 0..N] ==
        IF i = 0 THEN start
        ELSE IF At[i-1] = end THEN end ELSE next[At[i-1]]
  IN  [i \in 1..Cardinality({j \in 0..N : At[j] # end}) |-> At[i-1]]

Contents == [i \in DOMAIN Chain |-> content[Chain[i]]]
OnChain == ToSet(Chain)

-----------------------------------------------------------------------------
\* cache_init
Init ==
  /\ status = "up"
  /\ start \in Block
  /\ end = start
  /\ live = {start}
  /\ next = [b \in Block |-> NULL]
  /\ content = [b \in Block |-> NULL]
  /\ cache_size = 0
  /\ cache_block_num = 0
  /\ lock = NULL
  /\ pc = [t \in Thread |-> "idle"]
  /\ arg = [t \in Thread |-> NULL]
  /\ ptr = [t \in Thread |-> NULL]
  /\ found = [t \in Thread |-> NULL]

Lock(t) == lock = NULL /\ lock' = t
Unlock == lock' = NULL

\* A thread calls cache_find or cache_insert.
Call(t) ==
  /\ \/ /\ Goto(t, "idle", "find")
        /\ \E n \in Name : arg' = [arg EXCEPT ![t] = [name |-> n, size |-> 0]]
     \/ /\ Goto(t, "idle", "insert")
        /\ \E e \in Entry : arg' = [arg EXCEPT ![t] = e]
  /\ found' = [found EXCEPT ![t] = NULL]
  /\ UNCHANGED <<status, list, lock, ptr>>

-----------------------------------------------------------------------------
(* cache_find *)

FindLock(t) ==
  /\ Goto(t, "find", "walk")
  /\ Lock(t)
  /\ ptr' = [ptr EXCEPT ![t] = start]
  /\ UNCHANGED <<status, list, arg, found>>

Here(t) ==
  pc[t] = "walk" /\ ptr[t] # end /\ content[ptr[t]].name = arg[t].name

WalkOn(t) ==
  /\ Goto(t, "walk", "walk")
  /\ ptr[t] # end
  /\ ~Here(t)
  /\ ptr' = [ptr EXCEPT ![t] = next[ptr[t]]]
  /\ UNCHANGED <<status, list, lock, arg, found>>

Return(t, b) ==
  /\ Goto(t, "walk", "idle")
  /\ found' = [found EXCEPT ![t] = b]
  /\ ptr' = [ptr EXCEPT ![t] = NULL]
  /\ arg' = IF b = NULL THEN [arg EXCEPT ![t] = NULL] ELSE arg
  /\ Unlock

\* The block that is found is the last one.
FindLast(t) ==
  /\ Here(t) /\ next[ptr[t]] = end
  /\ Return(t, ptr[t])
  /\ UNCHANGED <<status, list>>

\* cache_delete: block b takes over the contents of the block behind it,
\* which is left allocated.  Mistake: the name is not taken over.
SizeTaken(b) == [content EXCEPT ![b].size = content[next[b]].size]

Taken(b) == [content EXCEPT ![b] = content[next[b]]]

\* Mistake: the block behind b stays on the list.
NotSkipped(b) == next

Skipped(b) == [next EXCEPT ![b] = next[next[b]]]

\* cache_add_to_end: the contents of block b go to the end, and b becomes
\* the end.
AddToEnd(cont, nxt, b) ==
  /\ content' = [cont EXCEPT ![end] = cont[b]]
  /\ next' = [nxt EXCEPT ![end] = b]
  /\ end' = b

\* Mistake: it is the block that was found that is returned.
Deleted(t, old) == ptr[t]

Renewed(t, old) == old

\* Otherwise a block old is made with the contents of the one found; that
\* one is deleted, old added to the end and returned, although it is the end.
FindMove(t) ==
  LET b == ptr[t] IN
  /\ Here(t) /\ next[b] # end
  /\ \E old \in Block \ live :
       /\ AddToEnd([Taken(b) EXCEPT ![old] = content[b]],
                   [Skipped(b) EXCEPT ![old] = next[b]], old)
       /\ live' = live \cup {old}
       /\ Return(t, Renewed(t, old))
  /\ UNCHANGED <<status, start, cache_size, cache_block_num>>

FindNothing(t) ==
  /\ ptr[t] = end
  /\ Return(t, NULL)
  /\ UNCHANGED <<status, list>>
-----------------------------------------------------------------------------
(* cache_insert *)

InsertLock(t) ==
  /\ Goto(t, "insert", "evict")
  /\ Lock(t)
  /\ UNCHANGED <<status, list, locals>>

\* The condition of the loop that evicts.  Mistake: the object itself is
\* forgotten.
FullAlready(t) == cache_size > MaxSize

TooFull(t) == arg[t].size + cache_size > MaxSize

\* C->cache_size after the first block is unlinked.  Mistake: it is kept.
SizeKept == cache_size

SizeWithout == cache_size - content[start].size

\* cache_evict.
Evict(t) ==
  /\ Goto(t, "evict", "evict")
  /\ TooFull(t) /\ cache_block_num # 0
  /\ cache_size' = SizeWithout
  /\ cache_block_num' = cache_block_num - 1
  /\ start' = next[start]
  /\ live' = live \ {start}
  /\ content' = [content EXCEPT ![start] = NULL]
  /\ next' = [next EXCEPT ![start] = NULL]
  /\ UNCHANGED <<status, end, lock, locals>>

Insert(t) ==
  /\ Goto(t, "evict", "idle")
  /\ ~TooFull(t)
  /\ \E new \in Block \ live :
       /\ AddToEnd([content EXCEPT ![new] = arg[t]], next, new)
       /\ live' = live \cup {new}
  /\ cache_size' = cache_size + arg[t].size
  /\ cache_block_num' = cache_block_num + 1
  /\ arg' = [arg EXCEPT ![t] = NULL]
  /\ Unlock
  /\ UNCHANGED <<status, start, ptr, found>>

\* How the process may end: dlclose and Free spoil the heap, cache_evict is
\* called on an empty list, or there is no memory for a block.
Ends(t) ==
  /\ \/ /\ pc[t] = "evict" /\ TooFull(t)
        /\ status' = IF cache_block_num # 0 THEN "corrupted" ELSE "assert"
     \/ /\ live = Block
        /\ \/ pc[t] = "evict" /\ ~TooFull(t)
           \/ Here(t) /\ next[ptr[t]] # end
        /\ status' = "nomemory"
  /\ UNCHANGED <<list, lock, pc, locals>>

cache_find(t) ==
  FindLock(t) \/ WalkOn(t) \/ FindLast(t) \/ FindMove(t) \/ FindNothing(t)

cache_insert(t) == InsertLock(t) \/ Evict(t) \/ Insert(t)

Next ==
  /\ status = "up"
  /\ \E t \in Thread : Call(t) \/ cache_find(t) \/ cache_insert(t) \/ Ends(t)

Spec == Init /\ [][Next]_vars

-----------------------------------------------------------------------------
TypeOK ==
  /\ status \in {"up", "corrupted", "assert", "nomemory"}
  /\ start \in live /\ end \in live /\ live \subseteq Block
  /\ next \in [Block -> Block \cup {NULL}]
  /\ content \in [Block -> Entry \cup {NULL}]
  /\ cache_size \in 0..MaxSize /\ cache_block_num \in Nat
  /\ lock \in Thread \cup {NULL}
  /\ pc \in [Thread -> {"idle", "find", "walk", "insert", "evict"}]
  /\ arg \in [Thread -> [name : Name, size : Size \cup {0}] \cup {NULL}]
  /\ ptr \in [Thread -> Block \cup {NULL}]
  /\ found \in [Thread -> Block \cup {NULL}]

\* The list always leads from start to end over allocated blocks with
\* contents, and the two counters say what is on it (cache.c:40-116), although
\* cache_delete copies blocks over each other and leaves some behind.
BooksBalance ==
  /\ OnChain \subseteq live /\ Cardinality(OnChain) = Len(Chain)
  /\ \A b \in OnChain : content[b] # NULL
  /\ cache_block_num = Len(Chain)
  /\ cache_size = FoldSeq(LAMBDA e, n : n + e.size, 0, Contents)

\* The contracts of cache_evict (cache.c:62-70) fail for an object that is
\* larger than the whole cache, and for no other.
AssertsForOversize ==
  status = "assert" =>
    \E t \in Thread : pc[t] = "evict" /\ arg[t].size > MaxSize

\* What thread t has found is a block with the name it has asked for.
Holds(t) == found[t] \in live /\ content[found[t]].name = arg[t].name

\* What cache_find returns holds the object asked for, whether or not it is on
\* the list, and does so until some call takes the place at the end or evicts
\* (cache.c:48-54, 76, 130-147): a thread that reads it without the lock reads
\* what it found for just as long.
FoundHolds ==
  [][\A t \in Thread :
       /\ found'[t] # NULL
       /\ found'[t] = found[t] => Holds(t) /\ end' = end /\ start' = start
       => Holds(t)']_vars

Lru == INSTANCE LruList WITH entries <- Contents

\* Under its lock, the list of blocks is the abstract one (cache.h:12-14).
ImplementsLruList == Lru!LruSpec
=============================================================================
