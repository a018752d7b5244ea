------------------------------ MODULE TinyCache ------------------------------
(***************************************************************************)
(* The dynamic-content path of tiny.c: serve_dynamic, the cache of shared  *)
(* libraries it consults (search_cache, add_to_cache, evict_lru,           *)
(* create_node, init_cache), run by any number of handler threads.         *)
(*                                                                         *)
(* The cache is the C linked list itself: a set of live nodes, their next  *)
(* pointers, the dummy node cache->front (which never moves) and           *)
(* cache->back.  Two locks guard it, as in the code: the readers-writer    *)
(* lock cache->lock and the global mutex, which is also held while a       *)
(* library function runs.  Every access to shared state is a step of its   *)
(* own; what one critical section of the write lock does to the list is    *)
(* one step.                                                               *)
(*                                                                         *)
(* The text a library function writes is abstracted to a count of its      *)
(* runs; the bytes of the headers and error texts are left out.            *)
(***************************************************************************)
EXTENDS SharedCache, FiniteSetsExt

CONSTANTS
  Thread,    \* handler threads that can be alive at the same time
  Name,      \* function names a request can carry
  Lib,       \* the names n for which ./lib/n.so can be opened
  Callable,  \* the libraries that export a function of their own name
  FileSize,  \* FileSize[l]: what getfilesize reports for library l
  MaxSize,   \* MAX_CACHE_SIZE
  Orphan     \* owner of a mutex whose thread has exited without unlocking it

ASSUME NameAssumption == Callable \subseteq Lib /\ Lib \subseteq Name
ASSUME SizeAssumption == MaxSize \in Nat /\ FileSize \in [Lib -> Nat \ {0}]
ASSUME ThreadAssumption ==
  /\ NULL \notin Thread
  /\ Orphan \notin Thread \cup {NULL}
  /\ NULL \notin Name

VARIABLES
  pc,       \* pc[t]: where thread t is in serve_dynamic or below
  fname,    \* fname[t]: the argument function_name
  cur,      \* cur[t]:  the local cur of search_cache
  prev,     \* prev[t]: the local prev of search_cache
  runs,     \* runs[t]: how often this request's function was called
  live,     \* the nodes that are allocated
  key,      \* key[n]: n->name; n->handle is the handle of that library
  back,     \* cache->back
  size,     \* cache->size
  refs      \* refs[l]: dlopen calls on library l not yet undone by dlclose

locals == <<fname, cur, prev, runs>>
list   == <<live, next, key, back, size>>
vars   == <<pc, locals, rwlock, mutex, list, refs>>

\* Every place a handler thread can be at, in the order of the code.
Location ==
  {"idle",
   "search", "walk", "hit", "hitmutex", "hitcheck", "promote", "splice",
   "hitsym", "hitrun", "hitret",
   "miss", "open", "add", "evict", "misssym", "missrun",
   "leave"}

Goto(t, from, to) ==
  /\ pc[t] = from
  /\ pc' = [pc EXCEPT ![t] = to]

-----------------------------------------------------------------------------
\* init_cache: the list is the dummy node alone.
Init ==
  /\ pc = [t \in Thread |-> "idle"]
  /\ fname = [t \in Thread |-> NULL]
  /\ cur = [t \in Thread |-> NULL]
  /\ prev = [t \in Thread |-> NULL]
  /\ runs = [t \in Thread |-> 0]
  /\ readers = {}
  /\ writer = NULL
  /\ mutex = NULL
  /\ live = {Dummy}
  /\ next = [n \in Node |-> NULL]
  /\ key = [n \in Node |-> NULL]
  /\ back = Dummy
  /\ size = 0
  /\ refs = [l \in Lib |-> 0]

\* doit calls serve_dynamic.  parse_uri appends the requested name to an
\* uninitialized buffer, so the name that arrives here can be any name.
Request(t) ==
  /\ Goto(t, "idle", "search")
  /\ \E n \in Name : fname' = [fname EXCEPT ![t] = n]
  /\ UNCHANGED <<cur, prev, runs, rwlock, mutex, list, refs>>

-----------------------------------------------------------------------------
(* search_cache *)

\* read_lock, then the walk starts behind the dummy node.
StartSearch(t) ==
  /\ Goto(t, "search", "walk")
  /\ read_lock(t)
  /\ cur' = [cur EXCEPT ![t] = next[Dummy]]
  /\ prev' = [prev EXCEPT ![t] = Dummy]
  /\ UNCHANGED <<fname, runs, mutex, list, refs>>

WalkOn(t) ==
  /\ Goto(t, "walk", "walk")
  /\ cur[t] # NULL
  /\ key[cur[t]] # fname[t]
  /\ prev' = [prev EXCEPT ![t] = cur[t]]
  /\ cur' = [cur EXCEPT ![t] = next[cur[t]]]
  /\ UNCHANGED <<fname, runs, rwlock, mutex, list, refs>>

\* Mistake: the read lock is released before the mutex is taken.
FoundUnlocking(t) ==
  /\ Goto(t, "walk", "hit")
  /\ cur[t] # NULL
  /\ key[cur[t]] = fname[t]
  /\ unlock(t)
  /\ UNCHANGED <<locals, mutex, list, refs>>

Found(t) ==
  /\ Goto(t, "walk", "hit")
  /\ cur[t] # NULL
  /\ key[cur[t]] = fname[t]
  /\ UNCHANGED <<locals, rwlock, mutex, list, refs>>

\* Mistake: the node before the end is returned, not NULL.
NotFoundReturnsPrev(t) ==
  /\ Goto(t, "walk", "leave")
  /\ cur[t] = NULL
  /\ unlock(t)
  /\ UNCHANGED <<locals, mutex, list, refs>>

NotFound(t) ==
  /\ Goto(t, "walk", "miss")
  /\ cur[t] = NULL
  /\ unlock(t)
  /\ prev' = [prev EXCEPT ![t] = NULL]
  /\ UNCHANGED <<fname, cur, runs, mutex, list, refs>>

\* The mutex is taken while the read lock is still held.
HitLock(t) ==
  /\ Goto(t, "hit", "hitmutex")
  /\ mutex_lock(t)
  /\ UNCHANGED <<locals, rwlock, list, refs>>

HitUnlockRead(t) ==
  /\ Goto(t, "hitmutex", "hitcheck")
  /\ unlock(t)
  /\ UNCHANGED <<locals, mutex, list, refs>>

\* Mistake: a node that is already the last one is moved as well.
CheckBackSkipped(t) ==
  /\ Goto(t, "hitcheck", "promote")
  /\ UNCHANGED <<locals, rwlock, mutex, list, refs>>

\* if (cur != cache->back)
CheckBack(t) ==
  /\ \/ /\ Goto(t, "hitcheck", "promote")
        /\ cur[t] # back
     \/ /\ Goto(t, "hitcheck", "hitsym")
        /\ cur[t] = back
  /\ UNCHANGED <<locals, rwlock, mutex, list, refs>>

PromoteLock(t) ==
  /\ Goto(t, "promote", "splice")
  /\ write_lock(t)
  /\ UNCHANGED <<locals, mutex, list, refs>>

\* Mistake: cache->back = cur comes before cache->back->next = cur.
MovedBackFirst(p, n) ==
  [next EXCEPT ![p] = next[n], ![n] = NULL]

\* The next pointers after node n, which follows p, has been moved behind
\* cache->back; the assignments are in the order of the code.
Moved(p, n) ==
  [next EXCEPT ![p] = next[n], ![back] = n, ![n] = NULL]

\* Moves cur to the end of the list and releases the write lock.
Splice(t) ==
  /\ Goto(t, "splice", "hitsym")
  /\ next' = Moved(prev[t], cur[t])
  /\ back' = cur[t]
  /\ unlock(t)
  /\ UNCHANGED <<locals, mutex, live, key, size, refs>>

\* Mistake: the mutex is released before the function is called.
HitSymbolUnlocking(t) ==
  /\ Goto(t, "hitsym", "hitrun")
  /\ key[cur[t]] \in Callable
  /\ mutex_unlock
  /\ UNCHANGED <<locals, rwlock, list, refs>>

\* dlsym finds the function, or the error text is written and NULL is
\* returned to serve_dynamic, which goes on as after a miss.
HitSymbol(t) ==
  /\ \/ /\ Goto(t, "hitsym", "hitrun")
        /\ key[cur[t]] \in Callable
     \/ /\ Goto(t, "hitsym", "miss")
        /\ key[cur[t]] \notin Callable
  /\ UNCHANGED <<locals, rwlock, mutex, list, refs>>

\* function(fd, cgiargs) returns and the mutex is released.
HitReturn(t) ==
  /\ Goto(t, "hitrun", "hitret")
  /\ runs' = [runs EXCEPT ![t] = @ + 1]
  /\ mutex_unlock
  /\ UNCHANGED <<fname, cur, prev, rwlock, list, refs>>

\* return cur->handle, read after the mutex was released: when the node has
\* been freed in the meantime, the memory may read as NULL, which
\* serve_dynamic takes for a miss.
ReturnHandle(t) ==
  /\ \/ Goto(t, "hitret", "leave")
     \/ cur[t] \notin live /\ Goto(t, "hitret", "miss")
  /\ cur' = [cur EXCEPT ![t] = NULL]
  /\ prev' = [prev EXCEPT ![t] = NULL]
  /\ UNCHANGED <<fname, runs, rwlock, mutex, list, refs>>

-----------------------------------------------------------------------------
(* the rest of serve_dynamic, and add_to_cache *)

\* Mistake: the mutex is a robust one, which the next thread gets when its
\* owner is gone.
MissLockRobust(t) ==
  /\ Goto(t, "miss", "open")
  /\ mutex \in {NULL, Orphan}
  /\ mutex' = t
  /\ UNCHANGED <<locals, rwlock, list, refs>>

MissLock(t) ==
  /\ Goto(t, "miss", "open")
  /\ mutex_lock(t)
  /\ UNCHANGED <<locals, rwlock, list, refs>>

\* dlopen returns a handle and counts one more reference to the library.
OpenLibrary(t) ==
  /\ Goto(t, "open", "add")
  /\ fname[t] \in Lib
  /\ refs' = [refs EXCEPT ![fname[t]] = @ + 1]
  /\ UNCHANGED <<locals, rwlock, mutex, list>>

\* dlopen fails: serve_dynamic writes dlerror() and returns at once.
OpenFails(t) ==
  /\ Goto(t, "open", "leave")
  /\ fname[t] \notin Lib
  /\ UNCHANGED <<locals, rwlock, mutex, list, refs>>

AddLock(t) ==
  /\ Goto(t, "add", "evict")
  /\ write_lock(t)
  /\ UNCHANGED <<locals, mutex, list, refs>>

\* The condition of the loop around evict_lru, here and in Insert.  Mistake:
\* nothing is ever evicted.
NeverOverLimit == FALSE

OverLimit == size > MaxSize

\* cache->back after the first node is unlinked.  Mistake: it goes forward.
BackAdvanced(first) == IF first = back THEN next[first] ELSE back

BackWithout(first) == IF first = back THEN Dummy ELSE back

\* cache->size after the first node is unlinked.
SizeWithout(first) == size - FileSize[key[first]]

\* dlclose.  Mistake: the library is not unloaded.
KeepLoaded(l) == UNCHANGED refs

Unload(l) == refs' = [refs EXCEPT ![l] = @ - 1]

\* One call of evict_lru, made while cache->size is above the limit.
Evict(t) ==
  LET first == next[Dummy] IN
  /\ Goto(t, "evict", "evict")
  /\ OverLimit
  /\ first # NULL     \* evict_lru dereferences it: see Accounted
  /\ next' = [next EXCEPT ![Dummy] = next[first], ![first] = NULL]
  /\ back' = BackWithout(first)
  /\ size' = SizeWithout(first)
  /\ Unload(key[first])
  /\ live' = live \ {first}
  /\ key' = [key EXCEPT ![first] = NULL]
  /\ UNCHANGED <<locals, rwlock, mutex>>

\* create_node, linking the node behind cache->back, unlock.
Insert(t) ==
  /\ Goto(t, "evict", "misssym")
  /\ ~OverLimit
  /\ \E n \in Node \ live :
       /\ live' = live \cup {n}
       /\ key' = [key EXCEPT ![n] = fname[t]]
       /\ next' = [next EXCEPT ![n] = NULL, ![back] = n]
       /\ back' = n
  /\ size' = size + FileSize[fname[t]]
  /\ unlock(t)
  /\ UNCHANGED <<locals, mutex, refs>>

\* Mistake: the mutex is released after the error, but the library stays in
\* the cache.
MissSymbolUnlocking(t) ==
  /\ \/ /\ Goto(t, "misssym", "missrun")
        /\ fname[t] \in Callable
        /\ UNCHANGED mutex
     \/ /\ Goto(t, "misssym", "leave")
        /\ fname[t] \notin Callable
        /\ mutex_unlock
  /\ UNCHANGED <<locals, rwlock, list, refs>>

\* dlsym at the end of add_to_cache, and the test of dlerror() after it.
MissSymbol(t) ==
  /\ \/ /\ Goto(t, "misssym", "missrun")
        /\ fname[t] \in Callable
     \/ /\ Goto(t, "misssym", "leave")
        /\ fname[t] \notin Callable
  /\ UNCHANGED <<locals, rwlock, mutex, list, refs>>

MissReturn(t) ==
  /\ Goto(t, "missrun", "leave")
  /\ runs' = [runs EXCEPT ![t] = @ + 1]
  /\ mutex_unlock
  /\ UNCHANGED <<fname, cur, prev, rwlock, list, refs>>

\* doit calls cleanup: the descriptor is closed and the thread exits.  A
\* mutex it still holds stays locked and has no thread to unlock it.
Cleanup(t) ==
  /\ Goto(t, "leave", "idle")
  /\ mutex' = IF mutex = t THEN Orphan ELSE mutex
  /\ fname' = [fname EXCEPT ![t] = NULL]
  /\ cur' = [cur EXCEPT ![t] = NULL]
  /\ prev' = [prev EXCEPT ![t] = NULL]
  /\ runs' = [runs EXCEPT ![t] = 0]
  /\ UNCHANGED <<rwlock, list, refs>>

-----------------------------------------------------------------------------
SearchCache(t) ==
  \/ StartSearch(t) \/ WalkOn(t) \/ Found(t) \/ NotFound(t)
  \/ HitLock(t) \/ HitUnlockRead(t) \/ CheckBack(t) \/ PromoteLock(t)
  \/ Splice(t) \/ HitSymbol(t) \/ HitReturn(t) \/ ReturnHandle(t)

AddToCache(t) == AddLock(t) \/ Evict(t) \/ Insert(t)

ServeDynamic(t) ==
  \/ SearchCache(t)
  \/ MissLock(t) \/ OpenLibrary(t) \/ OpenFails(t)
  \/ AddToCache(t)
  \/ MissSymbol(t) \/ MissReturn(t) \/ Cleanup(t)

Next == \E t \in Thread : Request(t) \/ ServeDynamic(t)

Spec == Init /\ [][Next]_vars

\* A thread that can go on goes on; that clients connect is not assumed.
Fairness == \A t \in Thread : WF_vars(ServeDynamic(t))

FairSpec == Spec /\ Fairness

-----------------------------------------------------------------------------
(***************************************************************************)
(* Properties.                                                             *)
(***************************************************************************)

TypeOK ==
  /\ pc \in [Thread -> Location]
  /\ fname \in [Thread -> Name \cup {NULL}]
  /\ cur \in [Thread -> Node \cup {NULL}]
  /\ prev \in [Thread -> Node \cup {NULL}]
  /\ runs \in [Thread -> Nat]
  /\ readers \subseteq Thread
  /\ writer \in Thread \cup {NULL}
  /\ mutex \in Thread \cup {NULL, Orphan}
  /\ live \subseteq Node
  /\ next \in [Node -> Node \cup {NULL}]
  /\ key \in [Node -> Lib \cup {NULL}]
  /\ back \in Node
  /\ size \in Int
  /\ refs \in [Lib -> Int]

\* The threads that hold the mutex by the code's own account, except one
\* that has left serve_dynamic without unlocking it.
MutexHolding ==
  {"hitmutex", "hitcheck", "promote", "splice", "hitsym", "hitrun",
   "open", "add", "evict", "misssym", "missrun"}

\* The list is whole (tiny.c:360-454): following next from cache->front
\* meets every allocated node exactly once and ends at cache->back, however
\* the splices, insertions and evictions of the threads are interleaved.
ListWhole ==
  /\ OnPath = live \ {Dummy}
  /\ Cardinality(DOMAIN Path) = Cardinality(OnPath)
  /\ back = IF OnPath = {} THEN Dummy ELSE Path[Cardinality(OnPath)]

\* The counters agree with the list (tiny.c:365, 369, 403): cache->size is
\* the sum of the sizes of the cached libraries, and each library has one
\* dlopen reference per node that caches it, plus one per thread that has
\* opened it and not linked it yet.  No reference is leaked or dropped twice,
\* and evict_lru never meets an empty list, which it would follow
\* (tiny.c:361-362): while cache->size is above the limit there is a node.
Accounted ==
  LET cached(l) == {n \in live \ {Dummy} : key[n] = l}
      opened(l) == {t \in Thread : pc[t] \in {"add", "evict"} /\ fname[t] = l}
  IN  /\ size = MapThenSumSet(LAMBDA n : FileSize[key[n]], live \ {Dummy})
      /\ \A l \in Lib :
           refs[l] = Cardinality(cached(l)) + Cardinality(opened(l))
      /\ size > MaxSize => next[Dummy] # NULL

\* What search_cache remembers across its change of locks is not stale
\* (tiny.c:424-432): from the first step of the walk to the splice, cur is
\* the node behind prev and both are allocated; from the hit on, cur is the
\* node of the requested name, up to the return of the function.
PointersFresh ==
  \A t \in Thread :
    /\ pc[t] \in {"walk", "hit", "hitmutex", "hitcheck", "promote", "splice"}
         => prev[t] \in live /\ next[prev[t]] = cur[t]
    /\ pc[t] = "walk" => cur[t] \in live \cup {NULL}
    /\ pc[t] \in {"hit", "hitmutex", "hitcheck", "promote", "splice",
                  "hitsym", "hitrun"}
         => cur[t] \in live \ {Dummy} /\ key[cur[t]] = fname[t]

\* While a library function runs (tiny.c:299, 445), no other thread runs one
\* or changes the list, and the library it belongs to is cached and is the
\* most recently used one: evict_lru cannot unload the code being executed.
RunsProtected ==
  \A t \in Thread : pc[t] \in {"hitrun", "missrun"} =>
    /\ \A u \in Thread \ {t} : pc[u] \notin MutexHolding
    /\ back \in live \ {Dummy}
    /\ key[back] = fname[t]

\* The limit is exceeded by at most one library, for any interleaving of
\* threads (tiny.c:396): add_to_cache tests the size before it adds.  (So it
\* is exceeded; the comment at tiny.c:395, "Evicts if necessary until there
\* is enough space to cache", is not what the loop does.)
OvershootBounded ==
  size <= MaxSize \/ \E l \in Lib : size <= MaxSize + FileSize[l]

\* A request for a function that exists is answered before its connection is
\* closed, and no other request runs a function (tiny.c:273-303, 437-446).
AnsweredOnLeave ==
  \A t \in Thread :
    pc[t] = "leave" => (runs[t] > 0 <=> fname[t] \in Callable)

\* The error path of search_cache (tiny.c:439-443), which would return NULL
\* with the mutex held and make serve_dynamic lock it a second time, is never
\* taken: a library without its function is only cached by a request that
\* leaves the mutex locked, so nobody ever gets as far as a hit on it.
HitResolves ==
  \A t \in Thread : pc[t] = "hitsym" => key[cur[t]] \in Callable

-----------------------------------------------------------------------------
(***************************************************************************)
(* The two ways in which the server locks up.                              *)
(***************************************************************************)

\* One thread holds the mutex and waits for the readers to go; one of these
\* readers waits for the mutex.
LockCycle ==
  \E t, u \in Thread :
    /\ mutex = t /\ pc[t] \in {"promote", "add"}
    /\ u \in readers /\ pc[u] = "hit"

\* serve_dynamic has returned without unlocking the mutex.
MutexLost ==
  \/ mutex = Orphan
  \/ \E t \in Thread : mutex = t /\ pc[t] = "leave"

Stuck == LockCycle \/ MutexLost

\* Once the server has locked up in one of these ways it stays so: no step
\* of any thread, nor a new request, resolves it (tiny.c:273-304, 424-428).
StuckForever == [][Stuck => Stuck']_vars

\* The server does not hang for any other reason: whenever a request is in
\* progress, some request is completed or one of the two lock-ups occurs.
SystemProgress ==
  (\E t \in Thread : pc[t] # "idle")
    ~> (Stuck \/ \E t \in Thread : pc[t] = "leave")

-----------------------------------------------------------------------------
(***************************************************************************)
(* What the repository says of the code and the code does not do.          *)
(***************************************************************************)

\* client.py:10-13 sends requests from many threads and reads the answer of
\* each, so threads must not wait for one another in a circle.
NoLockCycle == ~LockCycle

\* tiny.c:304 reports "released mutex, served client" when a client is
\* done with: a thread that has left serve_dynamic holds no lock.
MutexReleased == ~MutexLost
=============================================================================
