----------------------------- MODULE ProxyCache -----------------------------
(***************************************************************************)
(* proxy.c: the request path of the caching proxy (parseit, search_cache,  *)
(* forwardit, add_to_cache, cleanup), run by any number of handler         *)
(* threads.                                                                *)
(*                                                                         *)
(* A request names a host, a port and a path; the key it is cached under   *)
(* is the host and the path.  A response is abstracted to who gave it to   *)
(* what: [at, to], the host whose address was connected to and the request *)
(* it was sent.  A request line that parseit rejects touches nothing that  *)
(* is shared, and is left out.                                             *)
(*                                                                         *)
(* gethostbyname, which open_clientfd calls without a lock, returns a      *)
(* pointer to one static hostent, which the next call overwrites; the      *)
(* address is copied out of it in a later step.                            *)
(*                                                                         *)
(* The whole proxy stops when a call of csapp.c reports an error, and when *)
(* add_to_cache follows the null pointer.                                  *)
(***************************************************************************)
EXTENDS SharedCache, FiniteSetsExt

CONSTANTS
  Thread,    \* handler threads that can be alive at the same time
  Request,   \* the requests clients make: [host, port, path]
  Size,      \* the sizes with which read_responsehdrs calls add_to_cache
  MaxObject, \* MAX_OBJECT_SIZE
  MaxSize    \* MAX_CACHE_SIZE

\* An object is at most MAX_OBJECT_SIZE + 10000 bytes long, about a ninth of
\* MAX_CACHE_SIZE: the size is tested before the last piece is counted (see
\* ProxyResponse).
ASSUME ProxySizeAssumption ==
  /\ MaxObject \in Nat /\ MaxSize \in Nat
  /\ Size \subseteq Nat \ {0}
  /\ \A m, n \in Size : m + n <= MaxSize
ASSUME ProxyThreadAssumption == NULL \notin Thread /\ NULL \notin Request

VARIABLES
  status,  \* "up", or how the process ended: "nohost" and "noclient" by
           \* exit, "crashed" by a null pointer
  pc,      \* pc[t]: where thread t is in parseit or below
  req,     \* req[t]: the request that thread t serves
  cur,     \* cur[t]:  the local cur of search_cache
  prev,    \* prev[t]: the local prev of search_cache
  got,     \* got[t]: the local size of read_responsehdrs
  sent,    \* sent[t]: the response the client got, or NULL
  hostent, \* the host whose address the static hostent holds
  live,    \* the nodes that are allocated
  key,     \* key[n]: n->key
  data,    \* data[n]: the response in n->hdrs and n->data
  len,     \* len[n]: n->size
  back,    \* cache->back
  size     \* cache->size

locals == <<req, cur, prev, got, sent>>
list   == <<live, next, key, data, len, back, size>>
vars   == <<status, pc, locals, hostent, rwlock, mutex, list>>

\* Every place a handler thread can be at, in the order of the code.
Location ==
  {"idle", "search", "walk", "serve", "hit", "hitmutex", "promote", "splice",
   "fetch", "connect", "add", "addmutex", "evict", "release", "leave"}

Goto(t, from, to) ==
  /\ pc[t] = from
  /\ pc' = [pc EXCEPT ![t] = to]

-----------------------------------------------------------------------------
\* init_cache: the list is the dummy node alone.
Init ==
  /\ status = "up"
  /\ pc = [t \in Thread |-> "idle"]
  /\ req = [t \in Thread |-> NULL]
  /\ cur = [t \in Thread |-> NULL]
  /\ prev = [t \in Thread |-> NULL]
  /\ got = [t \in Thread |-> 0]
  /\ sent = [t \in Thread |-> NULL]
  /\ hostent = NULL
  /\ readers = {}
  /\ writer = NULL
  /\ mutex = NULL
  /\ live = {Dummy}
  /\ next = [n \in Node |-> NULL]
  /\ key = [n \in Node |-> NULL]
  /\ data = [n \in Node |-> NULL]
  /\ len = [n \in Node |-> 0]
  /\ back = Dummy
  /\ size = 0

\* The key under which parseit caches a request: ':' and the port have been
\* cut off the host by then.
Key(r) == [host |-> r.host, path |-> r.path]

\* parseit reads and accepts a request line.
Parse(t) ==
  /\ Goto(t, "idle", "search")
  /\ \E r \in Request : req' = [req EXCEPT ![t] = r]
  /\ UNCHANGED <<status, hostent, cur, prev, got, sent, rwlock, mutex, list>>

-----------------------------------------------------------------------------
(* search_cache *)

StartSearch(t) ==
  /\ Goto(t, "search", "walk")
  /\ read_lock(t)
  /\ cur' = [cur EXCEPT ![t] = next[Dummy]]
  /\ prev' = [prev EXCEPT ![t] = Dummy]
  /\ UNCHANGED <<status, hostent, req, got, sent, mutex, list>>

WalkOn(t) ==
  /\ Goto(t, "walk", "walk")
  /\ cur[t] # NULL
  /\ key[cur[t]] # Key(req[t])
  /\ prev' = [prev EXCEPT ![t] = cur[t]]
  /\ cur' = [cur EXCEPT ![t] = next[cur[t]]]
  /\ UNCHANGED <<status, hostent, req, got, sent, rwlock, mutex, list>>

\* Mistake: the read lock is released before the client is served.
FoundUnlocking(t) ==
  /\ Goto(t, "walk", "serve")
  /\ cur[t] # NULL
  /\ key[cur[t]] = Key(req[t])
  /\ unlock(t)
  /\ UNCHANGED <<status, hostent, locals, mutex, list>>

Found(t) ==
  /\ Goto(t, "walk", "serve")
  /\ cur[t] # NULL
  /\ key[cur[t]] = Key(req[t])
  /\ UNCHANGED <<status, hostent, locals, rwlock, mutex, list>>

NotFound(t) ==
  /\ Goto(t, "walk", "fetch")
  /\ cur[t] = NULL
  /\ unlock(t)
  /\ prev' = [prev EXCEPT ![t] = NULL]
  /\ UNCHANGED <<status, hostent, req, cur, got, sent, mutex, list>>

\* Rio_writen of the headers and the data, with the read lock held.
ServeHit(t) ==
  /\ Goto(t, "serve", "hit")
  /\ sent' = [sent EXCEPT ![t] = data[cur[t]]]
  /\ UNCHANGED <<status, hostent, req, cur, prev, got, rwlock, mutex, list>>

\* P(&mutex), while the read lock is still held.
HitLock(t) ==
  /\ Goto(t, "hit", "hitmutex")
  /\ mutex_lock(t)
  /\ UNCHANGED <<status, hostent, locals, rwlock, list>>

HitUnlockRead(t) ==
  /\ Goto(t, "hitmutex", "promote")
  /\ unlock(t)
  /\ UNCHANGED <<status, hostent, locals, mutex, list>>

PromoteLock(t) ==
  /\ Goto(t, "promote", "splice")
  /\ write_lock(t)
  /\ UNCHANGED <<status, hostent, locals, mutex, list>>

\* Mistake: cur->next = NULL is forgotten.
MovedNotEnded(p, n) == [next EXCEPT ![p] = next[n], ![back] = n]

\* The next pointers after node n, which follows p, has been moved behind
\* cache->back, in the order of the code.  When n is cache->back already,
\* nothing points to it afterwards.
Moved(p, n) == [next EXCEPT ![p] = next[n], ![back] = n, ![n] = NULL]

\* Moves cur behind cache->back, wherever it is, and releases the write
\* lock.
Splice(t) ==
  /\ Goto(t, "splice", "release")
  /\ next' = Moved(prev[t], cur[t])
  /\ back' = cur[t]
  /\ unlock(t)
  /\ UNCHANGED <<status, hostent, locals, mutex, live, key, data, len, size>>

-----------------------------------------------------------------------------
(* forwardit and read_responsehdrs *)

\* Open_clientfd: gethostbyname fills the hostent.
Resolve(t) ==
  /\ Goto(t, "fetch", "connect")
  /\ hostent' = req[t].host
  /\ UNCHANGED <<status, locals, rwlock, mutex, list>>

\* The address in the hostent is connected to and sent the request; the host
\* there answers and its response is passed on to the client.  It is to be
\* cached if it has a body that fits the buffers.
Forward(t) ==
  /\ \/ /\ Goto(t, "connect", "add")
        /\ \E n \in Size : got' = [got EXCEPT ![t] = n]
     \/ /\ Goto(t, "connect", "leave")
        /\ UNCHANGED got
  /\ sent' = [sent EXCEPT ![t] = [at |-> hostent, to |-> req[t]]]
  /\ UNCHANGED <<status, req, cur, prev, hostent, rwlock, mutex, list>>

\* The host cannot be reached, or the connection to it breaks: the wrapper
\* of csapp.c prints a message and calls exit.
HostFails(t) ==
  /\ pc[t] \in {"fetch", "connect"}
  /\ status' = "nohost"
  /\ UNCHANGED <<pc, hostent, locals, rwlock, mutex, list>>

\* The same for a connection to a client, when its request is read, or when
\* it is sent a cached object or a response.
ClientFails(t) ==
  /\ pc[t] \in {"idle", "serve", "connect"}
  /\ status' = "noclient"
  /\ UNCHANGED <<pc, hostent, locals, rwlock, mutex, list>>

-----------------------------------------------------------------------------
(* add_to_cache *)

AddLock(t) ==
  /\ Goto(t, "add", "addmutex")
  /\ mutex_lock(t)
  /\ UNCHANGED <<status, hostent, locals, rwlock, list>>

AddWriteLock(t) ==
  /\ Goto(t, "addmutex", "evict")
  /\ write_lock(t)
  /\ UNCHANGED <<status, hostent, locals, mutex, list>>

\* The condition of the eviction loop.  Mistakes: room for one byte more is
\* asked for; the object itself is forgotten.
TooFullOffByOne(t) == MaxSize - size <= got[t]

TooFullWithout(t) == MaxSize - size < 0

TooFull(t) == MaxSize - size < got[t]

\* cache->size after the first node is unlinked.  Mistake: it is kept.
SizeKept(first) == size

SizeWithout(first) == size - len[first]

\* One round of the eviction loop.  cache->back is not looked at.
Evict(t) ==
  LET first == next[Dummy] IN
  /\ Goto(t, "evict", "evict")
  /\ TooFull(t)
  /\ first # NULL
  /\ next' = [next EXCEPT ![Dummy] = next[first], ![first] = NULL]
  /\ size' = SizeWithout(first)
  /\ live' = live \ {first}
  /\ key' = [key EXCEPT ![first] = NULL]
  /\ data' = [data EXCEPT ![first] = NULL]
  /\ len' = [len EXCEPT ![first] = 0]
  /\ UNCHANGED <<status, hostent, locals, rwlock, mutex, back>>

\* The loop finds no node and dereferences the null pointer.
EvictNothing(t) ==
  /\ pc[t] = "evict"
  /\ TooFull(t)
  /\ next[Dummy] = NULL
  /\ status' = "crashed"
  /\ UNCHANGED <<pc, hostent, locals, rwlock, mutex, list>>

\* The next pointers after the new node is linked behind cache->back.
\* Mistake: it is linked behind cache->front.
LinkedFirst(n) == [next EXCEPT ![n] = next[Dummy], ![Dummy] = n]

LinkedLast(n) == [next EXCEPT ![n] = NULL, ![back] = n]

\* The new node is filled and linked; unlock.
Insert(t) ==
  /\ Goto(t, "evict", "release")
  /\ ~TooFull(t)
  /\ \E n \in Node \ live :
       /\ live' = live \cup {n}
       /\ key' = [key EXCEPT ![n] = Key(req[t])]
       /\ data' = [data EXCEPT ![n] = sent[t]]
       /\ len' = [len EXCEPT ![n] = got[t]]
       /\ next' = LinkedLast(n)
       /\ back' = n
  /\ size' = size + got[t]
  /\ unlock(t)
  /\ UNCHANGED <<status, hostent, locals, mutex>>

\* V(&mutex), after a hit and after an addition.
Release(t) ==
  /\ Goto(t, "release", "leave")
  /\ mutex_unlock
  /\ UNCHANGED <<status, hostent, locals, rwlock, list>>

\* cleanup: the descriptor is closed and the thread exits.
Cleanup(t) ==
  /\ Goto(t, "leave", "idle")
  /\ req' = [req EXCEPT ![t] = NULL]
  /\ cur' = [cur EXCEPT ![t] = NULL]
  /\ prev' = [prev EXCEPT ![t] = NULL]
  /\ got' = [got EXCEPT ![t] = 0]
  /\ sent' = [sent EXCEPT ![t] = NULL]
  /\ UNCHANGED <<status, hostent, rwlock, mutex, list>>

-----------------------------------------------------------------------------
SearchCache(t) ==
  \/ StartSearch(t) \/ WalkOn(t) \/ Found(t) \/ NotFound(t) \/ ServeHit(t)
  \/ HitLock(t) \/ HitUnlockRead(t) \/ PromoteLock(t) \/ Splice(t)

AddToCache(t) ==
  AddLock(t) \/ AddWriteLock(t) \/ Evict(t) \/ EvictNothing(t) \/ Insert(t)

Handle(t) ==
  SearchCache(t) \/ Resolve(t) \/ Forward(t) \/ AddToCache(t) \/ Release(t) \/ Cleanup(t)

Next ==
  /\ status = "up"
  /\ \E t \in Thread :
       Parse(t) \/ Handle(t) \/ HostFails(t) \/ ClientFails(t)

Spec == Init /\ [][Next]_vars

\* A thread that can go on goes on, but for the two places where it depends
\* on a peer: a client may never read what it is sent (ServeHit), and a host
\* may never answer (Resolve, Forward).
Fairness ==
  \A t \in Thread :
    WF_vars(status = "up" /\ Handle(t) /\ pc[t] \notin {"serve", "fetch", "connect"})

FairSpec == Spec /\ Fairness

-----------------------------------------------------------------------------
(***************************************************************************)
(* Properties.                                                             *)
(***************************************************************************)

Host == {r.host : r \in Request}

Response == [at : Host, to : Request]

TypeOK ==
  /\ status \in {"up", "nohost", "noclient", "crashed"}
  /\ pc \in [Thread -> Location]
  /\ req \in [Thread -> Request \cup {NULL}]
  /\ cur \in [Thread -> Node \cup {NULL}]
  /\ prev \in [Thread -> Node \cup {NULL}]
  /\ got \in [Thread -> Size \cup {0}]
  /\ sent \in [Thread -> Response \cup {NULL}]
  /\ hostent \in Host \cup {NULL}
  /\ readers \subseteq Thread
  /\ writer \in Thread \cup {NULL}
  /\ mutex \in Thread \cup {NULL}
  /\ live \subseteq Node
  /\ next \in [Node -> Node \cup {NULL}]
  /\ key \in [Node -> {Key(r) : r \in Request} \cup {NULL}]
  /\ data \in [Node -> Response \cup {NULL}]
  /\ len \in [Node -> Size \cup {0}]
  /\ back \in Node
  /\ size \in 0..MaxSize

\* cache->back, which eviction never looks at (proxy.c:455-460), is never
\* left pointing to a freed node, and nothing hangs behind it: an object is
\* small enough that the node used last need not be evicted for it.
BackValid == back \in live /\ next[back] = NULL

\* The chain from cache->front has no cycle and meets allocated nodes only
\* (proxy.c:457-459, 473, 494-497), although hits on the last node split the
\* list in two: a walk ends, and eviction frees no node twice.
ChainValid ==
  /\ OnPath \subseteq live \ {Dummy}
  /\ Cardinality(DOMAIN Path) = Cardinality(OnPath)

\* cache->size counts every allocated object, also those that hits have
\* taken off the list and that no eviction can free any more.
SizeCountsAll == size = MapThenSumSet(LAMBDA n : len[n], live)

\* What search_cache remembers across its change of locks is not stale
\* (proxy.c:486-497): the client is served from an allocated object of the
\* requested key, and when it is moved, prev still precedes it.
PointersFresh ==
  \A t \in Thread :
    /\ pc[t] = "walk" => cur[t] \in live \cup {NULL}
    /\ pc[t] \in {"serve", "hit", "hitmutex", "promote", "splice"} =>
         /\ cur[t] \in live \ {Dummy}
         /\ key[cur[t]] = Key(req[t])
    /\ pc[t] \in {"walk", "serve", "hit", "hitmutex", "promote", "splice"} =>
         prev[t] \in live /\ next[prev[t]] = cur[t]

\* A client is sent the object of its key, in all but the two respects in which
\* the proxy is wrong (see SentWhatWasAsked): the response is one to a request
\* with the same host and path, whether it comes from the host or from the
\* cache.  What a hit has sent is what the node still has when it is moved
\* (proxy.c:487-498), however other threads evict and add in the meantime.
SentSameObject ==
  /\ \A t \in Thread :
       /\ sent[t] # NULL => Key(sent[t].to) = Key(req[t])
       /\ pc[t] \in {"hit", "hitmutex", "promote", "splice"} => sent[t] = data[cur[t]]
  /\ \A n \in live \ {Dummy} : Key(data[n].to) = key[n]

\* The list has lost its end: cache->back is an object that the walk from
\* cache->front does not meet.
BackLost == back # Dummy /\ back \notin OnPath

\* Once the list has lost its end it never gets it back, and the chain from
\* cache->front only gets shorter: nothing that is added later is ever found.
NothingAddedAfterLoss ==
  [][BackLost => BackLost' /\ OnPath' \subseteq OnPath]_vars

\* One thread holds the mutex and waits for the readers to go; one of these
\* readers waits for the mutex.
LockCycle ==
  \E t, u \in Thread :
    /\ mutex = t /\ pc[t] \in {"promote", "addmutex"}
    /\ u \in readers /\ pc[u] = "hit"

\* A lock cycle (proxy.c:490-493, 452-453) is never resolved, whatever other
\* threads do and however many readers come and go: from then on no hit is
\* completed and nothing is added.
LockCycleForever == [][LockCycle => LockCycle']_vars

\* No thread waits for its peer for ever: clients read what they are sent,
\* a cached object with the read lock held, and hosts answer.
PeersRespond == \A t \in Thread : []<>(pc[t] \notin {"serve", "fetch", "connect"})

\* As long as the peers respond, the proxy does not hang for any other reason
\* than a lock cycle (proxy.c:490-493, 452-453): whenever a request is in
\* progress, some request is completed, or the process ends.
ProxyProgress ==
  PeersRespond =>
    ((\E t \in Thread : pc[t] # "idle")
       ~> (LockCycle \/ status # "up" \/ \E t \in Thread : pc[t] = "leave"))

-----------------------------------------------------------------------------
(***************************************************************************)
(* What the repository says of the code and the code does not do.          *)
(***************************************************************************)

\* proxy.c:258, on check_cache_single: "Use to ensure the state of the cache
\* is correct".  These are the tests of proxy.c:525-569, but for those of
\* pointers that are never null (-1, -2).
CheckCacheSingle ==
  /\ len[Dummy] = 0 /\ key[Dummy] = NULL /\ data[Dummy] = NULL    \* -3 to -6
  /\ next[back] = NULL                                            \* -7
  /\ Dummy = back => size = 0                                     \* -8
  /\ size # 0 =>
       /\ Dummy # back                                            \* -9
       /\ \A n \in OnPath : key[n] # NULL /\ data[n] # NULL        \* -10, -11
       /\ \A n \in OnPath : len[n] # 0 /\ len[n] <= MaxObject      \* -12, -14
       /\ MapThenSumSet(LAMBDA n : len[n], OnPath) <= MaxSize      \* -15
       /\ back \in OnPath                                         \* -16
       /\ size = MapThenSumSet(LAMBDA n : len[n], OnPath)          \* -17

\* It is called with the read lock held.
CacheCorrect == writer = NULL => CheckCacheSingle

\* proxy.c:302: "Open the connection to the web server using the host."; and
\* proxy.c:253, of the key: it "will identify the request in the cache".  What
\* a client gets is the answer of the host it has named to the request it has
\* made, the port included.
SentWhatWasAsked ==
  \A t \in Thread :
    sent[t] # NULL => sent[t].at = req[t].host /\ sent[t].to = req[t]
=============================================================================
