# A verification project for the 845IP servers

The repository holds a family of small threaded HTTP programs in C and the
library they share. This directory models them, checks the models with TLC on
small instances, and proves the properties that matter most with TLAPS for
every value of the constants.

Line numbers refer to the repository's files. `tiny.c:424` is line 424 of
`tiny.c`.

## 1. Inventory

| Component | State | Operations | Hard part |
|---|---|---|---|
| `tiny.c`, dynamic content | the list `cache` (front, back, size), its rwlock, the global `mutex`, dlopen reference counts | `serve_dynamic`, `search_cache`, `add_to_cache`, `evict_lru`, `create_node` | two locks, a change of locks between finding a node and moving it, functions of cached libraries running while others evict |
| `tiny.c`, connections | listening descriptor, one descriptor per thread | `main`, `handle_request`, `doit`, `read_requesthdrs`, `serve_static`, `clienterror`, `cleanup` | one connection's I/O error ends the process |
| `proxy.c`, cache and request path | the list `cache`, its rwlock, the semaphore `mutex` | `parseit`, `search_cache`, `forwardit`, `add_to_cache`, `free_obj`, `check_cache_single`, `cleanup` | the same locking; splicing the last node; eviction that never looks at `cache->back`; keys |
| `proxy.c`, response reader | three fixed buffers and their fill counts | `read_responsehdrs` | sizes tested before they are added to; end of file |
| `tiny_baseline.c` | threads, children, descriptors of both | `doit`, `serve_dynamic` (Fork, Execve, Wait), `cleanup` | `Wait(NULL)` reaps any child; children inherit other connections |
| `two_tiny.c` | the reference count of the one library it opens | `serve_dynamic` (dlopen, dlsym, call, dlclose) | an error path that skips dlclose |
| `cache.c`, `cache.h` | a list with a moving dummy end node, one lock | `cache_find`, `cache_insert`, `cache_evict`, `cache_delete` | nodes change their contents; the returned block is used after the lock |
| `csapp.c` (copied to `lib/`) | `rio_t` buffers | `rio_read`, `rio_readnb`, `rio_readlineb`, wrappers that exit on an error | short counts, end of file, off-by-one at a cut line |
| `lib/*.c`, `cgi-bin/*.c` | none | print the sum, difference, ... of two numbers | sequential |
| `client.py`, `a.py`, `dll.c` | none | load generator, script, demonstration | external to the servers |

How they interact: `main` accepts connections and starts a detached thread for
each; a thread owns its descriptor until `cleanup` closes it and ends the
thread. Threads share the process's cache and locks (`tiny.c`, `proxy.c`) or
its children and descriptor table (`tiny_baseline.c`). `tiny.c` calls into the
libraries of `lib/` by dlopen and dlsym; `proxy.c` talks to origin hosts. All of
them read and write through `csapp.c`, whose wrappers call `exit` on an error.

## 2. What should be true of each part

* **tiny.c cache**: the list stays whole under every interleaving of splices,
  insertions and evictions; `cache->size` and the dlopen counts agree with it;
  what `search_cache` remembers across its change of locks stays true; the
  library of a running function is not unloaded; a request for an existing
  function is answered; the server only hangs in ways that are known.
* **proxy.c cache**: no freed node is followed, the size is exact and within the
  limit, the client gets the object it asked for; what goes wrong for good is known.
* **response reader**: every byte is relayed in its place; what is cached is what
  was relayed; buffers are only overrun where the code's own tests allow it; it
  ends with the response or is known not to.
* **robust I/O**: whatever the pieces in which bytes arrive and the mix of calls,
  the callers see the stream as if it were all there at once.
* **tiny_baseline.c**: every `Wait` has a child to wait for, no zombie stays,
  and no connection is kept open by children once nobody waits for one, or for ever.
* **accept loops and static content**: a connection is handed to one thread, its
  cell is freed once, every descriptor is closed by the thread that has it; a
  request for a file that nobody touches gets all of it and does not end the
  server.
* **two_tiny.c**: the library is loaded while one of its functions runs, and its
  count says how many requests have it open.
* **cache.c**: the moving blocks implement the list of `cache.h`; a block that was
  found holds what was asked for.

## 3. Modules

| Module | Models |
|---|---|
| `SharedCache` | what `tiny.c` and `proxy.c` have in common: the next pointers and the path from `cache->front`, the rwlock wrappers, the mutex |
| `TinyCache` | `serve_dynamic` and everything below it, one action per access to shared state or critical section |
| `CallCache` | the abstract promise of that cache: a queue of libraries by last use, at most one function running, always that of the library used last |
| `TinyCacheRefinement` | the mapping from `TinyCache` to `CallCache` |
| `TinyCacheProofs` | the inductive invariant of `TinyCache` and what follows from it |
| `TinyCacheListProofs` | proofs about the whole list of `TinyCache`, its counters and its refinement |
| `ProxyCache` | `parseit`, `search_cache`, `forwardit`, `add_to_cache` of `proxy.c` and the ways the process ends |
| `ProxyCacheProofs` | proofs about `ProxyCache` |
| `TinyBaseline`, `TinyBaselineProofs` | threads, children and descriptors of `tiny_baseline.c`, and proofs about them |
| `Rio` | the robust I/O functions of `csapp.c` on one connection in and one out |
| `ProxyResponse` | `read_responsehdrs` of `proxy.c` on top of `Rio` |
| `ProxyResponseProofs` | proofs about `ProxyResponse` and `Rio` |
| `LruList` | the abstract promise of `cache.h`: objects in the order of their last use |
| `ListCache` | `cache.c`, called by several threads, and its mapping to `LruList` |
| `ListCacheProofs` | proofs about `ListCache` |
| `HttpFront` | what the servers share: `main`, `handle_request`, the parsing of a request, `serve_static`, `clienterror`, `cleanup`, and every way the process ends |
| `TwoTiny` | `serve_dynamic` of `two_tiny.c` |
| `ProxyFront` | what a thread of `proxy.c` does with descriptors |
| `Servers` | the four servers put together from these, one of them chosen in `Init` |
| `ServersProofs` | their inductive invariant and what follows from it |
| `DataTheorems` | what the proofs need to know of sums over finite sets and of walks along linked lists |
| `MC*` | instances for TLC: small sets, symmetry |

### TinyCache

`pc[t]` is the place of thread `t` in the code; the names follow its order:
`search`, `walk` (418-421), `hit` (424), `hitmutex` (425), `hitcheck` (426),
`promote` (428), `splice` (429-433), `hitsym` (437), `hitrun` (445), `hitret`
(447) in `search_cache`; `miss` (275), `open` (280), `add` (393), `evict`
(396-404), `misssym` (410), `missrun` (299) in `serve_dynamic` and
`add_to_cache`; `leave` until `cleanup` has ended the thread. An `idle` thread
is one that does not exist yet: `Request` is `Accept`, `Pthread_create` and
`doit` up to `serve_dynamic`. `cur`, `prev` and `fname` are the C locals;
`live`, `next`, `key`, `back`, `size` are the heap and `struct cache_queue`. A
node's `handle` is that of the library its `name` names, since dlopen returns
the same handle for the same library; `refs` counts dlopen minus dlclose.
`runs[t]` is what the client sees of the answer: how often its function ran.

Steps are as small as the code's accesses to shared state. The walk reads one
node per step. What happens under the write lock (the three assignments of a
splice, one `evict_lru`, the creation and linking of a node) is one step,
since no reader or writer can see the states between; the loop around
`evict_lru` still takes a step per round.

Undefined behaviour is a choice: after the mutex is released `cur->handle`
(447) may be read from a freed node, and `ReturnHandle` then may go either
way. `parse_uri` appends to an uninitialized buffer, so `Request` takes any
name.

### ProxyCache

The same list and locks with the differences of `proxy.c`: a hit is served
while the read lock is held (488-489), every hit is spliced, even on the last
node, and the eviction loop (455-460) does not look at `cache->back`. A node has
a `key`, which leaves out the port, and `data`, the response it holds, which is
`[at, to]`: the host whose address was connected to, and the request it was
sent; `len[n]` is its length.

`forwardit` is two steps, since one piece of state in it is shared: the C library
keeps the answer of `gethostbyname` in one static `hostent`, which `Resolve`
writes and `Forward` reads (csapp.c:739-744). Between them another thread may
write it. `Forward` ends with an object of some size in `Size`, or one that is
not cached (empty or too large for the buffers: see `ProxyResponse`). `MaxObject`
is only in the proxy's own consistency check: the sizes in `Size` may exceed it
by a little, as those of the code do.
`EvictNothing`, `HostFails` and `ClientFails` end the process as the code does;
after that there is no step.

### TinyBaseline

`Accept` and `Create` are two steps, so that a fork may come between them and
copy a connection that no thread has yet (`accepted`); the heap cell in which it
is handed over is left to `Servers`. A connection is open in the server (`open`)
and in the children forked while it was open (`copies`). A child is `forked` until
`Execve` has made it a `running` program or has failed; either way it ends as a
zombie, and its copies are closed.

### Rio and ProxyResponse

A connection is a sequence of bytes, of which only CR, LF and NUL are told from
the rest. `Fill` is one `read()`: it takes any nonempty part of what the peer
has sent, so every way a response can be cut into segments is covered.
`WriteSome` is one `write()`. A call is started by `Read` or `Write`, goes on in
rounds as small as the loops of csapp.c:529-675, and its result is `rc`. With
`pc = "any"` the functions are called in any order, which is how buffered lines
and blocks are tested against each other; with `pc = "first"`,
`read_responsehdrs` calls them. In its buffers the counts are those of the code:
the test before a copy compares the size so far, and a line that is cut counts
the NUL behind it (`AfterByte`, `Got`). A copy past the end of a buffer is
`overrun`, where the model stops.

### ListCache

`start`, `end`, `next`, `content`, `cache_size` and `cache_block_num` are the C
fields, a block's name and size being its `content`. `cache_delete` and
`cache_add_to_end` are part of `FindMove`, `cache_evict` is `Evict`. All of it runs
under the lock; what a caller has found is used without it, so the interesting
variable is `found`. The branch of `cache_delete` for the last block (91-103) is
not in the model: `cache_find`, the only caller, has returned before (132).
Blocks that `FindMove` skips stay allocated, as in the code, where every hit that
moves a block leaks one.

### HttpFront, TwoTiny, ProxyFront, Servers

`main` is at `listen`, `malloc`, `accept` or `create`; `cell`, `allocated` and
`value` are the heap cells by which it hands a descriptor to a thread. `open` is
the descriptor table. A thread's `fd`, `srcfd` (the file, or the proxy's
`hostfd`) and `filesize` are C locals. `promised` and `sent` are what its client
has seen: the Content-length and the length of the body. `file` is what the
requested path names, and `FileChanges` lets another process write, shorten or
remove it at any time; `changed`, which is no part of the programs, notes whose
file has been touched since its stat. Sizes are in pages, as Mmap and a write
beyond the end of a file tell only those apart. `two_tiny.c` is built without its
call of stat, so that `NoStat` takes any size, one that Mmap refuses (`Refused`,
negative or too large) among them, and either outcome of the test. A wrapper that
meets an error ends the process.

What another module models, `serve_dynamic` of `tiny.c` and `tiny_baseline.c`,
`search_cache` and `add_to_cache`, is one place each (`dynamic`, `search`, `add`) that
a thread may leave or stay in, and in all but the last its connection may break.

### Variants with a mistake

A definition whose comment says "Mistake:" is not used by the model. It is a
plausible bug in the definition that follows it (a dropped test, a swapped
order, a lock given up early), kept to show that the property it is listed with
in `PROJECT.json` is able to fail.

## 4. Runs

`tlc -config X.cfg M` in this directory; each row is a run of `PROJECT.json`.

| Run | Instance | Shows |
|---|---|---|
| `tiny_safety` | 3 threads; libraries a (1), b (3), c (1, no function) and a missing one; limit 2; 3 nodes beside the dummy | `TypeOK`, `ListWhole`, `Accounted`, `PointersFresh`, `RunsProtected`, `OvershootBounded`, `AnsweredOnLeave`, `HitResolves`, `StuckForever` |
| `tiny_progress` | 3 threads, fair; a callable library, one without function, a missing one; limit 1 | `SystemProgress`, and the refinement `ImplementsCallCache` |
| `proxy_safety` | 2 threads; two paths of one host, one of them on two ports; objects of size 1 or 2, limit 4, 4 nodes | `TypeOK`, `BackValid`, `ChainValid`, `SizeCountsAll`, `PointersFresh`, `SentSameObject`, `NothingAddedAfterLoss`, `LockCycleForever` |
| `proxy_progress` | 3 threads, fair, limit 2 | `ProxyProgress` |
| `baseline` | 3 threads, 3 connections, 3 children, fair | `WaitHasChild`, `CopiesAwaited`, `WaitsKeepReturning`, `ClosedInTheEnd` |
| `reader` | all responses of up to 4 bytes, and longer ones with cut lines and bodies at the limit; a read buffer of 2, lines of 4, headers and objects of 5, pieces of 4; fair | `TypeOK`, `ReadsAsOne`, `RelayedExactly`, `HitSendsSame`, `OverrunOnlyBeyond`, `ResponseEnds`, `SpinsForever` |
| `list_cache` | 2 threads, 2 names, sizes 1, 3 and 4 under a limit of 3, 5 blocks | `TypeOK`, `BooksBalance`, `AssertsForOversize`, `FoundHolds`, and the refinement `ImplementsLruList` |
| `servers` | each of the four servers; 3 threads, 4 descriptors, 3 cells, a file of 0 or 1 pages | `OwnDescriptors`, `CellsFreed`, `StatServes`, `RefsCounted` |
| `tiny_lock_cycle` | 2 threads | `NoLockCycle` is violated |
| `tiny_mutex_lost` | 2 threads | `MutexReleased` is violated |
| `proxy_cache_check` | 2 threads | `CacheCorrect` is violated |
| `proxy_wrong_host` | 2 threads, two hosts | `SentWhatWasAsked` is violated |

**Why the bounds are enough.** *Caches of tiny and the proxy.* Three threads give
a mutex holder, a reader that conflicts with it and a third that adds or evicts;
two suffice for each lock cycle. With a limit of 2 and sizes 1 and 3, the
eviction loop runs zero, one and two rounds or more, the limit is overshot, and
a library that is larger than the limit by itself makes the next insertion evict
the last node as well. Three nodes beside the dummy are what sizes of at least 1
under these limits can fill, but for an overshoot by small libraries, in which
case `Insert` waits for an address; this is the only place where the bound on
`Node` prunes behaviour. In `ProxyCache` the size never exceeds the limit, so
as many nodes as the limit is large are never exhausted. `runs` and `refs` need
no bound: a thread runs its function at most twice and `refs` is bounded by
nodes and threads. `proxy_safety` has objects of one host, so that both paths can
be cached and moved; two hosts are the subject of `proxy_wrong_host`.

*Reader.* Every constant is scaled down so that its boundary is met: lines
shorter than, as long as and longer than `MaxLine`; headers below and beyond
`MaxHeaders`; bodies of `MaxObject + 1` bytes, which still fit, and of one more,
which do not; pieces and buffer fills that divide none of these. In the code the
limit (102400) and the piece (10000) are so far apart that a body beyond the
limit always reaches the overrun before the flag is cleared.

*cache.c.* Sizes that fit three at a time, fill the cache alone and exceed it; 5
blocks are the three, the end, and one that has leaked; when the addresses run
out the process ends as it does when Malloc fails.

*Servers.* Three threads and main share four descriptors and three cells, so that
each can run out; `MaxLeaked` bounds the requests for unknown functions, whose
count otherwise grows for ever. Two sizes are enough for a file to grow and to
shrink, and 0 is the one of a file that Mmap refuses.

Threads, addresses and descriptors are symmetric, and the safety runs on the
caches and the servers use it; the liveness runs do not. (The action properties, like the invariants, treat all
threads alike and are about one step each.)

**Deadlock** is checked for `TinyBaseline`. The others really can stop:
`TinyCache` and `ProxyCache` lock up, the process ends, or a response is done.
Which stops are possible is what the progress properties say.

**Fairness** is weak fairness per thread: a thread that is able to go on goes
on. The kernel's scheduler gives that and no more; no lock is assumed to be
handed out fairly, and no new connections are assumed. In `TinyCache` it covers
the library functions, which terminate (`lib/*.c` are straight-line programs,
`fib.c` a bounded loop). In `ProxyCache` it leaves out the places
where a thread depends on a client or a host, and `ProxyProgress` takes the peers'
answers as an explicit hypothesis, `PeersRespond`. `Servers` states no liveness:
whether a request ends depends on peers and on the locks, functions and programs
that `TinyCache`, `ProxyCache` and `TinyBaseline` model. In `ProxyResponse`, which is about one
response, the peers are part of the steps that go on, and whether the host closes
(`closes`) is a hypothesis of `ResponseEnds`. In `TinyBaseline` it includes that CGI programs end. In the two
caches the progress properties speak of some request being completed, not of
each, since a reader can starve a writer in the code too.

## 5. What the runs found

Disagreements between the code and what the repository says of it, each with a
run that ends in a counterexample:

* **Lock cycle** (`tiny.c:424` against 428 and 393): a hit takes the mutex while
  it reads, a mutex holder waits for readers. `proxy.c:490-493` has the same, and
  never gets out of it either (`LockCycleForever`).
* **Mutex never released** after a failed dlopen or dlsym (`tiny.c:280-295`).
  `StuckForever` shows that neither this nor the lock cycle is ever resolved.
* **The proxy's list loses its end** at the first hit on the object used last
  (`proxy.c:494-497`). It stays cut, and nothing that is added is found again
  (`NothingAddedAfterLoss`), the size still counts it (`SizeCountsAll`), and
  once the cache is full the eviction loop follows NULL (`EvictNothing`).
* **A client gets another host's response** (`csapp.c:739`): two threads resolve
  their hosts at the same time and share the static answer of `gethostbyname`. The
  response is cached under the wrong key as well.

Behaviours of the models that no run is made for, as each shows in a trace of a
few steps of one thread:

* **A client gets another port's response** (`proxy.c:254`): the key is made of
  the host, from which the port has been cut off, and the path. `SentSameObject`
  and the theorem about it therefore speak of the key.
* **Objects beyond the limit** (`proxy.c:403`): the size is tested before the last
  piece is counted and the buffers hold one byte more than their limits, so a
  body of `MAX_OBJECT_SIZE + 1` bytes is handed to `add_to_cache`, though
  `proxy.c:64` says "Only called with size < MAX_OBJECT_SIZE". A larger one can be
  written past the end (`OverrunOnlyBeyond`).
* **two_tiny serves files without asking for their size** (`two_tiny.c:83-98`): what
  is on the stack is promised and mapped, and Mmap or the write ends the server.
  `FileServed` is false of it, and `StatServes` leaves it out.

What the passing runs established that is not obvious from the code:

* **An error path that is never taken**: after a failed dlsym on a hit
  (`tiny.c:439-443`) the mutex would be locked twice by one thread. It does not
  come to that, because a library without its function is only cached by a
  request that leaves the mutex locked (`HitResolves`). Unlocking the
  mutex at 290-295 and nothing else would make the path reachable.
* **A header line that is cut** at `MAXLINE` is relayed with a NUL
  (`RelayedExactly`), and what is cached of such headers ends there
  (`HitSendsSame` excepts them). The pieces of a line may also look like the empty
  line, which then ends the headers too early; nothing is lost by that.
* **A host that closes before the empty line** keeps a thread, its connections and
  a processor busy for ever (`SpinsForever`); `read_requesthdrs` of the web
  servers does the same for clients (`spin` in `HttpFront`, which no step leaves).
* **tiny_baseline**: a request may be closed before its own program has ended,
  and its connection stays open in other requests' children; but books balance
  (`WaitHasChild`), children with copies are at most as many as threads wait
  (`CopiesAwaited`), and every connection is closed in the end (`ClosedInTheEnd`).
* **tiny's files**: stat is enough as long as others leave the file alone until the
  answer is written (`StatServes`). One that shrinks or vanishes in between ends
  the server rather than the answer (`OpenFails`, `BodyFails`); so does a request
  for an empty file (`MapFails`).
* **two_tiny**: one request for an unknown function keeps the library loaded
  (`RefsCounted`); the functions of `libvector.so` have other parameters than
  the ones they are called with (`CallCrashes`).
* **cache.c**: `cache_find` returns the dummy end block after a move. It holds
  what was asked for only until the next insertion, move or eviction
  (`FoundHolds`). An object larger than the cache runs into the contract of
  `cache_evict`, and nothing else does (`AssertsForOversize`).

In `tiny.c` the eviction loop tests the size before it adds (`OvershootBounded`
says by how much the limit is exceeded), and two threads that miss the same
library both add it (`CallCache` allows duplicates for that reason).

## 6. What is proved

Every invariant, every action property and both refinements that the passing runs
check are theorems: they hold for any values of the constants that satisfy the
named assumptions. Each has a run as well, which is how it was found out that
the formula is true before it was proved.

| Module | Theorem | States |
|---|---|---|
| `TinyCacheProofs` | `Invariant` | `IInv` |
| | `TypeCorrect` | `TypeOK` |
| | `FreshPointers` | `PointersFresh` |
| | `ProtectedRuns` | `RunsProtected` |
| | `Answered` | `AnsweredOnLeave` |
| | `BoundedOvershoot` | `OvershootBounded` |
| | `ResolvedHits` | `HitResolves` |
| | `LockUpIsForever` | `StuckForever` |
| `TinyCacheListProofs` | `WholeList` | `ListWhole` |
| | `CountersAgree` | `Accounted` |
| | `CacheRefines` | `ImplementsCallCache` |
| `ProxyCacheProofs` | `ProxyInvariant` | `IInv` |
| | `ProxyTypeCorrect` | `TypeOK` |
| | `BackStaysValid` | `BackValid` |
| | `ChainStaysValid` | `ChainValid` |
| | `SizeCountsAllocated` | `SizeCountsAll` |
| | `PointersStayFresh` | `PointersFresh` |
| | `SameObjectIsSent` | `SentSameObject` |
| | `LossIsForEver` | `NothingAddedAfterLoss` |
| | `LockCycleIsForever` | `LockCycleForever` |
| `ProxyResponseProofs` | `ReaderInvariant` | `IInv` |
| | `ReaderTypeCorrect` | `TypeOK` |
| | `ReadingIsExact` | `ReadsAsOne` |
| | `RelayIsExact` | `RelayedExactly` |
| | `HitRepeatsMiss` | `HitSendsSame` |
| | `OverrunNeedsSize` | `OverrunOnlyBeyond` |
| | `SpinningStays` | `SpinsForever` |
| `ListCacheProofs` | `Invariant` | `IInv` |
| | `ListTypeCorrect` | `TypeOK` |
| | `ListBooksBalance` | `BooksBalance` |
| | `OnlyOversizeAsserts` | `AssertsForOversize` |
| | `FoundStays` | `FoundHolds` |
| | `ListRefines` | `ImplementsLruList` |
| `ServersProofs` | `ServersInvariant` | `ServersInv` |
| | `CellsAreFreed` | `CellsFreed` |
| | `DescriptorsOwned` | `OwnDescriptors` |
| | `RefsAreCounted` | `RefsCounted` |
| | `StatIsEnough` | `StatServes` |
| `TinyBaselineProofs` | `WaitsBalance` | `WaitHasChild` |
| | `CopiesAreAwaited` | `CopiesAwaited` |

### TinyCacheProofs

Any sets of threads, names, libraries and nodes; from `NameAssumption`,
`SizeAssumption`, `NodeAssumption` and `ThreadAssumption`.

None of the properties is inductive alone. `PointersFresh` says that `prev` still
precedes `cur` when the write lock is taken; that needs to know that no other
thread is in a critical section that writes to the list (`LockDiscipline`:
which locks are held at which place), and that nodes on the list do not turn
into one another (`ListLinks`). `ListLinks` avoids reachability: allocated nodes
point to allocated nodes, no two to the same, and exactly `cache->back` points
nowhere. These relations between neighbours are what splice, eviction and
insertion preserve, and they give that the first node exists whenever
`cache->back` is not the dummy. `LastUsed` and `Served` record where the running
library is and what is known of the request. `IInv` is their conjunction; each
conjunct has a lemma with a case per action, which first disposes of the other
threads (`OthersUntouched`, `ListWriters`, `WriterAlone`). `ResolvedHits` adds
`CacheResolves`: unless the mutex is lost, every cached library has its
function, except one whose function is just being looked up for the first time.

### TinyCacheListProofs

Neighbours do not say that the list has no cycle beside it. `Whole` does: the
sequence `Path`, which a walk from `cache->front` meets, has each allocated node
once and ends at `cache->back`. It is proved on top of `IInv`, which gives that
the pointers a splice uses are neighbours on `Path`. Each step that writes to
the list then gives a sequence (`Path` without a node, without its head, with a
node appended) that is a chain along the new pointers, and there is only one.
`Accounted` adds two sums over finite sets, which the same three steps change by
one term. For `CacheRefines`, each of these steps and each start and return of a
function is shown to be the action of `CallCache` of its name, and all others to
leave the queue and the running function alone. That at most one function runs
is `RunsProtected` again. The nodes are finitely many (`NodeAssumption`): a
process has that many addresses.

### ProxyCacheProofs

From `NodeAssumption`, `ProxySizeAssumption` and `ProxyThreadAssumption`.

The first hit on the last node cuts the list, so `ListIs` has two cases: the
list is whole, or `cache->back` is an allocated node off the list that points
nowhere. `Walks` says that what a thread holds is on the list, and that nobody
has moved it since; it needs `LockDiscipline`, as in `tiny.c`. `BackValid` needs
the sizes too (`Counted`): eviction frees the head of the list, and would free
`cache->back` if the list were whole with one node left; as any two objects fit
into the cache together, it goes on only while there are two. That is the
assumption on `Size`, and `MAX_OBJECT_SIZE` is a tenth of `MAX_CACHE_SIZE`.
`SentSameObject` has two sides, what a thread has sent and what a node holds, each
of which the other one's steps rest on; that a node still has what a hit has sent
when it is moved is `WriterAlone` again. `LossIsForEver` says of two states that
`cache->back` stays off the list and nothing is added to the nodes on it: a hit
makes `cache->back` the node it has just taken off, an addition a new one behind
it. `LockCycleIsForever` goes through the steps of the holder of the mutex, of the
reader that waits for it, and of all others, which can neither take the mutex nor
release it (`LockDiscipline`).

### ProxyResponseProofs

From `RioAssumption`, `ResponseAssumption` (a line has room for the empty line)
and `ByteAssumption` (what hosts send are strings of bytes; those in which CR
and LF are told apart from the NUL that `rio_readlineb` adds).

The properties are about strings of any length, and the inductive invariant says
of each in which places of the host's stream it lies. `InPlace` cuts the
stream in four at `FromAt`, `NextAt` and `GotAt`: returned by earlier calls,
stored by this call, in `rio_buf`, not yet read. `read()`, the byte loop of
`rio_readlineb`, the block copies and the raw reads of `rio_readn` each move one
cut. `Called` says where the call in progress is, for instance that a line under
construction has no newline but at its end; with `InPlace` this is what
`ReadsAsOne` needs at a return, however the bytes came. `Relayed` counts NULs
between what was written and the place `Done` it came from. `Gathered` says that
the two gathered copies together are what was written, as long as both flags are
up, with the sizes the code counts. `Headers` is about responses whose lines
fit: at each header the place is the end of a line not beyond the empty one, so
that the header's first test sees the empty line at the right place and the
sizes are those of the response. Without `Headers` neither the absence of NULs
nor `OverrunOnlyBeyond` would be inductive, since whether a line is cut depends
on where it begins. TLC checked each conjunct on instances of the run before it
was proved.

### ListCacheProofs

From `ListAssumption` (NULL is not a value of anything else, blocks are finitely
many, sizes are positive).

`IInv` has `TypeOK`, `ListIs(Chain)` (the blocks from `start` to `end` are
allocated, no two the same, each holds an object but `end`, and the two counters
are those of this sequence), `Calling` (who holds the lock, with which
arguments), `Walking` (no block before `ptr` has the name looked for) and
`AssertsForOversize`. `MoveStep`, `EvictStep` and `InsertStep` give the new
sequence for the three steps that write to the list; the move reuses a block
for another object, so contents have to be followed as well as pointers.
`FoundHolds` is proved of each step from these, and `ListRefines` by showing
that the contents of the new sequence are what `LruList` says.

### ServersProofs

Any sets of threads, descriptors, cells and file sizes; from `FrontAssumption` and
`LeakAssumption`.

`StepKinds` first forgets which program takes a step, so that each action is
treated once. `CellsFreed` needs `CellInv`: a thread that has not begun has a
cell of its own, which is not the one main is filling; without it a thread could
free a cell another has still to read. `OwnDescriptors` needs that and
`DescriptorInv`, which says at which places of the program a descriptor is open, so
that none is overwritten when the next is opened. Steps that have nothing to do
with cells, descriptors or the library are disposed of together (`CellSteps`,
`QuietSteps`, `LoadedSteps`). `RefsCounted` is a count over a set of threads,
which grows with dlopen and shrinks with dlclose and with a request that ends
without it. `StatServes` needs `SizeInv`: at each place from stat on, what the
thread knows of the file is true of it, unless others have touched it since; the
one step that would break this is `NoStat`, which `StepKinds` says is taken by
`two_tiny.c` only.

### TinyBaselineProofs

From `BaselineAssumption`: `WaitsBalance` by counting (a fork adds one to both
sets, a returning `Wait` takes one from both); `CopiesAreAwaited` from that and from
`HolderLives`: only a child that has not ended has copies.

### DataTheorems

What is used of `SumOver` (a fold of the community modules) and of lists: how a
sum changes by an element, that a sum does not depend on names, that a walk along
pointers is the one sequence that is a chain along them, and what append, tail
and removal of an element do to a chain. Two difficulties are met here once and
for all. Induction over a predicate is not available, so a statement about every
length is proved by looking at the smallest counterexample (`LeastNat`,
`SmallestSubset`, from `WFMin`, which takes a set). And a recursive function is
a CHOOSE: `SumFcnExists` and `WalkFcnIs` build the function that is chosen before
its equations can be used.

### Only model-checked

* The liveness properties `SystemProgress`, `ProxyProgress`, `ResponseEnds`,
  `WaitsKeepReturning` and `ClosedInTheEnd`: they rest on fairness
  and ENABLED, which the prover does not handle.
* The violated properties: a counterexample is all there is to show.

`RelayedExactly` says with `Place` what could be said more directly with
SelectSeq; the prover knows nothing of SelectSeq, and the two mean the same.

## 7. What is left out, and why

* A '\0' in a header that a host sends. In a body it is copied as any other byte
  is, and stands for one.
* Text of answers, headers and log lines: no property is about them. With it goes
  what the library functions and CGI programs print; that they return, end or
  crash is modelled.
* The end of the process on an I/O error or a broken pipe in `TinyCache`, and on
  failed Malloc: it cuts a behaviour short and can violate no safety property of
  that module. `Servers` has all of these for the same program.
* Files of `lib/` and their sizes do not change while the server runs.
* `dlerror` is per thread in the C library used and is reset by each call of it.
* `pthread_rwlock_t` admits readers unless a writer holds it (the default kind).
* Buffers of a request (`MAXLINE`): `ReadRequest` allows both outcomes of parsing.
  `parse_uri` appends to an uninitialized buffer; `TinyCache` takes any name.
* `key` of `parseit` is never freed, since `cleanup` does not return
  (`proxy.c:269-270`): the memory of each request is lost, to no effect on the
  rest of the state.
* The wrappers of `csapp.c` that no program here calls: signals but for one
  `signal(SIGPIPE)`, Select, sleep, stdio.
* `client.py`, `a.py`, `dll.c` run outside the servers; `lib/csapp.c` and
  `lib/csapp.h` are copies, byte for byte.

## 8. Plan

Done: all servers, the two caches and their abstract specifications, `cache.c`,
the robust I/O functions and the response reader; proofs of every safety property,
action property and refinement the runs check.

What is left to prove:

1. The safety parts behind the liveness properties, which need no fairness: for
   each cache, which threads are able to go on in a state that is not locked up.
2. In `TinyBaseline`, how long a connection can stay open in children: no longer
   than the programs that were running when it was closed.
