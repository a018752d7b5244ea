-------------------------- MODULE ProxyCacheProofs --------------------------
(***************************************************************************)
(* Proofs about ProxyCache, for any number of threads, requests and        *)
(* addresses and any sizes that ProxySizeAssumption allows.                *)
(*                                                                         *)
(* The list of this cache is whole only until the first hit on its last    *)
(* node.  Such a hit takes the node off the list and leaves cache->back    *)
(* pointing to it; from then on every hit takes its node off the list, and *)
(* what is added hangs behind cache->back, out of reach.  ListIs states    *)
(* the two cases.  What is common to them, a chain from cache->front of    *)
(* allocated nodes, is what the walks of the threads stay on (Walks): no   *)
(* thread writes to the list while another is between its walk and its     *)
(* splice, because the writer needs the mutex and the write lock.          *)
(***************************************************************************)
EXTENDS ProxyCache, DataTheorems

MutexHolding == {"hitmutex", "promote", "splice", "addmutex", "evict", "release"}

Reading == {"walk", "serve", "hit", "hitmutex"}

\* Where cur is the node to serve and to move.
Holding == {"serve", "hit", "hitmutex", "promote", "splice"}

LockDiscipline ==
  /\ \A t \in Thread : writer = t <=> pc[t] \in {"splice", "evict"}
  /\ \A t \in Thread : t \in readers <=> pc[t] \in Reading
  /\ writer # NULL => readers = {}
  /\ \A t \in Thread : pc[t] \in MutexHolding => mutex = t

\* What the locals of the request path hold where they are used.
Served ==
  \A t \in Thread :
    /\ pc[t] # "idle" => req[t] \in Request
    /\ pc[t] = "idle" => sent[t] = NULL
    /\ pc[t] = "connect" => hostent \in Host
    /\ pc[t] \in {"add", "addmutex", "evict"} =>
         got[t] \in Size /\ Key(sent[t].to) = Key(req[t])

\* c is the list from cache->front, which has its end or has lost it.
ListIs(c) ==
  /\ IsChain(c, next, Node, Dummy, NULL)
  /\ Elems(c) \subseteq live \ {Dummy}
  /\ \/ Elems(c) = live \ {Dummy} /\ back = LastOf(c, Dummy)
     \/ back \in live \ (Elems(c) \cup {Dummy}) /\ next[back] = NULL

\* The walks and the hits of all threads are on the list c.
Walks(c) ==
  \A t \in Thread :
    /\ pc[t] \in Holding \cup {"walk"} =>
         prev[t] \in Elems(c) \cup {Dummy} /\ next[prev[t]] = cur[t]
    /\ pc[t] \in Holding => cur[t] # NULL /\ key[cur[t]] = Key(req[t])

Counted ==
  /\ Dummy \in live /\ len[Dummy] = 0
  /\ size = SumOver(len, live)

IInv ==
  /\ TypeOK
  /\ LockDiscipline
  /\ Served
  /\ SentSameObject
  /\ ListIs(Path)
  /\ Walks(Path)
  /\ Counted

-----------------------------------------------------------------------------
\* The walk from cache->front is the sequence that the next pointers spell.
LEMMA PathIs == \A c : IsChain(c, next, Node, Dummy, NULL) => Path = c
<1> SUFFICES ASSUME NEW c, IsChain(c, next, Node, Dummy, NULL)
             PROVE  Path = c
  OBVIOUS
<1>1. ListBehind(next, Dummy, NULL, Cardinality(Node)) = c
  BY NodeAssumption, ChainIsList
<1>2. Path = ListBehind(next, Dummy, NULL, Cardinality(Node))
  BY Zenon DEF Path, ListBehind, WalkFcn, IsWalkFcn
<1> QED
  BY <1>1, <1>2

\* The same of the next state.
LEMMA PathIsNext == (\A c : IsChain(c, next, Node, Dummy, NULL) => Path = c)'
BY PathIs, PTL

\* A sequence that is found to be the list of the next state is its Path.
LEMMA NewList ==
  ASSUME NEW c, ListIs(c)'
  PROVE  Path' = c /\ ListIs(Path)'
<1>1. IsChain(c, next', Node, Dummy, NULL)
  BY DEF ListIs
<1>2. Path' = c
  BY <1>1, PathIsNext
<1> QED
  BY <1>2 DEF ListIs

\* A step that leaves the nodes alone leaves the list alone.
LEMMA SameList ==
  ASSUME ListIs(Path), UNCHANGED list
  PROVE  Path' = Path /\ ListIs(Path)'
<1>1. Path' = Path
  BY DEF Path, list
<1> QED
  BY <1>1 DEF ListIs, list

\* The sizes of the allocated nodes can be summed.
LEMMA SizesType ==
  ASSUME TypeOK
  PROVE  /\ IsFiniteSet(live) /\ live \subseteq Node
         /\ \A n \in Node : len[n] \in Nat /\ len[n] \in Int
<1>1. live \subseteq Node /\ len \in [Node -> Size \cup {0}]
  BY DEF TypeOK
<1>2. IsFiniteSet(live)
  BY <1>1, NodeAssumption, FS_Subset
<1>3. \A n \in Node : len[n] \in Nat
  <2>1. Size \cup {0} \subseteq Nat
    BY ProxySizeAssumption
  <2> QED
    BY <1>1, <2>1
<1> QED
  BY <1>1, <1>2, <1>3

\* The fold of the specification is the sum.
LEMMA SizeIsSum ==
  ASSUME TypeOK
  PROVE  MapThenSumSet(LAMBDA n : len[n], live) = SumOver(len, live)
<1> DEFINE g == CHOOSE f : f = [s \in SUBSET live |->
                  IF s = {} THEN 0 ELSE len[First(s)] + f[s \ {First(s)}]]
<1>1. MapThenSumSet(LAMBDA n : len[n], live) = g[live]
  BY Zenon DEF MapThenSumSet, MapThenFoldSet, First
<1>2. IsFiniteSet(live) /\ \A n \in live : len[n] \in Int
  BY SizesType
<1> HIDE DEF g
<1>3. PICK f : IsSumFcn(f, len, live)
  BY <1>2, SumFcnExists
<1>4. f = [s \in SUBSET live |->
             IF s = {} THEN 0 ELSE len[First(s)] + f[s \ {First(s)}]]
  BY <1>3 DEF IsSumFcn
<1>5. g = [s \in SUBSET live |->
             IF s = {} THEN 0 ELSE len[First(s)] + g[s \ {First(s)}]]
  BY <1>4, Zenon DEF g
<1>6. IsSumFcn(g, len, live)
  BY <1>5 DEF IsSumFcn
<1> QED
  BY <1>1, <1>2, <1>6, SumFcnIs

\* A thread that walks or has found its object is on the list.
LEMMA OnList ==
  ASSUME IInv, NEW t \in Thread, pc[t] \in Holding \cup {"walk"}, cur[t] # NULL
  PROVE  \E k \in DOMAIN Path : cur[t] = Path[k]
<1>1. IsChain(Path, next, Node, Dummy, NULL)
  BY DEF IInv, ListIs
<1>2. prev[t] \in Elems(Path) \cup {Dummy} /\ next[prev[t]] = cur[t]
  BY DEF IInv, Walks
<1>3. \E k \in DOMAIN Path : next[prev[t]] = Path[k]
  BY <1>1, <1>2, ChainNext
<1> QED
  BY <1>2, <1>3

-----------------------------------------------------------------------------
(* What the three steps that write to the list do to it. *)

\* A hit takes its node off the list, and puts it back at the end only if
\* there still is an end that it is not itself.
LEMMA SpliceStep ==
  ASSUME IInv, NEW t \in Thread, Splice(t)
  PROVE  /\ ListIs(Path)'
         /\ Elems(Path') \subseteq Elems(Path)
         /\ back \notin Elems(Path) /\ back # Dummy =>
              back' \notin Elems(Path') /\ back' # Dummy
<1> USE NodeAssumption
<1>1. PICK c, n, p : c = Path /\ n = cur[t] /\ p = prev[t]
  OBVIOUS
<1>2. ListIs(c) /\ IsChain(c, next, Node, Dummy, NULL) /\ next \in [Node -> Node \cup {NULL}]
  BY <1>1 DEF ListIs, IInv, TypeOK
<1>3. p \in Elems(c) \cup {Dummy} /\ next[p] = n /\ n # NULL
  BY <1>1 DEF IInv, Walks, Splice, Goto, Holding
<1>4. PICK k \in DOMAIN c : n = c[k]
  BY <1>2, <1>3, ChainNext
<1>5. DOMAIN c = 1..Len(c) /\ Len(c) \in Nat /\ c # <<>>
  BY <1>2, <1>4, ChainCounts
<1>6. n \in live \ {Dummy} /\ n \in Node /\ p \in Node /\ back \in Node
      /\ next[n] \in Node \cup {NULL} /\ n \in Elems(c)
  <2>1. n \in Elems(c)
    BY <1>4 DEF Elems
  <2> QED
    BY <2>1, <1>2, <1>3 DEF ListIs, IInv, TypeOK
<1>7. PICK m : m = [next EXCEPT ![p] = next[n]]
  OBVIOUS
<1>8. m \in [Node -> Node \cup {NULL}]
  BY <1>2, <1>6, <1>7
<1>9. PICK d : d = Dropped(c, k)
  OBVIOUS
<1>10. /\ IsChain(d, m, Node, Dummy, NULL)
       /\ Elems(d) = Elems(c) \ {n} /\ p # n
       /\ k # Len(c) => LastOf(d, Dummy) = LastOf(c, Dummy)
  <2>1. \A y \in Node : m[y] = IF y = p THEN next[c[k]] ELSE next[y]
    BY <1>2, <1>4, <1>7
  <2>2. next[p] = c[k]
    BY <1>3, <1>4
  <2>3. /\ IsChain(Dropped(c, k), m, Node, Dummy, NULL)
        /\ Elems(Dropped(c, k)) = Elems(c) \ {c[k]}
        /\ k # Len(c) => LastOf(Dropped(c, k), Dummy) = LastOf(c, Dummy)
        /\ p # c[k]
    BY <1>2, <1>3, <2>1, <2>2, ChainWithout
  <2> QED
    BY <1>4, <1>9, <2>3
<1>11. next' = [m EXCEPT ![back] = n, ![n] = NULL]
  BY <1>1, <1>7 DEF Splice, Moved
<1>12. \A y \in Node :
         next'[y] = IF y = n THEN NULL ELSE IF y = back THEN n ELSE m[y]
  BY <1>8, <1>11
<1>13. live' = live /\ back' = n
  BY <1>1 DEF Splice
<1>14. CASE back \in Elems(d)
  <2>1. Elems(c) = live \ {Dummy} /\ back = LastOf(c, Dummy)
    BY <1>2, <1>10, <1>14 DEF ListIs
  <2>2. k # Len(c)
    BY <1>4, <1>5, <1>10, <1>14, <2>1 DEF LastOf
  <2>3. back = LastOf(d, Dummy)
    BY <1>10, <2>1, <2>2
  <2>4. PICK f : f = Append(d, n)
    OBVIOUS
  <2>5. /\ IsChain(f, next', Node, Dummy, NULL)
        /\ Elems(f) = Elems(d) \cup {n} /\ LastOf(f, Dummy) = n
    <3>1. n \in Node \ {Dummy} /\ n \notin Elems(d) /\ back # n
      BY <1>6, <1>10, <1>14
    <3>2. \A y \in Node :
            next'[y] = IF y = back THEN n ELSE IF y = n THEN NULL ELSE m[y]
      BY <1>12, <3>1
    <3> QED
      BY <1>8, <1>10, <2>3, <2>4, <3>1, <3>2, ChainAppend
  <2>6. Elems(f) = live' \ {Dummy} /\ Elems(f) = Elems(c)
    BY <1>6, <1>10, <1>13, <2>1, <2>5
  <2>7. ListIs(f)'
    BY <1>13, <2>5, <2>6 DEF ListIs
  <2>8. back \in Elems(c)
    BY <1>10, <1>14
  <2> QED
    BY <1>1, <2>6, <2>7, <2>8, NewList
<1>15. CASE back \notin Elems(d)
  <2>1. back # Dummy
    BY <1>2, <1>6, <1>5 DEF ListIs, LastOf, IsChain
  <2>2. \A y \in Elems(d) \cup {Dummy} : y \in Node /\ y # back /\ y # n
    BY <1>2, <1>6, <1>10, <1>15, <2>1, ChainCounts
  <2>3. \A y \in Elems(d) \cup {Dummy} : next'[y] = m[y]
    BY <1>12, <2>2
  <2>4. IsChain(d, next', Node, Dummy, NULL)
    BY <1>10, <2>3, ChainElsewhere
  <2>5. Elems(d) \subseteq live' \ {Dummy}
    BY <1>2, <1>10, <1>13 DEF ListIs
  <2>6. back' \in live' \ (Elems(d) \cup {Dummy}) /\ next'[back'] = NULL
    BY <1>6, <1>10, <1>12, <1>13
  <2>7. ListIs(d)'
    BY <2>4, <2>5, <2>6 DEF ListIs
  <2> QED
    BY <1>1, <1>6, <1>10, <1>13, <2>7, NewList
<1> QED
  BY <1>14, <1>15

\* Eviction takes the first node, and never the last one.
LEMMA EvictStep ==
  ASSUME IInv, NEW t \in Thread, Evict(t)
  PROVE  /\ ListIs(Path)'
         /\ Elems(Path') \subseteq Elems(Path)
         /\ next[Dummy] \in live \ {Dummy, back}
<1> USE NodeAssumption
<1>1. PICK c, n, d : c = Path /\ n = next[Dummy] /\ d = Tail(c)
  OBVIOUS
<1>2. ListIs(c) /\ IsChain(c, next, Node, Dummy, NULL) /\ next \in [Node -> Node \cup {NULL}]
  BY <1>1 DEF ListIs, IInv, TypeOK
<1>3. n # NULL /\ next' = [next EXCEPT ![Dummy] = next[n], ![n] = NULL]
  BY <1>1 DEF Evict
<1>4. /\ c # <<>> /\ n = c[1]
      /\ IsChain(d, next', Node, Dummy, NULL)
      /\ Elems(d) = Elems(c) \ {c[1]}
      /\ LastOf(d, Dummy) = IF c[1] = LastOf(c, Dummy) THEN Dummy ELSE LastOf(c, Dummy)
  <2>1. \A x \in Node : next'[x] = IF x = next[Dummy] THEN NULL
                                   ELSE IF x = Dummy THEN next[next[Dummy]] ELSE next[x]
    BY <1>1, <1>2, <1>3
  <2>2. next[Dummy] # NULL
    BY <1>1, <1>3
  <2> QED
    BY <1>1, <1>2, <2>1, <2>2, ChainTail
<1>5. DOMAIN c = 1..Len(c) /\ Len(c) \in Nat \ {0}
  <2>1. DOMAIN c = 1..Len(c) /\ Len(c) \in Nat
    BY <1>2, ChainCounts
  <2>2. Len(c) # 0
    BY <1>2, <1>4 DEF IsChain
  <2> QED
    BY <2>1, <2>2
<1>6. n \in Elems(c) /\ n \in live \ {Dummy}
  BY <1>2, <1>4, <1>5 DEF ListIs, Elems
<1>7. n # back
  <2> SUFFICES ASSUME n = back PROVE FALSE
    OBVIOUS
  <2>1. Elems(c) = live \ {Dummy} /\ back = c[Len(c)]
    BY <1>2, <1>4, <1>6 DEF ListIs, LastOf
  <2>2. Len(c) = 1
    <3>1. c[1] = c[Len(c)]
      BY <1>4, <2>1
    <3>2. 1 \in DOMAIN c /\ Len(c) \in DOMAIN c
      BY <1>5
    <3> QED
      BY <1>2, <3>1, <3>2 DEF IsChain, IsWalk
  <2>3. Elems(c) = {n}
    BY <1>4, <1>5, <2>2 DEF Elems
  <2>4. live \ {n} = {Dummy}
    BY <1>6, <2>1, <2>3 DEF IInv, Counted
  <2>5. IsFiniteSet(live) /\ len[n] \in Int /\ len[Dummy] = 0
        /\ \A x \in live : len[x] \in Int
    BY <1>6, SizesType DEF IInv, Counted
  <2>6. SumOver(len, live) = len[n] + SumOver(len, live \ {n})
    BY <1>6, <2>5, SumRemove
  <2>7. SumOver(len, {Dummy}) = 0
    <3>1. IsFiniteSet({Dummy}) /\ \A x \in {Dummy} : len[x] \in Int
      <4>1. IsFiniteSet({Dummy})
        BY FS_Singleton
      <4> QED
        BY <2>5, <4>1
    <3>2. SumOver(len, {Dummy}) = len[Dummy] + SumOver(len, {Dummy} \ {Dummy})
      BY <3>1, SumRemove
    <3>3. {Dummy} \ {Dummy} = {}
      OBVIOUS
    <3>4. SumOver(len, {}) = 0
      BY SumEmpty
    <3> QED
      BY <2>5, <3>2, <3>3, <3>4
  <2>8. size = len[n]
    <3>1. size = len[n] + SumOver(len, {Dummy})
      BY <2>4, <2>6 DEF IInv, Counted
    <3> QED
      BY <2>5, <2>7, <3>1
  <2>9. len[n] \in Size \cup {0} /\ got[t] \in Size
    BY <1>6 DEF IInv, TypeOK, Served, Evict, Goto
  <2>10. len[n] + got[t] <= MaxSize /\ got[t] \in Nat /\ len[n] \in Nat /\ MaxSize \in Nat
    <3>1. Size \subseteq Nat /\ MaxSize \in Nat
      BY ProxySizeAssumption
    <3>2. CASE len[n] \in Size
      BY <2>9, <3>1, <3>2, ProxySizeAssumption
    <3>3. CASE len[n] = 0
      <4>1. got[t] + got[t] <= MaxSize /\ got[t] \in Nat
        BY <2>9, <3>1, ProxySizeAssumption
      <4> QED
        BY <3>1, <3>3, <4>1
    <3> QED
      BY <2>9, <3>2, <3>3
  <2> QED
    BY <2>8, <2>10 DEF Evict, TooFull
<1>8. live' = live \ {n} /\ back' = back
  BY <1>1 DEF Evict
<1>9. Elems(d) \subseteq live' \ {Dummy}
  BY <1>2, <1>4, <1>8 DEF ListIs
<1>10. \/ Elems(d) = live' \ {Dummy} /\ back' = LastOf(d, Dummy)
       \/ back' \in live' \ (Elems(d) \cup {Dummy}) /\ next'[back'] = NULL
  <2>1. CASE Elems(c) = live \ {Dummy} /\ back = LastOf(c, Dummy)
    BY <1>4, <1>7, <1>8, <2>1
  <2>2. CASE back \in live \ (Elems(c) \cup {Dummy}) /\ next[back] = NULL
    <3>1. back \in Node /\ back # Dummy
      BY <2>2 DEF IInv, TypeOK
    <3>2. next'[back] = NULL
      BY <1>2, <1>3, <1>7, <2>2, <3>1
    <3> QED
      BY <1>4, <1>7, <1>8, <2>2, <3>2
  <2> QED
    BY <1>2, <2>1, <2>2 DEF ListIs
<1>11. ListIs(d)'
  BY <1>4, <1>9, <1>10 DEF ListIs
<1>12. Path' = d /\ ListIs(Path)'
  BY <1>11, NewList
<1> QED
  BY <1>1, <1>4, <1>6, <1>7, <1>12

\* An addition is linked where it will be found, or hangs behind the end that
\* was lost.
LEMMA InsertStep ==
  ASSUME IInv, NEW t \in Thread, NEW n \in Node \ live, live' = live \cup {n},
         next' = LinkedLast(n), back' = n
  PROVE  /\ ListIs(Path)'
         /\ Elems(Path) \subseteq Elems(Path')
         /\ back \notin Elems(Path) /\ back # Dummy => Path' = Path
<1> USE NodeAssumption
<1>1. PICK c : c = Path
  OBVIOUS
<1>2. ListIs(c) /\ IsChain(c, next, Node, Dummy, NULL) /\ next \in [Node -> Node \cup {NULL}]
  BY <1>1 DEF ListIs, IInv, TypeOK
<1>3. Dummy \in live /\ n \in Node \ {Dummy} /\ n \notin Elems(c) /\ back \in Node
  BY <1>2 DEF ListIs, IInv, Counted, TypeOK
<1>4. back \in live
  <2>1. c # <<>> => Len(c) \in DOMAIN c
    BY <1>2, ChainCounts DEF IsChain
  <2> QED
    BY <1>2, <1>3, <2>1 DEF ListIs, LastOf, Elems
<1>5. \A y \in Node :
        next'[y] = IF y = back THEN n ELSE IF y = n THEN NULL ELSE next[y]
  BY <1>2, <1>3, <1>4 DEF LinkedLast
<1>6. CASE Elems(c) = live \ {Dummy} /\ back = LastOf(c, Dummy)
  <2>1. PICK d : d = Append(c, n)
    OBVIOUS
  <2>2. /\ IsChain(d, next', Node, Dummy, NULL)
        /\ Elems(d) = Elems(c) \cup {n} /\ LastOf(d, Dummy) = n
    BY <1>2, <1>3, <1>5, <1>6, <2>1, ChainAppend
  <2>3. Elems(d) = live' \ {Dummy}
    BY <1>3, <1>6, <2>2
  <2>4. ListIs(d)'
    BY <2>2, <2>3 DEF ListIs
  <2>5. Path' = d /\ ListIs(Path)'
    BY <2>4, NewList
  <2>6. back \in Elems(c) \/ back = Dummy
    BY <1>4, <1>6
  <2> QED
    BY <1>1, <2>2, <2>5, <2>6
<1>7. CASE back \in live \ (Elems(c) \cup {Dummy}) /\ next[back] = NULL
  <2>1. \A y \in Elems(c) \cup {Dummy} : y \in Node /\ y # back /\ y # n
    BY <1>2, <1>3, <1>7, ChainCounts
  <2>2. IsChain(c, next', Node, Dummy, NULL)
    <3>1. \A y \in Elems(c) \cup {Dummy} : next'[y] = next[y]
      BY <1>5, <2>1
    <3> QED
      BY <1>2, <3>1, ChainElsewhere
  <2>3. back' \in live' \ (Elems(c) \cup {Dummy}) /\ next'[back'] = NULL
    BY <1>3, <1>4, <1>5
  <2>4. Elems(c) \subseteq live' \ {Dummy}
    BY <1>2 DEF ListIs
  <2>5. ListIs(c)'
    BY <2>2, <2>3, <2>4 DEF ListIs
  <2>6. Path' = c /\ ListIs(Path)'
    BY <2>5, NewList
  <2> QED
    BY <1>1, <2>6
<1> QED
  BY <1>2, <1>6, <1>7 DEF ListIs

-----------------------------------------------------------------------------
Step(t) == Parse(t) \/ Handle(t) \/ HostFails(t) \/ ClientFails(t)

\* Only three steps write to the list.
LEMMA ListWriters ==
  ASSUME NEW t \in Thread, Step(t)
  PROVE  UNCHANGED list \/ Splice(t) \/ Evict(t) \/ Insert(t)
BY DEF Step, Handle, SearchCache, AddToCache, Parse, StartSearch, WalkOn, Found,
       NotFound, ServeHit, HitLock, HitUnlockRead, PromoteLock, Resolve, Forward,
       HostFails, ClientFails, AddLock, AddWriteLock, EvictNothing, Release,
       Cleanup, list

\* A thread writes to no local variable of another one.
LEMMA OthersUntouched ==
  ASSUME TypeOK, NEW t \in Thread, Step(t), NEW u \in Thread, u # t
  PROVE  /\ pc'[u] = pc[u] /\ req'[u] = req[u] /\ got'[u] = got[u]
         /\ cur'[u] = cur[u] /\ prev'[u] = prev[u] /\ sent'[u] = sent[u]
BY DEF TypeOK, Goto, locals, Step, Handle, SearchCache, AddToCache, Parse,
       StartSearch, WalkOn, Found, NotFound, ServeHit, HitLock, HitUnlockRead,
       PromoteLock, Splice, Resolve, Forward, HostFails, ClientFails, AddLock,
       AddWriteLock, Evict, EvictNothing, Insert, Release, Cleanup

\* A thread that has the write lock and the mutex keeps all others off the list.
LEMMA WriterAlone ==
  ASSUME TypeOK, LockDiscipline,
         NEW t \in Thread, pc[t] \in {"splice", "evict"},
         NEW u \in Thread, u # t
  PROVE  pc[u] \notin Holding \cup {"walk"}
BY ProxyThreadAssumption DEF TypeOK, LockDiscipline, MutexHolding, Reading, Holding

-----------------------------------------------------------------------------
\* Every step leaves the list whole or cut as ListIs says.
LEMMA StepList ==
  ASSUME IInv, NEW t \in Thread, Step(t)
  PROVE  ListIs(Path)'
<1>1. CASE UNCHANGED list
  BY <1>1, SameList DEF IInv
<1>2. CASE Splice(t)
  BY <1>2, SpliceStep
<1>3. CASE Evict(t)
  BY <1>3, EvictStep
<1>4. CASE Insert(t)
  <2>1. PICK n \in Node \ live : live' = live \cup {n} /\ next' = LinkedLast(n) /\ back' = n
    BY <1>4 DEF Insert
  <2> QED
    BY <2>1, InsertStep
<1> QED
  BY <1>1, <1>2, <1>3, <1>4, ListWriters

\* Every step keeps cache->size the sum of all allocated nodes.
LEMMA StepCounted ==
  ASSUME IInv, NEW t \in Thread, Step(t)
  PROVE  Counted' /\ size' \in 0..MaxSize
<1>1. /\ IsFiniteSet(live) /\ live \subseteq Node
      /\ \A n \in live : len[n] \in Nat /\ len[n] \in Int
  BY SizesType DEF IInv
<1>2. /\ Dummy \in live /\ len[Dummy] = 0 /\ size = SumOver(len, live)
      /\ size \in 0..MaxSize /\ MaxSize \in Nat /\ len \in [Node -> Size \cup {0}]
  BY ProxySizeAssumption DEF IInv, Counted, TypeOK
<1>3. CASE UNCHANGED <<live, len, size>>
  BY <1>2, <1>3 DEF Counted
<1>4. CASE Evict(t)
  <2>1. PICK n \in live : n = next[Dummy] /\ n # Dummy
    BY <1>4, EvictStep
  <2>2. /\ live' = live \ {n} /\ size' = size - len[n]
        /\ len' = [len EXCEPT ![n] = 0]
    BY <1>4, <2>1 DEF Evict, SizeWithout
  <2>3. \A m \in live \ {n} : len'[m] = len[m] /\ len[m] \in Int /\ len[m] \in Nat
    BY <1>1, <1>2, <2>2
  <2>4. SumOver(len, live) = len[n] + SumOver(len, live \ {n})
    BY <1>1, SumRemove
  <2>5. IsFiniteSet(live \ {n})
    BY <1>1, FS_RemoveElement
  <2>6. SumOver(len', live \ {n}) = SumOver(len, live \ {n})
    BY <2>3, <2>5, SumSame
  <2>7. SumOver(len, live \ {n}) \in Nat
    BY <2>3, <2>5, SumNat
  <2>8. PICK q, s : q = SumOver(len, live \ {n}) /\ s = len[n]
    OBVIOUS
  <2>9. q \in Nat /\ s \in Nat /\ size = s + q
    BY <1>1, <1>2, <2>4, <2>7, <2>8
  <2>10. size' = q /\ size' \in 0..MaxSize
    BY <1>2, <2>2, <2>8, <2>9
  <2>11. len'[Dummy] = 0 /\ Dummy \in live'
    BY <1>2, <2>1, <2>2, NodeAssumption
  <2> QED
    BY <2>2, <2>6, <2>8, <2>10, <2>11 DEF Counted
<1>5. CASE Insert(t)
  <2>1. PICK n \in Node \ live :
          live' = live \cup {n} /\ len' = [len EXCEPT ![n] = got[t]]
    BY <1>5 DEF Insert
  <2>2. size' = size + got[t] /\ ~(MaxSize - size < got[t]) /\ got[t] \in Size
    BY <1>5 DEF Insert, TooFull, Goto, IInv, Served
  <2>3. got[t] \in Nat
    BY <2>2, ProxySizeAssumption
  <2>4. \A m \in live : len'[m] = len[m] /\ len'[m] \in Int
    BY <1>1, <1>2, <2>1
  <2>5. len'[n] = got[t] /\ len'[n] \in Int
    BY <1>2, <2>1, <2>3
  <2>6. SumOver(len', live) = SumOver(len, live)
    BY <1>1, <2>4, SumSame
  <2>7. SumOver(len', live \cup {n}) = SumOver(len', live) + len'[n]
    <3>1. n \notin live /\ IsFiniteSet(live)
      BY <1>1
    <3>2. (\A m \in live : len'[m] \in Int) /\ len'[n] \in Int
      BY <2>4, <2>5
    <3> QED
      BY <3>1, <3>2, SumAdd
  <2>8. size' = SumOver(len', live')
    BY <1>2, <2>1, <2>2, <2>5, <2>6, <2>7
  <2>9. size' \in 0..MaxSize
    BY <1>2, <2>2, <2>3
  <2>10. len'[Dummy] = 0 /\ Dummy \in live'
    BY <1>2, <2>1, NodeAssumption
  <2> QED
    BY <2>8, <2>9, <2>10 DEF Counted
<1> QED
  BY <1>3, <1>4, <1>5, ListWriters DEF list, Splice

-----------------------------------------------------------------------------
\* Every step keeps who holds which lock where.
LEMMA StepLockDiscipline ==
  ASSUME IInv, NEW t \in Thread, Step(t)
  PROVE  LockDiscipline'
<1> USE ProxyThreadAssumption DEF LockDiscipline, MutexHolding, Reading, Goto
<1> /\ LockDiscipline
    /\ pc \in [Thread -> Location]
    /\ readers \subseteq Thread
    /\ writer \in Thread \cup {NULL}
  BY DEF IInv, TypeOK
<1>1. CASE Parse(t)
  BY <1>1 DEF Parse, rwlock
<1>2. CASE StartSearch(t)
  BY <1>2 DEF StartSearch, read_lock
<1>3. CASE WalkOn(t)
  BY <1>3 DEF WalkOn, rwlock
<1>4. CASE Found(t)
  BY <1>4 DEF Found, rwlock
<1>5. CASE NotFound(t)
  BY <1>5 DEF NotFound, unlock
<1>6. CASE ServeHit(t)
  BY <1>6 DEF ServeHit, rwlock
<1>7. CASE HitLock(t)
  BY <1>7 DEF HitLock, mutex_lock, rwlock
<1>8. CASE HitUnlockRead(t)
  BY <1>8 DEF HitUnlockRead, unlock
<1>9. CASE PromoteLock(t)
  BY <1>9 DEF PromoteLock, write_lock
<1>10. CASE Splice(t)
  BY <1>10 DEF Splice, unlock
<1>11. CASE Resolve(t)
  BY <1>11 DEF Resolve, rwlock
<1>12. CASE Forward(t)
  BY <1>12 DEF Forward, rwlock
<1>13. CASE HostFails(t) \/ ClientFails(t) \/ EvictNothing(t)
  BY <1>13 DEF HostFails, ClientFails, EvictNothing, rwlock
<1>14. CASE AddLock(t)
  BY <1>14 DEF AddLock, mutex_lock, rwlock
<1>15. CASE AddWriteLock(t)
  BY <1>15 DEF AddWriteLock, write_lock
<1>16. CASE Evict(t)
  BY <1>16 DEF Evict, rwlock
<1>17. CASE Insert(t)
  BY <1>17 DEF Insert, unlock
<1>18. CASE Release(t)
  BY <1>18 DEF Release, mutex_unlock, rwlock
<1>19. CASE Cleanup(t)
  BY <1>19 DEF Cleanup, rwlock
<1> QED
  BY <1>1, <1>2, <1>3, <1>4, <1>5, <1>6, <1>7, <1>8, <1>9, <1>10, <1>11,
     <1>12, <1>13, <1>14, <1>15, <1>16, <1>17, <1>18, <1>19
  DEF Step, Handle, SearchCache, AddToCache

\* Every step keeps the types.
LEMMA StepTypeOK ==
  ASSUME IInv, NEW t \in Thread, Step(t)
  PROVE  TypeOK'
<1> size' \in 0..MaxSize
  BY StepCounted
<1> USE NodeAssumption, ProxyThreadAssumption DEF TypeOK, Goto, Location
<1> TypeOK
  BY DEF IInv
<1>1. CASE Parse(t)
  BY <1>1 DEF Parse, rwlock, list
<1>2. CASE StartSearch(t)
  BY <1>2 DEF StartSearch, read_lock, list
<1>3. CASE WalkOn(t)
  BY <1>3 DEF WalkOn, rwlock, list
<1>4. CASE Found(t)
  BY <1>4 DEF Found, locals, rwlock, list
<1>5. CASE NotFound(t)
  BY <1>5 DEF NotFound, unlock, list
<1>6. CASE ServeHit(t)
  <2>1. cur[t] \in Node
    BY <1>6, OnList DEF ServeHit, Holding, IInv, Walks
  <2> QED
    BY <1>6, <2>1 DEF ServeHit, rwlock, list
<1>7. CASE HitLock(t)
  BY <1>7 DEF HitLock, mutex_lock, locals, rwlock, list
<1>8. CASE HitUnlockRead(t)
  BY <1>8 DEF HitUnlockRead, unlock, locals, list
<1>9. CASE PromoteLock(t)
  BY <1>9 DEF PromoteLock, write_lock, locals, list
<1>10. CASE Splice(t)
  <2>1. cur[t] \in Node
    BY <1>10 DEF Splice, Holding, IInv, Walks
  <2> QED
    BY <1>10, <2>1 DEF Splice, Moved, unlock, locals
<1>11. CASE Resolve(t)
  <2>1. req[t] \in Request
    BY <1>11 DEF Resolve, IInv, Served
  <2> QED
    BY <1>11, <2>1 DEF Resolve, Host, locals, rwlock, list
<1>12. CASE Forward(t)
  <2>1. req[t] \in Request /\ hostent \in Host
    BY <1>12 DEF Forward, IInv, Served
  <2>2. [at |-> hostent, to |-> req[t]] \in Response
    BY <2>1 DEF Response
  <2> QED
    BY <1>12, <2>2 DEF Forward, rwlock, list
<1>13. CASE HostFails(t) \/ ClientFails(t) \/ EvictNothing(t)
  BY <1>13 DEF HostFails, ClientFails, EvictNothing, locals, rwlock, list
<1>14. CASE AddLock(t)
  BY <1>14 DEF AddLock, mutex_lock, locals, rwlock, list
<1>15. CASE AddWriteLock(t)
  BY <1>15 DEF AddWriteLock, write_lock, locals, list
<1>16. CASE Evict(t)
  <2>1. next[Dummy] \in Node
    BY <1>16 DEF Evict
  <2> QED
    BY <1>16, <2>1 DEF Evict, locals, rwlock
<1>17. CASE Insert(t)
  <2>1. req[t] \in Request
    BY <1>17 DEF Insert, IInv, Served
  <2> QED
    BY <1>17, <2>1 DEF Insert, LinkedLast, unlock, locals
<1>18. CASE Release(t)
  BY <1>18 DEF Release, mutex_unlock, locals, rwlock, list
<1>19. CASE Cleanup(t)
  BY <1>19 DEF Cleanup, rwlock, list
<1> QED
  BY <1>1, <1>2, <1>3, <1>4, <1>5, <1>6, <1>7, <1>8, <1>9, <1>10, <1>11,
     <1>12, <1>13, <1>14, <1>15, <1>16, <1>17, <1>18, <1>19
  DEF Step, Handle, SearchCache, AddToCache

-----------------------------------------------------------------------------
\* Every step keeps what the locals of a request hold.
LEMMA StepServed ==
  ASSUME IInv, NEW t \in Thread, Step(t)
  PROVE  Served'
<1> SUFFICES ASSUME NEW u \in Thread
             PROVE  Served!(u)'
  BY DEF Served
<1> TypeOK /\ Served
  BY DEF IInv
<1>1. hostent' = hostent \/ hostent' \in Host
  <2>1. CASE Resolve(t)
    BY <2>1 DEF Resolve, Goto, Served, Host
  <2>2. CASE ~Resolve(t)
    BY <2>2 DEF Step, Handle, SearchCache, AddToCache, Parse, StartSearch, WalkOn,
       Found, NotFound, ServeHit, HitLock, HitUnlockRead, PromoteLock, Splice,
       Forward, HostFails, ClientFails, AddLock, AddWriteLock, Evict,
       EvictNothing, Insert, Release, Cleanup
  <2> QED
    BY <2>1, <2>2
<1>2. CASE u # t
  BY <1>1, <1>2, OthersUntouched DEF Served
<1>3. CASE u = t
  <2> USE <1>3 DEF Served, Goto, TypeOK, locals
  <2>1. CASE Parse(t)
    BY <2>1 DEF Parse
  <2>2. CASE Resolve(t)
    BY <2>2 DEF Resolve, Host
  <2>3. CASE Forward(t)
    <3>1. [at |-> hostent, to |-> req[t]].to = req[t]
      OBVIOUS
    <3> QED
      BY <2>3, <3>1 DEF Forward
  <2>4. CASE AddLock(t) \/ AddWriteLock(t) \/ Evict(t)
    BY <2>4 DEF AddLock, AddWriteLock, Evict
  <2>5. CASE Cleanup(t)
    BY <2>5 DEF Cleanup
  <2>6. CASE HostFails(t) \/ ClientFails(t) \/ EvictNothing(t)
    BY <2>6 DEF HostFails, ClientFails, EvictNothing
  <2>7. CASE StartSearch(t) \/ WalkOn(t) \/ Found(t) \/ NotFound(t) \/ ServeHit(t)
             \/ HitLock(t) \/ HitUnlockRead(t) \/ PromoteLock(t) \/ Splice(t)
             \/ Insert(t) \/ Release(t)
    BY <2>7 DEF StartSearch, WalkOn, Found, NotFound, ServeHit, HitLock,
       HitUnlockRead, PromoteLock, Splice, Insert, Release
  <2> QED
    BY <2>1, <2>2, <2>3, <2>4, <2>5, <2>6, <2>7
    DEF Step, Handle, SearchCache, AddToCache
<1> QED
  BY <1>2, <1>3

\* Every step keeps the object under the key it was asked for.
LEMMA StepSentSame ==
  ASSUME IInv, NEW t \in Thread, Step(t)
  PROVE  SentSameObject'
<1> TypeOK /\ Served /\ SentSameObject
  BY DEF IInv
<1>1. \A u \in Thread \ {t} :
        sent'[u] = sent[u] /\ req'[u] = req[u] /\ pc'[u] = pc[u] /\ cur'[u] = cur[u]
  BY OthersUntouched
<1>2. sent'[t] # NULL => Key(sent'[t].to) = Key(req'[t])
  <2> USE DEF Served, Goto, TypeOK, locals, SentSameObject
  <2>1. CASE Parse(t)
    BY <2>1 DEF Parse
  <2>2. CASE ServeHit(t)
    <3>1. cur[t] \in live \ {Dummy}
      <4>1. pc[t] \in Holding \cup {"walk"} /\ cur[t] # NULL
        BY <2>2 DEF ServeHit, Holding, IInv, Walks
      <4>2. PICK k \in DOMAIN Path : cur[t] = Path[k]
        BY <4>1, OnList
      <4> QED
        BY <4>2 DEF IInv, ListIs, Elems
    <3>2. key[cur[t]] = Key(req[t])
      BY <2>2 DEF ServeHit, Holding, IInv, Walks
    <3>3. Key(data[cur[t]].to) = Key(req[t])
      BY <3>1, <3>2
    <3> QED
      BY <2>2, <3>3 DEF ServeHit
  <2>3. CASE Forward(t)
    <3>1. [at |-> hostent, to |-> req[t]].to = req[t]
      OBVIOUS
    <3> QED
      BY <2>3, <3>1 DEF Forward
  <2>4. CASE Cleanup(t)
    BY <2>4 DEF Cleanup
  <2>5. CASE sent'[t] = sent[t] /\ req'[t] = req[t]
    BY <2>5
  <2> QED
    BY <2>1, <2>2, <2>3, <2>4, <2>5
    DEF Step, Handle, SearchCache, AddToCache, StartSearch, WalkOn, Found, NotFound,
        HitLock, HitUnlockRead, PromoteLock, Splice, Resolve, HostFails, ClientFails,
        AddLock, AddWriteLock, Evict, EvictNothing, Insert, Release
<1>3. \A n \in live' \ {Dummy} : Key(data'[n].to) = key'[n]
  <2> USE DEF SentSameObject, TypeOK
  <2>1. CASE UNCHANGED list \/ Splice(t)
    BY <2>1 DEF list, Splice
  <2>2. CASE Evict(t)
    BY <2>2 DEF Evict
  <2>3. CASE Insert(t)
    <3>1. PICK n \in Node \ live :
            /\ live' = live \cup {n}
            /\ key' = [key EXCEPT ![n] = Key(req[t])]
            /\ data' = [data EXCEPT ![n] = sent[t]]
      BY <2>3 DEF Insert
    <3>2. Key(sent[t].to) = Key(req[t])
      BY <2>3 DEF Insert, Goto, Served
    <3>3. data'[n] = sent[t] /\ key'[n] = Key(req[t])
      BY <3>1
    <3>4. \A m \in live : data'[m] = data[m] /\ key'[m] = key[m]
      BY <3>1
    <3> QED
      BY <3>1, <3>2, <3>3, <3>4
  <2> QED
    BY <2>1, <2>2, <2>3, ListWriters
<1>4. ASSUME NEW u \in Thread, pc'[u] \in {"hit", "hitmutex", "promote", "splice"}
      PROVE  sent'[u] = data'[cur'[u]]
  <2>1. CASE u # t
    <3>1. /\ pc[u] \in {"hit", "hitmutex", "promote", "splice"}
          /\ sent'[u] = data[cur[u]] /\ cur'[u] = cur[u]
      BY <1>1, <1>4, <2>1 DEF SentSameObject
    <3>2. CASE UNCHANGED data
      BY <3>1, <3>2
    <3>3. CASE pc[t] \in {"splice", "evict"}
      BY <2>1, <3>1, <3>3, WriterAlone DEF IInv, Holding
    <3> QED
      BY <3>2, <3>3, ListWriters DEF list, Splice, Evict, Insert, Goto
  <2>2. CASE u = t
    <3> USE <1>4, <2>2 DEF TypeOK, Goto, locals, list, SentSameObject
    <3>1. CASE ServeHit(t)
      BY <3>1 DEF ServeHit
    <3>2. CASE HitLock(t) \/ HitUnlockRead(t) \/ PromoteLock(t)
      BY <3>2 DEF HitLock, HitUnlockRead, PromoteLock
    <3>3. CASE HostFails(t) \/ ClientFails(t) \/ EvictNothing(t)
      BY <3>3 DEF HostFails, ClientFails, EvictNothing
    <3>4. CASE pc'[t] \notin {"hit", "hitmutex", "promote", "splice"}
      BY <3>4
    <3> QED
      BY <3>1, <3>2, <3>3, <3>4
      DEF Step, Handle, SearchCache, AddToCache, Parse, StartSearch, WalkOn, Found,
          NotFound, Splice, Resolve, Forward, AddLock, AddWriteLock, Evict, Insert,
          Release, Cleanup
  <2> QED
    BY <2>1, <2>2
<1> QED
  BY <1>1, <1>2, <1>3, <1>4 DEF SentSameObject

\* Every step keeps all threads' walks on the list: who writes to it is alone.
LEMMA StepWalks ==
  ASSUME IInv, NEW t \in Thread, Step(t)
  PROVE  Walks(Path)'
<1>1. PICK c, d : c = Path /\ d = Path'
  OBVIOUS
<1> SUFFICES ASSUME NEW u \in Thread
             PROVE  /\ pc'[u] \in Holding \cup {"walk"} =>
                         prev'[u] \in Elems(d) \cup {Dummy} /\ next'[prev'[u]] = cur'[u]
                    /\ pc'[u] \in Holding => cur'[u] # NULL /\ key'[cur'[u]] = Key(req'[u])
  BY <1>1 DEF Walks
<1>2. TypeOK /\ LockDiscipline /\ Walks(c)
  BY <1>1 DEF IInv
<1>3. CASE u # t
  <2>1. /\ pc'[u] = pc[u] /\ req'[u] = req[u]
        /\ cur'[u] = cur[u] /\ prev'[u] = prev[u]
    BY <1>2, <1>3, OthersUntouched
  <2>2. CASE UNCHANGED list
    <3>1. d = c
      BY <1>1, <2>2, SameList DEF IInv
    <3> QED
      BY <1>2, <2>1, <2>2, <3>1 DEF Walks, list
  <2>3. CASE pc[t] \in {"splice", "evict"}
    <3>1. pc[u] \notin Holding \cup {"walk"}
      BY <1>2, <1>3, <2>3, WriterAlone
    <3> QED
      BY <2>1, <3>1
  <2> QED
    BY <2>2, <2>3, ListWriters DEF Splice, Evict, Insert, Goto
<1>4. CASE u = t
  <2>1. ASSUME UNCHANGED list PROVE d = c /\ next' = next /\ key' = key
    BY <1>1, <2>1, SameList DEF IInv, list
  <2> USE <1>2, <1>4 DEF Goto, TypeOK, Holding, Walks
  <2>2. CASE StartSearch(t)
    BY <2>1, <2>2, NodeAssumption DEF StartSearch
  <2>3. CASE WalkOn(t)
    <3>1. cur[t] \in Elems(c) /\ cur[t] \in Node
      <4>1. \E k \in DOMAIN Path : cur[t] = Path[k]
        BY <2>3, OnList DEF WalkOn
      <4> QED
        BY <1>1, <2>3, <4>1 DEF Elems, WalkOn
    <3> QED
      BY <2>1, <2>3, <3>1 DEF WalkOn
  <2>4. CASE Found(t)
    BY <2>1, <2>4 DEF Found, locals
  <2>5. CASE ServeHit(t)
    BY <2>1, <2>5 DEF ServeHit
  <2>6. CASE HitLock(t) \/ HitUnlockRead(t) \/ PromoteLock(t)
    BY <2>1, <2>6 DEF HitLock, HitUnlockRead, PromoteLock, locals
  <2>7. CASE HostFails(t) \/ ClientFails(t) \/ EvictNothing(t)
    BY <2>1, <2>7 DEF HostFails, ClientFails, EvictNothing, locals
  <2>8. CASE pc'[t] \notin Holding \cup {"walk"}
    BY <2>8
  <2> QED
    BY <2>2, <2>3, <2>4, <2>5, <2>6, <2>7, <2>8
    DEF Step, Handle, SearchCache, AddToCache, Parse, NotFound, Splice, Resolve,
        Forward, AddLock, AddWriteLock, Evict, Insert, Release, Cleanup
<1> QED
  BY <1>3, <1>4

-----------------------------------------------------------------------------
\* main establishes the invariant.
LEMMA InitInvariant == Init => IInv
<1> SUFFICES ASSUME Init PROVE IInv
  OBVIOUS
<1>1. TypeOK
  BY NodeAssumption, ProxySizeAssumption DEF Init, TypeOK, Location
<1>2. LockDiscipline /\ Served /\ SentSameObject
  BY ProxyThreadAssumption
     DEF Init, LockDiscipline, Served, SentSameObject, MutexHolding, Reading
<1>3. Path = <<>> /\ IsChain(Path, next, Node, Dummy, NULL)
  <2>1. IsChain(<<>>, next, Node, Dummy, NULL)
    BY NodeAssumption DEF Init, IsChain, IsWalk
  <2> QED
    BY <2>1, PathIs
<1>4. ListIs(Path)
  BY <1>3 DEF ListIs, Elems, LastOf, Init
<1>5. Walks(Path)
  BY DEF Init, Walks, Holding
<1>6. Counted
  <2>1. len[Dummy] = 0 /\ IsFiniteSet({Dummy}) /\ live = {Dummy} /\ size = 0
    BY NodeAssumption, FS_Singleton DEF Init
  <2>2. \A x \in {Dummy} : len[x] \in Int
    BY <2>1
  <2>3. SumOver(len, {Dummy}) = len[Dummy] + SumOver(len, {Dummy} \ {Dummy})
    BY <2>1, <2>2, SumRemove
  <2>4. {Dummy} \ {Dummy} = {} /\ SumOver(len, {}) = 0
    BY SumEmpty
  <2> QED
    BY <2>1, <2>3, <2>4 DEF Counted
<1> QED
  BY <1>1, <1>2, <1>4, <1>5, <1>6 DEF IInv

\* Every step is a step of one thread.
LEMMA NextStep == Next => \E t \in Thread : Step(t)
BY DEF Next, Step

\* The invariant on which the theorems below rest: the list is in one of its
\* two states, and the walks of all threads are on it.
THEOREM ProxyInvariant == Spec => []IInv
<1>1. IInv /\ UNCHANGED vars => IInv'
  <2> SUFFICES ASSUME IInv, UNCHANGED vars PROVE IInv'
    OBVIOUS
  <2>1. Path' = Path /\ ListIs(Path)'
    BY SameList DEF IInv, vars
  <2>2. TypeOK' /\ LockDiscipline' /\ Served' /\ SentSameObject' /\ Counted'
    <3> USE DEF vars, locals, list, rwlock
    <3>1. TypeOK'
      BY DEF IInv, TypeOK
    <3>2. LockDiscipline' /\ Served' /\ SentSameObject' /\ Counted'
      BY DEF IInv, LockDiscipline, Served, SentSameObject, Counted
    <3> QED
      BY <3>1, <3>2
  <2>3. Walks(Path)'
    BY <2>1 DEF IInv, Walks, vars, locals, list
  <2> QED
    BY <2>1, <2>2, <2>3 DEF IInv
<1>2. IInv /\ Next => IInv'
  BY NextStep, StepTypeOK, StepLockDiscipline, StepServed, StepSentSame, StepList,
     StepWalks, StepCounted DEF IInv
<1> QED
  BY <1>1, <1>2, InitInvariant, PTL DEF Spec

\* Every variable of proxy.c's cache keeps its type; that of cache->size says
\* that the limit of the cache is never exceeded (proxy.c:455).
THEOREM ProxyTypeCorrect == Spec => []TypeOK
BY ProxyInvariant, PTL DEF IInv

\* cache->back, which eviction never looks at (proxy.c:455-460), always points
\* to an allocated node with nothing behind it: whatever the sizes are,
\* eviction stops before it reaches the only node that is left.
THEOREM BackStaysValid == Spec => []BackValid
<1>1. IInv => BackValid
  <2> SUFFICES ASSUME IInv PROVE BackValid
    OBVIOUS
  <2>1. PICK c : c = Path
    OBVIOUS
  <2>2. ListIs(c) /\ IsChain(c, next, Node, Dummy, NULL)
    BY <2>1 DEF IInv, ListIs
  <2>3. CASE Elems(c) = live \ {Dummy} /\ back = LastOf(c, Dummy)
    <3>1. CASE c = <<>>
      <4>1. back = Dummy /\ next[Dummy] = NULL
        BY <2>2, <2>3, <3>1, ChainCounts DEF LastOf
      <4> QED
        BY <4>1 DEF IInv, Counted, BackValid
    <3>2. CASE c # <<>>
      <4>1. PICK n \in Nat :
              /\ c \in [1..n -> Node \ {Dummy}]
              /\ next[Dummy] = IF n = 0 THEN NULL ELSE c[1]
              /\ \A i \in 1..n :
                   c[i] # NULL /\ next[c[i]] = IF i = n THEN NULL ELSE c[i+1]
        BY <2>2, ChainPlaces
      <4>2. Len(c) \in DOMAIN c /\ DOMAIN c = 1..Len(c) /\ Len(c) \in Nat
        BY <2>2, <3>2, ChainCounts DEF IsChain
      <4>3. n = Len(c) /\ n \in 1..n
        BY <4>1, <4>2
      <4>4. back = c[n] /\ back \in live /\ next[back] = NULL
        BY <2>3, <3>2, <4>1, <4>3 DEF LastOf, Elems
      <4> QED
        BY <4>4 DEF BackValid
    <3> QED
      BY <3>1, <3>2
  <2>4. CASE back \in live \ (Elems(c) \cup {Dummy}) /\ next[back] = NULL
    BY <2>4 DEF BackValid
  <2> QED
    BY <2>2, <2>3, <2>4 DEF ListIs
<1> QED
  BY <1>1, ProxyInvariant, PTL

\* The chain from cache->front ends, has no node twice and meets allocated
\* nodes only (proxy.c:457-459, 473, 494-497), also after it has lost its end.
THEOREM ChainStaysValid == Spec => []ChainValid
<1>1. IInv => ChainValid
  <2> SUFFICES ASSUME IInv PROVE ChainValid
    OBVIOUS
  <2>1. OnPath = Elems(Path)
    BY DEF OnPath, Elems
  <2>2. ListIs(Path) /\ IsChain(Path, next, Node, Dummy, NULL)
    BY DEF IInv, ListIs
  <2>3. Cardinality(DOMAIN Path) = Cardinality(Elems(Path))
    BY <2>2, ChainCounts
  <2> QED
    BY <2>1, <2>2, <2>3 DEF ListIs, ChainValid
<1> QED
  BY <1>1, ProxyInvariant, PTL

\* cache->size is the size of all allocated objects, those off the list
\* included (proxy.c:455-477).
THEOREM SizeCountsAllocated == Spec => []SizeCountsAll
<1>1. IInv => SizeCountsAll
  BY SizeIsSum DEF IInv, Counted, SizeCountsAll
<1> QED
  BY <1>1, ProxyInvariant, PTL

\* What search_cache remembers of the list across its change of locks is what
\* it finds there (proxy.c:486-497).
THEOREM PointersStayFresh == Spec => []PointersFresh
<1>1. IInv => PointersFresh
  <2> SUFFICES ASSUME IInv, NEW t \in Thread
               PROVE  PointersFresh!(t)
    BY DEF PointersFresh
  <2>1. Elems(Path) \subseteq live \ {Dummy} /\ Dummy \in live
    BY DEF IInv, ListIs, Counted
  <2>2. pc[t] \in Holding \cup {"walk"} =>
          prev[t] \in Elems(Path) \cup {Dummy} /\ next[prev[t]] = cur[t]
    BY DEF IInv, Walks
  <2>3. pc[t] \in Holding => cur[t] # NULL /\ key[cur[t]] = Key(req[t])
    BY DEF IInv, Walks
  <2>4. pc[t] \in Holding \cup {"walk"} /\ cur[t] # NULL => cur[t] \in live \ {Dummy}
    <3> SUFFICES ASSUME pc[t] \in Holding \cup {"walk"}, cur[t] # NULL
                 PROVE  cur[t] \in live \ {Dummy}
      OBVIOUS
    <3>1. \E k \in DOMAIN Path : cur[t] = Path[k]
      BY OnList
    <3> QED
      BY <2>1, <3>1 DEF Elems
  <2> QED
    BY <2>1, <2>2, <2>3, <2>4 DEF Holding
<1> QED
  BY <1>1, ProxyInvariant, PTL

\* A client is sent a response to a request with its own host and path, what
\* is cached under a key answers a request with that key, and a node still has
\* what a hit has sent of it when it is moved (proxy.c:383-400, 463-471,
\* 487-498).
THEOREM SameObjectIsSent == Spec => []SentSameObject
BY ProxyInvariant, PTL DEF IInv

-----------------------------------------------------------------------------
\* No step puts the list together again once cache->back is off it.
LEMMA StepLost ==
  ASSUME IInv, NEW t \in Thread, Step(t), BackLost
  PROVE  BackLost' /\ OnPath' \subseteq OnPath
<1>1. OnPath = Elems(Path) /\ OnPath' = Elems(Path')
  BY DEF OnPath, Elems
<1>2. back \notin Elems(Path) /\ back # Dummy
  BY <1>1 DEF BackLost
<1>3. CASE UNCHANGED list
  <2>1. Path' = Path
    BY <1>3, SameList DEF IInv
  <2> QED
    BY <1>1, <1>2, <1>3, <2>1 DEF BackLost, list
<1>4. CASE Splice(t)
  BY <1>1, <1>2, <1>4, SpliceStep DEF BackLost
<1>5. CASE Evict(t)
  <2>1. Elems(Path') \subseteq Elems(Path)
    BY <1>5, EvictStep
  <2> QED
    BY <1>1, <1>2, <1>5, <2>1 DEF BackLost, Evict
<1>6. CASE Insert(t)
  <2>1. PICK n \in Node \ live : live' = live \cup {n} /\ next' = LinkedLast(n) /\ back' = n
    BY <1>6 DEF Insert
  <2>2. Path' = Path
    BY <1>2, <2>1, InsertStep
  <2>3. n \notin Elems(Path) /\ n # Dummy
    BY <2>1 DEF IInv, ListIs, Counted
  <2> QED
    BY <1>1, <2>1, <2>2, <2>3 DEF BackLost
<1> QED
  BY <1>3, <1>4, <1>5, <1>6, ListWriters

\* Once cache->back is off the list it stays off it, and no step of any thread
\* brings a node back or adds one that a walk could find (proxy.c:473-477,
\* 494-498).
THEOREM LossIsForEver == Spec => NothingAddedAfterLoss
<1>1. [Next]_vars /\ IInv => [BackLost => BackLost' /\ OnPath' \subseteq OnPath]_vars
  BY NextStep, StepLost
<1> QED
  BY <1>1, ProxyInvariant, PTL DEF Spec, NothingAddedAfterLoss

\* No step takes the mutex from the writer that waits for the readers, nor the
\* read lock from the reader that waits for the mutex.
LEMMA StepCycle ==
  ASSUME IInv, NEW t \in Thread, Step(t), LockCycle
  PROVE  LockCycle'
<1>1. PICK w \in Thread, u \in Thread :
        /\ mutex = w /\ pc[w] \in {"promote", "addmutex"}
        /\ u \in readers /\ pc[u] = "hit"
  BY DEF LockCycle
<1>2. mutex # NULL /\ w # u
  BY <1>1, ProxyThreadAssumption
<1>3. mutex' = mutex
  <2>1. CASE Release(t)
    <3>1. mutex = t /\ pc[t] = "release"
      BY <2>1 DEF Release, Goto, IInv, LockDiscipline, MutexHolding
    <3> QED
      BY <1>1, <3>1
  <2>2. CASE HitLock(t) \/ AddLock(t)
    BY <1>2, <2>2 DEF HitLock, AddLock, mutex_lock
  <2>3. CASE ~(Release(t) \/ HitLock(t) \/ AddLock(t))
    BY <2>3 DEF Step, Handle, SearchCache, AddToCache, Parse, StartSearch, WalkOn,
       Found, NotFound, ServeHit, HitUnlockRead, PromoteLock, Splice, Resolve,
       Forward, HostFails, ClientFails, AddWriteLock, Evict, EvictNothing,
       Insert, Cleanup
  <2> QED
    BY <2>1, <2>2, <2>3
<1>4. pc'[w] \in {"promote", "addmutex"} /\ pc'[u] = "hit"
  <2> TypeOK
    BY DEF IInv
  <2>1. \A v \in Thread \ {t} : pc'[v] = pc[v]
    BY OthersUntouched
  <2>2. t = w => pc'[t] = pc[t]
    <3>1. ~(PromoteLock(t) \/ AddWriteLock(t))
      BY <1>1 DEF PromoteLock, AddWriteLock, write_lock
    <3> QED
      BY <1>1, <3>1 DEF Goto, Step, Handle, SearchCache, AddToCache, Parse, StartSearch,
         WalkOn, Found, NotFound, ServeHit, HitLock, HitUnlockRead, Splice, Resolve,
         Forward, HostFails, ClientFails, AddLock, Evict, EvictNothing, Insert,
         Release, Cleanup
  <2>3. t = u => pc'[t] = pc[t]
    <3>1. ~HitLock(t)
      BY <1>2 DEF HitLock, mutex_lock
    <3> QED
      BY <1>1, <3>1 DEF Goto, Step, Handle, SearchCache, AddToCache, Parse, StartSearch,
         WalkOn, Found, NotFound, ServeHit, HitUnlockRead, PromoteLock, Splice, Resolve,
         Forward, HostFails, ClientFails, AddLock, AddWriteLock, Evict, EvictNothing,
         Insert, Release, Cleanup
  <2> QED
    BY <1>1, <2>1, <2>2, <2>3
<1>5. u \in readers'
  <2>1. CASE t = u
    <3>1. ~(NotFound(t) \/ HitUnlockRead(t) \/ Splice(t) \/ Insert(t))
      BY <1>1, <2>1 DEF NotFound, HitUnlockRead, Splice, Insert, Goto
    <3> QED
      BY <1>1, <3>1 DEF rwlock, read_lock, write_lock, Step, Handle, SearchCache,
         AddToCache, Parse, StartSearch, WalkOn, Found, ServeHit, HitLock, PromoteLock,
         Resolve, Forward, HostFails, ClientFails, AddLock, AddWriteLock, Evict,
         EvictNothing, Release, Cleanup
  <2>2. CASE t # u
    BY <1>1, <2>2 DEF rwlock, read_lock, write_lock, unlock, Step, Handle, SearchCache,
       AddToCache, Parse, StartSearch, WalkOn, Found, NotFound, ServeHit, HitLock,
       HitUnlockRead, PromoteLock, Splice, Resolve, Forward, HostFails, ClientFails,
       AddLock, AddWriteLock, Evict, EvictNothing, Insert, Release, Cleanup
  <2> QED
    BY <2>1, <2>2
<1> QED
  BY <1>1, <1>3, <1>4, <1>5 DEF LockCycle

\* Two threads that wait for each other's lock (proxy.c:490-493, 452-453) do so
\* for ever, whatever all other threads do.
THEOREM LockCycleIsForever == Spec => LockCycleForever
<1>1. LockCycle /\ UNCHANGED vars => LockCycle'
  BY DEF LockCycle, vars, rwlock
<1>2. [Next]_vars /\ IInv => [LockCycle => LockCycle']_vars
  BY <1>1, NextStep, StepCycle
<1> QED
  BY <1>2, ProxyInvariant, PTL DEF Spec, LockCycleForever
=============================================================================
