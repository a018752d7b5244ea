------------------------- MODULE TinyCacheListProofs -------------------------
(***************************************************************************)
(* More proofs about TinyCache, for any number of threads, libraries and   *)
(* nodes: the list is whole, the counters agree with it, and it implements *)
(* CallCache.                                                              *)
(*                                                                         *)
(* ListLinks of TinyCacheProofs relates neighbours only.  The invariant    *)
(* Whole added here is about the sequence of all nodes, Path: it is what a *)
(* walk from cache->front meets, and meets every allocated node.  Each of  *)
(* the three steps that write to the list gives a sequence that is a chain *)
(* along the new pointers, and there is only one such sequence.            *)
(***************************************************************************)
EXTENDS TinyCacheRefinement, TinyCacheProofs, DataTheorems

\* c is the list from cache->front to cache->back.
ListIs(c) ==
  /\ IsChain(c, next, Node, Dummy, NULL)
  /\ Elems(c) = live \ {Dummy}
  /\ back = LastOf(c, Dummy)

Whole == ListIs(Path)

-----------------------------------------------------------------------------
\* The walk from the first node is the sequence that the next pointers spell.
LEMMA PathIs == \A c : IsChain(c, next, Node, Dummy, NULL) => Path = c
<1> SUFFICES ASSUME NEW c, IsChain(c, next, Node, Dummy, NULL)
             PROVE  Path = c
  OBVIOUS
<1>1. ListBehind(next, Dummy, NULL, Cardinality(Node)) = c
  BY NodeAssumption, ChainIsList
<1>2. Path = ListBehind(next, Dummy, NULL, Cardinality(Node))
  BY Zenon DEF Path, ListBehind, WalkFcn, IsWalkFcn
<1> QED
  BY <1>1, <1>2

\* The same of the next state.
LEMMA PathIsNext == (\A c : IsChain(c, next, Node, Dummy, NULL) => Path = c)'
BY PathIs, PTL

\* A sequence that is found to be the list of the next state is its Path.
LEMMA NewList ==
  ASSUME NEW c, ListIs(c)'
  PROVE  Path' = c /\ Whole'
<1>1. IsChain(c, next', Node, Dummy, NULL)
  BY DEF ListIs
<1>2. Path' = c
  BY <1>1, PathIsNext
<1> QED
  BY <1>2 DEF Whole, ListIs

\* A step that leaves the nodes alone leaves the list alone.
LEMMA SamePath ==
  ASSUME Whole, UNCHANGED list
  PROVE  Path' = Path /\ Whole'
<1>1. Path' = Path
  BY DEF Path, list
<1> QED
  BY <1>1 DEF Whole, ListIs, list

-----------------------------------------------------------------------------
(* What the three steps that write to the list do to it. *)

\* search_cache moves one node to the end (tiny.c:428-434).
LEMMA SpliceStep ==
  ASSUME IInv, Whole, NEW t \in Thread, Splice(t)
  PROVE  /\ Whole'
         /\ \E k \in 1..(Len(Path) - 1) :
              Path' = Append(Dropped(Path, k), Path[k])
<1> USE NodeAssumption
<1>1. PICK c, n, p : c = Path /\ n = cur[t] /\ p = prev[t]
  OBVIOUS
<1>2. ListIs(c) /\ IsChain(c, next, Node, Dummy, NULL) /\ next \in [Node -> Node \cup {NULL}]
  BY <1>1 DEF Whole, ListIs, IInv, TypeOK
<1>3. n \in live \ {Dummy} /\ p \in live /\ next[p] = n /\ n # back
  BY <1>1 DEF IInv, PointersFresh, LastUsed, Splice, Goto
<1>4. PICK k \in DOMAIN c : n = c[k]
  BY <1>2, <1>3 DEF ListIs, Elems
<1>5. DOMAIN c = 1..Len(c) /\ Len(c) \in Nat /\ c # <<>>
  BY <1>2, <1>4, ChainCounts
<1>6. k # Len(c) /\ back = c[Len(c)] /\ back \in live \ {Dummy}
  BY <1>2, <1>3, <1>4, <1>5 DEF ListIs, LastOf, Elems
<1>7. p \in Elems(c) \cup {Dummy}
  BY <1>2, <1>3 DEF ListIs
<1>8. PICK m : m = [next EXCEPT ![p] = next[n]]
  OBVIOUS
<1>9. PICK d : d = Dropped(c, k)
  OBVIOUS
<1>10. /\ IsChain(d, m, Node, Dummy, NULL)
       /\ Elems(d) = Elems(c) \ {n} /\ LastOf(d, Dummy) = back /\ p # n
  <2>1. \A y \in Node : m[y] = IF y = p THEN next[c[k]] ELSE next[y]
    BY <1>2, <1>4, <1>8
  <2>2. next[p] = c[k] /\ LastOf(c, Dummy) = back
    BY <1>2, <1>3, <1>4 DEF ListIs
  <2>3. /\ IsChain(Dropped(c, k), m, Node, Dummy, NULL)
        /\ Elems(Dropped(c, k)) = Elems(c) \ {c[k]}
        /\ k # Len(c) => LastOf(Dropped(c, k), Dummy) = LastOf(c, Dummy)
        /\ p # c[k]
    BY <1>2, <1>7, <2>1, <2>2, ChainWithout
  <2> QED
    BY <1>4, <1>6, <1>9, <2>2, <2>3
<1>11. n \in Node /\ p \in Node /\ back \in Node /\ next[n] \in Node \cup {NULL}
  BY <1>2, <1>3, <1>6 DEF IInv, TypeOK
<1>12. m \in [Node -> Node \cup {NULL}]
  BY <1>2, <1>8, <1>11
<1>13. next' = [m EXCEPT ![n] = NULL, ![back] = n]
  <2>1. next' = [next EXCEPT ![p] = next[n], ![back] = n, ![n] = NULL]
    BY <1>1 DEF Splice, Moved
  <2> QED
    BY <1>2, <1>3, <1>8, <1>11, <2>1
<1>14. PICK f : f = Append(d, n)
  OBVIOUS
<1>15. /\ IsChain(f, next', Node, Dummy, NULL)
       /\ Elems(f) = Elems(d) \cup {n} /\ LastOf(f, Dummy) = n
  <2>1. \A y \in Node :
          next'[y] = IF y = back THEN n ELSE IF y = n THEN NULL ELSE m[y]
    BY <1>3, <1>11, <1>12, <1>13
  <2>2. n \in Node \ {Dummy} /\ n \notin Elems(d) /\ back = LastOf(d, Dummy)
    BY <1>3, <1>10, <1>11
  <2> QED
    BY <1>10, <1>12, <1>14, <2>1, <2>2, ChainAppend
<1>16. live' = live /\ back' = n
  BY <1>1 DEF Splice
<1>17. Elems(f) = live' \ {Dummy}
  BY <1>2, <1>3, <1>10, <1>15, <1>16 DEF ListIs
<1>18. ListIs(f)'
  BY <1>15, <1>16, <1>17 DEF ListIs
<1>19. Path' = f /\ Whole'
  BY <1>18, NewList
<1>20. k \in 1..(Len(c) - 1)
  BY <1>5, <1>6
<1> QED
  BY <1>1, <1>4, <1>9, <1>14, <1>19, <1>20

\* evict_lru takes off the first node (tiny.c:360-374).
LEMMA EvictStep ==
  ASSUME IInv, Whole, NEW t \in Thread, Evict(t)
  PROVE  /\ Whole' /\ Path # <<>> /\ Path' = Tail(Path)
         /\ next[Dummy] = Path[1] /\ next[Dummy] \in live \ {Dummy}
<1> USE NodeAssumption
<1>1. PICK c, n, d : c = Path /\ n = next[Dummy] /\ d = Tail(c)
  OBVIOUS
<1>2. ListIs(c) /\ IsChain(c, next, Node, Dummy, NULL) /\ next \in [Node -> Node \cup {NULL}]
  BY <1>1 DEF Whole, ListIs, IInv, TypeOK
<1>3. n # NULL /\ next' = [next EXCEPT ![Dummy] = next[n], ![n] = NULL]
  BY <1>1 DEF Evict
<1>4. /\ c # <<>> /\ n = c[1]
      /\ IsChain(d, next', Node, Dummy, NULL)
      /\ Elems(d) = Elems(c) \ {c[1]}
      /\ LastOf(d, Dummy) = IF c[1] = LastOf(c, Dummy) THEN Dummy ELSE LastOf(c, Dummy)
  <2>1. \A x \in Node : next'[x] = IF x = next[Dummy] THEN NULL
                                   ELSE IF x = Dummy THEN next[next[Dummy]] ELSE next[x]
    BY <1>1, <1>2, <1>3
  <2>2. next[Dummy] # NULL
    BY <1>1, <1>3
  <2> QED
    BY <1>1, <1>2, <2>1, <2>2, ChainTail
<1>5. live' = live \ {n} /\ back' = IF n = back THEN Dummy ELSE back
  BY <1>1 DEF Evict, BackWithout
<1>6. Elems(d) = live' \ {Dummy} /\ back' = LastOf(d, Dummy)
  BY <1>2, <1>4, <1>5 DEF ListIs
<1>7. ListIs(d)'
  BY <1>4, <1>6 DEF ListIs
<1>8. Path' = d /\ Whole'
  BY <1>7, NewList
<1>9. n \in live \ {Dummy}
  <2>1. 1 \in DOMAIN c
    BY <1>2, <1>4, ChainCounts DEF IsChain
  <2> QED
    BY <1>2, <1>4, <2>1 DEF ListIs, Elems
<1> QED
  BY <1>1, <1>4, <1>8, <1>9

\* add_to_cache appends a new node (tiny.c:400-403).
LEMMA InsertStep ==
  ASSUME IInv, Whole, NEW t \in Thread, Insert(t)
  PROVE  /\ Whole' /\ fname[t] \in Lib
         /\ \E n \in Node \ live :
              /\ Path' = Append(Path, n) /\ live' = live \cup {n}
              /\ key' = [key EXCEPT ![n] = fname[t]]
<1> USE NodeAssumption
<1>1. PICK n \in Node \ live :
        /\ live' = live \cup {n}
        /\ key' = [key EXCEPT ![n] = fname[t]]
        /\ next' = [next EXCEPT ![n] = NULL, ![back] = n]
        /\ back' = n
  BY DEF Insert
<1>2. PICK c, d : c = Path /\ d = Append(c, n)
  OBVIOUS
<1>3. ListIs(c) /\ IsChain(c, next, Node, Dummy, NULL) /\ next \in [Node -> Node \cup {NULL}]
  BY <1>2 DEF Whole, ListIs, IInv, TypeOK
<1>4. Dummy \in live /\ n \in Node \ {Dummy} /\ n \notin Elems(c)
      /\ back = LastOf(c, Dummy)
  BY <1>3 DEF ListIs, IInv, ListLinks
<1>5. /\ IsChain(d, next', Node, Dummy, NULL)
      /\ Elems(d) = Elems(c) \cup {n} /\ LastOf(d, Dummy) = n
  <2>1. \A y \in Node :
          next'[y] = IF y = back THEN n ELSE IF y = n THEN NULL ELSE next[y]
    <3>1. n # back /\ back \in Node
      BY DEF IInv, ListLinks, TypeOK
    <3> QED
      BY <1>1, <1>3, <3>1
  <2> QED
    BY <1>2, <1>3, <1>4, <2>1, ChainAppend
<1>6. Elems(d) = live' \ {Dummy}
  BY <1>1, <1>3, <1>4, <1>5 DEF ListIs
<1>7. ListIs(d)'
  BY <1>1, <1>5, <1>6 DEF ListIs
<1>8. Path' = d /\ Whole'
  BY <1>7, NewList
<1>9. fname[t] \in Lib
  BY DEF IInv, Served, Insert, Goto
<1> QED
  BY <1>1, <1>2, <1>8, <1>9

-----------------------------------------------------------------------------
\* init_cache makes an empty list.
LEMMA InitWhole == Init => Whole
<1> SUFFICES ASSUME Init PROVE Whole
  OBVIOUS
<1>1. IsChain(<<>>, next, Node, Dummy, NULL)
  BY NodeAssumption DEF Init, IsChain, IsWalk
<1>2. Path = <<>>
  BY <1>1, PathIs
<1> QED
  BY <1>1, <1>2 DEF Whole, ListIs, Elems, LastOf, Init

\* Every step leaves the list whole.
LEMMA StepWhole == IInv /\ Whole /\ [Next]_vars => Whole'
<1>1. ASSUME Whole, UNCHANGED vars PROVE Whole'
  BY <1>1, SamePath DEF vars
<1>2. ASSUME IInv, Whole, Next PROVE Whole'
  BY <1>2, ListWriters, SamePath, SpliceStep, EvictStep, InsertStep DEF Next
<1> QED
  BY <1>1, <1>2

\* So it is whole in every reachable state.
LEMMA WholeInvariant == Spec => []Whole
BY Invariant, InitWhole, StepWhole, PTL DEF Spec

\* Following next from cache->front meets every allocated node exactly once
\* and ends at cache->back (tiny.c:360-454), for any number of threads.
THEOREM WholeList == Spec => []ListWhole
<1>1. Whole => ListWhole
  <2> SUFFICES ASSUME Whole PROVE ListWhole
    OBVIOUS
  <2>1. IsChain(Path, next, Node, Dummy, NULL)
    BY DEF Whole, ListIs
  <2>2. OnPath = Elems(Path)
    BY DEF OnPath, Elems
  <2>3. /\ Cardinality(DOMAIN Path) = Len(Path) /\ Cardinality(Elems(Path)) = Len(Path)
        /\ DOMAIN Path = 1..Len(Path) /\ Len(Path) \in Nat
    BY <2>1, ChainCounts
  <2>4. Elems(Path) = {} <=> Path = <<>>
    <3>1. Path # <<>> => 1 \in DOMAIN Path
      BY <2>3, <2>1 DEF IsChain
    <3> QED
      BY <3>1 DEF Elems
  <2> QED
    BY <2>2, <2>3, <2>4 DEF ListWhole, Whole, ListIs, LastOf
<1> QED
  BY <1>1, WholeInvariant, PTL

-----------------------------------------------------------------------------
(* The counters. *)

Weight == [n \in live \ {Dummy} |-> FileSize[key[n]]]

cached(l) == {n \in live \ {Dummy} : key[n] = l}
opened(l) == {t \in Thread : pc[t] \in {"add", "evict"} /\ fname[t] = l}

\* The counters, with the sum in a form that proofs can take apart.
Counted ==
  /\ size = SumOver(Weight, live \ {Dummy})
  /\ \A l \in Lib : refs[l] = Cardinality(cached(l)) + Cardinality(opened(l))

\* Every node has the size of the file that it was loaded from.
LEMMA WeightType ==
  IInv => /\ IsFiniteSet(live \ {Dummy})
          /\ \A n \in live \ {Dummy} :
               key[n] \in Lib /\ Weight[n] = FileSize[key[n]] /\ Weight[n] \in Nat \ {0}
<1> SUFFICES ASSUME IInv
             PROVE  /\ IsFiniteSet(live \ {Dummy})
                    /\ \A n \in live \ {Dummy} :
                         /\ key[n] \in Lib /\ Weight[n] = FileSize[key[n]]
                         /\ Weight[n] \in Nat \ {0}
  OBVIOUS
<1>1. live \ {Dummy} \subseteq Node
  BY DEF IInv, TypeOK
<1>2. IsFiniteSet(live \ {Dummy})
  BY <1>1, NodeAssumption, FS_Subset
<1>3. \A n \in live \ {Dummy} : key[n] \in Lib
  BY DEF IInv, ListLinks
<1> QED
  BY <1>2, <1>3, SizeAssumption DEF Weight

\* The fold of the specification is that sum.
LEMMA SizeIsSum ==
  ASSUME IInv
  PROVE  MapThenSumSet(LAMBDA n : FileSize[key[n]], live \ {Dummy})
           = SumOver(Weight, live \ {Dummy})
<1> DEFINE S == live \ {Dummy}
           g == CHOOSE f : f = [s \in SUBSET S |->
                  IF s = {} THEN 0 ELSE FileSize[key[First(s)]] + f[s \ {First(s)}]]
<1>1. MapThenSumSet(LAMBDA n : FileSize[key[n]], S) = g[S]
  BY Zenon DEF MapThenSumSet, MapThenFoldSet, First
<1>2. IsFiniteSet(S) /\ \A n \in S : Weight[n] = FileSize[key[n]] /\ Weight[n] \in Int
  BY WeightType
<1> HIDE DEF S, g
<1>3. PICK f : IsSumFcn(f, Weight, S)
  BY <1>2, SumFcnExists
<1>4. \A s \in SUBSET S : s # {} => Weight[First(s)] = FileSize[key[First(s)]]
  BY <1>2, FirstIn
<1>5. f = [s \in SUBSET S |->
             IF s = {} THEN 0 ELSE FileSize[key[First(s)]] + f[s \ {First(s)}]]
  BY <1>3, <1>4 DEF IsSumFcn
<1>6. g = [s \in SUBSET S |->
             IF s = {} THEN 0 ELSE FileSize[key[First(s)]] + g[s \ {First(s)}]]
  BY <1>5, Zenon DEF g
<1>7. IsSumFcn(g, Weight, S)
  BY <1>4, <1>6 DEF IsSumFcn
<1> QED
  BY <1>1, <1>2, <1>7, SumFcnIs DEF S

\* At most one thread has opened a library and not linked it: it holds the
\* mutex.
LEMMA OpenedOnce ==
  ASSUME IInv, NEW t \in Thread, pc[t] \in MutexHolding
  PROVE  \A u \in Thread : pc[u] \in {"add", "evict"} => u = t
BY DEF IInv, LockDiscipline, MutexHolding

\* A set with one element.
LEMMA Singleton == \A x : IsFiniteSet({x}) /\ Cardinality({x}) = 1
BY FS_Singleton

-----------------------------------------------------------------------------
\* cache->size remains the sum of the sizes of the nodes.
LEMMA StepSize ==
  ASSUME IInv, IInv', Counted, Whole, NEW t \in Thread, Request(t) \/ ServeDynamic(t)
  PROVE  size' = SumOver(Weight', live' \ {Dummy})
<1> DEFINE S == live \ {Dummy}
<1>1. /\ IsFiniteSet(S)
      /\ \A n \in S : Weight[n] = FileSize[key[n]] /\ Weight[n] \in Int
  BY WeightType
<1>2. size = SumOver(Weight, S)
  BY DEF Counted
<1>3. CASE UNCHANGED list \/ Splice(t)
  BY <1>2, <1>3 DEF list, Splice, Weight
<1>4. CASE Evict(t)
  <2>1. PICK n \in S : n = next[Dummy]
    BY <1>4, EvictStep
  <2>2. /\ live' \ {Dummy} = S \ {n} /\ size' = size - FileSize[key[n]]
        /\ \A m \in S \ {n} : key'[m] = key[m]
    BY <1>4, <2>1 DEF Evict, SizeWithout, IInv, TypeOK
  <2>3. SumOver(Weight, S) = Weight[n] + SumOver(Weight, S \ {n})
    <3> HIDE DEF S
    <3> QED
      BY <1>1, SumRemove
  <2>4. IsFiniteSet(S \ {n}) /\ \A m \in S \ {n} : Weight[m] \in Int
    <3> HIDE DEF S
    <3> QED
      BY <1>1, FS_RemoveElement
  <2>5. \A m \in S \ {n} : Weight'[m] = Weight[m]
    BY <1>1, <2>2 DEF Weight
  <2>6. /\ SumOver(Weight', S \ {n}) = SumOver(Weight, S \ {n})
        /\ SumOver(Weight, S \ {n}) \in Int
    <3> HIDE DEF S
    <3> QED
      BY <2>4, <2>5, SumSame, SumType
  <2>7. Weight[n] = FileSize[key[n]] /\ Weight[n] \in Int
    BY <1>1
  <2>8. size = Weight[n] + SumOver(Weight', S \ {n})
    BY <1>2, <2>3, <2>6
  <2>9. size' = SumOver(Weight', S \ {n})
    <3> HIDE DEF S
    <3> QED
      BY <2>2, <2>6, <2>7, <2>8
  <2> QED
    BY <2>2, <2>9
<1>5. CASE Insert(t)
  <2>1. PICK n \in Node \ live :
          live' = live \cup {n} /\ key' = [key EXCEPT ![n] = fname[t]]
    BY <1>5, InsertStep
  <2>2. Dummy \in live /\ fname[t] \in Lib /\ size' = size + FileSize[fname[t]]
    BY <1>5, InsertStep DEF IInv, ListLinks, Insert
  <2>3. live' \ {Dummy} = S \cup {n} /\ n \notin S
    BY <2>1, <2>2
  <2>4. Weight'[n] = FileSize[fname[t]] /\ Weight'[n] \in Int
    BY <2>1, <2>2, <2>3, SizeAssumption DEF Weight, IInv, TypeOK
  <2>5. \A m \in S : Weight'[m] = Weight[m]
    BY <1>1, <2>1, <2>3 DEF Weight, IInv, TypeOK
  <2>6. SumOver(Weight', S) = SumOver(Weight, S)
    <3> HIDE DEF S
    <3> QED
      BY <1>1, <2>5, SumSame
  <2>7. SumOver(Weight', S \cup {n}) = SumOver(Weight', S) + Weight'[n]
    <3> \A m \in S : Weight'[m] \in Int
      BY <1>1, <2>5
    <3> HIDE DEF S
    <3> QED
      BY <1>1, <2>3, <2>4, SumAdd
  <2> QED
    BY <1>2, <2>2, <2>3, <2>4, <2>6, <2>7
<1> QED
  BY <1>3, <1>4, <1>5, ListWriters

\* The dlopen count of a library remains the number of its nodes and of the
\* threads that have opened it and not yet cached it.
LEMMA StepRefs ==
  ASSUME IInv, Counted, Whole, NEW t \in Thread, Request(t) \/ ServeDynamic(t),
         NEW l \in Lib
  PROVE  refs'[l] = Cardinality(cached(l)') + Cardinality(opened(l)')
<1>1. refs[l] = Cardinality(cached(l)) + Cardinality(opened(l))
  BY DEF Counted
<1>2. \A u \in Thread : u # t => pc'[u] = pc[u] /\ fname'[u] = fname[u]
  BY OthersUntouched DEF IInv
<1>3. IsFiniteSet(cached(l))
  <2>1. cached(l) \subseteq live \ {Dummy}
    BY DEF cached
  <2> QED
    BY <2>1, WeightType, FS_Subset
<1>4. Cardinality(cached(l)) \in Nat
  BY <1>3, FS_CardinalityType
<1>5. CASE OpenLibrary(t)
  <2>1. pc[t] = "open" /\ pc'[t] = "add" /\ fname' = fname
    BY <1>5 DEF OpenLibrary, Goto, IInv, TypeOK, locals
  <2>2. cached(l)' = cached(l)
    BY <1>5 DEF OpenLibrary, list, cached
  <2>3. opened(l) = {}
    BY <2>1, OpenedOnce DEF opened, MutexHolding
  <2>4. opened(l)' = IF fname[t] = l THEN {t} ELSE {}
    BY <1>2, <2>1, <2>3 DEF opened
  <2>5. refs'[l] = IF fname[t] = l THEN refs[l] + 1 ELSE refs[l]
    BY <1>5 DEF OpenLibrary, IInv, TypeOK
  <2>6. CASE fname[t] = l
    <3>1. Cardinality(opened(l)) = 0 /\ Cardinality(opened(l)') = 1
      BY <2>3, <2>4, <2>6, Singleton, FS_EmptySet
    <3> QED
      BY <1>1, <1>4, <2>2, <2>5, <2>6, <3>1
  <2>7. CASE fname[t] # l
    <3>1. opened(l)' = opened(l)
      BY <2>3, <2>4, <2>7
    <3> QED
      BY <1>1, <2>2, <2>5, <2>7, <3>1
  <2> QED
    BY <2>6, <2>7
<1>6. CASE Evict(t)
  <2>1. PICK n \in live \ {Dummy} : n = next[Dummy]
    BY <1>6, EvictStep
  <2>2. /\ live' = live \ {n}
        /\ \A m \in live \ {n} : key'[m] = key[m]
        /\ refs' = [refs EXCEPT ![key[n]] = @ - 1]
        /\ \A u \in Thread : pc'[u] = pc[u] /\ fname'[u] = fname[u]
    BY <1>6, <2>1 DEF Evict, Goto, Unload, IInv, TypeOK, locals
  <2>3. opened(l)' = opened(l)
    BY <2>2 DEF opened
  <2>4. cached(l)' = cached(l) \ {n}
    BY <2>2 DEF cached
  <2>5. refs'[l] = IF key[n] = l THEN refs[l] - 1 ELSE refs[l]
    BY <2>2 DEF IInv, TypeOK
  <2>6. n \in cached(l) <=> key[n] = l
    BY DEF cached
  <2>7. CASE key[n] = l
    <3>1. Cardinality(cached(l) \ {n}) = Cardinality(cached(l)) - 1
      BY <1>3, <2>6, <2>7, FS_RemoveElement
    <3>2. opened(l) \subseteq {t}
      BY <1>6, OpenedOnce DEF opened, Evict, Goto, MutexHolding
    <3>3. Cardinality(opened(l)) \in Nat
      BY <3>2, Singleton, FS_Subset, FS_CardinalityType
    <3> QED
      BY <1>1, <1>4, <2>3, <2>4, <2>5, <2>7, <3>1, <3>3
  <2>8. CASE key[n] # l
    BY <1>1, <2>3, <2>4, <2>5, <2>6, <2>8
  <2> QED
    BY <2>7, <2>8
<1>7. CASE Insert(t)
  <2>1. PICK n \in Node \ live :
          live' = live \cup {n} /\ key' = [key EXCEPT ![n] = fname[t]]
    BY <1>7, InsertStep
  <2>2. /\ pc[t] = "evict" /\ pc'[t] = "misssym" /\ fname' = fname /\ refs' = refs
        /\ Dummy \in live
    BY <1>7 DEF Insert, Goto, IInv, ListLinks, TypeOK, locals
  <2>3. opened(l)' = {}
    BY <1>2, <2>2, OpenedOnce DEF opened, MutexHolding
  <2>4. opened(l) = IF fname[t] = l THEN {t} ELSE {}
    BY <2>2, OpenedOnce DEF opened, MutexHolding
  <2>5. cached(l)' = IF fname[t] = l THEN cached(l) \cup {n} ELSE cached(l)
    BY <2>1, <2>2 DEF cached, IInv, TypeOK
  <2>6. n \notin cached(l)
    BY DEF cached
  <2>7. Cardinality(cached(l) \cup {n}) = Cardinality(cached(l)) + 1
    BY <1>3, <2>6, FS_AddElement
  <2>8. CASE fname[t] = l
    <3>1. Cardinality(opened(l)) = 1 /\ Cardinality(opened(l)') = 0
      BY <2>3, <2>4, <2>8, Singleton, FS_EmptySet
    <3> QED
      BY <1>1, <1>4, <2>2, <2>5, <2>7, <2>8, <3>1
  <2>9. CASE fname[t] # l
    <3>1. opened(l)' = opened(l)
      BY <2>3, <2>4, <2>9
    <3> QED
      BY <1>1, <2>2, <2>5, <2>9, <3>1
  <2> QED
    BY <2>8, <2>9
<1>8. CASE ~OpenLibrary(t) /\ ~Evict(t) /\ ~Insert(t)
  <2>1. refs' = refs /\ live' = live /\ key' = key
    BY <1>8 DEF ServeDynamic, SearchCache, AddToCache, Request, StartSearch, WalkOn,
       Found, NotFound, HitLock, HitUnlockRead, CheckBack, PromoteLock, Splice,
       HitSymbol, HitReturn, ReturnHandle, MissLock, OpenFails,
       AddLock, MissSymbol, MissReturn, Cleanup, list
  <2>2. /\ pc'[t] \in {"add", "evict"} <=> pc[t] \in {"add", "evict"}
        /\ pc[t] \in {"add", "evict"} => fname'[t] = fname[t]
    BY <1>8 DEF ServeDynamic, SearchCache, AddToCache, Request, StartSearch, WalkOn,
       Found, NotFound, HitLock, HitUnlockRead, CheckBack, PromoteLock, Splice,
       HitSymbol, HitReturn, ReturnHandle, MissLock, OpenFails,
       AddLock, MissSymbol, MissReturn, Cleanup, locals, Goto, IInv, TypeOK
  <2>3. cached(l)' = cached(l)
    BY <2>1 DEF cached
  <2>4. opened(l)' = opened(l)
    BY <1>2, <2>2 DEF opened
  <2> QED
    BY <1>1, <2>1, <2>3, <2>4
<1> QED
  BY <1>5, <1>6, <1>7, <1>8

\* At first nothing is cached or open.
LEMMA InitCounted == Init => Counted
<1> SUFFICES ASSUME Init PROVE Counted
  OBVIOUS
<1>1. live \ {Dummy} = {} /\ size = 0
  BY DEF Init
<1>2. \A l \in Lib : cached(l) = {} /\ opened(l) = {} /\ refs[l] = 0
  BY <1>1 DEF Init, cached, opened
<1> QED
  BY <1>1, <1>2, SumEmpty, FS_EmptySet DEF Counted

\* Every step keeps both counts.
LEMMA StepCounted ==
  IInv /\ IInv' /\ Whole /\ Counted /\ [Next]_vars => Counted'
<1>1. ASSUME Counted, UNCHANGED vars PROVE Counted'
  BY <1>1 DEF vars, list, locals, Counted, Weight, cached, opened
<1>2. ASSUME IInv, IInv', Whole, Counted, Next PROVE Counted'
  BY <1>2, StepSize, StepRefs DEF Next, Counted
<1> QED
  BY <1>1, <1>2

\* So they are right in every reachable state.
LEMMA CountedInvariant == Spec => []Counted
BY Invariant, WholeInvariant, InitCounted, StepCounted, PTL DEF Spec

\* cache->size is the sum of the sizes of the cached libraries, no dlopen
\* reference is leaked or dropped twice, and evict_lru never follows the null
\* pointer (tiny.c:361-369, 403), for any number of threads and any sizes.
THEOREM CountersAgree == Spec => []Accounted
<1>1. IInv /\ Whole /\ Counted => Accounted
  <2> SUFFICES ASSUME IInv, Whole, Counted PROVE Accounted
    OBVIOUS
  <2>1. size = MapThenSumSet(LAMBDA n : FileSize[key[n]], live \ {Dummy})
    BY SizeIsSum DEF Counted
  <2>2. \A l \in Lib :
          refs[l] = Cardinality({n \in live \ {Dummy} : key[n] = l})
                    + Cardinality({t \in Thread : pc[t] \in {"add", "evict"}
                                                  /\ fname[t] = l})
    BY DEF Counted, cached, opened
  <2>3. size > MaxSize => next[Dummy] # NULL
    <3> SUFFICES ASSUME next[Dummy] = NULL PROVE ~(size > MaxSize)
      OBVIOUS
    <3>1. Path = <<>>
      BY ChainCounts DEF Whole, ListIs
    <3>2. live \ {Dummy} = {}
      BY <3>1 DEF Whole, ListIs, Elems
    <3>3. size = 0
      BY <3>2, SumEmpty DEF Counted
    <3> QED
      BY <3>3, SizeAssumption
  <2> QED
    BY <2>1, <2>2, <2>3 DEF Accounted
<1> QED
  BY <1>1, Invariant, WholeInvariant, CountedInvariant, PTL

-----------------------------------------------------------------------------
(* The list implements the queue of CallCache. *)

\* A sequence after place k has been moved to its end.
MovedToEnd(c, k) ==
  [i \in 1..Len(c) |-> IF i < k THEN c[i] ELSE IF i < Len(c) THEN c[i+1] ELSE c[k]]

\* How CallCache moves an element to the end, element by element.
LEMMA RemovedIs ==
  ASSUME NEW S, NEW c \in Seq(S), NEW k \in 1..Len(c)
  PROVE  Append(Calls!RemoveAt(c, k), c[k]) = MovedToEnd(c, k)
<1> DEFINE n == Len(c)
           x == SubSeq(c, 1, k-1)
           y == SubSeq(c, k+1, n)
           q == x \o y
           z == Append(q, c[k])
           v == [i \in 1..n |-> IF i < k THEN c[i]
                                ELSE IF i < n THEN c[i+1] ELSE c[k]]
<1>1. n \in Nat /\ k \in Int /\ k <= n /\ k >= 1 /\ c[k] \in S /\ n = Len(c)
  OBVIOUS
<1> HIDE DEF n
<1>2. x \in Seq(S) /\ Len(x) = k - 1 /\ \A i \in 1..(k-1) : x[i] = c[i]
  BY <1>1
<1>3. y \in Seq(S) /\ Len(y) = n - k /\ \A i \in 1..(n-k) : y[i] = c[i+k]
  BY <1>1
<1> HIDE DEF x, y
<1>4. q \in Seq(S) /\ Len(q) = n - 1
  <2>1. x \in Seq(S) /\ y \in Seq(S)
    BY <1>2, <1>3
  <2>2. q \in Seq(S) /\ Len(q) = Len(x) + Len(y)
    BY <2>1
  <2> HIDE DEF q
  <2> QED
    BY <2>2, <1>1, <1>2, <1>3
<1>5. \A i \in 1..(n-1) : q[i] = IF i < k THEN x[i] ELSE y[i - (k-1)]
  BY <1>1, <1>2, <1>3
<1> HIDE DEF q
<1>6. \A i \in 1..(n-1) : q[i] = IF i < k THEN c[i] ELSE c[i+1]
  <2> SUFFICES ASSUME NEW i \in 1..(n-1)
               PROVE  q[i] = IF i < k THEN c[i] ELSE c[i+1]
    OBVIOUS
  <2>1. CASE i < k
    BY <2>1, <1>1, <1>2, <1>5
  <2>2. CASE i >= k
    <3>1. i - (k-1) \in 1..(n-k) /\ (i - (k-1)) + k = i + 1
      BY <2>2, <1>1
    <3>2. y[i - (k-1)] = c[i+1]
      BY <3>1, <1>3
    <3> QED
      BY <2>2, <3>2, <1>1, <1>5
  <2> QED
    BY <1>1, <2>1, <2>2
<1>7. /\ z \in Seq(S) /\ Len(z) = n /\ z[n] = c[k]
      /\ \A i \in 1..(n-1) : z[i] = q[i]
  BY <1>1, <1>4
<1>8. v \in Seq(S) /\ Len(v) = n
  <2>1. \A i \in 1..n : v[i] \in S
    BY <1>1
  <2> QED
    BY <1>1, <2>1
<1>9. \A i \in 1..n : v[i] = IF i < k THEN c[i] ELSE IF i < n THEN c[i+1] ELSE c[k]
  OBVIOUS
<1> HIDE DEF z, v
<1>10. \A i \in 1..n : z[i] = v[i]
  <2>1. \A i \in 1..n : i # n => i \in 1..(n-1)
    BY <1>1
  <2> QED
    BY <2>1, <1>1, <1>6, <1>7, <1>9
<1>11. z = v
  BY <1>7, <1>8, <1>10
<1> QED
  BY <1>11 DEF Calls!RemoveAt, MovedToEnd, n, x, y, z, q, v

\* How search_cache does, with the same result.
LEMMA DroppedAppended ==
  ASSUME NEW S, NEW c \in Seq(S), NEW k \in 1..Len(c)
  PROVE  Append(Dropped(c, k), c[k]) = MovedToEnd(c, k)
<1> DEFINE n == Len(c)
           q == Dropped(c, k)
           z == Append(q, c[k])
           v == MovedToEnd(c, k)
<1>1. n \in Nat /\ k \in Int /\ k <= n /\ k >= 1 /\ c[k] \in S /\ n = Len(c)
  OBVIOUS
<1>2. q \in Seq(S) /\ Len(q) = n - 1
  <2>1. \A i \in 1..(n-1) : (IF i < k THEN c[i] ELSE c[i+1]) \in S
    OBVIOUS
  <2>2. n - 1 \in Nat
    OBVIOUS
  <2> QED
    BY <2>1, <2>2 DEF Dropped
<1>3. \A i \in 1..(n-1) : q[i] = IF i < k THEN c[i] ELSE c[i+1]
  BY DEF Dropped
<1>4. v \in Seq(S) /\ Len(v) = n
  <2>1. \A i \in 1..n : (IF i < k THEN c[i] ELSE IF i < n THEN c[i+1] ELSE c[k]) \in S
    OBVIOUS
  <2> QED
    BY <1>1, <2>1 DEF MovedToEnd
<1>5. \A i \in 1..n : v[i] = IF i < k THEN c[i] ELSE IF i < n THEN c[i+1] ELSE c[k]
  BY DEF MovedToEnd
<1> HIDE DEF n, q, v
<1>6. /\ z \in Seq(S) /\ Len(z) = n /\ z[n] = c[k]
      /\ \A i \in 1..(n-1) : z[i] = q[i]
  BY <1>1, <1>2
<1> HIDE DEF z
<1>7. \A i \in 1..n : z[i] = v[i]
  <2>1. \A i \in 1..n : i # n => i \in 1..(n-1)
    BY <1>1
  <2> QED
    BY <2>1, <1>1, <1>3, <1>5, <1>6
<1>8. z = v
  BY <1>4, <1>6, <1>7
<1> QED
  BY <1>8 DEF z, q, v

\* What a refinement step needs to know of the list and of the queue it maps to.
LEMMA QueueIs ==
  ASSUME IInv, Whole
  PROVE  /\ Path \in Seq(Node) /\ Queue \in Seq(Lib)
         /\ Len(Queue) = Len(Path) /\ DOMAIN Queue = 1..Len(Path)
         /\ DOMAIN Path = 1..Len(Path)
         /\ \A i \in DOMAIN Path : Path[i] \in live \ {Dummy}
         /\ \A i \in DOMAIN Path : Queue[i] = key[Path[i]]
<1>1. DOMAIN Path = 1..Len(Path) /\ Len(Path) \in Nat /\ Path \in Seq(Node)
  BY ChainCounts DEF Whole, ListIs, IsChain
<1>2. \A i \in DOMAIN Path : Path[i] \in live \ {Dummy}
  BY DEF Whole, ListIs, Elems
<1>3. \A i \in DOMAIN Path : key[Path[i]] \in Lib
  BY <1>2 DEF IInv, ListLinks
<1> QED
  BY <1>1, <1>2, <1>3 DEF Queue

\* The total size of a queue is a sum over its positions.
LEMMA QueueSum ==
  ASSUME NEW c \in Seq(Lib)
  PROVE  Calls!TotalSize(c) = SumOver([i \in DOMAIN c |-> FileSize[c[i]]], DOMAIN c)
<1> DEFINE S == DOMAIN c
           w == [i \in S |-> FileSize[c[i]]]
           g == CHOOSE f : f = [s \in SUBSET S |->
                  IF s = {} THEN 0 ELSE FileSize[c[First(s)]] + f[s \ {First(s)}]]
<1>1. Calls!TotalSize(c) = g[S]
  BY Zenon DEF Calls!TotalSize, Calls!FoldSeq, Calls!FoldFunction,
     Calls!FoldFunctionOnSet, Calls!MapThenFoldSet, First
<1>2. IsFiniteSet(S) /\ \A i \in S : w[i] = FileSize[c[i]] /\ w[i] \in Int
  <2>1. S = 1..Len(c) /\ Len(c) \in Nat
    OBVIOUS
  <2>2. \A i \in S : c[i] \in Lib
    OBVIOUS
  <2>3. IsFiniteSet(S)
    BY <2>1, CountedUp
  <2>4. \A i \in S : w[i] = FileSize[c[i]]
    OBVIOUS
  <2> HIDE DEF S, w
  <2> QED
    BY <2>2, <2>3, <2>4, SizeAssumption
<1> HIDE DEF S, w, g
<1>3. PICK f : IsSumFcn(f, w, S)
  BY <1>2, SumFcnExists
<1>4. \A s \in SUBSET S : s # {} => w[First(s)] = FileSize[c[First(s)]]
  BY <1>2, FirstIn
<1>5. f = [s \in SUBSET S |->
             IF s = {} THEN 0 ELSE FileSize[c[First(s)]] + f[s \ {First(s)}]]
  BY <1>3, <1>4 DEF IsSumFcn
<1>6. g = [s \in SUBSET S |->
             IF s = {} THEN 0 ELSE FileSize[c[First(s)]] + g[s \ {First(s)}]]
  BY <1>5, Zenon DEF g
<1>7. IsSumFcn(g, w, S)
  BY <1>4, <1>6 DEF IsSumFcn
<1> QED
  BY <1>1, <1>2, <1>7, SumFcnIs DEF S, w

\* cache->size is the total size of the queue.
LEMMA QueueSize ==
  ASSUME IInv, Whole, Counted
  PROVE  Calls!TotalSize(Queue) = size
<1>1. PICK v : v = [i \in DOMAIN Queue |-> FileSize[Queue[i]]]
  OBVIOUS
<1>2. Calls!TotalSize(Queue) = SumOver(v, DOMAIN Queue)
  BY <1>1, QueueIs, QueueSum
<1>3. DOMAIN Queue = DOMAIN Path /\ Elems(Path) = live \ {Dummy}
      /\ IsChain(Path, next, Node, Dummy, NULL)
  BY QueueIs DEF Whole, ListIs
<1>4. \A x \in Elems(Path) : Weight[x] = FileSize[key[x]] /\ Weight[x] \in Int
  BY <1>3, WeightType
<1>5. \A i \in DOMAIN Path : v[i] = Weight[Path[i]]
  BY <1>1, <1>3, <1>4, QueueIs DEF Elems
<1>6. SumOver(v, DOMAIN Path) = SumOver(Weight, Elems(Path))
  <2>1. PICK c, w : c = Path /\ w = Weight
    OBVIOUS
  <2>2. IsChain(c, next, Node, Dummy, NULL)
    BY <1>3, <2>1
  <2>3. \A x \in Elems(c) : w[x] \in Int
    BY <1>4, <2>1
  <2>4. \A i \in DOMAIN c : v[i] = w[c[i]]
    BY <1>5, <2>1
  <2>5. SumOver(v, DOMAIN c) = SumOver(w, Elems(c))
    BY <2>2, <2>3, <2>4, ChainSum
  <2> QED
    BY <2>1, <2>5
<1> QED
  BY <1>2, <1>3, <1>6 DEF Counted

-----------------------------------------------------------------------------
InFunction == {"hitrun", "missrun"}

\* A function runs with the mutex held, so at most one does.
LEMMA RunningIs ==
  IInv => /\ \A t \in Thread : pc[t] \in InFunction => Running = fname[t] /\ Running # NULL
          /\ (\A t \in Thread : pc[t] \notin InFunction) => Running = NULL
<1> SUFFICES ASSUME IInv
             PROVE  /\ \A t \in Thread : pc[t] \in InFunction =>
                         Running = fname[t] /\ Running # NULL
                    /\ (\A t \in Thread : pc[t] \notin InFunction) => Running = NULL
  OBVIOUS
<1>1. \A t, u \in Thread : pc[t] \in InFunction /\ pc[u] \in InFunction => t = u
  BY DEF IInv, LockDiscipline, MutexHolding, InFunction
<1>2. ASSUME NEW t \in Thread, pc[t] \in InFunction
      PROVE  Running = fname[t] /\ Running # NULL
  <2>1. \E u \in Thread : pc[u] \in {"hitrun", "missrun"}
    BY <1>2 DEF InFunction
  <2>2. PICK x : x = CHOOSE u \in Thread : pc[u] \in {"hitrun", "missrun"}
    OBVIOUS
  <2>3. x \in Thread /\ pc[x] \in {"hitrun", "missrun"}
    BY <2>1, <2>2
  <2>4. x = t
    BY <1>1, <1>2, <2>3 DEF InFunction
  <2>5. Running = fname[x]
    BY <2>1, <2>2 DEF Running
  <2>6. fname[t] \in Callable
    BY <1>2 DEF IInv, Served, InFunction
  <2> QED
    BY <2>4, <2>5, <2>6, NameAssumption, ThreadAssumption
<1> QED
  BY <1>2 DEF Running, InFunction

\* Which library runs, in the next state.
LEMMA RunningIsNext ==
  (IInv => /\ \A t \in Thread : pc[t] \in InFunction => Running = fname[t] /\ Running # NULL
           /\ (\A t \in Thread : pc[t] \notin InFunction) => Running = NULL)'
BY RunningIs, PTL

\* A thread that holds the mutex outside a function keeps others from theirs.
LEMMA NoneRunning ==
  ASSUME IInv, NEW t \in Thread, pc[t] \in MutexHolding \ InFunction
  PROVE  Running = NULL
<1>1. \A u \in Thread : pc[u] \notin InFunction
  BY DEF IInv, LockDiscipline, MutexHolding, InFunction
<1> QED
  BY <1>1, RunningIs

\* A step that does not enter or leave a library function leaves it running.
LEMMA SameRunning ==
  ASSUME IInv, IInv', NEW t \in Thread,
         \A u \in Thread : u # t => pc'[u] = pc[u] /\ fname'[u] = fname[u],
         pc'[t] \in InFunction <=> pc[t] \in InFunction,
         pc[t] \in InFunction => fname'[t] = fname[t]
  PROVE  Running' = Running
<1>1. \A u \in Thread : pc'[u] \in InFunction <=> pc[u] \in InFunction
  OBVIOUS
<1>2. CASE \E u \in Thread : pc[u] \in InFunction
  <2>1. PICK u \in Thread : pc[u] \in InFunction
    BY <1>2
  <2>2. fname'[u] = fname[u] /\ pc'[u] \in InFunction
    BY <1>1, <2>1
  <2> QED
    BY <2>1, <2>2, RunningIs, RunningIsNext
<1>3. CASE \A u \in Thread : pc[u] \notin InFunction
  BY <1>1, <1>3, RunningIs, RunningIsNext
<1> QED
  BY <1>2, <1>3

\* A step that leaves the list alone leaves the queue alone.
LEMMA SameQueue ==
  ASSUME Whole, UNCHANGED list
  PROVE  Queue' = Queue
BY SamePath DEF Queue, list

-----------------------------------------------------------------------------
\* The splice of a hit implements the abstract touch.
LEMMA SpliceTouches ==
  ASSUME IInv, IInv', Whole, NEW t \in Thread, Splice(t)
  PROVE  Calls!Touch
<1>1. PICK k \in 1..(Len(Path) - 1) : Path' = Append(Dropped(Path, k), Path[k])
  BY SpliceStep
<1>2. /\ Path \in Seq(Node) /\ Queue \in Seq(Lib) /\ Len(Queue) = Len(Path)
      /\ \A i \in 1..Len(Path) : Queue[i] = key[Path[i]]
  BY QueueIs
<1>3. k \in 1..Len(Path) /\ k \in 1..Len(Queue) /\ k \in 1..(Len(Queue) - 1)
  BY <1>2
<1>4. Path' = MovedToEnd(Path, k)
  BY <1>1, <1>2, <1>3, DroppedAppended
<1>5. Append(Calls!RemoveAt(Queue, k), Queue[k]) = MovedToEnd(Queue, k)
  BY <1>2, <1>3, RemovedIs
<1>6. Queue' = [i \in DOMAIN MovedToEnd(Path, k) |-> key[MovedToEnd(Path, k)[i]]]
  BY <1>4 DEF Queue, Splice
<1>7. DOMAIN MovedToEnd(Path, k) = 1..Len(Path)
  BY DEF MovedToEnd
<1>8. \A i \in 1..Len(Path) :
        key[MovedToEnd(Path, k)[i]]
          = IF i < k THEN Queue[i] ELSE IF i < Len(Queue) THEN Queue[i+1] ELSE Queue[k]
  <2> SUFFICES ASSUME NEW i \in 1..Len(Path)
               PROVE  key[MovedToEnd(Path, k)[i]]
                        = IF i < k THEN Queue[i]
                          ELSE IF i < Len(Queue) THEN Queue[i+1] ELSE Queue[k]
    OBVIOUS
  <2>1. MovedToEnd(Path, k)[i]
          = IF i < k THEN Path[i] ELSE IF i < Len(Path) THEN Path[i+1] ELSE Path[k]
    BY DEF MovedToEnd
  <2>2. Len(Path) \in Nat
    BY <1>2
  <2>3. i < Len(Path) => i + 1 \in 1..Len(Path)
    BY <2>2
  <2> QED
    BY <1>2, <1>3, <2>1, <2>3
<1>9. Queue' = MovedToEnd(Queue, k)
  BY <1>2, <1>6, <1>7, <1>8 DEF MovedToEnd
<1>10. Running = NULL
  BY NoneRunning DEF Splice, Goto, MutexHolding, InFunction
<1>11. Running' = Running
  <2>1. \A u \in Thread : u # t => pc'[u] = pc[u] /\ fname'[u] = fname[u]
    BY OthersUntouched DEF IInv, ServeDynamic, SearchCache
  <2>2. pc[t] = "splice" /\ pc'[t] = "hitsym"
    BY DEF Splice, Goto, IInv, TypeOK
  <2> QED
    BY <2>1, <2>2, SameRunning DEF InFunction
<1> QED
  BY <1>3, <1>5, <1>9, <1>10, <1>11 DEF Calls!Touch

\* evict_lru implements the eviction of the oldest element.
LEMMA EvictEvicts ==
  ASSUME IInv, IInv', Whole, Counted, NEW t \in Thread, Evict(t)
  PROVE  Calls!EvictOldest
<1>1. /\ Path # <<>> /\ Path' = Tail(Path)
      /\ next[Dummy] = Path[1] /\ next[Dummy] \in live \ {Dummy}
  BY EvictStep
<1>2. /\ Path \in Seq(Node) /\ Queue \in Seq(Lib) /\ Len(Queue) = Len(Path)
      /\ \A i \in 1..Len(Path) : Queue[i] = key[Path[i]]
      /\ DOMAIN Queue = 1..Len(Path) /\ DOMAIN Path = 1..Len(Path)
  BY QueueIs
<1>3. Queue # <<>> /\ Len(Path) \in Nat \ {0}
  <2>1. Len(Path) \in Nat /\ Len(Path) # 0
    BY <1>1, <1>2
  <2> QED
    BY <1>2, <2>1
<1>4. Path' \in Seq(Node) /\ Len(Path') = Len(Path) - 1
      /\ DOMAIN Path' = 1..(Len(Path) - 1)
      /\ \A i \in 1..(Len(Path) - 1) : Path'[i] = Path[i+1]
  BY <1>1, <1>2, <1>3
<1>5. Tail(Queue) = [i \in 1..(Len(Path) - 1) |-> Queue[i+1]]
  <2>1. Tail(Queue) = [i \in 1..(Len(Queue) - 1) |-> Queue[i+1]]
    BY <1>2, <1>3, TailIs
  <2> QED
    BY <1>2, <2>1
<1>6. \A m \in Node : m # next[Dummy] => key'[m] = key[m]
  BY DEF Evict, IInv, TypeOK
<1>7. \A i \in 1..(Len(Path) - 1) : key'[Path'[i]] = Queue[i+1]
  <2> SUFFICES ASSUME NEW i \in 1..(Len(Path) - 1)
               PROVE  key'[Path'[i]] = Queue[i+1]
    OBVIOUS
  <2>1. i + 1 \in 1..Len(Path) /\ 1 \in 1..Len(Path) /\ i + 1 # 1
    BY <1>3
  <2>2. Path[i+1] # Path[1]
    BY <1>2, <2>1 DEF Whole, ListIs, IsChain, IsWalk
  <2>3. Path[i+1] \in Node
    BY <1>2, <2>1
  <2> QED
    BY <1>1, <1>2, <1>4, <1>6, <2>1, <2>2, <2>3
<1>8. Queue' = Tail(Queue)
  BY <1>4, <1>5, <1>7 DEF Queue
<1>9. Calls!TotalSize(Queue) > MaxSize
  BY QueueSize DEF Evict, OverLimit
<1>10. Running = NULL
  BY NoneRunning DEF Evict, Goto, MutexHolding, InFunction
<1>11. Running' = Running
  <2>1. \A u \in Thread : u # t => pc'[u] = pc[u] /\ fname'[u] = fname[u]
    BY OthersUntouched DEF IInv, ServeDynamic, AddToCache
  <2>2. pc[t] = "evict" /\ pc'[t] = "evict"
    BY DEF Evict, Goto, IInv, TypeOK
  <2> QED
    BY <2>1, <2>2, SameRunning DEF InFunction
<1> QED
  BY <1>3, <1>8, <1>9, <1>10, <1>11 DEF Calls!EvictOldest

\* The insertion implements the abstract addition, which has room for it.
LEMMA InsertAdds ==
  ASSUME IInv, IInv', Whole, Counted, NEW t \in Thread, Insert(t)
  PROVE  Calls!Add
<1>1. PICK n \in Node \ live :
        /\ Path' = Append(Path, n) /\ live' = live \cup {n}
        /\ key' = [key EXCEPT ![n] = fname[t]]
  BY InsertStep
<1>2. fname[t] \in Lib
  BY InsertStep
<1>3. /\ Path \in Seq(Node) /\ Queue \in Seq(Lib) /\ Len(Queue) = Len(Path)
      /\ \A i \in 1..Len(Path) : Queue[i] = key[Path[i]] /\ Path[i] \in live
      /\ DOMAIN Queue = 1..Len(Path) /\ DOMAIN Path = 1..Len(Path)
  BY QueueIs
<1>4. /\ DOMAIN Path' = 1..(Len(Path) + 1)
      /\ \A i \in 1..(Len(Path) + 1) :
           Path'[i] = IF i = Len(Path) + 1 THEN n ELSE Path[i]
  BY <1>1, <1>3
<1>5. Len(Path) \in Nat
  BY <1>3
<1>6. \A i \in 1..(Len(Path) + 1) :
        key'[Path'[i]] = IF i = Len(Path) + 1 THEN fname[t] ELSE Queue[i]
  <2> SUFFICES ASSUME NEW i \in 1..(Len(Path) + 1)
               PROVE  key'[Path'[i]] = IF i = Len(Path) + 1 THEN fname[t] ELSE Queue[i]
    OBVIOUS
  <2>1. CASE i = Len(Path) + 1
    BY <1>1, <1>4, <2>1 DEF IInv, TypeOK
  <2>2. CASE i # Len(Path) + 1
    <3>1. i \in 1..Len(Path)
      BY <1>5, <2>2
    <3>2. Path[i] # n /\ Path[i] \in Node
      BY <1>1, <1>3, <3>1
    <3> QED
      BY <1>1, <1>3, <1>4, <2>2, <3>1, <3>2 DEF IInv, TypeOK
  <2> QED
    BY <2>1, <2>2
<1>7. Queue' = [i \in 1..(Len(Path) + 1) |->
                  IF i = Len(Path) + 1 THEN fname[t] ELSE Queue[i]]
  BY <1>4, <1>6 DEF Queue
<1>8. Queue' = Append(Queue, fname[t])
  <2>1. Append(Queue, fname[t])
          = [i \in 1..(Len(Queue) + 1) |-> IF i = Len(Queue) + 1 THEN fname[t] ELSE Queue[i]]
    BY <1>2, <1>3
  <2> QED
    BY <1>3, <1>7, <2>1
<1>9. Calls!TotalSize(Queue) <= MaxSize
  BY QueueSize, SizeAssumption DEF Insert, OverLimit, IInv, TypeOK
<1>10. Running = NULL
  BY NoneRunning DEF Insert, Goto, MutexHolding, InFunction
<1>11. Running' = Running
  <2>1. \A u \in Thread : u # t => pc'[u] = pc[u] /\ fname'[u] = fname[u]
    BY OthersUntouched DEF IInv, ServeDynamic, AddToCache
  <2>2. pc[t] = "evict" /\ pc'[t] = "misssym"
    BY DEF Insert, Goto, IInv, TypeOK
  <2> QED
    BY <2>1, <2>2, SameRunning DEF InFunction
<1> QED
  BY <1>2, <1>8, <1>9, <1>10, <1>11 DEF Calls!Add

\* A function is entered: it is that of the library used last.
LEMMA EntryCalls ==
  ASSUME IInv, IInv', Whole, NEW t \in Thread, HitSymbol(t) \/ MissSymbol(t),
         pc'[t] \in InFunction
  PROVE  Calls!Call
<1>1. Queue' = Queue
  BY SameQueue DEF HitSymbol, MissSymbol
<1>2. Running = NULL
  BY NoneRunning DEF HitSymbol, MissSymbol, Goto, MutexHolding, InFunction
<1>3. Running' = fname[t]
  <2>1. fname' = fname
    BY DEF HitSymbol, MissSymbol, locals
  <2> QED
    BY <2>1, RunningIsNext
<1>4. key[back] = fname[t] /\ back # Dummy
  <2>1. CASE HitSymbol(t)
    BY <2>1 DEF HitSymbol, Goto, IInv, LastUsed, PointersFresh
  <2>2. CASE MissSymbol(t)
    BY <2>2 DEF MissSymbol, Goto, IInv, LastUsed
  <2> QED
    BY <2>1, <2>2
<1>5. fname[t] \in Callable
  <2>1. pc'[t] \in {"hitrun", "missrun"} => fname'[t] \in Callable
    BY DEF IInv, Served
  <2>2. fname' = fname
    BY DEF HitSymbol, MissSymbol, locals
  <2> QED
    BY <2>1, <2>2 DEF InFunction
<1>6. Path # <<>> /\ back = Path[Len(Path)]
  BY <1>4 DEF Whole, ListIs, LastOf
<1>7. /\ Len(Queue) = Len(Path) /\ Path \in Seq(Node)
      /\ \A i \in 1..Len(Path) : Queue[i] = key[Path[i]]
      /\ DOMAIN Queue = 1..Len(Path) /\ DOMAIN Path = 1..Len(Path)
  BY QueueIs
<1>8. Len(Path) \in 1..Len(Path)
  BY <1>6, <1>7
<1>9. Queue # <<>> /\ Calls!Last(Queue) = fname[t]
  <2>1. Queue[Len(Queue)] = fname[t]
    BY <1>4, <1>6, <1>7, <1>8
  <2> QED
    BY <2>1, <1>7, <1>8 DEF Calls!Last
<1> QED
  BY <1>1, <1>2, <1>3, <1>5, <1>9 DEF Calls!Call

\* The return of a library function, hit or miss, is the abstract return.
LEMMA ReturnReturns ==
  ASSUME IInv, IInv', Whole, NEW t \in Thread, HitReturn(t) \/ MissReturn(t)
  PROVE  Calls!Return
<1>1. Queue' = Queue
  BY SameQueue DEF HitReturn, MissReturn
<1>2. pc[t] \in InFunction /\ pc'[t] \notin InFunction
  BY DEF HitReturn, MissReturn, Goto, InFunction, IInv, TypeOK
<1>3. Running # NULL
  BY <1>2, RunningIs
<1>4. \A u \in Thread : u # t => pc'[u] = pc[u]
  BY DEF HitReturn, MissReturn, Goto, IInv, TypeOK
<1>5. \A u \in Thread : pc[u] \in InFunction => u = t
  BY <1>2 DEF IInv, LockDiscipline, MutexHolding, InFunction
<1>6. Running' = NULL
  BY <1>2, <1>4, <1>5, RunningIsNext
<1> QED
  BY <1>1, <1>3, <1>6 DEF Calls!Return

\* No other step shows in the abstract cache.
LEMMA OthersStutter ==
  ASSUME IInv, IInv', Whole, NEW t \in Thread, Request(t) \/ ServeDynamic(t),
         ~Splice(t), ~Evict(t), ~Insert(t), ~HitReturn(t), ~MissReturn(t),
         ~((HitSymbol(t) \/ MissSymbol(t)) /\ pc'[t] \in InFunction)
  PROVE  Queue' = Queue /\ Running' = Running
<1>1. Queue' = Queue
  BY ListWriters, SameQueue
<1>2. \A u \in Thread : u # t => pc'[u] = pc[u] /\ fname'[u] = fname[u]
  BY OthersUntouched DEF IInv
<1>3. pc[t] \notin InFunction /\ pc'[t] \notin InFunction
  BY DEF ServeDynamic, SearchCache, AddToCache, Request, StartSearch, WalkOn,
     Found, NotFound, HitLock, HitUnlockRead, CheckBack, PromoteLock,
     HitSymbol, ReturnHandle, MissLock, OpenLibrary, OpenFails,
     AddLock, MissSymbol, Cleanup, Goto, IInv, TypeOK, InFunction
<1> QED
  BY <1>1, <1>2, <1>3, SameRunning

\* Every step of every thread is a step of the abstract cache of libraries, or
\* leaves it unchanged (tiny.c:360-454), for any number of threads, libraries
\* and addresses: the list is in the order of last use, eviction takes the
\* oldest library and only above the limit, and functions run one at a time,
\* each from the library used last.
THEOREM CacheRefines == Spec => ImplementsCallCache
<1>1. Init => Calls!CallInit
  <2> SUFFICES ASSUME Init PROVE Queue = <<>> /\ Running = NULL
    BY DEF Calls!CallInit
  <2>1. live \ {Dummy} = {} /\ IInv /\ Whole
    BY InitInvariant, InitWhole DEF Init
  <2>2. Path = <<>>
    <3>1. DOMAIN Path = 1..Len(Path) /\ Path \in Seq(Node)
          /\ \A i \in DOMAIN Path : Path[i] \in live \ {Dummy}
      BY <2>1, QueueIs
    <3> QED
      BY <2>1, <3>1
  <2>3. Running = NULL
    BY <2>1, RunningIs DEF Init, InFunction
  <2> QED
    BY <2>2, <2>3 DEF Queue
<1>2. IInv /\ IInv' /\ Whole /\ Counted /\ Next
        => Calls!CallNext \/ UNCHANGED <<Queue, Running>>
  BY SpliceTouches, EvictEvicts, InsertAdds, EntryCalls, ReturnReturns, OthersStutter
     DEF Next, Calls!CallNext
<1>3. Whole /\ UNCHANGED vars => UNCHANGED <<Queue, Running>>
  <2> SUFFICES ASSUME Whole, UNCHANGED vars PROVE Queue' = Queue /\ Running' = Running
    OBVIOUS
  <2>1. Queue' = Queue
    BY SameQueue DEF vars
  <2> QED
    BY <2>1 DEF vars, locals, Running
<1>4. IInv /\ IInv' /\ Whole /\ Counted /\ [Next]_vars => [Calls!CallNext]_(Calls!callVars)
  BY <1>2, <1>3 DEF Calls!callVars
<1> QED
  BY <1>1, <1>4, Invariant, WholeInvariant, CountedInvariant, PTL
     DEF Spec, ImplementsCallCache, Calls!CallSpec
==============================================================================
