--------------------------- MODULE ListCacheProofs ---------------------------
(***************************************************************************)
(* Proofs about ListCache for any number of threads, blocks, names and     *)
(* sizes: the list is whole and its counters are right, what is found      *)
(* holds the object asked for, and the list of blocks implements LruList.  *)
(*                                                                         *)
(* The inductive invariant IInv is about the sequence Chain; a step gives  *)
(* a sequence of blocks that is a walk along the new pointers, and by      *)
(* WalkFromStart there is only one.                                        *)
(***************************************************************************)
EXTENDS ListCache, DataTheorems

Sizes(c) == [i \in DOMAIN c |-> content[c[i]].size]

\* c is the list of blocks, and the counters say what is on it.
ListIs(c) ==
  /\ c \in Seq(live)
  /\ IsWalk(c, next, start, end)
  /\ \A i \in DOMAIN c : content[c[i]] \in Entry
  /\ cache_block_num = Len(c)
  /\ cache_size = SumOver(Sizes(c), DOMAIN c)

\* Who holds the lock, and what is known of the arguments of a call.
Calling ==
  \A t \in Thread :
    /\ pc[t] \in {"walk", "evict"} <=> lock = t
    /\ pc[t] \in {"find", "walk"} => arg[t] # NULL
    /\ pc[t] \in {"insert", "evict"} => arg[t] \in Entry
    /\ pc[t] # "idle" => found[t] = NULL

\* A walk has met no block of the name it looks for.
Walking ==
  \A t \in Thread :
    pc[t] = "walk" /\ ptr[t] # end =>
      \E k \in DOMAIN Chain :
        /\ ptr[t] = Chain[k]
        /\ \A j \in 1..(k - 1) : content[Chain[j]].name # arg[t].name

IInv ==
  /\ TypeOK
  /\ ListIs(Chain)
  /\ Calling
  /\ Walking
  /\ AssertsForOversize

\* Objects have a size and none of them is the null object.
LEMMA EntrySize == \A e \in Entry : e.size \in Nat \ {0} /\ e # NULL
  BY ListAssumption DEF Entry

-----------------------------------------------------------------------------
(* The list of blocks is the walk from start to end. *)

\* The walk from cache->start is the sequence that the next pointers spell.
LEMMA ChainIs ==
  live \subseteq Block =>
    \A c \in Seq(live) : IsWalk(c, next, start, end) => Chain = c
<1> SUFFICES ASSUME live \subseteq Block, NEW c \in Seq(live),
                    IsWalk(c, next, start, end)
             PROVE  Chain = c
  OBVIOUS
<1>1. c \in Seq(Block)
  OBVIOUS
<1>2. IsFiniteSet(Block)
  BY ListAssumption
<1>3. ListFrom(next, start, end, Cardinality(Block)) = c
  BY <1>1, <1>2, WalkFromStart
<1>4. Chain = ListFrom(next, start, end, Cardinality(Block))
  BY Zenon DEF Chain, ListFrom, WalkFcn, IsWalkFcn
<1> QED
  BY <1>3, <1>4

\* The same for the state after a step.
LEMMA ChainIsNext ==
  (live \subseteq Block =>
    \A c \in Seq(live) : IsWalk(c, next, start, end) => Chain = c)'
BY ChainIs, PTL

\* A sequence that is found to be the list of the next state is its Chain.
LEMMA NewList ==
  ASSUME live' \subseteq Block, NEW c, ListIs(c)'
  PROVE  Chain' = c /\ ListIs(Chain)'
<1>1. c \in Seq(live') /\ IsWalk(c, next', start', end')
  BY DEF ListIs
<1>2. Chain' = c
  BY <1>1, ChainIsNext
<1> QED
  BY <1>2 DEF ListIs, Sizes

\* The sizes on a list are naturals, and add up to one.
LEMMA SizesType ==
  ListIs(Chain) =>
    /\ DOMAIN Chain = 1..Len(Chain) /\ IsFiniteSet(DOMAIN Chain)
    /\ \A i \in DOMAIN Chain : Sizes(Chain)[i] \in Nat
    /\ cache_size \in Nat
<1> SUFFICES ASSUME ListIs(Chain)
             PROVE  SizesType!2
  OBVIOUS
<1>1. Len(Chain) \in Nat /\ DOMAIN Chain = 1..Len(Chain)
  BY DEF ListIs
<1>2. IsFiniteSet(DOMAIN Chain)
  BY <1>1, CountedUp
<1>3. \A i \in DOMAIN Chain : Sizes(Chain)[i] \in Nat
  BY EntrySize DEF ListIs, Sizes
<1>4. cache_size \in Nat
  BY <1>2, <1>3, SumNat DEF ListIs
<1> QED
  BY <1>1, <1>2, <1>3, <1>4

\* The counted size of the next state is a number.
LEMMA SizesTypeNext == (ListIs(Chain) => cache_size \in Nat)'
<1>1. ListIs(Chain) => cache_size \in Nat
  BY SizesType
<1> QED
  BY <1>1, PTL

\* A step that leaves the blocks alone leaves the list alone.
LEMMA SameList ==
  ASSUME ListIs(Chain), UNCHANGED list
  PROVE  Chain' = Chain /\ ListIs(Chain)' /\ Contents' = Contents
<1>1. Chain' = Chain
  BY DEF Chain, list
<1> QED
  BY <1>1 DEF ListIs, Sizes, Contents, list

\* A sequence in which place k has become the last one.
Moved(c, k) ==
  [i \in 1..Len(c) |->
     IF i < k THEN c[i] ELSE IF i < Len(c) THEN c[i+1] ELSE c[k]]

\* Removing block k and appending its object, as cache_find does, in one formula.
LEMMA MovedIs ==
  ASSUME NEW S, NEW c \in Seq(S), NEW k \in 1..Len(c)
  PROVE  Append(RemoveAt(c, k), c[k]) = Moved(c, k)
<1> DEFINE n == Len(c)
           x == SubSeq(c, 1, k-1)
           y == SubSeq(c, k+1, n)
           q == x \o y
           z == Append(q, c[k])
           v == [i \in 1..n |-> IF i < k THEN c[i]
                                ELSE IF i < n THEN c[i+1] ELSE c[k]]
<1>1. n \in Nat /\ k \in Int /\ k <= n /\ k >= 1 /\ c[k] \in S
  OBVIOUS
<1>c. n = Len(c)
  OBVIOUS
<1> HIDE DEF n
<1>2. x \in Seq(S) /\ Len(x) = k - 1 /\ \A i \in 1..(k-1) : x[i] = c[i]
  BY <1>1, <1>c
<1>3. y \in Seq(S) /\ Len(y) = n - k /\ \A i \in 1..(n-k) : y[i] = c[i+k]
  BY <1>1, <1>c
<1> HIDE DEF x, y
<1>4. q \in Seq(S) /\ Len(q) = n - 1
  <2>1. x \in Seq(S) /\ y \in Seq(S)
    BY <1>2, <1>3
  <2>2. q \in Seq(S) /\ Len(q) = Len(x) + Len(y)
    BY <2>1
  <2> HIDE DEF q
  <2> QED
    BY <2>2, <1>1, <1>2, <1>3
<1>5. \A i \in 1..(n-1) : q[i] = IF i < k THEN x[i] ELSE y[i - (k-1)]
  BY <1>1, <1>2, <1>3
<1> HIDE DEF q
<1>6. \A i \in 1..(n-1) : q[i] = IF i < k THEN c[i] ELSE c[i+1]
  <2> SUFFICES ASSUME NEW i \in 1..(n-1)
               PROVE  q[i] = IF i < k THEN c[i] ELSE c[i+1]
    OBVIOUS
  <2>1. CASE i < k
    BY <2>1, <1>1, <1>2, <1>5
  <2>2. CASE i >= k
    <3>1. i - (k-1) \in 1..(n-k) /\ (i - (k-1)) + k = i + 1
      BY <2>2, <1>1
    <3>2. y[i - (k-1)] = c[i+1]
      BY <3>1, <1>3
    <3> QED
      BY <2>2, <3>2, <1>1, <1>5
  <2> QED
    BY <1>1, <2>1, <2>2
<1>7. /\ z \in Seq(S) /\ Len(z) = n /\ z[n] = c[k]
      /\ \A i \in 1..(n-1) : z[i] = q[i]
  BY <1>1, <1>4
<1>8. v \in Seq(S) /\ Len(v) = n
  <2>1. \A i \in 1..n : v[i] \in S
    BY <1>1, <1>c
  <2> QED
    BY <1>1, <2>1
<1>9. \A i \in 1..n : v[i] = IF i < k THEN c[i] ELSE IF i < n THEN c[i+1] ELSE c[k]
  OBVIOUS
<1> HIDE DEF z, v
<1>10. \A i \in 1..n : z[i] = v[i]
  <2>1. \A i \in 1..n : i # n => i \in 1..(n-1)
    BY <1>1
  <2> QED
    BY <2>1, <1>1, <1>6, <1>7, <1>9
<1>11. z = v
  BY <1>7, <1>8, <1>10
<1> QED
  BY <1>11 DEF RemoveAt, Moved, n, x, y, z, q, v

-----------------------------------------------------------------------------
(* What the three operations on the list do to it. *)

\* cache_evict takes the first block away.
LEMMA EvictStep ==
  ASSUME TypeOK, ListIs(Chain), NEW t \in Thread, Evict(t)
  PROVE  /\ Chain # <<>> /\ Chain' = Tail(Chain)
         /\ Contents' = Tail(Contents)
         /\ ListIs(Chain)' /\ cache_size' \in 0..MaxSize
         /\ start' # start /\ start' \in live' /\ end \in live'
<1> SUFFICES ASSUME NEW c, c = Chain
             PROVE  /\ c # <<>> /\ Chain' = Tail(c)
                    /\ Contents' = Tail(Contents)
                    /\ ListIs(Chain)' /\ cache_size' \in 0..MaxSize
                    /\ start' # start /\ start' \in live' /\ end \in live'
  OBVIOUS
<1> DEFINE n == Len(c)
           d == [i \in 1..(n-1) |-> c[i+1]]
<1> USE ListAssumption
<1>1. n \in Nat /\ n # 0 /\ DOMAIN c = 1..n /\ c \in [1..n -> live]
  BY DEF ListIs, Evict
<1>2. start = c[1] /\ start \in live /\ live \subseteq Block
  BY <1>1 DEF ListIs, IsWalk, TypeOK
<1>3. \A i \in 1..n : c[i] # end /\ next[c[i]] = IF i = n THEN end ELSE c[i+1]
  BY <1>1 DEF ListIs, IsWalk
<1>4. \A i, j \in 1..n : c[i] = c[j] => i = j
  BY <1>1 DEF ListIs, IsWalk
<1> HIDE DEF n
<1>5. /\ next' = [x \in Block |-> IF x = start THEN NULL ELSE next[x]]
      /\ content' = [x \in Block |-> IF x = start THEN NULL ELSE content[x]]
      /\ live' = live \ {start} /\ start' = next[start] /\ end' = end
  BY DEF Evict, TypeOK
<1>6. \A i \in 1..(n-1) : d[i] \in live' /\ d[i] # start /\ d[i] \in Block
  BY <1>1, <1>2, <1>4, <1>5
<1>7. d \in Seq(live') /\ Len(d) = n - 1 /\ DOMAIN d = 1..(n-1)
  BY <1>1, <1>6
<1>8. IsWalk(d, next', start', end')
  <2>1. start' = IF n - 1 = 0 THEN end ELSE d[1]
    BY <1>1, <1>2, <1>3, <1>5
  <2>2. \A i \in 1..(n-1) : d[i] # end /\ next'[d[i]] = next[d[i]]
    BY <1>1, <1>3, <1>5, <1>6
  <2>3. \A i \in 1..(n-1) :
          next[d[i]] = IF i = n - 1 THEN end ELSE d[i+1]
    BY <1>1, <1>3
  <2>4. \A i, j \in 1..(n-1) : d[i] = d[j] => i = j
    BY <1>1, <1>4
  <2>5. d = <<>> <=> n - 1 = 0
    BY <1>1
  <2> HIDE DEF d
  <2> QED
    BY <1>5, <1>7, <2>1, <2>2, <2>3, <2>4, <2>5 DEF IsWalk
<1>9. \A i \in 1..(n-1) : content'[d[i]] = content[c[i+1]]
  BY <1>1, <1>5, <1>6
<1>10. \A i \in 1..n : content[c[i]] \in Entry
  BY <1>1 DEF ListIs
<1>11. /\ cache_block_num = n
       /\ cache_size = SumOver(Sizes(c), 1..n)
  BY <1>1 DEF ListIs, n
<1>12. Sizes(c) = [i \in 1..n |-> content[c[i]].size]
  BY <1>1 DEF Sizes
<1> DEFINE v == [i \in 1..(n-1) |-> content[c[i+1]].size]
<1>13. Sizes(d)' = v
  <2>1. Sizes(d)' = [i \in 1..(n-1) |-> content'[d[i]].size]
    BY <1>7 DEF Sizes
  <2> HIDE DEF d
  <2> QED
    BY <2>1, <1>9
<1>14. SumOver(v, 1..(n-1)) = cache_size - content[start].size
  <2> DEFINE w == Sizes(c)
  <2>1. \A i \in 1..n : w[i] = content[c[i]].size /\ w[i] \in Int
    BY <1>10, <1>12, EntrySize
  <2>2. \A i \in 1..(n-1) : v[i] = w[i+1] /\ v[i] \in Int
    BY <1>1, <2>1
  <2>3. w[1] = content[start].size /\ w[1] \in Int
    BY <1>1, <1>2, <2>1
  <2> HIDE DEF w, v
  <2>4. SumOver(w, 1..n) = w[1] + SumOver(v, 1..(n-1))
    BY <1>1, <2>1, <2>2, SumOfTail
  <2>5. SumOver(v, 1..(n-1)) \in Int
    <3>1. IsFiniteSet(1..(n-1))
      BY <1>1, CountedUp
    <3> QED
      BY <2>2, <3>1, SumType
  <2> QED
    BY <1>11, <2>3, <2>4, <2>5 DEF w
<1>15. ListIs(d)'
  <2>1. cache_size' = SumOver(Sizes(d)', DOMAIN d)
    BY <1>7, <1>13, <1>14 DEF Evict, SizeWithout
  <2>2. cache_block_num' = Len(d)
    BY <1>7, <1>11 DEF Evict
  <2>3. \A i \in DOMAIN d : content'[d[i]] \in Entry
    BY <1>1, <1>7, <1>9, <1>10
  <2> HIDE DEF d
  <2> QED
    BY <1>7, <1>8, <2>1, <2>2, <2>3 DEF ListIs
<1>16. live' \subseteq Block
  BY <1>2, <1>5
<1>17. Chain' = d /\ ListIs(Chain)'
  <2> HIDE DEF d
  <2> QED
    BY <1>15, <1>16, NewList
<1>18. d = Tail(c)
  <2>1. c \in Seq(live) /\ Len(c) = n
    BY DEF n, ListIs
  <2> QED
    BY <2>1, <1>1, TailIs
<1>19. Contents' = Tail(Contents)
  <2>1. Contents = [i \in 1..n |-> content[c[i]]]
    BY <1>1 DEF Contents
  <2>2. Contents' = [i \in 1..(n-1) |-> content'[d[i]]]
    BY <1>7, <1>17 DEF Contents
  <2>3. Contents' = [i \in 1..(n-1) |-> content[c[i+1]]]
    <3> HIDE DEF d
    <3> QED
      BY <1>9, <2>2
  <2>4. Contents \in Seq(Entry) /\ Len(Contents) = n /\ Contents # <<>>
    BY <1>1, <1>10, <2>1
  <2>5. Tail(Contents) = [i \in 1..(n-1) |-> Contents[i+1]]
    BY <2>4, TailIs
  <2> QED
    BY <1>1, <2>1, <2>3, <2>5
<1>20. cache_size' \in 0..MaxSize
  <2>1. cache_size' \in Nat
    BY <1>17, SizesTypeNext
  <2>2. cache_size' = cache_size - content[start].size
    BY DEF Evict, SizeWithout
  <2>3. content[start].size \in Nat
    BY <1>1, <1>2, <1>10, EntrySize
  <2> QED
    BY <2>1, <2>2, <2>3 DEF TypeOK
<1>21. start' # start /\ start' \in live' /\ end \in live'
  BY <1>1, <1>2, <1>3, <1>4, <1>5 DEF TypeOK
<1> QED
  BY <1>1, <1>17, <1>18, <1>19, <1>20, <1>21 DEF n

\* cache_insert fills the end.
LEMMA InsertStep ==
  ASSUME TypeOK, ListIs(Chain), NEW t \in Thread, arg[t] \in Entry, Insert(t)
  PROVE  /\ Chain' = Append(Chain, end)
         /\ Contents' = Append(Contents, arg[t])
         /\ ListIs(Chain)' /\ cache_size' \in 0..MaxSize
         /\ end' # end /\ end' \in live' /\ live \subseteq live' /\ end' \notin live
<1> SUFFICES ASSUME NEW c, c = Chain
             PROVE  /\ Chain' = Append(c, end)
                    /\ Contents' = Append(Contents, arg[t])
                    /\ ListIs(Chain)' /\ cache_size' \in 0..MaxSize
                    /\ end' # end /\ end' \in live' /\ live \subseteq live'
                    /\ end' \notin live
  OBVIOUS
<1>d. PICK d : d = Append(c, end)
  OBVIOUS
<1> DEFINE n == Len(c)
<1> USE ListAssumption
<1>1. PICK new \in Block \ live :
        /\ AddToEnd([content EXCEPT ![new] = arg[t]], next, new)
        /\ live' = live \cup {new}
  BY DEF Insert
<1>2. c \in Seq(live) /\ n \in Nat /\ DOMAIN c = 1..n
  BY DEF ListIs
<1>3. start \in live /\ end \in live /\ live \subseteq Block /\ end # new
  BY <1>1 DEF TypeOK
<1>4. d \in Seq(live) /\ Len(d) = n + 1 /\ DOMAIN d = 1..(n+1) /\ d # <<>>
  BY <1>d, <1>2, <1>3
<1>5. \A i \in 1..(n+1) : d[i] = IF i = n + 1 THEN end ELSE c[i]
  BY <1>d, <1>2, <1>3
<1>6. \A i \in 1..n : c[i] # end /\ next[c[i]] = IF i = n THEN end ELSE c[i+1]
  BY <1>2 DEF ListIs, IsWalk
<1>7. \A i, j \in 1..n : c[i] = c[j] => i = j
  BY <1>2 DEF ListIs, IsWalk
<1>8. start = IF n = 0 THEN end ELSE c[1]
  BY <1>2 DEF ListIs, IsWalk
<1>9. /\ next' = [x \in Block |-> IF x = end THEN new ELSE next[x]]
      /\ content' = [x \in Block |-> IF x = end \/ x = new THEN arg[t]
                                     ELSE content[x]]
      /\ end' = new /\ start' = start
  BY <1>1, <1>3 DEF Insert, AddToEnd, TypeOK
<1> HIDE DEF n
<1>10. \A i \in 1..n : c[i] \in live /\ c[i] \in Block /\ c[i] # new
  BY <1>1, <1>2, <1>3
<1>11. IsWalk(d, next', start', end')
  <2>1. start' = d[1]
    BY <1>2, <1>5, <1>8, <1>9
  <2>2. \A i \in 1..(n+1) : d[i] # new
    BY <1>2, <1>3, <1>5, <1>10
  <2>3. \A i \in 1..(n+1) : next'[d[i]] = IF i = n + 1 THEN new ELSE d[i+1]
    <3>1. next'[end] = new
      BY <1>3, <1>9
    <3>2. \A i \in 1..n : next'[c[i]] = next[c[i]]
      BY <1>6, <1>9, <1>10
    <3>3. \A i \in 1..n : next'[c[i]] = d[i+1]
      BY <1>2, <1>5, <1>6, <3>2
    <3> QED
      BY <1>2, <1>5, <3>1, <3>3
  <2>4. \A i, j \in 1..(n+1) : d[i] = d[j] => i = j
    BY <1>2, <1>5, <1>6, <1>7
  <2>5. \A i \in DOMAIN d :
          d[i] # end' /\ next'[d[i]] = IF i = Len(d) THEN end' ELSE d[i+1]
    BY <1>4, <1>9, <2>2, <2>3
  <2>6. \A i, j \in DOMAIN d : d[i] = d[j] => i = j
    BY <1>4, <2>4
  <2> QED
    BY <1>4, <2>1, <2>5, <2>6 DEF IsWalk
<1>12. \A i \in 1..n : content[c[i]] \in Entry
  BY <1>2 DEF ListIs
<1>13. /\ content'[d[n+1]] = arg[t]
       /\ \A i \in 1..n : content'[d[i]] = content[c[i]]
  BY <1>2, <1>3, <1>5, <1>6, <1>9, <1>10
<1>14. cache_size' = SumOver(Sizes(d)', DOMAIN d)
  <2> DEFINE w == Sizes(c)
             v == [i \in 1..(n+1) |-> content'[d[i]].size]
  <2>1. Sizes(d)' = v
    BY <1>4 DEF Sizes
  <2>2. \A i \in 1..n : w[i] = content[c[i]].size /\ w[i] \in Int
    BY <1>2, <1>12, EntrySize DEF Sizes
  <2>3. \A i \in 1..n : v[i] = w[i]
    BY <1>2, <1>13, <2>2
  <2>4. v[n+1] = arg[t].size /\ v[n+1] \in Int
    BY <1>2, <1>13, EntrySize
  <2> HIDE DEF w, v
  <2>5. SumOver(v, 1..(n+1)) = SumOver(w, 1..n) + v[n+1]
    <3>1. n \in Nat
      BY <1>2
    <3>2. \A i \in 1..n : w[i] \in Int
      BY <2>2
    <3> QED
      BY ONLY <3>1, <3>2, <2>3, <2>4, SumOfAppend
  <2>6. cache_size = SumOver(w, 1..n)
    BY <1>2 DEF ListIs, w
  <2>7. cache_size' = cache_size + arg[t].size
    BY DEF Insert
  <2> QED
    BY <1>4, <2>1, <2>4, <2>5, <2>6, <2>7
<1>15. ListIs(d)'
  <2>1. cache_block_num' = Len(d)
    BY <1>4 DEF Insert, ListIs, n
  <2>2. \A i \in DOMAIN d : content'[d[i]] \in Entry
    BY <1>2, <1>4, <1>12, <1>13
  <2>3. d \in Seq(live')
    BY <1>1, <1>4
  <2> QED
    BY <1>11, <1>14, <2>1, <2>2, <2>3 DEF ListIs
<1>16. Chain' = d /\ ListIs(Chain)'
  <2>1. live' \subseteq Block
    BY <1>1, <1>3
  <2> QED
    BY <1>15, <2>1, NewList
<1>17. Contents' = Append(Contents, arg[t])
  <2>1. Contents = [i \in 1..n |-> content[c[i]]]
    BY <1>2 DEF Contents
  <2>2. Contents' = [i \in 1..(n+1) |-> content'[d[i]]]
    BY <1>4, <1>16 DEF Contents
  <2>3. Contents \in Seq(Entry) /\ Len(Contents) = n
    BY <1>2, <1>12, <2>1
  <2>4. Append(Contents, arg[t]) =
          [i \in 1..(n+1) |-> IF i = n + 1 THEN arg[t] ELSE Contents[i]]
    BY <2>3
  <2>5. \A i \in 1..(n+1) :
          content'[d[i]] = IF i = n + 1 THEN arg[t] ELSE Contents[i]
    BY <1>2, <1>13, <2>1
  <2> QED
    BY <2>2, <2>4, <2>5
<1>18. cache_size' \in 0..MaxSize
  <2>1. cache_size' \in Nat
    BY <1>16, SizesTypeNext
  <2>2. cache_size' <= MaxSize
    BY EntrySize DEF Insert, TooFull, TypeOK
  <2> QED
    BY <2>1, <2>2
<1> QED
  BY <1>d, <1>1, <1>3, <1>9, <1>16, <1>17, <1>18

\* cache_find moves what it finds to the end, if it is not there yet.
LEMMA MoveStep ==
  ASSUME TypeOK, ListIs(Chain), NEW t \in Thread, FindMove(t),
         NEW k \in DOMAIN Chain, ptr[t] = Chain[k]
  PROVE  /\ Contents' = Append(RemoveAt(Contents, k), Contents[k])
         /\ ListIs(Chain)' /\ end' # end
         /\ end' \in live' /\ end' \notin live /\ live \subseteq live'
         /\ content'[end'] = content[ptr[t]] /\ found'[t] = end'
         /\ next' \in [Block -> Block \cup {NULL}]
         /\ content' \in [Block -> Entry \cup {NULL}]
<1> SUFFICES ASSUME NEW c, c = Chain
             PROVE  /\ Contents' = Append(RemoveAt(Contents, k), Contents[k])
                    /\ ListIs(Chain)' /\ end' # end
                    /\ end' \in live' /\ end' \notin live /\ live \subseteq live'
                    /\ content'[end'] = content[ptr[t]] /\ found'[t] = end'
                    /\ next' \in [Block -> Block \cup {NULL}]
                    /\ content' \in [Block -> Entry \cup {NULL}]
  OBVIOUS
<1> DEFINE n == Len(c)
<1> USE ListAssumption
<1>1. PICK b, old :
        /\ b = ptr[t] /\ old \in Block \ live
        /\ AddToEnd([Taken(b) EXCEPT ![old] = content[b]],
                    [Skipped(b) EXCEPT ![old] = next[b]], old)
        /\ live' = live \cup {old} /\ Return(t, Renewed(t, old))
        /\ next[b] # end
        /\ UNCHANGED <<status, start, cache_size, cache_block_num>>
  BY DEF FindMove
<1>2. c \in Seq(live) /\ n \in Nat /\ DOMAIN c = 1..n /\ k \in 1..n
  BY DEF ListIs
<1>3. start \in live /\ end \in live /\ live \subseteq Block /\ end # old
  BY <1>1 DEF TypeOK
<1>4. PICK d : d = [i \in 1..n |-> IF i <= k THEN c[i]
                                   ELSE IF i < n THEN c[i+1] ELSE end]
  OBVIOUS
<1>5. \A i \in 1..n : c[i] # end /\ next[c[i]] = IF i = n THEN end ELSE c[i+1]
  BY <1>2 DEF ListIs, IsWalk
<1>6. \A i, j \in 1..n : c[i] = c[j] => i = j
  BY <1>2 DEF ListIs, IsWalk
<1>7. start = c[1]
  BY <1>2 DEF ListIs, IsWalk
<1> HIDE DEF n
<1>8. \A i \in 1..n : c[i] \in live /\ c[i] \in Block /\ c[i] # old
  BY <1>1, <1>2, <1>3
<1>9. b = c[k] /\ k < n /\ next[b] = c[k+1] /\ b # end /\ b # old /\ b \in Block
  BY <1>1, <1>2, <1>5, <1>8
<1>10. k + 1 \in 1..n /\ c[k+1] \in Block /\ c[k+1] # b
  BY <1>2, <1>6, <1>8, <1>9
<1>11. /\ next' = [x \in Block |-> IF x = end THEN old
                                   ELSE IF x = old THEN next[b]
                                   ELSE IF x = b THEN next[c[k+1]] ELSE next[x]]
       /\ content' = [x \in Block |-> IF x = end \/ x = old THEN content[b]
                                      ELSE IF x = b THEN content[c[k+1]]
                                      ELSE content[x]]
       /\ end' = old /\ start' = start
  BY <1>1, <1>3, <1>9, <1>10 DEF AddToEnd, Taken, Skipped, TypeOK
<1>12. d \in Seq(live) /\ Len(d) = n /\ DOMAIN d = 1..n /\ d # <<>>
  <2>1. \A i \in 1..n : d[i] \in live
    BY <1>2, <1>3, <1>4, <1>8
  <2> QED
    BY <2>1, <1>2, <1>4
<1>13. \A i \in 1..n : d[i] = IF i <= k THEN c[i]
                              ELSE IF i < n THEN c[i+1] ELSE end
  BY <1>4
<1>14. IsWalk(d, next', start', end')
  <2>1. start' = d[1]
    BY <1>2, <1>7, <1>11, <1>13
  <2>2. \A i \in 1..n : d[i] # old
    BY <1>2, <1>3, <1>8, <1>13
  <2>3. \A i \in 1..n : next'[d[i]] = IF i = n THEN old ELSE d[i+1]
    <3> SUFFICES ASSUME NEW i \in 1..n
                 PROVE  next'[d[i]] = IF i = n THEN old ELSE d[i+1]
      OBVIOUS
    <3>1. CASE i < k
      <4>1. d[i] = c[i] /\ c[i] # b /\ c[i] # end /\ c[i] # old /\ c[i] \in Block
        BY <3>1, <1>2, <1>5, <1>6, <1>8, <1>9, <1>13
      <4>2. next'[c[i]] = c[i+1]
        BY <3>1, <4>1, <1>2, <1>5, <1>11
      <4> QED
        BY <3>1, <4>1, <4>2, <1>2, <1>13
    <3>2. CASE i = k
      <4>1. next'[b] = next[c[k+1]]
        BY <1>9, <1>11
      <4>2. next[c[k+1]] = IF k + 1 = n THEN end ELSE c[k+2]
        BY <1>2, <1>5, <1>10
      <4> QED
        BY <3>2, <4>1, <4>2, <1>2, <1>9, <1>13
    <3>3. CASE i > k /\ i < n
      <4>1. /\ d[i] = c[i+1] /\ i + 1 \in 1..n
            /\ c[i+1] # b /\ c[i+1] # end /\ c[i+1] # old /\ c[i+1] \in Block
        BY <3>3, <1>2, <1>5, <1>6, <1>8, <1>9, <1>13
      <4>2. next'[c[i+1]] = IF i + 1 = n THEN end ELSE c[i+2]
        BY <3>3, <4>1, <1>2, <1>5, <1>11
      <4> QED
        BY <3>3, <4>1, <4>2, <1>2, <1>13
    <3>4. CASE i = n
      BY <3>4, <1>2, <1>3, <1>9, <1>11, <1>13
    <3> QED
      BY <3>1, <3>2, <3>3, <3>4, <1>2
  <2>4. \A i, j \in 1..n : d[i] = d[j] => i = j
    BY <1>2, <1>5, <1>6, <1>13
  <2>5. \A i \in DOMAIN d :
          d[i] # end' /\ next'[d[i]] = IF i = Len(d) THEN end' ELSE d[i+1]
    BY <1>11, <1>12, <2>2, <2>3
  <2>6. \A i, j \in DOMAIN d : d[i] = d[j] => i = j
    BY <1>12, <2>4
  <2> QED
    BY <1>12, <2>1, <2>5, <2>6 DEF IsWalk
<1>15. \A i \in 1..n : content[c[i]] \in Entry
  BY <1>2 DEF ListIs
<1>16. \A i \in 1..n : content'[d[i]] =
         IF i < k THEN content[c[i]]
         ELSE IF i < n THEN content[c[i+1]] ELSE content[c[k]]
  <2> SUFFICES ASSUME NEW i \in 1..n
               PROVE  content'[d[i]] = IF i < k THEN content[c[i]]
                        ELSE IF i < n THEN content[c[i+1]] ELSE content[c[k]]
    OBVIOUS
  <2>1. CASE i < k
    <3>1. d[i] = c[i] /\ c[i] # b /\ c[i] # end /\ c[i] # old /\ c[i] \in Block
      BY <2>1, <1>2, <1>5, <1>6, <1>8, <1>9, <1>13
    <3> QED
      BY <2>1, <3>1, <1>11
  <2>2. CASE i = k
    BY <2>2, <1>2, <1>9, <1>11, <1>13
  <2>3. CASE i > k /\ i < n
    <3>1. /\ d[i] = c[i+1]
          /\ c[i+1] # b /\ c[i+1] # end /\ c[i+1] # old /\ c[i+1] \in Block
      BY <2>3, <1>2, <1>5, <1>6, <1>8, <1>9, <1>13
    <3> QED
      BY <2>3, <3>1, <1>2, <1>11
  <2>4. CASE i = n
    BY <2>4, <1>2, <1>3, <1>9, <1>11, <1>13
  <2> QED
    BY <2>1, <2>2, <2>3, <2>4, <1>2
<1>17. cache_size' = SumOver(Sizes(d)', DOMAIN d)
  <2> DEFINE w == Sizes(c)
             v == [i \in 1..n |-> content'[d[i]].size]
  <2>1. Sizes(d)' = v
    BY <1>12 DEF Sizes
  <2>2. \A i \in 1..n : w[i] = content[c[i]].size /\ w[i] \in Int
    BY <1>2, <1>15, EntrySize DEF Sizes
  <2>3. \A i \in 1..n : v[i] = IF i < k THEN w[i]
                               ELSE IF i < n THEN w[i+1] ELSE w[k]
    BY <1>2, <1>16, <2>2
  <2> HIDE DEF w, v
  <2>4. SumOver(v, 1..n) = SumOver(w, 1..n)
    <3>1. \A i \in 1..n : w[i] \in Int
      BY <2>2
    <3> QED
      BY <1>2, <2>3, <3>1, SumOfMoved
  <2>5. cache_size = SumOver(w, 1..n)
    BY <1>2 DEF ListIs, w
  <2> QED
    BY <1>1, <1>12, <2>1, <2>4, <2>5
<1>18. ListIs(d)'
  <2>1. cache_block_num' = Len(d)
    BY <1>1, <1>12 DEF ListIs, n
  <2>2. \A i \in DOMAIN d : content'[d[i]] \in Entry
    BY <1>2, <1>12, <1>15, <1>16
  <2>3. d \in Seq(live')
    BY <1>1, <1>12
  <2> QED
    BY <1>14, <1>17, <2>1, <2>2, <2>3 DEF ListIs
<1>19. Chain' = d /\ ListIs(Chain)'
  <2>1. live' \subseteq Block
    BY <1>1, <1>3
  <2> QED
    BY <1>18, <2>1, NewList
<1>20. Contents' = Append(RemoveAt(Contents, k), Contents[k])
  <2> DEFINE C == Contents
  <2>1. C = [i \in 1..n |-> content[c[i]]]
    BY <1>2 DEF Contents
  <2>2. Contents' = [i \in 1..n |-> content'[d[i]]]
    BY <1>12, <1>19 DEF Contents
  <2>3. C \in Seq(Entry) /\ Len(C) = n
    BY <1>2, <1>15, <2>1
  <2>4. \A i \in 1..n : content'[d[i]] =
          IF i < k THEN C[i] ELSE IF i < n THEN C[i+1] ELSE C[k]
    BY <1>2, <1>16, <2>1
  <2>5. Contents' = [i \in 1..n |-> IF i < k THEN C[i]
                                    ELSE IF i < n THEN C[i+1] ELSE C[k]]
    BY <2>2, <2>4
  <2> HIDE DEF C
  <2>6. Contents' = Moved(C, k)
    BY <2>3, <2>5 DEF Moved
  <2>7. k \in 1..Len(C)
    BY <1>2, <2>3
  <2>8. Append(RemoveAt(C, k), C[k]) = Moved(C, k)
    BY <2>3, <2>7, MovedIs
  <2> QED
    BY <2>6, <2>8 DEF C
<1>21. /\ next' \in [Block -> Block \cup {NULL}]
       /\ content' \in [Block -> Entry \cup {NULL}]
  BY <1>1, <1>9, <1>10, <1>11 DEF TypeOK
<1> QED
  BY <1>1, <1>3, <1>9, <1>11, <1>19, <1>20, <1>21 DEF Return, Renewed, TypeOK

-----------------------------------------------------------------------------
(* The inductive invariant. *)

\* cache_init establishes the invariant.
LEMMA InitInv == Init => IInv
<1> SUFFICES ASSUME Init
             PROVE  IInv
  OBVIOUS
<1> USE ListAssumption
<1>1. TypeOK
  BY DEF Init, TypeOK
<1>2. ListIs(<<>>)
  <2>1. SumOver(Sizes(<<>>), DOMAIN <<>>) = 0
    BY SumEmpty
  <2>2. IsWalk(<<>>, next, start, end)
    BY DEF Init, IsWalk
  <2> QED
    BY <2>1, <2>2 DEF Init, ListIs
<1>3. Chain = <<>>
  BY <1>1, <1>2, ChainIs DEF ListIs, TypeOK
<1>4. Calling /\ Walking /\ AssertsForOversize
  BY DEF Init, Calling, Walking, AssertsForOversize
<1> QED
  BY <1>1, <1>2, <1>3, <1>4 DEF IInv

\* A walk is somewhere on the list, or at its end.
LEMMA WalkIsOn ==
  ASSUME IInv, NEW t \in Thread, pc[t] = "walk"
  PROVE  ptr[t] \in Block
BY DEF IInv, Walking, ListIs, TypeOK

\* A step that leaves the list alone.
LEMMA AwayStep ==
  ASSUME IInv, status = "up", NEW t \in Thread,
         Call(t) \/ FindLock(t) \/ FindLast(t) \/ FindNothing(t) \/ InsertLock(t)
  PROVE  IInv'
<1> USE ListAssumption DEF IInv
<1>1. /\ Chain' = Chain /\ ListIs(Chain)' /\ content' = content /\ end' = end
      /\ status' = status
  <2>1. UNCHANGED list /\ status' = status
    BY DEF Call, FindLock, FindLast, FindNothing, InsertLock
  <2> QED
    BY <2>1, SameList DEF list
<1>2. TypeOK'
  <2>1. CASE Call(t)
    BY <2>1 DEF Call, Goto, TypeOK, list, Entry
  <2>2. CASE FindLock(t)
    BY <2>2 DEF FindLock, Lock, Goto, TypeOK, list
  <2>3. CASE FindLast(t)
    BY <2>3, WalkIsOn DEF FindLast, Here, Return, Unlock, Goto, TypeOK, list
  <2>4. CASE FindNothing(t)
    BY <2>4 DEF FindNothing, Return, Unlock, Goto, TypeOK, list
  <2>5. CASE InsertLock(t)
    BY <2>5 DEF InsertLock, Lock, Goto, TypeOK, list, locals
  <2> QED
    BY <2>1, <2>2, <2>3, <2>4, <2>5
<1>3. Calling'
  <2>1. CASE Call(t)
    BY <2>1 DEF Call, Goto, TypeOK, Calling, Entry
  <2>2. CASE FindLock(t)
    BY <2>2 DEF FindLock, Lock, Goto, TypeOK, Calling
  <2>3. CASE FindLast(t)
    BY <2>3 DEF FindLast, Here, Return, Unlock, Goto, TypeOK, Calling
  <2>4. CASE FindNothing(t)
    BY <2>4 DEF FindNothing, Return, Unlock, Goto, TypeOK, Calling
  <2>5. CASE InsertLock(t)
    BY <2>5 DEF InsertLock, Lock, Goto, TypeOK, Calling, locals
  <2> QED
    BY <2>1, <2>2, <2>3, <2>4, <2>5
<1>4. Walking'
  <2>1. CASE Call(t)
    BY <1>1, <2>1 DEF Call, Goto, TypeOK, Walking
  <2>2. CASE FindLock(t)
    <3>1. ptr'[t] # end => Chain # <<>> /\ ptr'[t] = Chain[1]
      BY <2>2 DEF FindLock, TypeOK, ListIs, IsWalk
    <3>2. ptr'[t] # end => 1 \in DOMAIN Chain /\ 1..(1-1) = {}
      BY <3>1 DEF ListIs
    <3>3. \A u \in Thread : u # t => pc'[u] # "walk"
      BY <2>2 DEF FindLock, Lock, Goto, TypeOK, Calling
    <3> QED
      BY <1>1, <3>1, <3>2, <3>3 DEF Walking
  <2>3. CASE FindLast(t) \/ FindNothing(t)
    BY <1>1, <2>3 DEF FindLast, FindNothing, Here, Return, Goto, TypeOK, Walking
  <2>4. CASE InsertLock(t)
    BY <1>1, <2>4 DEF InsertLock, Goto, TypeOK, Walking, locals
  <2> QED
    BY <2>1, <2>2, <2>3, <2>4
<1>5. AssertsForOversize'
  BY <1>1 DEF AssertsForOversize
<1> QED
  BY <1>1, <1>2, <1>3, <1>4, <1>5

\* A walk goes on to the next block of the list.
LEMMA WalkOnStep ==
  ASSUME IInv, status = "up", NEW t \in Thread, WalkOn(t)
  PROVE  IInv'
<1> USE ListAssumption DEF IInv
<1>1. /\ Chain' = Chain /\ ListIs(Chain)' /\ content' = content /\ end' = end
      /\ status' = status /\ pc' = pc /\ arg' = arg
      /\ ptr' = [ptr EXCEPT ![t] = next[ptr[t]]]
  <2>1. UNCHANGED list /\ status' = status /\ pc' = pc
    BY DEF WalkOn, Goto, TypeOK
  <2> QED
    BY <2>1, SameList DEF WalkOn, list
<1>2. PICK k \in DOMAIN Chain :
        /\ ptr[t] = Chain[k]
        /\ \A j \in 1..(k - 1) : content[Chain[j]].name # arg[t].name
  BY DEF WalkOn, Goto, Walking
<1>3. DOMAIN Chain = 1..Len(Chain) /\ Len(Chain) \in Nat
  BY DEF ListIs
<1>4. next[ptr[t]] # end => k + 1 \in DOMAIN Chain /\ next[ptr[t]] = Chain[k+1]
  BY <1>2, <1>3 DEF ListIs, IsWalk
<1>5. TypeOK'
  BY <1>1, WalkIsOn DEF WalkOn, Goto, TypeOK, list
<1>6. Calling'
  BY <1>1 DEF WalkOn, Calling
<1>7. Walking'
  <2> SUFFICES ASSUME NEW u \in Thread, pc'[u] = "walk", ptr'[u] # end
               PROVE  \E m \in DOMAIN Chain :
                        /\ ptr'[u] = Chain[m]
                        /\ \A j \in 1..(m - 1) :
                             content[Chain[j]].name # arg[u].name
    BY <1>1 DEF Walking
  <2>1. CASE u # t
    BY <1>1, <2>1 DEF TypeOK, Walking
  <2>2. CASE u = t
    <3>1. ptr'[t] = Chain[k+1] /\ k + 1 \in DOMAIN Chain
      BY <1>1, <1>4, <2>2 DEF TypeOK
    <3>2. content[Chain[k]].name # arg[t].name
      BY <1>2 DEF WalkOn, Goto, Here
    <3>3. \A j \in 1..((k + 1) - 1) : content[Chain[j]].name # arg[t].name
      BY <1>2, <1>3, <3>2
    <3> QED
      BY <2>2, <3>1, <3>3
  <2> QED
    BY <2>1, <2>2
<1>8. AssertsForOversize'
  BY <1>1 DEF AssertsForOversize
<1> QED
  BY <1>1, <1>5, <1>6, <1>7, <1>8

\* A step that changes the list is of the thread that holds the lock.
LEMMA ListStep ==
  ASSUME IInv, status = "up", NEW t \in Thread,
         FindMove(t) \/ Evict(t) \/ Insert(t)
  PROVE  IInv'
<1> USE ListAssumption DEF IInv
<1>1. status' = status
  BY DEF FindMove, Evict, Insert
<1>2. \A u \in Thread : u # t => pc[u] \notin {"walk", "evict"} /\ pc'[u] = pc[u]
  <2>1. PICK to : pc' = [pc EXCEPT ![t] = to]
    BY DEF FindMove, Return, Evict, Insert, Goto
  <2>2. pc[t] \in {"walk", "evict"}
    BY DEF FindMove, Return, Evict, Insert, Goto
  <2> QED
    BY <2>1, <2>2 DEF Calling, TypeOK
<1>3. CASE FindMove(t)
  <2>1. PICK k \in DOMAIN Chain : ptr[t] = Chain[k]
    BY <1>3 DEF FindMove, Here, Walking
  <2>2. ListIs(Chain)' /\ end' \in live' /\ live \subseteq live'
        /\ next' \in [Block -> Block \cup {NULL}]
        /\ content' \in [Block -> Entry \cup {NULL}] /\ found'[t] = end'
    BY <1>3, <2>1, MoveStep
  <2>3. pc[t] = "walk" /\ pc' = [pc EXCEPT ![t] = "idle"] /\ lock' = NULL
    BY <1>3 DEF FindMove, Here, Return, Goto, Unlock
  <2>4. TypeOK'
    <3>1. live' \subseteq Block
      BY <1>3 DEF FindMove, TypeOK
    <3> QED
      BY <1>3, <2>2, <2>3, <3>1 DEF FindMove, Return, Renewed, TypeOK
  <2>5. Calling'
    BY <1>2, <1>3, <2>2, <2>3 DEF FindMove, Return, Renewed, TypeOK, Calling
  <2>6. Walking'
    BY <1>2, <2>3 DEF TypeOK, Walking
  <2> QED
    BY <1>1, <2>2, <2>4, <2>5, <2>6 DEF AssertsForOversize
<1>4. CASE Evict(t)
  <2>1. ListIs(Chain)' /\ cache_size' \in 0..MaxSize /\ start' \in live' /\ end \in live'
    BY <1>4, EvictStep
  <2>2. pc[t] = "evict" /\ pc' = pc /\ lock' = lock /\ arg' = arg /\ found' = found
        /\ ptr' = ptr /\ end' = end
    BY <1>4 DEF Evict, Goto, TypeOK, locals
  <2>3. TypeOK'
    <3>1. cache_block_num' \in Nat
      BY <1>4 DEF Evict, TypeOK
    <3>2. live' \subseteq Block /\ next' \in [Block -> Block \cup {NULL}]
          /\ content' \in [Block -> Entry \cup {NULL}]
      BY <1>4 DEF Evict, TypeOK
    <3> QED
      BY <1>1, <2>1, <2>2, <3>1, <3>2 DEF TypeOK
  <2>4. Calling'
    BY <2>2 DEF Calling
  <2>5. Walking'
    BY <1>2, <2>2 DEF TypeOK, Walking
  <2> QED
    BY <1>1, <2>1, <2>3, <2>4, <2>5 DEF AssertsForOversize
<1>5. CASE Insert(t)
  <2>1. pc[t] = "evict" /\ pc' = [pc EXCEPT ![t] = "idle"] /\ lock' = NULL
    BY <1>5 DEF Insert, Goto, Unlock
  <2>2. arg[t] \in Entry
    BY <2>1 DEF Calling
  <2>3. ListIs(Chain)' /\ cache_size' \in 0..MaxSize /\ end' \in live'
        /\ live \subseteq live'
    BY <1>5, <2>2, InsertStep
  <2>4. TypeOK'
    <3>1. cache_block_num' \in Nat
      BY <1>5 DEF Insert, TypeOK
    <3>2. live' \subseteq Block /\ next' \in [Block -> Block \cup {NULL}]
          /\ content' \in [Block -> Entry \cup {NULL}]
      BY <1>5, <2>2 DEF Insert, AddToEnd, TypeOK
    <3>3. start' \in live' /\ arg' = [arg EXCEPT ![t] = NULL]
          /\ ptr' = ptr /\ found' = found
      BY <1>5, <2>3 DEF Insert, TypeOK
    <3> QED
      BY <1>1, <2>1, <2>3, <3>1, <3>2, <3>3 DEF TypeOK
  <2>5. Calling'
    BY <1>2, <1>5, <2>1 DEF Insert, TypeOK, Calling
  <2>6. Walking'
    BY <1>2, <2>1 DEF TypeOK, Walking
  <2> QED
    BY <1>1, <2>3, <2>4, <2>5, <2>6 DEF AssertsForOversize
<1> QED
  BY <1>3, <1>4, <1>5

\* cache_evict is called on an empty list for an object that is too large.
LEMMA EndsStep ==
  ASSUME IInv, NEW t \in Thread, Ends(t)
  PROVE  IInv'
<1> USE ListAssumption DEF IInv
<1>1. UNCHANGED <<list, lock, pc, locals>>
  BY DEF Ends
<1>2. Chain' = Chain /\ ListIs(Chain)'
  BY <1>1, SameList
<1>3. TypeOK'
  BY <1>1 DEF Ends, TypeOK, list, locals
<1>4. Calling'
  BY <1>1 DEF Calling, locals
<1>5. Walking'
  BY <1>1, <1>2 DEF Walking, list, locals
<1>6. AssertsForOversize'
  <2> SUFFICES ASSUME status' = "assert"
               PROVE  \E u \in Thread : pc'[u] = "evict" /\ arg'[u].size > MaxSize
    BY DEF AssertsForOversize
  <2>1. pc[t] = "evict" /\ TooFull(t) /\ cache_block_num = 0
    BY DEF Ends
  <2>2. cache_size = 0
    <3>1. DOMAIN Chain = {}
      <4>1. DOMAIN Chain = 1..Len(Chain) /\ Len(Chain) = 0
        BY <2>1, SizesType DEF ListIs
      <4> QED
        BY <4>1
    <3> QED
      BY <3>1, SumEmpty DEF ListIs
  <2>3. arg[t].size > MaxSize
    BY <2>1, <2>2, EntrySize DEF TooFull, Calling
  <2> QED
    BY <1>1, <2>1, <2>3 DEF locals
<1> QED
  BY <1>2, <1>3, <1>4, <1>5, <1>6

\* The list is whole, its sizes are counted and every thread's place fits what it
\* holds, whatever the threads call in whatever order (cache.c).
THEOREM Invariant == Spec => []IInv
<1>1. IInv /\ [Next]_vars => IInv'
  <2> SUFFICES ASSUME IInv, [Next]_vars
               PROVE  IInv'
    OBVIOUS
  <2>1. CASE UNCHANGED vars
    <3>1. UNCHANGED <<status, list, lock, pc, locals>>
      BY <2>1 DEF vars
    <3>2. Chain' = Chain /\ ListIs(Chain)'
      BY <3>1, SameList DEF IInv
    <3> QED
      BY <3>1, <3>2 DEF IInv, TypeOK, Calling, Walking, AssertsForOversize,
                        list, locals
  <2>2. CASE Next
    BY <2>2, AwayStep, WalkOnStep, ListStep, EndsStep
       DEF Next, cache_find, cache_insert
  <2> QED
    BY <2>1, <2>2
<1> QED
  BY <1>1, InitInv, PTL DEF Spec

-----------------------------------------------------------------------------

\* Every variable of cache.c and of its callers keeps its type, and the sizes
\* on the list never add up to more than MAX_CACHE_SIZE (cache.c:40-116).
THEOREM ListTypeCorrect == Spec => []TypeOK
<1>1. IInv => TypeOK
  BY DEF IInv
<1> QED
  BY <1>1, Invariant, PTL

-----------------------------------------------------------------------------
(* The folds of the specification are sums. *)

\* The size of the abstract list is a sum over its positions.
LEMMA TotalIs ==
  ASSUME NEW c \in Seq(Entry)
  PROVE  FoldSeq(LAMBDA e, n : n + e.size, 0, c)
           = SumOver([i \in DOMAIN c |-> c[i].size], DOMAIN c)
<1> DEFINE S == DOMAIN c
           w == [i \in S |-> c[i].size]
           g == CHOOSE f : f = [s \in SUBSET S |->
                  IF s = {} THEN 0 ELSE f[s \ {First(s)}] + c[First(s)].size]
<1>1. FoldSeq(LAMBDA e, n : n + e.size, 0, c) = g[S]
  BY Zenon DEF FoldSeq, FoldFunction, FoldFunctionOnSet, MapThenFoldSet, First
<1>2. IsFiniteSet(S) /\ \A i \in S : w[i] \in Int /\ w[i] = c[i].size
  <2>1. S = 1..Len(c) /\ Len(c) \in Nat
    OBVIOUS
  <2>2. \A i \in S : c[i] \in Entry
    OBVIOUS
  <2>3. IsFiniteSet(S)
    BY <2>1, CountedUp
  <2>4. \A i \in S : w[i] = c[i].size
    OBVIOUS
  <2> HIDE DEF S, w
  <2> QED
    BY <2>2, <2>3, <2>4, EntrySize
<1> HIDE DEF S, w, g
<1>3. PICK f : IsSumFcn(f, w, S) /\ f \in [SUBSET S -> Int]
  BY <1>2, SumFcnExists
<1>4. \A s \in SUBSET S : s # {} =>
        /\ First(s) \in S /\ w[First(s)] = c[First(s)].size /\ w[First(s)] \in Int
        /\ f[s \ {First(s)}] \in Int
  BY <1>2, <1>3, FirstIn
<1>5. f = [s \in SUBSET S |->
             IF s = {} THEN 0 ELSE f[s \ {First(s)}] + c[First(s)].size]
  <2>1. \A s \in SUBSET S :
          f[s] = IF s = {} THEN 0 ELSE w[First(s)] + f[s \ {First(s)}]
    BY <1>3 DEF IsSumFcn
  <2>2. \A s \in SUBSET S :
          f[s] = IF s = {} THEN 0 ELSE f[s \ {First(s)}] + c[First(s)].size
    <3> SUFFICES ASSUME NEW s \in SUBSET S, s # {}
                 PROVE  f[s] = f[s \ {First(s)}] + c[First(s)].size
      BY <2>1
    <3>1. f[s] = w[First(s)] + f[s \ {First(s)}]
      BY <2>1
    <3>2. /\ w[First(s)] = c[First(s)].size /\ w[First(s)] \in Int
          /\ f[s \ {First(s)}] \in Int
      BY <1>4
    <3> QED
      BY <3>1, <3>2
  <2> QED
    BY <1>3, <2>2
<1>6. g = [s \in SUBSET S |->
             IF s = {} THEN 0 ELSE g[s \ {First(s)}] + c[First(s)].size]
  BY <1>5, Zenon DEF g
<1>7. g[S] = f[S]
  <2>1. SUFFICES ASSUME g[S] # f[S] PROVE FALSE
    OBVIOUS
  <2>2. PICK s \in {s \in SUBSET S : g[s] # f[s]} :
          \A x \in s : s \ {x} \notin {r \in SUBSET S : g[r] # f[r]}
    BY <1>2, <2>1, SmallestSubset
  <2>3. s # {} => s \ {First(s)} \in SUBSET S /\ g[s \ {First(s)}] = f[s \ {First(s)}]
    BY <2>2, FirstIn
  <2>4. g[s] = IF s = {} THEN 0 ELSE g[s \ {First(s)}] + c[First(s)].size
    BY <1>6
  <2>5. f[s] = IF s = {} THEN 0 ELSE f[s \ {First(s)}] + c[First(s)].size
    BY <1>5
  <2> QED
    BY <2>2, <2>3, <2>4, <2>5
<1>8. f[S] = SumOver(w, S)
  BY <1>2, <1>3, SumFcnIs
<1> QED
  BY <1>1, <1>7, <1>8 DEF S, w

\* cache_size is the total of the abstract list.
LEMMA TotalIsSize ==
  ASSUME ListIs(Chain)
  PROVE  /\ Contents \in Seq(Entry) /\ DOMAIN Contents = DOMAIN Chain
         /\ cache_size = FoldSeq(LAMBDA e, n : n + e.size, 0, Contents)
<1>1. DOMAIN Chain = 1..Len(Chain) /\ Len(Chain) \in Nat
  BY DEF ListIs
<1>2. Contents \in Seq(Entry) /\ DOMAIN Contents = DOMAIN Chain
  BY <1>1 DEF ListIs, Contents
<1>3. [i \in DOMAIN Contents |-> Contents[i].size] = Sizes(Chain)
  BY <1>2 DEF Contents, Sizes
<1> QED
  BY <1>2, <1>3, TotalIs DEF ListIs

-----------------------------------------------------------------------------
\* The list leads from start to end over different allocated blocks with
\* contents, and cache_block_num and cache_size count what is on it
\* (cache.c:40-116), for any sequence of calls by any number of threads.
THEOREM ListBooksBalance == Spec => []BooksBalance
<1>1. IInv => BooksBalance
  <2> SUFFICES ASSUME IInv
               PROVE  BooksBalance
    OBVIOUS
  <2>1. ListIs(Chain) /\ DOMAIN Chain = 1..Len(Chain) /\ Len(Chain) \in Nat
    BY DEF IInv, ListIs
  <2>2. OnChain \subseteq live
    BY <2>1 DEF OnChain, ToSet, ListIs
  <2>3. Cardinality(OnChain) = Len(Chain)
    <3> DEFINE T == 1..Len(Chain)
    <3>1. IsFiniteSet(T) /\ Cardinality(T) = Len(Chain)
      BY <2>1, CountedUp
    <3>2. Chain \in Bijection(T, OnChain)
      <4>1. Chain \in [T -> OnChain]
        BY <2>1 DEF OnChain, ToSet, ListIs
      <4>2. \A x \in OnChain : \E y \in T : Chain[y] = x
        BY <2>1 DEF OnChain, ToSet
      <4>3. \A x, y \in T : Chain[x] = Chain[y] => x = y
        BY <2>1 DEF ListIs, IsWalk
      <4> HIDE DEF T
      <4> QED
        BY <4>1, <4>2, <4>3
           DEF Bijection, Injection, Surjection, IsInjective
    <3> HIDE DEF T
    <3> QED
      BY <3>1, <3>2, FS_Bijection DEF ExistsBijection
  <2>4. \A b \in OnChain : content[b] # NULL
    BY <2>1, EntrySize DEF OnChain, ToSet, ListIs
  <2>5. cache_block_num = Len(Chain)
    BY <2>1 DEF ListIs
  <2>6. cache_size = FoldSeq(LAMBDA e, n : n + e.size, 0, Contents)
    BY <2>1, TotalIsSize
  <2> QED
    BY <2>2, <2>3, <2>4, <2>5, <2>6 DEF BooksBalance
<1> QED
  BY <1>1, Invariant, PTL

\* The contracts of cache_evict fail only for an object that is larger than
\* the whole cache (cache.c:62-70).
THEOREM OnlyOversizeAsserts == Spec => []AssertsForOversize
<1>1. IInv => AssertsForOversize
  BY DEF IInv
<1> QED
  BY <1>1, Invariant, PTL

\* What cache_find returns holds the object asked for until some call takes
\* the place at the end or evicts (cache.c:48-54, 76, 130-147), however the
\* calls of the threads interleave.
THEOREM FoundStays == Spec => FoundHolds
<1> DEFINE Kept(t) ==
             /\ found'[t] # NULL
             /\ found'[t] = found[t] => Holds(t) /\ end' = end /\ start' = start
             => Holds(t)'
<1>1. IInv /\ Next => \A t \in Thread : Kept(t)
  <2> SUFFICES ASSUME IInv, NEW u \in Thread,
                      Call(u) \/ cache_find(u) \/ cache_insert(u) \/ Ends(u),
                      NEW t \in Thread, found'[t] # NULL,
                      found'[t] = found[t] =>
                        Holds(t) /\ end' = end /\ start' = start
               PROVE  Holds(t)'
    BY DEF Next
  <2> USE ListAssumption DEF IInv
  <2>1. CASE FindMove(u)
    <3>1. PICK k \in DOMAIN Chain : ptr[u] = Chain[k]
      BY <2>1 DEF FindMove, Here, Walking
    <3>2. /\ end' # end /\ end' \in live' /\ found'[u] = end'
          /\ content'[end'] = content[ptr[u]]
      BY <2>1, <3>1, MoveStep
    <3>3. t = u
      BY <2>1, <3>2 DEF FindMove, Return, TypeOK
    <3>4. arg' = arg /\ content[ptr[u]].name = arg[u].name
      BY <2>1 DEF FindMove, Here, Return, Renewed, TypeOK
    <3> QED
      BY <3>2, <3>3, <3>4 DEF Holds
  <2>2. CASE Insert(u)
    <3>1. arg[u] \in Entry
      BY <2>2 DEF Insert, Goto, Calling
    <3>2. end' # end /\ found' = found
      BY <2>2, <3>1, InsertStep DEF Insert
    <3> QED
      BY <3>2
  <2>3. CASE Evict(u)
    <3>1. start' # start /\ found' = found
      BY <2>3, EvictStep DEF Evict, locals
    <3> QED
      BY <3>1
  <2>4. CASE FindLast(u)
    <3>1. content' = content /\ live' = live /\ arg' = arg
          /\ found' = [found EXCEPT ![u] = ptr[u]]
      BY <2>4, WalkIsOn DEF FindLast, Here, Return, list
    <3>2. ptr[u] \in live /\ content[ptr[u]].name = arg[u].name
      BY <2>4 DEF FindLast, Here, Walking, ListIs
    <3> QED
      BY <3>1, <3>2 DEF Holds, TypeOK
  <2>5. CASE Call(u) \/ FindNothing(u)
    <3>1. /\ content' = content /\ live' = live /\ found' = [found EXCEPT ![u] = NULL]
          /\ \A v \in Thread \ {u} : arg'[v] = arg[v]
      BY <2>5 DEF Call, FindNothing, Return, list, TypeOK
    <3> QED
      BY <3>1 DEF Holds, TypeOK
  <2>6. CASE FindLock(u) \/ WalkOn(u) \/ InsertLock(u) \/ Ends(u)
    <3>1. content' = content /\ live' = live /\ found' = found /\ arg' = arg
      BY <2>6 DEF FindLock, WalkOn, InsertLock, Ends, list, locals
    <3> QED
      BY <3>1 DEF Holds
  <2> QED
    BY <2>1, <2>2, <2>3, <2>4, <2>5, <2>6 DEF cache_find, cache_insert
<1>2. IInv /\ [Next]_vars => [\A t \in Thread : Kept(t)]_vars
  BY <1>1
<1> QED
  BY <1>2, Invariant, PTL DEF Spec, FoundHolds

-----------------------------------------------------------------------------
\* Under its lock the list of blocks is the abstract list of cache.h:12-14:
\* every step of cache_find and cache_insert takes away the object used least
\* recently, adds one at the end, moves the first of a name there, or changes
\* nothing.
THEOREM ListRefines == Spec => ImplementsLruList
<1>1. Init => Lru!LruInit
  <2> SUFFICES ASSUME Init
               PROVE  Contents = <<>>
    BY DEF Lru!LruInit
  <2>1. ListIs(Chain) /\ cache_block_num = 0
    BY InitInv DEF IInv, Init
  <2>2. DOMAIN Chain = 1..Len(Chain) /\ Len(Chain) = 0
    BY <2>1, SizesType DEF ListIs
  <2> QED
    BY <2>2 DEF Contents
<1>2. IInv /\ Next => Lru!Hit \/ Lru!Evict \/ Lru!Insert \/ UNCHANGED Contents
  <2> SUFFICES ASSUME IInv, NEW t \in Thread,
                      Call(t) \/ cache_find(t) \/ cache_insert(t) \/ Ends(t)
               PROVE  Lru!Hit \/ Lru!Evict \/ Lru!Insert \/ UNCHANGED Contents
    BY DEF Next
  <2> USE DEF IInv
  <2>1. CASE FindMove(t)
    <3>1. PICK k \in DOMAIN Chain :
            /\ ptr[t] = Chain[k]
            /\ \A j \in 1..(k - 1) : content[Chain[j]].name # arg[t].name
      BY <2>1 DEF FindMove, Here, Walking
    <3>2. Contents' = Append(RemoveAt(Contents, k), Contents[k])
      BY <2>1, <3>1, MoveStep
    <3>3. k \in DOMAIN Contents /\ \A j \in DOMAIN Chain : Contents[j] = content[Chain[j]]
      BY <3>1 DEF Contents
    <3>4. content[Chain[k]].name = arg[t].name
      BY <2>1, <3>1 DEF FindMove, Here
    <3>5. \A j \in 1..(k - 1) : j \in DOMAIN Chain
      <4>1. DOMAIN Chain = 1..Len(Chain) /\ Len(Chain) \in Nat
        BY DEF ListIs
      <4> QED
        BY <4>1
    <3>6. \A j \in 1..(k - 1) : Contents[j].name # Contents[k].name
      BY <3>1, <3>3, <3>4, <3>5
    <3>7. Lru!Hit
      BY <3>2, <3>3, <3>6 DEF Lru!Hit, Lru!RemoveAt, RemoveAt
    <3> QED
      BY <3>7
  <2>2. CASE Insert(t)
    <3>1. arg[t] \in Entry
      BY <2>2 DEF Insert, Goto, Calling
    <3>2. Contents' = Append(Contents, arg[t])
      BY <2>2, <3>1, InsertStep
    <3>3. Lru!Total(Contents) = cache_size
      <4>1. Lru!Total(Contents) = FoldSeq(LAMBDA e, n : n + e.size, 0, Contents)
        BY Zenon
           DEF Lru!Total, Lru!FoldSeq, Lru!FoldFunction, Lru!FoldFunctionOnSet,
               Lru!MapThenFoldSet, FoldSeq, FoldFunction, FoldFunctionOnSet,
               MapThenFoldSet
      <4> QED
        BY <4>1, TotalIsSize
    <3>4. cache_size + arg[t].size <= MaxSize
      BY <2>2, <3>1, EntrySize, ListAssumption DEF Insert, TooFull, TypeOK
    <3>5. Lru!Insert
      BY <3>1, <3>2, <3>3, <3>4 DEF Lru!Insert
    <3> QED
      BY <3>5
  <2>3. CASE Evict(t)
    <3>1. Chain # <<>> /\ Contents' = Tail(Contents)
      BY <2>3, EvictStep
    <3>2. Contents # <<>>
      <4>1. DOMAIN Contents = DOMAIN Chain
        BY DEF Contents
      <4> QED
        BY <3>1, <4>1 DEF ListIs
    <3>3. Lru!Evict
      BY <3>1, <3>2 DEF Lru!Evict
    <3> QED
      BY <3>3
  <2>4. CASE \/ Call(t) \/ FindLock(t) \/ WalkOn(t) \/ FindLast(t)
             \/ FindNothing(t) \/ InsertLock(t) \/ Ends(t)
    <3>1. UNCHANGED list
      BY <2>4 DEF Call, FindLock, WalkOn, FindLast, FindNothing, InsertLock, Ends
    <3> QED
      BY <3>1, SameList
  <2> QED
    BY <2>1, <2>2, <2>3, <2>4 DEF cache_find, cache_insert
<1>3. IInv /\ [Next]_vars => [Lru!Hit \/ Lru!Evict \/ Lru!Insert]_Contents
  <2> SUFFICES ASSUME IInv, UNCHANGED vars
               PROVE  UNCHANGED Contents
    BY <1>2
  <2>1. UNCHANGED list
    BY DEF vars
  <2> QED
    BY <2>1, SameList DEF IInv
<1> QED
  BY <1>1, <1>3, Invariant, PTL DEF Spec, ImplementsLruList, Lru!LruSpec
==============================================================================
