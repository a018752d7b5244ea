------------------------- MODULE TinyCacheRefinement -------------------------
(***************************************************************************)
(* The threaded, pointer-level cache of TinyCache implements the abstract  *)
(* CallCache: the queue is the list read from cache->front, and the        *)
(* running library is that of the thread inside a library function.        *)
(***************************************************************************)
EXTENDS TinyCache, Sequences

Queue == [i \in DOMAIN Path |-> key[Path[i]]]

Running ==
  IF \E t \in Thread : pc[t] \in {"hitrun", "missrun"}
  THEN fname[CHOOSE t \in Thread : pc[t] \in {"hitrun", "missrun"}]
  ELSE NULL

Calls == INSTANCE CallCache WITH queue <- Queue, running <- Running,
                                 None <- NULL

\* Every step of every thread is a step of the abstract cache or leaves it
\* unchanged: the list is in the order of last use, a hit moves one library
\* to the end, eviction takes the oldest and only above the limit, and
\* functions run one at a time, each from the library used last
\* (tiny.c:360-454).
ImplementsCallCache == Calls!CallSpec
=============================================================================
