------------------------------ MODULE CallCache ------------------------------
(***************************************************************************)
(* What tiny.c's cache of shared libraries promises, without threads,      *)
(* pointers or locks: a queue of libraries in the order of their last use, *)
(* least recently used first, and at most one function running, which is   *)
(* always that of the library used last.  Nothing changes the queue while  *)
(* a function runs, so the library of a running function stays loaded.     *)
(*                                                                         *)
(* A library may be in the queue more than once: the code does not look    *)
(* again before it adds.                                                   *)
(***************************************************************************)
EXTENDS Integers, SequencesExt

CONSTANTS
  Lib,       \* the libraries that can be opened
  Callable,  \* those that export a function of their own name
  FileSize,  \* the size of each library
  MaxSize,   \* the size above which libraries are evicted
  None       \* no function is running

VARIABLES
  queue,     \* the cached libraries, least recently used first
  running    \* the library whose function is running, or None

callVars == <<queue, running>>

TotalSize(q) == FoldSeq(LAMBDA l, sum : FileSize[l] + sum, 0, q)

CallInit ==
  /\ queue = << >>
  /\ running = None

\* A hit on a library that is not the most recently used one.
Touch ==
  /\ running = None
  /\ \E i \in 1 .. Len(queue) - 1 :
       queue' = Append(RemoveAt(queue, i), queue[i])
  /\ UNCHANGED running

EvictOldest ==
  /\ running = None
  /\ queue # << >>
  /\ TotalSize(queue) > MaxSize
  /\ queue' = Tail(queue)
  /\ UNCHANGED running

Add ==
  /\ running = None
  /\ TotalSize(queue) <= MaxSize
  /\ \E l \in Lib : queue' = Append(queue, l)
  /\ UNCHANGED running

Call ==
  /\ running = None
  /\ queue # << >>
  /\ Last(queue) \in Callable
  /\ running' = Last(queue)
  /\ UNCHANGED queue

Return ==
  /\ running # None
  /\ running' = None
  /\ UNCHANGED queue

CallNext == Touch \/ EvictOldest \/ Add \/ Call \/ Return

CallSpec == CallInit /\ [][CallNext]_callVars
=============================================================================
