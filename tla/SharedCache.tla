----------------------------- MODULE SharedCache -----------------------------
(***************************************************************************)
(* What the caches of tiny.c and proxy.c have in common: a singly linked   *)
(* list that starts at a dummy node, and two locks.                        *)
(*                                                                         *)
(* The locks are the readers-writer lock cache->lock behind the wrappers   *)
(* read_lock, write_lock and unlock, and one global mutex (a pthread mutex *)
(* in tiny.c, a semaphore started at 1 in proxy.c).                        *)
(* pthread_rwlock_rdlock is only held back by a writer that has the lock:  *)
(* the code sets no attribute, so waiting writers need not be preferred.   *)
(*                                                                         *)
(* Here and in the modules that extend this one, a definition introduced   *)
(* by "Mistake:" is not used by the model.  It is a broken variant of the  *)
(* definition that follows it, which one of the properties must notice.    *)
(***************************************************************************)
EXTENDS Integers, FiniteSets

CONSTANTS
  Node,   \* addresses Malloc can return for a list node
  Dummy,  \* the address of the dummy node that cache->front points to
  NULL    \* the null pointer, also "no thread" and "no name"

\* There are finitely many addresses.
ASSUME NodeAssumption ==
  /\ Dummy \in Node /\ NULL \notin Node
  /\ IsFiniteSet(Node)

VARIABLES
  next,     \* next[n]: n->next
  readers,  \* the threads that hold cache->lock for reading
  writer,   \* the thread that holds cache->lock for writing, or NULL
  mutex     \* the thread that holds the mutex, or NULL

rwlock == <<readers, writer>>

\* The nodes reached from cache->front, in order, the dummy node left out.
\* (On a cyclic list this goes on round the cycle for
\* as many places as there are addresses, so that some node comes twice.)
Path ==
  LET N == Cardinality(Node)
      At[i \in 0..N] ==
        IF i = 0 THEN Dummy
        ELSE IF At[i-1] = NULL THEN NULL ELSE next[At[i-1]]
  IN  [i \in 1..Cardinality({j \in 1..N : At[j] # NULL}) |-> At[i]]

OnPath == {Path[i] : i \in DOMAIN Path}

-----------------------------------------------------------------------------
read_lock(t) ==
  /\ writer = NULL
  /\ readers' = readers \cup {t}
  /\ UNCHANGED writer

\* Mistake: the writer does not wait for the readers.
write_lock_at_once(t) ==
  /\ writer = NULL
  /\ writer' = t
  /\ UNCHANGED readers

write_lock(t) ==
  /\ writer = NULL
  /\ readers = {}
  /\ writer' = t
  /\ UNCHANGED readers

\* Mistake: only a read lock is ever released.
unlock_reader(t) ==
  /\ readers' = readers \ {t}
  /\ UNCHANGED writer

\* pthread_rwlock_unlock releases whichever way the caller holds the lock.
unlock(t) ==
  /\ readers' = readers \ {t}
  /\ writer' = IF writer = t THEN NULL ELSE writer

mutex_lock(t) ==
  /\ mutex = NULL
  /\ mutex' = t

mutex_unlock == mutex' = NULL
=============================================================================
