--------------------------- MODULE TinyCacheProofs ---------------------------
(***************************************************************************)
(* Proofs about TinyCache for any number of threads, libraries and nodes.  *)
(*                                                                         *)
(* The inductive invariant IInv says which locks a thread holds where, how *)
(* the next pointers of the allocated nodes are related (by relations      *)
(* between neighbours only, so that no step needs reachability), what the  *)
(* locals of search_cache point to, and where the running library is.      *)
(***************************************************************************)
EXTENDS TinyCache, TLAPS

\* Who holds which lock follows from where a thread is.
LockDiscipline ==
  /\ \A t \in Thread : writer = t <=> pc[t] \in {"splice", "evict"}
  /\ \A t \in Thread : t \in readers <=> pc[t] \in {"walk", "hit", "hitmutex"}
  /\ writer # NULL => readers = {}
  /\ \A t \in Thread : pc[t] \in MutexHolding => mutex = t

\* Allocated nodes point to allocated nodes, no two to the same one, and
\* cache->back is the one that points nowhere.
ListLinks ==
  /\ Dummy \in live
  /\ back \in live
  /\ \A n \in live : next[n] = NULL <=> n = back
  /\ \A n \in live : next[n] # NULL => next[n] \in live \ {Dummy}
  /\ \A m, n \in live : next[m] = next[n] /\ next[m] # NULL => m = n
  /\ \A n \in live \ {Dummy} : key[n] \in Lib

\* Where the library being resolved or run is in the list.
LastUsed ==
  \A t \in Thread :
    /\ pc[t] \in {"promote", "splice"} => cur[t] # back
    /\ pc[t] \in {"hitsym", "hitrun"} => cur[t] = back
    /\ pc[t] \in {"misssym", "missrun"} => back # Dummy /\ key[back] = fname[t]

\* What is known of the request a thread serves.
Served ==
  \A t \in Thread :
    /\ pc[t] \in {"add", "evict", "misssym"} => fname[t] \in Lib
    /\ pc[t] \in {"hitrun", "missrun"} => fname[t] \in Callable
    /\ runs[t] > 0 => fname[t] \in Callable
    /\ pc[t] = "hitret" => runs[t] > 0
    /\ pc[t] = "idle" => runs[t] = 0

IInv ==
  /\ TypeOK
  /\ LockDiscipline
  /\ ListLinks
  /\ PointersFresh
  /\ LastUsed
  /\ Served
  /\ AnsweredOnLeave

-----------------------------------------------------------------------------
(* The initial state. *)

LEMMA InitInvariant == Init => IInv
<1> SUFFICES ASSUME Init PROVE IInv
  OBVIOUS
<1> USE NameAssumption, NodeAssumption, ThreadAssumption DEF Init
<1>1. TypeOK
  BY DEF TypeOK, Location
<1>2. LockDiscipline
  BY DEF LockDiscipline, MutexHolding
<1>3. ListLinks
  BY DEF ListLinks
<1>4. PointersFresh
  BY DEF PointersFresh
<1>5. LastUsed /\ Served /\ AnsweredOnLeave
  BY DEF LastUsed, Served, AnsweredOnLeave
<1> QED
  BY <1>1, <1>2, <1>3, <1>4, <1>5 DEF IInv

-----------------------------------------------------------------------------
(* Each conjunct is preserved by every step of a thread. *)

LEMMA StepTypeOK ==
  ASSUME IInv, NEW t \in Thread, Request(t) \/ ServeDynamic(t)
  PROVE  TypeOK'
<1> USE NameAssumption, NodeAssumption, ThreadAssumption, SizeAssumption
    DEF TypeOK, Goto, Location
<1> TypeOK
  BY DEF IInv
<1>1. CASE Request(t)
  BY <1>1 DEF Request, rwlock, list
<1>2. CASE StartSearch(t)
  BY <1>2 DEF StartSearch, read_lock, list
<1>3. CASE WalkOn(t)
  BY <1>3 DEF WalkOn, rwlock, list
<1>4. CASE Found(t)
  BY <1>4 DEF Found, locals, rwlock, list
<1>5. CASE NotFound(t)
  BY <1>5 DEF NotFound, unlock, list
<1>6. CASE HitLock(t)
  BY <1>6 DEF HitLock, mutex_lock, locals, rwlock, list
<1>7. CASE HitUnlockRead(t)
  BY <1>7 DEF HitUnlockRead, unlock, locals, list
<1>8. CASE CheckBack(t)
  BY <1>8 DEF CheckBack, locals, rwlock, list
<1>9. CASE PromoteLock(t)
  BY <1>9 DEF PromoteLock, write_lock, locals, list
<1>10. CASE Splice(t)
  <2>1. cur[t] \in Node /\ prev[t] \in Node
    BY <1>10 DEF IInv, PointersFresh, Splice
  <2> QED
    BY <1>10, <2>1 DEF Splice, Moved, unlock, locals
<1>11. CASE HitSymbol(t)
  BY <1>11 DEF HitSymbol, locals, rwlock, list
<1>12. CASE HitReturn(t)
  BY <1>12 DEF HitReturn, mutex_unlock, rwlock, list
<1>13. CASE ReturnHandle(t)
  BY <1>13 DEF ReturnHandle, rwlock, list
<1>14. CASE MissLock(t)
  BY <1>14 DEF MissLock, mutex_lock, locals, rwlock, list
<1>15. CASE OpenLibrary(t)
  BY <1>15 DEF OpenLibrary, locals, rwlock, list
<1>16. CASE OpenFails(t)
  BY <1>16 DEF OpenFails, locals, rwlock, list
<1>17. CASE AddLock(t)
  BY <1>17 DEF AddLock, write_lock, locals, list
<1>18. CASE Evict(t)
  <2>1. next[Dummy] \in live \ {Dummy} /\ key[next[Dummy]] \in Lib
    BY <1>18 DEF IInv, ListLinks, Evict
  <2> QED
    BY <1>18, <2>1 DEF Evict, BackWithout, SizeWithout, Unload, locals, rwlock
<1>19. CASE Insert(t)
  <2>1. fname[t] \in Lib
    BY <1>19 DEF IInv, Served, Insert
  <2> QED
    BY <1>19, <2>1 DEF Insert, unlock, locals
<1>20. CASE MissSymbol(t)
  BY <1>20 DEF MissSymbol, locals, rwlock, list
<1>21. CASE MissReturn(t)
  BY <1>21 DEF MissReturn, mutex_unlock, rwlock, list
<1>22. CASE Cleanup(t)
  BY <1>22 DEF Cleanup, rwlock, list
<1> QED
  BY <1>1, <1>2, <1>3, <1>4, <1>5, <1>6, <1>7, <1>8, <1>9, <1>10, <1>11,
     <1>12, <1>13, <1>14, <1>15, <1>16, <1>17, <1>18, <1>19, <1>20, <1>21,
     <1>22 DEF ServeDynamic, SearchCache, AddToCache

LEMMA StepLockDiscipline ==
  ASSUME IInv, NEW t \in Thread, Request(t) \/ ServeDynamic(t)
  PROVE  LockDiscipline'
<1> USE ThreadAssumption DEF LockDiscipline, MutexHolding, Goto
<1> /\ LockDiscipline
    /\ pc \in [Thread -> Location]
    /\ readers \subseteq Thread
    /\ writer \in Thread \cup {NULL}
  BY DEF IInv, TypeOK
<1>1. CASE Request(t)
  BY <1>1 DEF Request, rwlock
<1>2. CASE StartSearch(t)
  BY <1>2 DEF StartSearch, read_lock
<1>3. CASE WalkOn(t)
  BY <1>3 DEF WalkOn, rwlock
<1>4. CASE Found(t)
  BY <1>4 DEF Found, rwlock
<1>5. CASE NotFound(t)
  BY <1>5 DEF NotFound, unlock
<1>6. CASE HitLock(t)
  BY <1>6 DEF HitLock, mutex_lock, rwlock
<1>7. CASE HitUnlockRead(t)
  BY <1>7 DEF HitUnlockRead, unlock
<1>8. CASE CheckBack(t)
  BY <1>8 DEF CheckBack, rwlock
<1>9. CASE PromoteLock(t)
  BY <1>9 DEF PromoteLock, write_lock
<1>10. CASE Splice(t)
  BY <1>10 DEF Splice, unlock
<1>11. CASE HitSymbol(t)
  BY <1>11 DEF HitSymbol, rwlock
<1>12. CASE HitReturn(t)
  BY <1>12 DEF HitReturn, mutex_unlock, rwlock
<1>13. CASE ReturnHandle(t)
  BY <1>13 DEF ReturnHandle, rwlock
<1>14. CASE MissLock(t)
  BY <1>14 DEF MissLock, mutex_lock, rwlock
<1>15. CASE OpenLibrary(t)
  BY <1>15 DEF OpenLibrary, rwlock
<1>16. CASE OpenFails(t)
  BY <1>16 DEF OpenFails, rwlock
<1>17. CASE AddLock(t)
  BY <1>17 DEF AddLock, write_lock
<1>18. CASE Evict(t)
  BY <1>18 DEF Evict, rwlock
<1>19. CASE Insert(t)
  BY <1>19 DEF Insert, unlock
<1>20. CASE MissSymbol(t)
  BY <1>20 DEF MissSymbol, rwlock
<1>21. CASE MissReturn(t)
  BY <1>21 DEF MissReturn, mutex_unlock, rwlock
<1>22. CASE Cleanup(t)
  BY <1>22 DEF Cleanup, rwlock
<1> QED
  BY <1>1, <1>2, <1>3, <1>4, <1>5, <1>6, <1>7, <1>8, <1>9, <1>10, <1>11,
     <1>12, <1>13, <1>14, <1>15, <1>16, <1>17, <1>18, <1>19, <1>20, <1>21,
     <1>22 DEF ServeDynamic, SearchCache, AddToCache

-----------------------------------------------------------------------------
(* What a step of one thread leaves alone. *)

\* Only three steps write to the list.
LEMMA ListWriters ==
  ASSUME NEW t \in Thread, Request(t) \/ ServeDynamic(t)
  PROVE  UNCHANGED list \/ Splice(t) \/ Evict(t) \/ Insert(t)
BY DEF ServeDynamic, SearchCache, AddToCache, Request, StartSearch, WalkOn,
       Found, NotFound, HitLock, HitUnlockRead, CheckBack, PromoteLock,
       HitSymbol, HitReturn, ReturnHandle, MissLock, OpenLibrary, OpenFails,
       AddLock, MissSymbol, MissReturn, Cleanup, list

\* A thread writes to no local variable of another one.
LEMMA OthersUntouched ==
  ASSUME TypeOK, NEW t \in Thread, Request(t) \/ ServeDynamic(t),
         NEW u \in Thread, u # t
  PROVE  /\ pc'[u] = pc[u] /\ fname'[u] = fname[u]
         /\ cur'[u] = cur[u] /\ prev'[u] = prev[u] /\ runs'[u] = runs[u]
BY DEF TypeOK, Goto, locals, ServeDynamic, SearchCache, AddToCache, Request,
       StartSearch, WalkOn, Found, NotFound, HitLock, HitUnlockRead,
       CheckBack, PromoteLock, Splice, HitSymbol, HitReturn, ReturnHandle,
       MissLock, OpenLibrary, OpenFails, AddLock, Evict, Insert, MissSymbol,
       MissReturn, Cleanup

\* While a thread is in the critical section of the write lock, every other
\* thread is at a place where it holds neither lock.
LEMMA WriterAlone ==
  ASSUME TypeOK, LockDiscipline,
         NEW t \in Thread, pc[t] \in {"splice", "evict"},
         NEW u \in Thread, u # t
  PROVE  pc[u] \notin MutexHolding \cup {"walk", "hit"}
BY ThreadAssumption DEF TypeOK, LockDiscipline, MutexHolding

-----------------------------------------------------------------------------
LEMMA StepListLinks ==
  ASSUME IInv, NEW t \in Thread, Request(t) \/ ServeDynamic(t)
  PROVE  ListLinks'
<1> USE NodeAssumption DEF ListLinks
<1> TypeOK /\ ListLinks
  BY DEF IInv
<1>1. CASE UNCHANGED list
  BY <1>1 DEF list
<1>2. CASE Splice(t)
  <2>1. /\ cur[t] \in live \ {Dummy} /\ prev[t] \in live
        /\ next[prev[t]] = cur[t] /\ cur[t] # back
    BY <1>2 DEF IInv, PointersFresh, LastUsed, Splice, Goto
  <2>2. /\ next' = [n \in Node |->
                      IF n = cur[t] THEN NULL
                      ELSE IF n = back THEN cur[t]
                      ELSE IF n = prev[t] THEN next[cur[t]] ELSE next[n]]
        /\ back' = cur[t] /\ live' = live /\ key' = key
    BY <1>2, <2>1 DEF Splice, Moved, TypeOK
  <2> QED
    BY <2>1, <2>2 DEF TypeOK
<1>3. CASE Evict(t)
  <2> DEFINE first == next[Dummy]
  <2>1. first \in live \ {Dummy} /\ Dummy # back
    BY <1>3 DEF Evict
  <2>2. /\ next' = [n \in Node |->
                      IF n = first THEN NULL
                      ELSE IF n = Dummy THEN next[first] ELSE next[n]]
        /\ back' = IF first = back THEN Dummy ELSE back
        /\ live' = live \ {first}
        /\ key' = [n \in Node |-> IF n = first THEN NULL ELSE key[n]]
    BY <1>3, <2>1 DEF Evict, BackWithout, TypeOK
  <2> HIDE DEF first
  <2>3. \A n \in live : next[n] = first => n = Dummy
    BY <2>1 DEF first
  <2> QED
    BY <2>1, <2>2, <2>3 DEF TypeOK, first
<1>4. CASE Insert(t)
  <2>1. fname[t] \in Lib
    BY <1>4 DEF IInv, Served, Insert, Goto
  <2>2. PICK n \in Node \ live :
          /\ live' = live \cup {n}
          /\ key' = [key EXCEPT ![n] = fname[t]]
          /\ next' = [next EXCEPT ![n] = NULL, ![back] = n]
          /\ back' = n
    BY <1>4 DEF Insert
  <2> QED
    BY <2>1, <2>2 DEF TypeOK
<1> QED
  BY <1>1, <1>2, <1>3, <1>4, ListWriters

LEMMA StepPointersFresh ==
  ASSUME IInv, NEW t \in Thread, Request(t) \/ ServeDynamic(t)
  PROVE  PointersFresh'
<1> SUFFICES ASSUME NEW u \in Thread
             PROVE  PointersFresh!(u)'
  BY DEF PointersFresh
<1> TypeOK /\ LockDiscipline /\ ListLinks /\ PointersFresh /\ LastUsed
  BY DEF IInv
<1>1. CASE u # t
  <2>1. /\ pc'[u] = pc[u] /\ fname'[u] = fname[u]
        /\ cur'[u] = cur[u] /\ prev'[u] = prev[u]
    BY <1>1, OthersUntouched
  <2>2. CASE UNCHANGED list
    BY <2>1, <2>2 DEF PointersFresh, list
  <2>3. CASE pc[t] \in {"splice", "evict"}
    <3>1. pc[u] \notin MutexHolding \cup {"walk", "hit"}
      BY <1>1, <2>3, WriterAlone
    <3> QED
      BY <2>1, <3>1 DEF MutexHolding
  <2> QED
    BY <2>2, <2>3, ListWriters DEF Splice, Evict, Insert, Goto
<1>2. CASE u = t
  <2> USE <1>2 DEF PointersFresh, Goto, TypeOK, list, locals
  <2>1. CASE StartSearch(t)
    BY <2>1, NodeAssumption DEF StartSearch, ListLinks
  <2>2. CASE WalkOn(t)
    BY <2>2, NodeAssumption DEF WalkOn, ListLinks
  <2>3. CASE Found(t)
    <3>1. cur[t] # Dummy
      BY <2>3 DEF Found, ListLinks
    <3> QED
      BY <2>3, <3>1 DEF Found
  <2>4. CASE HitLock(t) \/ HitUnlockRead(t) \/ CheckBack(t) \/ PromoteLock(t)
    BY <2>4 DEF HitLock, HitUnlockRead, CheckBack, PromoteLock
  <2>5. CASE Splice(t)
    BY <2>5 DEF Splice
  <2>6. CASE HitSymbol(t)
    BY <2>6 DEF HitSymbol
  <2>7. CASE pc'[t] \notin {"walk", "hit", "hitmutex", "hitcheck", "promote",
                            "splice", "hitsym", "hitrun"}
    BY <2>7
  <2> QED
    BY <2>1, <2>2, <2>3, <2>4, <2>5, <2>6, <2>7
    DEF ServeDynamic, SearchCache, AddToCache, Request, NotFound, HitReturn,
        ReturnHandle, MissLock, OpenLibrary, OpenFails, AddLock, Evict,
        Insert, MissSymbol, MissReturn, Cleanup
<1> QED
  BY <1>1, <1>2

LEMMA StepLastUsed ==
  ASSUME IInv, NEW t \in Thread, Request(t) \/ ServeDynamic(t)
  PROVE  LastUsed'
<1> SUFFICES ASSUME NEW u \in Thread
             PROVE  LastUsed!(u)'
  BY DEF LastUsed
<1> TypeOK /\ LockDiscipline /\ ListLinks /\ PointersFresh /\ LastUsed /\ Served
  BY DEF IInv
<1>1. CASE u # t
  <2>1. pc'[u] = pc[u] /\ fname'[u] = fname[u] /\ cur'[u] = cur[u]
    BY <1>1, OthersUntouched
  <2>2. CASE UNCHANGED list
    BY <2>1, <2>2 DEF LastUsed, list
  <2>3. CASE pc[t] \in {"splice", "evict"}
    <3>1. pc[u] \notin MutexHolding
      BY <1>1, <2>3, WriterAlone
    <3> QED
      BY <2>1, <3>1 DEF MutexHolding
  <2> QED
    BY <2>2, <2>3, ListWriters DEF Splice, Evict, Insert, Goto
<1>2. CASE u = t
  <2> USE <1>2 DEF LastUsed, Goto, TypeOK, list, locals
  <2>1. CASE CheckBack(t) \/ PromoteLock(t)
    BY <2>1 DEF CheckBack, PromoteLock
  <2>2. CASE Splice(t)
    BY <2>2 DEF Splice
  <2>3. CASE HitSymbol(t)
    BY <2>3 DEF HitSymbol
  <2>4. CASE Insert(t)
    <3>1. PICK n \in Node \ live : /\ key' = [key EXCEPT ![n] = fname[t]]
                                   /\ back' = n
      BY <2>4 DEF Insert
    <3>2. n # Dummy
      BY <3>1 DEF ListLinks
    <3> QED
      BY <2>4, <3>1, <3>2 DEF Insert
  <2>5. CASE MissSymbol(t)
    BY <2>5 DEF MissSymbol
  <2>6. CASE pc'[t] \notin {"promote", "splice", "hitsym", "hitrun",
                            "misssym", "missrun"}
    BY <2>6
  <2> QED
    BY <2>1, <2>2, <2>3, <2>4, <2>5, <2>6
    DEF ServeDynamic, SearchCache, AddToCache, Request, StartSearch, WalkOn,
        Found, NotFound, HitLock, HitUnlockRead, HitReturn, ReturnHandle,
        MissLock, OpenLibrary, OpenFails, AddLock, Evict, MissReturn, Cleanup
<1> QED
  BY <1>1, <1>2

LEMMA StepServed ==
  ASSUME IInv, NEW t \in Thread, Request(t) \/ ServeDynamic(t)
  PROVE  Served' /\ AnsweredOnLeave'
<1> SUFFICES ASSUME NEW u \in Thread
             PROVE  Served!(u)' /\ AnsweredOnLeave!(u)'
  BY DEF Served, AnsweredOnLeave
<1> TypeOK /\ PointersFresh /\ Served /\ AnsweredOnLeave
  BY DEF IInv
<1>1. CASE u # t
  <2>1. pc'[u] = pc[u] /\ fname'[u] = fname[u] /\ runs'[u] = runs[u]
    BY <1>1, OthersUntouched
  <2> QED
    BY <2>1 DEF Served, AnsweredOnLeave
<1>2. CASE u = t
  <2> USE <1>2, NameAssumption DEF Served, AnsweredOnLeave, Goto, TypeOK, locals
  <2>1. CASE Request(t)
    BY <2>1 DEF Request
  <2>2. CASE HitSymbol(t)
    BY <2>2 DEF HitSymbol, PointersFresh
  <2>3. CASE HitReturn(t) \/ MissReturn(t)
    BY <2>3 DEF HitReturn, MissReturn
  <2>4. CASE ReturnHandle(t)
    BY <2>4 DEF ReturnHandle
  <2>5. CASE Cleanup(t)
    BY <2>5 DEF Cleanup
  <2>6. CASE OpenLibrary(t) \/ OpenFails(t) \/ MissLock(t) \/ MissSymbol(t)
    BY <2>6 DEF OpenLibrary, OpenFails, MissLock, MissSymbol
  <2>7. CASE AddLock(t) \/ Evict(t) \/ Insert(t)
    BY <2>7 DEF AddLock, Evict, Insert
  <2>8. CASE \/ StartSearch(t) \/ WalkOn(t) \/ Found(t) \/ NotFound(t)
             \/ HitLock(t) \/ HitUnlockRead(t) \/ CheckBack(t)
             \/ PromoteLock(t) \/ Splice(t)
    BY <2>8 DEF StartSearch, WalkOn, Found, NotFound, HitLock,
                HitUnlockRead, CheckBack, PromoteLock, Splice
  <2> QED
    BY <2>1, <2>2, <2>3, <2>4, <2>5, <2>6, <2>7, <2>8
    DEF ServeDynamic, SearchCache, AddToCache
<1> QED
  BY <1>1, <1>2

-----------------------------------------------------------------------------
(* IInv is an invariant of the specification. *)

LEMMA StepInvariant == IInv /\ [Next]_vars => IInv'
<1> SUFFICES ASSUME IInv, [Next]_vars PROVE IInv'
  OBVIOUS
<1>1. ASSUME NEW t \in Thread, Request(t) \/ ServeDynamic(t)
      PROVE  IInv'
  BY <1>1, StepTypeOK, StepLockDiscipline, StepListLinks, StepPointersFresh,
     StepLastUsed, StepServed DEF IInv
<1>2. CASE UNCHANGED vars
  BY <1>2 DEF IInv, vars, locals, rwlock, list, TypeOK, LockDiscipline,
              ListLinks, PointersFresh, LastUsed, Served, AnsweredOnLeave
<1> QED
  BY <1>1, <1>2 DEF Next

\* The inductive invariant holds in every state the server can reach.
THEOREM Invariant == Spec => []IInv
BY InitInvariant, StepInvariant, PTL DEF Spec

\* Every variable has its type: in particular cache->back is always an
\* address, and a thread that splices or evicts never follows NULL.
THEOREM TypeCorrect == Spec => []TypeOK
<1>1. IInv => TypeOK
  BY DEF IInv
<1> QED
  BY Invariant, <1>1, PTL

\* What search_cache remembers from its walk under the read lock is still
\* true when it splices under the write lock, because it takes the mutex in
\* between (tiny.c:424-432).
THEOREM FreshPointers == Spec => []PointersFresh
<1>1. IInv => PointersFresh
  BY DEF IInv
<1> QED
  BY Invariant, <1>1, PTL

\* While a library function runs (tiny.c:299, 445), no other thread is in a
\* place where it could change the list or run another one, and the running
\* library is the last in the list, where evict_lru comes last.
THEOREM ProtectedRuns == Spec => []RunsProtected
<1>1. IInv => RunsProtected
  <2> SUFFICES ASSUME IInv, NEW t \in Thread, pc[t] \in {"hitrun", "missrun"}
               PROVE  RunsProtected!(t)!2
    BY DEF RunsProtected
  <2> TypeOK /\ LockDiscipline /\ ListLinks /\ PointersFresh /\ LastUsed
    BY DEF IInv
  <2>1. \A u \in Thread \ {t} : pc[u] \notin MutexHolding
    <3>1. pc[t] \in MutexHolding
      BY DEF MutexHolding
    <3> QED
      BY <3>1 DEF LockDiscipline
  <2>2. CASE pc[t] = "hitrun"
    BY <2>1, <2>2 DEF PointersFresh, LastUsed
  <2>3. CASE pc[t] = "missrun"
    BY <2>1, <2>3 DEF LastUsed, ListLinks
  <2> QED
    BY <2>2, <2>3
<1> QED
  BY Invariant, <1>1, PTL

\* A request is answered exactly if its function exists, whichever of the
\* paths through search_cache and serve_dynamic it took.
THEOREM Answered == Spec => []AnsweredOnLeave
<1>1. IInv => AnsweredOnLeave
  BY DEF IInv
<1> QED
  BY Invariant, <1>1, PTL

\* cache->size exceeds the limit by at most one library (tiny.c:396-403):
\* only Insert adds to it, and only when it is within the limit.
THEOREM BoundedOvershoot == Spec => []OvershootBounded
<1> USE SizeAssumption, NameAssumption
<1>1. Init => OvershootBounded
  BY DEF Init, OvershootBounded
<1>2. IInv /\ OvershootBounded /\ [Next]_vars => OvershootBounded'
  <2> SUFFICES ASSUME IInv, OvershootBounded, [Next]_vars
               PROVE  OvershootBounded'
    OBVIOUS
  <2> TypeOK
    BY DEF IInv
  <2>1. CASE size' = size
    BY <2>1 DEF OvershootBounded
  <2>2. ASSUME NEW t \in Thread, Evict(t)
        PROVE  OvershootBounded'
    <3>1. key[next[Dummy]] \in Lib
      BY <2>2 DEF IInv, ListLinks, Evict
    <3>2. size' \in Int /\ size' < size
      BY <2>2, <3>1 DEF Evict, SizeWithout, TypeOK
    <3> QED
      BY <3>2 DEF OvershootBounded, TypeOK
  <2>3. ASSUME NEW t \in Thread, Insert(t)
        PROVE  OvershootBounded'
    <3>1. fname[t] \in Lib
      BY <2>3 DEF IInv, Served, Insert, Goto
    <3> QED
      BY <2>3, <3>1 DEF Insert, OverLimit, OvershootBounded, TypeOK
  <2>4. CASE \E t \in Thread : Splice(t)
    BY <2>1, <2>4 DEF Splice
  <2> QED
    BY <2>1, <2>2, <2>3, <2>4, ListWriters DEF Next, vars, list
<1> QED
  BY <1>1, <1>2, Invariant, PTL DEF Spec

-----------------------------------------------------------------------------
(* A server that has locked up stays so. *)

\* Only its holder can change a mutex that is locked.
LEMMA MutexKept ==
  ASSUME IInv, NEW t \in Thread, Request(t) \/ ServeDynamic(t),
         mutex # NULL, mutex # t
  PROVE  mutex' = mutex
<1>1. pc[t] \notin MutexHolding
  BY DEF IInv, LockDiscipline
<1> QED
  BY <1>1
  DEF MutexHolding, Goto, mutex_lock, mutex_unlock, ServeDynamic, SearchCache,
      AddToCache, Request, StartSearch, WalkOn, Found, NotFound, HitLock,
      HitUnlockRead, CheckBack, PromoteLock, Splice, HitSymbol, HitReturn,
      ReturnHandle, MissLock, OpenLibrary, OpenFails, AddLock, Evict, Insert,
      MissSymbol, MissReturn, Cleanup

\* No thread gives up the read lock of another one.
LEMMA ReaderKept ==
  ASSUME NEW t \in Thread, Request(t) \/ ServeDynamic(t),
         NEW u \in readers, u # t
  PROVE  u \in readers'
BY DEF read_lock, write_lock, unlock, rwlock, ServeDynamic, SearchCache,
       AddToCache, Request, StartSearch, WalkOn, Found, NotFound, HitLock,
       HitUnlockRead, CheckBack, PromoteLock, Splice, HitSymbol, HitReturn,
       ReturnHandle, MissLock, OpenLibrary, OpenFails, AddLock, Evict, Insert,
       MissSymbol, MissReturn, Cleanup

\* Nobody can unlock a mutex that serve_dynamic has not unlocked.
LEMMA StepMutexLost ==
  ASSUME IInv, NEW s \in Thread, Request(s) \/ ServeDynamic(s), MutexLost
  PROVE  MutexLost'
<1> TypeOK
  BY DEF IInv
<1>1. CASE mutex = Orphan
  BY <1>1, MutexKept, ThreadAssumption DEF MutexLost
<1>2. ASSUME NEW t \in Thread, mutex = t, pc[t] = "leave"
      PROVE  MutexLost'
  <2>1. CASE s = t
    <3>1. Cleanup(t)
      BY <1>2, <2>1 DEF Goto, ServeDynamic, SearchCache, AddToCache, Request,
         StartSearch, WalkOn, Found, NotFound, HitLock, HitUnlockRead,
         CheckBack, PromoteLock, Splice, HitSymbol, HitReturn, ReturnHandle,
         MissLock, OpenLibrary, OpenFails, AddLock, Evict, Insert, MissSymbol,
         MissReturn
    <3> QED
      BY <1>2, <3>1 DEF Cleanup, MutexLost
  <2>2. CASE s # t
    <3>1. mutex' = t /\ pc'[t] = "leave"
      BY <1>2, <2>2, MutexKept, OthersUntouched, ThreadAssumption
    <3> QED
      BY <3>1 DEF MutexLost
  <2> QED
    BY <2>1, <2>2
<1> QED
  BY <1>1, <1>2 DEF MutexLost

LEMMA StepStuck ==
  ASSUME IInv, NEW s \in Thread, Request(s) \/ ServeDynamic(s), Stuck
  PROVE  Stuck'
<1>1. CASE LockCycle
  <2>1. PICK t \in Thread, u \in Thread :
          /\ mutex = t /\ pc[t] \in {"promote", "add"}
          /\ u \in readers /\ pc[u] = "hit"
    BY <1>1 DEF LockCycle
  <2> TypeOK
    BY DEF IInv
  <2>2. s # t
    BY <2>1 DEF Goto, write_lock, ServeDynamic, SearchCache, AddToCache,
       Request, StartSearch, WalkOn, Found, NotFound, HitLock, HitUnlockRead,
       CheckBack, PromoteLock, Splice, HitSymbol, HitReturn, ReturnHandle,
       MissLock, OpenLibrary, OpenFails, AddLock, Evict, Insert, MissSymbol,
       MissReturn, Cleanup
  <2>3. s # u
    BY <2>1, ThreadAssumption DEF Goto, mutex_lock, ServeDynamic, SearchCache,
       AddToCache, Request, StartSearch, WalkOn, Found, NotFound, HitLock,
       HitUnlockRead, CheckBack, PromoteLock, Splice, HitSymbol, HitReturn,
       ReturnHandle, MissLock, OpenLibrary, OpenFails, AddLock, Evict, Insert,
       MissSymbol, MissReturn, Cleanup
  <2>4. mutex' = t
    BY <2>1, <2>2, MutexKept, ThreadAssumption
  <2>5. pc'[t] = pc[t] /\ pc'[u] = pc[u] /\ u \in readers'
    BY <2>1, <2>2, <2>3, OthersUntouched, ReaderKept
  <2> QED
    BY <2>1, <2>4, <2>5 DEF Stuck, LockCycle
<1>2. CASE MutexLost
  BY <1>2, StepMutexLost DEF Stuck
<1> QED
  BY <1>1, <1>2 DEF Stuck

\* Neither of the two lock-ups is ever resolved, by any number of threads:
\* the one thread that could release the lock waits for it, or is gone.
THEOREM LockUpIsForever == Spec => StuckForever
<1>1. IInv /\ [Next]_vars => [Stuck => Stuck']_vars
  BY StepStuck DEF Next
<1> QED
  BY Invariant, <1>1, PTL DEF Spec, StuckForever

-----------------------------------------------------------------------------
(* A library without its function is never hit. *)

\* The thread that is about to look up the function of the last node.
BeingResolved(n) ==
  n = back /\ \E t \in Thread : pc[t] = "misssym" /\ mutex = t

\* As long as the mutex is not lost, every cached library has its function,
\* except the one whose function is being looked up for the first time.
CacheResolves ==
  MutexLost \/ \A n \in live \ {Dummy} : key[n] \in Callable \/ BeingResolved(n)

LEMMA StepCacheResolves ==
  ASSUME IInv, CacheResolves, NEW t \in Thread, Request(t) \/ ServeDynamic(t)
  PROVE  CacheResolves'
<1> TypeOK /\ LockDiscipline /\ ListLinks /\ LastUsed
  BY DEF IInv
<1>1. CASE MutexLost
  BY <1>1, StepMutexLost DEF CacheResolves
<1>2. CASE ~MutexLost /\ UNCHANGED list
  <2>1. SUFFICES ASSUME ~MutexLost', NEW n \in live \ {Dummy}
                 PROVE  key[n] \in Callable \/ BeingResolved(n)'
    BY <1>2 DEF CacheResolves, list
  <2>2. CASE key[n] \in Callable
    BY <2>2
  <2>3. CASE BeingResolved(n)
    <3>1. PICK u \in Thread : n = back /\ pc[u] = "misssym" /\ mutex = u
      BY <2>3 DEF BeingResolved
    <3>2. CASE u = t
      <4>1. MissSymbol(t)
        BY <3>1, <3>2 DEF Goto, ServeDynamic, SearchCache, AddToCache,
           Request, StartSearch, WalkOn, Found, NotFound, HitLock,
           HitUnlockRead, CheckBack, PromoteLock, Splice, HitSymbol,
           HitReturn, ReturnHandle, MissLock, OpenLibrary, OpenFails, AddLock,
           Evict, Insert, MissReturn, Cleanup
      <4>2. pc'[t] = "leave" => MutexLost'
        BY <3>1, <3>2, <4>1 DEF MissSymbol, MutexLost
      <4>3. fname[t] \in Callable
        BY <2>1, <4>1, <4>2 DEF MissSymbol, Goto, TypeOK
      <4> QED
        BY <3>1, <3>2, <4>3 DEF LastUsed
    <3>3. CASE u # t
      <4>1. pc'[u] = "misssym" /\ mutex' = u
        BY <3>1, <3>3, MutexKept, OthersUntouched, ThreadAssumption
      <4> QED
        BY <1>2, <3>1, <4>1 DEF BeingResolved, list
    <3> QED
      BY <3>2, <3>3
  <2> QED
    BY <1>2, <2>2, <2>3 DEF CacheResolves
<1>3. CASE ~MutexLost /\ pc[t] \in {"splice", "evict"}
  <2>1. mutex = t
    BY <1>3 DEF LockDiscipline, MutexHolding
  <2>2. \A n \in live \ {Dummy} : key[n] \in Callable
    BY <1>3, <2>1 DEF CacheResolves, BeingResolved
  <2>3. CASE Splice(t)
    BY <2>2, <2>3 DEF Splice, CacheResolves
  <2>4. CASE Evict(t)
    BY <2>2, <2>4 DEF Evict, CacheResolves, TypeOK
  <2>5. CASE Insert(t)
    <3>1. pc'[t] = "misssym" /\ mutex' = t
      BY <2>1, <2>5 DEF Insert, Goto, TypeOK
    <3>2. PICK n \in Node \ live : /\ live' = live \cup {n}
                                   /\ key' = [key EXCEPT ![n] = fname[t]]
                                   /\ back' = n
      BY <2>5 DEF Insert
    <3>3. BeingResolved(n)'
      BY <3>1, <3>2 DEF BeingResolved
    <3>4. \A m \in live \ {Dummy} : key'[m] \in Callable
      BY <2>2, <3>2 DEF TypeOK
    <3> QED
      BY <3>2, <3>3, <3>4 DEF CacheResolves
  <2>6. CASE UNCHANGED list
    BY <1>2, <1>3, <2>6
  <2> QED
    BY <2>3, <2>4, <2>5, <2>6, ListWriters
<1> QED
  BY <1>1, <1>2, <1>3, ListWriters DEF Splice, Evict, Insert, Goto

\* The error path of search_cache (tiny.c:439-443), on which the mutex would
\* be locked twice by one thread, is never taken.
THEOREM ResolvedHits == Spec => []HitResolves
<1>1. Init => CacheResolves
  BY DEF Init, CacheResolves
<1>2. IInv /\ CacheResolves /\ [Next]_vars => CacheResolves'
  <2> SUFFICES ASSUME IInv, CacheResolves, [Next]_vars
               PROVE  CacheResolves'
    OBVIOUS
  <2>1. CASE UNCHANGED vars
    BY <2>1 DEF vars, list, CacheResolves, BeingResolved, MutexLost
  <2> QED
    BY <2>1, StepCacheResolves DEF Next
<1>3. IInv /\ CacheResolves => HitResolves
  <2> SUFFICES ASSUME IInv, CacheResolves, NEW t \in Thread, pc[t] = "hitsym"
               PROVE  key[cur[t]] \in Callable
    BY DEF HitResolves
  <2>1. mutex = t
    BY DEF IInv, LockDiscipline, MutexHolding
  <2>2. cur[t] \in live \ {Dummy}
    BY DEF IInv, PointersFresh
  <2>3. ~MutexLost
    BY <2>1, ThreadAssumption DEF MutexLost
  <2>4. ~BeingResolved(cur[t])
    BY <2>1 DEF BeingResolved
  <2> QED
    BY <2>2, <2>3, <2>4 DEF CacheResolves
<1> QED
  BY <1>1, <1>2, <1>3, Invariant, PTL DEF Spec
=============================================================================
