------------------------------ MODULE LruList ------------------------------
(***************************************************************************)
(* What cache.h promises: named objects in the order of their last use,    *)
(* with a limit on their total size.  The one used least recently makes    *)
(* room for a new one.  A name may be inserted twice; it is then looked up *)
(* from the front.                                                         *)
(***************************************************************************)
EXTENDS Integers, SequencesExt

CONSTANTS
  Entry,  \* [name, size]: the objects clients insert
  MaxSize  \* MAX_CACHE_SIZE

VARIABLE entries

LruInit == entries = <<>>

Total(s) == FoldSeq(LAMBDA e, n : n + e.size, 0, s)

\* An object that is found is the one used last from then on.
Hit ==
  \E i \in DOMAIN entries :
    /\ \A j \in 1..(i - 1) : entries[j].name # entries[i].name
    /\ entries' = Append(RemoveAt(entries, i), entries[i])

Evict ==
  /\ entries # <<>>
  /\ entries' = Tail(entries)

Insert ==
  \E e \in Entry :
    /\ Total(entries) + e.size <= MaxSize
    /\ entries' = Append(entries, e)

LruSpec == LruInit /\ [][Hit \/ Evict \/ Insert]_entries
=============================================================================
