------------------------- MODULE TinyBaselineProofs -------------------------
(***************************************************************************)
(* Proofs about TinyBaseline for any number of threads, connections and    *)
(* children: threads that wait and children to be waited for balance, and  *)
(* children that have copies of connections are not more than either.      *)
(***************************************************************************)
EXTENDS TinyBaseline, FiniteSetTheorems, TLAPS

LEMMA BaselineTypeCorrect == Spec => []TypeOK
<1> USE BaselineAssumption DEF TypeOK
<1>1. Init => TypeOK
  BY DEF Init
<1>2. TypeOK /\ [Next]_vars => TypeOK'
  <2> SUFFICES ASSUME TypeOK, [Next]_vars PROVE TypeOK'
    OBVIOUS
  <2> USE DEF Goto
  <2>1. CASE Accept \/ \E t \in Thread : Create(t)
    BY <2>1 DEF Accept, Create
  <2>2. ASSUME NEW t \in Thread, ServeStatic(t) PROVE TypeOK'
    BY <2>2 DEF ServeStatic
  <2>3. ASSUME NEW t \in Thread, ForkChild(t) PROVE TypeOK'
    BY <2>3 DEF ForkChild, Fork
  <2>4. ASSUME NEW t \in Thread, WaitReturns(t) PROVE TypeOK'
    BY <2>4 DEF WaitReturns, Reap
  <2>5. ASSUME NEW t \in Thread, Cleanup(t) PROVE TypeOK'
    BY <2>5 DEF Cleanup
  <2>6. ASSUME NEW p \in Pid, Child(p) PROVE TypeOK'
    BY <2>6 DEF Child, Execve, ExecveFails, ChildEnds, Exit
  <2>7. CASE UNCHANGED vars
    BY <2>7 DEF vars
  <2> QED
    BY <2>1, <2>2, <2>3, <2>4, <2>5, <2>6, <2>7 DEF Next, Handle
<1> QED
  BY <1>1, <1>2, PTL DEF Spec

-----------------------------------------------------------------------------
\* The sets that are counted are finite, so adding an element to one makes
\* it larger by one, and removing one makes it smaller by one.
LEMMA CountedFinite == IsFiniteSet(Waiting) /\ IsFiniteSet(Unreaped)
BY BaselineAssumption, FS_Subset DEF Waiting, Unreaped

\* A fork adds a thread that waits and a child to be waited for; a Wait that
\* returns removes one of each; no other step changes either set.
LEMMA StepBalance ==
  ASSUME TypeOK, WaitHasChild, [Next]_vars
  PROVE  WaitHasChild'
<1> USE DEF TypeOK, Goto
<1>1. ASSUME NEW t \in Thread, ForkChild(t)
      PROVE  WaitHasChild'
  <2>1. PICK p \in Pid : /\ proc[p] = "free"
                         /\ proc' = [proc EXCEPT ![p] = "forked"]
    BY <1>1 DEF ForkChild, Fork
  <2>2. Unreaped' = Unreaped \cup {p} /\ p \notin Unreaped
    BY <2>1 DEF Unreaped
  <2>3. Waiting' = Waiting \cup {t} /\ t \notin Waiting
    BY <1>1 DEF ForkChild, Waiting
  <2>4. Cardinality(Unreaped') = Cardinality(Unreaped) + 1
    BY <2>2, CountedFinite, FS_AddElement
  <2>5. Cardinality(Waiting') = Cardinality(Waiting) + 1
    BY <2>3, CountedFinite, FS_AddElement
  <2> QED
    BY <2>4, <2>5 DEF WaitHasChild
<1>2. ASSUME NEW t \in Thread, WaitReturns(t)
      PROVE  WaitHasChild'
  <2>1. PICK p \in Pid : /\ proc[p] = "zombie"
                         /\ proc' = [proc EXCEPT ![p] = "free"]
    BY <1>2 DEF WaitReturns, Reap
  <2>2. Unreaped' = Unreaped \ {p} /\ p \in Unreaped
    BY <2>1 DEF Unreaped
  <2>3. Waiting' = Waiting \ {t} /\ t \in Waiting
    BY <1>2 DEF WaitReturns, Waiting
  <2>4. Cardinality(Unreaped') = Cardinality(Unreaped) - 1
    BY <2>2, CountedFinite, FS_RemoveElement
  <2>5. Cardinality(Waiting') = Cardinality(Waiting) - 1
    BY <2>3, CountedFinite, FS_RemoveElement
  <2> QED
    BY <2>4, <2>5 DEF WaitHasChild
<1>3. ASSUME Waiting' = Waiting, Unreaped' = Unreaped
      PROVE  WaitHasChild'
  BY <1>3 DEF WaitHasChild
<1>4. ASSUME NEW t \in Thread, Create(t) \/ ServeStatic(t) \/ Cleanup(t)
      PROVE  Waiting' = Waiting /\ Unreaped' = Unreaped
  BY <1>4 DEF Create, ServeStatic, Cleanup, Waiting, Unreaped
<1>5. ASSUME NEW p \in Pid, Child(p)
      PROVE  Waiting' = Waiting /\ Unreaped' = Unreaped
  BY <1>5 DEF Child, Execve, ExecveFails, ChildEnds, Exit, Waiting, Unreaped
<1>6. CASE Accept \/ UNCHANGED vars
  BY <1>3, <1>6 DEF Accept, vars, Waiting, Unreaped
<1> QED
  BY <1>1, <1>2, <1>3, <1>4, <1>5, <1>6 DEF Next, Handle

\* There are always as many threads in Wait as children not yet waited for,
\* for any number of threads: no Wait fails, and an idle server has no
\* zombies (tiny_baseline.c:217-223).
THEOREM WaitsBalance == Spec => []WaitHasChild
<1>1. Init => WaitHasChild
  <2> SUFFICES ASSUME Init PROVE Waiting = {} /\ Unreaped = {}
    BY DEF WaitHasChild
  <2> QED
    BY DEF Init, Waiting, Unreaped
<1>2. TypeOK /\ WaitHasChild /\ [Next]_vars => WaitHasChild'
  BY StepBalance
<1> QED
  BY <1>1, <1>2, BaselineTypeCorrect, PTL DEF Spec

\* Only a child that has not ended has connections open.
HolderLives == \A p \in Pid : copies[p] # {} => proc[p] \in {"forked", "running"}

\* Fork gives copies to a child that is about to run, and a child gives them up
\* where it ends.
LEMMA StepHolders ==
  ASSUME TypeOK, HolderLives, [Next]_vars
  PROVE  HolderLives'
<1> USE DEF TypeOK, HolderLives
<1>1. CASE Accept \/ UNCHANGED vars
  BY <1>1 DEF Accept, vars
<1>2. ASSUME NEW t \in Thread, Create(t) \/ ServeStatic(t) \/ Cleanup(t) PROVE HolderLives'
  BY <1>2 DEF Create, ServeStatic, Cleanup
<1>3. ASSUME NEW t \in Thread, ForkChild(t) PROVE HolderLives'
  BY <1>3 DEF ForkChild, Fork
<1>4. ASSUME NEW t \in Thread, WaitReturns(t) PROVE HolderLives'
  BY <1>4 DEF WaitReturns, Reap
<1>5. ASSUME NEW p \in Pid, Child(p) PROVE HolderLives'
  BY <1>5 DEF Child, Execve, ExecveFails, ChildEnds, Exit
<1> QED
  BY <1>1, <1>2, <1>3, <1>4, <1>5 DEF Next, Handle

\* Children that have copies of connections are at most as many as threads are
\* in Wait (tiny_baseline.c:217-223), for any number of threads, connections
\* and children.
THEOREM CopiesAreAwaited == Spec => []CopiesAwaited
<1>1. Init => HolderLives
  BY DEF Init, HolderLives
<1>2. TypeOK /\ HolderLives /\ [Next]_vars => HolderLives'
  BY StepHolders
<1>3. HolderLives /\ WaitHasChild => CopiesAwaited
  <2> SUFFICES ASSUME HolderLives, WaitHasChild PROVE CopiesAwaited
    OBVIOUS
  <2> DEFINE Holders == {p \in Pid : copies[p] # {}}
  <2>1. Holders \subseteq Unreaped
    BY DEF HolderLives, Unreaped
  <2>2. Cardinality(Holders) <= Cardinality(Unreaped)
    BY <2>1, CountedFinite, FS_Subset
  <2> QED
    BY <2>2 DEF CopiesAwaited, WaitHasChild
<1> QED
  BY <1>1, <1>2, <1>3, WaitsBalance, BaselineTypeCorrect, PTL DEF Spec
=============================================================================
