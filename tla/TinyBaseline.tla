---------------------------- MODULE TinyBaseline ----------------------------
(***************************************************************************)
(* tiny_baseline.c: the server that runs each dynamic request as a child   *)
(* process.  main accepts connections; handler threads of the same process *)
(* fork, wait for a child and close the connection.  How main hands a      *)
(* connection over in a cell of the heap is left to Servers.               *)
(*                                                                         *)
(* A forked child has a copy of every descriptor that is open in the       *)
(* server at that moment, those of other threads' connections among them.  *)
(* Wait(NULL) reaps whichever child of the process has ended, not the one  *)
(* the calling thread forked.                                              *)
(*                                                                         *)
(* A definition introduced by "Mistake:" is not used by the model: it is a *)
(* broken variant of the one that follows, for a property to notice.       *)
(***************************************************************************)
EXTENDS Integers, FiniteSets

CONSTANTS
  Thread,  \* handler threads that can be alive at the same time
  Conn,    \* connections that can be open at the same time
  Pid,     \* process ids of children
  NULL     \* no connection, no thread

ASSUME BaselineAssumption ==
  /\ NULL \notin Thread \cup Conn
  /\ IsFiniteSet(Thread) /\ IsFiniteSet(Pid)

VARIABLES
  accepted,  \* the connection main has accepted and not yet handed over
  pc,        \* pc[t]: where thread t is in doit or serve_dynamic
  conn,      \* conn[t]: the argument fd
  proc,      \* proc[p]: "free", "forked", "running" or "zombie"
  parent,    \* parent[p]: the thread that forked child p
  open,      \* the connections open in the server process
  copies     \* copies[p]: the connections open in child p

vars == <<accepted, pc, conn, proc, parent, open, copies>>

Goto(t, from, to) ==
  /\ pc[t] = from
  /\ pc' = [pc EXCEPT ![t] = to]

HeldByChildren == UNION {copies[p] : p \in Pid}

\* Children that have not been waited for.
Unreaped == {p \in Pid : proc[p] # "free"}

Waiting == {t \in Thread : pc[t] = "wait"}

-----------------------------------------------------------------------------
Init ==
  /\ accepted = NULL
  /\ pc = [t \in Thread |-> "idle"]
  /\ conn = [t \in Thread |-> NULL]
  /\ proc = [p \in Pid |-> "free"]
  /\ parent = [p \in Pid |-> NULL]
  /\ open = {}
  /\ copies = [p \in Pid |-> {}]

\* main accepts a connection, which is open from then on.
Accept ==
  /\ accepted = NULL
  /\ \E c \in Conn \ (open \cup HeldByChildren) :
       /\ accepted' = c
       /\ open' = open \cup {c}
  /\ UNCHANGED <<pc, conn, proc, parent, copies>>

\* It starts a thread for it, any time later.
Create(t) ==
  /\ accepted # NULL
  /\ Goto(t, "idle", "serve")
  /\ conn' = [conn EXCEPT ![t] = accepted]
  /\ accepted' = NULL
  /\ UNCHANGED <<proc, parent, open, copies>>

\* An error, or static content: answered by the thread itself.  Mistake:
\* Wait is called after every request.
ServeStaticWaits(t) ==
  /\ Goto(t, "serve", "wait")
  /\ UNCHANGED <<accepted, conn, proc, parent, open, copies>>

ServeStatic(t) ==
  /\ Goto(t, "serve", "leave")
  /\ UNCHANGED <<accepted, conn, proc, parent, open, copies>>

\* Fork: the child has all connections that are open.
Fork(t) ==
  \E p \in Pid :
    /\ proc[p] = "free"
    /\ proc' = [proc EXCEPT ![p] = "forked"]
    /\ parent' = [parent EXCEPT ![p] = t]
    /\ copies' = [copies EXCEPT ![p] = open]

\* Dynamic content.  Mistake: the parent does not wait.
ForkChildUnwaited(t) ==
  /\ Goto(t, "serve", "leave")
  /\ Fork(t)
  /\ UNCHANGED <<accepted, conn, open>>

ForkChild(t) ==
  /\ Goto(t, "serve", "wait")
  /\ Fork(t)
  /\ UNCHANGED <<accepted, conn, open>>

\* Dup2 and Execve in the child.
Execve(p) ==
  /\ proc[p] = "forked"
  /\ proc' = [proc EXCEPT ![p] = "running"]
  /\ UNCHANGED <<accepted, pc, conn, parent, open, copies>>

\* A process exits: its descriptors are closed.
Exit(p) ==
  /\ proc' = [proc EXCEPT ![p] = "zombie"]
  /\ copies' = [copies EXCEPT ![p] = {}]
  /\ UNCHANGED <<accepted, pc, conn, parent, open>>

\* The program has gone since stat has found it.
ExecveFails(p) == proc[p] = "forked" /\ Exit(p)

\* The CGI program ends.  Mistake: it leaves a process of its own behind,
\* which has its descriptors.
ChildLeavesChild(p) ==
  /\ proc[p] = "running"
  /\ proc' = [proc EXCEPT ![p] = "zombie"]
  /\ UNCHANGED <<accepted, pc, conn, parent, open, copies>>

ChildEnds(p) == proc[p] = "running" /\ Exit(p)

\* wait() takes one of the children that have ended, whichever.
Reap ==
  \E p \in Pid :
    /\ proc[p] = "zombie"
    /\ proc' = [proc EXCEPT ![p] = "free"]
    /\ parent' = [parent EXCEPT ![p] = NULL]

\* Wait(NULL) returns with any child that has ended.  Without children it
\* would fail, and Wait call exit: see WaitHasChild.
WaitReturns(t) ==
  /\ Goto(t, "wait", "leave")
  /\ Reap
  /\ UNCHANGED <<accepted, conn, open, copies>>

\* cleanup closes the descriptor and ends the thread.
Cleanup(t) ==
  /\ Goto(t, "leave", "idle")
  /\ open' = open \ {conn[t]}
  /\ conn' = [conn EXCEPT ![t] = NULL]
  /\ UNCHANGED <<accepted, proc, parent, copies>>

Handle(t) == ServeStatic(t) \/ ForkChild(t) \/ WaitReturns(t) \/ Cleanup(t)

Child(p) == Execve(p) \/ ExecveFails(p) \/ ChildEnds(p)

Next ==
  \/ Accept
  \/ \E t \in Thread : Create(t) \/ Handle(t)
  \/ \E p \in Pid : Child(p)

Spec == Init /\ [][Next]_vars

\* A thread that can go on goes on, and CGI programs end.
Fairness ==
  /\ \A t \in Thread : WF_vars(Handle(t))
  /\ \A p \in Pid : WF_vars(Child(p))

FairSpec == Spec /\ Fairness

-----------------------------------------------------------------------------
TypeOK ==
  /\ accepted \in Conn \cup {NULL}
  /\ pc \in [Thread -> {"idle", "serve", "wait", "leave"}]
  /\ conn \in [Thread -> Conn \cup {NULL}]
  /\ proc \in [Pid -> {"free", "forked", "running", "zombie"}]
  /\ parent \in [Pid -> Thread \cup {NULL}]
  /\ open \subseteq Conn
  /\ copies \in [Pid -> SUBSET Conn]

\* Although threads reap each other's children (tiny_baseline.c:217-223),
\* the books balance: there are as many threads in Wait as children not yet
\* waited for.  So no Wait fails for want of a child, which would end the
\* server, and no zombie is left when the server is idle.
WaitHasChild == Cardinality(Waiting) = Cardinality(Unreaped)

\* A child has copies of the connections of all threads, and a client is not
\* told the end of its answer as long as any child has one
\* (tiny_baseline.c:217-223).  Children that have copies are at most as many as
\* threads are in Wait: once nobody waits, no client is kept waiting, whichever
\* thread has reaped which child and whether its program could be run or not.
CopiesAwaited ==
  Cardinality({p \in Pid : copies[p] # {}}) <= Cardinality(Waiting)

\* If there is a thread in Wait at all times, calls of Wait keep returning,
\* whichever children they were meant for (tiny_baseline.c:223): it is never
\* all of them that wait for nothing.
WaitsKeepReturning ==
  <>[](Waiting # {}) => []<><<\E t \in Thread : WaitReturns(t)>>_vars

\* Fork gives every child the connections of all threads, and the child keeps
\* those of the others (tiny_baseline.c:217-222); so a client whose thread is
\* done with it may wait for the end of its answer until somebody else's
\* program ends, but not for ever: it is not passed on to later children.
ClosedInTheEnd ==
  \A c \in Conn : c \notin open ~> c \notin HeldByChildren
=============================================================================
