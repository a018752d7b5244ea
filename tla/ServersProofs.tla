--------------------------- MODULE ServersProofs ---------------------------
(***************************************************************************)
(* Proofs about the four servers, for any number of threads, descriptors   *)
(* and cells.                                                              *)
(***************************************************************************)
EXTENDS Servers, TLAPS, FiniteSetTheorems

-----------------------------------------------------------------------------
(* Whichever program it is, a step is one of these. *)
LEMMA StepKinds ==
  ASSUME [Next]_vars
  PROVE  \/ UNCHANGED vars
         \/ UNCHANGED library /\ Main
         \/ UNCHANGED library /\ FileChanges
         \/ \E t \in Thread :
              \/ serve_dynamic(t)
              \/ /\ UNCHANGED library
                 /\ \/ NoStat(t) /\ server = "two_tiny"
                    \/ doit(t) \/ Stat(t) \/ serve_static(t)
                    \/ Start(t) \/ cleanup(t) \/ ClientFails(t)
                    \/ clienterror(t) \/ DynamicElsewhere(t)
                    \/ Step(t, "parse", "reject") \/ proxy_thread(t)
BY DEF Next, Serve, By, tiny_main, tiny, two_main, two_tiny, two_handle_request, two_doit,
  two_serve_static, two_cleanup, two_clienterror, base_main, tiny_baseline,
  base_handle_request, base_doit, base_serve_static, base_clienterror, proxy_main, proxy

\* A thread that has not begun has a cell, which is nobody else's.
CellInv ==
  /\ main \in {"accept", "create"} => cell \in Cell
  /\ \A t \in Starting :
       /\ arg[t] \in Cell
       /\ main \in {"accept", "create"} => arg[t] # cell
  /\ \A t, u \in Starting : arg[t] = arg[u] => t = u

\* Every step keeps the types.
LEMMA StepTypeOK ==
  ASSUME TypeOK, CellInv, [Next]_vars
  PROVE  TypeOK'
<1> USE FrontAssumption, LeakAssumption DEF TypeOK, Goto, locals, answer, heap, File, disk, Served
<1>1. CASE UNCHANGED vars
  BY <1>1 DEF vars, front, library
<1>2. ASSUME Main, UNCHANGED library PROVE TypeOK'
  <2>1. CASE open_listenfd \/ Open_listenfd
    BY <1>2, <2>1 DEF open_listenfd, Open_listenfd, MainFails, unix_error, library
  <2>2. CASE MallocCell \/ MallocFails
    BY <1>2, <2>2 DEF MallocCell, MallocFails, MainFails, unix_error, library
  <2>3. CASE Accept \/ AcceptFails
    BY <1>2, <2>3 DEF Accept, AcceptFails, MainFails, unix_error, library
  <2>4. CASE Create \/ CreateFails
    BY <1>2, <2>4 DEF Create, CreateFails, MainFails, unix_error, library
  <2> QED BY <1>2, <2>1, <2>2, <2>3, <2>4 DEF Main
<1>3. ASSUME NEW t \in Thread, doit(t), UNCHANGED library PROVE TypeOK'
  BY <1>3 DEF doit, ReadRequest, ReadHeaders, ParseDynamic, Step, library
<1>4. ASSUME NEW t \in Thread, Stat(t) \/ NoStat(t), UNCHANGED library PROVE TypeOK'
  <2>0. file.size \in Nat
    OBVIOUS
  <2>1. \A n \in Sizes : n \in Int
    BY DEF Sizes, Refused
  <2>2. \/ UNCHANGED filesize
        \/ \E n \in Int : filesize' = [filesize EXCEPT ![t] = n]
    BY <1>4, <2>0, <2>1 DEF Stat, NoStat
  <2>3. filesize' \in [Thread -> Int]
    BY <2>2
  <2>4. /\ UNCHANGED <<status, main, cell, allocated, value, open, file, changed, arg, fd,
                       srcfd, promised, sent, refs, leaked>>
        /\ pc[t] = "parse"
        /\ pc' \in {[pc EXCEPT ![t] = "reject"], [pc EXCEPT ![t] = "head"]}
    BY <1>4 DEF Stat, NoStat, library
  <2> QED BY <2>3, <2>4
<1>5. ASSUME NEW t \in Thread, serve_static(t), UNCHANGED library PROVE TypeOK'
  <2>1. CASE SendHead(t) \/ SendBody(t)
    BY <1>5, <2>1 DEF SendHead, SendBody, library
  <2>2. CASE OpenFile(t) \/ Map(t)
    BY <1>5, <2>2 DEF OpenFile, Map, Close, library
  <2>3. CASE OpenFails(t) \/ MapFails(t) \/ BodyFails(t)
    BY <1>5, <2>3 DEF OpenFails, MapFails, BodyFails, StaticFails, unix_error, library
  <2> QED BY <1>5, <2>1, <2>2, <2>3 DEF serve_static
<1>6. ASSUME NEW t \in Thread, Start(t) \/ cleanup(t), UNCHANGED library PROVE TypeOK'
  BY <1>6 DEF Start, cleanup, Close, library, CellInv, Starting
<1>7. ASSUME NEW t \in Thread,
             clienterror(t) \/ DynamicElsewhere(t) \/ Step(t, "parse", "reject"),
             UNCHANGED library
      PROVE  TypeOK'
  BY <1>7 DEF clienterror, DynamicElsewhere, Step, library
<1>8. ASSUME NEW t \in Thread, serve_dynamic(t) PROVE TypeOK'
  BY <1>8 DEF serve_dynamic, Dlopen, DlopenFails, DlsymFinds, DlsymFails, CallReturns,
    CallCrashes, Dlclose, DynamicStep, Step, unix_error, library
<1>9. ASSUME NEW t \in Thread, proxy_thread(t), UNCHANGED library PROVE TypeOK'
  BY <1>9 DEF proxy_thread, parseit, search_cache, open_clientfd, Open_clientfd, ToBeAdded,
    Relayed, CloseHost, Spins, ProxyStep, Step, Close, unix_error, library
<1>10. ASSUME FileChanges, UNCHANGED library PROVE TypeOK'
  BY <1>10 DEF FileChanges, library
<1>11. ASSUME NEW t \in Thread, ClientFails(t), UNCHANGED library PROVE TypeOK'
  BY <1>11 DEF ClientFails, unix_error, library
<1> QED
  BY <1>1, <1>2, <1>3, <1>4, <1>5, <1>6, <1>7, <1>8, <1>9, <1>10, <1>11, StepKinds

-----------------------------------------------------------------------------
(* Cells. *)

\* A step that is none of MallocCell, Create and Start leaves cells alone.
LEMMA CellSteps ==
  ASSUME TypeOK, [Next]_vars, ~MallocCell, ~Create, \A t \in Thread : ~Start(t)
  PROVE  /\ UNCHANGED <<cell, allocated, arg>>
         /\ Starting' = Starting
         /\ main' \in {"accept", "create"} <=> main \in {"accept", "create"}
<1> USE DEF TypeOK, Goto, locals, answer, heap, Starting
<1> DEFINE Goal == /\ UNCHANGED <<cell, allocated, arg>>
                   /\ Starting' = Starting
                   /\ main' \in {"accept", "create"} <=> main \in {"accept", "create"}
<1>1. CASE UNCHANGED vars
  BY <1>1 DEF vars, front
<1>2. CASE Main
  BY <1>2 DEF Main, open_listenfd, Open_listenfd, MallocFails, Accept, AcceptFails,
    CreateFails, MainFails
<1>3. CASE FileChanges
  BY <1>3 DEF FileChanges
<1>4. ASSUME NEW t \in Thread, doit(t) \/ Stat(t) \/ NoStat(t) PROVE Goal
  BY <1>4 DEF doit, ReadRequest, ReadHeaders, ParseDynamic, Stat, NoStat, Step
<1>5. ASSUME NEW t \in Thread, serve_static(t) PROVE Goal
  BY <1>5 DEF serve_static, SendHead, SendBody, OpenFile, Map, OpenFails, MapFails,
    BodyFails, StaticFails
<1>6. ASSUME NEW t \in Thread, cleanup(t) \/ ClientFails(t) PROVE Goal
  BY <1>6 DEF cleanup, ClientFails
<1>7. ASSUME NEW t \in Thread,
             clienterror(t) \/ DynamicElsewhere(t) \/ Step(t, "parse", "reject")
      PROVE  Goal
  BY <1>7 DEF clienterror, DynamicElsewhere, Step
<1>8. ASSUME NEW t \in Thread, serve_dynamic(t) PROVE Goal
  BY <1>8 DEF serve_dynamic, Dlopen, DlopenFails, DlsymFinds, DlsymFails, CallReturns,
    CallCrashes, Dlclose, DynamicStep, Step
<1>9. ASSUME NEW t \in Thread, proxy_thread(t) PROVE Goal
  BY <1>9 DEF proxy_thread, parseit, search_cache, open_clientfd, Open_clientfd, ToBeAdded,
    Relayed, CloseHost, Spins, ProxyStep, Step
<1> QED
  BY <1>1, <1>2, <1>3, <1>4, <1>5, <1>6, <1>7, <1>8, <1>9, StepKinds

\* Every step keeps every cell with the thread that it was made for.
LEMMA StepCells ==
  ASSUME TypeOK, CellInv, CellsFreed, [Next]_vars
  PROVE  CellInv' /\ CellsFreed'
<1> USE FrontAssumption DEF TypeOK, CellInv, CellsFreed, Goto, locals, answer, Starting
<1>1. CASE MallocCell
  <2>1. CellInv'
    BY <1>1 DEF MallocCell
  <2> QED BY <1>1, <2>1 DEF MallocCell
<1>2. CASE Create
  <2>1. PICK t \in Thread : Goto(t, "idle", "start") /\ arg' = [arg EXCEPT ![t] = cell]
    BY <1>2 DEF Create
  <2>2. Starting' = Starting \cup {t} /\ t \notin Starting
    BY <2>1
  <2>3. CellInv'
    BY <1>2, <2>1, <2>2 DEF Create
  <2>4. CellsFreed'
    BY <1>2, <2>1, <2>2 DEF Create
  <2> QED BY <2>3, <2>4
<1>3. ASSUME NEW t \in Thread, Start(t) PROVE CellInv' /\ CellsFreed'
  <2>1. Starting' = Starting \ {t} /\ t \in Starting
    BY <1>3 DEF Start
  <2>2. CellInv'
    BY <1>3, <2>1 DEF Start
  <2>3. CellsFreed'
    BY <1>3, <2>1 DEF Start
  <2> QED BY <2>2, <2>3
<1>4. CASE ~MallocCell /\ ~Create /\ \A t \in Thread : ~Start(t)
  <2>1. UNCHANGED <<cell, allocated, arg>> /\ Starting' = Starting
         /\ (main' \in {"accept", "create"} <=> main \in {"accept", "create"})
         /\ main' \in {"listen", "malloc", "accept", "create"}
    BY <1>4, CellSteps, StepTypeOK
  <2> QED BY <2>1
<1> QED
  BY <1>1, <1>2, <1>3, <1>4

-----------------------------------------------------------------------------
(* Descriptors. *)

\* Which places in the program go with an open descriptor.
DescriptorInv ==
  /\ \A t \in Busy : Connection(t) \in Fd
  /\ \A t \in Thread :
       /\ pc[t] \in {"map", "relay", "add"} => srcfd[t] # NULL
       /\ srcfd[t] # NULL => pc[t] \in {"map", "relay", "add", "spin"}
  /\ main = "create" => value[cell] \in Fd

\* These steps leave all descriptors alone.
Quiet ==
  /\ ~Accept /\ ~Create
  /\ \A t \in Thread :
       ~(Start(t) \/ OpenFile(t) \/ Map(t) \/ open_clientfd(t) \/ Relayed(t) \/ cleanup(t))

\* What the steps have in common that open, close and hand over nothing.
LEMMA QuietSteps ==
  ASSUME TypeOK, [Next]_vars, Quiet
  PROVE  /\ UNCHANGED <<value, open, arg, fd, srcfd>>
         /\ \A t \in Thread :
              /\ pc'[t] = "idle" <=> pc[t] = "idle"
              /\ pc'[t] = "start" <=> pc[t] = "start"
              /\ pc'[t] \in {"map", "relay", "add"} => pc[t] \in {"map", "relay", "add"}
              /\ pc[t] \in {"map", "relay", "add", "spin"} => pc'[t] \in {"map", "relay", "add", "spin"}
         /\ (main' # "create" /\ main # "create") \/ UNCHANGED <<main, cell>>
<1> USE DEF TypeOK, Goto, locals, answer, heap, Quiet
<1> DEFINE Goal ==
      /\ UNCHANGED <<value, open, arg, fd, srcfd>>
      /\ \A t \in Thread :
           /\ pc'[t] = "idle" <=> pc[t] = "idle"
           /\ pc'[t] = "start" <=> pc[t] = "start"
           /\ pc'[t] \in {"map", "relay", "add"} => pc[t] \in {"map", "relay", "add"}
           /\ pc[t] \in {"map", "relay", "add", "spin"} => pc'[t] \in {"map", "relay", "add", "spin"}
      /\ (main' # "create" /\ main # "create") \/ UNCHANGED <<main, cell>>
<1>1. CASE UNCHANGED vars
  BY <1>1 DEF vars, front
<1>2. CASE Main
  BY <1>2 DEF Main, open_listenfd, Open_listenfd, MallocCell, MallocFails, AcceptFails,
    CreateFails, MainFails
<1>3. CASE FileChanges
  BY <1>3 DEF FileChanges
<1>4. ASSUME NEW t \in Thread, doit(t) \/ Stat(t) \/ NoStat(t) PROVE Goal
  BY <1>4 DEF doit, ReadRequest, ReadHeaders, ParseDynamic, Stat, NoStat, Step
<1>5. ASSUME NEW t \in Thread, serve_static(t) PROVE Goal
  BY <1>5 DEF serve_static, SendHead, SendBody, OpenFails, MapFails, BodyFails,
    StaticFails
<1>6. ASSUME NEW t \in Thread, ClientFails(t) PROVE Goal
  BY <1>6 DEF ClientFails
<1>7. ASSUME NEW t \in Thread,
             clienterror(t) \/ DynamicElsewhere(t) \/ Step(t, "parse", "reject")
      PROVE  Goal
  BY <1>7 DEF clienterror, DynamicElsewhere, Step
<1>8. ASSUME NEW t \in Thread, serve_dynamic(t) PROVE Goal
  BY <1>8 DEF serve_dynamic, Dlopen, DlopenFails, DlsymFinds, DlsymFails, CallReturns,
    CallCrashes, Dlclose, DynamicStep, Step
<1>9. ASSUME NEW t \in Thread, proxy_thread(t) PROVE Goal
  BY <1>9 DEF proxy_thread, parseit, search_cache, Open_clientfd, ToBeAdded, Spins, ProxyStep, Step
<1> QED
  BY <1>1, <1>2, <1>3, <1>4, <1>5, <1>6, <1>7, <1>8, <1>9, StepKinds

\* A thread opens a descriptor of its own, or closes it.
LEMMA OpenOne ==
  ASSUME TypeOK, CellInv, DescriptorInv, OwnDescriptors, NEW t \in Thread,
         OpenFile(t) \/ open_clientfd(t)
  PROVE  DescriptorInv' /\ OwnDescriptors'
<1> USE FrontAssumption DEF TypeOK, Goto, locals, answer, heap, Busy, Connection
<1>1. PICK f \in Fd \ open : srcfd' = [srcfd EXCEPT ![t] = f] /\ open' = open \cup {f}
  BY DEF OpenFile, open_clientfd
<1>2. /\ UNCHANGED <<main, cell, value, arg, fd>>
      /\ pc' \in {[pc EXCEPT ![t] = "map"], [pc EXCEPT ![t] = "relay"]}
      /\ pc[t] \in {"open", "connect"}
  BY DEF OpenFile, open_clientfd
<1>3. Busy' = Busy /\ \A u \in Busy : Connection(u)' = Connection(u)
  BY <1>2
<1>4. Connections' = Connections
  BY <1>2, <1>3 DEF Connections
<1>5. Others' = Others \cup {f}
  BY <1>1, <1>2 DEF Others, DescriptorInv
<1>6. DescriptorInv'
  BY <1>1, <1>2, <1>3 DEF DescriptorInv
<1>7. OwnDescriptors'
  <2>1. open' = Connections' \cup Others' /\ Connections' \cap Others' = {}
    BY <1>1, <1>4, <1>5 DEF OwnDescriptors
  <2>2. \A u, v \in Busy' : Connection(u)' = Connection(v)' => u = v
    BY <1>3 DEF OwnDescriptors
  <2>3. \A u, v \in Thread : srcfd'[u] = srcfd'[v] /\ srcfd'[u] # NULL => u = v
    BY <1>1 DEF OwnDescriptors, Others
  <2>4. main' = "create" => \A u \in Busy' : Connection(u)' # value'[cell']
    BY <1>2, <1>3 DEF OwnDescriptors
  <2> QED BY <2>1, <2>2, <2>3, <2>4 DEF OwnDescriptors
<1> QED BY <1>6, <1>7

\* A thread that closes its second descriptor closes nobody else's.
LEMMA CloseOne ==
  ASSUME TypeOK, CellInv, DescriptorInv, OwnDescriptors, NEW t \in Thread,
         Map(t) \/ Relayed(t)
  PROVE  DescriptorInv' /\ OwnDescriptors'
<1> USE FrontAssumption DEF TypeOK, Goto, locals, answer, heap, Busy, Connection
<1>1. srcfd' = [srcfd EXCEPT ![t] = NULL] /\ open' = open \ {srcfd[t]}
  BY DEF Map, Relayed, CloseHost, Close
<1>2. /\ UNCHANGED <<main, cell, value, arg, fd>>
      /\ pc' \in {[pc EXCEPT ![t] = "body"], [pc EXCEPT ![t] = "leave"]}
      /\ pc[t] \in {"map", "relay", "add"}
  BY DEF Map, Relayed, CloseHost
<1>3. Busy' = Busy /\ \A u \in Busy : Connection(u)' = Connection(u)
  BY <1>2
<1>4. Connections' = Connections
  BY <1>2, <1>3 DEF Connections
<1>5. Others' = Others \ {srcfd[t]} /\ srcfd[t] \in Others
  BY <1>1, <1>2 DEF Others, DescriptorInv, OwnDescriptors
<1>6. DescriptorInv'
  BY <1>1, <1>2, <1>3 DEF DescriptorInv
<1>7. OwnDescriptors'
  <2>1. open' = Connections' \cup Others' /\ Connections' \cap Others' = {}
    BY <1>1, <1>4, <1>5 DEF OwnDescriptors
  <2>2. \A u, v \in Busy' : Connection(u)' = Connection(v)' => u = v
    BY <1>3 DEF OwnDescriptors
  <2>3. \A u, v \in Thread : srcfd'[u] = srcfd'[v] /\ srcfd'[u] # NULL => u = v
    BY <1>1 DEF OwnDescriptors, Others
  <2>4. main' = "create" => \A u \in Busy' : Connection(u)' # value'[cell']
    BY <1>2, <1>3 DEF OwnDescriptors
  <2> QED BY <2>1, <2>2, <2>3, <2>4 DEF OwnDescriptors
<1> QED BY <1>6, <1>7

\* A connection gets from main to its thread by way of the cell.
LEMMA AcceptStep ==
  ASSUME TypeOK, CellInv, DescriptorInv, OwnDescriptors, Accept
  PROVE  DescriptorInv' /\ OwnDescriptors'
<1> USE FrontAssumption DEF TypeOK, Busy, Starting, Connection
<1>1. PICK f \in Fd \ open : value' = [value EXCEPT ![cell] = f] /\ open' = open \cup {f}
  BY DEF Accept
<1>2. main = "accept" /\ main' = "create" /\ cell \in Cell /\ UNCHANGED <<cell, pc, arg, fd, srcfd>>
  BY DEF Accept, locals, CellInv
<1>3. Busy' = Busy /\ \A u \in Busy : Connection(u)' = Connection(u)
  BY <1>1, <1>2 DEF CellInv
<1>4. Connections' = Connections \cup {f} /\ Others' = Others
  BY <1>1, <1>2, <1>3 DEF Connections, Others
<1>5. DescriptorInv'
  BY <1>1, <1>2, <1>3 DEF DescriptorInv
<1>6. OwnDescriptors'
  <2>1. open' = Connections' \cup Others' /\ Connections' \cap Others' = {}
    BY <1>1, <1>4 DEF OwnDescriptors
  <2>2. \A u, v \in Busy' : Connection(u)' = Connection(v)' => u = v
    BY <1>3 DEF OwnDescriptors
  <2>3. \A u \in Busy' : Connection(u)' # value'[cell']
    BY <1>1, <1>2, <1>3 DEF OwnDescriptors, Connections
  <2> QED BY <1>2, <2>1, <2>2, <2>3 DEF OwnDescriptors
<1> QED BY <1>5, <1>6

\* main hands the descriptor to a new thread (tiny.c:73-76).
LEMMA CreateStep ==
  ASSUME TypeOK, CellInv, DescriptorInv, OwnDescriptors, Create
  PROVE  DescriptorInv' /\ OwnDescriptors'
<1> USE FrontAssumption DEF TypeOK, Busy, Connection
<1>1. PICK t \in Thread : Goto(t, "idle", "start") /\ arg' = [arg EXCEPT ![t] = cell]
  BY DEF Create
<1>2. main = "create" /\ main' = "malloc" /\ UNCHANGED <<value, open, fd, srcfd>>
  BY DEF Create
<1>3. t \notin Busy /\ Busy' = Busy \cup {t}
  BY <1>1 DEF Goto
<1>4. Connection(t)' = value[cell] /\ \A u \in Busy : Connection(u)' = Connection(u)
  BY <1>1, <1>2, <1>3 DEF Goto
<1>5. Connections' = Connections /\ Others' = Others
  BY <1>2, <1>3, <1>4 DEF Connections, Others
<1>6. DescriptorInv'
  BY <1>1, <1>2, <1>3, <1>4 DEF DescriptorInv, Goto
<1>7. OwnDescriptors'
  <2>1. \A u, v \in Busy' : Connection(u)' = Connection(v)' => u = v
    BY <1>2, <1>3, <1>4 DEF OwnDescriptors
  <2> QED BY <1>2, <1>5, <2>1 DEF OwnDescriptors
<1> QED BY <1>6, <1>7

\* The thread reads its cell and frees it.
LEMMA StartStep ==
  ASSUME TypeOK, CellInv, DescriptorInv, OwnDescriptors, NEW t \in Thread, Start(t)
  PROVE  DescriptorInv' /\ OwnDescriptors'
<1> USE FrontAssumption DEF TypeOK, Busy, Starting, Connection
<1>1. /\ t \in Starting
      /\ pc' = [pc EXCEPT ![t] = "request"]
      /\ fd' = [fd EXCEPT ![t] = value[arg[t]]]
      /\ arg' = [arg EXCEPT ![t] = NULL]
      /\ value' = [value EXCEPT ![arg[t]] = NULL]
      /\ UNCHANGED <<main, cell, open, srcfd>>
  BY DEF Start, Goto
<1>2. Busy' = Busy /\ \A u \in Busy : Connection(u)' = Connection(u)
  BY <1>1 DEF CellInv
<1>3. main = "create" => value'[cell'] = value[cell]
  BY <1>1 DEF CellInv
<1>4. Connections' = Connections /\ Others' = Others
  BY <1>1, <1>2, <1>3 DEF Connections, Others
<1>5. DescriptorInv'
  BY <1>1, <1>2, <1>3 DEF DescriptorInv
<1>6. OwnDescriptors'
  BY <1>1, <1>2, <1>3, <1>4 DEF OwnDescriptors
<1> QED BY <1>5, <1>6

\* The thread closes its connection.
LEMMA CleanupStep ==
  ASSUME TypeOK, CellInv, DescriptorInv, OwnDescriptors, NEW t \in Thread, cleanup(t)
  PROVE  DescriptorInv' /\ OwnDescriptors'
<1> USE FrontAssumption DEF TypeOK, Busy, Connection
<1>1. /\ pc[t] = "leave" /\ pc' = [pc EXCEPT ![t] = "idle"]
      /\ open' = open \ {fd[t]}
      /\ fd' = [fd EXCEPT ![t] = NULL]
      /\ UNCHANGED <<main, cell, value, arg, srcfd>>
  BY DEF cleanup, Goto, Close, heap
<1>2. t \in Busy /\ Connection(t) = fd[t] /\ Busy' = Busy \ {t}
  BY <1>1
<1>3. \A u \in Busy' : Connection(u)' = Connection(u)
  BY <1>1, <1>2
<1>4. Connections' = Connections \ {fd[t]} /\ fd[t] \in Connections /\ Others' = Others
  BY <1>1, <1>2, <1>3 DEF Connections, Others, OwnDescriptors
<1>5. DescriptorInv'
  BY <1>1, <1>2, <1>3 DEF DescriptorInv
<1>6. OwnDescriptors'
  BY <1>1, <1>2, <1>3, <1>4 DEF OwnDescriptors
<1> QED BY <1>5, <1>6

\* Every step keeps which place in the program has which descriptor.
LEMMA StepDescriptors ==
  ASSUME TypeOK, CellInv, DescriptorInv, OwnDescriptors, [Next]_vars
  PROVE  DescriptorInv' /\ OwnDescriptors'
<1>1. CASE Quiet
  <2> USE <1>1, QuietSteps DEF Busy, Connection
  <2>1. Busy' = Busy /\ \A u \in Busy : Connection(u)' = Connection(u)
    OBVIOUS
  <2>2. (main' = main /\ value'[cell'] = value[cell]) \/ (main' # "create" /\ main # "create")
    <3>1. UNCHANGED <<main, cell>> \/ (main' # "create" /\ main # "create")
      OBVIOUS
    <3> QED BY <3>1
  <2>3. Connections' = Connections /\ Others' = Others
    BY <2>1, <2>2 DEF Connections, Others
  <2>4. DescriptorInv'
    BY <2>1, <2>2 DEF DescriptorInv
  <2>5. OwnDescriptors'
    BY <2>1, <2>2, <2>3 DEF OwnDescriptors
  <2> QED BY <2>4, <2>5
<1> QED
  BY <1>1, AcceptStep, CreateStep, StartStep, CleanupStep, OpenOne, CloseOne DEF Quiet

-----------------------------------------------------------------------------
(* The library of two_tiny.c. *)

\* Finitely many threads have the library open.
LEMMA LoadedFinite == IsFiniteSet(Loaded)
BY FrontAssumption, FS_Subset DEF Loaded

\* Only serve_dynamic of two_tiny.c enters or leaves the places at which a
\* request has the library open.
LEMMA LoadedSteps ==
  ASSUME TypeOK, [Next]_vars, \A t \in Thread : ~serve_dynamic(t)
  PROVE  Loaded' = Loaded
<1> USE DEF TypeOK, Goto, locals, answer, heap, Loaded
<1>1. CASE UNCHANGED vars
  BY <1>1 DEF vars, front, library
<1>2. CASE Main
  BY <1>2 DEF Main, open_listenfd, Open_listenfd, MallocCell, MallocFails, Accept,
    AcceptFails, Create, CreateFails, MainFails
<1>3. CASE FileChanges
  BY <1>3 DEF FileChanges
<1>4. ASSUME NEW t \in Thread, doit(t) \/ Stat(t) \/ NoStat(t) PROVE Loaded' = Loaded
  BY <1>4 DEF doit, ReadRequest, ReadHeaders, ParseDynamic, Stat, NoStat, Step
<1>5. ASSUME NEW t \in Thread, serve_static(t) PROVE Loaded' = Loaded
  BY <1>5 DEF serve_static, SendHead, SendBody, OpenFile, Map, OpenFails, MapFails,
    BodyFails, StaticFails
<1>6. ASSUME NEW t \in Thread, Start(t) \/ cleanup(t) \/ ClientFails(t) PROVE Loaded' = Loaded
  BY <1>6 DEF Start, cleanup, ClientFails
<1>7. ASSUME NEW t \in Thread,
             clienterror(t) \/ DynamicElsewhere(t) \/ Step(t, "parse", "reject")
      PROVE  Loaded' = Loaded
  BY <1>7 DEF clienterror, DynamicElsewhere, Step
<1>8. ASSUME NEW t \in Thread, proxy_thread(t) PROVE Loaded' = Loaded
  BY <1>8 DEF proxy_thread, parseit, search_cache, open_clientfd, Open_clientfd, ToBeAdded,
    Relayed, CloseHost, Spins, ProxyStep, Step
<1> QED
  BY <1>1, <1>2, <1>3, <1>4, <1>5, <1>6, <1>7, <1>8, StepKinds

\* Every step keeps the dlopen count.
LEMMA StepRefs ==
  ASSUME TypeOK, RefsCounted, [Next]_vars
  PROVE  RefsCounted'
<1> USE DEF TypeOK, RefsCounted
<1>1. ASSUME NEW t \in Thread, serve_dynamic(t) PROVE RefsCounted'
  <2> USE LoadedFinite, LeakAssumption DEF DynamicStep, Step, Goto, library
  <2>0. Cardinality(Loaded) \in Nat
    BY FS_CardinalityType
  <2>1. CASE Dlopen(t)
    <3>1. Loaded' = Loaded \cup {t} /\ t \notin Loaded
      BY <2>1 DEF Dlopen, Loaded
    <3>2. Cardinality(Loaded') = Cardinality(Loaded) + 1
      BY <3>1, FS_AddElement
    <3> QED BY <2>0, <2>1, <3>2 DEF Dlopen
  <2>2. CASE DlopenFails(t) \/ DlsymFinds(t) \/ CallReturns(t) \/ CallCrashes(t)
    <3>1. Loaded' = Loaded
      BY <2>2 DEF DlopenFails, DlsymFinds, CallReturns, CallCrashes, Loaded
    <3> QED BY <2>2, <3>1 DEF DlopenFails, DlsymFinds, CallReturns, CallCrashes
  <2>3. CASE DlsymFails(t) \/ Dlclose(t)
    <3>1. Loaded' = Loaded \ {t} /\ t \in Loaded
      BY <2>3 DEF DlsymFails, Dlclose, Loaded
    <3>2. Cardinality(Loaded') = Cardinality(Loaded) - 1
      BY <3>1, FS_RemoveElement
    <3> QED BY <2>0, <2>3, <3>2 DEF DlsymFails, Dlclose
  <2> QED BY <1>1, <2>1, <2>2, <2>3 DEF serve_dynamic
<1>2. CASE \A t \in Thread : ~serve_dynamic(t)
  <2>1. refs' = refs /\ leaked' = leaked
    BY <1>2, StepKinds DEF vars, library
  <2> QED BY <1>2, <2>1, LoadedSteps
<1> QED BY <1>1, <1>2

-----------------------------------------------------------------------------
ServersInv ==
  TypeOK /\ CellInv /\ CellsFreed /\ DescriptorInv /\ OwnDescriptors /\ RefsCounted

\* The servers start with nothing open.
LEMMA InitServers == Init => ServersInv
<1> SUFFICES ASSUME Init PROVE ServersInv
  OBVIOUS
<1> USE FrontAssumption, LeakAssumption DEF Init, FrontInit, LibraryInit
<1>1. Busy = {} /\ Starting = {} /\ Loaded = {} /\ Others = {} /\ Connections = {}
  BY DEF Busy, Starting, Loaded, Others, Connections
<1>2. TypeOK
  BY DEF TypeOK, File
<1>3. CellInv /\ CellsFreed
  BY <1>1 DEF CellInv, CellsFreed
<1>4. DescriptorInv /\ OwnDescriptors
  BY <1>1 DEF DescriptorInv, OwnDescriptors
<1>5. RefsCounted
  BY <1>1, FS_EmptySet DEF RefsCounted
<1> QED BY <1>2, <1>3, <1>4, <1>5 DEF ServersInv

\* The inductive invariant of the four servers: types, cells, descriptors and
\* the count of the library.
THEOREM ServersInvariant == Spec => []ServersInv
<1>1. ServersInv /\ [Next]_vars => ServersInv'
  BY StepTypeOK, StepCells, StepDescriptors, StepRefs DEF ServersInv
<1> QED BY InitServers, <1>1, PTL DEF Spec

\* Every cell main allocates for a connection is freed once, by the thread it
\* was made for (tiny.c:73-76, 83-84), however many threads and cells there are.
THEOREM CellsAreFreed == Spec => []CellsFreed
<1>1. ServersInv => CellsFreed
  BY DEF ServersInv
<1> QED BY <1>1, ServersInvariant, PTL

\* No descriptor of a connection, a file or a host belongs to two threads, is
\* closed by another than its own or is lost (tiny.c:73-84, 220-222, 312,
\* proxy.c:303-328), however many threads and descriptors there are.
THEOREM DescriptorsOwned == Spec => []OwnDescriptors
<1>1. ServersInv => OwnDescriptors
  BY DEF ServersInv
<1> QED BY <1>1, ServersInvariant, PTL

\* However many requests run at the same time, the library is open as often as
\* there are requests between dlopen and dlclose and requests that have ended
\* without (two_tiny.c:227-248).
THEOREM RefsAreCounted == Spec => []RefsCounted
<1>1. ServersInv => RefsCounted
  BY DEF ServersInv
<1> QED BY <1>1, ServersInvariant, PTL

-----------------------------------------------------------------------------
(* The file that is served. *)

\* As long as nobody else has changed it since stat, the file is as long as
\* stat has said; so are the head and what follows it.
SizeInv ==
  /\ \A t \in Thread : pc[t] # "leave" => sent[t] = NULL
  /\ server # "two_tiny" =>
       \A t \in Thread \ changed :
         /\ pc[t] \in {"head", "open", "map", "body"} =>
              file.mode = "regular" /\ filesize[t] = file.size
         /\ pc[t] \in {"open", "map", "body"} => promised[t] = filesize[t]
         /\ pc[t] = "leave" /\ sent[t] # NULL =>
              sent[t] = file.size /\ promised[t] = file.size

\* Every step keeps what is known of the size of the file.
LEMMA StepSize ==
  ASSUME TypeOK, SizeInv, [Next]_vars
  PROVE  SizeInv'
<1> USE DEF TypeOK, SizeInv, Goto, locals, answer, disk, File
<1>1. CASE UNCHANGED vars
  BY <1>1 DEF vars, front
<1>2. CASE Main
  BY <1>2 DEF Main, open_listenfd, Open_listenfd, MallocCell, MallocFails, Accept,
    AcceptFails, Create, CreateFails, MainFails
<1>3. CASE FileChanges
  <2>1. /\ UNCHANGED <<server, pc, filesize, promised, sent>>
        /\ changed' = changed \cup {t \in Thread : Served(t)}
    BY <1>3 DEF FileChanges
  <2>2. \A t \in Thread \ changed' : ~(pc[t] \in {"head", "open", "map", "body", "leave"})
    BY <2>1 DEF Served
  <2> QED BY <2>1, <2>2
<1>4. ASSUME NEW t \in Thread, doit(t) \/ Stat(t) PROVE SizeInv'
  BY <1>4 DEF doit, ReadRequest, ReadHeaders, ParseDynamic, Step, Stat
<1>5. ASSUME NEW t \in Thread, NoStat(t), server = "two_tiny" PROVE SizeInv'
  BY <1>5 DEF NoStat
<1>6. ASSUME NEW t \in Thread, serve_static(t) PROVE SizeInv'
  <2>1. CASE SendHead(t)
    BY <2>1 DEF SendHead
  <2>2. CASE OpenFile(t) \/ Map(t)
    BY <2>2 DEF OpenFile, Map
  <2>3. CASE SendBody(t)
    BY <2>3 DEF SendBody
  <2>4. CASE OpenFails(t) \/ MapFails(t) \/ BodyFails(t)
    BY <2>4 DEF OpenFails, MapFails, BodyFails, StaticFails
  <2> QED BY <1>6, <2>1, <2>2, <2>3, <2>4 DEF serve_static
<1>7. ASSUME NEW t \in Thread, Start(t) \/ cleanup(t) \/ ClientFails(t) PROVE SizeInv'
  BY <1>7 DEF Start, cleanup, ClientFails
<1>8. ASSUME NEW t \in Thread,
             clienterror(t) \/ DynamicElsewhere(t) \/ Step(t, "parse", "reject")
      PROVE  SizeInv'
  BY <1>8 DEF clienterror, DynamicElsewhere, Step
<1>9. ASSUME NEW t \in Thread, serve_dynamic(t) PROVE SizeInv'
  BY <1>9 DEF serve_dynamic, Dlopen, DlopenFails, DlsymFinds, DlsymFails, CallReturns,
    CallCrashes, Dlclose, DynamicStep, Step
<1>10. ASSUME NEW t \in Thread, proxy_thread(t) PROVE SizeInv'
  BY <1>10 DEF proxy_thread, parseit, search_cache, open_clientfd, Open_clientfd, ToBeAdded,
    Relayed, CloseHost, Spins, ProxyStep, Step
<1> QED
  BY <1>1, <1>2, <1>3, <1>4, <1>5, <1>6, <1>7, <1>8, <1>9, <1>10, StepKinds

\* A server that asks stat sends all of the file after a head with its length,
\* and is not ended by Open, Mmap or the write of the body (tiny.c:205-224),
\* unless the file is empty, no descriptor is left or others change the file
\* between stat and the last write; for any number of threads and any sizes.
THEOREM StatIsEnough == Spec => []StatServes
<1>1. Init => SizeInv
  BY DEF Init, FrontInit, SizeInv
<1>2. ServersInv /\ SizeInv /\ [Next]_vars => SizeInv'
  BY StepSize DEF ServersInv
<1>3. ServersInv /\ SizeInv => StatServes
  <2> SUFFICES ASSUME ServersInv, SizeInv, server # "two_tiny", NEW t \in Thread \ changed
               PROVE  ~Fatal(t) /\ ~WrongLength(t)
    BY DEF StatServes, FileServed
  <2>1. file.size \in Nat
    BY FrontAssumption DEF ServersInv, TypeOK, File
  <2> QED BY <2>1 DEF SizeInv, Fatal, WrongLength
<1> QED BY <1>1, <1>2, <1>3, ServersInvariant, PTL DEF Spec
=============================================================================
