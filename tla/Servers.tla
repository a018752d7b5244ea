------------------------------ MODULE Servers ------------------------------
(***************************************************************************)
(* The four servers: tiny.c, two_tiny.c, tiny_baseline.c and proxy.c.      *)
(* Which one runs is chosen in the initial state.  How tiny and            *)
(* tiny_baseline serve dynamic content is left to TinyCache and            *)
(* TinyBaseline.                                                           *)
(***************************************************************************)
EXTENDS TwoTiny, ProxyFront

Init ==
  /\ server \in {"tiny", "two_tiny", "tiny_baseline", "proxy"}
  /\ FrontInit
  /\ LibraryInit

\* A step A of program p.
By(p, A) == server = p /\ A /\ UNCHANGED library

tiny_main == By("tiny", Main)
tiny(t) ==
  \/ By("tiny", Start(t) \/ doit(t) \/ Stat(t) \/ clienterror(t))
  \/ By("tiny", serve_static(t) \/ DynamicElsewhere(t) \/ cleanup(t))

two_main == By("two_tiny", Main)
two_handle_request(t) == By("two_tiny", Start(t))
two_doit(t) == By("two_tiny", doit(t) \/ NoStat(t))
two_serve_static(t) == By("two_tiny", serve_static(t))
two_cleanup(t) == By("two_tiny", cleanup(t))
two_clienterror(t) == By("two_tiny", clienterror(t))

two_tiny(t) ==
  \/ two_handle_request(t) \/ two_doit(t) \/ two_serve_static(t)
  \/ serve_dynamic(t) \/ two_cleanup(t) \/ two_clienterror(t)

base_main == By("tiny_baseline", Main)
base_handle_request(t) == By("tiny_baseline", Start(t))

\* tiny_baseline also asks stat for the program of a dynamic request, and
\* rejects the request if it is not there or may not be run.
base_doit(t) == By("tiny_baseline", doit(t) \/ Stat(t) \/ Step(t, "parse", "reject"))
base_serve_static(t) == By("tiny_baseline", serve_static(t))
base_clienterror(t) == By("tiny_baseline", clienterror(t))

tiny_baseline(t) ==
  \/ base_handle_request(t) \/ base_doit(t) \/ base_serve_static(t)
  \/ base_clienterror(t)
  \/ By("tiny_baseline", DynamicElsewhere(t) \/ cleanup(t))

proxy_main == By("proxy", Main)
proxy(t) == By("proxy", Start(t) \/ proxy_thread(t) \/ cleanup(t))

Serve(t) == tiny(t) \/ two_tiny(t) \/ tiny_baseline(t) \/ proxy(t)

Next ==
  /\ status = "up"
  /\ \/ tiny_main \/ two_main \/ base_main \/ proxy_main
     \/ \E t \in Thread : Serve(t)
     \/ \E t \in Thread : ClientFails(t) /\ UNCHANGED library
     \/ FileChanges /\ UNCHANGED library

Spec == Init /\ [][Next]_vars

-----------------------------------------------------------------------------
Busy == {t \in Thread : pc[t] # "idle"}
Starting == {t \in Thread : pc[t] = "start"}

TypeOK ==
  /\ status \in {"up", "ended"} /\ main \in {"listen", "malloc", "accept", "create"}
  /\ cell \in Cell \cup {NULL} /\ allocated \subseteq Cell
  /\ value \in [Cell -> Fd \cup {NULL}]
  /\ open \subseteq Fd /\ file \in File
  /\ changed \subseteq {t \in Thread : Served(t)}
  /\ pc \in [Thread -> {"idle", "start", "request", "headers", "spin", "parse",
       "reject", "dynamic", "head", "open", "map", "body", "leave",
       "dlsym", "call", "dlclose", "search", "connect", "relay", "add"}]
  /\ arg \in [Thread -> Cell \cup {NULL}]
  /\ fd \in [Thread -> Fd \cup {NULL}] /\ srcfd \in [Thread -> Fd \cup {NULL}]
  /\ filesize \in [Thread -> Int]
  /\ promised \in [Thread -> Int \cup {NULL}]
  /\ sent \in [Thread -> Int \cup {NULL}]
  /\ refs \in Int /\ leaked \in 0..MaxLeaked

\* The connection of a thread that is busy, in its cell until it has begun.
Connection(t) == IF pc[t] = "start" THEN value[arg[t]] ELSE fd[t]

Connections ==
  {Connection(t) : t \in Busy} \cup IF main = "create" THEN {value[cell]} ELSE {}

Others == {srcfd[t] : t \in Thread} \ {NULL}

\* No connection is given to two threads or to none, however late a thread
\* takes it out of the cell main has put it in (tiny.c:73-76, 83-84), and no
\* descriptor of a client, a file or a host is closed by anyone but the thread
\* that works with it or kept open after that (tiny.c:222, 312, proxy.c:328,
\* 429): what is open is what threads have, each once.
OwnDescriptors ==
  /\ open = Connections \cup Others
  /\ Connections \cap Others = {}
  /\ \A t, u \in Busy : Connection(t) = Connection(u) => t = u
  /\ \A t, u \in Thread : srcfd[t] = srcfd[u] /\ srcfd[t] # NULL => t = u
  /\ main = "create" => \A t \in Busy : Connection(t) # value[cell]

\* Every cell is freed once by the thread it was made for: allocated are the
\* cell main is filling and those of the threads that have not begun.
CellsFreed ==
  allocated = {arg[t] : t \in Starting}
                \cup IF main \in {"listen", "malloc"} THEN {} ELSE {cell}

\* What Open, Mmap or the write of the body would end the process for, not
\* counting the want of a descriptor and an empty file.
Fatal(t) ==
  \/ pc[t] = "open" /\ file.mode # "regular"
  \/ pc[t] = "map" /\ filesize[t] <= 0 /\ file.size # 0
  \/ pc[t] = "body" /\ file.size < filesize[t]

\* The answer has a body, and it or the head is not as long as the file.
WrongLength(t) ==
  /\ pc[t] = "leave" /\ sent[t] # NULL
  /\ sent[t] # file.size \/ promised[t] # file.size

\* A request for a file gets all of the file, after a head that says how long
\* it is ("copy a file back to the client", two_tiny.c:168), and does not end
\* the server, as long as nobody else writes to the file or removes it between
\* stat and the last write (tiny.c:120, 217-223).  What others do to the file
\* before, and what they do to it while other threads serve it, is no excuse.
FileServed == \A t \in Thread \ changed : ~Fatal(t) /\ ~WrongLength(t)

\* The servers that ask stat serve the file.
StatServes == server # "two_tiny" => FileServed

Loaded == {t \in Thread : pc[t] \in {"dlsym", "call", "dlclose"}}

\* The count of the library is the number of requests that are between dlopen
\* and dlclose, and of those that have ended without (two_tiny.c:227-248); so
\* while a function runs its library is loaded.
RefsCounted ==
  refs = leaked + Cardinality(Loaded)
=============================================================================
