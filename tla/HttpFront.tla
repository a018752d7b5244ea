----------------------------- MODULE HttpFront -----------------------------
(***************************************************************************)
(* The part the three web servers have in common, as it is in tiny.c: main *)
(* accepts connections and hands each to a thread in a cell of the heap;   *)
(* the thread reads a request, and answers it with an error or a file.     *)
(* The proxy's main is the same.                                           *)
(*                                                                         *)
(* The web servers differ in what they do before they serve a file: tiny   *)
(* and tiny_baseline look at it with stat, two_tiny does not (Stat,        *)
(* NoStat).                                                                *)
(*                                                                         *)
(* There is one file, and others may change it at any time.  Its size is   *)
(* counted in pages, as only whole pages make a difference to Mmap.        *)
(*                                                                         *)
(* A wrapper of csapp.c that meets an error ends the process ("ended").    *)
(*                                                                         *)
(* A definition introduced by "Mistake:" is not used by the model: it is a *)
(* broken variant of the one that follows, for a property to notice.       *)
(***************************************************************************)
EXTENDS Integers, FiniteSets

CONSTANTS
  Thread,  \* handler threads that can be alive at the same time
  Fd,      \* descriptors the process can have open, the listening one apart
  Cell,    \* addresses Malloc can return for an int
  Pages,   \* sizes of a file
  NULL

ASSUME FrontAssumption ==
  /\ NULL \notin Thread \cup Fd \cup Cell
  /\ IsFiniteSet(Thread) /\ Pages \subseteq Nat

VARIABLES
  server,     \* which of the programs this is
  status,     \* "up" or "ended"
  main,       \* where main is in its loop
  cell,       \* connfd_ptr of main
  allocated,  \* the cells that are allocated
  value,      \* value[c]: the descriptor that is stored in c
  open,       \* the descriptors that are open
  file,       \* what the requested path names
  changed,    \* the threads whose file others have changed since stat
  pc,         \* pc[t]: where thread t is
  arg,        \* arg[t]: connfd_ptr of handle_request
  fd,         \* fd[t]: the connection
  srcfd,      \* srcfd[t]: the descriptor of the file; the proxy's hostfd
  filesize,   \* filesize[t]: sbuf.st_size
  promised,   \* promised[t]: the Content-length that was sent, or NULL
  sent        \* sent[t]: how much of the file was sent, or NULL

heap   == <<main, cell, allocated, value>>
disk   == <<file, changed>>
answer == <<promised, sent>>
locals == <<arg, fd, srcfd, filesize, answer>>
front  == <<server, status, heap, open, disk, pc, locals>>

\* The path names a regular file that may be read, or nothing of the kind.
File == [mode : {"regular", "gone"}, size : Pages]

\* A length that Mmap refuses, like any other that is not positive.
Refused == -1

\* What stat says or, without stat, what is on the stack.
Sizes == Pages \cup {Refused}

Goto(t, from, to) ==
  /\ pc[t] = from
  /\ pc' = [pc EXCEPT ![t] = to]

\* Every error a wrapper of csapp.c meets.
unix_error == status' = "ended"

Close(f) == open' = open \ {f}

-----------------------------------------------------------------------------
FrontInit ==
  /\ status = "up"
  /\ main = "listen"
  /\ cell = NULL
  /\ allocated = {}
  /\ value = [c \in Cell |-> NULL]
  /\ open = {}
  /\ file \in [mode : {"regular"}, size : Pages]
  /\ changed = {}
  /\ pc = [t \in Thread |-> "idle"]
  /\ arg = [t \in Thread |-> NULL]
  /\ fd = [t \in Thread |-> NULL]
  /\ srcfd = [t \in Thread |-> NULL]
  /\ filesize = [t \in Thread |-> 0]
  /\ promised = [t \in Thread |-> NULL]
  /\ sent = [t \in Thread |-> NULL]

\* The listening descriptor is opened, or else see Open_listenfd.
open_listenfd ==
  /\ main = "listen" /\ main' = "malloc"
  /\ UNCHANGED <<server, status, cell, allocated, value, open, disk, pc, locals>>

\* Malloc in main.  Mistake: one cell is used for all connections.
MallocOnce ==
  /\ main = "malloc" /\ main' = "accept"
  /\ \E c \in Cell : cell \in {NULL, c} /\ cell' = c /\ allocated' = allocated \cup {c}
  /\ UNCHANGED <<server, status, value, open, disk, pc, locals>>

MallocCell ==
  /\ main = "malloc" /\ main' = "accept"
  /\ \E c \in Cell \ allocated : cell' = c /\ allocated' = allocated \cup {c}
  /\ UNCHANGED <<server, status, value, open, disk, pc, locals>>

Accept ==
  /\ main = "accept" /\ main' = "create"
  /\ \E f \in Fd \ open :
       /\ value' = [value EXCEPT ![cell] = f]
       /\ open' = open \cup {f}
  /\ UNCHANGED <<server, status, cell, allocated, disk, pc, locals>>

\* Pthread_create, after which main goes back to Malloc.
Create ==
  /\ main = "create" /\ main' = "malloc"
  /\ \E t \in Thread :
       /\ Goto(t, "idle", "start")
       /\ arg' = [arg EXCEPT ![t] = cell]
  /\ cell' = NULL
  /\ UNCHANGED <<server, status, allocated, value, open, disk, fd, srcfd,
                 filesize, answer>>

\* There is an error in open_listenfd, no cell is left for Malloc, no
\* descriptor for Accept, no thread for Pthread_create.
MainFails(from) ==
  /\ main = from
  /\ unix_error
  /\ UNCHANGED <<server, heap, open, disk, pc, locals>>

Open_listenfd == MainFails("listen")
MallocFails == allocated = Cell /\ MainFails("malloc")
AcceptFails == open = Fd /\ MainFails("accept")
CreateFails == (\A t \in Thread : pc[t] # "idle") /\ MainFails("create")

Main ==
  \/ open_listenfd \/ Open_listenfd
  \/ MallocCell \/ MallocFails \/ Accept \/ AcceptFails \/ Create \/ CreateFails

-----------------------------------------------------------------------------
\* handle_request takes the descriptor out of the cell and frees the cell.
\* Mistake: the cell is not freed.
StartKeeping(t) ==
  /\ Goto(t, "start", "request")
  /\ fd' = [fd EXCEPT ![t] = value[arg[t]]]
  /\ arg' = [arg EXCEPT ![t] = NULL]
  /\ UNCHANGED <<server, status, heap, open, disk, srcfd, filesize, answer>>

Start(t) ==
  /\ Goto(t, "start", "request")
  /\ fd' = [fd EXCEPT ![t] = value[arg[t]]]
  /\ arg' = [arg EXCEPT ![t] = NULL]
  /\ allocated' = allocated \ {arg[t]}
  /\ value' = [value EXCEPT ![arg[t]] = NULL]
  /\ UNCHANGED <<server, status, main, cell, open, disk, srcfd, filesize, answer>>

Step(t, from, to) ==
  /\ Goto(t, from, to)
  /\ UNCHANGED <<server, status, heap, open, disk, locals>>

\* The request line is read.  If the client has closed, buf is uninitialized
\* and may hold anything.
ReadRequest(t) == Step(t, "request", "headers") \/ Step(t, "request", "reject")

\* read_requesthdrs returns when it has read an empty line.  At the end of
\* the file it goes on reading for ever.
ReadHeaders(t) == Step(t, "headers", "parse") \/ Step(t, "headers", "spin")

\* parse_uri finds a request for dynamic content.
ParseDynamic(t) == Step(t, "parse", "dynamic")

\* parse_uri finds a request for a file.  Without stat, sbuf is whatever is on
\* the stack.
NoStat(t) ==
  /\ \/ Goto(t, "parse", "reject") /\ UNCHANGED filesize
     \/ /\ Goto(t, "parse", "head")
        /\ \E n \in Sizes : filesize' = [filesize EXCEPT ![t] = n]
  /\ UNCHANGED <<server, status, heap, open, disk, arg, fd, srcfd, answer>>

\* stat tells whether there is a file that may be read, and how long it is.
Stat(t) ==
  /\ \/ Goto(t, "parse", "reject") /\ file.mode # "regular" /\ UNCHANGED filesize
     \/ /\ Goto(t, "parse", "head") /\ file.mode = "regular"
        /\ filesize' = [filesize EXCEPT ![t] = file.size]
  /\ UNCHANGED <<server, status, heap, open, disk, arg, fd, srcfd, answer>>

\* clienterror sends a message with the reason.
clienterror(t) == Step(t, "reject", "leave")

-----------------------------------------------------------------------------
(* serve_static *)

SendHead(t) ==
  /\ Goto(t, "head", "open")
  /\ promised' = [promised EXCEPT ![t] = filesize[t]]
  /\ UNCHANGED <<server, status, heap, open, disk, arg, fd, srcfd, filesize, sent>>

OpenFile(t) ==
  /\ Goto(t, "open", "map")
  /\ file.mode = "regular"
  /\ \E f \in Fd \ open :
       /\ srcfd' = [srcfd EXCEPT ![t] = f]
       /\ open' = open \cup {f}
  /\ UNCHANGED <<server, status, heap, disk, arg, fd, filesize, answer>>

\* Mmap of as many pages as stat has said, and Close.
Map(t) ==
  /\ Goto(t, "map", "body")
  /\ filesize[t] > 0
  /\ Close(srcfd[t])
  /\ srcfd' = [srcfd EXCEPT ![t] = NULL]
  /\ UNCHANGED <<server, status, heap, disk, arg, fd, filesize, answer>>

\* Rio_writen of the mapping and Munmap.
SendBody(t) ==
  /\ Goto(t, "body", "leave")
  /\ file.size >= filesize[t]
  /\ sent' = [sent EXCEPT ![t] = filesize[t]]
  /\ UNCHANGED <<server, status, heap, open, disk, arg, fd, srcfd, filesize, promised>>

StaticFails(t, from) ==
  /\ pc[t] = from
  /\ unix_error
  /\ UNCHANGED <<server, heap, open, disk, pc, locals>>

\* There is no file that may be read, or no descriptor is left.
OpenFails(t) == (file.mode # "regular" \/ open = Fd) /\ StaticFails(t, "open")

\* A mapping of no length is refused.
MapFails(t) == filesize[t] <= 0 /\ StaticFails(t, "map")

\* A page beyond the end of the file is written.
BodyFails(t) == file.size < filesize[t] /\ StaticFails(t, "body")

serve_static(t) ==
  \/ SendHead(t) \/ OpenFile(t) \/ Map(t) \/ SendBody(t)
  \/ OpenFails(t) \/ MapFails(t) \/ BodyFails(t)

-----------------------------------------------------------------------------
\* Where a thread reads or writes a connection: it writes the answer of a hit
\* inside of search_cache, and add_to_cache does neither.
OnConnection(t) ==
  pc[t] \in {"request", "headers", "reject", "head", "body", "dynamic", "dlsym",
             "connect", "relay", "search"}

\* The connection breaks while it is read or written.
ClientFails(t) ==
  /\ OnConnection(t)
  /\ unix_error
  /\ UNCHANGED <<server, heap, open, disk, pc, locals>>

cleanup(t) ==
  /\ Goto(t, "leave", "idle")
  /\ Close(fd[t])
  /\ fd' = [fd EXCEPT ![t] = NULL]
  /\ filesize' = [filesize EXCEPT ![t] = 0]
  /\ promised' = [promised EXCEPT ![t] = NULL]
  /\ sent' = [sent EXCEPT ![t] = NULL]
  /\ changed' = changed \ {t}
  /\ UNCHANGED <<server, status, heap, file, arg, srcfd>>

\* Where a thread has asked stat and not yet ended the answer.
Served(t) == pc[t] \in {"head", "open", "map", "body", "leave"}

\* Somebody else writes to the file, or takes it or its permissions away.
FileChanges ==
  /\ file.mode # "gone"
  /\ \/ \E n \in Pages : file' = [mode |-> "regular", size |-> n]
     \/ file' = [mode |-> "gone", size |-> file.size]
  /\ changed' = changed \cup {t \in Thread : Served(t)}
  /\ UNCHANGED <<server, status, heap, open, pc, locals>>

\* serve_dynamic, where another module models it.
DynamicElsewhere(t) == Step(t, "dynamic", "leave")

\* The part of doit that is common to all: the rest is Stat or NoStat.
doit(t) == ReadRequest(t) \/ ReadHeaders(t) \/ ParseDynamic(t)
=============================================================================
