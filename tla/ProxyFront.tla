----------------------------- MODULE ProxyFront -----------------------------
(***************************************************************************)
(* proxy.c: what a thread of the proxy does with descriptors.  Its main is *)
(* the one of the web servers (HttpFront).  The cache and the response are *)
(* left to ProxyCache and ProxyResponse.                                   *)
(***************************************************************************)
EXTENDS HttpFront

ProxyStep(t, from, to) == server = "proxy" /\ Step(t, from, to)

\* parseit rejects the request, or goes on to search_cache.
parseit(t) == ProxyStep(t, "request", "leave") \/ ProxyStep(t, "request", "search")

\* search_cache answers the request, or else forwardit opens a connection to
\* the host.
search_cache(t) == ProxyStep(t, "search", "leave") \/ ProxyStep(t, "search", "connect")

open_clientfd(t) ==
  /\ server = "proxy"
  /\ Goto(t, "connect", "relay")
  /\ \E f \in Fd \ open :
       /\ srcfd' = [srcfd EXCEPT ![t] = f]
       /\ open' = open \cup {f}
  /\ UNCHANGED <<server, status, heap, disk, arg, fd, filesize, answer>>

\* The host is not known or cannot be reached, or no descriptor is left.
\* forwardit's test for a negative hostfd comes too late.
Open_clientfd(t) ==
  /\ server = "proxy" /\ pc[t] = "connect"
  /\ unix_error
  /\ UNCHANGED <<server, heap, open, disk, pc, locals>>

\* read_responsehdrs has relayed the response and calls add_to_cache.
ToBeAdded(t) == ProxyStep(t, "relay", "add")

\* read_responsehdrs returns, without add_to_cache or after it, and hostfd is
\* closed.
CloseHost(t, from) ==
  /\ server = "proxy"
  /\ Goto(t, from, "leave")
  /\ Close(srcfd[t])
  /\ srcfd' = [srcfd EXCEPT ![t] = NULL]
  /\ UNCHANGED <<server, status, heap, disk, arg, fd, filesize, answer>>

Relayed(t) == CloseHost(t, "relay") \/ CloseHost(t, "add")

\* read_responsehdrs reads for ever: see SpinsForever in ProxyResponse.
Spins(t) == ProxyStep(t, "relay", "spin")

proxy_thread(t) ==
  \/ parseit(t) \/ search_cache(t) \/ open_clientfd(t) \/ Open_clientfd(t)
  \/ ToBeAdded(t) \/ Relayed(t) \/ Spins(t)
=============================================================================
