---------------------------- MODULE MCProxyCache ----------------------------
(***************************************************************************)
(* Instances of ProxyCache for TLC.                                        *)
(***************************************************************************)
EXTENDS ProxyCache, TLC

\* Two objects of one host; one object of either of two hosts; two objects
\* that only differ in the port, and a third one.
MCPaths == [host : {"h"}, port : {80}, path : {"p", "q"}]
MCHosts == [host : {"h", "g"}, port : {80}, path : {"p"}]
MCPorts == [host : {"h"}, port : {80, 81}, path : {"p"}]
MCMixed == MCPorts \cup MCPaths

\* Threads and addresses are interchangeable.
Symmetry == Permutations(Thread) \cup Permutations(Node \ {Dummy})
=============================================================================
