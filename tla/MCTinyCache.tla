----------------------------- MODULE MCTinyCache -----------------------------
(***************************************************************************)
(* Instances of TinyCache for TLC.                                         *)
(***************************************************************************)
EXTENDS TinyCacheRefinement, TLC

CONSTANTS a, b, c, absent

\* Three libraries, of which b alone is larger than the cache and c exports
\* no function of its own name, and a name without a library.
MCName == {a, b, c, absent}
MCLib == {a, b, c}
MCCallable == {a, b}
MCFileSize == (a :> 1) @@ (b :> 3) @@ (c :> 1)

\* Two libraries of the same size, both callable.
MCPair == {a, b}
MCPairFileSize == (a :> 1) @@ (b :> 1)

\* One library of each kind and a name without a library.
MCMixedName == {a, c, absent}
MCMixedLib == {a, c}
MCMixedCallable == {a}
MCMixedFileSize == (a :> 1) @@ (c :> 1)

\* Threads and addresses are interchangeable.
Symmetry == Permutations(Thread) \cup Permutations(Node \ {Dummy})
=============================================================================
