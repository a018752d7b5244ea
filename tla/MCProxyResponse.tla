-------------------------- MODULE MCProxyResponse --------------------------
(***************************************************************************)
(* Instances of ProxyResponse for TLC.                                     *)
(***************************************************************************)
EXTENDS ProxyResponse

CONSTANT x  \* a byte of no significance

\* All streams of up to four bytes, and lines and bodies of several lengths
\* in an order that a server could send them.
MCStreams ==
  LET Line == {<<x, CR, LF>>, <<x, x, x, CR, LF>>, <<x, x, LF>>}
      Body == {<<>>, <<x>>, <<x, LF, x>>} \cup UNION {[1..n -> {x}] : n \in 6..7}
  IN  UNION {[1..n -> {x, CR, LF}] : n \in 0..4}
      \cup {l \o Blank \o b : l \in Line, b \in Body}
      \cup {l \o k \o Blank \o b : l \in Line, k \in Line, b \in {<<>>, <<x>>}}
=============================================================================
