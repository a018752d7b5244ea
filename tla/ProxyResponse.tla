--------------------------- MODULE ProxyResponse ---------------------------
(***************************************************************************)
(* read_responsehdrs of proxy.c: passes the response of a host on to the   *)
(* client and gathers it in two buffers, to be cached if it fits both.     *)
(*                                                                         *)
(* What a buffer holds is a sequence of the bytes copied to it; the bytes  *)
(* after them are 0.  A copy beyond the end of a buffer is undefined: the  *)
(* model stops there, in "overrun".                                        *)
(*                                                                         *)
(* Instead of read_responsehdrs, the functions of Rio may also be called   *)
(* in any order ("any"), as far as calls for unbuffered blocks do not      *)
(* overtake buffered bytes.                                                *)
(***************************************************************************)
EXTENDS Rio

CONSTANTS
  CR,          \* the byte '\r'
  NUL,         \* the byte '\0'
  Streams,     \* what hosts send
  MaxLine,     \* MAXLINE
  MaxHeaders,  \* MAX_HEADERS_SIZE
  MaxObject,   \* MAX_OBJECT_SIZE
  Piece,       \* sizeof(content)
  None         \* nothing is cached

ASSUME ResponseAssumption ==
  /\ MaxLine \in Nat /\ MaxLine >= 3
  /\ MaxHeaders \in Nat /\ MaxObject \in Nat /\ Piece \in Nat \ {0}

\* What a host sends.  Its headers have no '\0'; one in its body is copied as
\* any other byte is, and stands for one here, so that those that rio_readlineb
\* adds can be told apart.
IsStream(s) == s \in Seq(ToSet(s)) /\ NUL \notin ToSet(s)

ASSUME ByteAssumption ==
  CR # LF /\ NUL \notin {CR, LF} /\ \A s \in Streams : IsStream(s)

VARIABLES
  sent,         \* what the host sends, for the properties
  pc,           \* where read_responsehdrs is
  buf,          \* the string in buf
  size,         \* the local size
  headersbuf,   \* what has been copied to headersbuf
  cachebuf,     \* what has been copied to cachebuf
  hdrs_valid,   \* headers_buf_valid
  body_valid,   \* cache_buf_valid
  cached        \* the arguments of add_to_cache, or None

buffers == <<headersbuf, hdrs_valid, cachebuf, body_valid>>
locals  == <<buf, size, buffers, cached>>
vars    == <<rioVars, sent, pc, locals>>

Blank == <<CR, LF>>

\* What is in buf before anything is read is whatever is on the stack.
Init ==
  /\ sent \in Streams
  /\ InitRio(sent)
  /\ pc \in {"first", "any"}
  /\ buf \in {<<>>, Blank}
  /\ size = 0
  /\ headersbuf = <<>>
  /\ cachebuf = <<>>
  /\ hdrs_valid = TRUE
  /\ body_valid = TRUE
  /\ cached = None

Goto(from, to) == pc = from /\ pc' = to

\* The bytes a call of rio_readlineb leaves in the buffer, the terminating
\* NUL among them, as many as it says there are.
Got == SubSeq(Append(usrbuf, NUL), 1, rc)
NewBuf == IF rc = 0 THEN buf ELSE usrbuf

-----------------------------------------------------------------------------
AskFirst ==
  /\ Goto("first", "status")
  /\ Read("rio_readlineb", MaxLine)
  /\ UNCHANGED <<sent, locals>>

\* The status line is passed on and copied without a test.
StatusLine ==
  /\ Goto("status", "test")
  /\ buf' = NewBuf
  /\ headersbuf' = Got
  /\ size' = rc
  /\ Write(Got)
  /\ UNCHANGED <<sent, hdrs_valid, cachebuf, body_valid, cached>>

\* The condition of the loop over the header lines.  Mistake: the line is
\* expected to end in "\n" only.
BlankUnix == buf = <<LF>>

AtBlank == buf = Blank

AskLine ==
  /\ Goto("test", "line")
  /\ ~AtBlank
  /\ Read("rio_readlineb", MaxLine)
  /\ UNCHANGED <<sent, locals>>

\* The result of the test that comes before a copy: the size so far is
\* compared, not the size after it.
Fits(valid, limit) == valid /\ size <= limit

\* A copy of n bytes to a buffer of limit + 1 bytes goes beyond its end.
Beyond(valid, limit, n) == Fits(valid, limit) /\ size + n > limit + 1

\* memcpy of s to a buffer that holds b, at the offset size.
Copied(b, s) == b \o [i \in 1..(size - Len(b)) |-> NUL] \o s

HeaderLine ==
  /\ Goto("line", "test")
  /\ ~Beyond(hdrs_valid, MaxHeaders, rc)
  /\ headersbuf' =
       IF Fits(hdrs_valid, MaxHeaders) THEN Copied(headersbuf, Got) ELSE headersbuf
  /\ hdrs_valid' = Fits(hdrs_valid, MaxHeaders)
  /\ size' = size + rc
  /\ buf' = NewBuf
  /\ Write(Got)
  /\ UNCHANGED <<sent, cachebuf, body_valid, cached>>

\* Mistakes: the headers are counted as part of the body; the headers also
\* end at the end of the file.
BodyCountsOn ==
  /\ Goto("test", "body")
  /\ AtBlank
  /\ rc >= 0
  /\ UNCHANGED <<rioVars, sent, locals>>

HeadersEndAtEof ==
  /\ Goto("test", "body")
  /\ AtBlank \/ AtEof
  /\ rc >= 0
  /\ size' = 0
  /\ UNCHANGED <<rioVars, sent, buf, buffers, cached>>

HeadersEnd ==
  /\ Goto("test", "body")
  /\ AtBlank
  /\ rc >= 0
  /\ size' = 0
  /\ UNCHANGED <<rioVars, sent, buf, buffers, cached>>

AskPiece ==
  /\ Goto("body", "piece")
  /\ Read("rio_readnb", Piece)
  /\ UNCHANGED <<sent, locals>>

BodyPiece ==
  /\ Goto("piece", "body")
  /\ rc > 0
  /\ ~Beyond(body_valid, MaxObject, rc)
  /\ cachebuf' =
       IF Fits(body_valid, MaxObject) THEN Copied(cachebuf, usrbuf) ELSE cachebuf
  /\ body_valid' = Fits(body_valid, MaxObject)
  /\ size' = size + rc
  /\ Write(usrbuf)
  /\ UNCHANGED <<sent, buf, headersbuf, hdrs_valid, cached>>

ToBeCached == hdrs_valid /\ body_valid /\ size > 0

\* The headers fill their buffer to the last byte, so that the string has no
\* end for add_to_cache.
Unterminated == Len(headersbuf) > MaxHeaders

\* The string that strlen and strcpy see in a buffer.
CString(s) == SubSeq(s, 1, Min({i \in 1..Len(s) : s[i] = NUL} \cup {Len(s) + 1}) - 1)

\* The host has closed; add_to_cache copies the headers as a string and the
\* data as size bytes.
BodyEnds ==
  /\ Goto("piece", "done")
  /\ rc = 0
  /\ ToBeCached => ~Unterminated
  /\ cached' = IF ToBeCached
               THEN [hdrs |-> CString(headersbuf), data |-> SubSeq(Copied(cachebuf, <<>>), 1, size)]
               ELSE None
  /\ UNCHANGED <<rioVars, sent, buf, size, buffers>>

Overrun ==
  /\ \/ Goto("line", "overrun") /\ Beyond(hdrs_valid, MaxHeaders, rc)
     \/ Goto("piece", "overrun") /\ Beyond(body_valid, MaxObject, rc)
     \/ Goto("piece", "overrun") /\ rc = 0 /\ ToBeCached /\ Unterminated
  /\ rc >= 0
  /\ UNCHANGED <<rioVars, sent, locals>>

AnyCall ==
  /\ pc = "any"
  /\ \/ \E n \in 2..MaxLine : Read("rio_readlineb", n) \/ Read("rio_readnb", n)
     \/ rio_buf = <<>> /\ \E n \in 1..MaxLine : Read("rio_readn", n)
  /\ UNCHANGED <<sent, pc, locals>>

read_responsehdrs ==
  \/ AskFirst \/ StatusLine \/ AskLine \/ HeaderLine \/ HeadersEnd
  \/ AskPiece \/ BodyPiece \/ BodyEnds \/ Overrun

Steps == RioStep /\ UNCHANGED <<sent, pc, locals>>

Next ==
  \/ Steps \/ read_responsehdrs \/ AnyCall
  \/ Fails /\ UNCHANGED <<sent, pc, locals>>

\* The thread goes on, the host sends what it has to send and the client
\* reads it.
FairSpec == Init /\ [][Next]_vars /\ WF_vars(Steps \/ read_responsehdrs)

-----------------------------------------------------------------------------
TypeOK ==
  /\ pc \in {"first", "status", "test", "line", "body", "piece", "done", "overrun", "any"}
  /\ op \in {"none", "rio_readlineb", "rio_readnb", "rio_readn", "rio_writen"}
  /\ rc \in {Pending, Failed} \cup Nat /\ want \in Nat /\ size \in Nat
  /\ Len(rio_buf) <= BufSize
  /\ op \in {"rio_readnb", "rio_readn"} => Len(usrbuf) <= want
  /\ op = "rio_readlineb" => Len(usrbuf) < want
  /\ Len(headersbuf) <= MaxHeaders + 1 \/ Len(headersbuf) <= MaxLine
  /\ Len(cachebuf) <= MaxObject + 1

Ends == {0} \cup {i \in 1..Len(sent) : sent[i] = LF}

\* The ends of empty lines; the first of them ends the headers.
HeaderEnds == {i \in Ends : i >= 2 /\ i - 2 \in Ends /\ sent[i - 1] = CR}
HeadersLen == Min(HeaderEnds)

\* The response has an empty line, and no line before it is too long for buf.
WellFormed ==
  /\ HeaderEnds # {}
  /\ \A i \in Ends :
       i < HeadersLen => \E j \in Ends : i < j /\ j < i + MaxLine

\* Where the peer sent what is byte i of s, when the NULs are left out.
Place(s, i) == i - Cardinality({j \in 1..i : s[j] = NUL})

\* Every byte of a response is passed on in its place, however it arrives; a
\* response whose lines fit buf is passed on as it is, the others get a NUL
\* for every line that is cut (proxy.c:375-401, csapp.c:655-674).
RelayedExactly ==
  pc # "any" =>
    /\ \A i \in 1..Len(output) :
         output[i] # NUL =>
           Place(output, i) <= Len(sent) /\ output[i] = sent[Place(output, i)]
    /\ WellFormed => NUL \notin ToSet(output)

\* What a later hit sends from the cache, the headers as a string and the
\* data (proxy.c:465-469, 487-489), is what the client of the miss was sent,
\* unless a line was cut and left a NUL in the headers.
HitSendsSame ==
  cached # None /\ NUL \notin ToSet(headersbuf) =>
    cached.hdrs \o cached.data = output

\* As the sizes are tested before they are added to (proxy.c:387, 403), only
\* responses with headers or a body beyond the limit can overrun a buffer.
OverrunOnlyBeyond ==
  pc = "overrun" /\ WellFormed =>
    \/ HeadersLen > MaxHeaders
    \/ Len(sent) - HeadersLen > MaxObject + 1

\* A response with an empty line, all of whose lines fit, is passed on to its
\* end if the host closes the connection (proxy.c:382-411).
ResponseEnds ==
  pc = "first" /\ WellFormed /\ closes ~>
    pc \in {"done", "overrun"} \/ rc = Failed

\* Waiting for an empty line that will not come.
Spinning ==
  /\ AtEof
  /\ buf # Blank
  /\ \/ pc = "test"
     \/ pc = "line" /\ usrbuf # Blank

\* A host that closes before the empty line keeps the thread, its connection
\* and its descriptors for ever (proxy.c:382-385): the test for an error does
\* not hold at the end of the file.
SpinsForever == [][Spinning => Spinning' \/ pc' = "overrun"]_vars
=============================================================================
