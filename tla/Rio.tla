-------------------------------- MODULE Rio --------------------------------
(***************************************************************************)
(* The robust I/O functions of csapp.c on one connection, and their        *)
(* wrappers: rio_readlineb, rio_readnb, rio_readn and rio_writen.          *)
(*                                                                         *)
(* read() returns any nonempty part of what the peer has sent, so that a   *)
(* line arrives in pieces that have nothing to do with its end; write()    *)
(* takes any nonempty part of what it is given.  A call interrupted by a   *)
(* signal is made again and changes nothing.                               *)
(*                                                                         *)
(* A caller starts a call with one of the definitions of the first part,   *)
(* which make rc Pending, and goes on when rc has its result.              *)
(***************************************************************************)
EXTENDS Integers, Sequences, SequencesExt

CONSTANTS
  LF,       \* the byte '\n'
  BufSize   \* sizeof(rp->rio_buf)

ASSUME RioAssumption == BufSize \in Nat \ {0}

VARIABLES
  input,    \* what the peer has sent and nobody has read
  closes,   \* whether the peer closes its side after that
  rio_buf,  \* the unread part of rp->rio_buf; its length is rp->rio_cnt
  op,       \* the function that was called last
  want,     \* its argument n or maxlen
  usrbuf,   \* the bytes it has stored
  rc,       \* its result, or Pending
  unsent,   \* what rio_writen has not written yet
  output,   \* what has been written to the other connection
  rest      \* what was there to be read when the last call was made

Pending == -1
Failed == -2

stream  == <<input, closes>>
reading == <<rio_buf, want, usrbuf, rest>>
writing == <<unsent, output>>
rioVars == <<stream, reading, op, rc, writing>>

Drop(s, k) == SubSeq(s, k + 1, Len(s))

\* rio_readinitb, on a connection whose peer sends s.
InitRio(s) ==
  /\ input = s
  /\ closes \in BOOLEAN
  /\ rio_buf = <<>>
  /\ op = "none"
  /\ want = 0
  /\ usrbuf = <<>>
  /\ rc = 0
  /\ unsent = <<>>
  /\ output = <<>>
  /\ rest = s

\* A call that reads at most n bytes.
Read(f, n) ==
  /\ rc >= 0
  /\ op' = f
  /\ want' = n
  /\ usrbuf' = <<>>
  /\ rc' = Pending
  /\ rest' = rio_buf \o input
  /\ UNCHANGED <<stream, rio_buf, writing>>

\* A call of rio_writen.
Write(s) ==
  /\ rc >= 0
  /\ op' = "rio_writen"
  /\ want' = Len(s)
  /\ unsent' = s
  /\ rc' = IF s = <<>> THEN 0 ELSE Pending
  /\ UNCHANGED <<stream, rio_buf, usrbuf, rest, output>>

-----------------------------------------------------------------------------
Running(f) == op = f /\ rc = Pending

\* The loop of rio_read.  Mistake: the buffer is filled up before it is empty.
FillEarly ==
  /\ Running("rio_readlineb") \/ Running("rio_readnb")
  /\ input # <<>>
  /\ \E k \in 1..Min({BufSize, Len(input)}) :
       /\ rio_buf' = SubSeq(input, 1, k)
       /\ input' = Drop(input, k)
  /\ UNCHANGED <<closes, op, want, usrbuf, rc, rest, writing>>

Fill ==
  /\ Running("rio_readlineb") \/ Running("rio_readnb")
  /\ rio_buf = <<>>
  /\ input # <<>>
  /\ \E k \in 1..Min({BufSize, Len(input)}) :
       /\ rio_buf' = SubSeq(input, 1, k)
       /\ input' = Drop(input, k)
  /\ UNCHANGED <<closes, op, want, usrbuf, rc, rest, writing>>

\* read() returns 0.
AtEof == rio_buf = <<>> /\ input = <<>> /\ closes

\* The result of rio_readlineb after byte c has been stored as byte i: the
\* count starts at 1, so a line that is cut counts one byte too many.
\* Mistake: so does every line.
CountsNul(c, i) ==
  IF c = LF THEN i + 1 ELSE IF i = want - 1 THEN want ELSE Pending

AfterByte(c, i) ==
  IF c = LF THEN i ELSE IF i = want - 1 THEN want ELSE Pending

\* One round of the loop of rio_readlineb.
LineByte ==
  /\ Running("rio_readlineb")
  /\ rio_buf # <<>>
  /\ usrbuf' = Append(usrbuf, Head(rio_buf))
  /\ rio_buf' = Tail(rio_buf)
  /\ rc' = AfterByte(Head(rio_buf), Len(usrbuf'))
  /\ UNCHANGED <<stream, op, want, rest, writing>>

LineEof ==
  /\ Running("rio_readlineb")
  /\ AtEof
  /\ rc' = IF usrbuf = <<>> THEN 0 ELSE Len(usrbuf) + 1
  /\ UNCHANGED <<stream, reading, op, writing>>

\* Stores the bytes of s; the call is over when there are as many as wanted.
Take(s) ==
  /\ usrbuf' = usrbuf \o s
  /\ rc' = IF Len(usrbuf') = want THEN want ELSE Pending

\* How many of the buffered bytes rio_readnb takes.  Mistake: all of them.
AllBuffered == Len(rio_buf)

Room == Min({want - Len(usrbuf), Len(rio_buf)})

\* One round of rio_readnb.
Block ==
  /\ Running("rio_readnb")
  /\ rio_buf # <<>>
  /\ Take(SubSeq(rio_buf, 1, Room))
  /\ rio_buf' = Drop(rio_buf, Room)
  /\ UNCHANGED <<stream, op, want, rest, writing>>

\* One round of rio_readn, which reads without the buffer.
Raw ==
  /\ Running("rio_readn")
  /\ input # <<>>
  /\ \E k \in 1..Min({want - Len(usrbuf), Len(input)}) :
       /\ Take(SubSeq(input, 1, k))
       /\ input' = Drop(input, k)
  /\ UNCHANGED <<closes, rio_buf, op, want, rest, writing>>

\* Both return what they have at the end of the file.
BlockEof ==
  /\ Running("rio_readnb") \/ Running("rio_readn")
  /\ AtEof
  /\ rc' = Len(usrbuf)
  /\ UNCHANGED <<stream, reading, op, writing>>

\* One round of the loop of rio_writen.
WriteSome ==
  /\ Running("rio_writen")
  /\ \E k \in 1..Len(unsent) :
       /\ output' = output \o SubSeq(unsent, 1, k)
       /\ unsent' = Drop(unsent, k)
  /\ rc' = IF unsent' = <<>> THEN want ELSE Pending
  /\ UNCHANGED <<stream, reading, op>>

\* read() or write() fails; the wrapper of the function calls unix_error,
\* which ends the process.
Fails ==
  /\ rc = Pending
  /\ op \in {"rio_readlineb", "rio_readnb"} => rio_buf = <<>>
  /\ rc' = Failed
  /\ UNCHANGED <<stream, reading, op, writing>>

RioStep == Fill \/ LineByte \/ LineEof \/ Block \/ Raw \/ BlockEof \/ WriteSome

-----------------------------------------------------------------------------
\* The first line of s, or as much of it as fits a buffer of n bytes.
LineOf(s, n) ==
  SubSeq(s, 1, Min({i \in 1..Len(s) : s[i] = LF} \cup {Len(s), n - 1}))

\* However the peer's bytes arrive, and whatever is left in the buffer by
\* calls for lines and for blocks in turn (csapp.c:585-675), no byte is lost,
\* repeated or moved, and a call returns what it would return if everything
\* were there at once: for a line, at most its end, for a block, all that
\* was asked for unless the peer has ended.
ReadsAsOne ==
  /\ op # "rio_writen" => rest = usrbuf \o rio_buf \o input
  /\ rc >= 0 =>
       CASE op = "rio_readlineb" -> usrbuf = LineOf(rest, want)
         [] op \in {"rio_readnb", "rio_readn"} ->
              usrbuf = SubSeq(rest, 1, Min({want, Len(rest)}))
         [] OTHER -> TRUE
=============================================================================
