------------------------ MODULE ProxyResponseProofs ------------------------
(***************************************************************************)
(* Proofs about Rio and ProxyResponse, for streams of any length and any   *)
(* sizes of the buffers.                                                   *)
(*                                                                         *)
(* The inductive invariant says in terms of positions where everything is: *)
(* the stream that the host sends is cut into what was returned before,    *)
(* what the last call has stored, what is in rio_buf and what nobody has   *)
(* read.  What has been relayed and gathered is told from one of these     *)
(* positions.                                                              *)
(***************************************************************************)
EXTENDS ProxyResponse, DataTheorems, SequenceTheorems

Byte == {CR, LF, NUL} \cup UNION {ToSet(s) : s \in Streams}

\* How much of sent has been read from the connection, has been taken out of
\* rio_buf, and had been when the last call for bytes was made.
GotAt  == Len(sent) - Len(input)
NextAt == GotAt - Len(rio_buf)
FromAt == NextAt - Len(usrbuf)

\* What has been or is being written, and how much of sent that is.
Out  == output \o unsent
Done == IF pc \in {"test", "body"} THEN NextAt ELSE FromAt

\* s is a string of bytes.
Str(s) == s \in Seq(Byte)

Places == {"first", "status", "test", "line", "body", "piece", "done", "overrun", "any"}
Functions == {"none", "rio_readlineb", "rio_readnb", "rio_readn", "rio_writen"}

Types ==
  /\ sent \in Streams
  /\ pc \in Places /\ op \in Functions
  /\ rc \in {Pending, Failed} \cup Nat /\ want \in Nat /\ size \in Nat
  /\ hdrs_valid \in BOOLEAN /\ body_valid \in BOOLEAN
  /\ Str(buf) /\ Str(headersbuf) /\ Str(cachebuf) /\ Str(output) /\ Str(unsent)
  /\ Len(rio_buf) <= BufSize

\* t is the part of s between the places a and b.
IsPart(t, s, a, b) == t = SubSeq(s, a + 1, b)

\* The bytes of t are those of s between a and b.
Copies(t, s, a, b) == \A i \in 1..(b - a) : t[i] = s[a + i]

At(p, q, r) ==
  /\ p \in Nat /\ q \in Nat /\ r \in Nat
  /\ p <= q /\ q <= r /\ r <= Len(sent)
  /\ IsPart(usrbuf, sent, p, q)
  /\ IsPart(rio_buf, sent, q, r)
  /\ IsPart(input, sent, r, Len(sent))
  /\ IsPart(rest, sent, p, Len(sent))

InPlace == At(FromAt, NextAt, GotAt)

NoLF(s, k) == \A i \in 1..k : s[i] # LF

\* How a call of rio_readlineb ends: with a line, with a part of one that
\* fills the caller's buffer, or at the end of the file.
LineEnds ==
  \/ usrbuf # <<>> /\ usrbuf[Len(usrbuf)] = LF /\ rc = Len(usrbuf)
  \/ Len(usrbuf) = want - 1 /\ NoLF(usrbuf, Len(usrbuf)) /\ rc = want
  \/ /\ NextAt = Len(sent) /\ NoLF(usrbuf, Len(usrbuf))
     /\ rc = IF usrbuf = <<>> THEN 0 ELSE Len(usrbuf) + 1

LineSoFar ==
  /\ want >= 2 /\ Len(usrbuf) < want
  /\ NoLF(usrbuf, Len(usrbuf) - 1)
  /\ rc < 0 => Len(usrbuf) < want - 1 /\ NoLF(usrbuf, Len(usrbuf))
  /\ rc >= 0 => LineEnds

BlockSoFar ==
  /\ want >= 1 /\ Len(usrbuf) <= want
  /\ rc < 0 => Len(usrbuf) < want
  /\ rc >= 0 => rc = Len(usrbuf) /\ (Len(usrbuf) = want \/ NextAt = Len(sent))

Called ==
  /\ op = "none" => usrbuf = <<>> /\ rc = 0
  /\ op = "rio_readlineb" => LineSoFar
  /\ op \in {"rio_readnb", "rio_readn"} => BlockSoFar
  /\ op = "rio_readn" => rio_buf = <<>>
  /\ op = "rio_writen" => (rc >= 0 => unsent = <<>>)
  /\ op # "rio_writen" => unsent = <<>>

\* Which call is made where.
Where ==
  /\ pc = "first" => op = "none"
  /\ pc \in {"status", "line"} => op = "rio_readlineb" /\ want = MaxLine
  /\ pc \in {"test", "body"} => op = "rio_writen"
  /\ pc = "piece" => op = "rio_readnb" /\ want = Piece
  /\ pc \in {"done", "overrun"} => op # "rio_writen" /\ rc >= 0
  /\ pc = "any" => op # "rio_writen"

InHeaders == pc \in {"first", "status", "test", "line"}
InBody    == pc \in {"body", "piece", "done"}

\* What is in the two buffers.
Gathered ==
  /\ pc \in {"first", "status"} => size = 0 /\ headersbuf = <<>> /\ Out = <<>> /\ Done = 0
  /\ InHeaders => body_valid /\ cachebuf = <<>>
  /\ InHeaders /\ hdrs_valid => Len(headersbuf) = size /\ Out = headersbuf
  /\ InBody /\ body_valid => Len(cachebuf) = size
  /\ InBody /\ hdrs_valid /\ body_valid => Out = headersbuf \o cachebuf
  /\ Len(headersbuf) <= MaxHeaders + 1 \/ Len(headersbuf) <= MaxLine
  /\ Len(cachebuf) <= MaxObject + 1
  /\ cached # None => pc = "done"
  /\ HitSendsSame

Nuls(s, i) == {j \in 1..i : s[j] = NUL}

\* s is the first n bytes of what the peer sends, with NULs in between.
Relays(s, n) ==
  /\ Place(s, Len(s)) = n
  /\ \A i \in 1..Len(s) : s[i] # NUL =>
       Place(s, i) \in 1..n /\ s[i] = sent[Place(s, i)]

Relayed == pc # "any" => Relays(Out, Done)

\* Where the headers of a response are whose lines are not cut.
Headers ==
  pc # "any" /\ WellFormed =>
    /\ NUL \notin ToSet(Out)
    /\ InHeaders => Done \in Ends /\ Done = size /\ Done <= HeadersLen
    /\ InHeaders /\ pc # "test" => Done < HeadersLen
    /\ pc = "test" => (AtBlank <=> Done = HeadersLen)
    /\ pc \in {"body", "piece"} => Done = HeadersLen + size
    /\ InBody /\ hdrs_valid => Len(headersbuf) = HeadersLen
    /\ OverrunOnlyBeyond

IInv == Types /\ InPlace /\ Called /\ Where /\ Gathered /\ Relayed /\ Headers

-----------------------------------------------------------------------------
\* The least member of a set of natural numbers that has one.
LEMMA MinIs ==
  ASSUME NEW T, NEW m \in T, T \subseteq Int, \A n \in T : m <= n
  PROVE  Min(T) = m
<1>1. \E n \in T : \A k \in T : n <= k
  OBVIOUS
<1>2. Min(T) \in T /\ \A k \in T : Min(T) <= k
  BY <1>1, Zenon DEF Min
<1>3. Min(T) \in Int /\ m \in Int /\ Min(T) <= m /\ m <= Min(T)
  BY <1>2
<1> QED
  BY <1>3

\* The part of a sequence between two places.
LEMMA PartIs ==
  \A s, t, a, b :
    Str(s) /\ a \in Nat /\ b \in Nat /\ a <= b /\ b <= Len(s) /\ IsPart(t, s, a, b) =>
      Str(t) /\ Len(t) = b - a
<1> SUFFICES ASSUME NEW s, Str(s), NEW t, NEW a \in Nat, NEW b \in Nat,
                    a <= b, b <= Len(s), IsPart(t, s, a, b)
             PROVE  Str(t) /\ Len(t) = b - a
  OBVIOUS
<1>0. Len(s) \in Nat /\ a + 1 \in Int /\ b \in Int
  OBVIOUS
<1>1. \A i \in (a + 1)..b : s[i] \in Byte
  BY <1>0, ElementOfSeq DEF Str
<1>2. /\ SubSeq(s, a + 1, b) \in Seq(Byte)
      /\ Len(SubSeq(s, a + 1, b)) = IF a + 1 <= b THEN b - (a + 1) + 1 ELSE 0
  BY <1>0, <1>1, SubSeqProperties
<1> QED
  BY <1>0, <1>2 DEF IsPart, Str

\* Its bytes.
LEMMA PartAt ==
  \A s, t, a, b :
    Str(s) /\ a \in Nat /\ b \in Nat /\ a <= b /\ b <= Len(s) /\ IsPart(t, s, a, b) =>
      Copies(t, s, a, b)
<1> SUFFICES ASSUME NEW s, Str(s), NEW t, NEW a \in Nat, NEW b \in Nat, NEW i \in 1..(b - a),
                    a <= b, b <= Len(s), IsPart(t, s, a, b)
             PROVE  t[i] = s[a + i]
  BY DEF Copies
<1>0. Len(s) \in Nat /\ a + 1 \in Int /\ b \in Int
  OBVIOUS
<1>1. \A k \in (a + 1)..b : s[k] \in Byte
  BY <1>0, ElementOfSeq DEF Str
<1>2. \A k \in 1..(b - (a + 1) + 1) : SubSeq(s, a + 1, b)[k] = s[(a + 1) + k - 1]
  BY <1>0, <1>1, SubSeqProperties
<1>3. i \in 1..(b - (a + 1) + 1) /\ (a + 1) + i - 1 = a + i
  BY <1>0
<1> QED
  BY <1>2, <1>3 DEF IsPart

\* Two strings with the same bytes are the same.
LEMMA StrSame ==
  \A s, t : Str(s) /\ Str(t) /\ Len(s) = Len(t) /\ (\A i \in 1..Len(s) : s[i] = t[i]) => s = t
BY SeqEqual DEF Str

\* The length of a string is a number; only the empty one has length 0.
LEMMA StrLen ==
  \A s : Str(s) => Len(s) \in Nat /\ (Len(s) = 0 <=> s = <<>>)
BY EmptySeq DEF Str

\* Nothing between a place and itself.
LEMMA PartEmpty == \A s : \A a \in Nat : IsPart(<<>>, s, a, a)
BY SubSeqEmpty DEF IsPart

\* Parts with the same ends are one.
LEMMA PartSame ==
  \A s, t, u, a, b : IsPart(t, s, a, b) /\ IsPart(u, s, a, b) => t = u
BY DEF IsPart

\* Adjacent parts make up one.
LEMMA PartsJoin ==
  \A s, t, u, a, b, c :
    /\ Str(s) /\ a \in Nat /\ b \in Nat /\ c \in Nat /\ a <= b /\ b <= c /\ c <= Len(s)
    /\ IsPart(t, s, a, b) /\ IsPart(u, s, b, c)
    => IsPart(t \o u, s, a, c)
<1> SUFFICES ASSUME NEW s, Str(s), NEW t, NEW u,
                    NEW a \in Nat, NEW b \in Nat, NEW c \in Nat,
                    a <= b, b <= c, c <= Len(s), IsPart(t, s, a, b), IsPart(u, s, b, c)
             PROVE  IsPart(t \o u, s, a, c)
  OBVIOUS
<1>1. Len(s) \in Nat
  BY StrLen
<1>2. a + 1 \in 1..(Len(s) + 1) /\ b \in ((a + 1) - 1)..Len(s) /\ c \in b..Len(s)
  BY <1>1
<1> QED
  BY <1>2, ConcatAdjacentSubSeq DEF IsPart, Str

\* The first k members of a part, and the others.
LEMMA PartOfPart ==
  \A s, t, a, b :
    Str(s) /\ a \in Nat /\ b \in Nat /\ b <= Len(s) /\ IsPart(t, s, a, b) =>
      \A k \in Nat : a + k <= b =>
        IsPart(SubSeq(t, 1, k), s, a, a + k) /\ IsPart(Drop(t, k), s, a + k, b)
<1> SUFFICES ASSUME NEW s, Str(s), NEW t,
                    NEW a \in Nat, NEW b \in Nat, NEW k \in Nat,
                    a + k <= b, b <= Len(s), IsPart(t, s, a, b)
             PROVE  IsPart(SubSeq(t, 1, k), s, a, a + k) /\ IsPart(Drop(t, k), s, a + k, b)
  OBVIOUS
<1>0. Str(t) /\ Len(t) = b - a
  BY PartIs
<1>1. Copies(t, s, a, b)
  BY PartAt
<1>2. PICK u, v : IsPart(u, s, a, a + k) /\ IsPart(v, s, a + k, b)
  BY DEF IsPart
<1>3. a + k \in Nat /\ a <= a + k /\ a + k <= Len(s) /\ (a + k) - a = k
  BY StrLen
<1>4. Str(u) /\ Len(u) = k /\ Copies(u, s, a, a + k)
  BY <1>2, <1>3, PartIs, PartAt
<1>5. Str(v) /\ Len(v) = b - (a + k) /\ Copies(v, s, a + k, b)
  <2>1. IsPart(v, s, a + k, b) /\ a + k \in Nat /\ a + k <= b
    BY <1>2, <1>3
  <2>2. Str(v) /\ Len(v) = b - (a + k)
    BY <2>1, PartIs
  <2>3. Copies(v, s, a + k, b)
    BY <2>1, PartAt
  <2> QED
    BY <2>2, <2>3
<1>6. PICK x, y : x = SubSeq(t, 1, k) /\ y = Drop(t, k)
  OBVIOUS
<1>7. IsPart(x, t, 0, k) /\ IsPart(y, t, k, Len(t))
  BY <1>6 DEF IsPart, Drop
<1>8. k <= Len(t) /\ Len(t) \in Nat /\ k - 0 = k
  BY <1>0, <1>3
<1>9. Str(x) /\ Len(x) = k /\ Copies(x, t, 0, k)
  BY <1>0, <1>7, <1>8, PartIs, PartAt
<1>10. Str(y) /\ Len(y) = Len(t) - k /\ Copies(y, t, k, Len(t))
  <2>1. Len(t) <= Len(t)
    BY <1>8
  <2>2. Str(y) /\ Len(y) = Len(t) - k
    BY <2>1, <1>0, <1>7, <1>8, PartIs
  <2>3. Copies(y, t, k, Len(t))
    BY <2>1, <1>0, <1>7, <1>8, PartAt
  <2> QED
    BY <2>2, <2>3
<1>11. x = u
  <2>1. \A i \in 1..k : i \in 1..(b - a) /\ 0 + i = i
    BY <1>3
  <2>2. \A i \in 1..k : x[i] = u[i]
    BY <2>1, <1>1, <1>3, <1>4, <1>8, <1>9 DEF Copies
  <2> QED
    BY <2>2, <1>4, <1>9, StrSame
<1>12. y = v
  <2>1. Len(y) = Len(v) /\ Len(v) = b - (a + k)
    BY <1>0, <1>5, <1>10
  <2>2. \A i \in 1..Len(v) : k + i \in 1..(b - a) /\ a + (k + i) = a + k + i
    BY <2>1
  <2>3. \A i \in 1..Len(v) : y[i] = v[i]
    BY <2>1, <2>2, <1>0, <1>1, <1>3, <1>5, <1>10 DEF Copies
  <2> QED
    BY <2>1, <2>3, <1>5, <1>10, StrSame
<1> QED
  BY <1>2, <1>6, <1>11, <1>12

\* The first member of a part, the others, and a part with one more.
LEMMA PartByOne ==
  \A s, t, a, b :
    Str(s) /\ a \in Nat /\ b \in Nat /\ a <= b /\ b <= Len(s) /\ IsPart(t, s, a, b) =>
      /\ a < b => Head(t) = s[a + 1] /\ IsPart(Tail(t), s, a + 1, b)
      /\ b < Len(s) => IsPart(Append(t, s[b + 1]), s, a, b + 1)
<1> SUFFICES ASSUME NEW s, Str(s), NEW t, NEW a \in Nat, NEW b \in Nat,
                    a <= b, b <= Len(s), IsPart(t, s, a, b)
             PROVE  /\ a < b => Head(t) = s[a + 1] /\ IsPart(Tail(t), s, a + 1, b)
                    /\ b < Len(s) => IsPart(Append(t, s[b + 1]), s, a, b + 1)
  OBVIOUS
<1>0. Len(s) \in Nat
  BY StrLen
<1>1. ASSUME a < b
      PROVE  Head(t) = s[a + 1] /\ IsPart(Tail(t), s, a + 1, b)
  <2>1. a + 1 \in 1..Len(s) /\ b \in (a + 1)..Len(s)
    BY <1>0, <1>1
  <2> QED
    BY <2>1, HeadTailOfSubSeq DEF IsPart, Str
<1>2. ASSUME b < Len(s)
      PROVE  IsPart(Append(t, s[b + 1]), s, a, b + 1)
  <2>1. a + 1 \in 1..Len(s) /\ b + 1 \in (a + 1)..Len(s) /\ b + 1 \in 1..Len(s)
        /\ (b + 1) - 1 = b
    BY <1>0, <1>2
  <2>2. SubSeq(s, a + 1, b + 1) = SubSeq(s, a + 1, (b + 1) - 1) \o <<s[b + 1]>>
    BY <2>1, SubSeqRecursiveSecond DEF Str
  <2>3. Str(t) /\ s[b + 1] \in Byte
    BY <2>1, PartIs, ElementOfSeq DEF Str
  <2> QED
    BY <2>1, <2>2, <2>3, AppendIsConcat DEF IsPart, Str
<1> QED
  BY <1>1, <1>2

-----------------------------------------------------------------------------
(* Strings. *)

\* The empty string.
LEMMA StrEmpty == Str(<<>>) /\ Len(<<>>) = 0
BY EmptySeq DEF Str

\* Two strings in a row.
LEMMA StrJoin ==
  \A s, t : Str(s) /\ Str(t) => Str(s \o t) /\ Len(s \o t) = Len(s) + Len(t)
BY ConcatProperties DEF Str

\* The bytes of two strings in a row.
LEMMA JoinLeft ==
  \A s, t, i : Str(s) /\ Str(t) /\ i \in 1..Len(s) => (s \o t)[i] = s[i]
<1> SUFFICES ASSUME NEW s, NEW t, NEW i, Str(s), Str(t), i \in 1..Len(s)
             PROVE  (s \o t)[i] = s[i]
  OBVIOUS
<1>1. Len(s) \in Nat /\ Len(t) \in Nat
  BY StrLen
<1>2. i \in 1..(Len(s) + Len(t)) /\ i <= Len(s)
  BY <1>1
<1> QED
  BY <1>2, ConcatProperties DEF Str

\* The same for the second.
LEMMA JoinRight ==
  \A s, t, i : Str(s) /\ Str(t) /\ i \in 1..Len(t) => (s \o t)[Len(s) + i] = t[i]
<1> SUFFICES ASSUME NEW s, NEW t, NEW i, Str(s), Str(t), i \in 1..Len(t)
             PROVE  (s \o t)[Len(s) + i] = t[i]
  OBVIOUS
<1>1. Len(s) \in Nat /\ Len(t) \in Nat
  BY StrLen
<1>2. Len(s) + i \in 1..(Len(s) + Len(t)) /\ ~ (Len(s) + i <= Len(s)) /\ (Len(s) + i) - Len(s) = i
  BY <1>1
<1> QED
  BY <1>2, ConcatProperties DEF Str

\* Nothing before or behind a string.
LEMMA JoinEmpty == \A s : Str(s) => s \o <<>> = s /\ <<>> \o s = s
BY ConcatEmptySeq DEF Str

\* Three strings in a row.
LEMMA JoinJoin ==
  \A s, t, u : Str(s) /\ Str(t) /\ Str(u) => (s \o t) \o u = s \o (t \o u)
BY ConcatAssociative DEF Str

\* The whole of a string is a part of it.
LEMMA StrWhole == \A s : Str(s) => SubSeq(s, 1, Len(s)) = s
BY SubSeqFull DEF Str

\* A string cut in two.
LEMMA CutAndJoin ==
  ASSUME NEW s, Str(s), NEW k \in Nat, k <= Len(s)
  PROVE  /\ Str(SubSeq(s, 1, k)) /\ Str(Drop(s, k))
         /\ Len(SubSeq(s, 1, k)) = k /\ Len(Drop(s, k)) = Len(s) - k
         /\ SubSeq(s, 1, k) \o Drop(s, k) = s
<1>1. Len(s) \in Nat
  BY StrLen
<1>2. PICK u, v : u = SubSeq(s, 1, k) /\ v = Drop(s, k)
  OBVIOUS
<1>3. IsPart(u, s, 0, k) /\ IsPart(v, s, k, Len(s)) /\ Len(s) <= Len(s) /\ 0 <= k
  BY <1>1, <1>2 DEF IsPart, Drop
<1>4. Str(u) /\ Len(u) = k - 0
  BY <1>3, PartIs
<1>5. Str(v) /\ Len(v) = Len(s) - k
  BY <1>1, <1>3, PartIs
<1>6. IsPart(u \o v, s, 0, Len(s))
  BY <1>1, <1>3, PartsJoin
<1>7. IsPart(s, s, 0, Len(s))
  BY StrWhole DEF IsPart
<1>8. u \o v = s
  BY <1>6, <1>7, PartSame
<1> QED
  BY <1>2, <1>4, <1>5, <1>8

\* A string and one more byte, and the string without it.
LEMMA StrAppend ==
  \A s, x : Str(s) /\ x \in Byte =>
    /\ Str(Append(s, x)) /\ Len(Append(s, x)) = Len(s) + 1
    /\ Append(s, x)[Len(s) + 1] = x
    /\ SubSeq(Append(s, x), 1, Len(s)) = s
<1> SUFFICES ASSUME NEW s, NEW x, Str(s), x \in Byte
             PROVE  /\ Str(Append(s, x)) /\ Len(Append(s, x)) = Len(s) + 1
                    /\ Append(s, x)[Len(s) + 1] = x
                    /\ SubSeq(Append(s, x), 1, Len(s)) = s
  OBVIOUS
<1>1. /\ Str(Append(s, x)) /\ Len(Append(s, x)) = Len(s) + 1
      /\ Append(s, x)[Len(s) + 1] = x
      /\ \A i \in 1..Len(s) : Append(s, x)[i] = s[i]
  BY AppendProperties DEF Str
<1>2. Len(s) \in Nat
  BY StrLen
<1>3. PICK u, a : a = Append(s, x) /\ u = SubSeq(a, 1, Len(s))
  OBVIOUS
<1>4. Str(a) /\ IsPart(u, a, 0, Len(s)) /\ Len(s) <= Len(a) /\ 0 <= Len(s)
  BY <1>1, <1>2, <1>3 DEF IsPart
<1>5. Str(u) /\ Len(u) = Len(s) - 0
  BY <1>2, <1>4, PartIs
<1>6. Copies(u, a, 0, Len(s))
  BY <1>2, <1>4, PartAt
<1>7. Len(u) = Len(s) /\ \A i \in 1..Len(u) : u[i] = a[i]
  BY <1>2, <1>5, <1>6 DEF Copies
<1>8. \A i \in 1..Len(u) : u[i] = s[i]
  BY <1>1, <1>3, <1>7
<1>9. u = s
  BY <1>5, <1>7, <1>8, StrSame
<1> QED
  BY <1>1, <1>3, <1>9

\* A member of a sequence is one of its bytes.
LEMMA InString == \A s : Str(s) => ToSet(s) = {s[i] : i \in 1..Len(s)}
<1> SUFFICES ASSUME NEW s, Str(s) PROVE ToSet(s) = {s[i] : i \in 1..Len(s)}
  OBVIOUS
<1>1. DOMAIN s = 1..Len(s)
  BY LenProperties DEF Str
<1> QED
  BY <1>1 DEF ToSet

-----------------------------------------------------------------------------
\* What the peer sends is a sequence of bytes other than NUL.
LEMMA SentIs ==
  sent \in Streams =>
    Str(sent) /\ Len(sent) \in Nat /\ \A i \in 1..Len(sent) : sent[i] # NUL
<1> SUFFICES ASSUME sent \in Streams
             PROVE  Str(sent) /\ Len(sent) \in Nat
                    /\ \A i \in 1..Len(sent) : sent[i] # NUL
  OBVIOUS
<1>1. sent \in Seq(ToSet(sent)) /\ NUL \notin ToSet(sent)
  BY ByteAssumption DEF IsStream
<1>2. ToSet(sent) \subseteq Byte
  BY Zenon DEF Byte
<1>3. Str(sent)
  BY <1>1, <1>2, SeqMonotonic, Zenon DEF Str
<1>4. Len(sent) \in Nat /\ DOMAIN sent = 1..Len(sent)
  BY <1>3, LenProperties, Zenon DEF Str
<1>5. \A i \in 1..Len(sent) : sent[i] \in ToSet(sent)
  BY <1>4, Zenon DEF ToSet
<1> QED
  BY <1>1, <1>3, <1>4, <1>5

\* The positions are those that the lengths give.
LEMMA AtIs ==
  \A p, q, r : sent \in Streams /\ At(p, q, r) =>
    /\ FromAt = p /\ NextAt = q /\ GotAt = r
    /\ Str(usrbuf) /\ Len(usrbuf) = q - p
    /\ Copies(usrbuf, sent, p, q)
    /\ Str(rio_buf) /\ Len(rio_buf) = r - q
    /\ Str(input) /\ Len(input) = Len(sent) - r
<1> SUFFICES ASSUME NEW p, NEW q, NEW r, sent \in Streams, At(p, q, r)
             PROVE  /\ FromAt = p /\ NextAt = q /\ GotAt = r
                    /\ Str(usrbuf) /\ Len(usrbuf) = q - p
                    /\ Copies(usrbuf, sent, p, q)
                    /\ Str(rio_buf) /\ Len(rio_buf) = r - q
                    /\ Str(input) /\ Len(input) = Len(sent) - r
  OBVIOUS
<1>1. Str(sent) /\ Len(sent) \in Nat
  BY SentIs
<1>2. /\ p \in Nat /\ q \in Nat /\ r \in Nat
      /\ q \in p..Len(sent) /\ r \in q..Len(sent) /\ Len(sent) \in r..Len(sent)
  BY <1>1 DEF At
<1>3. /\ Str(usrbuf) /\ Len(usrbuf) = q - p
      /\ Copies(usrbuf, sent, p, q)
  <2>1. p <= q /\ q <= Len(sent) /\ IsPart(usrbuf, sent, p, q)
    BY <1>1, <1>2 DEF At
  <2> QED
    BY <2>1, <1>1, <1>2, PartIs, PartAt
<1>4. Str(rio_buf) /\ Len(rio_buf) = r - q
  <2>1. q <= r /\ r <= Len(sent) /\ IsPart(rio_buf, sent, q, r)
    BY DEF At
  <2> QED
    BY <2>1, <1>1, <1>2, PartIs
<1>5. Str(input) /\ Len(input) = Len(sent) - r
  <2>1. r <= Len(sent) /\ IsPart(input, sent, r, Len(sent))
    BY DEF At
  <2> QED
    BY <2>1, <1>1, <1>2, PartIs
<1>6. GotAt = r
  BY <1>1, <1>2, <1>5 DEF GotAt
<1>7. NextAt = q
  BY <1>2, <1>4, <1>6 DEF NextAt
<1>8. FromAt = p
  BY <1>2, <1>3, <1>7 DEF FromAt
<1> QED
  BY <1>3, <1>4, <1>5, <1>6, <1>7, <1>8

\* The same of the next state.
LEMMA AtIsNext ==
  (\A p, q, r : sent \in Streams /\ At(p, q, r) =>
     /\ FromAt = p /\ NextAt = q /\ GotAt = r
     /\ Str(usrbuf) /\ Len(usrbuf) = q - p
     /\ Copies(usrbuf, sent, p, q)
     /\ Str(rio_buf) /\ Len(rio_buf) = r - q
     /\ Str(input) /\ Len(input) = Len(sent) - r)'
BY AtIs, PTL

\* Positions of the next state, from the parts they cut the stream into.
LEMMA NewAt ==
  ASSUME sent' = sent, Len(sent) \in Nat, NEW p \in Nat, NEW q \in Nat, NEW r \in Nat,
         p <= q, q <= r, r <= Len(sent),
         IsPart(usrbuf', sent, p, q), IsPart(rio_buf', sent, q, r),
         IsPart(input', sent, r, Len(sent)), IsPart(rest', sent, p, Len(sent))
  PROVE  At(p, q, r)'
BY Zenon DEF At

\* Positions found for the next state are the positions there.
LEMMA NewPlaces ==
  ASSUME sent' = sent, sent \in Streams, NEW p, NEW q, NEW r, At(p, q, r)'
  PROVE  InPlace' /\ FromAt' = p /\ NextAt' = q /\ GotAt' = r
<1>1. FromAt' = p /\ NextAt' = q /\ GotAt' = r
  BY AtIsNext
<1> QED
  BY <1>1 DEF InPlace, At

-----------------------------------------------------------------------------
\* The smaller of two numbers.
LEMMA MinTwo ==
  ASSUME NEW a \in Int, NEW b \in Int
  PROVE  /\ Min({a, b}) \in {a, b} /\ Min({a, b}) <= a /\ Min({a, b}) <= b
         /\ \A k \in 1..Min({a, b}) : k \in Nat \ {0} /\ k <= a /\ k <= b
<1>1. CASE a <= b
  <2>1. Min({a, b}) = a
    BY <1>1, MinIs
  <2> QED
    BY <2>1, <1>1
<1>2. CASE ~ (a <= b)
  <2>1. b \in {a, b} /\ \A n \in {a, b} : b <= n
    BY <1>2
  <2>2. Min({a, b}) = b
    BY <2>1, MinIs
  <2> QED
    BY <2>2, <1>2
<1> QED
  BY <1>1, <1>2

\* read() moves bytes from the connection to rio_buf, which was empty.
LEMMA FillMoves ==
  ASSUME Types, InPlace, Fill, sent' = sent
  PROVE  InPlace' /\ FromAt' = FromAt /\ NextAt' = NextAt /\ Len(rio_buf') <= BufSize
<1>1. PICK p, q, r : At(p, q, r) /\ p = FromAt /\ q = NextAt /\ r = GotAt
  BY Zenon DEF InPlace
<1>2. sent \in Streams /\ Str(sent) /\ Len(sent) \in Nat
  BY SentIs DEF Types
<1>3. /\ p \in Nat /\ q \in Nat /\ r \in Nat /\ p <= q /\ q <= r /\ r <= Len(sent)
      /\ IsPart(input, sent, r, Len(sent))
  BY <1>1 DEF At
<1>4. /\ Str(rio_buf) /\ Len(rio_buf) = r - q
      /\ Str(input) /\ Len(input) = Len(sent) - r
  BY <1>1, <1>2, AtIs
<1>5. q = r
  <2>1. Len(rio_buf) = 0
    BY <1>4, StrLen DEF Fill
  <2> QED
    BY <2>1, <1>3, <1>4
<1>6. PICK k \in 1..Min({BufSize, Len(input)}) :
        rio_buf' = SubSeq(input, 1, k) /\ input' = Drop(input, k)
  BY DEF Fill
<1>7. k \in Nat \ {0} /\ k <= BufSize /\ k <= Len(sent) - r
  <2>1. BufSize \in Int /\ Len(input) \in Int /\ Len(input) = Len(sent) - r
    BY <1>2, <1>3, <1>4, RioAssumption
  <2>2. \A x \in 1..Min({BufSize, Len(input)}) :
          x \in Nat \ {0} /\ x <= BufSize /\ x <= Len(input)
    BY <2>1, MinTwo
  <2> QED
    BY <2>1, <2>2, <1>6
<1>8. /\ IsPart(rio_buf', sent, r, r + k)
      /\ IsPart(input', sent, r + k, Len(sent))
  <2>1. r \in Nat /\ Len(sent) \in r..Len(sent) /\ k \in 0..(Len(sent) - r)
    BY <1>2, <1>3, <1>7
  <2>2. /\ IsPart(SubSeq(input, 1, k), sent, r, r + k)
        /\ IsPart(Drop(input, k), sent, r + k, Len(sent))
    BY <1>2, <1>3, <2>1, PartOfPart
  <2> QED
    BY <1>6, <2>2
<1>9. At(p, q, r + k)'
  <2>1. r + k \in Nat /\ q <= r + k /\ r + k <= Len(sent)
    BY <1>2, <1>3, <1>7
  <2>2. IsPart(usrbuf', sent, p, q) /\ IsPart(rest', sent, p, Len(sent))
    BY <1>1 DEF At, Fill
  <2>3. IsPart(rio_buf', sent, q, r + k)
    BY <1>5, <1>8
  <2> QED
    BY <1>2, <1>3, <1>8, <2>1, <2>2, <2>3, NewAt
<1>10. InPlace' /\ FromAt' = p /\ NextAt' = q /\ GotAt' = r + k
  BY <1>2, <1>9, NewPlaces
<1>11. Len(rio_buf') = (r + k) - q
  BY <1>2, <1>9, AtIsNext
<1> QED
  BY <1>1, <1>3, <1>5, <1>7, <1>10, <1>11, RioAssumption

\* rio_readlineb stores the next byte.
LEMMA LineByteMoves ==
  ASSUME Types, InPlace, LineByte, sent' = sent
  PROVE  /\ InPlace' /\ FromAt' = FromAt /\ NextAt' = NextAt + 1
         /\ Len(rio_buf') <= BufSize
         /\ Head(rio_buf) \in Byte
         /\ Len(usrbuf') = Len(usrbuf) + 1
         /\ usrbuf'[Len(usrbuf')] = Head(rio_buf)
         /\ \A i \in 1..Len(usrbuf) : usrbuf'[i] = usrbuf[i]
<1>1. PICK p, q, r : At(p, q, r) /\ p = FromAt /\ q = NextAt /\ r = GotAt
  BY Zenon DEF InPlace
<1>2. sent \in Streams /\ Str(sent) /\ Len(sent) \in Nat
  BY SentIs DEF Types
<1>3. /\ p \in Nat /\ q \in Nat /\ r \in Nat /\ p <= q /\ q <= r /\ r <= Len(sent)
      /\ IsPart(usrbuf, sent, p, q)
      /\ IsPart(rio_buf, sent, q, r)
  BY <1>1 DEF At
<1>4. /\ Str(usrbuf) /\ Len(usrbuf) = q - p
      /\ Str(rio_buf) /\ Len(rio_buf) = r - q
  BY <1>1, <1>2, AtIs
<1>5. q < r
  <2>1. Len(rio_buf) # 0
    BY <1>4, StrLen DEF LineByte
  <2> QED
    BY <2>1, <1>3, <1>4
<1>6. /\ q \in p..Len(sent) /\ r \in q..Len(sent) /\ q < Len(sent) /\ q + 1 \in 1..Len(sent)
  BY <1>2, <1>3, <1>5
<1>7. Head(rio_buf) = sent[q + 1] /\ IsPart(Tail(rio_buf), sent, q + 1, r)
  BY <1>2, <1>3, <1>5, <1>6, PartByOne
<1>8. sent[q + 1] \in Byte
  BY <1>2, <1>6, ElementOfSeq DEF Str
<1>9. IsPart(Append(usrbuf, sent[q + 1]), sent, p, q + 1)
  <2>1. Str(sent) /\ IsPart(usrbuf, sent, p, q) /\ p <= q /\ q <= Len(sent) /\ q < Len(sent)
    BY <1>2, <1>3, <1>6
  <2> QED
    BY <2>1, <1>3, PartByOne
<1>10. At(p, q + 1, r)'
  <2>1. q + 1 \in Nat /\ p <= q + 1 /\ q + 1 <= r
    BY <1>3, <1>5
  <2>2. IsPart(input', sent, r, Len(sent)) /\ IsPart(rest', sent, p, Len(sent))
    BY <1>1 DEF At, LineByte, stream
  <2>3. IsPart(usrbuf', sent, p, q + 1) /\ IsPart(rio_buf', sent, q + 1, r)
    BY <1>7, <1>9 DEF LineByte
  <2> QED
    BY <1>2, <1>3, <2>1, <2>2, <2>3, NewAt
<1>11. InPlace' /\ FromAt' = p /\ NextAt' = q + 1
  BY <1>2, <1>10, NewPlaces
<1>12. Len(rio_buf') = r - (q + 1)
  BY <1>2, <1>10, AtIsNext
<1>13. Len(rio_buf') <= BufSize
  BY <1>3, <1>4, <1>12, RioAssumption DEF Types
<1>14. usrbuf' = Append(usrbuf, Head(rio_buf))
  BY DEF LineByte
<1>15. /\ Len(usrbuf') = Len(usrbuf) + 1
       /\ usrbuf'[Len(usrbuf')] = Head(rio_buf)
       /\ \A i \in 1..Len(usrbuf) : usrbuf'[i] = usrbuf[i]
  BY <1>4, <1>7, <1>8, <1>14, AppendProperties DEF Str
<1> QED
  BY <1>1, <1>7, <1>8, <1>11, <1>13, <1>15

\* rio_readnb takes as many bytes as it needs and as are there.
LEMMA BlockMoves ==
  ASSUME Types, InPlace, Block, sent' = sent, want >= Len(usrbuf)
  PROVE  /\ InPlace' /\ FromAt' = FromAt
         /\ Len(rio_buf') <= BufSize
         /\ Len(usrbuf) <= Len(usrbuf') /\ Len(usrbuf') <= want
<1>1. PICK p, q, r : At(p, q, r) /\ p = FromAt /\ q = NextAt /\ r = GotAt
  BY Zenon DEF InPlace
<1>2. sent \in Streams /\ Str(sent) /\ Len(sent) \in Nat /\ want \in Nat
  BY SentIs DEF Types
<1>3. /\ p \in Nat /\ q \in Nat /\ r \in Nat /\ p <= q /\ q <= r /\ r <= Len(sent)
      /\ IsPart(usrbuf, sent, p, q)
      /\ IsPart(rio_buf, sent, q, r)
  BY <1>1 DEF At
<1>4. /\ Str(usrbuf) /\ Len(usrbuf) = q - p
      /\ Str(rio_buf) /\ Len(rio_buf) = r - q
  BY <1>1, <1>2, AtIs
<1>5. PICK k : k = Room
  OBVIOUS
<1>6. k \in Nat /\ k <= r - q /\ k <= want - (q - p)
  <2>1. want - (q - p) \in Int /\ r - q \in Int
    BY <1>2, <1>3
  <2>2. k = Min({want - (q - p), r - q})
    BY <1>4, <1>5 DEF Room
  <2>3. want - (q - p) >= 0 /\ r - q >= 0
    BY <1>2, <1>3, <1>4
  <2>4. /\ Min({want - (q - p), r - q}) \in {want - (q - p), r - q}
        /\ Min({want - (q - p), r - q}) <= want - (q - p)
        /\ Min({want - (q - p), r - q}) <= r - q
    BY <2>1, MinTwo
  <2> QED
    BY <2>1, <2>2, <2>3, <2>4
<1>7. usrbuf' = usrbuf \o SubSeq(rio_buf, 1, k) /\ rio_buf' = Drop(rio_buf, k)
  BY <1>5 DEF Block, Take
<1>8. /\ q \in p..Len(sent) /\ r \in q..Len(sent) /\ k \in 0..(r - q)
      /\ q + k \in q..Len(sent) /\ q + k \in Nat
  BY <1>2, <1>3, <1>6
<1>9. /\ IsPart(SubSeq(rio_buf, 1, k), sent, q, q + k)
      /\ IsPart(Drop(rio_buf, k), sent, q + k, r)
  BY <1>2, <1>3, <1>8, PartOfPart
<1>10. IsPart(usrbuf', sent, p, q + k)
  BY <1>2, <1>3, <1>7, <1>8, <1>9, PartsJoin
<1>11. At(p, q + k, r)'
  <2>1. p <= q + k /\ q + k <= r
    BY <1>3, <1>6
  <2>2. IsPart(input', sent, r, Len(sent)) /\ IsPart(rest', sent, p, Len(sent))
    BY <1>1 DEF At, Block, stream
  <2>3. IsPart(rio_buf', sent, q + k, r)
    BY <1>7, <1>9
  <2> QED
    BY <1>2, <1>3, <1>8, <1>10, <2>1, <2>2, <2>3, NewAt
<1>12. InPlace' /\ FromAt' = p
  BY <1>2, <1>11, NewPlaces
<1>13. Len(rio_buf') = r - (q + k) /\ Len(usrbuf') = (q + k) - p
  BY <1>2, <1>11, AtIsNext
<1>14. Len(rio_buf') <= BufSize
  BY <1>3, <1>4, <1>6, <1>13, RioAssumption DEF Types
<1>15. Len(usrbuf) <= Len(usrbuf') /\ Len(usrbuf') <= want
  BY <1>2, <1>3, <1>4, <1>6, <1>13
<1> QED
  BY <1>1, <1>12, <1>14, <1>15

\* rio_readn reads past the buffer, which is empty.
LEMMA RawMoves ==
  ASSUME Types, InPlace, Raw, sent' = sent, want >= Len(usrbuf), rio_buf = <<>>
  PROVE  /\ InPlace' /\ FromAt' = FromAt
         /\ Len(usrbuf) <= Len(usrbuf') /\ Len(usrbuf') <= want
<1>1. PICK p, q, r : At(p, q, r) /\ p = FromAt /\ q = NextAt /\ r = GotAt
  BY Zenon DEF InPlace
<1>2. sent \in Streams /\ Str(sent) /\ Len(sent) \in Nat /\ want \in Nat
  BY SentIs DEF Types
<1>3. /\ p \in Nat /\ q \in Nat /\ r \in Nat /\ p <= q /\ q <= r /\ r <= Len(sent)
      /\ IsPart(usrbuf, sent, p, q)
      /\ IsPart(input, sent, r, Len(sent))
  BY <1>1 DEF At
<1>4. /\ Str(usrbuf) /\ Len(usrbuf) = q - p
      /\ Str(rio_buf) /\ Len(rio_buf) = r - q
      /\ Str(input) /\ Len(input) = Len(sent) - r
  BY <1>1, <1>2, AtIs
<1>5. q = r
  <2>1. Len(rio_buf) = 0
    BY <1>4, StrLen
  <2> QED
    BY <2>1, <1>3, <1>4
<1>6. PICK k \in 1..Min({want - Len(usrbuf), Len(input)}) :
        usrbuf' = usrbuf \o SubSeq(input, 1, k) /\ input' = Drop(input, k)
  BY DEF Raw, Take
<1>7. k \in Nat /\ k <= Len(sent) - r /\ k <= want - (q - p)
  <2>1. want - (q - p) \in Int /\ Len(sent) - r \in Int
    BY <1>2, <1>3
  <2>2. k \in 1..Min({want - (q - p), Len(sent) - r})
    BY <1>4, <1>6
  <2>3. \A x \in 1..Min({want - (q - p), Len(sent) - r}) :
          x \in Nat \ {0} /\ x <= want - (q - p) /\ x <= Len(sent) - r
    BY <2>1, MinTwo
  <2> QED
    BY <2>2, <2>3
<1>8. /\ q \in p..Len(sent) /\ Len(sent) \in r..Len(sent) /\ k \in 0..(Len(sent) - r)
      /\ r + k \in q..Len(sent) /\ r + k \in Nat
  BY <1>2, <1>3, <1>7
<1>9. /\ IsPart(SubSeq(input, 1, k), sent, r, r + k)
      /\ IsPart(Drop(input, k), sent, r + k, Len(sent))
  BY <1>2, <1>3, <1>8, PartOfPart
<1>10. IsPart(usrbuf', sent, p, r + k)
  BY <1>2, <1>3, <1>5, <1>6, <1>8, <1>9, PartsJoin
<1>11. IsPart(<<>>, sent, r + k, r + k)
  BY <1>8, PartEmpty
<1>12. rio_buf' = <<>> /\ sent' = sent /\ rest' = rest
  BY DEF Raw
<1>13. IsPart(rest, sent, p, Len(sent))
  BY <1>1 DEF At
<1>14. At(p, r + k, r + k)'
  <2>1. p <= r + k /\ r + k <= r + k /\ r + k <= Len(sent)
    BY <1>2, <1>3, <1>7
  <2>2. IsPart(rio_buf', sent, r + k, r + k) /\ IsPart(rest', sent, p, Len(sent))
    BY <1>11, <1>12, <1>13
  <2>3. IsPart(input', sent, r + k, Len(sent))
    BY <1>6, <1>9
  <2> QED
    BY <1>2, <1>3, <1>8, <1>10, <2>1, <2>2, <2>3, NewAt
<1>15. InPlace' /\ FromAt' = p
  BY <1>2, <1>14, NewPlaces
<1>16. Len(usrbuf') = (r + k) - p
  BY <1>2, <1>14, AtIsNext
<1>17. Len(usrbuf) <= Len(usrbuf') /\ Len(usrbuf') <= want
  BY <1>2, <1>3, <1>4, <1>5, <1>7, <1>16
<1> QED
  BY <1>1, <1>15, <1>17

\* A new call: what it stores begins where the last one has ended.
LEMMA ReadMoves ==
  ASSUME NEW f, NEW n, Types, InPlace, Read(f, n), sent' = sent
  PROVE  InPlace' /\ FromAt' = NextAt /\ NextAt' = NextAt
<1>1. PICK p, q, r : At(p, q, r) /\ p = FromAt /\ q = NextAt /\ r = GotAt
  BY Zenon DEF InPlace
<1>2. sent \in Streams /\ Str(sent) /\ Len(sent) \in Nat
  BY SentIs DEF Types
<1>3. /\ p \in Nat /\ q \in Nat /\ r \in Nat /\ p <= q /\ q <= r /\ r <= Len(sent)
      /\ IsPart(rio_buf, sent, q, r)
      /\ IsPart(input, sent, r, Len(sent))
  BY <1>1 DEF At
<1>4. r \in q..Len(sent) /\ Len(sent) \in r..Len(sent)
  BY <1>2, <1>3
<1>5. IsPart(rio_buf \o input, sent, q, Len(sent))
  BY <1>2, <1>3, <1>4, PartsJoin
<1>6. IsPart(<<>>, sent, q, q)
  BY <1>3, PartEmpty
<1>7. /\ usrbuf' = <<>> /\ rest' = rio_buf \o input
      /\ rio_buf' = rio_buf /\ input' = input
  BY DEF Read, stream
<1>8. At(q, q, r)'
  BY <1>3, <1>5, <1>6, <1>7 DEF At
<1>9. InPlace' /\ FromAt' = q /\ NextAt' = q
  BY <1>2, <1>8, NewPlaces
<1> QED
  BY <1>1, <1>9

\* The other steps move nothing.
LEMMA NothingMoves ==
  ASSUME InPlace, sent' = sent, input' = input, rio_buf' = rio_buf,
         usrbuf' = usrbuf, rest' = rest
  PROVE  InPlace' /\ FromAt' = FromAt /\ NextAt' = NextAt /\ GotAt' = GotAt
<1>1. FromAt' = FromAt /\ NextAt' = NextAt /\ GotAt' = GotAt
  BY DEF FromAt, NextAt, GotAt
<1> QED
  BY <1>1 DEF InPlace, At

-----------------------------------------------------------------------------
(* Every step finds the bytes in place. *)

\* What the calls have stored fits what they were asked for.
LEMMA Stored ==
  ASSUME Types, InPlace, Called
  PROVE  /\ op \in {"rio_readlineb", "rio_readnb", "rio_readn"} => Len(usrbuf) <= want
         /\ Len(usrbuf) \in Nat
<1>1. PICK p, q, r : At(p, q, r)
  BY Zenon DEF InPlace
<1>2. Str(usrbuf)
  BY <1>1, AtIs DEF Types
<1>3. Len(usrbuf) \in Nat
  BY <1>2, StrLen
<1>4. want \in Nat
  BY DEF Types
<1> QED
  BY <1>3, <1>4 DEF Called, LineSoFar, BlockSoFar

\* A round of the loops of rio_read, rio_readlineb, rio_readnb, rio_readn and
\* rio_writen leaves the place where the call began.
LEMMA RioMoves ==
  ASSUME Types, InPlace, Called, RioStep, sent' = sent
  PROVE  InPlace' /\ FromAt' = FromAt /\ Len(rio_buf') <= BufSize
<1>1. CASE Fill
  BY <1>1, FillMoves
<1>2. CASE LineByte
  BY <1>2, LineByteMoves
<1>3. CASE LineEof \/ BlockEof \/ WriteSome
  <2>1. UNCHANGED <<input, rio_buf, usrbuf, rest>>
    BY <1>3 DEF LineEof, BlockEof, WriteSome, stream, reading
  <2> QED
    BY <2>1, NothingMoves DEF Types
<1>4. CASE Block
  <2>1. Len(usrbuf) <= want
    BY <1>4, Stored DEF Block, Running
  <2>2. want \in Nat /\ Len(usrbuf) \in Nat
    BY Stored DEF Types
  <2> QED
    BY <1>4, <2>1, <2>2, BlockMoves
<1>5. CASE Raw
  <2>1. Len(usrbuf) <= want /\ rio_buf = <<>>
    BY <1>5, Stored DEF Raw, Running, Called
  <2>2. want \in Nat /\ Len(usrbuf) \in Nat
    BY Stored DEF Types
  <2>3. rio_buf' = rio_buf
    BY <1>5 DEF Raw
  <2> QED
    BY <1>5, <2>1, <2>2, <2>3, RawMoves DEF Types
<1> QED
  BY <1>1, <1>2, <1>3, <1>4, <1>5 DEF RioStep

\* Every step leaves the stream cut into these parts.
LEMMA StepPlaces ==
  ASSUME Types, InPlace, Called, Next
  PROVE  InPlace' /\ Len(rio_buf') <= BufSize
<1>1. CASE Steps
  BY <1>1, RioMoves DEF Steps
<1>2. ASSUME NEW f, NEW n, Read(f, n), sent' = sent
      PROVE  InPlace' /\ Len(rio_buf') <= BufSize
  BY <1>2, ReadMoves DEF Read, Types
<1>3. CASE AskFirst \/ AskLine \/ AskPiece \/ AnyCall
  BY <1>2, <1>3 DEF AskFirst, AskLine, AskPiece, AnyCall
<1>4. ASSUME UNCHANGED <<sent, input, rio_buf, usrbuf, rest>>
      PROVE  InPlace' /\ Len(rio_buf') <= BufSize
  BY <1>4, NothingMoves DEF Types
<1>5. CASE StatusLine \/ HeaderLine \/ BodyPiece
  BY <1>4, <1>5 DEF StatusLine, HeaderLine, BodyPiece, Write, stream
<1>6. CASE HeadersEnd \/ BodyEnds \/ Overrun
  BY <1>4, <1>6 DEF HeadersEnd, BodyEnds, Overrun, rioVars, stream, reading
<1>7. CASE Fails /\ UNCHANGED <<sent, pc, locals>>
  BY <1>4, <1>7 DEF Fails, stream, reading
<1> QED
  BY <1>1, <1>3, <1>5, <1>6, <1>7 DEF Next, read_responsehdrs

-----------------------------------------------------------------------------
(* What a call returns. *)

\* What a call of rio_readlineb that has ended leaves in the buffer it was
\* given, the NUL included.
LEMMA GotIs ==
  ASSUME Types, InPlace, Called, op = "rio_readlineb", rc >= 0
  PROVE  /\ rc \in Nat /\ Str(usrbuf) /\ Len(usrbuf) \in Nat
         /\ rc = Len(usrbuf) \/ rc = Len(usrbuf) + 1
         /\ rc = 0 => usrbuf = <<>>
         /\ rc <= want /\ Len(usrbuf) < want
         /\ rc = Len(usrbuf) => Got = usrbuf
         /\ rc = Len(usrbuf) + 1 => Got = Append(usrbuf, NUL)
<1>1. PICK p, q, r : At(p, q, r)
  BY Zenon DEF InPlace
<1>2. Str(usrbuf) /\ want \in Nat
  BY <1>1, AtIs DEF Types
<1>3. Len(usrbuf) \in Nat /\ (Len(usrbuf) = 0 <=> usrbuf = <<>>)
  BY <1>2, StrLen
<1>4. rc \in Nat
  BY DEF Types, Pending, Failed
<1>5. LineEnds /\ want >= 2 /\ Len(usrbuf) < want
  BY DEF Called, LineSoFar
<1>6. rc = Len(usrbuf) \/ rc = Len(usrbuf) + 1
  BY <1>2, <1>3, <1>5 DEF LineEnds
<1>7. rc = 0 => usrbuf = <<>>
  BY <1>3, <1>4, <1>6
<1>8. rc <= want
  BY <1>2, <1>3, <1>4, <1>5, <1>6
<1>9. Str(Append(usrbuf, NUL)) /\ Len(Append(usrbuf, NUL)) = Len(usrbuf) + 1
      /\ SubSeq(Append(usrbuf, NUL), 1, Len(usrbuf)) = usrbuf
  <2>1. NUL \in Byte
    BY DEF Byte
  <2> QED
    BY <1>2, <2>1, StrAppend
<1>10. rc = Len(usrbuf) => Got = usrbuf
  BY <1>9 DEF Got
<1>11. rc = Len(usrbuf) + 1 => Got = Append(usrbuf, NUL)
  <2>1. SubSeq(Append(usrbuf, NUL), 1, Len(Append(usrbuf, NUL))) = Append(usrbuf, NUL)
    BY <1>9, StrWhole
  <2> QED
    BY <1>9, <2>1 DEF Got
<1> QED
  BY <1>2, <1>3, <1>4, <1>5, <1>6, <1>7, <1>8, <1>10, <1>11

-----------------------------------------------------------------------------
(* Types. *)

\* A copy to the end of what is in a buffer.
LEMMA CopiedIs ==
  ASSUME NEW b, NEW s, Str(b), Str(s), Len(b) = size
  PROVE  Copied(b, s) = b \o s
<1>1. size - Len(b) = 0
  BY StrLen
<1>2. [i \in 1..0 |-> NUL] = <<>>
  OBVIOUS
<1>3. b \o <<>> = b
  BY JoinEmpty
<1> QED
  BY <1>1, <1>2, <1>3 DEF Copied

RioTypes ==
  /\ op \in Functions
  /\ rc \in {Pending, Failed} \cup Nat /\ want \in Nat
  /\ Str(output) /\ Str(unsent)

LocalTypes ==
  /\ sent \in Streams /\ pc \in Places
  /\ size \in Nat
  /\ hdrs_valid \in BOOLEAN /\ body_valid \in BOOLEAN
  /\ Str(buf) /\ Str(headersbuf) /\ Str(cachebuf)

\* The types, those of Rio and those of read_responsehdrs apart.
LEMMA TypesAre == Types <=> RioTypes /\ LocalTypes /\ Len(rio_buf) <= BufSize
BY Zenon DEF Types, RioTypes, LocalTypes

\* The same of the next state.
LEMMA TypesAreNext == Types' <=> RioTypes' /\ LocalTypes' /\ Len(rio_buf') <= BufSize
BY Zenon DEF Types, RioTypes, LocalTypes

\* One round of rio_writen moves the bytes from unsent to output.
LEMMA WriteMoves ==
  ASSUME Types, WriteSome
  PROVE  Str(output') /\ Str(unsent') /\ Out' = Out
<1>1. Str(output) /\ Str(unsent)
  BY DEF Types
<1>2. PICK k \in 1..Len(unsent) :
        output' = output \o SubSeq(unsent, 1, k) /\ unsent' = Drop(unsent, k)
  BY DEF WriteSome
<1>3. k \in Nat /\ k <= Len(unsent)
  BY <1>1, StrLen
<1>4. /\ Str(SubSeq(unsent, 1, k)) /\ Str(Drop(unsent, k))
      /\ SubSeq(unsent, 1, k) \o Drop(unsent, k) = unsent
  BY <1>1, <1>3, CutAndJoin
<1>5. Str(output \o SubSeq(unsent, 1, k))
  BY <1>1, <1>4, StrJoin
<1>6. (output \o SubSeq(unsent, 1, k)) \o Drop(unsent, k) = output \o unsent
  <2>1. PICK u, v : u = SubSeq(unsent, 1, k) /\ v = Drop(unsent, k)
    OBVIOUS
  <2>2. Str(output) /\ Str(u) /\ Str(v)
    BY <1>1, <1>4, <2>1, Zenon
  <2>3. (output \o u) \o v = output \o (u \o v)
    BY <2>2, JoinJoin
  <2> QED
    BY <1>4, <2>1, <2>3, Zenon
<1> QED
  BY <1>2, <1>4, <1>5, <1>6 DEF Out

\* A call of rio_writen adds a string to what is written.
LEMMA WriteAdds ==
  ASSUME Types, NEW s, Str(s), Write(s), unsent = <<>>
  PROVE  RioTypes' /\ Out' = Out \o s
<1>1. Str(output) /\ Len(s) \in Nat
  BY StrLen DEF Types
<1>2. output' = output /\ unsent' = s /\ want' = Len(s) /\ op' = "rio_writen"
      /\ rc' \in {0, Pending}
  BY DEF Write, writing
<1>3. Out' = Out \o s
  BY <1>1, <1>2, JoinEmpty DEF Out
<1>4. RioTypes'
  BY <1>1, <1>2 DEF RioTypes, Functions
<1> QED
  BY <1>3, <1>4

\* Every round of the loops keeps the types of Rio.
LEMMA RioTypesKept ==
  ASSUME Types, InPlace, Called, RioStep, sent' = sent
  PROVE  RioTypes'
<1>1. op' = op /\ want' = want
  BY DEF RioStep, Fill, LineByte, LineEof, Block, Raw, BlockEof, WriteSome, reading
<1>2. /\ op \in Functions /\ want \in Nat /\ Str(output) /\ Str(unsent)
      /\ rc \in {Pending, Failed} \cup Nat
  BY DEF Types
<1>3. Len(usrbuf) \in Nat
  BY Stored
<1>4. CASE WriteSome
  <2>1. rc' \in {want, Pending}
    BY <1>4 DEF WriteSome
  <2> QED
    BY <1>1, <1>2, <1>4, <2>1, WriteMoves DEF RioTypes
<1>5. ASSUME ~ WriteSome
      PROVE  output' = output /\ unsent' = unsent
  BY <1>5 DEF RioStep, Fill, LineByte, LineEof, Block, Raw, BlockEof, writing
<1>6. CASE LineByte
  <2>1. rc' \in {Len(usrbuf'), want, Pending}
    BY <1>6 DEF LineByte, AfterByte
  <2>2. Len(usrbuf') \in Nat
    BY <1>3, <1>6, LineByteMoves
  <2>3. output' = output /\ unsent' = unsent
    BY <1>6 DEF LineByte, writing
  <2> QED
    BY <1>1, <1>2, <2>1, <2>2, <2>3 DEF RioTypes
<1>7. ASSUME ~ LineByte, ~ WriteSome
      PROVE  rc' \in {rc, 0, Len(usrbuf) + 1, Len(usrbuf), want, Pending}
  BY <1>7 DEF RioStep, Fill, LineEof, Block, Raw, BlockEof, Take
<1> QED
  BY <1>1, <1>2, <1>3, <1>4, <1>5, <1>6, <1>7 DEF RioTypes

\* What is written next, and that nothing else is to be written then.
LEMMA Passed ==
  ASSUME Types, InPlace, Called, Where
  PROVE  /\ StatusLine \/ HeaderLine => Str(Got) /\ Len(Got) = rc /\ rc \in Nat /\ unsent = <<>>
         /\ BodyPiece => Str(usrbuf) /\ Len(usrbuf) = rc /\ rc \in Nat /\ unsent = <<>>
<1>1. CASE StatusLine \/ HeaderLine
  <2>1. op = "rio_readlineb" /\ rc >= 0
    BY <1>1 DEF StatusLine, HeaderLine, Goto, Where, Write
  <2>2. /\ rc \in Nat /\ Str(usrbuf) /\ Len(usrbuf) \in Nat
        /\ rc = Len(usrbuf) \/ rc = Len(usrbuf) + 1
        /\ rc = Len(usrbuf) => Got = usrbuf
        /\ rc = Len(usrbuf) + 1 => Got = Append(usrbuf, NUL)
    BY <2>1, GotIs
  <2>3. NUL \in Byte
    BY DEF Byte
  <2>4. Str(Append(usrbuf, NUL)) /\ Len(Append(usrbuf, NUL)) = Len(usrbuf) + 1
    BY <2>2, <2>3, StrAppend
  <2>5. unsent = <<>>
    BY <2>1 DEF Called
  <2>6. ~ BodyPiece
    BY <1>1 DEF StatusLine, HeaderLine, BodyPiece, Goto
  <2> QED
    BY <2>2, <2>4, <2>5, <2>6
<1>2. CASE BodyPiece
  <2>1. op = "rio_readnb" /\ rc > 0
    BY <1>2 DEF BodyPiece, Goto, Where
  <2>2. rc \in Nat
    BY <2>1 DEF Types, Pending, Failed
  <2>3. rc = Len(usrbuf) /\ unsent = <<>>
    BY <2>1, <2>2 DEF Called, BlockSoFar
  <2>4. PICK p, q, r : At(p, q, r)
    BY Zenon DEF InPlace
  <2>5. Str(usrbuf)
    BY <2>4, AtIs DEF Types
  <2>6. ~ StatusLine /\ ~ HeaderLine
    BY <1>2 DEF StatusLine, HeaderLine, BodyPiece, Goto
  <2> QED
    BY <2>2, <2>3, <2>5, <2>6
<1> QED
  BY <1>1, <1>2

\* What is copied to the two buffers.
LEMMA BuffersGrow ==
  ASSUME Types, InPlace, Called, Where, Gathered
  PROVE  /\ HeaderLine => /\ Str(headersbuf')
                          /\ headersbuf' = IF Fits(hdrs_valid, MaxHeaders)
                                           THEN headersbuf \o Got ELSE headersbuf
         /\ BodyPiece => /\ Str(cachebuf')
                         /\ cachebuf' = IF Fits(body_valid, MaxObject)
                                        THEN cachebuf \o usrbuf ELSE cachebuf
<1>1. Str(headersbuf) /\ Str(cachebuf)
  BY DEF Types
<1>2. ASSUME HeaderLine
      PROVE  /\ Str(headersbuf')
             /\ headersbuf' = IF Fits(hdrs_valid, MaxHeaders)
                              THEN headersbuf \o Got ELSE headersbuf
  <2>1. Str(Got)
    BY <1>2, Passed
  <2>2. Str(headersbuf \o Got)
    BY <1>1, <2>1, StrJoin
  <2>3. ASSUME Fits(hdrs_valid, MaxHeaders)
        PROVE  Copied(headersbuf, Got) = headersbuf \o Got
    <3>1. Len(headersbuf) = size
      BY <1>2, <2>3 DEF HeaderLine, Goto, Fits, Gathered, InHeaders
    <3> QED
      BY <1>1, <2>1, <3>1, CopiedIs
  <2>4. headersbuf' = IF Fits(hdrs_valid, MaxHeaders) THEN Copied(headersbuf, Got)
                                                      ELSE headersbuf
    BY <1>2 DEF HeaderLine
  <2> QED
    BY <1>1, <2>2, <2>3, <2>4
<1>3. ASSUME BodyPiece
      PROVE  /\ Str(cachebuf')
             /\ cachebuf' = IF Fits(body_valid, MaxObject)
                            THEN cachebuf \o usrbuf ELSE cachebuf
  <2>1. Str(usrbuf)
    BY <1>3, Passed
  <2>2. Str(cachebuf \o usrbuf)
    BY <1>1, <2>1, StrJoin
  <2>3. ASSUME Fits(body_valid, MaxObject)
        PROVE  Copied(cachebuf, usrbuf) = cachebuf \o usrbuf
    <3>1. Len(cachebuf) = size
      BY <1>3, <2>3 DEF BodyPiece, Goto, Fits, Gathered, InBody
    <3> QED
      BY <1>1, <2>1, <3>1, CopiedIs
  <2>4. cachebuf' = IF Fits(body_valid, MaxObject) THEN Copied(cachebuf, usrbuf)
                                                   ELSE cachebuf
    BY <1>3 DEF BodyPiece
  <2> QED
    BY <1>1, <2>2, <2>3, <2>4
<1> QED
  BY <1>2, <1>3

\* Every step keeps the types.
LEMMA StepTypes ==
  ASSUME Types, InPlace, Called, Where, Gathered, Next
  PROVE  Types'
<1>0. RioTypes /\ LocalTypes /\ Len(rio_buf') <= BufSize
  BY TypesAre, StepPlaces
<1>1. CASE Steps
  BY <1>0, <1>1, RioTypesKept, TypesAreNext DEF Steps, locals, buffers, LocalTypes
<1>2. CASE Fails /\ UNCHANGED <<sent, pc, locals>>
  BY <1>0, <1>2, TypesAreNext
     DEF Fails, reading, writing, locals, buffers, RioTypes, LocalTypes
<1>3. ASSUME NEW f \in Functions, NEW n \in Nat, Read(f, n)
      PROVE  RioTypes'
  BY <1>0, <1>3 DEF Read, RioTypes, writing
<1>4. CASE AskFirst \/ AskLine \/ AskPiece
  <2>1. RioTypes'
    BY <1>3, <1>4, ResponseAssumption DEF AskFirst, AskLine, AskPiece, Functions
  <2>2. LocalTypes'
    BY <1>0, <1>4 DEF AskFirst, AskLine, AskPiece, Goto, Places, locals, buffers, LocalTypes
  <2> QED
    BY <1>0, <2>1, <2>2, TypesAreNext
<1>5. CASE AnyCall
  <2>1. \A n \in 1..MaxLine : n \in Nat
    OBVIOUS
  <2>2. \A n \in 2..MaxLine : n \in Nat
    OBVIOUS
  <2>3. RioTypes'
    BY <1>3, <1>5, <2>1, <2>2 DEF AnyCall, Functions
  <2>4. LocalTypes'
    BY <1>0, <1>5 DEF AnyCall, locals, buffers, LocalTypes
  <2> QED
    BY <1>0, <2>3, <2>4, TypesAreNext
<1>6. ASSUME StatusLine \/ HeaderLine
      PROVE  Str(NewBuf) /\ RioTypes' /\ rc \in Nat /\ Str(Got) /\ size + rc \in Nat
  <2>1. Str(Got) /\ rc \in Nat /\ unsent = <<>>
    BY <1>6, Passed
  <2>2. Write(Got)
    BY <1>6 DEF StatusLine, HeaderLine
  <2>3. Str(usrbuf)
    <3>1. PICK p, q, r : At(p, q, r)
      BY Zenon DEF InPlace
    <3> QED
      BY <3>1, AtIs DEF Types
  <2> QED
    BY <1>0, <2>1, <2>2, <2>3, WriteAdds DEF NewBuf, LocalTypes
<1>7. CASE StatusLine
  <2>1. LocalTypes'
    BY <1>0, <1>6, <1>7 DEF StatusLine, Goto, Places, LocalTypes
  <2> QED
    BY <1>0, <1>6, <1>7, <2>1, TypesAreNext
<1>8. CASE HeaderLine
  <2>1. hdrs_valid' \in BOOLEAN
    BY <1>8 DEF HeaderLine, Fits
  <2>2. Str(headersbuf')
    BY <1>8, BuffersGrow
  <2>3. LocalTypes'
    BY <1>0, <1>6, <1>8, <2>1, <2>2 DEF HeaderLine, Goto, Places, LocalTypes
  <2> QED
    BY <1>0, <1>6, <1>8, <2>3, TypesAreNext
<1>9. CASE BodyPiece
  <2>1. body_valid' \in BOOLEAN
    BY <1>9 DEF BodyPiece, Fits
  <2>2. Str(cachebuf')
    BY <1>9, BuffersGrow
  <2>3. Str(usrbuf) /\ rc \in Nat /\ unsent = <<>>
    BY <1>9, Passed
  <2>4. size + rc \in Nat
    BY <1>0, <2>3 DEF LocalTypes
  <2>5. RioTypes'
    BY <1>9, <2>3, WriteAdds DEF BodyPiece
  <2>6. LocalTypes'
    BY <1>0, <1>9, <2>1, <2>2, <2>4 DEF BodyPiece, Goto, Places, LocalTypes
  <2> QED
    BY <1>0, <2>5, <2>6, TypesAreNext
<1>10. CASE HeadersEnd \/ BodyEnds \/ Overrun
  <2>1. RioTypes'
    BY <1>0, <1>10 DEF HeadersEnd, BodyEnds, Overrun, rioVars, reading, writing, RioTypes
  <2>2. LocalTypes'
    BY <1>0, <1>10
       DEF HeadersEnd, BodyEnds, Overrun, Goto, Places, locals, buffers, LocalTypes
  <2> QED
    BY <1>0, <2>1, <2>2, TypesAreNext
<1> QED
  BY <1>1, <1>2, <1>4, <1>5, <1>7, <1>8, <1>9, <1>10 DEF Next, read_responsehdrs

\* Every step keeps which call is made where.
LEMMA StepWhere ==
  ASSUME Where, Next
  PROVE  Where'
<1>1. CASE Steps
  <2>1. op' = op /\ want' = want /\ pc' = pc
    BY <1>1 DEF Steps, RioStep, Fill, LineByte, LineEof, Block, Raw, BlockEof, WriteSome, reading
  <2>2. rc >= 0 => FALSE
    BY <1>1 DEF Steps, RioStep, Fill, LineByte, LineEof, Block, Raw, BlockEof, WriteSome,
                Running, Pending
  <2> QED
    BY <2>1, <2>2 DEF Where
<1>2. CASE Fails /\ UNCHANGED <<sent, pc, locals>>
  BY <1>2 DEF Fails, reading, Where, Pending
<1>3. CASE AskFirst \/ AskLine \/ AskPiece \/ AnyCall
  BY <1>3 DEF AskFirst, AskLine, AskPiece, AnyCall, Goto, Read, Where
<1>4. CASE StatusLine \/ HeaderLine \/ BodyPiece
  BY <1>4 DEF StatusLine, HeaderLine, BodyPiece, Goto, Write, Where
<1>5. CASE HeadersEnd \/ BodyEnds \/ Overrun
  BY <1>5 DEF HeadersEnd, BodyEnds, Overrun, Goto, rioVars, reading, Where
<1> QED
  BY <1>1, <1>2, <1>3, <1>4, <1>5 DEF Next, read_responsehdrs

-----------------------------------------------------------------------------
(* How calls end. *)

\* rio_readlineb stops at the first '\n', or when the buffer is full.
LEMMA LineGoesOn ==
  ASSUME Types, InPlace, Called, LineByte, sent' = sent
  PROVE  Called'
<1>1. op = "rio_readlineb" /\ op' = op /\ rc < 0 /\ want' = want /\ want \in Nat
  BY DEF LineByte, Running, Pending, Types
<1>2. /\ want >= 2 /\ Len(usrbuf) < want - 1 /\ NoLF(usrbuf, Len(usrbuf))
  BY <1>1 DEF Called, LineSoFar
<1>3. /\ Len(usrbuf) \in Nat
      /\ Len(usrbuf') = Len(usrbuf) + 1
      /\ usrbuf'[Len(usrbuf')] = Head(rio_buf)
      /\ \A i \in 1..Len(usrbuf) : usrbuf'[i] = usrbuf[i]
  BY Stored, LineByteMoves
<1>4. NoLF(usrbuf, Len(usrbuf))'
      <=> \A i \in 1..Len(usrbuf') : usrbuf'[i] # LF
  BY DEF NoLF
<1>5. \A i \in 1..(Len(usrbuf') - 1) : usrbuf'[i] # LF
  <2>1. Len(usrbuf') - 1 = Len(usrbuf)
    BY <1>3
  <2> QED
    BY <1>2, <1>3, <2>1 DEF NoLF
<1>6. Head(rio_buf) # LF => \A i \in 1..Len(usrbuf') : usrbuf'[i] # LF
  <2>1. \A i \in 1..Len(usrbuf') : i \in 1..(Len(usrbuf') - 1) \/ i = Len(usrbuf')
    BY <1>3
  <2> QED
    BY <1>3, <1>5, <2>1
<1>7. usrbuf' # <<>>
  <2>1. Len(usrbuf') # 0
    BY <1>3
  <2> QED
    BY <2>1, StrEmpty
<1>8. rc' = AfterByte(Head(rio_buf), Len(usrbuf'))
  BY DEF LineByte
<1>9. LineSoFar'
  <2>1. Len(usrbuf') \in Nat /\ Len(usrbuf') < want
    BY <1>1, <1>2, <1>3
  <2>2. CASE Head(rio_buf) = LF
    <3>1. rc' = Len(usrbuf')
      BY <1>8, <2>2 DEF AfterByte
    <3> QED
      BY <1>1, <1>2, <1>3, <1>5, <1>7, <2>1, <2>2, <3>1 DEF LineSoFar, LineEnds, NoLF
  <2>3. CASE Head(rio_buf) # LF /\ Len(usrbuf') = want - 1
    <3>1. rc' = want
      BY <1>8, <2>3 DEF AfterByte
    <3> QED
      BY <1>1, <1>2, <1>3, <1>5, <1>6, <2>1, <2>3, <3>1 DEF LineSoFar, LineEnds, NoLF
  <2>4. CASE Head(rio_buf) # LF /\ Len(usrbuf') # want - 1
    <3>1. rc' = Pending
      BY <1>8, <2>4 DEF AfterByte
    <3> QED
      BY <1>1, <1>2, <1>3, <1>5, <1>6, <2>1, <2>4, <3>1 DEF LineSoFar, LineEnds, NoLF, Pending
  <2> QED
    BY <2>2, <2>3, <2>4
<1>10. unsent' = unsent
  BY DEF LineByte, writing
<1> QED
  BY <1>1, <1>9, <1>10 DEF Called

\* A call that asks for bytes has stored none.
LEMMA Asked ==
  ASSUME NEW f, NEW n \in Nat, Types, Called, Read(f, n),
         \/ f = "rio_readlineb" /\ n >= 2
         \/ f \in {"rio_readnb", "rio_readn"} /\ n >= 1,
         f = "rio_readn" => rio_buf = <<>>
  PROVE  Called'
<1>1. /\ rc >= 0 /\ op' = f /\ want' = n /\ usrbuf' = <<>> /\ rc' = Pending
      /\ rio_buf' = rio_buf /\ unsent' = unsent
  BY DEF Read, writing
<1>2. unsent = <<>>
  BY <1>1 DEF Called
<1>3. Len(usrbuf') = 0
  BY <1>1, StrEmpty
<1> QED
  BY <1>1, <1>2, <1>3 DEF Called, LineSoFar, BlockSoFar, NoLF, Pending

\* Where the end of the file is.
LEMMA EofIs ==
  ASSUME Types, InPlace, AtEof
  PROVE  NextAt = Len(sent)
<1>1. Len(sent) \in Nat
  BY SentIs DEF Types
<1>2. Len(input) = 0 /\ Len(rio_buf) = 0
  BY StrEmpty DEF AtEof
<1> QED
  BY <1>1, <1>2 DEF NextAt, GotAt

\* Every step keeps what is known of the call.
LEMMA StepCalled ==
  ASSUME Types, InPlace, Called, Where, Next
  PROVE  Called'
<1>0. want \in Nat /\ Len(usrbuf) \in Nat
  BY Stored DEF Types
<1>1. ASSUME RioStep, sent' = sent
      PROVE  Called'
  <2>1. CASE Fill
    <3>2. UNCHANGED <<op, want, usrbuf, rc, unsent>> /\ op # "rio_readn" /\ rc = -1
      BY <2>1 DEF Fill, writing, Running, Pending
    <3> QED
      BY <3>2 DEF Called, LineSoFar, BlockSoFar, NoLF
  <2>2. CASE LineByte
    BY <1>1, <2>2, LineGoesOn
  <2>3. CASE LineEof
    <3>1. /\ UNCHANGED <<input, rio_buf, op, want, usrbuf, unsent>> /\ op = "rio_readlineb" /\ rc < 0
          /\ rc' = IF usrbuf = <<>> THEN 0 ELSE Len(usrbuf) + 1
      BY <2>3 DEF LineEof, stream, reading, writing, Running, Pending
    <3>2. NextAt' = Len(sent)
      BY <1>1, <2>3, <3>1, EofIs DEF LineEof, NextAt, GotAt
    <3> QED
      BY <1>0, <1>1, <3>1, <3>2 DEF Called, LineSoFar, LineEnds, NoLF
  <2>4. CASE Block
    <3>1. op = "rio_readnb" /\ op' = op /\ want' = want /\ unsent' = unsent
          /\ rc' = IF Len(usrbuf') = want THEN want ELSE Pending
      BY <2>4 DEF Block, Take, writing, Running
    <3>2. Len(usrbuf) <= want /\ want >= 1 /\ unsent = <<>>
      BY <3>1, Stored DEF Called, BlockSoFar
    <3>3. Len(usrbuf') <= want /\ Len(usrbuf) <= Len(usrbuf')
      BY <1>0, <1>1, <2>4, <3>2, BlockMoves
    <3>4. Len(usrbuf') # want => Len(usrbuf') < want
      <4>1. PICK p, q, r : At(p, q, r)'
        BY <1>1, RioMoves DEF InPlace
      <4>2. Str(usrbuf')
        BY <1>1, <4>1, AtIsNext DEF Types
      <4>3. Len(usrbuf') \in Nat
        BY <4>2, StrLen
      <4> QED
        BY <1>0, <3>3, <4>3
    <3> QED
      BY <1>0, <3>1, <3>2, <3>3, <3>4 DEF Called, BlockSoFar, Pending
  <2>5. CASE Raw
    <3>1. op = "rio_readn" /\ op' = op /\ want' = want /\ unsent' = unsent /\ rio_buf' = rio_buf
          /\ rc' = IF Len(usrbuf') = want THEN want ELSE Pending
      BY <2>5 DEF Raw, Take, writing, Running
    <3>2. Len(usrbuf) <= want /\ want >= 1 /\ unsent = <<>> /\ rio_buf = <<>>
      BY <3>1, Stored DEF Called, BlockSoFar
    <3>3. Len(usrbuf') <= want /\ Len(usrbuf) <= Len(usrbuf')
      BY <1>0, <1>1, <2>5, <3>2, RawMoves
    <3>4. Len(usrbuf') # want => Len(usrbuf') < want
      <4>1. PICK p, q, r : At(p, q, r)'
        BY <1>1, RioMoves DEF InPlace
      <4>2. Str(usrbuf')
        BY <1>1, <4>1, AtIsNext DEF Types
      <4>3. Len(usrbuf') \in Nat
        BY <4>2, StrLen
      <4> QED
        BY <1>0, <3>3, <4>3
    <3> QED
      BY <1>0, <3>1, <3>2, <3>3, <3>4 DEF Called, BlockSoFar, Pending
  <2>6. CASE BlockEof
    <3>1. /\ UNCHANGED <<input, rio_buf, op, want, usrbuf, unsent>>
          /\ op \in {"rio_readnb", "rio_readn"} /\ rc < 0 /\ rc' = Len(usrbuf)
      BY <2>6 DEF BlockEof, stream, reading, writing, Running, Pending
    <3>2. NextAt' = Len(sent)
      BY <1>1, <2>6, <3>1, EofIs DEF BlockEof, NextAt, GotAt
    <3> QED
      BY <1>0, <1>1, <3>1, <3>2 DEF Called, BlockSoFar
  <2>7. CASE WriteSome
    BY <2>7 DEF WriteSome, reading, Running, Called, Pending
  <2> QED
    BY <1>1, <2>1, <2>2, <2>3, <2>4, <2>5, <2>6, <2>7 DEF RioStep
<1>2. CASE Fails /\ UNCHANGED <<sent, pc, locals>>
  BY <1>2 DEF Fails, stream, reading, writing, Called, LineSoFar, BlockSoFar, NoLF, Pending, Failed
<1>3. CASE AskFirst \/ AskLine \/ AskPiece
  <2>1. \/ Read("rio_readlineb", MaxLine) /\ MaxLine \in Nat /\ MaxLine >= 2
        \/ Read("rio_readnb", Piece) /\ Piece \in Nat /\ Piece >= 1
    BY <1>3, ResponseAssumption DEF AskFirst, AskLine, AskPiece
  <2> QED
    BY <2>1, Asked
<1>4. CASE AnyCall
  <2>1. PICK f, n : /\ n \in Nat /\ Read(f, n)
                    /\ \/ f = "rio_readlineb" /\ n >= 2
                       \/ f \in {"rio_readnb", "rio_readn"} /\ n >= 1
                    /\ f = "rio_readn" => rio_buf = <<>>
    <3>1. CASE \E n \in 2..MaxLine : Read("rio_readlineb", n) \/ Read("rio_readnb", n)
      <4>1. PICK n \in 2..MaxLine : Read("rio_readlineb", n) \/ Read("rio_readnb", n)
        BY <3>1
      <4>2. n \in Nat /\ n >= 2 /\ n >= 1
        OBVIOUS
      <4> QED
        BY <4>1, <4>2
    <3>2. CASE rio_buf = <<>> /\ \E n \in 1..MaxLine : Read("rio_readn", n)
      <4>1. PICK n \in 1..MaxLine : Read("rio_readn", n)
        BY <3>2
      <4>2. n \in Nat /\ n >= 1
        OBVIOUS
      <4> QED
        BY <3>2, <4>1, <4>2
    <3> QED
      BY <1>4, <3>1, <3>2 DEF AnyCall
  <2> QED
    BY <2>1, Asked
<1>5. CASE StatusLine \/ HeaderLine \/ BodyPiece
  BY <1>5 DEF StatusLine, HeaderLine, BodyPiece, Write, Called, Pending
<1>6. CASE HeadersEnd \/ BodyEnds \/ Overrun
  <2>1. UNCHANGED <<sent, input, rio_buf, op, want, usrbuf, rc, unsent>>
    BY <1>6 DEF HeadersEnd, BodyEnds, Overrun, rioVars, stream, reading, writing
  <2> QED
    BY <2>1 DEF Called, LineSoFar, LineEnds, BlockSoFar, NoLF, NextAt, GotAt
<1> QED
  BY <1>1, <1>2, <1>3, <1>4, <1>5, <1>6 DEF Next, read_responsehdrs, Steps

-----------------------------------------------------------------------------
(* What is passed on. *)

\* Most steps pass nothing on.
Quiet == Out' = Out /\ Done' = Done

\* The others pass on what the last call has returned.
Passes(g) == Out' = Out \o g /\ Done' = NextAt /\ Done = FromAt

\* The rounds of the loops are quiet: what is written moves from unsent to output.
LEMMA RioQuiet ==
  ASSUME Types, InPlace, Called, Where, Steps
  PROVE  Quiet
<1>1. RioStep /\ sent' = sent /\ pc' = pc
  BY DEF Steps
<1>2. FromAt' = FromAt
  BY <1>1, RioMoves
<1>3. Out' = Out
  <2>1. CASE WriteSome
    BY <2>1, WriteMoves
  <2>2. CASE ~ WriteSome
    BY <1>1, <2>2 DEF RioStep, Fill, LineByte, LineEof, Block, Raw, BlockEof, writing, Out
  <2> QED
    BY <2>1, <2>2
<1>4. CASE pc \in {"test", "body"}
  <2>1. WriteSome
    BY <1>1, <1>4 DEF Where, RioStep, Fill, LineByte, LineEof, Block, Raw, BlockEof, Running
  <2>2. NextAt' = NextAt
    BY <1>1, <2>1 DEF WriteSome, stream, reading, NextAt, GotAt
  <2> QED
    BY <1>1, <1>3, <1>4, <2>2 DEF Quiet, Done
<1>5. CASE pc \notin {"test", "body"}
  BY <1>1, <1>2, <1>3, <1>5 DEF Quiet, Done
<1> QED
  BY <1>4, <1>5

\* So are the calls that ask for bytes, and the steps that only test.
LEMMA OthersQuiet ==
  ASSUME Types, InPlace, Called, Where,
         \/ Fails /\ UNCHANGED <<sent, pc, locals>>
         \/ AskFirst \/ AskLine \/ AskPiece
         \/ HeadersEnd \/ BodyEnds \/ Overrun
  PROVE  Quiet
<1>1. CASE Fails /\ UNCHANGED <<sent, pc, locals>>
  BY <1>1 DEF Fails, stream, reading, writing, Quiet, Out, Done, FromAt, NextAt, GotAt
<1>2. CASE AskFirst \/ AskLine \/ AskPiece
  <2>1. PICK f, n : Read(f, n)
    BY <1>2 DEF AskFirst, AskLine, AskPiece
  <2>2. sent' = sent /\ FromAt' = NextAt
    BY <1>2, <2>1, ReadMoves DEF AskFirst, AskLine, AskPiece
  <2>3. Out' = Out
    BY <2>1 DEF Read, writing, Out
  <2>4. pc' \notin {"test", "body"}
    BY <1>2 DEF AskFirst, AskLine, AskPiece, Goto
  <2>5. Done = NextAt
    <3>1. CASE AskFirst
      <4>1. usrbuf = <<>> /\ pc = "first"
        BY <3>1 DEF AskFirst, Goto, Where, Called
      <4>2. PICK p, q, r : At(p, q, r)
        BY Zenon DEF InPlace
      <4>3. q \in Nat /\ NextAt = q /\ Len(usrbuf) = 0
        BY <4>1, <4>2, AtIs, StrEmpty DEF Types, At
      <4>4. FromAt = NextAt
        BY <4>3 DEF FromAt
      <4> QED
        BY <4>1, <4>4 DEF Done
    <3>2. CASE AskLine \/ AskPiece
      BY <3>2 DEF AskLine, AskPiece, Goto, Done
    <3> QED
      BY <1>2, <3>1, <3>2
  <2> QED
    BY <2>2, <2>3, <2>4, <2>5 DEF Quiet, Done
<1>3. CASE HeadersEnd \/ BodyEnds \/ Overrun
  <2>1. UNCHANGED <<sent, input, rio_buf, usrbuf, unsent, output>>
    BY <1>3 DEF HeadersEnd, BodyEnds, Overrun, rioVars, stream, reading, writing
  <2>2. Out' = Out /\ FromAt' = FromAt /\ NextAt' = NextAt
    BY <2>1 DEF Out, FromAt, NextAt, GotAt
  <2>3. pc \in {"test", "body"} <=> pc' \in {"test", "body"}
    BY <1>3 DEF HeadersEnd, BodyEnds, Overrun, Goto
  <2> QED
    BY <2>2, <2>3 DEF Quiet, Done
<1> QED
  BY <1>1, <1>2, <1>3

\* The three writes of read_responsehdrs (proxy.c:379, 394, 401).
LEMMA PassSteps ==
  ASSUME Types, InPlace, Called, Where
  PROVE  /\ StatusLine \/ HeaderLine => Passes(Got)
         /\ BodyPiece => Passes(usrbuf)
<1>1. ASSUME NEW s, Str(s), unsent = <<>>, Write(s), sent' = sent,
             pc \in {"status", "line", "piece"}, pc' \in {"test", "body"}
      PROVE  Passes(s)
  <2>1. Out' = Out \o s
    BY <1>1, WriteAdds
  <2>2. NextAt' = NextAt
    BY <1>1 DEF Write, stream, NextAt, GotAt
  <2> QED
    BY <1>1, <2>1, <2>2 DEF Passes, Done
<1>2. ASSUME StatusLine \/ HeaderLine
      PROVE  Passes(Got)
  BY <1>1, <1>2, Passed DEF StatusLine, HeaderLine, Goto
<1>3. ASSUME BodyPiece
      PROVE  Passes(usrbuf)
  BY <1>1, <1>3, Passed DEF BodyPiece, Goto
<1> QED
  BY <1>2, <1>3

-----------------------------------------------------------------------------
(* Every byte is passed on in its place. *)

\* The places of NULs in a string and in its continuation.
LEMMA NulsOfJoin ==
  \A s, t, i : Str(s) /\ Str(t) /\ i \in 0..Len(s) => Nuls(s \o t, i) = Nuls(s, i)
<1> SUFFICES ASSUME NEW s, NEW t, NEW i, Str(s), Str(t), i \in 0..Len(s)
             PROVE  Nuls(s \o t, i) = Nuls(s, i)
  OBVIOUS
<1>1. Len(s) \in Nat
  BY StrLen
<1>2. \A j \in 1..i : j \in 1..Len(s)
  BY <1>1
<1>3. \A j \in 1..i : (s \o t)[j] = s[j]
  BY <1>2, JoinLeft
<1> QED
  BY <1>3 DEF Nuls

\* Finitely many places can be counted.
LEMMA NulsFinite ==
  \A s, i : i \in Nat => IsFiniteSet(Nuls(s, i)) /\ Cardinality(Nuls(s, i)) \in Nat
<1> SUFFICES ASSUME NEW s, NEW i \in Nat
             PROVE  IsFiniteSet(Nuls(s, i)) /\ Cardinality(Nuls(s, i)) \in Nat
  OBVIOUS
<1>1. IsFiniteSet(1..i)
  BY FS_Interval
<1>2. Nuls(s, i) \subseteq 1..i
  BY DEF Nuls
<1>3. IsFiniteSet(Nuls(s, i))
  BY <1>1, <1>2, FS_Subset
<1> QED
  BY <1>3, FS_CardinalityType

\* The place of a byte, by the NULs up to it.
LEMMA PlaceIs == \A s, i : Place(s, i) = i - Cardinality(Nuls(s, i))
BY Zenon DEF Place, Nuls

\* What follows on a string without NULs.
LEMMA PlaceOfNext ==
  ASSUME NEW s, NEW t, Str(s), Str(t), NEW k \in 0..Len(t),
         \A i \in 1..k : t[i] # NUL
  PROVE  Place(s \o t, Len(s) + k) = Place(s, Len(s)) + k
<1>1. Len(s) \in Nat /\ Len(t) \in Nat
  BY StrLen
<1>2. Nuls(s \o t, Len(s) + k) = Nuls(s \o t, Len(s))
  <2>1. \A j \in 1..(Len(s) + k) : j \in 1..Len(s) \/ (j - Len(s) \in 1..k)
    BY <1>1
  <2>2. \A j \in 1..(Len(s) + k) :
          j \notin 1..Len(s) =>
            j - Len(s) \in 1..k /\ j - Len(s) \in 1..Len(t) /\ Len(s) + (j - Len(s)) = j
    BY <1>1
  <2>3. \A j \in 1..(Len(s) + k) : j \notin 1..Len(s) => (s \o t)[j] = t[j - Len(s)]
    BY <2>2, JoinRight
  <2>4. \A j \in 1..(Len(s) + k) : j \notin 1..Len(s) => (s \o t)[j] # NUL
    BY <2>2, <2>3
  <2>5. \A j \in 1..Len(s) : j \in 1..(Len(s) + k)
    BY <1>1
  <2> QED
    BY <2>4, <2>5 DEF Nuls
<1>3. Nuls(s \o t, Len(s)) = Nuls(s, Len(s))
  BY <1>1, NulsOfJoin
<1>4. Cardinality(Nuls(s, Len(s))) \in Nat
  BY <1>1, NulsFinite
<1>5. /\ Place(s \o t, Len(s) + k) = (Len(s) + k) - Cardinality(Nuls(s, Len(s)))
      /\ Place(s, Len(s)) = Len(s) - Cardinality(Nuls(s, Len(s)))
  BY <1>2, <1>3, PlaceIs
<1> QED
  BY <1>1, <1>4, <1>5

\* The bytes before keep their places.
LEMMA PlaceOfOld ==
  \A s, t, i : Str(s) /\ Str(t) /\ i \in 1..Len(s) => Place(s \o t, i) = Place(s, i)
<1> SUFFICES ASSUME NEW s, NEW t, NEW i, Str(s), Str(t), i \in 1..Len(s)
             PROVE  Place(s \o t, i) = Place(s, i)
  OBVIOUS
<1>1. i \in 0..Len(s)
  BY StrLen
<1>2. Nuls(s \o t, i) = Nuls(s, i)
  BY <1>1, NulsOfJoin
<1> QED
  BY <1>2, PlaceIs

\* Passing on what follows, with or without a NUL at its end, passes on more.
LEMMA RelaysMore ==
  ASSUME NEW s, NEW u, NEW g, NEW n \in Nat, NEW m \in Nat,
         sent \in Streams, Str(s), Str(u), Relays(s, n),
         n <= m, m <= Len(sent), IsPart(u, sent, n, m),
         g = u \/ g = Append(u, NUL)
  PROVE  Relays(s \o g, m) /\ (g = u /\ NUL \notin ToSet(s) => NUL \notin ToSet(s \o g))
<1>1. /\ Str(sent) /\ Len(sent) \in Nat /\ \A i \in 1..Len(sent) : sent[i] # NUL
      /\ Len(s) \in Nat /\ Len(u) = m - n
  BY SentIs, StrLen, PartIs
<1>2. \A i \in 1..Len(u) : n + i \in 1..Len(sent) /\ u[i] = sent[n + i] /\ u[i] # NUL
  <2>1. Copies(u, sent, n, m)
    BY <1>1, PartAt
  <2>2. \A i \in 1..Len(u) : n + i \in 1..Len(sent) /\ u[i] = sent[n + i]
    BY <1>1, <2>1 DEF Copies
  <2> QED
    BY <1>1, <2>2
<1>3. /\ Str(g) /\ Len(g) \in Nat
      /\ g = u \/ (Len(g) = Len(u) + 1 /\ g[Len(u) + 1] = NUL)
      /\ \A i \in 1..Len(u) : i \in 1..Len(g) /\ g[i] = u[i]
  <2>1. CASE g = u
    BY <2>1, StrLen
  <2>2. CASE g = Append(u, NUL)
    <3>1. NUL \in Byte
      BY DEF Byte
    <3>2. Str(g) /\ Len(g) = Len(u) + 1 /\ g[Len(u) + 1] = NUL
      BY <2>2, <3>1, StrAppend
    <3>3. \A i \in 1..Len(u) : g[i] = u[i]
      BY <2>2, <3>1, AppendProperties DEF Str
    <3>4. \A i \in 1..Len(u) : i \in 1..Len(g)
      BY <1>1, <3>2
    <3> QED
      BY <3>2, <3>3, <3>4, StrLen
  <2> QED
    BY <2>1, <2>2
<1>4. Str(s \o g) /\ Len(s \o g) = Len(s) + Len(g)
  BY <1>3, StrJoin
<1>5. \A i \in 1..Len(s) : (s \o g)[i] = s[i] /\ Place(s \o g, i) = Place(s, i)
  BY <1>3, JoinLeft, PlaceOfOld
<1>6. \A i \in 1..Len(g) : (s \o g)[Len(s) + i] = g[i]
  BY <1>3, JoinRight
<1>7. Place(s, Len(s)) = n
  BY DEF Relays
<1>8. \A i \in 0..Len(u) : Place(s \o g, Len(s) + i) = n + i
  <2> SUFFICES ASSUME NEW i \in 0..Len(u) PROVE Place(s \o g, Len(s) + i) = n + i
    OBVIOUS
  <2>1. i \in 0..Len(g) /\ \A j \in 1..i : g[j] # NUL
    BY <1>1, <1>2, <1>3
  <2> QED
    BY <1>3, <1>7, <2>1, PlaceOfNext
<1>9. Place(s \o g, Len(s \o g)) = m
  <2>1. CASE g = u
    <3>1. Len(g) \in 0..Len(u) /\ n + Len(g) = m
      BY <1>1, <2>1
    <3> QED
      BY <1>4, <1>8, <3>1
  <2>2. CASE Len(g) = Len(u) + 1 /\ g[Len(u) + 1] = NUL
    <3>1. PICK x : x = Len(s) + Len(u)
      OBVIOUS
    <3>2. x \in Nat /\ Len(s \o g) = x + 1 /\ (s \o g)[x + 1] = NUL
      <4>1. Len(u) + 1 \in 1..Len(g) /\ Len(s) + (Len(u) + 1) = x + 1
        BY <1>1, <2>2, <3>1
      <4>2. (s \o g)[Len(s) + (Len(u) + 1)] = NUL
        BY <1>6, <2>2, <4>1
      <4> QED
        BY <1>1, <1>4, <2>2, <3>1, <4>1, <4>2
    <3>3. Nuls(s \o g, x + 1) = Nuls(s \o g, x) \cup {x + 1}
      <4>1. \A j : j \in 1..(x + 1) <=> j \in 1..x \/ j = x + 1
        BY <3>2
      <4> QED
        BY <3>2, <4>1, Zenon DEF Nuls
    <3>4. x + 1 \notin Nuls(s \o g, x)
      BY <3>2 DEF Nuls
    <3>5. /\ IsFiniteSet(Nuls(s \o g, x)) /\ Cardinality(Nuls(s \o g, x)) \in Nat
      BY <3>2, NulsFinite
    <3>6. Cardinality(Nuls(s \o g, x + 1)) = Cardinality(Nuls(s \o g, x)) + 1
      BY <3>3, <3>4, <3>5, FS_AddElement
    <3>7. Place(s \o g, x + 1) = Place(s \o g, x)
      <4>1. /\ Place(s \o g, x + 1) = (x + 1) - Cardinality(Nuls(s \o g, x + 1))
            /\ Place(s \o g, x) = x - Cardinality(Nuls(s \o g, x))
        BY PlaceIs
      <4> QED
        BY <3>2, <3>5, <3>6, <4>1
    <3>8. Place(s \o g, x) = n + Len(u)
      <4>1. Len(u) \in 0..Len(u)
        BY <1>1
      <4> QED
        BY <1>8, <3>1, <4>1
    <3> QED
      BY <1>1, <3>2, <3>7, <3>8
  <2> QED
    BY <1>3, <2>1, <2>2
<1>10. \A i \in 1..Len(s \o g) :
         \/ i \in 1..Len(s)
         \/ \E k \in 1..Len(g) : i = Len(s) + k
  <2> SUFFICES ASSUME NEW i \in 1..Len(s \o g), i \notin 1..Len(s)
               PROVE  \E k \in 1..Len(g) : i = Len(s) + k
    OBVIOUS
  <2>1. i - Len(s) \in 1..Len(g) /\ i = Len(s) + (i - Len(s))
    BY <1>1, <1>3, <1>4
  <2> QED
    BY <2>1
<1>11. \A i \in 1..Len(s \o g) : (s \o g)[i] # NUL =>
         Place(s \o g, i) \in 1..m /\ (s \o g)[i] = sent[Place(s \o g, i)]
  <2> SUFFICES ASSUME NEW i \in 1..Len(s \o g), (s \o g)[i] # NUL
               PROVE  Place(s \o g, i) \in 1..m /\ (s \o g)[i] = sent[Place(s \o g, i)]
    OBVIOUS
  <2>1. CASE i \in 1..Len(s)
    <3>1. s[i] # NUL
      BY <1>5, <2>1
    <3>2. Place(s, i) \in 1..n /\ s[i] = sent[Place(s, i)]
      BY <2>1, <3>1 DEF Relays
    <3>3. Place(s, i) \in 1..m
      BY <3>2
    <3> QED
      BY <1>5, <2>1, <3>2, <3>3
  <2>2. CASE \E k \in 1..Len(g) : i = Len(s) + k
    <3>1. PICK k \in 1..Len(g) : i = Len(s) + k
      BY <2>2
    <3>2. (s \o g)[i] = g[k]
      BY <1>6, <3>1
    <3>3. k \in 1..Len(u)
      <4>1. g[k] # NUL
        BY <3>2
      <4> QED
        BY <1>1, <1>3, <4>1
    <3>4. k \in 0..Len(u)
      BY <3>3
    <3>5. Place(s \o g, i) = n + k
      BY <1>8, <3>1, <3>4
    <3>6. (s \o g)[i] = sent[n + k]
      BY <1>2, <1>3, <3>2, <3>3
    <3>7. n + k \in 1..m
      BY <1>1, <3>3
    <3> QED
      BY <3>5, <3>6, <3>7
  <2> QED
    BY <1>10, <2>1, <2>2
<1>12. Relays(s \o g, m)
  BY <1>9, <1>11 DEF Relays
<1>13. ASSUME g = u, NUL \notin ToSet(s)
       PROVE  NUL \notin ToSet(s \o g)
  <2>1. \A i \in 1..Len(s) : s[i] # NUL
    BY <1>13, InString
  <2>2. \A i \in 1..Len(s \o g) : (s \o g)[i] # NUL
    <3> SUFFICES ASSUME NEW i \in 1..Len(s \o g) PROVE (s \o g)[i] # NUL
      OBVIOUS
    <3>1. CASE i \in 1..Len(s)
      BY <1>5, <2>1, <3>1
    <3>2. CASE \E k \in 1..Len(g) : i = Len(s) + k
      <4>1. PICK k \in 1..Len(g) : i = Len(s) + k
        BY <3>2
      <4> QED
        BY <1>2, <1>6, <1>13, <4>1
    <3> QED
      BY <1>10, <3>1, <3>2
  <2>3. ToSet(s \o g) = {(s \o g)[i] : i \in 1..Len(s \o g)}
    BY <1>4, InString
  <2> QED
    BY <2>2, <2>3
<1> QED
  BY <1>12, <1>13

\* What one of the three writes passes on is what was read last.
LEMMA PassesPart ==
  ASSUME Types, InPlace, Called, Where, NEW g, Passes(g),
         \/ (StatusLine \/ HeaderLine) /\ g = Got
         \/ BodyPiece /\ g = usrbuf
  PROVE  /\ FromAt \in Nat /\ NextAt \in Nat /\ FromAt <= NextAt /\ NextAt <= Len(sent)
         /\ IsPart(usrbuf, sent, FromAt, NextAt)
         /\ Str(usrbuf) /\ Len(usrbuf) = NextAt - FromAt
         /\ g = usrbuf \/ g = Append(usrbuf, NUL)
         /\ NextAt' = NextAt
<1>1. PICK p, q, r : At(p, q, r) /\ p = FromAt /\ q = NextAt /\ r = GotAt
  BY Zenon DEF InPlace
<1>2. /\ p \in Nat /\ q \in Nat /\ r \in Nat /\ p <= q /\ q <= r /\ r <= Len(sent)
      /\ IsPart(usrbuf, sent, p, q)
  BY <1>1 DEF At
<1>3. Str(usrbuf) /\ Len(usrbuf) = q - p /\ Len(sent) \in Nat
  BY <1>1, AtIs, SentIs DEF Types
<1>4. g = usrbuf \/ g = Append(usrbuf, NUL)
  <2>1. CASE (StatusLine \/ HeaderLine) /\ g = Got
    <3>1. op = "rio_readlineb" /\ rc >= 0
      BY <2>1 DEF StatusLine, HeaderLine, Goto, Where, Write
    <3> QED
      BY <2>1, <3>1, GotIs
  <2> QED
    BY <2>1
<1>5. NextAt' = NextAt
  <2>1. UNCHANGED <<sent, input, rio_buf>>
    BY DEF StatusLine, HeaderLine, BodyPiece, Write, stream
  <2> QED
    BY <2>1 DEF NextAt, GotAt
<1>6. q <= Len(sent)
  BY <1>2, <1>3
<1> QED
  BY <1>1, <1>2, <1>3, <1>4, <1>5, <1>6

\* Every step keeps what is passed on in its place.
LEMMA StepRelayed ==
  ASSUME Types, InPlace, Called, Where, Relayed, Next
  PROVE  Relayed'
<1>1. sent' = sent
  BY DEF Next, Steps, read_responsehdrs, AskFirst, StatusLine, AskLine, HeaderLine, HeadersEnd,
         AskPiece, BodyPiece, BodyEnds, Overrun, AnyCall
<1>2. pc' # "any" => pc # "any"
  BY DEF Next, Steps, read_responsehdrs, AskFirst, StatusLine, AskLine, HeaderLine, HeadersEnd,
         AskPiece, BodyPiece, BodyEnds, Overrun, AnyCall, Goto
<1>3. ASSUME Quiet
      PROVE  Relayed'
  BY <1>1, <1>2, <1>3 DEF Quiet, Relayed, Relays, Place
<1>4. CASE StatusLine \/ HeaderLine \/ BodyPiece
  <2>1. PICK g : /\ Passes(g)
                 /\ \/ (StatusLine \/ HeaderLine) /\ g = Got
                    \/ BodyPiece /\ g = usrbuf
    BY <1>4, PassSteps
  <2>2. /\ FromAt \in Nat /\ NextAt \in Nat /\ FromAt <= NextAt /\ NextAt <= Len(sent)
        /\ IsPart(usrbuf, sent, FromAt, NextAt) /\ Str(usrbuf)
        /\ g = usrbuf \/ g = Append(usrbuf, NUL)
    BY <2>1, PassesPart
  <2>3. Str(Out)
    BY StrJoin DEF Types, Out
  <2>4. pc # "any"
    BY <1>4 DEF StatusLine, HeaderLine, BodyPiece, Goto
  <2>5. Relays(Out, FromAt)
    BY <2>1, <2>4 DEF Relayed, Passes
  <2>6. Relays(Out \o g, NextAt)
    BY <2>2, <2>3, <2>5, RelaysMore DEF Types
  <2>7. Out' = Out \o g /\ Done' = NextAt
    BY <2>1 DEF Passes
  <2> QED
    BY <1>1, <2>6, <2>7 DEF Relayed, Relays, Place
<1>5. CASE AnyCall
  BY <1>2, <1>5 DEF AnyCall, Relayed
<1>6. CASE Steps
  BY <1>3, <1>6, RioQuiet
<1> QED
  BY <1>3, <1>4, <1>5, <1>6, OthersQuiet DEF Next, read_responsehdrs

-----------------------------------------------------------------------------
(* The two buffers. *)

\* A string without NULs is its own C string.
LEMMA CStringIs ==
  ASSUME NEW s, Str(s), NUL \notin ToSet(s)
  PROVE  CString(s) = s
<1>1. Len(s) \in Nat /\ \A i \in 1..Len(s) : s[i] # NUL
  BY StrLen, InString
<1>2. {i \in 1..Len(s) : s[i] = NUL} \cup {Len(s) + 1} = {Len(s) + 1}
  BY <1>1
<1>3. Min({Len(s) + 1}) = Len(s) + 1
  BY <1>1, MinIs
<1>4. Min({i \in 1..Len(s) : s[i] = NUL} \cup {Len(s) + 1}) - 1 = Len(s)
  <2>1. Min({i \in 1..Len(s) : s[i] = NUL} \cup {Len(s) + 1}) = Len(s) + 1
    BY <1>2, <1>3, Zenon
  <2> QED
    BY <1>1, <2>1
<1>5. SubSeq(s, 1, Len(s)) = s
  BY StrWhole
<1> QED
  BY <1>4, <1>5 DEF CString

\* Only the end of the body caches anything, and nothing follows it.
LEMMA CachedLast ==
  ASSUME Types, Where, Gathered, Next, ~ BodyEnds
  PROVE  cached = None /\ cached' = None
<1>1. cached' = cached
  BY DEF Next, Steps, read_responsehdrs, AskFirst, StatusLine, AskLine, HeaderLine, HeadersEnd,
         AskPiece, BodyPiece, Overrun, AnyCall, locals
<1>2. pc # "done"
  <2>1. pc = "done" => rc # Pending
    BY DEF Where, Pending
  <2>2. CASE Steps
    BY <2>1, <2>2 DEF Steps, RioStep, Fill, LineByte, LineEof, Block, Raw, BlockEof, WriteSome, Running
  <2>3. CASE Fails
    BY <2>1, <2>3 DEF Fails
  <2> QED
    BY <2>2, <2>3 DEF Next, read_responsehdrs, AskFirst, StatusLine, AskLine, HeaderLine,
         HeadersEnd, AskPiece, BodyPiece, Overrun, AnyCall, Goto
<1> QED
  BY <1>1, <1>2 DEF Gathered

\* Every step keeps what is in the two buffers.
LEMMA StepGathered ==
  ASSUME Types, InPlace, Called, Where, Gathered, Next
  PROVE  Gathered'
<1>0. /\ Str(headersbuf) /\ Str(cachebuf) /\ Str(output) /\ Str(unsent)
      /\ size \in Nat /\ Str(Out)
  BY StrJoin DEF Types, Out
<1>1. ASSUME Steps \/ (Fails /\ UNCHANGED <<sent, pc, locals>>)
      PROVE  Gathered'
  <2>1. Quiet
    BY <1>1, RioQuiet, OthersQuiet
  <2>2. UNCHANGED <<pc, size, headersbuf, cachebuf, hdrs_valid, body_valid>>
    BY <1>1 DEF Steps, locals, buffers
  <2>3. cached' = None
    <3>1. ~ BodyEnds
      BY <1>1 DEF BodyEnds, Goto, Steps
    <3> QED
      BY <3>1, CachedLast
  <2> QED
    BY <2>1, <2>2, <2>3 DEF Quiet, Gathered, InHeaders, InBody, HitSendsSame
<1>2. CASE AskFirst \/ AskLine \/ AskPiece
  <2>1. Quiet
    BY <1>2, OthersQuiet
  <2>2. /\ UNCHANGED <<size, headersbuf, cachebuf, hdrs_valid, body_valid>>
        /\ \/ pc = "first" /\ pc' = "status"
           \/ pc = "test" /\ pc' = "line"
           \/ pc = "body" /\ pc' = "piece"
    BY <1>2 DEF AskFirst, AskLine, AskPiece, Goto, locals, buffers
  <2>3. cached' = None
    <3>1. ~ BodyEnds
      BY <2>2 DEF BodyEnds, Goto
    <3> QED
      BY <3>1, CachedLast
  <2> QED
    BY <2>1, <2>2, <2>3 DEF Quiet, Gathered, InHeaders, InBody, HitSendsSame
<1>3. CASE AnyCall
  <2>1. UNCHANGED <<pc, size, headersbuf, cachebuf, hdrs_valid, body_valid>> /\ pc = "any"
    BY <1>3 DEF AnyCall, locals, buffers
  <2>2. cached' = None
    <3>1. ~ BodyEnds
      BY <2>1 DEF BodyEnds, Goto
    <3> QED
      BY <3>1, CachedLast
  <2> QED
    BY <2>1, <2>2 DEF Gathered, InHeaders, InBody, HitSendsSame
<1>4. CASE StatusLine
  <2>1. Str(Got) /\ Len(Got) = rc /\ rc \in Nat
    BY <1>4, Passed
  <2>2. rc <= MaxLine
    <3>1. op = "rio_readlineb" /\ want = MaxLine /\ rc >= 0
      BY <1>4 DEF StatusLine, Goto, Where, Write
    <3> QED
      BY <3>1, GotIs
  <2>3. Out = <<>> /\ Out' = Out \o Got
    BY <1>4, PassSteps DEF StatusLine, Goto, Gathered, Passes
  <2>4. Out' = Got
    BY <2>1, <2>3, JoinEmpty
  <2>5. cached' = None
    <3>1. ~ BodyEnds
      BY <1>4 DEF StatusLine, BodyEnds, Goto
    <3> QED
      BY <3>1, CachedLast
  <2>6. /\ pc = "status" /\ pc' = "test" /\ headersbuf' = Got /\ size' = rc
        /\ UNCHANGED <<hdrs_valid, cachebuf, body_valid>>
    BY <1>4 DEF StatusLine, Goto
  <2> QED
    BY <2>1, <2>2, <2>4, <2>5, <2>6 DEF Gathered, InHeaders, InBody, HitSendsSame
<1>5. CASE HeaderLine
  <2>1. Str(Got) /\ Len(Got) = rc /\ rc \in Nat
    BY <1>5, Passed
  <2>2. headersbuf' = IF Fits(hdrs_valid, MaxHeaders) THEN headersbuf \o Got ELSE headersbuf
    BY <1>5, BuffersGrow
  <2>3. /\ pc = "line" /\ pc' = "test" /\ size' = size + rc
        /\ hdrs_valid' = Fits(hdrs_valid, MaxHeaders)
        /\ ~ Beyond(hdrs_valid, MaxHeaders, rc)
        /\ UNCHANGED <<cachebuf, body_valid>>
    BY <1>5 DEF HeaderLine, Goto
  <2>4. Out' = Out \o Got
    BY <1>5, PassSteps DEF Passes
  <2>5. cached' = None
    <3>1. ~ BodyEnds
      BY <2>3 DEF BodyEnds, Goto
    <3> QED
      BY <3>1, CachedLast
  <2>6. Len(headersbuf \o Got) = Len(headersbuf) + rc
    BY <1>0, <2>1, StrJoin
  <2>7. CASE Fits(hdrs_valid, MaxHeaders)
    <3>1. Len(headersbuf) = size /\ Out = headersbuf /\ size + rc <= MaxHeaders + 1
      BY <1>0, <2>1, <2>3, <2>7, ResponseAssumption DEF Fits, Beyond, Gathered, InHeaders
    <3> QED
      BY <2>2, <2>3, <2>4, <2>5, <2>6, <2>7, <3>1 DEF Gathered, InHeaders, InBody, HitSendsSame
  <2>8. CASE ~ Fits(hdrs_valid, MaxHeaders)
    BY <2>2, <2>3, <2>5, <2>8 DEF Gathered, InHeaders, InBody, HitSendsSame
  <2> QED
    BY <2>7, <2>8
<1>6. CASE HeadersEnd
  <2>1. Quiet
    BY <1>6, OthersQuiet
  <2>2. /\ UNCHANGED <<headersbuf, cachebuf, hdrs_valid, body_valid>>
        /\ pc = "test" /\ pc' = "body" /\ size' = 0
    BY <1>6 DEF HeadersEnd, Goto, buffers
  <2>3. cached' = None
    <3>1. ~ BodyEnds
      BY <2>2 DEF BodyEnds, Goto
    <3> QED
      BY <3>1, CachedLast
  <2>4. cachebuf = <<>> /\ Len(cachebuf) = 0 /\ headersbuf \o cachebuf = headersbuf
    BY <1>0, <2>2, StrEmpty, JoinEmpty DEF Gathered, InHeaders
  <2> QED
    BY <2>1, <2>2, <2>3, <2>4 DEF Quiet, Gathered, InHeaders, InBody, HitSendsSame
<1>7. CASE BodyPiece
  <2>1. Str(usrbuf) /\ Len(usrbuf) = rc /\ rc \in Nat
    BY <1>7, Passed
  <2>2. cachebuf' = IF Fits(body_valid, MaxObject) THEN cachebuf \o usrbuf ELSE cachebuf
    BY <1>7, BuffersGrow
  <2>3. /\ pc = "piece" /\ pc' = "body" /\ size' = size + rc
        /\ body_valid' = Fits(body_valid, MaxObject)
        /\ ~ Beyond(body_valid, MaxObject, rc)
        /\ UNCHANGED <<headersbuf, hdrs_valid>>
    BY <1>7 DEF BodyPiece, Goto
  <2>4. Out' = Out \o usrbuf
    BY <1>7, PassSteps DEF Passes
  <2>5. cached' = None
    <3>1. ~ BodyEnds
      BY <1>7 DEF BodyPiece, BodyEnds, Goto
    <3> QED
      BY <3>1, CachedLast
  <2>6. /\ Len(cachebuf \o usrbuf) = Len(cachebuf) + rc
        /\ (headersbuf \o cachebuf) \o usrbuf = headersbuf \o (cachebuf \o usrbuf)
    BY <1>0, <2>1, StrJoin, JoinJoin
  <2>7. CASE Fits(body_valid, MaxObject)
    <3>1. Len(cachebuf) = size /\ size + rc <= MaxObject + 1
      BY <1>0, <2>1, <2>3, <2>7, ResponseAssumption DEF Fits, Beyond, Gathered, InBody
    <3>2. hdrs_valid => Out = headersbuf \o cachebuf
      BY <2>3, <2>7 DEF Fits, Gathered, InBody
    <3> QED
      BY <2>2, <2>3, <2>4, <2>5, <2>6, <2>7, <3>1, <3>2
         DEF Gathered, InHeaders, InBody, HitSendsSame
  <2>8. CASE ~ Fits(body_valid, MaxObject)
    BY <2>2, <2>3, <2>5, <2>8 DEF Gathered, InHeaders, InBody, HitSendsSame
  <2> QED
    BY <2>7, <2>8
<1>8. CASE BodyEnds
  <2>1. Quiet
    BY <1>8, OthersQuiet
  <2>2. /\ UNCHANGED <<size, headersbuf, cachebuf, hdrs_valid, body_valid, output, unsent>>
        /\ pc = "piece" /\ pc' = "done"
        /\ cached' = IF ToBeCached
                     THEN [hdrs |-> CString(headersbuf),
                           data |-> SubSeq(Copied(cachebuf, <<>>), 1, size)]
                     ELSE None
    BY <1>8 DEF BodyEnds, Goto, buffers, rioVars, writing
  <2>3. HitSendsSame'
    <3>1. CASE ToBeCached /\ NUL \notin ToSet(headersbuf)
      <4>1. Len(cachebuf) = size /\ Out = headersbuf \o cachebuf
        BY <2>2, <3>1 DEF ToBeCached, Gathered, InBody
      <4>2. Copied(cachebuf, <<>>) = cachebuf
        <5>1. Copied(cachebuf, <<>>) = cachebuf \o <<>>
          BY <1>0, <4>1, CopiedIs, StrEmpty
        <5>2. cachebuf \o <<>> = cachebuf
          BY <1>0, JoinEmpty
        <5> QED
          BY <5>1, <5>2
      <4>3. SubSeq(cachebuf, 1, size) = cachebuf
        BY <1>0, <4>1, StrWhole
      <4>4. CString(headersbuf) = headersbuf
        BY <1>0, <3>1, CStringIs
      <4>5. unsent = <<>>
        BY <2>2 DEF Where, Called
      <4>6. Out = output
        BY <1>0, <4>5, JoinEmpty DEF Out
      <4> QED
        BY <2>2, <3>1, <4>1, <4>2, <4>3, <4>4, <4>6 DEF HitSendsSame
    <3> QED
      BY <2>2, <3>1 DEF HitSendsSame
  <2> QED
    BY <2>1, <2>2, <2>3 DEF Quiet, Gathered, InHeaders, InBody
<1>9. CASE Overrun
  <2>1. UNCHANGED <<size, headersbuf, cachebuf, hdrs_valid, body_valid>> /\ pc' = "overrun"
    BY <1>9 DEF Overrun, Goto, locals, buffers
  <2>2. cached' = None
    <3>1. ~ BodyEnds
      BY <2>1 DEF BodyEnds, Goto
    <3> QED
      BY <3>1, CachedLast
  <2> QED
    BY <2>1, <2>2 DEF Gathered, InHeaders, InBody, HitSendsSame
<1> QED
  BY <1>1, <1>2, <1>3, <1>4, <1>5, <1>6, <1>7, <1>8, <1>9 DEF Next, read_responsehdrs

-----------------------------------------------------------------------------
(* Where the headers are. *)

\* The first empty line.
LEMMA FirstBlank ==
  ASSUME sent \in Streams, WellFormed
  PROVE  /\ HeadersLen \in HeaderEnds /\ \A n \in HeaderEnds : HeadersLen <= n
         /\ Ends \subseteq 0..Len(sent) /\ HeaderEnds \subseteq Ends
         /\ HeadersLen \in Nat /\ HeadersLen >= 2 /\ HeadersLen <= Len(sent)
         /\ Len(sent) \in Nat
<1>1. Len(sent) \in Nat
  BY SentIs
<1>2. Ends \subseteq 0..Len(sent) /\ HeaderEnds \subseteq Ends
  BY <1>1 DEF Ends, HeaderEnds
<1>3. HeaderEnds \subseteq Nat /\ HeaderEnds # {}
  BY <1>1, <1>2 DEF WellFormed
<1>4. \E n \in HeaderEnds : \A m \in HeaderEnds : n <= m
  BY <1>3, LeastNat, Zenon
<1>5. PICK h \in HeaderEnds : \A m \in HeaderEnds : h <= m
  BY <1>4
<1>6. HeadersLen = h
  <2>1. HeaderEnds \subseteq Int
    BY <1>3
  <2>2. Min(HeaderEnds) = h
    BY <1>5, <2>1, MinIs
  <2> QED
    BY <2>2 DEF HeadersLen
<1>7. h \in 0..Len(sent) /\ h >= 2
  BY <1>2, <1>5 DEF HeaderEnds
<1> QED
  BY <1>1, <1>2, <1>5, <1>6, <1>7

\* The empty line.
LEMMA BlankIs == Str(Blank) /\ Len(Blank) = 2 /\ Blank[1] = CR /\ Blank[2] = LF
<1>1. CR \in Byte /\ LF \in Byte
  BY DEF Byte
<1> QED
  BY <1>1 DEF Blank, Str

\* A line of a well-formed response is read to its end, and is empty if and
\* only if it ends the headers.
LEMMA LineIs ==
  ASSUME Types, InPlace, Called, Where, Headers, WellFormed,
         pc \in {"status", "line"}, rc >= 0
  PROVE  /\ FromAt \in Nat /\ NextAt \in Nat /\ rc = NextAt - FromAt /\ rc > 0
         /\ FromAt = Done /\ Got = usrbuf
         /\ NextAt \in Ends /\ NextAt <= HeadersLen
         /\ usrbuf = Blank <=> NextAt = HeadersLen
<1>1. PICK p, q, r : At(p, q, r) /\ p = FromAt /\ q = NextAt /\ r = GotAt
  BY Zenon DEF InPlace
<1>2. PICK h : h = HeadersLen
  OBVIOUS
<1>3. /\ Len(sent) \in Nat /\ h \in HeaderEnds /\ (\A n \in HeaderEnds : h <= n)
      /\ Ends \subseteq 0..Len(sent) /\ HeaderEnds \subseteq Ends
      /\ h \in Nat /\ h >= 2 /\ h <= Len(sent)
  BY <1>2, FirstBlank DEF Types
<1>4. p \in Nat /\ q \in Nat /\ p <= q /\ q <= Len(sent)
  BY <1>1, <1>3 DEF At
<1>5. Str(usrbuf) /\ Len(usrbuf) = q - p /\ \A i \in 1..(q - p) : usrbuf[i] = sent[p + i]
  BY <1>1, AtIs DEF Types, Copies
<1>6. Done = p /\ p \in Ends /\ p < h
  <2>1. Done = p
    BY <1>1 DEF Done
  <2>2. Done \in Ends /\ Done < h
    BY <1>2 DEF Headers, InHeaders
  <2> QED
    BY <2>1, <2>2
<1>7. \A e \in Ends : p < e => e \in 1..Len(sent) /\ sent[e] = LF /\ p + (e - p) = e
  BY <1>3, <1>4 DEF Ends
<1>8. \A e \in Ends : p < e /\ e <= q => e - p \in 1..(q - p) /\ usrbuf[e - p] = LF
  <2> SUFFICES ASSUME NEW e \in Ends, p < e, e <= q
               PROVE  e - p \in 1..(q - p) /\ usrbuf[e - p] = LF
    OBVIOUS
  <2>1. e \in 1..Len(sent) /\ sent[e] = LF /\ p + (e - p) = e
    BY <1>7
  <2>2. e - p \in 1..(q - p)
    BY <1>4, <2>1
  <2> QED
    BY <1>5, <2>1, <2>2
<1>9. PICK j \in Ends : p < j /\ j < p + MaxLine
  BY <1>2, <1>6 DEF WellFormed
<1>10. op = "rio_readlineb" /\ want = MaxLine /\ MaxLine \in Nat
  BY ResponseAssumption DEF Where
<1>11. LineEnds /\ NoLF(usrbuf, Len(usrbuf) - 1)
  BY <1>10 DEF Called, LineSoFar
<1>12. j <= q => ~ NoLF(usrbuf, Len(usrbuf))
  BY <1>5, <1>8, <1>9 DEF NoLF
<1>13. usrbuf # <<>> /\ usrbuf[Len(usrbuf)] = LF /\ rc = Len(usrbuf)
  <2>1. ASSUME Len(usrbuf) = want - 1, NoLF(usrbuf, Len(usrbuf))
        PROVE  FALSE
    <3>1. j \in Nat
      BY <1>3
    <3>2. j <= q
      BY <1>4, <1>5, <1>9, <1>10, <2>1, <3>1
    <3> QED
      BY <1>12, <2>1, <3>2
  <2>2. ASSUME NextAt = Len(sent), NoLF(usrbuf, Len(usrbuf))
        PROVE  FALSE
    <3>1. j <= q
      BY <1>1, <1>3, <2>2
    <3> QED
      BY <1>12, <2>2, <3>1
  <2> QED
    BY <1>11, <2>1, <2>2 DEF LineEnds
<1>14. q - p \in Nat \ {0}
  <2>1. Len(usrbuf) # 0
    BY <1>5, <1>13, StrLen
  <2> QED
    BY <1>4, <1>5, <2>1
<1>15. q \in 1..Len(sent) /\ sent[q] = LF /\ q \in Ends
  <2>1. q \in 1..Len(sent) /\ q - p \in 1..(q - p) /\ p + (q - p) = q
    BY <1>3, <1>4, <1>14
  <2>2. sent[q] = LF
    BY <1>5, <1>13, <2>1
  <2> QED
    BY <2>1, <2>2 DEF Ends
<1>16. \A e \in Ends : e <= p \/ e >= q
  <2> SUFFICES ASSUME NEW e \in Ends, ~ (e <= p), ~ (e >= q) PROVE FALSE
    OBVIOUS
  <2>1. e \in Nat /\ p < e /\ e <= q /\ e < q
    BY <1>3, <1>4
  <2>2. e - p \in 1..(Len(usrbuf) - 1)
    BY <1>4, <1>5, <2>1
  <2>3. usrbuf[e - p] = LF
    BY <1>8, <2>1
  <2> QED
    BY <1>11, <2>2, <2>3 DEF NoLF
<1>17. q <= h
  BY <1>3, <1>4, <1>6, <1>16
<1>18. ASSUME usrbuf = Blank
       PROVE  q = h
  <2>1. q - p = 2 /\ usrbuf[1] = CR
    BY <1>5, <1>18, BlankIs
  <2>2. q - 2 = p /\ q - 1 = p + 1 /\ 1 \in 1..(q - p) /\ q >= 2
    BY <1>4, <2>1
  <2>3. sent[q - 1] = CR
    BY <1>5, <2>1, <2>2
  <2>4. q \in HeaderEnds
    BY <1>6, <1>15, <2>2, <2>3 DEF HeaderEnds
  <2> QED
    BY <1>3, <1>4, <1>17, <2>4
<1>19. ASSUME q = h
       PROVE  usrbuf = Blank
  <2>1. q >= 2 /\ q - 2 \in Ends /\ sent[q - 1] = CR
    BY <1>3, <1>19 DEF HeaderEnds
  <2>2. q - 2 <= p
    <3>1. ~ (q - 2 >= q)
      BY <1>4
    <3> QED
      BY <1>16, <2>1, <3>1
  <2>3. p # q - 1
    <3> SUFFICES ASSUME p = q - 1 PROVE FALSE
      OBVIOUS
    <3>1. p # 0
      BY <1>4, <2>1
    <3>2. sent[p] = LF
      BY <1>6, <3>1 DEF Ends
    <3> QED
      BY <2>1, <3>2, ByteAssumption
  <2>4. p + 1 = q - 1 /\ p + 2 = q /\ q - p = 2
    BY <1>4, <1>14, <2>2, <2>3
  <2>5. usrbuf[1] = CR /\ usrbuf[2] = LF
    <3>1. 1 \in 1..(q - p) /\ 2 \in 1..(q - p)
      BY <2>4
    <3> QED
      BY <1>5, <1>15, <2>1, <2>4, <3>1
  <2>6. Len(usrbuf) = 2 /\ \A i \in 1..2 : usrbuf[i] = Blank[i]
    <3>1. \A i \in 1..2 : i = 1 \/ i = 2
      OBVIOUS
    <3> QED
      BY <1>5, <2>4, <2>5, <3>1, BlankIs
  <2> QED
    BY <1>5, <2>6, BlankIs, StrSame
<1>20. Got = usrbuf
  BY <1>10, <1>13, GotIs
<1>21. rc = q - p /\ rc > 0
  BY <1>5, <1>13, <1>14
<1> QED
  BY <1>1, <1>2, <1>4, <1>6, <1>15, <1>17, <1>18, <1>19, <1>20, <1>21

\* What the peer sends does not change.
LEMMA SameStream ==
  ASSUME sent' = sent
  PROVE  /\ Ends' = Ends /\ HeadersLen' = HeadersLen /\ (WellFormed' <=> WellFormed)
         /\ Len(sent)' = Len(sent)
<1>1. Ends' = Ends
  BY DEF Ends
<1>2. HeaderEnds' = HeaderEnds
  BY <1>1 DEF HeaderEnds
<1>3. HeadersLen' = HeadersLen
  BY <1>2 DEF HeadersLen
<1> QED
  BY <1>1, <1>2, <1>3 DEF WellFormed

\* Every step keeps what is known of a well-formed response.
LEMMA StepHeaders ==
  ASSUME Types, InPlace, Called, Where, Gathered, Relayed, Headers, Next
  PROVE  Headers'
<1>0. sent' = sent /\ (pc' # "any" => pc # "any")
  BY DEF Next, Steps, read_responsehdrs, AskFirst, StatusLine, AskLine, HeaderLine, HeadersEnd,
         AskPiece, BodyPiece, BodyEnds, Overrun, AnyCall, Goto
<1> SUFFICES ASSUME pc # "any", pc' # "any", WellFormed'
             PROVE  /\ NUL \notin ToSet(Out')
                    /\ InHeaders' => Done' \in Ends' /\ Done' = size' /\ Done' <= HeadersLen'
                    /\ InHeaders' /\ pc' # "test" => Done' < HeadersLen'
                    /\ pc' = "test" => (AtBlank' <=> Done' = HeadersLen')
                    /\ pc' \in {"body", "piece"} => Done' = HeadersLen' + size'
                    /\ InBody' /\ hdrs_valid' => Len(headersbuf') = HeadersLen'
                    /\ OverrunOnlyBeyond'
  BY <1>0 DEF Headers
<1>1. PICK h : h = HeadersLen
  OBVIOUS
<1>2. /\ WellFormed /\ Ends' = Ends /\ HeadersLen = h /\ HeadersLen' = h
      /\ Len(sent') = Len(sent)
  BY <1>0, <1>1, SameStream
<1>3. /\ Len(sent) \in Nat /\ Ends \subseteq 0..Len(sent)
      /\ h \in Nat /\ h >= 2 /\ h <= Len(sent)
  BY <1>2, FirstBlank DEF Types
<1>4. /\ NUL \notin ToSet(Out)
      /\ InHeaders => Done \in Ends /\ Done = size /\ Done <= h
      /\ InHeaders /\ pc # "test" => Done < h
      /\ pc = "test" => (AtBlank <=> Done = h)
      /\ pc \in {"body", "piece"} => Done = h + size
      /\ InBody /\ hdrs_valid => Len(headersbuf) = h
      /\ OverrunOnlyBeyond
  BY <1>2 DEF Headers
<1>5. size \in Nat /\ Str(Out)
  BY StrJoin DEF Types, Out
<1>6. CASE Steps \/ (Fails /\ UNCHANGED <<sent, pc, locals>>)
  <2>1. Out' = Out /\ Done' = Done
    BY <1>6, RioQuiet, OthersQuiet DEF Quiet
  <2>2. UNCHANGED <<pc, size, buf, headersbuf, hdrs_valid>>
    BY <1>6 DEF Steps, locals, buffers
  <2> QED
    BY <1>2, <1>4, <2>1, <2>2 DEF InHeaders, InBody, AtBlank, OverrunOnlyBeyond
<1>7. CASE AskFirst \/ AskLine \/ AskPiece
  <2>1. Out' = Out /\ Done' = Done
    BY <1>7, OthersQuiet DEF Quiet
  <2>2. /\ UNCHANGED <<size, buf, headersbuf, hdrs_valid>>
        /\ \/ pc = "first" /\ pc' = "status"
           \/ pc = "test" /\ pc' = "line" /\ ~ AtBlank
           \/ pc = "body" /\ pc' = "piece"
    BY <1>7 DEF AskFirst, AskLine, AskPiece, Goto, locals, buffers
  <2>3. pc = "test" /\ ~ AtBlank => Done < h
    <3>1. pc = "test" /\ ~ AtBlank => Done \in Ends /\ Done <= h /\ Done # h
      BY <1>4 DEF InHeaders
    <3>2. Done \in Ends => Done \in Nat
      BY <1>3
    <3> QED
      BY <1>3, <3>1, <3>2
  <2> QED
    BY <1>2, <1>4, <2>1, <2>2, <2>3 DEF InHeaders, InBody, OverrunOnlyBeyond
<1>8. CASE StatusLine \/ HeaderLine
  <2>1. pc \in {"status", "line"} /\ rc >= 0 /\ pc' = "test" /\ buf' = NewBuf
    BY <1>8 DEF StatusLine, HeaderLine, Goto, Write
  <2>2. PICK p, q : p = FromAt /\ q = NextAt
    OBVIOUS
  <2>3. /\ p \in Nat /\ q \in Nat /\ rc = q - p /\ rc > 0 /\ p = Done /\ Got = usrbuf
        /\ q \in Ends /\ q <= h /\ (usrbuf = Blank <=> q = h)
    BY <1>2, <2>1, <2>2, LineIs
  <2>4. Passes(Got)
    BY <1>8, PassSteps
  <2>5. Out' = Out \o Got /\ Done' = q
    BY <2>2, <2>4 DEF Passes
  <2>6. size' = q
    <3>1. CASE StatusLine
      <4>1. Done = 0 /\ size' = rc
        BY <3>1 DEF StatusLine, Goto, Gathered
      <4> QED
        BY <2>3, <4>1
    <3>2. CASE HeaderLine
      <4>1. size' = size + rc /\ Done = size
        BY <1>4, <3>2 DEF HeaderLine, Goto, InHeaders
      <4> QED
        BY <2>3, <4>1
    <3> QED
      BY <1>8, <3>1, <3>2
  <2>7. buf' = usrbuf
    BY <2>1, <2>3 DEF NewBuf
  <2>8. NUL \notin ToSet(Out')
    <3>1. /\ FromAt \in Nat /\ NextAt \in Nat /\ FromAt <= NextAt /\ NextAt <= Len(sent)
          /\ IsPart(usrbuf, sent, FromAt, NextAt) /\ Str(usrbuf)
      BY <1>8, <2>4, PassesPart
    <3>2. Relays(Out, FromAt)
      BY <2>4 DEF Relayed, Passes
    <3>3. sent \in Streams
      BY DEF Types
    <3>4. NUL \notin ToSet(Out \o usrbuf)
      BY <1>4, <1>5, <3>1, <3>2, <3>3, RelaysMore
    <3> QED
      BY <2>3, <2>5, <3>4
  <2> QED
    BY <1>2, <2>1, <2>3, <2>5, <2>6, <2>7, <2>8 DEF InHeaders, InBody, AtBlank, OverrunOnlyBeyond
<1>9. CASE HeadersEnd
  <2>1. Out' = Out /\ Done' = Done
    BY <1>9, OthersQuiet DEF Quiet
  <2>2. /\ UNCHANGED <<headersbuf, hdrs_valid>> /\ size' = 0
        /\ pc = "test" /\ pc' = "body" /\ AtBlank
    BY <1>9 DEF HeadersEnd, Goto, buffers
  <2>3. Done = h /\ Done = size
    BY <1>4, <2>2 DEF InHeaders
  <2>4. hdrs_valid => Len(headersbuf) = size
    BY <2>2 DEF Gathered, InHeaders
  <2> QED
    BY <1>2, <1>3, <1>4, <2>1, <2>2, <2>3, <2>4 DEF InHeaders, InBody, OverrunOnlyBeyond
<1>10. CASE BodyPiece
  <2>1. /\ UNCHANGED <<headersbuf, hdrs_valid>> /\ size' = size + rc
        /\ pc = "piece" /\ pc' = "body"
    BY <1>10 DEF BodyPiece, Goto
  <2>2. Passes(usrbuf) /\ Len(usrbuf) = rc /\ rc \in Nat
    BY <1>10, PassSteps, Passed
  <2>3. PICK p, q : p = FromAt /\ q = NextAt
    OBVIOUS
  <2>4. /\ p \in Nat /\ q \in Nat /\ p <= q /\ q <= Len(sent)
        /\ IsPart(usrbuf, sent, p, q) /\ Str(usrbuf) /\ Len(usrbuf) = q - p
    BY <1>10, <2>2, <2>3, PassesPart
  <2>5. Out' = Out \o usrbuf /\ Done' = q /\ Done = p
    BY <2>2, <2>3 DEF Passes
  <2>6. Relays(Out, p)
    BY <2>5 DEF Relayed
  <2>7. NUL \notin ToSet(Out \o usrbuf)
    <3>1. sent \in Streams
      BY DEF Types
    <3> QED
      BY <1>4, <1>5, <2>4, <2>6, <3>1, RelaysMore
  <2>8. Done' = h + size'
    BY <1>3, <1>4, <1>5, <2>1, <2>2, <2>4, <2>5
  <2> QED
    BY <1>2, <1>4, <2>1, <2>5, <2>7, <2>8 DEF InHeaders, InBody, OverrunOnlyBeyond
<1>11. CASE BodyEnds
  <2>1. Out' = Out
    BY <1>11, OthersQuiet DEF Quiet
  <2>2. UNCHANGED <<headersbuf, hdrs_valid>> /\ pc = "piece" /\ pc' = "done"
    BY <1>11 DEF BodyEnds, Goto, buffers
  <2> QED
    BY <1>2, <1>4, <2>1, <2>2 DEF InHeaders, InBody, OverrunOnlyBeyond
<1>12. CASE Overrun
  <2>1. Out' = Out /\ pc' = "overrun"
    BY <1>12, OthersQuiet DEF Quiet, Overrun, Goto
  <2>2. h > MaxHeaders \/ Len(sent) - h > MaxObject + 1
    <3>1. CASE Goto("line", "overrun") /\ Beyond(hdrs_valid, MaxHeaders, rc)
      <4>1. pc = "line" /\ rc >= 0 /\ size + rc > MaxHeaders + 1
        BY <1>12, <3>1 DEF Overrun, Goto, Beyond
      <4>2. PICK p, q : p = FromAt /\ q = NextAt
        OBVIOUS
      <4>3. p \in Nat /\ q \in Nat /\ rc = q - p /\ p = Done /\ q <= h
        BY <1>2, <4>1, <4>2, LineIs
      <4>4. Done = size
        BY <1>4, <4>1 DEF InHeaders
      <4> QED
        BY <1>3, <4>1, <4>3, <4>4, ResponseAssumption
    <3>2. CASE Goto("piece", "overrun") /\ Beyond(body_valid, MaxObject, rc)
      <4>1. pc = "piece" /\ rc >= 0 /\ size + rc > MaxObject + 1
        BY <1>12, <3>2 DEF Overrun, Goto, Beyond
      <4>2. PICK p, q, r : At(p, q, r) /\ p = FromAt /\ q = NextAt /\ r = GotAt
        BY Zenon DEF InPlace
      <4>3. Len(usrbuf) = q - p
        BY <4>2, AtIs DEF Types
      <4>4. rc = Len(usrbuf)
        BY <4>1 DEF Where, Called, BlockSoFar
      <4>5. Done = p /\ Done = h + size
        BY <1>4, <4>1, <4>2 DEF Done
      <4>6. p \in Nat /\ q \in Nat /\ q <= Len(sent)
        BY <1>3, <4>2 DEF At
      <4> QED
        BY <1>3, <1>5, <4>1, <4>3, <4>4, <4>5, <4>6, ResponseAssumption
    <3>3. CASE Goto("piece", "overrun") /\ rc = 0 /\ ToBeCached /\ Unterminated
      <4>1. hdrs_valid /\ InBody /\ Len(headersbuf) > MaxHeaders
        BY <3>3 DEF Goto, ToBeCached, Unterminated, InBody
      <4> QED
        BY <1>4, <4>1
    <3> QED
      BY <1>12, <3>1, <3>2, <3>3 DEF Overrun
  <2> QED
    BY <1>2, <1>4, <2>1, <2>2 DEF InHeaders, InBody, OverrunOnlyBeyond
<1>13. CASE AnyCall
  BY <1>13 DEF AnyCall
<1> QED
  BY <1>6, <1>7, <1>8, <1>9, <1>10, <1>11, <1>12, <1>13 DEF Next, read_responsehdrs

-----------------------------------------------------------------------------
(* The theorems. *)

\* A new connection, of which nothing has been read.
LEMMA InitIInv == Init => IInv
<1> SUFFICES ASSUME Init PROVE IInv
  OBVIOUS
<1>1. /\ sent \in Streams /\ pc \in {"first", "any"} /\ buf \in {<<>>, Blank}
      /\ size = 0 /\ headersbuf = <<>> /\ cachebuf = <<>>
      /\ hdrs_valid = TRUE /\ body_valid = TRUE /\ cached = None
      /\ input = sent /\ rio_buf = <<>> /\ op = "none" /\ want = 0
      /\ usrbuf = <<>> /\ rc = 0 /\ unsent = <<>> /\ output = <<>> /\ rest = sent
  BY DEF Init, InitRio
<1>2. Str(sent) /\ Len(sent) \in Nat
  BY <1>1, SentIs
<1>3. At(0, 0, 0)
  <2>1. IsPart(<<>>, sent, 0, 0)
    BY PartEmpty
  <2>2. IsPart(sent, sent, 0, Len(sent))
    BY <1>2, StrWhole DEF IsPart
  <2> QED
    BY <1>1, <1>2, <2>1, <2>2 DEF At
<1>4. FromAt = 0 /\ NextAt = 0 /\ GotAt = 0
  BY <1>1, <1>3, AtIs
<1>5. InPlace
  BY <1>3, <1>4 DEF InPlace
<1>6. Out = <<>> /\ Done = 0 /\ Len(<<>>) = 0
  BY <1>1, <1>4, JoinEmpty, StrEmpty DEF Out, Done
<1>7. Types
  BY <1>1, <1>6, StrEmpty, BlankIs, RioAssumption DEF Types, Places, Functions
<1>8. Called /\ Where
  BY <1>1 DEF Called, Where
<1>9. Gathered
  BY <1>1, <1>6, ResponseAssumption DEF Gathered, InHeaders, InBody, HitSendsSame
<1>10. Relayed
  <2>1. Nuls(<<>>, 0) = {}
    BY DEF Nuls
  <2>2. Place(<<>>, 0) = 0
    BY <2>1, PlaceIs, FS_EmptySet
  <2> QED
    BY <1>6, <2>2 DEF Relayed, Relays
<1>11. Headers
  <2> SUFFICES ASSUME pc = "first", WellFormed PROVE Headers
    BY <1>1 DEF Headers
  <2>1. HeadersLen \in Nat /\ HeadersLen >= 2
    BY <1>1, FirstBlank
  <2>2. ToSet(<<>>) = {}
    BY InString, StrEmpty
  <2>3. 0 \in Ends
    BY DEF Ends
  <2> QED
    BY <1>1, <1>6, <2>1, <2>2, <2>3 DEF Headers, InHeaders, InBody, OverrunOnlyBeyond
<1> QED
  BY <1>5, <1>7, <1>8, <1>9, <1>10, <1>11 DEF IInv

\* Nothing changes when nothing is done.
LEMMA NoStep == IInv /\ UNCHANGED vars => IInv'
<1> SUFFICES ASSUME IInv, UNCHANGED vars PROVE IInv'
  OBVIOUS
<1>1. /\ UNCHANGED <<sent, pc, buf, size, headersbuf, hdrs_valid, cachebuf, body_valid, cached>>
      /\ UNCHANGED <<input, closes, rio_buf, want, usrbuf, rest, op, rc, unsent, output>>
  BY DEF vars, locals, buffers, rioVars, stream, reading, writing
<1>2. UNCHANGED <<FromAt, NextAt, GotAt, Out, Done>>
  BY <1>1 DEF FromAt, NextAt, GotAt, Out, Done
<1>3. Types'
  BY <1>1 DEF IInv, Types
<1>4. InPlace'
  BY <1>1, <1>2 DEF IInv, InPlace, At
<1>5. Called' /\ Where'
  BY <1>1, <1>2 DEF IInv, Called, Where, LineSoFar, LineEnds, BlockSoFar, NoLF
<1>6. Gathered'
  BY <1>1, <1>2 DEF IInv, Gathered, InHeaders, InBody, HitSendsSame
<1>7. Relayed'
  BY <1>1, <1>2 DEF IInv, Relayed, Relays, Place
<1>8. Headers'
  BY <1>1, <1>2, SameStream DEF IInv, Headers, InHeaders, InBody, AtBlank, OverrunOnlyBeyond
<1> QED
  BY <1>3, <1>4, <1>5, <1>6, <1>7, <1>8 DEF IInv

\* What is read, gathered and passed on is where the invariant says, for any
\* stream, any sizes of the buffers and any way in which the bytes arrive
\* (proxy.c:364-425, csapp.c:585-675).
THEOREM ReaderInvariant == FairSpec => []IInv
<1>1. IInv /\ Next => IInv'
  BY StepTypes, StepPlaces, StepCalled, StepWhere, StepGathered, StepRelayed, StepHeaders DEF IInv
<1>2. IInv /\ [Next]_vars => IInv'
  BY <1>1, NoStep
<1> QED
  BY InitIInv, <1>2, PTL DEF FairSpec

\* Every variable has its type, and no buffer holds more than it has room for.
THEOREM ReaderTypeCorrect == FairSpec => []TypeOK
<1>1. IInv => TypeOK
  <2> SUFFICES ASSUME IInv PROVE TypeOK
    OBVIOUS
  <2>1. Types /\ InPlace /\ Called /\ Gathered
    BY DEF IInv
  <2>2. op = "rio_readlineb" => Len(usrbuf) < want
    BY <2>1 DEF Called, LineSoFar
  <2> QED
    BY <2>1, <2>2, Stored DEF TypeOK, Types, Places, Functions, Gathered
<1> QED
  BY <1>1, ReaderInvariant, PTL

\* What a hit sends later is what the client of the miss was sent, unless a
\* line was cut (proxy.c:413-414, 465-469, 487-489).
THEOREM HitRepeatsMiss == FairSpec => []HitSendsSame
<1>1. IInv => HitSendsSame
  BY DEF IInv, Gathered
<1> QED
  BY <1>1, ReaderInvariant, PTL

\* A buffer is written beyond its end only for headers or a body that is too
\* large for the cache (proxy.c:387, 403).
THEOREM OverrunNeedsSize == FairSpec => []OverrunOnlyBeyond
<1>1. IInv => OverrunOnlyBeyond
  <2> SUFFICES ASSUME IInv, pc = "overrun", WellFormed PROVE OverrunOnlyBeyond
    BY DEF OverrunOnlyBeyond
  <2> QED
    BY DEF IInv, Headers
<1> QED
  BY <1>1, ReaderInvariant, PTL

\* Every byte is passed on in its place, and a well-formed response as it is
\* (proxy.c:375-401).
THEOREM RelayIsExact == FairSpec => []RelayedExactly
<1>1. IInv => RelayedExactly
  <2> SUFFICES ASSUME IInv, pc # "any"
               PROVE  /\ \A i \in 1..Len(output) :
                           output[i] # NUL =>
                             Place(output, i) <= Len(sent) /\ output[i] = sent[Place(output, i)]
                      /\ WellFormed => NUL \notin ToSet(output)
    BY DEF RelayedExactly
  <2>1. Str(output) /\ Str(unsent) /\ sent \in Streams
    BY DEF IInv, Types
  <2>2. Str(Out) /\ Len(Out) = Len(output) + Len(unsent)
    BY <2>1, StrJoin DEF Out
  <2>3. Len(output) \in Nat /\ Len(unsent) \in Nat /\ Len(sent) \in Nat
    BY <2>1, StrLen, SentIs
  <2>4. \A i \in 1..Len(output) :
          i \in 1..Len(Out) /\ Out[i] = output[i] /\ Place(Out, i) = Place(output, i)
    <3>1. \A i \in 1..Len(output) : i \in 1..Len(Out)
      BY <2>2, <2>3
    <3>2. \A i \in 1..Len(output) : Out[i] = output[i] /\ Place(Out, i) = Place(output, i)
      BY <2>1, JoinLeft, PlaceOfOld DEF Out
    <3> QED
      BY <3>1, <3>2
  <2>5. Done \in Nat /\ Done <= Len(sent)
    <3>1. PICK p, q, r : At(p, q, r) /\ p = FromAt /\ q = NextAt /\ r = GotAt
      BY Zenon DEF IInv, InPlace
    <3>2. p \in Nat /\ q \in Nat /\ p <= Len(sent) /\ q <= Len(sent)
      BY <2>3, <3>1 DEF At
    <3> QED
      BY <3>1, <3>2 DEF Done
  <2>6. Relays(Out, Done)
    BY DEF IInv, Relayed
  <2>7. ASSUME NEW i \in 1..Len(output), output[i] # NUL
        PROVE  Place(output, i) <= Len(sent) /\ output[i] = sent[Place(output, i)]
    <3>1. Place(Out, i) \in 1..Done /\ Out[i] = sent[Place(Out, i)]
      BY <2>4, <2>6, <2>7 DEF Relays
    <3> QED
      BY <2>3, <2>4, <2>5, <2>7, <3>1
  <2>8. ASSUME WellFormed
        PROVE  NUL \notin ToSet(output)
    <3>1. NUL \notin ToSet(Out)
      BY <2>8 DEF IInv, Headers
    <3>2. \A i \in 1..Len(output) : output[i] # NUL
      BY <2>2, <2>4, <3>1, InString
    <3> QED
      BY <2>1, <3>2, InString
  <2> QED
    BY <2>7, <2>8
<1> QED
  BY <1>1, ReaderInvariant, PTL

\* A host that closes before the empty line keeps the thread in its loop for
\* ever (proxy.c:382-385).
THEOREM SpinningStays == FairSpec => SpinsForever
<1>1. ASSUME [Next]_vars, Spinning
      PROVE  Spinning' \/ pc' = "overrun"
  <2>1. /\ rio_buf = <<>> /\ input = <<>> /\ closes /\ buf # Blank
        /\ pc = "test" \/ (pc = "line" /\ usrbuf # Blank)
    BY <1>1 DEF Spinning, AtEof
  <2>2. CASE UNCHANGED vars
    BY <1>1, <2>2 DEF vars, locals, buffers, rioVars, stream, reading, Spinning, AtEof
  <2>3. CASE Steps
    <3>1. LineEof \/ BlockEof \/ WriteSome
      BY <2>1, <2>3 DEF Steps, RioStep, Fill, LineByte, Block, Raw
    <3>2. UNCHANGED <<rio_buf, input, closes, usrbuf, buf, pc>>
      BY <2>3, <3>1 DEF Steps, LineEof, BlockEof, WriteSome, stream, reading, locals
    <3> QED
      BY <1>1, <3>2 DEF Spinning, AtEof
  <2>4. CASE Fails /\ UNCHANGED <<sent, pc, locals>>
    BY <1>1, <2>4 DEF Fails, stream, reading, locals, Spinning, AtEof
  <2>5. CASE AskLine
    <3>1. usrbuf' # Blank
      <4>1. usrbuf' = <<>>
        BY <2>5 DEF AskLine, Read
      <4>2. Len(<<>>) # Len(Blank)
        BY StrEmpty, BlankIs
      <4> QED
        BY <4>1, <4>2
    <3>2. UNCHANGED <<rio_buf, input, closes, buf>> /\ pc' = "line"
      BY <2>5 DEF AskLine, Read, Goto, stream, locals
    <3> QED
      BY <2>1, <3>1, <3>2 DEF Spinning, AtEof
  <2>6. CASE HeaderLine
    <3>1. pc = "line" /\ pc' = "test" /\ buf' = NewBuf /\ UNCHANGED <<rio_buf, input, closes>>
      BY <2>6 DEF HeaderLine, Goto, Write, stream
    <3>2. buf' # Blank
      BY <2>1, <3>1 DEF NewBuf
    <3> QED
      BY <2>1, <3>1, <3>2 DEF Spinning, AtEof
  <2>7. CASE Overrun
    BY <2>7 DEF Overrun, Goto
  <2>8. ~ AskFirst /\ ~ StatusLine /\ ~ HeadersEnd /\ ~ AskPiece /\ ~ BodyPiece /\ ~ BodyEnds
        /\ ~ AnyCall
    BY <2>1 DEF AskFirst, StatusLine, HeadersEnd, AskPiece, BodyPiece, BodyEnds, AnyCall, Goto,
                AtBlank
  <2> QED
    BY <1>1, <2>2, <2>3, <2>4, <2>5, <2>6, <2>7, <2>8 DEF Next, read_responsehdrs
<1>2. [Next]_vars => [Spinning => Spinning' \/ pc' = "overrun"]_vars
  BY <1>1
<1> QED
  BY <1>2, PTL DEF FairSpec, SpinsForever

\* However the bytes arrive, a call returns what it would return if they
\* were all there at once, and leaves the others (csapp.c:585-675).
THEOREM ReadingIsExact == FairSpec => []ReadsAsOne
<1>1. IInv => ReadsAsOne
  <2> SUFFICES ASSUME IInv PROVE ReadsAsOne
    OBVIOUS
  <2>1. PICK p, q, r : At(p, q, r) /\ p = FromAt /\ q = NextAt /\ r = GotAt
    BY Zenon DEF IInv, InPlace
  <2>2. Str(sent) /\ Len(sent) \in Nat /\ sent \in Streams /\ want \in Nat
    BY SentIs DEF IInv, Types
  <2>3. PICK n : n = Len(sent)
    OBVIOUS
  <2>4. /\ p \in Nat /\ q \in Nat /\ r \in Nat /\ n \in Nat /\ p <= q /\ q <= r /\ r <= n
        /\ q <= n /\ p <= n /\ p <= r /\ n <= n
        /\ IsPart(usrbuf, sent, p, q) /\ IsPart(rio_buf, sent, q, r)
        /\ IsPart(input, sent, r, n) /\ IsPart(rest, sent, p, n)
    BY <2>1, <2>2, <2>3 DEF At
  <2>5. rest = (usrbuf \o rio_buf) \o input
    <3>1. IsPart(usrbuf \o rio_buf, sent, p, r)
      BY <2>2, <2>3, <2>4, PartsJoin
    <3>2. IsPart((usrbuf \o rio_buf) \o input, sent, p, n)
      BY <2>2, <2>3, <2>4, <3>1, PartsJoin
    <3> QED
      BY <2>4, <3>2, PartSame
  <2>6. Str(rest) /\ Len(rest) = n - p /\ Str(usrbuf) /\ Len(usrbuf) = q - p
    BY <2>2, <2>3, <2>4, PartIs
  <2>7. PICK k : k = q - p
    OBVIOUS
  <2>8. k \in Nat /\ k <= Len(rest) /\ Len(rest) \in Nat /\ Len(usrbuf) = k /\ p + k = q
    BY <2>4, <2>6, <2>7
  <2>9. usrbuf = SubSeq(rest, 1, k)
    <3>1. IsPart(SubSeq(rest, 1, k), sent, p, p + k)
      <4>1. p + k <= n
        BY <2>4, <2>8
      <4> QED
        BY <2>2, <2>3, <2>4, <2>8, <4>1, PartOfPart
    <3> QED
      BY <2>4, <2>8, <3>1, PartSame
  <2>10. \A i \in 1..k : rest[i] = usrbuf[i]
    <3>1. IsPart(usrbuf, rest, 0, k) /\ 0 <= k
      BY <2>8, <2>9 DEF IsPart
    <3>2. Copies(usrbuf, rest, 0, k)
      BY <2>6, <2>8, <3>1, PartAt
    <3> QED
      BY <2>8, <3>2 DEF Copies
  <2>11. ASSUME rc >= 0, op = "rio_readlineb"
         PROVE  usrbuf = LineOf(rest, want)
    <3>1. LineEnds /\ NoLF(usrbuf, k - 1) /\ k < want
      BY <2>8, <2>11 DEF IInv, Called, LineSoFar
    <3>2. PICK T : T = {i \in 1..Len(rest) : rest[i] = LF} \cup {Len(rest), want - 1}
      OBVIOUS
    <3>3. T \subseteq Int
      BY <2>2, <2>8, <3>2
    <3>4. \A i \in 1..Len(rest) : rest[i] = LF => k <= i
      <4> SUFFICES ASSUME NEW i \in 1..Len(rest), rest[i] = LF, ~ (k <= i) PROVE FALSE
        OBVIOUS
      <4>1. i \in 1..(k - 1) /\ i \in 1..k
        BY <2>8
      <4> QED
        BY <2>10, <3>1, <4>1 DEF NoLF
    <3>5. \A i \in T : k <= i
      BY <2>2, <2>8, <3>1, <3>2, <3>4
    <3>6. k \in T
      <4>1. CASE usrbuf # <<>> /\ usrbuf[Len(usrbuf)] = LF
        <5>1. k \in 1..k /\ k \in 1..Len(rest)
          BY <2>6, <2>8, <4>1, StrLen
        <5>2. rest[k] = LF
          BY <2>8, <2>10, <4>1, <5>1
        <5> QED
          BY <3>2, <5>1, <5>2
      <4>2. CASE Len(usrbuf) = want - 1
        BY <2>8, <3>2, <4>2
      <4>3. CASE NextAt = Len(sent)
        <5>1. k = Len(rest)
          BY <2>1, <2>3, <2>6, <2>7, <4>3
        <5> QED
          BY <3>2, <5>1
      <4> QED
        BY <3>1, <4>1, <4>2, <4>3 DEF LineEnds
    <3>7. Min(T) = k
      BY <3>3, <3>5, <3>6, MinIs
    <3> QED
      BY <2>9, <3>2, <3>7 DEF LineOf
  <2>12. ASSUME rc >= 0, op \in {"rio_readnb", "rio_readn"}
         PROVE  usrbuf = SubSeq(rest, 1, Min({want, Len(rest)}))
    <3>1. k <= want /\ (k = want \/ NextAt = Len(sent))
      BY <2>8, <2>12 DEF IInv, Called, BlockSoFar
    <3>2. PICK T : T = {want, Len(rest)}
      OBVIOUS
    <3>3. k \in T
      BY <2>1, <2>3, <2>6, <2>7, <3>1, <3>2
    <3>4. T \subseteq Int /\ \A i \in T : k <= i
      BY <2>2, <2>8, <3>1, <3>2
    <3>5. Min(T) = k
      BY <3>3, <3>4, MinIs
    <3> QED
      BY <2>9, <3>2, <3>5
  <2>13. (usrbuf \o rio_buf) \o input = usrbuf \o rio_buf \o input
    OBVIOUS
  <2> QED
    BY <2>5, <2>11, <2>12, <2>13 DEF ReadsAsOne
<1> QED
  BY <1>1, ReaderInvariant, PTL
=============================================================================
