-------------------------- MODULE HandshakesProofs --------------------------
(***************************************************************************)
(* Theorems about Handshakes, for every stream, every way of cutting it    *)
(* into pieces, and limits of any size: where a reader stops, and what it  *)
(* leaves to the relay; what the lists say of every host; and that what is  *)
(* meant is what is understood.                                            *)
(***************************************************************************)
EXTENDS Handshakes, FiniteSetTheorems, SequenceTheorems, WellFoundedInduction, TLAPS

-----------------------------------------------------------------------------
(* Least positions, and pieces of streams.                                 *)

LEMMA Least ==
  ASSUME NEW S \in SUBSET Nat, S # {}
  PROVE  Min(S) \in S /\ \A y \in S : Min(S) <= y
<1>1. IsWellFoundedOn(OpToRel(<, Nat), Nat)
  BY NatLessThanWellFounded
<1> DEFINE R == OpToRel(<, Nat)
<1>2. \A x, y \in Nat : <<x, y>> \in R <=> x < y
  BY DEF OpToRel
<1> HIDE DEF R
<1>3. PICK x \in S : \A y \in S : ~(<<y, x>> \in R)
  BY <1>1, WFMin DEF R
<1>4. \A y \in S : x \in Nat /\ y \in Nat /\ ~(y < x)
  BY <1>2, <1>3
<1>5. \A y \in S : x <= y
  BY <1>4
<1>6. \E m \in S : \A y \in S : m <= y
  BY <1>5
<1> QED BY <1>6 DEF Min

\* A piece of a sequence, element by element.
LEMMA Piece ==
  ASSUME NEW T, NEW s \in Seq(T), NEW m \in 1 .. Len(s) + 1, NEW n \in m - 1 .. Len(s)
  PROVE  /\ SubSeq(s, m, n) \in Seq(T) /\ Len(SubSeq(s, m, n)) = n - m + 1
         /\ \A i \in 1 .. n - m + 1 : SubSeq(s, m, n)[i] = s[m + i - 1]
  BY SubSeqProperties

\* Sequences that are alike.
LEMMA Alike ==
  ASSUME NEW T, NEW U, NEW s \in Seq(T), NEW t \in Seq(U), NEW n, Len(s) = n, Len(t) = n,
         \A i \in 1 .. n : s[i] = t[i]
  PROVE  s = t
<1> DEFINE Both == T \cup U
<1>1. s \in Seq(Both) /\ t \in Seq(Both)
  BY SeqMonotonic
<1>2. Len(s) = Len(t) /\ \A i \in 1 .. Len(s) : s[i] = t[i]
  OBVIOUS
<1> HIDE DEF Both
<1> QED BY <1>1, <1>2, SeqEqual

LEMMA Pieces ==
  ASSUME NEW T, NEW s \in Seq(T), NEW k \in 0 .. Len(s), NEW n \in k .. Len(s), NEW m \in 0 .. k
  PROVE  SubSeq(s, m + 1, k) \o SubSeq(s, k + 1, n) = SubSeq(s, m + 1, n)
<1> DEFINE u == SubSeq(s, m + 1, k)
           v == SubSeq(s, k + 1, n)
           w == SubSeq(s, m + 1, n)
<1>0. m + 1 \in 1 .. Len(s) + 1 /\ k \in (m + 1) - 1 .. Len(s) /\ n \in (m + 1) - 1 .. Len(s)
      /\ k + 1 \in 1 .. Len(s) + 1 /\ n \in (k + 1) - 1 .. Len(s)
  OBVIOUS
<1>1. /\ u \in Seq(T) /\ Len(u) = k - m /\ \A i \in 1 .. k - m : u[i] = s[m + i]
      /\ v \in Seq(T) /\ Len(v) = n - k /\ \A i \in 1 .. n - k : v[i] = s[k + i]
      /\ w \in Seq(T) /\ Len(w) = n - m /\ \A i \in 1 .. n - m : w[i] = s[m + i]
  BY <1>0, Piece
<1> HIDE DEF u, v, w
<1>2. /\ u \o v \in Seq(T) /\ Len(u \o v) = Len(u) + Len(v)
      /\ \A i \in 1 .. Len(u) + Len(v) : (u \o v)[i] = IF i <= Len(u) THEN u[i] ELSE v[i - Len(u)]
  BY <1>1, ConcatProperties
<1>3. Len(u \o v) = n - m /\ Len(w) = n - m
  <2>1. Len(u) = k - m /\ Len(v) = n - k /\ Len(w) = n - m
    BY <1>1
  <2>2. Len(u \o v) = Len(u) + Len(v)
    BY <1>2
  <2>3. (k - m) + (n - k) = n - m
    OBVIOUS
  <2> QED BY <2>1, <2>2, <2>3
<1>4. ASSUME NEW i \in 1 .. n - m PROVE (u \o v)[i] = w[i]
  <2>0. i \in Int /\ k \in Int /\ m \in Int /\ n \in Int
    OBVIOUS
  <2>1. CASE i <= k - m
    <3>1. i \in 1 .. k - m /\ (u \o v)[i] = u[i]
      BY <1>1, <1>2, <2>1
    <3> QED BY <1>1, <3>1
  <2>2. CASE ~(i <= k - m)
    <3>1. i - (k - m) \in 1 .. n - k /\ (u \o v)[i] = v[i - (k - m)]
      <4>1. i \in 1 .. Len(u) + Len(v) /\ Len(u) = k - m /\ ~(i <= Len(u))
        BY <1>1, <2>0, <2>2
      <4>2. (u \o v)[i] = v[i - Len(u)]
        BY <1>2, <4>1
      <4> QED BY <2>0, <2>2, <4>1, <4>2
    <3>2. v[i - (k - m)] = s[k + (i - (k - m))]
      BY <1>1, <3>1
    <3>3. k + (i - (k - m)) = m + i
      OBVIOUS
    <3>4. w[i] = s[m + i]
      BY <1>1
    <3> QED BY <3>1, <3>2, <3>3, <3>4
  <2> QED BY <2>1, <2>2
<1>5. u \o v = w
  BY <1>1, <1>2, <1>3, <1>4, SeqEqual
<1> QED BY <1>5 DEF u, v, w

\* What a stream is made of.
Made(in) == {in.stream[i] : i \in 1 .. Len(in.stream)}

LEMMA Streams ==
  ASSUME NEW in \in Inputs
  PROVE  /\ in.stream \in Seq(Made(in)) /\ Len(in.stream) \in Nat
         /\ in.reader \in {"http", "socks5", "upstream", "datagram"}
         /\ in.reader = "upstream" => in.proxy \in {"http", "socks5", "socks5h"}
         /\ in.reader \in {"socks5", "datagram"} => in.stream \in Seq(0 .. 255)
         /\ \A end \in EndOf(in) : in.after = SubSeq(in.stream, end + 1, Len(in.stream))
<1>1. in.stream \in [1 .. Len(in.stream) -> Made(in)] /\ Len(in.stream) \in Nat
  BY InputsAssumption DEF Made
<1>2. in.stream \in Seq(Made(in))
  BY <1>1, SeqDef
<1> QED BY <1>1, <1>2, InputsAssumption DEF Start

-----------------------------------------------------------------------------
(* Ends of heads.                                                          *)

HeadEnd(s, i) == i \in Nat /\ i + 4 <= Len(s) /\ s[i + 1] = CR /\ s[i + 2] = LF /\ s[i + 3] = CR /\ s[i + 4] = LF

LEMMA HeadEndsAt ==
  ASSUME NEW T, NEW s \in Seq(T), NEW i
  PROVE  i \in HeadEnds(s) <=> HeadEnd(s, i)
<1>1. Len(s) \in Nat
  OBVIOUS
<1>2. i \in HeadEnds(s) <=> i \in 0 .. Len(s) - 4 /\ SubSeq(s, i + 1, i + 4) = <<CR, LF, CR, LF>>
  BY DEF HeadEnds
<1>3. i \in 0 .. Len(s) - 4 <=> i \in Nat /\ i + 4 <= Len(s)
  BY <1>1
<1>4. ASSUME i \in Nat, i + 4 <= Len(s)
      PROVE  SubSeq(s, i + 1, i + 4) = <<CR, LF, CR, LF>> <=>
               s[i + 1] = CR /\ s[i + 2] = LF /\ s[i + 3] = CR /\ s[i + 4] = LF
  <2> DEFINE u == SubSeq(s, i + 1, i + 4)
             end == <<CR, LF, CR, LF>>
  <2>1. u \in Seq(T) /\ Len(u) = 4 /\ u[1] = s[i + 1] /\ u[2] = s[i + 2] /\ u[3] = s[i + 3] /\ u[4] = s[i + 4]
    <3>1. i + 1 \in 1 .. Len(s) + 1 /\ i + 4 \in (i + 1) - 1 .. Len(s) /\ (i + 4) - (i + 1) + 1 = 4
      BY <1>1, <1>4
    <3>2. u \in Seq(T) /\ Len(u) = (i + 4) - (i + 1) + 1
          /\ \A j \in 1 .. (i + 4) - (i + 1) + 1 : u[j] = s[(i + 1) + j - 1]
      <4> HIDE <1>4
      <4> QED BY <3>1, Piece
    <3>3. /\ (i + 1) + 1 - 1 = i + 1 /\ (i + 1) + 2 - 1 = i + 2 /\ (i + 1) + 3 - 1 = i + 3
          /\ (i + 1) + 4 - 1 = i + 4
      BY <1>4
    <3>4. Len(u) = 4 /\ \A j \in 1 .. 4 : u[j] = s[(i + 1) + j - 1]
      BY <3>1, <3>2
    <3>5. 1 \in 1 .. 4 /\ 2 \in 1 .. 4 /\ 3 \in 1 .. 4 /\ 4 \in 1 .. 4
      OBVIOUS
    <3> HIDE DEF u
    <3>6. u[1] = s[i + 1] /\ u[2] = s[i + 2]
      BY <3>3, <3>4, <3>5
    <3>7. u[3] = s[i + 3] /\ u[4] = s[i + 4]
      BY <3>3, <3>4, <3>5
    <3> QED BY <3>2, <3>4, <3>6, <3>7
  <2>2. Len(end) = 4 /\ end[1] = CR /\ end[2] = LF /\ end[3] = CR /\ end[4] = LF /\ end \in Seq({CR, LF})
    OBVIOUS
  <2> HIDE DEF u, end
  <2>3. u = end <=> \A j \in 1 .. 4 : u[j] = end[j]
    <3>1. (\A j \in 1 .. 4 : u[j] = end[j]) => u = end
      <4> SUFFICES ASSUME \A j \in 1 .. 4 : u[j] = end[j] PROVE u = end
        OBVIOUS
      <4>1. u \in Seq(T) /\ end \in Seq({CR, LF}) /\ Len(u) = 4 /\ Len(end) = 4
        BY <2>1, <2>2
      <4> QED BY <4>1, Alike, SMTT(30)
    <3> QED BY <3>1
  <2>4. 1 .. 4 = {1, 2, 3, 4}
    OBVIOUS
  <2>5. u = end <=> s[i + 1] = CR /\ s[i + 2] = LF /\ s[i + 3] = CR /\ s[i + 4] = LF
    BY <2>1, <2>2, <2>3, <2>4
  <2> QED BY <2>5 DEF u, end
<1> QED BY <1>2, <1>3, <1>4 DEF HeadEnd

\* The head ends of what was read are those of the stream that lie in it.
LEMMA HeadEndsOfPiece ==
  ASSUME NEW T, NEW s \in Seq(T), NEW n \in 0 .. Len(s)
  PROVE  HeadEnds(SubSeq(s, 1, n)) = {i \in HeadEnds(s) : i + 4 <= n}
<1>1. /\ SubSeq(s, 1, n) \in Seq(T) /\ Len(SubSeq(s, 1, n)) = n
      /\ \A i \in 1 .. n : SubSeq(s, 1, n)[i] = s[i]
  <2>1. 1 \in 1 .. Len(s) + 1 /\ n \in 1 - 1 .. Len(s) /\ n - 1 + 1 = n /\ \A i \in 1 .. n : 1 + i - 1 = i
    OBVIOUS
  <2> QED BY <2>1, Piece
<1> DEFINE u == SubSeq(s, 1, n)
<1>2. u \in Seq(T) /\ Len(u) = n /\ Len(s) \in Nat /\ n \in Nat /\ n <= Len(s) /\ \A i \in 1 .. n : u[i] = s[i]
  BY <1>1
<1> HIDE DEF u
<1>3. ASSUME NEW i PROVE HeadEnd(u, i) <=> HeadEnd(s, i) /\ i + 4 <= n
  <2> SUFFICES ASSUME i \in Nat PROVE HeadEnd(u, i) <=> HeadEnd(s, i) /\ i + 4 <= n
    BY DEF HeadEnd
  <2>1. CASE i + 4 <= n
    <3>1. i + 1 \in 1 .. n /\ i + 2 \in 1 .. n /\ i + 3 \in 1 .. n /\ i + 4 \in 1 .. n
      BY <1>2, <2>1
    <3>2. u[i + 1] = s[i + 1] /\ u[i + 2] = s[i + 2] /\ u[i + 3] = s[i + 3] /\ u[i + 4] = s[i + 4]
      BY <1>2, <3>1
    <3>3. i + 4 <= Len(s) /\ i + 4 <= Len(u)
      BY <1>2, <2>1
    <3> QED BY <2>1, <3>2, <3>3 DEF HeadEnd
  <2>2. CASE ~(i + 4 <= n)
    BY <1>2, <2>2 DEF HeadEnd
  <2> QED BY <2>1, <2>2
<1>4. ASSUME NEW i PROVE i \in HeadEnds(u) <=> i \in {j \in HeadEnds(s) : j + 4 <= n}
  BY <1>2, <1>3, HeadEndsAt
<1> QED BY <1>4 DEF u

LEMMA HeadEndsAreNat ==
  ASSUME NEW T, NEW s \in Seq(T)
  PROVE  HeadEnds(s) \in SUBSET Nat /\ \A i \in HeadEnds(s) : i + 4 <= Len(s)
<1>1. \A i \in HeadEnds(s) : HeadEnd(s, i)
  BY HeadEndsAt
<1> QED BY <1>1 DEF HeadEnd

\* The reader of an answer looks at the last octets only.
LEMMA EndsWithHeadEnd ==
  ASSUME NEW T, NEW s \in Seq(T)
  PROVE  IsSuffix(<<CR, LF, CR, LF>>, s) <=> Len(s) - 4 \in HeadEnds(s)
<1> DEFINE end == <<CR, LF, CR, LF>>
           r == Reverse(s)
           q == Reverse(end)
<1>1. /\ Len(s) \in Nat /\ r = [i \in 1 .. Len(s) |-> s[(Len(s) - i) + 1]] /\ Len(r) = Len(s)
      /\ \A i \in 1 .. Len(s) : r[i] = s[(Len(s) - i) + 1]
  BY DEF Reverse
<1>2. Len(q) = 4 /\ q[1] = LF /\ q[2] = CR /\ q[3] = LF /\ q[4] = CR /\ Len(end) = 4
  BY DEF Reverse
<1>3. IsSuffix(end, s) <=> 4 <= Len(s) /\ SubSeq(q, 1, 4) = SubSeq(r, 1, 4)
  BY <1>1, <1>2 DEF IsSuffix, IsPrefix
<1>4. q \in Seq({CR, LF} \cup T) /\ r \in Seq({CR, LF} \cup T)
  <2> DEFINE Both == {CR, LF} \cup T
  <2>1. r \in [1 .. Len(s) -> Both]
    BY <1>1
  <2>2. q \in [1 .. Len(end) -> Both] /\ Len(end) \in Nat
    BY <1>2 DEF Reverse
  <2> HIDE DEF r, q, end, Both
  <2>3. r \in Seq(Both)
    BY <1>1, <2>1, SeqDef
  <2>4. q \in Seq(Both)
    BY <2>2, SeqDef
  <2> QED BY <2>3, <2>4 DEF Both
<1> HIDE DEF r, q
<1>5. ASSUME 4 <= Len(s)
      PROVE  SubSeq(q, 1, 4) = SubSeq(r, 1, 4) <=> \A j \in 1 .. 4 : q[j] = r[j]
  <2> DEFINE u == SubSeq(q, 1, 4)
             v == SubSeq(r, 1, 4)
  <2>1. 1 \in 1 .. Len(r) + 1 /\ 4 \in 1 - 1 .. Len(r) /\ 1 \in 1 .. Len(q) + 1 /\ 4 \in 1 - 1 .. Len(q)
        /\ 4 - 1 + 1 = 4 /\ \A j \in 1 .. 4 : 1 + j - 1 = j
    BY <1>1, <1>2, <1>5
  <2>2. /\ u \in Seq({CR, LF} \cup T) /\ Len(u) = 4 - 1 + 1 /\ \A j \in 1 .. 4 - 1 + 1 : u[j] = q[1 + j - 1]
        /\ v \in Seq({CR, LF} \cup T) /\ Len(v) = 4 - 1 + 1 /\ \A j \in 1 .. 4 - 1 + 1 : v[j] = r[1 + j - 1]
    BY <1>4, <2>1, Piece
  <2> HIDE DEF u, v
  <2>3. Len(u) = 4 /\ Len(v) = 4 /\ \A j \in 1 .. 4 : u[j] = q[j] /\ v[j] = r[j]
    BY <2>1, <2>2
  <2>4. u = v <=> \A j \in 1 .. 4 : q[j] = r[j]
    <3>1. ASSUME \A j \in 1 .. 4 : q[j] = r[j] PROVE u = v
      <4>1. \A j \in 1 .. 4 : u[j] = v[j]
        BY <2>3, <3>1
      <4>2. u \in Seq({CR, LF} \cup T) /\ v \in Seq({CR, LF} \cup T) /\ Len(u) = 4 /\ Len(v) = 4
        BY <2>2, <2>3
      <4> QED BY <4>1, <4>2, Alike
    <3>2. ASSUME u = v, NEW j \in 1 .. 4 PROVE q[j] = r[j]
      BY <2>3, <3>2
    <3> QED BY <3>1, <3>2
  <2> QED BY <2>4 DEF u, v
<1>6. 1 .. 4 = {1, 2, 3, 4}
  OBVIOUS
<1>7. ASSUME 4 <= Len(s)
      PROVE  (\A j \in 1 .. 4 : q[j] = r[j]) <=> HeadEnd(s, Len(s) - 4)
  <2>1. /\ r[1] = s[Len(s)] /\ r[2] = s[Len(s) - 1] /\ r[3] = s[Len(s) - 2] /\ r[4] = s[Len(s) - 3]
    <3>1. /\ (Len(s) - 1) + 1 = Len(s) /\ (Len(s) - 2) + 1 = Len(s) - 1
          /\ (Len(s) - 3) + 1 = Len(s) - 2 /\ (Len(s) - 4) + 1 = Len(s) - 3
          /\ 1 \in 1 .. Len(s) /\ 2 \in 1 .. Len(s) /\ 3 \in 1 .. Len(s) /\ 4 \in 1 .. Len(s)
      BY <1>1, <1>7
    <3> QED BY <1>1, <3>1
  <2>2. /\ (Len(s) - 4) + 1 = Len(s) - 3 /\ (Len(s) - 4) + 2 = Len(s) - 2
        /\ (Len(s) - 4) + 3 = Len(s) - 1 /\ (Len(s) - 4) + 4 = Len(s)
        /\ Len(s) - 4 \in Nat
    BY <1>1, <1>7
  <2>3. HeadEnd(s, Len(s) - 4) <=>
          s[Len(s) - 3] = CR /\ s[Len(s) - 2] = LF /\ s[Len(s) - 1] = CR /\ s[Len(s)] = LF
    BY <1>1, <2>2 DEF HeadEnd
  <2> QED BY <1>2, <1>6, <2>1, <2>3
<1>8. HeadEnd(s, Len(s) - 4) => 4 <= Len(s)
  BY <1>1 DEF HeadEnd
<1>9. HeadEnd(s, Len(s) - 4) <=> Len(s) - 4 \in HeadEnds(s)
  BY HeadEndsAt
<1> QED BY <1>3, <1>5, <1>7, <1>8, <1>9

-----------------------------------------------------------------------------
(* The inductive invariant: where each reader is.                          *)

SocksSteps == {"greeting", "methods", "command", "length", "address", "port"}
UpstreamSteps == {"dial", "resolve", "library", "send", "response"}
Left(rest) == result[1].leftover = rest

\* What comes of the head of a stream: the head is the one a reader finds that has
\* the whole stream before it, and what was read behind it is kept.
HeadRead ==
  \E end \in FirstEnd(stream) :
    LET asked == Request(SubSeq(stream, 1, end))
    IN  /\ end + 4 <= taken /\ Accepted(asked)
        /\ result[1] = Route(ProxyRequest(asked, SubSeq(stream, end + 5, taken)))

\* It is refused for what it says, or breaks off, or has no end near the limit.
HeadRefused ==
  /\ result[1] = Failure
  /\ \/ \E end \in FirstEnd(stream) : ~Accepted(Request(SubSeq(stream, 1, end)))
     \/ closed /\ \A end \in HeadEnds(stream) : end + 4 > arrived
     \/ \A end \in HeadEnds(stream) : end + 4 > MaxHead - Chunk

HttpInv ==
  input.reader = "http" =>
    /\ pc \in {"head", "done"}
    /\ pc = "head" => taken <= MaxHead /\ \A end \in HeadEnds(stream) : end + 4 > taken
    /\ taken <= MaxHead + Chunk
    /\ pc = "done" => HeadRead \/ HeadRefused

\* The steps of a SOCKS5 request, and what each has taken before it reads.
TypeAt == stream[2] + 6

SocksInv ==
  input.reader = "socks5" =>
    /\ pc \in SocksSteps \cup {"done"}
    /\ pc = "greeting" => taken = 0 /\ want = 2
    /\ pc = "methods"  => taken = 2 /\ want = stream[2]
    /\ pc \in SocksSteps \ {"greeting"} => Len(stream) >= 2
    /\ pc = "command"  => taken = stream[2] + 2 /\ want = 4
    /\ pc = "length"   => taken = TypeAt /\ want = 1 /\ stream[TypeAt] = DomainType
    /\ pc = "address"  => \/ taken = TypeAt /\ want = 4 /\ stream[TypeAt] = Ipv4Type
                          \/ taken = TypeAt /\ want = 16 /\ stream[TypeAt] = Ipv6Type
                          \/ /\ TypeAt < Len(stream) /\ stream[TypeAt] = DomainType
                             /\ taken = TypeAt + 1 /\ want = stream[TypeAt + 1]
    /\ pc = "port"     => /\ want = 2
                          /\ \/ taken = TypeAt + 4 /\ stream[TypeAt] = Ipv4Type
                             \/ taken = TypeAt + 16 /\ stream[TypeAt] = Ipv6Type
                             \/ /\ TypeAt < Len(stream) /\ stream[TypeAt] = DomainType
                                /\ taken = TypeAt + 1 + stream[TypeAt + 1]
    /\ pc = "done" /\ Accepted(result[1]) =>
         taken \in SocksEnd(stream) /\ (result[1].kind # "unroutable" => Left(<<>>))

UpstreamInv ==
  input.reader = "upstream" =>
    /\ pc \in UpstreamSteps \cup {"done"}
    /\ pc \in UpstreamSteps \ {"response"} => taken = 0
    /\ pc \in {"send", "response"} => input.proxy = "http"
    /\ pc \in {"resolve", "library"} => input.proxy # "http"
    /\ taken <= MaxResponse
    /\ pc = "response" => \A end \in HeadEnds(stream) : end + 4 > taken
    /\ pc = "done" /\ Accepted(result[1]) => taken \in EndOf(input) /\ Left(<<>>)

DatagramInv ==
  input.reader = "datagram" =>
    /\ pc \in {"datagram", "answer", "done"} /\ arrived = Len(stream)
    /\ pc \in {"answer", "done"} /\ Accepted(result[1]) =>
         \E end \in DatagramEnd(stream) : Left(SubSeq(stream, end + 1, Len(stream)))

ReaderInv == HttpInv /\ SocksInv /\ UpstreamInv /\ DatagramInv

LEMMA Bounds == Chunk \in Nat /\ Chunk > 0 /\ MaxHead \in Nat /\ MaxResponse \in Nat
  BY LimitsAssumption

\* The stream of a state.
LEMMA TheStream ==
  ASSUME TypeOK
  PROVE  /\ input \in Inputs /\ stream = input.stream /\ stream \in Seq(Made(input)) /\ Len(stream) \in Nat
         /\ arrived \in Nat /\ taken \in Nat /\ taken <= arrived /\ arrived <= Len(stream)
         /\ want \in Nat
         /\ input.reader \in {"socks5", "datagram"} => stream \in Seq(0 .. 255)
<1>1. input \in Inputs /\ stream = input.stream
  BY DEF TypeOK, stream
<1>2. stream \in Seq(Made(input)) /\ Len(stream) \in Nat
      /\ (input.reader \in {"socks5", "datagram"} => stream \in Seq(0 .. 255))
  BY <1>1, Streams
<1> QED BY <1>1, <1>2 DEF TypeOK

\* The route changes neither what is left nor, but for a host that cannot be told,
\* the kind.
LEMMA Routed ==
  /\ Route(Failure) = Failure /\ ~Accepted(Failure)
  /\ \A kind \in {"udp", "tunnel"} : Route([kind |-> kind, leftover |-> <<>>]) = [kind |-> kind, leftover |-> <<>>]
<1> QED BY DEF Route, Failure, Accepted

LEMMA RoutedRequest ==
  ASSUME NEW asked, NEW rest, asked.kind \in {"connect", "http"}
  PROVE  LET outcome == Route(ProxyRequest(asked, rest))
         IN  /\ Accepted(outcome)
             /\ outcome.kind = "unroutable" \/ (outcome.leftover = rest /\ outcome.kind = asked.kind)
  BY DEF Route, ProxyRequest, Accepted

\* A head that is understood is a request.
LEMMA Understanding ==
  ASSUME NEW head, Accepted(Request(head))
  PROVE  /\ head # <<>> /\ Request(head).kind \in {"connect", "http"}
         /\ Request(head).kind = "http" => \E target : Request(head) \in PlainRequests(target, Headers(Lines(head)))
<1> DEFINE lines == Lines(head)
           requests == IF IsRequestLine(lines[1]) THEN Asked(lines) ELSE {}
<1>1. head # <<>> /\ requests # {} /\ Request(head) = CHOOSE request_ \in requests : TRUE
  BY DEF Request, Accepted, Failure
<1>2. Request(head) \in Asked(lines)
  BY <1>1
<1> DEFINE fields == Only(lines[1], ToSet(lines[1]) \ {CR})[1].fields
<1>3. Request(head) \in ConnectRequests(fields[2]) \/ Request(head) \in PlainRequests(fields[2], Headers(lines))
  BY <1>2 DEF Asked
<1> HIDE DEF fields
<1>4. CASE Request(head) \in ConnectRequests(fields[2])
  <2>1. Request(head).kind = "connect"
    <3> HIDE DEF lines
    <3> QED BY <1>4 DEF ConnectRequests
  <2> QED BY <1>1, <2>1
<1>5. CASE Request(head) \in PlainRequests(fields[2], Headers(lines))
  <2>1. Request(head).kind = "http"
    <3> HIDE DEF lines
    <3> QED BY <1>5 DEF PlainRequests
  <2> QED BY <1>1, <1>5, <2>1
<1> QED BY <1>3, <1>4, <1>5

-----------------------------------------------------------------------------
(* read_proxy_request.                                                     *)

LEMMA HttpInit == Init => HttpInv
<1> SUFFICES ASSUME Init, input.reader = "http" PROVE HttpInv
  BY DEF HttpInv
<1>1. input \in Inputs /\ stream \in Seq(Made(input)) /\ stream = input.stream
  BY Streams DEF Init, stream
<1>2. taken = 0 /\ pc = "head"
  BY DEF Init, Start
<1>3. \A end \in HeadEnds(stream) : end \in Nat
  BY <1>1, HeadEndsAreNat
<1> QED BY <1>2, <1>3, Bounds DEF HttpInv

\* One read.
LEMMA ReadsHead ==
  ASSUME TypeOK, HttpInv, input.reader = "http", ReadHead
  PROVE  /\ taken' \in taken .. arrived /\ HttpInv'
         /\ (pc' = "done" /\ Len(result') = 1) \/ (pc' = pc /\ result' = result)
<1> DEFINE n == Min({arrived - taken, Chunk})
           s == stream
<1>1. /\ s \in Seq(Made(input)) /\ Len(s) \in Nat /\ arrived \in Nat /\ taken \in Nat
      /\ taken < arrived /\ arrived <= Len(s) /\ pc = "head"
      /\ taken <= MaxHead /\ \A end \in HeadEnds(s) : end + 4 > taken
  BY TheStream DEF ReadHead, HttpInv
<1>2. n \in {arrived - taken, Chunk} /\ n <= arrived - taken /\ n <= Chunk
  <2> DEFINE both == {arrived - taken, Chunk}
  <2>1. both \in SUBSET Nat /\ both # {}
    BY <1>1, Bounds
  <2>2. Min(both) \in both /\ \A y \in both : Min(both) <= y
    BY <2>1, Least
  <2> QED BY <2>2
<1>3. /\ UNCHANGED peer /\ taken' = taken + n
      /\ TooLarge(n) => Refuse
      /\ ~TooLarge(n) /\ HeadIn(n) = {} => UNCHANGED <<pc, sent, result>>
      /\ ~TooLarge(n) /\ HeadIn(n) # {} =>
           LET end     == Min(HeadIn(n))
               outcome == Parsed[SubSeq(s, 1, end)]
           IN  IF Accepted(outcome) THEN Finish(ProxyRequest(outcome, Leftover(end, n))) ELSE Refuse
  BY DEF ReadHead
<1> HIDE DEF n
<1>4. n \in Nat /\ taken' \in taken .. arrived /\ taken' \in 0 .. Len(s)
  BY <1>1, <1>2, <1>3, Bounds
<1>5. UNCHANGED <<input, arrived, closed>> /\ stream' = stream
  BY <1>3 DEF peer, stream
<1>6. HeadIn(n) = {i \in HeadEnds(s) : i + 4 <= taken'}
  BY <1>1, <1>3, <1>4, HeadEndsOfPiece DEF HeadIn
<1>7. HeadEnds(s) \in SUBSET Nat /\ \A i \in HeadEnds(s) : i + 4 <= Len(s)
  BY <1>1, HeadEndsAreNat
<1>8. taken' <= MaxHead + Chunk /\ Len(<<0>>) = 1
  BY <1>1, <1>2, <1>3, <1>4, Bounds
<1>9. CASE TooLarge(n)
  <2>1. pc' = "done" /\ result' = <<Failure>>
    BY <1>3, <1>9, Routed DEF Refuse, Finish
  <2>2. \A end \in HeadEnds(s) : end + 4 > MaxHead - Chunk
    BY <1>1, <1>2, <1>4, <1>7, <1>9, Bounds DEF TooLarge
  <2>3. (HeadRefused)'
    BY <1>5, <2>1, <2>2 DEF HeadRefused
  <2> QED BY <1>4, <1>8, <2>1, <2>3 DEF HttpInv
<1>10. CASE ~TooLarge(n) /\ HeadIn(n) = {}
  <2>1. pc' = pc /\ result' = result
    BY <1>3, <1>10
  <2>2. taken' <= MaxHead
    BY <1>3, <1>4, <1>10, Bounds DEF TooLarge
  <2>3. \A end \in HeadEnds(s) : end + 4 > taken'
    BY <1>4, <1>6, <1>7, <1>10
  <2> QED BY <1>1, <1>4, <1>5, <1>8, <2>1, <2>2, <2>3 DEF HttpInv
<1>11. CASE ~TooLarge(n) /\ HeadIn(n) # {}
  <2> DEFINE end == Min(HeadIn(n))
             head == SubSeq(s, 1, end)
  <2>1. end \in HeadIn(n) /\ \A y \in HeadIn(n) : end <= y
    BY <1>6, <1>7, <1>11, Least
  <2>2. end \in FirstEnd(s) /\ end + 4 <= taken'
    <3>1. end \in HeadEnds(s) /\ end + 4 <= taken' /\ end \in Nat
      BY <1>6, <1>7, <2>1
    <3>2. ASSUME NEW other \in HeadEnds(s) PROVE end <= other
      <4>1. CASE other + 4 <= taken'
        BY <1>6, <2>1, <4>1
      <4>2. CASE ~(other + 4 <= taken')
        <5>1. other \in Nat /\ taken' \in Nat
          BY <1>4, <1>7
        <5> HIDE DEF end
        <5> QED BY <3>1, <4>2, <5>1
      <4> QED BY <4>1, <4>2
    <3> QED BY <3>1, <3>2 DEF FirstEnd
  <2>3. Parsed[head] = Request(head)
    <3>1. end \in HeadEnds(input.stream) /\ input \in {i \in Inputs : i.reader = "http"}
      BY <1>1, <1>6, <2>1, TheStream
    <3>2. head \in UNION {{SubSeq(in.stream, 1, e) : e \in HeadEnds(in.stream)} :
                            in \in {i \in Inputs : i.reader = "http"}}
      <4> DEFINE Heads(in) == {SubSeq(in.stream, 1, e) : e \in HeadEnds(in.stream)}
      <4>1. head \in Heads(input)
        BY <3>1 DEF stream
      <4> HIDE DEF Heads, head
      <4>2. head \in UNION {Heads(in) : in \in {i \in Inputs : i.reader = "http"}}
        BY <3>1, <4>1
      <4> QED BY <4>2 DEF Heads
    <3> QED BY <3>2 DEF Parsed
  <2>4. CASE Accepted(Request(head))
    <3>1. pc' = "done" /\ result' = <<Route(ProxyRequest(Request(head), SubSeq(s, end + 5, taken')))>>
      BY <1>3, <1>11, <2>3, <2>4 DEF Finish, Leftover
    <3>2. (HeadRead)'
      BY <1>5, <2>2, <2>4, <3>1 DEF HeadRead
    <3> QED BY <1>4, <1>8, <3>1, <3>2 DEF HttpInv
  <2>5. CASE ~Accepted(Request(head))
    <3>1. pc' = "done" /\ result' = <<Failure>>
      BY <1>3, <1>11, <2>3, <2>5, Routed DEF Refuse, Finish
    <3>2. (HeadRefused)'
      BY <1>5, <2>2, <2>5, <3>1 DEF HeadRefused
    <3> QED BY <1>4, <1>8, <3>1, <3>2 DEF HttpInv
  <2> QED BY <2>4, <2>5
<1> QED BY <1>9, <1>10, <1>11

LEMMA HttpPreserved == TypeOK /\ HttpInv /\ [Next]_vars => HttpInv'
<1> SUFFICES ASSUME TypeOK, HttpInv, [Next]_vars, input'.reader = "http" PROVE HttpInv'
  BY DEF HttpInv
<1>1. input' = input /\ stream' = stream /\ input.reader = "http"
  BY DEF Next, vars, Arrive, Close, Step, Overdue, ReadHead, HeadBreaksOff, ReadGreeting, ReadMethods,
         ReadCommand, ReadLength, ReadAddress, ReadPort, RequestBreaksOff, Dialed, Resolved, SendConnect,
         LibraryConnects, ReadResponse, ResponseTooLarge, ResponseBreaksOff, UpstreamFails, ReadDatagram,
         SendDatagram, peer, Fails, stream
<1>2. pc \in {"head", "done"}
  BY <1>1 DEF HttpInv
<1>3. UNCHANGED vars \/ Arrive \/ Close \/ ReadHead \/ HeadBreaksOff
  BY <1>2 DEF Next, Step, Overdue, ReadGreeting, ReadMethods, Got,
         ReadCommand, ReadLength, ReadAddress, ReadPort, RequestBreaksOff, Dialed, Resolved, SendConnect,
         LibraryConnects, ReadResponse, ResponseTooLarge, ResponseBreaksOff, UpstreamFails, ReadDatagram,
         SendDatagram, AtUpstream
<1>4. CASE UNCHANGED vars
  BY <1>4 DEF vars, HttpInv, HeadRead, HeadRefused, stream
<1>5. CASE Arrive
  <2>1. ~closed /\ UNCHANGED <<input, closed, taken, pc, result>>
    BY <1>5 DEF Arrive
  <2>2. HeadRead => (HeadRead)'
    BY <2>1 DEF HeadRead, stream
  <2>3. HeadRefused => (HeadRefused)'
    BY <2>1 DEF HeadRefused, stream
  <2> QED BY <1>1, <2>1, <2>2, <2>3 DEF HttpInv
<1>6. CASE Close
  <2>1. pc # "done" /\ UNCHANGED <<input, taken, pc>>
    BY <1>6 DEF Close
  <2> QED BY <1>1, <2>1 DEF HttpInv
<1>7. CASE ReadHead
  BY <1>1, <1>7, ReadsHead
<1>8. CASE HeadBreaksOff
  <2>1. /\ pc = "head" /\ pc' = "done" /\ result' = <<Failure>> /\ closed /\ taken = arrived
        /\ UNCHANGED <<input, arrived, closed, taken>>
    BY <1>8, Routed DEF HeadBreaksOff, Refuse, Finish, peer
  <2>2. taken <= MaxHead + Chunk
    BY <1>1, <2>1, TheStream, Bounds DEF HttpInv
  <2>3. (HeadRefused)'
    BY <1>1, <2>1 DEF HttpInv, HeadRefused
  <2> QED BY <2>1, <2>2, <2>3 DEF HttpInv
<1> QED BY <1>3, <1>4, <1>5, <1>6, <1>7, <1>8

-----------------------------------------------------------------------------
(* read_socks5_request.                                                    *)

Reads ==
  ReadGreeting \/ ReadMethods \/ ReadCommand \/ ReadLength \/ ReadAddress \/ ReadPort

LEMMA OctetsAreNat == \A n \in 0 .. 255 : n \in Nat
  OBVIOUS

\* What a read returns.
LEMMA Returned ==
  ASSUME TypeOK, input.reader = "socks5", want <= arrived - taken
  PROVE  /\ Octets \in Seq(0 .. 255) /\ Len(Octets) = want
         /\ \A i \in 1 .. want : Octets[i] = stream[taken + i] /\ Octets[i] \in 0 .. 255
         /\ taken + want <= Len(stream)
<1>1. /\ stream \in Seq(0 .. 255) /\ taken \in Nat /\ want \in Nat /\ arrived \in Nat
      /\ arrived <= Len(stream) /\ Len(stream) \in Nat
  BY TheStream
<1>2. taken + 1 \in 1 .. Len(stream) + 1 /\ taken + want \in (taken + 1) - 1 .. Len(stream)
      /\ (taken + want) - (taken + 1) + 1 = want
  BY <1>1
<1>3. /\ Octets \in Seq(0 .. 255) /\ Len(Octets) = (taken + want) - (taken + 1) + 1
      /\ \A i \in 1 .. (taken + want) - (taken + 1) + 1 : Octets[i] = stream[(taken + 1) + i - 1]
  <2> DEFINE s == stream
             m == taken + 1
             n == taken + want
  <2>1. s \in Seq(0 .. 255) /\ m \in 1 .. Len(s) + 1 /\ n \in m - 1 .. Len(s) /\ Octets = SubSeq(s, m, n)
    BY <1>1, <1>2 DEF Octets
  <2> HIDE DEF s, m, n
  <2>2. /\ SubSeq(s, m, n) \in Seq(0 .. 255) /\ Len(SubSeq(s, m, n)) = n - m + 1
        /\ \A i \in 1 .. n - m + 1 : SubSeq(s, m, n)[i] = s[m + i - 1]
    BY <2>1, Piece, ZenonT(30)
  <2> QED BY <2>1, <2>2 DEF s, m, n
<1>4. \A i \in 1 .. want : Octets[i] = stream[taken + i]
  <2>1. \A i \in 1 .. want : (taken + 1) + i - 1 = taken + i
    BY <1>1
  <2> QED BY <1>2, <1>3, <2>1
<1>5. \A i \in 1 .. want : Octets[i] \in 0 .. 255
  BY <1>2, <1>3, ElementOfSeq
<1> QED BY <1>2, <1>3, <1>4, <1>5

LEMMA SocksInit == Init => SocksInv
<1> SUFFICES ASSUME Init, input.reader = "socks5" PROVE SocksInv
  BY DEF SocksInv
<1>1. taken = 0 /\ pc = "greeting" /\ want = 2
  BY DEF Init, Start
<1> QED BY <1>1 DEF SocksInv, SocksSteps

\* A handshake that is refused says nothing of what it took.
LEMMA SocksRefused ==
  ASSUME SocksInv, pc' = "done", result' = <<Failure>>, UNCHANGED input
  PROVE  SocksInv'
<1>1. ~Accepted(result'[1])
  BY Routed
<1> QED BY <1>1 DEF SocksInv, SocksSteps

LEMMA SocksReads ==
  ASSUME TypeOK, SocksInv, input.reader = "socks5", Reads
  PROVE  /\ SocksInv' /\ taken' \in taken .. arrived /\ want' \in 0 .. 255
         /\ (pc' = "done" /\ Len(result') = 1) \/ (pc' \in SocksSteps /\ pc \in SocksSteps /\ result' = result)
<1> DEFINE s == stream
<1>1. /\ s \in Seq(0 .. 255) /\ taken \in Nat /\ want \in Nat /\ arrived \in Nat
      /\ arrived <= Len(s) /\ Len(s) \in Nat /\ want \in 0 .. 255
  BY TheStream DEF TypeOK
<1>2. /\ want <= arrived - taken /\ taken' = taken + want /\ UNCHANGED <<input, arrived, closed>>
      /\ pc \in SocksSteps
  BY <1>1 DEF Reads, ReadGreeting, ReadMethods, ReadCommand, ReadLength, ReadAddress, ReadPort, Got,
              peer, SocksSteps
<1>3. /\ Octets \in Seq(0 .. 255) /\ Len(Octets) = want
      /\ \A i \in 1 .. want : Octets[i] = s[taken + i] /\ Octets[i] \in 0 .. 255
      /\ taken + want <= Len(s)
  BY <1>1, <1>2, Returned
<1>4. stream' = s /\ taken' \in taken .. arrived /\ Len(<<0>>) = 1
  BY <1>1, <1>2 DEF stream
<1>5. \A i \in 1 .. Len(s) : s[i] \in 0 .. 255
  BY <1>1, ElementOfSeq
<1> DEFINE type == s[2] + 6
<1>6. TypeAt = type /\ TypeAt' = type
  BY <1>4 DEF TypeAt
<1> HIDE DEF s
\* The read that refuses.
<1>7. ASSUME pc' = "done", result' = <<Failure>>, want' = want
      PROVE  SocksInv' /\ want' \in 0 .. 255 /\ pc' = "done" /\ Len(result') = 1
  BY <1>1, <1>2, <1>7, SocksRefused
\* The read that goes on: at a step, with so many octets to read.
<1> DEFINE Placed(step, n) ==
             /\ step = "methods" => taken' = 2 /\ n = s[2]
             /\ step = "command" => taken' = s[2] + 2 /\ n = 4
             /\ step = "length"  => taken' = type /\ n = 1 /\ s[type] = DomainType
             /\ step = "address" => \/ taken' = type /\ n = 4 /\ s[type] = Ipv4Type
                                    \/ taken' = type /\ n = 16 /\ s[type] = Ipv6Type
                                    \/ /\ type < Len(s) /\ s[type] = DomainType
                                       /\ taken' = type + 1 /\ n = s[type + 1]
             /\ step = "port"    => /\ n = 2
                                    /\ \/ taken' = type + 4 /\ s[type] = Ipv4Type
                                       \/ taken' = type + 16 /\ s[type] = Ipv6Type
                                       \/ /\ type < Len(s) /\ s[type] = DomainType
                                          /\ taken' = type + 1 + s[type + 1]
<1>8. ASSUME NEW step \in SocksSteps \ {"greeting"}, NEW n \in 0 .. 255, Await(step, n), Len(s) >= 2,
             Placed(step, n)
      PROVE  SocksInv' /\ want' \in 0 .. 255 /\ pc' \in SocksSteps /\ result' = result
  <2>1. pc' = step /\ want' = n /\ result' = result
    BY <1>8 DEF Await
  <2> HIDE DEF type
  <2> QED BY <1>4, <1>6, <1>8, <2>1 DEF SocksInv, SocksSteps
<1>9. CASE ReadGreeting
  <2>1. pc = "greeting" /\ taken = 0 /\ want = 2
    BY <1>9 DEF ReadGreeting, Got, SocksInv
  <2>2. Octets[1] = s[1] /\ Octets[2] = s[2] /\ s[2] \in 0 .. 255 /\ Len(s) >= 2 /\ taken' = 2
    <3>1. 1 \in 1 .. want /\ 2 \in 1 .. want /\ 2 \in 1 .. Len(s)
      BY <1>1, <1>3, <2>1
    <3> QED BY <1>1, <1>2, <1>3, <1>5, <2>1, <3>1
  <2>3. CASE Octets[1] = 5
    <3>1. Await("methods", s[2])
      BY <1>9, <2>2, <2>3 DEF ReadGreeting
    <3>2. Placed("methods", s[2])
      BY <2>2
    <3> HIDE DEF Placed
    <3>3. "methods" \in SocksSteps \ {"greeting"}
      BY DEF SocksSteps
    <3>4. SocksInv' /\ want' \in 0 .. 255 /\ pc' \in SocksSteps /\ result' = result
      BY <1>8, <2>2, <3>1, <3>2, <3>3
    <3> QED BY <1>2, <1>4, <3>4
  <2>4. CASE Octets[1] # 5
    BY <1>4, <1>7, <1>9, <2>4, Routed DEF ReadGreeting, Refused, Refuse, Finish
  <2> QED BY <2>3, <2>4
<1>10. CASE ReadMethods
  <2>1. pc = "methods" /\ taken = 2 /\ want = s[2] /\ Len(s) >= 2 /\ taken' = s[2] + 2
    <3>1. pc = "methods" /\ taken = 2 /\ want = s[2] /\ Len(s) >= 2
      BY <1>10 DEF ReadMethods, Got, SocksInv, SocksSteps, s
    <3> QED BY <1>1, <1>2, <3>1
  <2>2. CASE 0 \in ToSet(Octets)
    <3>1. Await("command", 4)
      BY <1>10, <2>2 DEF ReadMethods
    <3>2. Placed("command", 4)
      BY <2>1
    <3> HIDE DEF Placed
    <3>3. "command" \in SocksSteps \ {"greeting"} /\ 4 \in 0 .. 255
      BY DEF SocksSteps
    <3>4. SocksInv' /\ want' \in 0 .. 255 /\ pc' \in SocksSteps /\ result' = result
      BY <1>8, <2>1, <3>1, <3>2, <3>3
    <3> QED BY <1>2, <1>4, <3>4
  <2>3. CASE 0 \notin ToSet(Octets)
    BY <1>4, <1>7, <1>10, <2>3, Routed DEF ReadMethods, Finish
  <2> QED BY <2>2, <2>3
<1>11. CASE ReadCommand
  <2>1. pc = "command" /\ taken = s[2] + 2 /\ want = 4 /\ Len(s) >= 2
    BY <1>11 DEF ReadCommand, Got, SocksInv, SocksSteps, s
  <2>2. s[2] \in 0 .. 255 /\ taken' = type /\ Octets[4] = s[type]
    <3>1. 2 \in 1 .. Len(s) /\ 4 \in 1 .. want
      BY <1>1, <2>1
    <3>2. s[2] \in 0 .. 255
      BY <1>5, <3>1
    <3>3. taken + 4 = type
      <4>0. s[2] \in Nat
        BY <3>2, OctetsAreNat
      <4> DEFINE m == s[2]
      <4>1. m \in Nat /\ taken = m + 2
        BY <2>1, <4>0
      <4>2. type = m + 6
        OBVIOUS
      <4> HIDE DEF m, type
      <4> QED BY <4>1, <4>2
    <3> QED BY <1>2, <1>3, <2>1, <3>1, <3>2, <3>3
  <2>3. \/ Refuse /\ want' = want
        \/ Await("address", 4) /\ Octets[4] = Ipv4Type
        \/ Await("address", 16) /\ Octets[4] = Ipv6Type
        \/ Await("length", 1) /\ Octets[4] = DomainType
    BY <1>11 DEF ReadCommand
  <2>4. CASE Refuse /\ want' = want
    BY <1>4, <1>7, <2>4, Routed DEF Refuse, Finish
  <2>5. CASE Await("address", 4) /\ Octets[4] = Ipv4Type
    <3>1. Placed("address", 4)
      BY <2>2, <2>5
    <3> HIDE DEF Placed
    <3>3. "address" \in SocksSteps \ {"greeting"} /\ 4 \in 0 .. 255
      BY DEF SocksSteps
    <3>4. SocksInv' /\ want' \in 0 .. 255 /\ pc' \in SocksSteps /\ result' = result
      BY <1>8, <2>1, <2>5, <3>1, <3>3
    <3> QED BY <1>2, <1>4, <3>4
  <2>6. CASE Await("address", 16) /\ Octets[4] = Ipv6Type
    <3>1. Placed("address", 16)
      BY <2>2, <2>6
    <3> HIDE DEF Placed
    <3>3. "address" \in SocksSteps \ {"greeting"} /\ 16 \in 0 .. 255
      BY DEF SocksSteps
    <3>4. SocksInv' /\ want' \in 0 .. 255 /\ pc' \in SocksSteps /\ result' = result
      BY <1>8, <2>1, <2>6, <3>1, <3>3
    <3> QED BY <1>2, <1>4, <3>4
  <2>7. CASE Await("length", 1) /\ Octets[4] = DomainType
    <3>1. Placed("length", 1)
      BY <2>2, <2>7
    <3> HIDE DEF Placed
    <3>3. "length" \in SocksSteps \ {"greeting"} /\ 1 \in 0 .. 255
      BY DEF SocksSteps
    <3>4. SocksInv' /\ want' \in 0 .. 255 /\ pc' \in SocksSteps /\ result' = result
      BY <1>8, <2>1, <2>7, <3>1, <3>3
    <3> QED BY <1>2, <1>4, <3>4
  <2> QED BY <2>3, <2>4, <2>5, <2>6, <2>7
<1>12. CASE ReadLength
  <2>1. pc = "length" /\ taken = type /\ want = 1 /\ s[type] = DomainType /\ Len(s) >= 2
    BY <1>6, <1>12 DEF ReadLength, Got, SocksInv, SocksSteps, s
  <2>2. Octets[1] = s[type + 1] /\ Octets[1] \in 0 .. 255 /\ type < Len(s) /\ taken' = type + 1
    <3>1. 1 \in 1 .. want
      BY <2>1
    <3>2. type \in Nat
      BY <1>1, <2>1
    <3> QED BY <1>1, <1>2, <1>3, <2>1, <3>1, <3>2
  <2>3. Await("address", Octets[1])
    BY <1>12 DEF ReadLength
  <2>4. Placed("address", Octets[1])
    BY <2>1, <2>2
  <2> HIDE DEF Placed
  <2>5. "address" \in SocksSteps \ {"greeting"}
    BY DEF SocksSteps
  <2>6. SocksInv' /\ want' \in 0 .. 255 /\ pc' \in SocksSteps /\ result' = result
    BY <1>8, <2>1, <2>2, <2>3, <2>4, <2>5
  <2> QED BY <1>2, <1>4, <2>6
<1>13. CASE ReadAddress
  <2>1. /\ pc = "address" /\ Len(s) >= 2
        /\ \/ taken = type /\ want = 4 /\ s[type] = Ipv4Type
           \/ taken = type /\ want = 16 /\ s[type] = Ipv6Type
           \/ /\ type < Len(s) /\ s[type] = DomainType
              /\ taken = type + 1 /\ want = s[type + 1]
    BY <1>6, <1>13 DEF ReadAddress, Got, SocksInv, SocksSteps, s
  <2>2. \/ taken' = type + 4 /\ s[type] = Ipv4Type
        \/ taken' = type + 16 /\ s[type] = Ipv6Type
        \/ type < Len(s) /\ s[type] = DomainType /\ taken' = type + 1 + s[type + 1]
    BY <1>2, <2>1
  <2>3. CASE Refused
    BY <1>4, <1>7, <2>3, Routed DEF Refused, Refuse, Finish
  <2>4. CASE Await("port", 2)
    <3>1. Placed("port", 2)
      BY <2>2
    <3> HIDE DEF Placed
    <3>3. "port" \in SocksSteps \ {"greeting"} /\ 2 \in 0 .. 255
      BY DEF SocksSteps
    <3>4. SocksInv' /\ want' \in 0 .. 255 /\ pc' \in SocksSteps /\ result' = result
      BY <1>8, <2>1, <2>4, <3>1, <3>3
    <3> QED BY <1>2, <1>4, <3>4
  <2> QED BY <1>13, <2>3, <2>4 DEF ReadAddress
<1>14. CASE ReadPort
  <2>1. /\ pc = "port" /\ want = 2 /\ Len(s) >= 2
        /\ \/ taken = type + 4 /\ s[type] = Ipv4Type
           \/ taken = type + 16 /\ s[type] = Ipv6Type
           \/ type < Len(s) /\ s[type] = DomainType /\ taken = type + 1 + s[type + 1]
    BY <1>6, <1>14 DEF ReadPort, Got, SocksInv, SocksSteps, s
  <2>2. s[2] \in 0 .. 255 /\ type \in Nat
    <3>1. 2 \in 1 .. Len(s)
      BY <1>1, <2>1
    <3>2. s[2] \in 0 .. 255
      BY <1>5, <3>1
    <3> QED BY <3>2
  <2>3. type < Len(s) => s[type + 1] \in Nat
    <3> SUFFICES ASSUME type < Len(s) PROVE s[type + 1] \in Nat
      OBVIOUS
    <3>1. type + 1 \in 1 .. Len(s)
      BY <1>1, <2>2
    <3>2. s[type + 1] \in 0 .. 255
      BY <1>5, <3>1
    <3> QED BY <3>2, OctetsAreNat
  <2>4. \/ taken' = type + 6 /\ s[type] = Ipv4Type
        \/ taken' = type + 18 /\ s[type] = Ipv6Type
        \/ type < Len(s) /\ s[type] = DomainType /\ taken' = type + s[type + 1] + 3
    <3>0. taken' = taken + 2
      BY <1>2, <2>1
    <3> HIDE DEF type
    <3> DEFINE t == type
               c == s[t + 1]
    <3>1. t \in Nat /\ taken' = taken + 2
      BY <2>2, <3>0
    <3>4. t < Len(s) => c \in Nat
      BY <2>3
    <3>2. \/ taken = t + 4 /\ s[t] = Ipv4Type
          \/ taken = t + 16 /\ s[t] = Ipv6Type
          \/ t < Len(s) /\ s[t] = DomainType /\ taken = t + 1 + c
      BY <2>1
    <3> HIDE DEF t, c
    <3>3. \/ taken' = t + 6 /\ s[t] = Ipv4Type
          \/ taken' = t + 18 /\ s[t] = Ipv6Type
          \/ t < Len(s) /\ s[t] = DomainType /\ taken' = t + c + 3
      BY <1>1, <3>1, <3>2, <3>4
    <3> QED BY <3>3 DEF t, c
  <2>5. taken' \in type + 1 .. Len(s)
    <3>1. taken' \in Nat /\ taken' <= Len(s)
      BY <1>1, <1>2, <1>3
    <3>2. taken' >= type + 1
      <4> HIDE DEF type
      <4> DEFINE t == type
                 c == s[t + 1]
      <4>1. t \in Nat
        BY <2>2
      <4>4. t < Len(s) => c \in Nat
        BY <2>3
      <4>2. taken' = t + 6 \/ taken' = t + 18 \/ (t < Len(s) /\ taken' = t + c + 3)
        BY <2>4
      <4> HIDE DEF t, c
      <4>3. taken' >= t + 1
        BY <1>1, <4>1, <4>2, <4>4
      <4> QED BY <4>3 DEF t
    <3> HIDE DEF type
    <3> QED BY <1>1, <2>2, <3>1, <3>2
  <2>6. taken' \in SocksEnd(s)
    <3>1. ~(Len(s) < 2 \/ Len(s) < s[2] + 6)
      <4>1. type <= Len(s)
        <5> HIDE DEF type
        <5> QED BY <1>1, <2>2, <2>5
      <4> QED BY <1>1, <2>1, <2>2, <4>1
    <3>2. taken' \in AddressEnd(s, type)
      BY <2>4, <2>5 DEF AddressEnd
    <3> QED BY <3>1, <3>2 DEF SocksEnd
  <2>7. /\ pc' = "done" /\ want' = want /\ Len(result') = 1
        /\ result'[1].kind # "unroutable" => result'[1].leftover = <<>>
    <3>1. CASE request.command = 3
      BY <1>14, <3>1, Routed DEF ReadPort, Finish
    <3>2. CASE request.command # 3
      BY <1>14, <3>2 DEF ReadPort, Finish, Route, Accepted
    <3> QED BY <3>1, <3>2
  <2> QED BY <1>1, <1>4, <2>6, <2>7 DEF SocksInv, SocksSteps, Left
<1> QED BY <1>2, <1>4, <1>9, <1>10, <1>11, <1>12, <1>13, <1>14 DEF Reads

LEMMA SocksPreserved == TypeOK /\ SocksInv /\ [Next]_vars => SocksInv'
<1> SUFFICES ASSUME TypeOK, SocksInv, [Next]_vars, input'.reader = "socks5" PROVE SocksInv'
  BY DEF SocksInv
<1>1. input' = input /\ stream' = stream /\ input.reader = "socks5"
  BY DEF Next, vars, Arrive, Close, Step, Overdue, ReadHead, HeadBreaksOff, ReadGreeting, ReadMethods,
         ReadCommand, ReadLength, ReadAddress, ReadPort, RequestBreaksOff, Dialed, Resolved, SendConnect,
         LibraryConnects, ReadResponse, ResponseTooLarge, ResponseBreaksOff, UpstreamFails, ReadDatagram,
         SendDatagram, peer, Fails, stream
<1>2. pc \in SocksSteps \cup {"done"}
  BY <1>1 DEF SocksInv
<1>3. UNCHANGED vars \/ Arrive \/ Close \/ Reads \/ RequestBreaksOff
  BY <1>2 DEF Next, Step, Overdue, ReadHead, HeadBreaksOff, Dialed, Resolved, SendConnect,
         LibraryConnects, ReadResponse, ResponseTooLarge, ResponseBreaksOff, UpstreamFails, ReadDatagram,
         SendDatagram, AtUpstream, SocksSteps, Reads
<1>4. CASE UNCHANGED vars \/ Arrive \/ Close
  <2>1. UNCHANGED <<input, taken, pc, want, result>>
    BY <1>4 DEF vars, Arrive, Close
  <2> QED BY <1>1, <2>1 DEF SocksInv, TypeAt, Left
<1>5. CASE Reads
  BY <1>1, <1>5, SocksReads
<1>6. CASE RequestBreaksOff
  BY <1>1, <1>6, SocksRefused, Routed DEF RequestBreaksOff, Refused, Refuse, Finish
<1> QED BY <1>3, <1>4, <1>5, <1>6

-----------------------------------------------------------------------------
(* UpstreamProxy::connect.                                                 *)

LEMMA UpstreamInit == Init => UpstreamInv
<1> SUFFICES ASSUME Init, input.reader = "upstream" PROVE UpstreamInv
  BY DEF UpstreamInv
<1>1. taken = 0 /\ pc = "dial"
  BY DEF Init, Start
<1> QED BY <1>1, Bounds DEF UpstreamInv, UpstreamSteps

\* Up to where the answer of an upstream proxy is to be read.
LEMMA EndOfAnswer ==
  /\ input.reader = "upstream" /\ input.proxy # "http" => 0 \in EndOf(input)
  /\ input.reader = "upstream" /\ input.proxy = "http" =>
       \A end \in FirstEnd(stream) : end + 4 \in EndOf(input)
<1> QED BY DEF EndOf, stream

LEMMA ReadsAnswer ==
  ASSUME TypeOK, UpstreamInv, input.reader = "upstream", ReadResponse
  PROVE  /\ taken' \in taken .. arrived /\ UpstreamInv'
         /\ (pc' = "done" /\ Len(result') = 1) \/ (pc' = pc /\ result' = result)
<1> DEFINE s == stream
           head == SubSeq(s, 1, taken + 1)
<1>1. /\ s \in Seq(Made(input)) /\ Len(s) \in Nat /\ arrived \in Nat /\ taken \in Nat
      /\ taken < arrived /\ arrived <= Len(s) /\ pc = "response" /\ taken < MaxResponse
      /\ \A end \in HeadEnds(s) : end + 4 > taken
  BY TheStream DEF ReadResponse, UpstreamInv
<1>2. /\ taken' = taken + 1 /\ UNCHANGED <<input, arrived, closed>>
      /\ ~IsSuffix(<<CR, LF, CR, LF>>, head) => UNCHANGED <<pc, result>>
      /\ IsSuffix(<<CR, LF, CR, LF>>, head) =>
           \/ Finish([kind |-> "tunnel", leftover |-> <<>>])
           \/ Finish(Failure)
  BY DEF ReadResponse, peer
<1>3. input.proxy = "http"
  BY <1>1 DEF UpstreamInv
<1>4. taken' \in taken .. arrived /\ taken' \in 0 .. Len(s) /\ taken' <= MaxResponse
  BY <1>1, <1>2, Bounds
<1>5. stream' = s /\ EndOf(input)' = EndOf(input) /\ Len(<<0>>) = 1
  BY <1>2 DEF stream
<1>6. HeadEnds(s) \in SUBSET Nat
  BY <1>1, HeadEndsAreNat
<1>7. IsSuffix(<<CR, LF, CR, LF>>, head) <=> taken - 3 \in HeadEnds(s)
  <2>1. 1 \in 1 .. Len(s) + 1 /\ taken + 1 \in 1 - 1 .. Len(s) /\ (taken + 1) - 1 + 1 = taken + 1
        /\ (taken + 1) - 4 = taken - 3 /\ (taken - 3) + 4 <= taken + 1 /\ taken + 1 \in 0 .. Len(s)
    BY <1>1
  <2>2. head \in Seq(Made(input)) /\ Len(head) = (taken + 1) - 1 + 1
    BY <1>1, <2>1, Piece
  <2>3. HeadEnds(head) = {i \in HeadEnds(s) : i + 4 <= taken + 1}
    BY <1>1, <2>1, HeadEndsOfPiece
  <2> HIDE DEF head, s
  <2>4. IsSuffix(<<CR, LF, CR, LF>>, head) <=> Len(head) - 4 \in HeadEnds(head)
    BY <2>2, EndsWithHeadEnd
  <2>5. Len(head) - 4 = taken - 3
    BY <2>1, <2>2
  <2> QED BY <2>1, <2>3, <2>4, <2>5
<1> HIDE DEF head
<1>8. CASE taken - 3 \notin HeadEnds(s)
  <2>1. pc' = pc /\ result' = result
    BY <1>2, <1>7, <1>8
  <2>2. \A end \in HeadEnds(s) : end + 4 > taken'
    BY <1>1, <1>2, <1>6, <1>8
  <2> QED BY <1>1, <1>2, <1>3, <1>4, <1>5, <2>1, <2>2 DEF UpstreamInv, UpstreamSteps
<1>9. CASE taken - 3 \in HeadEnds(s)
  <2>1. taken - 3 \in FirstEnd(s)
    <3>1. \A other \in HeadEnds(s) : taken - 3 <= other
      BY <1>1, <1>6
    <3> QED BY <1>9, <3>1 DEF FirstEnd
  <2>2. taken' \in EndOf(input)
    <3>1. (taken - 3) + 4 \in EndOf(input)
      BY <1>3, <2>1, EndOfAnswer
    <3> QED BY <1>1, <1>2, <3>1
  <2>3. \/ result' = <<[kind |-> "tunnel", leftover |-> <<>>]>>
        \/ result' = <<Failure>>
    BY <1>2, <1>7, <1>9, Routed DEF Finish
  <2>4. pc' = "done"
    BY <1>2, <1>7, <1>9 DEF Finish
  <2>5. Len(result') = 1 /\ (Accepted(result'[1]) => result'[1].leftover = <<>>)
    BY <2>3, Routed
  <2> QED BY <1>2, <1>4, <1>5, <2>2, <2>4, <2>5 DEF UpstreamInv, UpstreamSteps, Left
<1> QED BY <1>8, <1>9

LEMMA UpstreamPreserved == TypeOK /\ UpstreamInv /\ [Next]_vars => UpstreamInv'
<1> SUFFICES ASSUME TypeOK, UpstreamInv, [Next]_vars, input'.reader = "upstream" PROVE UpstreamInv'
  BY DEF UpstreamInv
<1>1. input' = input /\ stream' = stream /\ input.reader = "upstream"
  BY DEF Next, vars, Arrive, Close, Step, Overdue, ReadHead, HeadBreaksOff, ReadGreeting, ReadMethods,
         ReadCommand, ReadLength, ReadAddress, ReadPort, RequestBreaksOff, Dialed, Resolved, SendConnect,
         LibraryConnects, ReadResponse, ResponseTooLarge, ResponseBreaksOff, UpstreamFails, ReadDatagram,
         SendDatagram, peer, Fails, stream
<1>2. pc \in UpstreamSteps \cup {"done"}
  BY <1>1 DEF UpstreamInv
<1>3. input \in Inputs /\ input.proxy \in {"http", "socks5", "socks5h"}
  BY <1>1, TheStream, Streams
<1>4. \/ UNCHANGED vars \/ Arrive \/ Close \/ Dialed \/ Resolved \/ SendConnect
      \/ LibraryConnects \/ ReadResponse \/ (Fails /\ pc # "done")
  BY <1>2 DEF Next, Step, Overdue, ReadHead, HeadBreaksOff, ReadGreeting, ReadMethods, Got,
         ReadCommand, ReadLength, ReadAddress, ReadPort, RequestBreaksOff, ReadDatagram, SendDatagram,
         AtUpstream, UpstreamSteps, ResponseTooLarge, ResponseBreaksOff, UpstreamFails
<1>5. CASE UNCHANGED vars \/ Arrive \/ Close
  <2>1. UNCHANGED <<input, taken, pc, result>>
    BY <1>5 DEF vars, Arrive, Close
  <2> QED BY <1>1, <2>1 DEF UpstreamInv, Left
<1>6. CASE Dialed
  <2>1. pc = "dial" /\ UNCHANGED <<input, taken, result>>
        /\ pc' = CASE input.proxy = "http"    -> "send"
                   [] input.proxy = "socks5"  -> "resolve"
                   [] input.proxy = "socks5h" -> "library"
    BY <1>6 DEF Dialed, peer
  <2>2. \/ input.proxy = "http" /\ pc' = "send"
        \/ input.proxy # "http" /\ pc' \in {"resolve", "library"}
    BY <1>3, <2>1
  <2> QED BY <1>1, <2>1, <2>2 DEF UpstreamInv, UpstreamSteps
<1>7. CASE Resolved
  BY <1>1, <1>7 DEF Resolved, peer, UpstreamInv, UpstreamSteps
<1>8. CASE SendConnect
  <2>1. pc = "send" /\ pc' = "response" /\ UNCHANGED <<input, taken, result>>
    BY <1>8 DEF SendConnect, peer
  <2>2. taken = 0 /\ input.proxy = "http" /\ taken <= MaxResponse
    BY <1>1, <2>1 DEF UpstreamInv, UpstreamSteps
  <2>3. \A end \in HeadEnds(stream) : end + 4 > taken
    <3>1. HeadEnds(stream) \in SUBSET Nat
      BY TheStream, HeadEndsAreNat
    <3> QED BY <2>2, <3>1
  <2> QED BY <1>1, <2>1, <2>2, <2>3 DEF UpstreamInv, UpstreamSteps
<1>9. CASE LibraryConnects
  <2>1. /\ pc = "library" /\ pc' = "done" /\ UNCHANGED <<input, taken>>
        /\ result' = <<[kind |-> "tunnel", leftover |-> <<>>]>>
    BY <1>9, Routed DEF LibraryConnects, Finish, peer
  <2>2. taken = 0 /\ input.proxy # "http" /\ taken <= MaxResponse
    BY <1>1, <2>1 DEF UpstreamInv, UpstreamSteps
  <2>3. taken \in EndOf(input)
    BY <1>1, <2>2, EndOfAnswer
  <2> QED BY <1>1, <2>1, <2>2, <2>3 DEF UpstreamInv, UpstreamSteps, Left
<1>10. CASE ReadResponse
  BY <1>1, <1>10, ReadsAnswer
<1>11. CASE Fails /\ pc # "done"
  <2>1. pc' = "done" /\ result' = <<Failure>> /\ UNCHANGED <<input, taken>>
    BY <1>11, Routed DEF Fails, Finish, peer
  <2> QED BY <1>1, <2>1, Routed DEF UpstreamInv, UpstreamSteps
<1> QED BY <1>4, <1>5, <1>6, <1>7, <1>8, <1>9, <1>10, <1>11

-----------------------------------------------------------------------------
(* Datagrams.                                                              *)

\* A datagram that is parsed has its payload behind the port.
LEMMA Payload ==
  ASSUME NEW s \in Seq(0 .. 255), Accepted(ParseDatagram(s))
  PROVE  /\ ParseDatagram(s).kind = "datagram"
         /\ \E end \in DatagramEnd(s) : ParseDatagram(s).leftover = SubSeq(s, end + 1, Len(s))
<1> DEFINE last  == Span(s)[2]
           hosts == Hosts(s[4], SubSeq(s, Span(s)[1], last))
<1>1. /\ Len(s) >= 4 /\ ~(Len(s) < last + 2) /\ hosts # {}
      /\ ParseDatagram(s).kind = "datagram" /\ ParseDatagram(s).leftover = SubSeq(s, last + 3, Len(s))
  <2>0. ~Accepted(Failure) /\ Len(s) \in Nat
    BY Routed
  <2>1. ~(Len(s) < 4) /\ ~(s[3] # 0 \/ Len(s) < last + 2 \/ hosts = {})
    <3> HIDE DEF last, hosts
    <3> QED BY <2>0 DEF ParseDatagram, last, hosts
  <2>2. ParseDatagram(s) =
          [kind |-> "datagram",
           authority |-> [bracket |-> s[4] = Ipv6Type, host |-> CHOOSE h \in hosts : TRUE,
                          port |-> SubSeq(s, last + 1, last + 2)],
           leftover |-> SubSeq(s, last + 3, Len(s))]
    BY <2>1 DEF ParseDatagram
  <2> DEFINE where == [bracket |-> s[4] = Ipv6Type, host |-> CHOOSE h \in hosts : TRUE,
                       port |-> SubSeq(s, last + 1, last + 2)]
             rest == SubSeq(s, last + 3, Len(s))
  <2>3. ParseDatagram(s) = [kind |-> "datagram", authority |-> where, leftover |-> rest]
    BY <2>2
  <2> HIDE DEF last, hosts, where, rest
  <2>4. ParseDatagram(s).kind = "datagram" /\ ParseDatagram(s).leftover = rest
    BY <2>3
  <2>5. Len(s) >= 4
    BY <2>0, <2>1
  <2> QED BY <2>1, <2>4, <2>5 DEF rest
<1>2. last \in Nat /\ last + 2 \in AddressEnd(s, 4)
  <2>0. Len(s) \in Nat /\ ~(Len(s) < last + 2)
    BY <1>1
  <2>1. CASE s[4] = Ipv4Type
    <3>1. last = 8
      BY <2>1 DEF Span, Ipv4Type, Ipv6Type, DomainType
    <3> HIDE DEF last, hosts
    <3> QED BY <2>0, <2>1, <3>1 DEF AddressEnd
  <2>2. CASE s[4] = Ipv6Type
    <3>1. last = 20
      BY <2>2 DEF Span, Ipv4Type, Ipv6Type, DomainType
    <3> HIDE DEF last, hosts
    <3> QED BY <2>0, <2>2, <3>1 DEF AddressEnd
  <2>3. CASE s[4] = DomainType
    <3>1. CASE Len(s) >= 5
      <4>1. last = 5 + s[5]
        BY <2>3, <3>1 DEF Span, Ipv4Type, Ipv6Type, DomainType
      <4>2. s[5] \in Nat
        <5>1. 5 \in 1 .. Len(s)
          BY <2>0, <3>1
        <5>2. s[5] \in 0 .. 255
          BY <5>1, ElementOfSeq
        <5> QED BY <5>2, OctetsAreNat
      <4> HIDE DEF last, hosts
      <4> DEFINE c == s[4 + 1]
      <4>3. c \in Nat /\ last = 5 + c
        BY <4>1, <4>2
      <4> HIDE DEF c
      <4>4. last \in Nat /\ last + 2 \in 4 + 1 .. Len(s) /\ last + 2 = 4 + c + 3
        BY <2>0, <4>3
      <4> QED BY <2>3, <4>4 DEF AddressEnd, c
    <3>2. CASE ~(Len(s) >= 5)
      <4>1. last = Len(s)
        BY <2>3, <3>2 DEF Span, Ipv4Type, Ipv6Type, DomainType
      <4> HIDE DEF last, hosts
      <4> QED BY <2>0, <4>1
    <3> QED BY <3>1, <3>2
  <2>4. CASE s[4] \notin {Ipv4Type, Ipv6Type, DomainType}
    <3>1. hosts = {}
      <4> HIDE DEF last
      <4> QED BY <2>4 DEF Hosts
    <3> QED BY <1>1, <3>1
  <2> QED BY <2>1, <2>2, <2>3, <2>4
<1> HIDE DEF last, hosts
<1>3. last + 2 \in DatagramEnd(s) /\ (last + 2) + 1 = last + 3
  <2>1. ~(Len(s) < 4) /\ (last + 2) + 1 = last + 3
    BY <1>1, <1>2
  <2> QED BY <1>2, <2>1 DEF DatagramEnd
<1> QED BY <1>1, <1>3

LEMMA DatagramInit == Init => DatagramInv
<1> SUFFICES ASSUME Init, input.reader = "datagram" PROVE DatagramInv
  BY DEF DatagramInv
<1>1. arrived = Len(stream) /\ pc = "datagram"
  BY DEF Init, Start, stream
<1> QED BY <1>1 DEF DatagramInv

LEMMA ReadsDatagram ==
  ASSUME TypeOK, DatagramInv, input.reader = "datagram", ReadDatagram
  PROVE  /\ DatagramInv' /\ taken' = Len(stream) /\ taken' = arrived /\ pc' \in {"answer", "done"} /\ Len(result') = 1
<1>1. stream \in Seq(0 .. 255) /\ arrived = Len(stream)
  BY TheStream DEF DatagramInv
<1>2. UNCHANGED <<input, arrived, closed>> /\ stream' = stream /\ taken' = Len(stream) /\ Len(<<0>>) = 1
  BY DEF ReadDatagram, peer, stream
<1> DEFINE outcome == ParseDatagram(stream)
<1>3. IF Accepted(outcome) THEN pc' = "answer" /\ result' = <<outcome>> ELSE Finish(outcome)
  BY DEF ReadDatagram
<1>4. CASE Accepted(outcome)
  <2>1. PICK end \in DatagramEnd(stream) : outcome.leftover = SubSeq(stream, end + 1, Len(stream))
    BY <1>1, <1>4, Payload
  <2> HIDE DEF outcome
  <2>2. pc' = "answer" /\ result' = <<outcome>> /\ result'[1] = outcome /\ Len(result') = 1
    BY <1>3, <1>4
  <2> QED BY <1>1, <1>2, <2>1, <2>2 DEF DatagramInv, Left
<1>5. CASE ~Accepted(outcome)
  <2> HIDE DEF outcome
  <2>1. pc' = "done" /\ result' = <<outcome>>
    BY <1>3, <1>5 DEF Finish, Route, Accepted
  <2>2. ~Accepted(result'[1]) /\ Len(result') = 1
    BY <1>5, <2>1
  <2> QED BY <1>1, <1>2, <2>1, <2>2 DEF DatagramInv
<1> QED BY <1>4, <1>5

LEMMA DatagramPreserved == TypeOK /\ DatagramInv /\ [Next]_vars => DatagramInv'
<1> SUFFICES ASSUME TypeOK, DatagramInv, [Next]_vars, input'.reader = "datagram" PROVE DatagramInv'
  BY DEF DatagramInv
<1>1. input' = input /\ stream' = stream /\ input.reader = "datagram"
  BY DEF Next, vars, Arrive, Close, Step, Overdue, ReadHead, HeadBreaksOff, ReadGreeting, ReadMethods,
         ReadCommand, ReadLength, ReadAddress, ReadPort, RequestBreaksOff, Dialed, Resolved, SendConnect,
         LibraryConnects, ReadResponse, ResponseTooLarge, ResponseBreaksOff, UpstreamFails, ReadDatagram,
         SendDatagram, peer, Fails, stream
<1>2. pc \in {"datagram", "answer", "done"} /\ arrived = Len(stream)
  BY <1>1 DEF DatagramInv
<1>3. UNCHANGED vars \/ Close \/ ReadDatagram \/ SendDatagram
  <2>1. ~Arrive
    BY <1>2, TheStream DEF Arrive
  <2> QED BY <1>2, <2>1 DEF Next, Step, Overdue, ReadHead, HeadBreaksOff, ReadGreeting, ReadMethods, Got,
         ReadCommand, ReadLength, ReadAddress, ReadPort, RequestBreaksOff, Dialed, Resolved, SendConnect,
         LibraryConnects, ReadResponse, ResponseTooLarge, ResponseBreaksOff, UpstreamFails, AtUpstream
<1>4. CASE UNCHANGED vars \/ Close
  <2>1. UNCHANGED <<input, arrived, taken, pc, result>>
    BY <1>4 DEF vars, Close
  <2> QED BY <1>1, <2>1 DEF DatagramInv, Left
<1>5. CASE ReadDatagram
  BY <1>1, <1>5, ReadsDatagram
<1>6. CASE SendDatagram
  <2>1. pc = "answer" /\ pc' = "done" /\ UNCHANGED <<input, arrived, result>>
    BY <1>6 DEF SendDatagram, peer
  <2> QED BY <1>1, <1>2, <2>1 DEF DatagramInv, Left
<1> QED BY <1>3, <1>4, <1>5, <1>6

-----------------------------------------------------------------------------
(* Every state is well formed.                                             *)

\* Each reader has steps of its own.
LEMMA WhoseStep ==
  ASSUME TypeOK, ReaderInv
  PROVE  /\ pc = "head" => input.reader = "http"
         /\ pc \in SocksSteps => input.reader = "socks5"
         /\ pc \in UpstreamSteps => input.reader = "upstream"
         /\ pc \in {"datagram", "answer"} => input.reader = "datagram"
<1>1. input.reader \in {"http", "socks5", "upstream", "datagram"}
  BY TheStream, Streams
<1>2. CASE input.reader = "http"
  BY <1>2 DEF ReaderInv, HttpInv, SocksSteps, UpstreamSteps
<1>3. CASE input.reader = "socks5"
  BY <1>3 DEF ReaderInv, SocksInv, SocksSteps, UpstreamSteps
<1>4. CASE input.reader = "upstream"
  BY <1>4 DEF ReaderInv, UpstreamInv, SocksSteps, UpstreamSteps
<1>5. CASE input.reader = "datagram"
  BY <1>5 DEF ReaderInv, DatagramInv, SocksSteps, UpstreamSteps
<1> QED BY <1>1, <1>2, <1>3, <1>4, <1>5

LEMMA TypeInit == Init => TypeOK
<1> SUFFICES ASSUME Init PROVE TypeOK
  OBVIOUS
<1>1. input \in Inputs /\ stream = input.stream
  BY DEF Init, stream
<1>2. Len(stream) \in Nat /\ input.reader \in {"http", "socks5", "upstream", "datagram"}
  BY <1>1, Streams
<1>3. closed \in BOOLEAN /\ taken = 0 /\ result = <<>> /\ Len(result) = 0
      /\ arrived \in {0, Len(stream)} /\ want \in {0, 2}
  BY DEF Init, stream
<1>4. pc \in {"head", "greeting", "dial", "datagram"}
  BY <1>2 DEF Init, Start
<1>5. 2 \in 0 .. 255 /\ 0 \in 0 .. 255
  OBVIOUS
<1> QED BY <1>1, <1>2, <1>3, <1>4, <1>5 DEF TypeOK

LEMMA TypePreserved == TypeOK /\ ReaderInv /\ [Next]_vars => TypeOK'
<1> SUFFICES ASSUME TypeOK, ReaderInv, [Next]_vars PROVE TypeOK'
  OBVIOUS
<1>1. /\ Len(stream) \in Nat /\ arrived \in Nat /\ taken \in Nat /\ taken <= arrived
      /\ arrived <= Len(stream) /\ want \in 0 .. 255 /\ input \in Inputs /\ closed \in BOOLEAN
  BY TheStream DEF TypeOK
<1>2. input' = input /\ stream' = stream
  BY DEF Next, vars, Arrive, Close, Step, Overdue, ReadHead, HeadBreaksOff, ReadGreeting, ReadMethods,
         ReadCommand, ReadLength, ReadAddress, ReadPort, RequestBreaksOff, Dialed, Resolved, SendConnect,
         LibraryConnects, ReadResponse, ResponseTooLarge, ResponseBreaksOff, UpstreamFails, ReadDatagram,
         SendDatagram, peer, Fails, stream
<1> DEFINE Places == {"head", "greeting", "methods", "command", "length", "address", "port", "dial",
                      "resolve", "library", "send", "response", "datagram", "answer", "done"}
           Results == IF pc \in {"answer", "done"} THEN 1 ELSE 0
\* What a step other than Arrive and Close does to the rest.
<1>3. ASSUME UNCHANGED <<arrived, closed>>, taken' \in taken .. arrived, want' \in 0 .. 255,
             pc' \in Places, Len(result') = Results'
      PROVE  TypeOK'
  <2>1. taken' \in 0 .. arrived /\ arrived \in 0 .. Len(stream)
    BY <1>1, <1>3
  <2> QED BY <1>1, <1>2, <1>3, <2>1 DEF TypeOK
<1>4. taken \in taken .. arrived /\ pc \in Places /\ Len(result) = Results
  BY <1>1 DEF TypeOK
<1>5. ASSUME NEW outcome, Finish(outcome) PROVE pc' \in Places /\ Len(result') = Results'
  BY <1>5 DEF Finish
<1>6. CASE UNCHANGED vars
  BY <1>3, <1>4, <1>1, <1>6 DEF vars
<1>7. CASE Arrive
  <2>1. /\ arrived < Len(stream) /\ arrived' = arrived + 1
        /\ UNCHANGED <<closed, taken, pc, want, result>>
    BY <1>7 DEF Arrive
  <2>2. arrived' \in 0 .. Len(stream) /\ taken \in 0 .. arrived'
    BY <1>1, <2>1
  <2> QED BY <1>1, <1>2, <1>4, <2>1, <2>2 DEF TypeOK
<1>8. CASE Close
  <2>1. closed' = TRUE /\ UNCHANGED <<arrived, taken, pc, want, result>>
    BY <1>8 DEF Close
  <2>2. arrived \in 0 .. Len(stream) /\ taken \in 0 .. arrived
    BY <1>1
  <2> QED BY <1>1, <1>2, <1>4, <2>1, <2>2 DEF TypeOK
<1>9. CASE ReadHead
  <2>1. input.reader = "http" /\ HttpInv /\ pc = "head"
    BY <1>9, WhoseStep DEF ReadHead, ReaderInv
  <2>2. UNCHANGED <<arrived, closed, want>>
    BY <1>9 DEF ReadHead, peer
  <2>3. /\ taken' \in taken .. arrived
        /\ (pc' = "done" /\ Len(result') = 1) \/ (pc' = pc /\ result' = result)
    BY <1>9, <2>1, ReadsHead
  <2> QED BY <1>1, <1>3, <1>4, <2>2, <2>3
<1>10. CASE Reads
  <2>1. input.reader = "socks5" /\ SocksInv
    BY <1>10, WhoseStep DEF Reads, ReadGreeting, ReadMethods, ReadCommand, ReadLength, ReadAddress,
                            ReadPort, Got, SocksSteps, ReaderInv
  <2>2. UNCHANGED <<arrived, closed>>
    BY <1>10 DEF Reads, ReadGreeting, ReadMethods, ReadCommand, ReadLength, ReadAddress, ReadPort, peer
  <2>3. /\ taken' \in taken .. arrived /\ want' \in 0 .. 255
        /\ (pc' = "done" /\ Len(result') = 1) \/ (pc' \in SocksSteps /\ pc \in SocksSteps /\ result' = result)
    BY <1>10, <2>1, SocksReads
  <2>4. pc' \in Places /\ Len(result') = Results'
    BY <1>4, <2>3 DEF SocksSteps
  <2> QED BY <1>3, <2>2, <2>3, <2>4
<1>11. CASE Dialed
  <2>1. pc = "dial" /\ UNCHANGED <<arrived, closed, taken, want, result>>
    BY <1>11 DEF Dialed, peer
  <2>2. input.reader = "upstream"
    BY <2>1, WhoseStep DEF UpstreamSteps
  <2>3. input.proxy \in {"http", "socks5", "socks5h"}
    BY <2>2, TheStream, Streams
  <2>4. pc' \in {"send", "resolve", "library"}
    BY <1>11, <2>3 DEF Dialed
  <2> QED BY <1>1, <1>3, <1>4, <2>1, <2>4
<1>12. CASE Resolved \/ SendConnect
  <2>1. /\ pc \in {"resolve", "send"} /\ pc' \in {"library", "response"}
        /\ UNCHANGED <<arrived, closed, taken, want, result>>
    BY <1>12 DEF Resolved, SendConnect, peer
  <2> QED BY <1>1, <1>3, <1>4, <2>1
<1>13. CASE HeadBreaksOff \/ RequestBreaksOff \/ Fails \/ LibraryConnects
  <2>1. UNCHANGED <<arrived, closed, taken, want>> /\ \E outcome : Finish(outcome)
    BY <1>13 DEF HeadBreaksOff, RequestBreaksOff, Refused, Refuse, Fails, LibraryConnects, peer
  <2>2. pc' \in Places /\ Len(result') = Results'
    BY <1>5, <2>1
  <2> QED BY <1>1, <1>3, <1>4, <2>1, <2>2
<1>14. CASE ReadResponse
  <2>1. input.reader = "upstream" /\ UpstreamInv /\ pc = "response"
    BY <1>14, WhoseStep DEF ReadResponse, ReaderInv, UpstreamSteps
  <2>2. UNCHANGED <<arrived, closed, want>>
    BY <1>14 DEF ReadResponse, peer
  <2>3. /\ taken' \in taken .. arrived
        /\ (pc' = "done" /\ Len(result') = 1) \/ (pc' = pc /\ result' = result)
    BY <1>14, <2>1, ReadsAnswer
  <2> QED BY <1>1, <1>3, <1>4, <2>2, <2>3
<1>15. CASE ReadDatagram
  <2>1. input.reader = "datagram" /\ DatagramInv
    BY <1>15, WhoseStep DEF ReadDatagram, ReaderInv
  <2>2. UNCHANGED <<arrived, closed, want>>
    BY <1>15 DEF ReadDatagram, peer
  <2>3. taken' = arrived /\ pc' \in {"answer", "done"} /\ Len(result') = 1
    BY <1>15, <2>1, ReadsDatagram
  <2>4. taken' \in taken .. arrived
    BY <1>1, <2>3
  <2> QED BY <1>1, <1>3, <2>2, <2>3, <2>4
<1>16. CASE SendDatagram
  <2>1. pc = "answer" /\ pc' = "done" /\ UNCHANGED <<arrived, closed, taken, want, result>>
    BY <1>16 DEF SendDatagram, peer
  <2> QED BY <1>1, <1>3, <1>4, <2>1
<1>17. \/ UNCHANGED vars \/ Arrive \/ Close \/ ReadHead \/ Reads \/ Dialed \/ Resolved \/ SendConnect
       \/ HeadBreaksOff \/ RequestBreaksOff \/ Fails \/ LibraryConnects \/ ReadResponse
       \/ ReadDatagram \/ SendDatagram
  BY DEF Next, Step, Overdue, Reads, ResponseTooLarge, ResponseBreaksOff, UpstreamFails
<1> QED BY <1>6, <1>7, <1>8, <1>9, <1>10, <1>11, <1>12, <1>13, <1>14, <1>15, <1>16, <1>17

IInv == TypeOK /\ ReaderInv

LEMMA Inductive == Spec => []IInv
<1>1. Init => IInv
  BY TypeInit, HttpInit, SocksInit, UpstreamInit, DatagramInit DEF IInv, ReaderInv
<1>2. IInv /\ [Next]_vars => IInv'
  BY TypePreserved, HttpPreserved, SocksPreserved, UpstreamPreserved, DatagramPreserved
     DEF IInv, ReaderInv
<1> QED BY <1>1, <1>2, PTL DEF Spec

\* Every state is well formed: no reader takes what has not arrived, and a
\* handshake has a result when it is over and none before.
THEOREM TypeCorrect == Spec => []TypeOK
<1>1. IInv => TypeOK
  BY DEF IInv
<1> QED BY <1>1, Inductive, PTL

-----------------------------------------------------------------------------
(* What is left for the relay.                                             *)

\* What was taken and not used, and what is not taken.
LEMMA TheRest ==
  ASSUME TypeOK, NEW end \in 0 .. taken, end \in EndOf(input)
  PROVE  SubSeq(stream, end + 1, taken) \o SubSeq(stream, taken + 1, Len(stream)) = input.after
<1>1. /\ stream \in Seq(Made(input)) /\ Len(stream) \in Nat /\ taken \in 0 .. Len(stream)
      /\ stream = input.stream /\ input \in Inputs
  BY TheStream
<1>2. input.after = SubSeq(stream, end + 1, Len(stream))
  BY <1>1, Streams
<1>3. Len(stream) \in taken .. Len(stream)
  BY <1>1
<1> QED BY <1>1, <1>2, <1>3, Pieces

\* A reader that took nothing behind the handshake leaves it all.
LEMMA NothingOver ==
  ASSUME TypeOK, taken \in EndOf(input)
  PROVE  <<>> \o SubSeq(stream, taken + 1, Len(stream)) = input.after
<1>1. /\ stream \in Seq(Made(input)) /\ Len(stream) \in Nat /\ taken \in Nat /\ taken <= Len(stream)
      /\ stream = input.stream /\ input \in Inputs
  BY TheStream
<1>2. input.after = SubSeq(stream, taken + 1, Len(stream))
  BY <1>1, Streams
<1>3. taken + 1 \in 1 .. Len(stream) + 1 /\ Len(stream) \in (taken + 1) - 1 .. Len(stream)
  BY <1>1
<1>4. SubSeq(stream, taken + 1, Len(stream)) \in Seq(Made(input))
  BY <1>1, <1>3, Piece
<1> QED BY <1>2, <1>4, ConcatEmptySeq

LEMMA AfterHandshake ==
  ASSUME IInv, Ended, Accepted(result[1]), result[1].kind # "unroutable"
  PROVE  CASE input.reader = "datagram" -> result[1].leftover = input.after
           [] OTHER -> result[1].leftover \o SubSeq(stream, taken + 1, Len(stream)) = input.after
<1>1. TypeOK /\ HttpInv /\ SocksInv /\ UpstreamInv /\ DatagramInv /\ pc = "done"
  BY DEF IInv, ReaderInv, Ended
<1>2. /\ input.reader \in {"http", "socks5", "upstream", "datagram"}
      /\ input \in Inputs /\ stream = input.stream
  BY <1>1, TheStream, Streams
<1>3. CASE input.reader = "datagram"
  <2>1. PICK end \in DatagramEnd(stream) : result[1].leftover = SubSeq(stream, end + 1, Len(stream))
    BY <1>1, <1>3 DEF DatagramInv, Left
  <2>2. end \in EndOf(input)
    BY <1>2, <1>3, <2>1 DEF EndOf
  <2>3. result[1].leftover = input.after
    BY <1>2, <2>1, <2>2, Streams
  <2> QED BY <1>3, <2>3
<1>4. CASE input.reader = "socks5"
  <2>1. taken \in SocksEnd(stream) /\ result[1].leftover = <<>>
    BY <1>1, <1>4 DEF SocksInv, Left
  <2>2. taken \in EndOf(input)
    BY <1>2, <1>4, <2>1 DEF EndOf
  <2> QED BY <1>1, <1>4, <2>1, <2>2, NothingOver
<1>5. CASE input.reader = "upstream"
  <2>1. taken \in EndOf(input) /\ result[1].leftover = <<>>
    BY <1>1, <1>5 DEF UpstreamInv, Left
  <2> QED BY <1>1, <1>5, <2>1, NothingOver
<1>6. CASE input.reader = "http"
  <2>1. HeadRead
    BY <1>1, <1>6, Routed DEF HttpInv, HeadRefused
  <2>2. PICK end \in FirstEnd(stream) :
          LET asked == Request(SubSeq(stream, 1, end))
          IN  /\ end + 4 <= taken /\ Accepted(asked)
              /\ result[1] = Route(ProxyRequest(asked, SubSeq(stream, end + 5, taken)))
    BY <2>1 DEF HeadRead
  <2> DEFINE rest == SubSeq(stream, end + 5, taken)
  <2>3. result[1].leftover = rest
    <3> DEFINE asked == Request(SubSeq(stream, 1, end))
    <3>1. asked.kind \in {"connect", "http"} /\ result[1] = Route(ProxyRequest(asked, rest))
      BY <2>2, Understanding
    <3> HIDE DEF asked, rest
    <3> QED BY <3>1, RoutedRequest
  <2>4. end + 4 \in EndOf(input)
    BY <1>2, <1>6, <2>2 DEF EndOf
  <2>5. end + 4 \in 0 .. taken /\ (end + 4) + 1 = end + 5
    <3>1. end \in Nat /\ taken \in Nat
      BY <1>1, <2>2, TheStream, HeadEndsAreNat DEF FirstEnd
    <3> QED BY <2>2, <3>1
  <2>6. SubSeq(stream, (end + 4) + 1, taken) \o SubSeq(stream, taken + 1, Len(stream)) = input.after
    BY <1>1, <2>4, <2>5, TheRest
  <2> QED BY <1>6, <2>3, <2>5, <2>6
<1> QED BY <1>2, <1>3, <1>4, <1>5, <1>6

\* Not a byte of what follows a handshake is lost or taken twice, for every stream
\* of every reader and however it is cut into pieces; and no peer makes a reader
\* take more than its limit, and a read more of a head (read_proxy_request,
\* read_socks5_request, http_connect, parse_udp_datagram).
THEOREM NothingIsTakenTwice == Spec => []NotAByteMore
<1>1. ASSUME IInv PROVE NotAByteMore
  <2>1. TypeOK /\ HttpInv /\ UpstreamInv /\ taken \in Nat
    BY <1>1, TheStream DEF IInv, ReaderInv
  <2>2. input.reader = "http" => taken <= MaxHead + (IF Ended THEN Chunk ELSE 0)
    <3> SUFFICES ASSUME input.reader = "http" PROVE taken <= MaxHead + (IF Ended THEN Chunk ELSE 0)
      OBVIOUS
    <3>1. CASE pc = "head"
      BY <2>1, <3>1, Bounds DEF HttpInv, Ended
    <3>2. CASE pc = "done"
      BY <2>1, <3>2, Bounds DEF HttpInv, Ended
    <3> QED BY <2>1, <3>1, <3>2 DEF HttpInv
  <2>3. input.reader = "upstream" => taken <= MaxResponse
    BY <2>1 DEF UpstreamInv
  <2> QED BY <1>1, <2>2, <2>3, AfterHandshake DEF NotAByteMore
<1> QED BY <1>1, Inductive, PTL

-----------------------------------------------------------------------------
(* What the lists say of a host.                                           *)

\* The label between two dots.
Empty == ""

LEMMA Greatest ==
  ASSUME NEW n \in Nat, NEW S \in SUBSET (1 .. n), S # {}
  PROVE  \E m \in S : \A y \in S : m >= y
<1>0. \A y \in S : y \in Nat /\ y <= n /\ n - y \in Nat
  OBVIOUS
<1> DEFINE D == {n - y : y \in S}
<1>1. D \in SUBSET Nat /\ D # {}
  BY <1>0
<1> HIDE DEF D
<1>2. Min(D) \in D /\ \A y \in D : Min(D) <= y
  BY <1>1, Least
<1>3. PICK m \in S : Min(D) = n - m
  BY <1>2 DEF D
<1>4. ASSUME NEW y \in S PROVE m >= y
  <2>1. n - y \in D
    BY DEF D
  <2>2. n - m <= n - y
    BY <1>2, <1>3, <2>1
  <2>3. m \in Nat /\ y \in Nat
    BY <1>0
  <2> QED BY <2>2, <2>3
<1> QED BY <1>4

\* Where a name begins and ends without its outer dots.
Solid(name, first, last) ==
  /\ first \in 1 .. Len(name) /\ last \in first .. Len(name)
  /\ name[first] # Empty /\ name[last] # Empty
  /\ \A i \in 1 .. Len(name) : name[i] # Empty => first <= i /\ i <= last
  /\ NormalHost(name) = [i \in 1 .. last - first + 1 |-> Lower(name[first + i - 1])]

LEMMA NormalForm ==
  ASSUME NEW name, IsName(name)
  PROVE  /\ Len(name) \in Nat /\ DOMAIN name = 1 .. Len(name)
         /\ (\E i \in 1 .. Len(name) : name[i] # Empty) => \E first, last : Solid(name, first, last)
         /\ (\A i \in 1 .. Len(name) : name[i] = Empty) => NormalHost(name) = <<>>
<1>1. Len(name) \in Nat /\ DOMAIN name = 1 .. Len(name)
  BY DEF IsName
<1> DEFINE solid == {i \in DOMAIN name : name[i] # Empty}
           first == CHOOSE i \in solid : \A j \in solid : i <= j
           last  == CHOOSE i \in solid : \A j \in solid : i >= j
<1>2. ASSUME \E i \in 1 .. Len(name) : name[i] # Empty PROVE Solid(name, first, last)
  <2>1. solid # {} /\ solid \in SUBSET (1 .. Len(name)) /\ solid \in SUBSET Nat
    <3>1. solid # {} /\ solid \in SUBSET (1 .. Len(name))
      BY <1>1, <1>2
    <3>2. \A i \in 1 .. Len(name) : i \in Nat
      BY <1>1
    <3> HIDE DEF solid
    <3> QED BY <3>1, <3>2
  <2>2. NormalHost(name) = [i \in 1 .. last - first + 1 |-> Lower(name[first + i - 1])]
    BY <2>1, Zenon DEF NormalHost, Empty
  <2>3. \A i : i \in solid <=> i \in 1 .. Len(name) /\ name[i] # Empty
    BY <1>1
  <2> HIDE DEF solid
  <2>4. first \in solid /\ \A j \in solid : first <= j
    <3>1. Min(solid) \in solid /\ \A y \in solid : Min(solid) <= y
      BY <2>1, Least
    <3> QED BY <3>1
  <2>5. last \in solid /\ \A j \in solid : last >= j
    <3>1. \E m \in solid : \A y \in solid : m >= y
      BY <1>1, <2>1, Greatest
    <3> QED BY <3>1
  <2> HIDE DEF first, last
  <2>6. first \in 1 .. Len(name) /\ last \in first .. Len(name)
    BY <1>1, <2>1, <2>4, <2>5
  <2> QED BY <2>2, <2>3, <2>4, <2>5, <2>6 DEF Solid
<1>3. ASSUME \A i \in 1 .. Len(name) : name[i] = Empty PROVE NormalHost(name) = <<>>
  <2>1. solid = {}
    BY <1>1, <1>3
  <2> QED BY <2>1, Zenon DEF NormalHost, Empty
<1> QED BY <1>1, <1>2, <1>3

LEMMA SolidBounds ==
  ASSUME NEW name, IsName(name), NEW first, NEW last, Solid(name, first, last)
  PROVE  /\ Len(name) \in Nat /\ first \in Nat /\ last \in Nat
         /\ 1 <= first /\ first <= last /\ last <= Len(name) /\ last - first + 1 \in Nat
         /\ name[first] # Empty /\ name[last] # Empty
         /\ \A i \in 1 .. Len(name) : name[i] # Empty => first <= i /\ i <= last
<1>1. Len(name) \in Nat
  BY NormalForm
<1>2. first \in 1 .. Len(name) /\ last \in first .. Len(name)
  BY DEF Solid
<1>3. /\ name[first] # Empty /\ name[last] # Empty
      /\ \A i \in 1 .. Len(name) : name[i] # Empty => first <= i /\ i <= last
  BY DEF Solid
<1> DEFINE n == Len(name)
<1> HIDE DEF n
<1>4. first \in Nat /\ last \in Nat /\ 1 <= first /\ first <= last /\ last <= n
  <2>1. n \in Nat /\ first \in 1 .. n /\ last \in first .. n
    BY <1>1, <1>2 DEF n
  <2> QED BY <2>1
<1>5. last - first + 1 \in Nat
  BY <1>4
<1> QED BY <1>1, <1>3, <1>4, <1>5 DEF n

LEMMA LowerKeeps == \A label : Lower(label) = Empty <=> label = Empty
  BY LoweredAssumption, Zenon DEF Lower, Empty

\* The suffixes of what is looked up.
LEMMA Suffix ==
  ASSUME NEW name, IsName(name), NEW first, NEW last, Solid(name, first, last),
         NEW k \in 0 .. last - first
  PROVE  LET n == last - first + 1
             suffix == SubSeq(NormalHost(name), k + 1, n)
         IN  /\ Len(NormalHost(name)) = n /\ n \in Nat /\ NormalHost(name) \in Seq(ToSet(NormalHost(name)))
             /\ suffix \in Seq(ToSet(NormalHost(name))) /\ Len(suffix) = n - k
             /\ \A i \in 1 .. n - k : suffix[i] = Lower(name[first + k + i - 1])
<1> DEFINE n == last - first + 1
           u == NormalHost(name)
           T == ToSet(u)
           suffix == SubSeq(u, k + 1, n)
<1>1. Len(name) \in Nat /\ first \in Nat /\ last \in Nat /\ first <= last /\ k \in Nat
  BY SolidBounds
<1>2. n \in Nat /\ u = [i \in 1 .. n |-> Lower(name[first + i - 1])]
  BY <1>1 DEF Solid
<1> HIDE DEF u
<1>3. u \in Seq(T) /\ Len(u) = n /\ \A i \in 1 .. n : u[i] = Lower(name[first + i - 1])
  <2>1. u \in [1 .. n -> T]
    BY <1>2 DEF ToSet
  <2> HIDE DEF T, n
  <2>2. u \in Seq(T)
    BY <1>2, <2>1, SeqDef
  <2> QED BY <1>2, <2>1, <2>2
<1>4. k + 1 \in 1 .. Len(u) + 1 /\ n \in (k + 1) - 1 .. Len(u) /\ n - (k + 1) + 1 = n - k
  BY <1>1, <1>2, <1>3
<1> HIDE DEF T
<1>5. suffix \in Seq(T) /\ Len(suffix) = n - k
      /\ \A i \in 1 .. n - k : suffix[i] = u[(k + 1) + i - 1]
  <2> HIDE DEF n
  <2>1. suffix \in Seq(T) /\ Len(suffix) = n - (k + 1) + 1
        /\ \A i \in 1 .. n - (k + 1) + 1 : suffix[i] = u[(k + 1) + i - 1]
    BY <1>3, <1>4, Piece
  <2> QED BY <1>4, <2>1
<1> HIDE DEF suffix
<1>6. ASSUME NEW i \in 1 .. n - k PROVE suffix[i] = Lower(name[first + k + i - 1])
  <2>1. (k + 1) + i - 1 \in 1 .. n /\ first + ((k + 1) + i - 1) - 1 = first + k + i - 1
    BY <1>1, <1>2
  <2>2. suffix[i] = u[(k + 1) + i - 1]
    BY <1>5
  <2>3. u[(k + 1) + i - 1] = Lower(name[first + ((k + 1) + i - 1) - 1])
    BY <1>3, <2>1
  <2> QED BY <2>1, <2>2, <2>3
<1> QED BY <1>2, <1>3, <1>5, <1>6 DEF suffix, u, T

\* A domain of a list: a name without outer dots.
IsDomain(domain) == /\ IsName(domain) /\ Len(domain) \in Nat /\ Len(domain) >= 1
                    /\ domain[1] # Empty /\ domain[Len(domain)] # Empty

\* DomainRules::matches finds a host exactly if a domain of the list is what the
\* host ends with, at a dot, whatever its case and its outer dots.
LEMMA Matching ==
  ASSUME NEW host, IsName(host), NEW domains, \A domain \in domains : IsDomain(domain)
  PROVE  Matches(domains, host) <=> \E domain \in domains : Under(host, domain)
<1>1. Len(host) \in Nat /\ DOMAIN host = 1 .. Len(host)
  BY NormalForm
<1>2. ASSUME Matches(domains, host) PROVE \E domain \in domains : Under(host, domain)
  <2>1. NormalHost(host) # <<>>
    BY <1>2 DEF Matches
  <2>2. PICK first, last : Solid(host, first, last)
    BY <2>1, NormalForm
  <2> DEFINE n == last - first + 1
             name == NormalHost(host)
  <2>3. first \in Nat /\ last \in Nat /\ 1 <= first /\ first <= last /\ last <= Len(host)
        /\ \A i \in 1 .. Len(host) : host[i] # Empty => i <= last
    BY <2>2, SolidBounds
  <2>4. Len(name) = n /\ name \in Seq(ToSet(name)) /\ n \in Nat
    <3>1. 0 \in 0 .. last - first
      BY <2>3
    <3> QED BY <2>2, <3>1, Suffix
  <2>5. PICK k \in 0 .. last - first : SubSeq(name, k + 1, n) \in domains
    <3>1. CASE name \in domains
      <4>1. 0 \in 0 .. last - first /\ SubSeq(name, 0 + 1, n) = name
        BY <2>3, <2>4
      <4> QED BY <3>1, <4>1
    <3>2. CASE \E dot \in 1 .. Len(name) - 1 : SubSeq(name, dot + 1, Len(name)) \in domains
      <4> HIDE DEF name
      <4>1. PICK dot \in 1 .. Len(name) - 1 : SubSeq(name, dot + 1, Len(name)) \in domains
        BY <3>2
      <4>2. dot \in 0 .. last - first
        BY <2>3, <2>4
      <4> QED BY <2>4, <4>1, <4>2
    <3> QED BY <1>2, <3>1, <3>2 DEF Matches
  <2> DEFINE d == SubSeq(name, k + 1, n)
  <2>7. d \in Seq(ToSet(name)) /\ Len(d) = n - k
    BY <2>2, Suffix
  <2>12. \A i \in 1 .. n - k : d[i] = Lower(host[first + k + i - 1])
    BY <2>2, Suffix
  <2>6. Len(d) = n - k /\ \A i \in 1 .. n - k : d[i] = Lower(host[first + k + i - 1])
    BY <2>7, <2>12
  <2> HIDE DEF name, d
  <2>8. k \in Nat /\ DOMAIN d = 1 .. n - k /\ last \in Len(d) .. Len(host)
    BY <1>1, <2>3, <2>6, <2>7
  <2>9. \A i \in last + 1 .. Len(host) : host[i] = Empty
    BY <1>1, <2>3
  <2>10. ASSUME NEW i \in DOMAIN d PROVE Lower(host[last - Len(d) + i]) = d[i]
    <3>1. i \in 1 .. n - k /\ last - Len(d) + i = first + k + i - 1
      BY <2>3, <2>6, <2>8
    <3> QED BY <2>6, <3>1
  <2>11. Under(host, d)
    BY <2>8, <2>9, <2>10, Zenon DEF Under, Empty
  <2> QED BY <2>5, <2>11 DEF d
<1>3. ASSUME NEW domain \in domains, Under(host, domain) PROVE Matches(domains, host)
  <2> DEFINE m == Len(domain)
  <2>1. IsName(domain) /\ m \in Nat /\ m >= 1 /\ domain[1] # Empty /\ domain[m] # Empty /\ DOMAIN domain = 1 .. m
    BY NormalForm DEF IsDomain
  <2>2. PICK end \in m .. Len(host) :
          /\ \A i \in end + 1 .. Len(host) : host[i] = Empty
          /\ \A i \in 1 .. m : Lower(host[end - m + i]) = domain[i]
    BY <1>3, <2>1, Zenon DEF Under, Empty
  <2> HIDE DEF m
  <2>3. host[end - m + 1] # Empty /\ host[end] # Empty
    <3>1. 1 \in 1 .. m /\ m \in 1 .. m /\ end - m + m = end
      BY <1>1, <2>1
    <3>2. Lower(host[end - m + 1]) # Empty /\ Lower(host[end]) # Empty
      BY <2>1, <2>2, <3>1
    <3> QED BY <3>2, LowerKeeps
  <2>4. end - m + 1 \in 1 .. Len(host) /\ end \in 1 .. Len(host)
    BY <1>1, <2>1
  <2>5. PICK first, last : Solid(host, first, last)
    BY <2>3, <2>4, NormalForm
  <2>6. first \in Nat /\ last \in Nat /\ 1 <= first /\ first <= last /\ last <= Len(host) /\ host[last] # Empty
        /\ \A i \in 1 .. Len(host) : host[i] # Empty => first <= i /\ i <= last
    BY <2>5, SolidBounds
  <2>7. end = last
    <3>1. end <= last
      BY <2>3, <2>4, <2>6
    <3>2. ~(last \in end + 1 .. Len(host))
      BY <2>2, <2>6
    <3> QED BY <1>1, <2>4, <2>6, <3>1, <3>2
  <2>8. first <= end - m + 1
    BY <2>3, <2>4, <2>6
  <2> DEFINE n == last - first + 1
             k == n - m
             name == NormalHost(host)
             suffix == SubSeq(name, k + 1, n)
  <2>9. k \in 0 .. last - first /\ n - k = m /\ n \in Nat
    BY <1>1, <2>1, <2>6, <2>7, <2>8
  <2>10. /\ Len(name) = n /\ name \in Seq(ToSet(name))
         /\ suffix \in Seq(ToSet(name)) /\ Len(suffix) = n - k
         /\ \A i \in 1 .. n - k : suffix[i] = Lower(host[first + k + i - 1])
    <3> HIDE DEF k
    <3> QED BY <2>5, <2>9, Suffix
  <2>11. suffix = domain
    <3>1. ASSUME NEW i \in 1 .. m PROVE suffix[i] = domain[i]
      <4>1. first + k + i - 1 = end - m + i
        BY <1>1, <2>1, <2>6, <2>7
      <4>2. suffix[i] = Lower(host[first + k + i - 1])
        BY <2>9, <2>10
      <4> QED BY <2>2, <4>1, <4>2
    <3> HIDE DEF suffix, name, k, n
    <3>2. suffix \in Seq(ToSet(name) \cup ToSet(domain)) /\ domain \in Seq(ToSet(name) \cup ToSet(domain))
      <4> DEFINE A == ToSet(name)
                 B == ToSet(domain)
      <4>1. suffix \in Seq(A) /\ domain \in Seq(B)
        BY <2>1, <2>10 DEF IsName
      <4> HIDE DEF A, B
      <4>2. suffix \in Seq(A \cup B) /\ domain \in Seq(A \cup B)
        BY <4>1, SeqMonotonic
      <4> QED BY <4>2 DEF A, B
    <3>3. Len(suffix) = Len(domain)
      BY <2>9, <2>10 DEF m
    <3> QED BY <3>1, <3>2, <3>3, SeqEqual DEF m
  <2>12. name # <<>>
    <3>1. n >= 1
      BY <2>6
    <3> HIDE DEF name
    <3> QED BY <2>10, <3>1
  <2>13. CASE k = 0
    <3>1. suffix = name
      <4>1. SubSeq(name, 0 + 1, n) = name
        <5> HIDE DEF name, n
        <5> QED BY <2>9, <2>10
      <4> QED BY <2>13, <4>1
    <3> QED BY <2>11, <2>12, <3>1 DEF Matches
  <2>14. CASE k # 0
    <3>1. k \in 1 .. Len(name) - 1 /\ SubSeq(name, k + 1, Len(name)) \in domains
      <4>1. k \in 1 .. n - 1
        BY <2>1, <2>6, <2>9, <2>14
      <4> HIDE DEF n, k, name
      <4> QED BY <2>10, <2>11, <4>1
    <3> QED BY <2>12, <3>1 DEF Matches
  <2> QED BY <2>13, <2>14
<1> QED BY <1>2, <1>3

\* What is read from a line is a domain.
LEMMA ReadDomain ==
  ASSUME NEW name, IsName(name), IsDomainLike(NormalHost(name))
  PROVE  IsDomain(NormalHost(name))
<1> DEFINE u == NormalHost(name)
<1>1. u # <<>>
  BY DEF IsDomainLike
<1>2. PICK first, last : Solid(name, first, last)
  BY <1>1, NormalForm
<1>3. Len(name) \in Nat /\ first \in Nat /\ last \in Nat /\ first <= last
      /\ name[first] # Empty /\ name[last] # Empty
  BY <1>2, SolidBounds
<1> DEFINE n == last - first + 1
<1>4. /\ Len(u) = n /\ n \in Nat /\ n >= 1 /\ IsName(u)
      /\ u = [i \in 1 .. n |-> Lower(name[first + i - 1])]
  <2>1. 0 \in 0 .. last - first
    BY <1>3
  <2>2. Len(u) = n /\ n \in Nat /\ IsName(u)
    BY <1>2, <2>1, Suffix DEF IsName
  <2> QED BY <1>2, <1>3, <2>2 DEF Solid
<1> HIDE DEF u
<1>5. u[1] = Lower(name[first]) /\ u[n] = Lower(name[last])
  <2>1. 1 \in 1 .. n /\ n \in 1 .. n /\ first + 1 - 1 = first /\ first + n - 1 = last
    BY <1>3
  <2> HIDE DEF n
  <2>2. u[1] = Lower(name[first + 1 - 1]) /\ u[n] = Lower(name[first + n - 1])
    BY <1>4, <2>1
  <2> QED BY <2>1, <2>2
<1> HIDE DEF n
<1>6. u[1] # Empty /\ u[n] # Empty
  BY <1>3, <1>5, LowerKeeps
<1> QED BY <1>4, <1>6 DEF IsDomain, u

LEMMA RulesAreDomains == \A domain \in Rules : IsDomain(domain)
<1> SUFFICES ASSUME NEW domain \in Rules PROVE IsDomain(domain)
  OBVIOUS
<1>1. \/ \E line \in List : domain \in RuleDomain(line)
      \/ \E line \in Custom : domain \in CustomDomain(line)
  BY DEF Rules, Domains, ListDomains
<1>2. PICK line \in List \cup Custom : domain \in RuleDomain(line) \/ domain \in CustomDomain(line)
  BY <1>1
<1>3. domain = NormalHost(line.name) /\ IsDomainLike(NormalHost(line.name))
  BY <1>2 DEF RuleDomain, CustomDomain
<1>4. IsName(line.name)
  BY NamesAssumption
<1> QED BY <1>3, <1>4, ReadDomain

-----------------------------------------------------------------------------
(* The route.                                                              *)

LEMMA MadeName ==
  ASSUME NEW n \in Nat, NEW f, DOMAIN f = 1 .. n, f = [i \in DOMAIN f |-> f[i]]
  PROVE  IsName(f)
<1> DEFINE T == ToSet(f)
<1>1. f \in [1 .. n -> T]
  BY DEF ToSet
<1> HIDE DEF T
<1>2. f \in Seq(T)
  BY <1>1, SeqDef
<1> QED BY <1>2 DEF IsName, T

\* The host of a SOCKS5 request is a name.
LEMMA HostsAreNames ==
  ASSUME NEW T, NEW octets \in Seq(T), NEW type, NEW host \in Hosts(type, octets)
  PROVE  IsName(host)
<1>1. Len(octets) \in Nat /\ DOMAIN octets = 1 .. Len(octets)
  OBVIOUS
<1>2. \/ host = [i \in DOMAIN octets |-> ToString(octets[i])]
      \/ host = [i \in DOMAIN octets |-> Labels[octets[i]]]
      \/ \E label : host = <<label>>
  BY DEF Hosts
<1>3. CASE host = [i \in DOMAIN octets |-> ToString(octets[i])]
  <2>1. DOMAIN host = 1 .. Len(octets) /\ host = [i \in DOMAIN host |-> host[i]]
    BY <1>1, <1>3
  <2> QED BY <1>1, <2>1, MadeName
<1>4. CASE host = [i \in DOMAIN octets |-> Labels[octets[i]]]
  <2>1. DOMAIN host = 1 .. Len(octets) /\ host = [i \in DOMAIN host |-> host[i]]
    BY <1>1, <1>4
  <2> QED BY <1>1, <2>1, MadeName
<1>5. CASE \E label : host = <<label>>
  <2>1. PICK label : host = <<label>>
    BY <1>5
  <2>2. host \in Seq({label}) /\ DOMAIN host = 1 .. 1 /\ host[1] = label
    BY <2>1
  <2>3. ToSet(host) = {label}
    BY <2>2 DEF ToSet
  <2> QED BY <2>2, <2>3 DEF IsName
<1> QED BY <1>2, <1>3, <1>4, <1>5

\* Which route an outcome is to have.
RoutedWell(outcome) ==
  outcome.kind \in {"connect", "http"} =>
    /\ IsName(outcome.authority.host)
    /\ outcome.proxied <=> Matches(Rules, outcome.authority.host)

HostInv ==
  /\ request = [command |-> request.command, type |-> request.type, host |-> request.host]
  /\ pc = "port" => IsName(request.host)
  /\ pc \in {"answer", "done"} => RoutedWell(result[1])

LEMMA RouteIsGood ==
  ASSUME NEW kind, NEW authority, NEW head, NEW leftover, NEW proxied, IsName(authority.host)
  PROVE  RoutedWell(Route([kind |-> kind, authority |-> authority, head |-> head,
                           leftover |-> leftover, proxied |-> proxied]))
<1> DEFINE outcome == [kind |-> kind, authority |-> authority, head |-> head,
                       leftover |-> leftover, proxied |-> proxied]
           found == Matches(Rules, authority.host)
<1>1. outcome.kind = kind /\ outcome.authority = authority
  OBVIOUS
<1>2. CASE kind \notin {"connect", "http"}
  BY <1>1, <1>2 DEF Route, RoutedWell
<1>3. CASE kind \in {"connect", "http"} /\ ~HasHost(authority)
  BY <1>1, <1>3 DEF Route, RoutedWell
<1>4. CASE kind \in {"connect", "http"} /\ HasHost(authority)
  <2>1. Route(outcome) = [outcome EXCEPT !.proxied = Matches(Rules, outcome.authority.host)]
    <3> HIDE DEF outcome
    <3> QED BY <1>1, <1>4 DEF Route
  <2>2. Route(outcome) = [kind |-> kind, authority |-> authority, head |-> head,
                          leftover |-> leftover, proxied |-> found]
    BY <2>1
  <2> HIDE DEF found, outcome
  <2>3. Route(outcome).authority = authority /\ Route(outcome).proxied = found
    BY <2>2
  <2>4. IsName(Route(outcome).authority.host)
    BY <2>3
  <2>5. Route(outcome).proxied <=> Matches(Rules, Route(outcome).authority.host)
    BY <2>3, Zenon DEF found
  <2> QED BY <2>4, <2>5 DEF RoutedWell, outcome
<1> QED BY <1>2, <1>3, <1>4

\* What is no request has no route.
LEMMA NoRequest ==
  ASSUME NEW outcome, outcome.kind \notin {"connect", "http"}
  PROVE  RoutedWell(Route(outcome))
  BY DEF Route, RoutedWell

LEMMA HostInit == Init => HostInv
<1> SUFFICES ASSUME Init PROVE HostInv
  OBVIOUS
<1>1. request = [command |-> 0, type |-> 0, host |-> <<>>]
  BY DEF Init
<1>2. request = [command |-> request.command, type |-> request.type, host |-> request.host]
  BY <1>1
<1>3. pc \in {"head", "greeting", "dial", "datagram"}
  BY Streams DEF Init, Start
<1> QED BY <1>2, <1>3 DEF HostInv

LEMMA HostPreserved == IInv /\ HostInv /\ [Next]_vars => HostInv'
<1> SUFFICES ASSUME IInv, HostInv, [Next]_vars PROVE HostInv'
  OBVIOUS
<1>0. TypeOK /\ ReaderInv
  BY DEF IInv
\* A step that ends the handshake, and one that does not.
<1>1. ASSUME NEW outcome, Finish(outcome), RoutedWell(Route(outcome)), UNCHANGED request PROVE HostInv'
  BY <1>1 DEF HostInv, Finish
<1>2. ASSUME pc' \notin {"port", "answer", "done"}, UNCHANGED request PROVE HostInv'
  BY <1>2 DEF HostInv
<1>3. RoutedWell(Route(Failure)) /\ \A kind \in {"udp", "tunnel"} : RoutedWell(Route([kind |-> kind, leftover |-> <<>>]))
  BY NoRequest DEF Failure
<1>4. CASE UNCHANGED vars \/ Arrive \/ Close
  <2>1. UNCHANGED <<pc, request, result>>
    BY <1>4 DEF vars, Arrive, Close
  <2> QED BY <2>1 DEF HostInv, RoutedWell, Rules, Domains
<1>5. CASE ReadHead
  <2>1. pc = "head" /\ input.reader = "http" /\ UNCHANGED request
    BY <1>0, <1>5, WhoseStep DEF ReadHead
  <2> DEFINE n == Min({arrived - taken, Chunk})
             end == Min(HeadIn(n))
             outcome == Parsed[SubSeq(stream, 1, end)]
  <2>2. \/ Refuse
        \/ UNCHANGED pc
        \/ HeadIn(n) # {} /\ Accepted(outcome) /\ Finish(ProxyRequest(outcome, Leftover(end, n)))
    BY <1>5 DEF ReadHead
  <2>3. CASE Refuse
    BY <1>1, <1>3, <2>1, <2>3 DEF Refuse
  <2>4. CASE UNCHANGED pc
    BY <1>2, <2>1, <2>4
  <2>5. CASE HeadIn(n) # {} /\ Accepted(outcome) /\ Finish(ProxyRequest(outcome, Leftover(end, n)))
    <3>1. /\ input \in Inputs /\ stream = input.stream /\ stream \in Seq(Made(input)) /\ taken \in Nat
          /\ arrived \in Nat /\ arrived <= Len(stream) /\ Len(stream) \in Nat /\ taken < arrived
      BY <1>0, <1>5, TheStream DEF ReadHead
    <3>2. n \in {arrived - taken, Chunk} /\ n <= arrived - taken
      <4> DEFINE both == {arrived - taken, Chunk}
      <4>1. both \in SUBSET Nat /\ both # {}
        BY <3>1, Bounds
      <4>2. Min(both) \in both /\ \A y \in both : Min(both) <= y
        BY <4>1, Least
      <4> QED BY <4>2
    <3> HIDE DEF n
    <3>3. taken + n \in 0 .. Len(stream)
      BY <3>1, <3>2, Bounds
    <3>4. HeadIn(n) = {i \in HeadEnds(stream) : i + 4 <= taken + n} /\ HeadEnds(stream) \in SUBSET Nat
      BY <3>1, <3>3, HeadEndsOfPiece, HeadEndsAreNat DEF HeadIn
    <3>5. end \in HeadEnds(stream)
      BY <2>5, <3>4, Least
    <3> DEFINE head == SubSeq(stream, 1, end)
    <3>6. Parsed[head] = Request(head)
      <4> DEFINE Heads(in) == {SubSeq(in.stream, 1, e) : e \in HeadEnds(in.stream)}
      <4>1. head \in Heads(input) /\ input \in {i \in Inputs : i.reader = "http"}
        BY <2>1, <3>1, <3>5
      <4> HIDE DEF Heads, head
      <4>2. head \in UNION {Heads(in) : in \in {i \in Inputs : i.reader = "http"}}
        BY <4>1
      <4> QED BY <4>2 DEF Parsed, Heads
    <3>7. Accepted(Request(head)) /\ IsName(Request(head).authority.host)
      BY <2>1, <2>5, <3>1, <3>5, <3>6, InputsAssumption
    <3> DEFINE rest == Leftover(end, n)
               asked == Request(head)
    <3>8. Finish(ProxyRequest(asked, rest)) /\ IsName(asked.authority.host)
      BY <2>5, <3>6, <3>7
    <3> HIDE DEF rest, asked, head, outcome, end
    <3>9. RoutedWell(Route(ProxyRequest(asked, rest)))
      BY <3>8, RouteIsGood DEF ProxyRequest
    <3> QED BY <1>1, <2>1, <3>8, <3>9
  <2> HIDE DEF n, end, outcome
  <2> QED BY <2>2, <2>3, <2>4, <2>5
<1>6. CASE HeadBreaksOff \/ RequestBreaksOff \/ Fails
  BY <1>1, <1>3, <1>6 DEF HeadBreaksOff, RequestBreaksOff, Refused, Refuse, Fails
<1>7. CASE ReadGreeting \/ ReadMethods \/ ReadLength
  <2>1. UNCHANGED request /\ (pc' \in {"methods", "command", "address"} \/ Finish(Failure))
    BY <1>7 DEF ReadGreeting, ReadMethods, ReadLength, Await, Refused, Refuse
  <2> QED BY <1>1, <1>2, <1>3, <2>1
<1>8. CASE ReadCommand
  <2>1. request' = [command |-> Octets[2], type |-> Octets[4], host |-> <<>>]
        /\ (pc' \in {"address", "length"} \/ Finish(Failure))
    BY <1>8 DEF ReadCommand, Await, Refuse
  <2>2. (request = [command |-> request.command, type |-> request.type, host |-> request.host])'
    BY <2>1
  <2>3. CASE pc' \in {"address", "length"}
    BY <2>2, <2>3 DEF HostInv
  <2>4. CASE Finish(Failure)
    BY <1>3, <2>2, <2>4 DEF HostInv, Finish
  <2> QED BY <2>1, <2>3, <2>4
<1>9. CASE ReadAddress
  <2>1. CASE Refused
    BY <1>1, <1>3, <2>1 DEF Refused, Refuse
  <2>2. CASE \E host \in Hosts(request.type, Octets) :
               request' = [request EXCEPT !.host = host] /\ Await("port", 2)
    <3>1. PICK host \in Hosts(request.type, Octets) :
                 request' = [request EXCEPT !.host = host] /\ Await("port", 2)
      BY <2>2
    <3>2. Octets \in Seq(0 .. 255)
      <4>1. pc = "address" /\ want <= arrived - taken
        BY <1>0, <1>9, TheStream DEF ReadAddress, Got
      <4>2. input.reader = "socks5"
        BY <1>0, <4>1, WhoseStep DEF SocksSteps
      <4> QED BY <1>0, <4>1, <4>2, Returned
    <3>3. IsName(host)
      BY <3>2, HostsAreNames
    <3>4. request' = [command |-> request.command, type |-> request.type, host |-> host]
      BY <3>1 DEF HostInv
    <3>5. request'.host = host /\ (request = [command |-> request.command, type |-> request.type, host |-> request.host])'
      BY <3>4
    <3>6. pc' = "port"
      BY <3>1 DEF Await
    <3> QED BY <3>3, <3>5, <3>6 DEF HostInv
  <2> QED BY <1>9, <2>1, <2>2 DEF ReadAddress
<1>10. CASE ReadPort
  <2>1. UNCHANGED request /\ IsName(request.host)
    BY <1>10 DEF ReadPort, Got, HostInv
  <2>2. CASE request.command = 3
    <3>1. Finish([kind |-> "udp", leftover |-> <<>>])
      BY <1>10, <2>2 DEF ReadPort
    <3> QED BY <1>1, <1>3, <2>1, <3>1
  <2>3. CASE request.command # 3
    <3> DEFINE where == SocksAuthority(Octets)
               outcome == [kind |-> "connect", authority |-> where, head |-> <<>>,
                           leftover |-> <<>>, proxied |-> FALSE]
    <3>1. Finish(outcome)
      BY <1>10, <2>3 DEF ReadPort
    <3>2. where.host = request.host
      BY DEF SocksAuthority
    <3> HIDE DEF where
    <3>3. RoutedWell(Route(outcome))
      BY <2>1, <3>2, RouteIsGood
    <3> HIDE DEF outcome
    <3> QED BY <1>1, <2>1, <3>1, <3>3
  <2> QED BY <2>2, <2>3
<1>11. CASE Dialed \/ Resolved \/ SendConnect
  <2>1. UNCHANGED request /\ pc' \notin {"port", "answer", "done"}
    <3>1. CASE Dialed
      <4>1. pc = "dial"
        BY <3>1 DEF Dialed
      <4>2. input.reader = "upstream"
        BY <1>0, <4>1, WhoseStep DEF UpstreamSteps
      <4>3. input.proxy \in {"http", "socks5", "socks5h"}
        BY <1>0, <4>2, TheStream, Streams
      <4>4. pc' \in {"send", "resolve", "library"}
        BY <3>1, <4>3 DEF Dialed
      <4> QED BY <3>1, <4>4 DEF Dialed
    <3>2. CASE Resolved \/ SendConnect
      BY <3>2 DEF Resolved, SendConnect
    <3> QED BY <1>11, <3>1, <3>2
  <2> QED BY <1>2, <2>1
<1>12. CASE LibraryConnects
  BY <1>1, <1>3, <1>12 DEF LibraryConnects
<1>13. CASE ReadResponse
  <2>1. UNCHANGED request /\ pc = "response"
    BY <1>13 DEF ReadResponse
  <2>2. UNCHANGED pc \/ Finish([kind |-> "tunnel", leftover |-> <<>>]) \/ Finish(Failure)
    BY <1>13 DEF ReadResponse
  <2> QED BY <1>1, <1>2, <1>3, <2>1, <2>2
<1>14. CASE ReadDatagram
  <2>1. UNCHANGED request
    BY <1>14 DEF ReadDatagram
  <2> DEFINE outcome == ParseDatagram(stream)
  <2>2. \/ Accepted(outcome) /\ pc' = "answer" /\ result' = <<outcome>>
        \/ ~Accepted(outcome) /\ Finish(outcome)
    BY <1>14 DEF ReadDatagram
  <2>4. Accepted(outcome) => outcome.kind = "datagram"
    <3>1. input.reader = "datagram"
      BY <1>0, <1>14, WhoseStep DEF ReadDatagram
    <3> QED BY <1>0, <3>1, TheStream, Payload
  <2> HIDE DEF outcome
  <2>3. CASE ~Accepted(outcome) /\ Finish(outcome)
    <3>1. RoutedWell(Route(outcome))
      BY <2>3, NoRequest DEF Accepted
    <3> QED BY <1>1, <2>1, <2>3, <3>1
  <2>5. CASE Accepted(outcome) /\ pc' = "answer" /\ result' = <<outcome>>
    <3>1. RoutedWell(outcome)
      BY <2>4, <2>5 DEF RoutedWell
    <3> QED BY <2>1, <2>5, <3>1 DEF HostInv
  <2> QED BY <2>2, <2>3, <2>5
<1>15. CASE SendDatagram
  <2>1. pc = "answer" /\ pc' = "done" /\ UNCHANGED <<request, result>>
    BY <1>15 DEF SendDatagram
  <2> QED BY <2>1 DEF HostInv, RoutedWell, Rules, Domains
<1>16. \/ UNCHANGED vars \/ Arrive \/ Close \/ ReadHead \/ HeadBreaksOff \/ RequestBreaksOff \/ Fails
       \/ ReadGreeting \/ ReadMethods \/ ReadLength \/ ReadCommand \/ ReadAddress \/ ReadPort
       \/ Dialed \/ Resolved \/ SendConnect \/ LibraryConnects \/ ReadResponse \/ ReadDatagram
       \/ SendDatagram
  BY DEF Next, Step, Overdue, ResponseTooLarge, ResponseBreaksOff, UpstreamFails
<1> QED BY <1>4, <1>5, <1>6, <1>7, <1>8, <1>9, <1>10, <1>11, <1>12, <1>13, <1>14, <1>15, <1>16

LEMMA HostsAreRouted == Spec => [](IInv /\ HostInv)
<1>1. Init => HostInv
  BY HostInit
<1>2. IInv /\ HostInv /\ [Next]_vars => HostInv'
  BY HostPreserved
<1> QED BY <1>1, <1>2, Inductive, PTL DEF Spec

\* The gateway carries a tunnel exactly if a domain in force is what its host ends
\* with, at a dot, in any case and with any outer dots (DomainRules::matches, and
\* the choice of the route in handle_client and handle_socks_client).
RoutedByRules ==
  Ended /\ result[1].kind \in {"connect", "http"} =>
    (result[1].proxied <=> \E domain \in Rules : Under(result[1].authority.host, domain))

THEOREM RouteFollowsRules == Spec => []RoutedByRules
<1>1. ASSUME HostInv PROVE RoutedByRules
  <2> SUFFICES ASSUME Ended, result[1].kind \in {"connect", "http"}
               PROVE  result[1].proxied <=> \E domain \in Rules : Under(result[1].authority.host, domain)
    BY DEF RoutedByRules
  <2> DEFINE host == result[1].authority.host
  <2>1. IsName(host) /\ (result[1].proxied <=> Matches(Rules, host))
    BY <1>1 DEF HostInv, RoutedWell, Ended
  <2> HIDE DEF host
  <2>2. Matches(Rules, host) <=> \E domain \in Rules : Under(host, domain)
    BY <2>1, RulesAreDomains, Matching
  <2> QED BY <2>1, <2>2, Zenon DEF host
<1> QED BY <1>1, HostsAreRouted, PTL

\* If what is read from each line is what it means, the route is the one the lists
\* mean for the host the tunnel goes to (parse_gfwlist_text, download_and_parse,
\* DomainRules::matches).
THEOREM RouteIsAsListed == ReadAsMeant => (Spec => []RoutedAsListed)
<1> SUFFICES ASSUME ReadAsMeant PROVE Spec => []RoutedAsListed
  OBVIOUS
<1>1. \A domain : domain \in Rules <=> \E line \in List \cup Custom : domain \in line.means
  BY DEF ReadAsMeant, Rules, Domains, ListDomains
<1>2. RoutedByRules => RoutedAsListed
  BY <1>1, Zenon DEF RoutedByRules, RoutedAsListed
<1> QED BY <1>2, RouteFollowsRules, PTL

-----------------------------------------------------------------------------
(* What a whole stream says.                                               *)

\* Where the address of a SOCKS5 request begins, and what the request asks for: the
\* command, and the host and port that are at their places in the stream.
AddressAt == IF stream[TypeAt] = DomainType THEN TypeAt + 2 ELSE TypeAt + 1
AskedFor == stream[TypeAt - 2]
SocksRead ==
  /\ taken \in SocksEnd(stream)
  /\ stream[1] = 5 /\ stream[TypeAt - 3] = 5 /\ \E i \in 1 .. stream[2] : stream[i + 2] = 0
  /\ \E host \in Hosts(stream[TypeAt], SubSeq(stream, AddressAt, taken - 2)) :
       \/ AskedFor = 3 /\ result[1] = [kind |-> "udp", leftover |-> <<>>]
       \/ /\ AskedFor = 1
          /\ result[1] = Route([kind |-> "connect",
                                authority |-> [bracket |-> stream[TypeAt] = Ipv6Type, host |-> host,
                                               port |-> SubSeq(stream, taken - 1, taken)],
                                head |-> <<>>, leftover |-> <<>>, proxied |-> FALSE])

\* An upstream proxy is asked for the target and for nothing else, and believed when
\* the whole of its answer says so.
AnswerRead ==
  /\ result[1] = [kind |-> "tunnel", leftover |-> <<>>]
  /\ input.proxy = "http" =>
       /\ sent = <<ConnectAuthority(input.target)>>
       /\ \E end \in FirstEnd(stream) : end + 4 = taken /\ Confirms(SubSeq(stream, 1, end + 4))

\* What is known of a request before it is read to its end.
AskedInv ==
  /\ input.reader = "socks5" =>
       /\ pc \in SocksSteps \ {"greeting"} => stream[1] = 5
       /\ pc \in {"command", "length", "address", "port"} => \E i \in 1 .. stream[2] : stream[i + 2] = 0
       /\ pc \in {"length", "address", "port"} =>
            /\ stream[TypeAt - 3] = 5 /\ AskedFor \in {1, 3}
            /\ request.command = AskedFor /\ request.type = stream[TypeAt]
       /\ pc = "port" => request.host \in Hosts(stream[TypeAt], SubSeq(stream, AddressAt, taken))
       /\ pc = "done" => SocksRead \/ result[1] = Failure
  /\ input.reader = "upstream" =>
       /\ pc \in {"dial", "resolve", "library", "send"} => sent = <<>>
       /\ pc = "response" => sent = <<ConnectAuthority(input.target)>>
       /\ pc = "done" => AnswerRead \/ result[1] = Failure
  /\ input.reader = "datagram" /\ pc \in {"answer", "done"} => result[1] = ParseDatagram(stream)

LEMMA AskedInit == Init => AskedInv
<1> SUFFICES ASSUME Init PROVE AskedInv
  OBVIOUS
<1>1. /\ input.reader = "socks5" => pc = "greeting"
      /\ input.reader = "upstream" => pc = "dial"
      /\ input.reader = "datagram" => pc = "datagram"
      /\ sent = <<>>
  BY DEF Init, Start
<1> QED BY <1>1 DEF AskedInv, SocksSteps

\* What a stream says does not change.
LEMMA Unchanged ==
  ASSUME AskedInv, UNCHANGED <<input, pc, taken, request, sent, result>>
  PROVE  AskedInv'
<1>1. stream' = stream /\ TypeAt' = TypeAt
  BY DEF TypeAt, stream
<1>2. AddressAt' = AddressAt /\ AskedFor' = AskedFor
  BY <1>1 DEF AddressAt, AskedFor
<1>3. SocksRead => SocksRead'
  BY <1>1, <1>2 DEF SocksRead
<1>4. AnswerRead => AnswerRead'
  BY <1>1 DEF AnswerRead, ConnectAuthority
<1> QED BY <1>1, <1>2, <1>3, <1>4 DEF AskedInv, ConnectAuthority

LEMMA AskedSocks ==
  ASSUME IInv, HostInv, AskedInv, input.reader = "socks5", Reads
  PROVE  AskedInv'
<1> DEFINE s == stream
           type == s[2] + 6
<1>0. TypeOK /\ SocksInv
  BY DEF IInv, ReaderInv
<1>1. /\ s \in Seq(0 .. 255) /\ taken \in Nat /\ want \in Nat /\ arrived \in Nat
      /\ arrived <= Len(s) /\ Len(s) \in Nat
  BY <1>0, TheStream
<1>2. /\ want <= arrived - taken /\ taken' = taken + want /\ UNCHANGED <<input, arrived, closed>>
      /\ pc \in SocksSteps
  BY <1>1 DEF Reads, ReadGreeting, ReadMethods, ReadCommand, ReadLength, ReadAddress, ReadPort, Got,
              peer, SocksSteps
<1>3. \A i \in 1 .. want : Octets[i] = s[taken + i]
  BY <1>0, <1>2, Returned
<1>4. stream' = s /\ input'.reader = "socks5"
  BY <1>2 DEF stream
<1>5. TypeAt = type /\ TypeAt' = type /\ AskedFor = s[type - 2] /\ AskedFor' = s[type - 2]
      /\ AddressAt' = AddressAt
  BY <1>4 DEF TypeAt, AskedFor, AddressAt
<1> HIDE DEF s
\* A read that refuses.
<1>6. ASSUME Finish(Failure) PROVE AskedInv'
  BY <1>4, <1>6, Routed DEF AskedInv, Finish, SocksSteps
<1>7. CASE ReadGreeting
  <2>1. taken = 0 /\ want = 2 /\ pc = "greeting"
    BY <1>0, <1>7 DEF ReadGreeting, Got, SocksInv
  <2>2. Octets[1] = s[1]
    <3>1. 1 \in 1 .. want /\ taken + 1 = 1
      BY <2>1
    <3> QED BY <1>3, <3>1
  <2>3. (s[1] = 5 /\ pc' = "methods") \/ Finish(Failure)
    BY <1>7, <2>2 DEF ReadGreeting, Await, Refused, Refuse
  <2>4. CASE s[1] = 5 /\ pc' = "methods"
    BY <1>4, <2>4 DEF AskedInv, SocksSteps
  <2> QED BY <1>6, <2>3, <2>4
<1>8. CASE ReadMethods
  <2>1. taken = 2 /\ want = s[2] /\ pc = "methods" /\ s[1] = 5
    BY <1>0, <1>8 DEF ReadMethods, Got, SocksInv, AskedInv, SocksSteps, s
  <2>2. (0 \in ToSet(Octets) /\ pc' = "command") \/ Finish(Failure)
    BY <1>8 DEF ReadMethods, Await
  <2>3. CASE 0 \in ToSet(Octets) /\ pc' = "command"
    <3>1. DOMAIN Octets = 1 .. want
      BY <1>0, <1>1, <1>2, Returned
    <3>2. PICK i \in 1 .. want : Octets[i] = 0
      BY <2>3, <3>1 DEF ToSet
    <3>3. s[taken + i] = 0 /\ taken + i = i + 2 /\ i \in 1 .. s[2]
      BY <1>3, <2>1, <3>2
    <3>4. \E k \in 1 .. s[2] : s[k + 2] = 0
      BY <3>3
    <3> QED BY <1>4, <2>1, <2>3, <3>4 DEF AskedInv, SocksSteps
  <2> QED BY <1>6, <2>2, <2>3
<1>9. ASSUME pc \in {"command", "length", "address", "port"}
      PROVE  s[1] = 5 /\ \E k \in 1 .. s[2] : s[k + 2] = 0
  BY <1>9 DEF AskedInv, SocksSteps, s
<1>10. CASE ReadCommand
  <2>1. taken = s[2] + 2 /\ want = 4 /\ pc = "command" /\ Len(s) >= 2
    BY <1>0, <1>10 DEF ReadCommand, Got, SocksInv, SocksSteps, s
  <2>2. Octets[1] = s[type - 3] /\ Octets[2] = s[type - 2] /\ Octets[4] = s[type]
    <3>1. s[2] \in Nat
      <4>1. 2 \in 1 .. Len(s)
        BY <1>1, <2>1
      <4>2. s[2] \in 0 .. 255
        BY <1>1, <4>1, ElementOfSeq
      <4> QED BY <4>2, OctetsAreNat
    <3>2. taken + 1 = type - 3 /\ taken + 2 = type - 2 /\ taken + 4 = type
      <4> DEFINE m == s[2]
      <4>1. m \in Nat /\ taken = m + 2 /\ type = m + 6
        BY <2>1, <3>1
      <4> HIDE DEF m, type
      <4> QED BY <4>1
    <3>3. 1 \in 1 .. want /\ 2 \in 1 .. want /\ 4 \in 1 .. want
      BY <2>1
    <3> HIDE DEF type
    <3> QED BY <1>3, <3>2, <3>3
  <2>3. \/ Finish(Failure)
        \/ /\ Octets[1] = 5 /\ Octets[2] \in {1, 3} /\ pc' \in {"address", "length"}
           /\ request' = [command |-> Octets[2], type |-> Octets[4], host |-> <<>>]
    BY <1>10 DEF ReadCommand, Refuse, Await
  <2>4. CASE /\ Octets[1] = 5 /\ Octets[2] \in {1, 3} /\ pc' \in {"address", "length"}
             /\ request' = [command |-> Octets[2], type |-> Octets[4], host |-> <<>>]
    <3>1. request'.command = s[type - 2] /\ request'.type = s[type] /\ s[type - 2] \in {1, 3} /\ s[type - 3] = 5
      BY <2>2, <2>4
    <3>2. s[1] = 5 /\ \E k \in 1 .. s[2] : s[k + 2] = 0
      BY <1>9, <2>1
    <3> HIDE DEF type
    <3> QED BY <1>4, <1>5, <2>4, <3>1, <3>2 DEF AskedInv, SocksSteps
  <2> QED BY <1>6, <2>3, <2>4
<1>11. ASSUME pc \in {"length", "address", "port"}
       PROVE  /\ s[type - 3] = 5 /\ s[type - 2] \in {1, 3}
              /\ request.command = s[type - 2] /\ request.type = s[type]
  <2> HIDE DEF type
  <2> QED BY <1>5, <1>11 DEF AskedInv, s
<1>12. CASE ReadLength
  <2>1. pc = "length" /\ pc' = "address" /\ request' = request
    BY <1>12 DEF ReadLength, Got, Await
  <2>2. /\ s[type - 3] = 5 /\ s[type - 2] \in {1, 3}
        /\ request.command = s[type - 2] /\ request.type = s[type]
    BY <1>11, <2>1
  <2>3. s[1] = 5 /\ \E k \in 1 .. s[2] : s[k + 2] = 0
    BY <1>9, <2>1
  <2> HIDE DEF type
  <2> QED BY <1>4, <1>5, <2>1, <2>2, <2>3 DEF AskedInv, SocksSteps
<1>13. CASE ReadAddress
  <2>1. pc = "address"
    BY <1>13 DEF ReadAddress, Got
  <2>2. /\ s[type - 3] = 5 /\ s[type - 2] \in {1, 3}
        /\ request.command = s[type - 2] /\ request.type = s[type]
    BY <1>11, <2>1
  <2>3. s[1] = 5 /\ \E k \in 1 .. s[2] : s[k + 2] = 0
    BY <1>9, <2>1
  <2>4. CASE Refused
    BY <1>6, <2>4 DEF Refused, Refuse
  <2>5. CASE \E host \in Hosts(request.type, Octets) :
               request' = [request EXCEPT !.host = host] /\ Await("port", 2)
    <3>1. PICK host \in Hosts(request.type, Octets) :
                 request' = [request EXCEPT !.host = host] /\ Await("port", 2)
      BY <2>5
    <3>2. request' = [command |-> request.command, type |-> request.type, host |-> host]
      BY <3>1 DEF HostInv
    <3>3. request'.command = request.command /\ request'.type = request.type /\ request'.host = host
          /\ pc' = "port"
      BY <3>1, <3>2 DEF Await
    <3>4. taken + 1 = AddressAt
      <4>1. \/ taken = type /\ s[type] \in {Ipv4Type, Ipv6Type}
            \/ taken = type + 1 /\ s[type] = DomainType
        <5> HIDE DEF type
        <5> QED BY <1>0, <1>5, <2>1 DEF SocksInv, SocksSteps, s
      <4>2. AddressAt = IF s[type] = DomainType THEN type + 2 ELSE type + 1
        BY DEF AddressAt, TypeAt, s
      <4>3. type \in Int
        <5> HIDE DEF type
        <5>1. 2 \in 1 .. Len(s)
          BY <1>0, <1>1, <2>1 DEF SocksInv, SocksSteps, s
        <5>2. s[2] \in 0 .. 255
          BY <1>1, <5>1, ElementOfSeq
        <5> QED BY <5>2, OctetsAreNat DEF type
      <4> HIDE DEF type
      <4> QED BY <4>1, <4>2, <4>3 DEF Ipv4Type, Ipv6Type, DomainType
    <3>5. Octets = SubSeq(s, AddressAt, taken')
      BY <1>2, <3>4 DEF Octets, s
    <3>6. host \in Hosts(s[type], SubSeq(s, AddressAt, taken'))
      BY <2>2, <3>1, <3>5
    <3> HIDE DEF type
    <3> QED BY <1>4, <1>5, <2>2, <2>3, <3>3, <3>6 DEF AskedInv, SocksSteps
  <2> QED BY <1>13, <2>4, <2>5 DEF ReadAddress
<1>14. CASE ReadPort
  <2>1. pc = "port" /\ want = 2 /\ pc' = "done"
    BY <1>0, <1>14 DEF ReadPort, Got, SocksInv, Finish
  <2>2. /\ s[type - 3] = 5 /\ s[type - 2] \in {1, 3}
        /\ request.command = s[type - 2] /\ request.type = s[type]
    BY <1>11, <2>1
  <2>3. s[1] = 5 /\ \E k \in 1 .. s[2] : s[k + 2] = 0
    BY <1>9, <2>1
  <2>4. taken = taken' - 2 /\ Octets = SubSeq(s, taken' - 1, taken')
    <3>1. taken' = taken + 2 /\ taken + 1 = taken' - 1 /\ taken = taken' - 2
      BY <1>1, <1>2, <2>1
    <3> QED BY <2>1, <3>1 DEF Octets, s
  <2>5. request.host \in Hosts(s[type], SubSeq(s, AddressAt, taken' - 2))
    <3>1. request.host \in Hosts(stream[TypeAt], SubSeq(stream, AddressAt, taken))
      BY <2>1 DEF AskedInv
    <3> QED BY <1>5, <2>4, <3>1 DEF s
  <2> DEFINE where == [bracket |-> s[type] = Ipv6Type, host |-> request.host,
                       port |-> SubSeq(s, taken' - 1, taken')]
             asked == [kind |-> "connect", authority |-> where, head |-> <<>>,
                       leftover |-> <<>>, proxied |-> FALSE]
             udp == [kind |-> "udp", leftover |-> <<>>]
  <2>6. SocksAuthority(Octets) = where
    BY <2>2, <2>4 DEF SocksAuthority
  <2>7. \/ s[type - 2] = 3 /\ result' = <<udp>>
        \/ s[type - 2] = 1 /\ result' = <<Route(asked)>>
    <3>1. CASE s[type - 2] = 3
      BY <1>14, <2>2, <3>1, Routed DEF ReadPort, Finish
    <3>2. CASE s[type - 2] = 1
      <4>1. request.command # 3
        BY <2>2, <3>2
      <4> QED BY <1>14, <2>6, <3>2, <4>1 DEF ReadPort, Finish
    <3> QED BY <2>2, <3>1, <3>2
  <2>8. Accepted(result'[1])
    <3>1. Accepted(udp) /\ Accepted(Route(asked))
      BY DEF Accepted, Route
    <3> HIDE DEF udp, asked
    <3> QED BY <2>7, <3>1
  <2>9. taken' \in SocksEnd(s)
    <3>1. SocksInv'
      BY <1>0, SocksReads
    <3> QED BY <1>4, <2>1, <2>8, <3>1 DEF SocksInv
  <2>10. SocksRead'
    <3>1. \E host \in Hosts(s[type], SubSeq(s, AddressAt, taken' - 2)) :
            \/ s[type - 2] = 3 /\ result'[1] = udp
            \/ /\ s[type - 2] = 1
               /\ result'[1] = Route([kind |-> "connect",
                                      authority |-> [bracket |-> s[type] = Ipv6Type, host |-> host,
                                                     port |-> SubSeq(s, taken' - 1, taken')],
                                      head |-> <<>>, leftover |-> <<>>, proxied |-> FALSE])
      <4>1. \/ s[type - 2] = 3 /\ result'[1] = udp
            \/ s[type - 2] = 1 /\ result'[1] = Route(asked)
        <5> HIDE DEF udp, asked, type
        <5> QED BY <2>7
      <4> HIDE DEF type, udp
      <4> QED BY <2>5, <4>1, Zenon
    <3> HIDE DEF type
    <3> QED BY <1>4, <1>5, <2>2, <2>3, <2>9, <3>1 DEF SocksRead
  <2> QED BY <1>4, <2>1, <2>10 DEF AskedInv, SocksSteps
<1> QED BY <1>7, <1>8, <1>10, <1>12, <1>13, <1>14 DEF Reads

\* The answer of an upstream proxy.
LEMMA AskedUpstream ==
  ASSUME IInv, AskedInv, input.reader = "upstream", [Next]_vars, pc \in UpstreamSteps
  PROVE  AskedInv'
<1>0. TypeOK /\ UpstreamInv
  BY DEF IInv, ReaderInv
<1>1. \/ UNCHANGED vars \/ Arrive \/ Close \/ Dialed \/ Resolved \/ SendConnect
      \/ LibraryConnects \/ ReadResponse \/ Fails
  BY DEF Next, Step, Overdue, ReadHead, HeadBreaksOff, ReadGreeting, ReadMethods, Got,
         ReadCommand, ReadLength, ReadAddress, ReadPort, RequestBreaksOff, ReadDatagram, SendDatagram,
         AtUpstream, UpstreamSteps, ResponseTooLarge, ResponseBreaksOff, UpstreamFails
<1>2. CASE UNCHANGED vars \/ Arrive \/ Close
  BY <1>2, Unchanged DEF vars, Arrive, Close
<1>3. CASE Dialed \/ Resolved
  <2>1. pc \in {"dial", "resolve"} /\ UNCHANGED <<input, sent>>
    BY <1>3 DEF Dialed, Resolved, peer
  <2>2. pc' \in {"send", "resolve", "library"}
    <3>1. input.proxy \in {"http", "socks5", "socks5h"}
      BY <1>0, TheStream, Streams
    <3> QED BY <1>3, <3>1 DEF Dialed, Resolved
  <2>3. sent' = <<>>
    BY <2>1 DEF AskedInv
  <2> QED BY <2>1, <2>2, <2>3 DEF AskedInv
<1>4. CASE SendConnect
  <2>1. pc = "send" /\ pc' = "response" /\ input' = input
        /\ sent' = Append(sent, ConnectAuthority(input.target))
    BY <1>4 DEF SendConnect, peer
  <2>2. sent = <<>>
    BY <2>1 DEF AskedInv
  <2>3. sent' = <<ConnectAuthority(input.target)>>
    <3> DEFINE target == ConnectAuthority(input.target)
    <3>1. sent' = Append(<<>>, target)
      BY <2>1, <2>2
    <3> HIDE DEF target
    <3> QED BY <3>1 DEF target
  <2>4. ConnectAuthority(input.target)' = ConnectAuthority(input.target)
    BY <2>1 DEF ConnectAuthority
  <2> QED BY <2>1, <2>3, <2>4 DEF AskedInv
<1>5. CASE LibraryConnects
  <2>1. /\ pc = "library" /\ pc' = "done" /\ input' = input
        /\ result'[1] = [kind |-> "tunnel", leftover |-> <<>>]
    BY <1>5, Routed DEF LibraryConnects, Finish, peer
  <2>2. input.proxy # "http"
    BY <1>0, <2>1 DEF UpstreamInv
  <2>3. AnswerRead'
    BY <2>1, <2>2 DEF AnswerRead
  <2> QED BY <2>1, <2>3 DEF AskedInv
<1>6. CASE ReadResponse
  <2> DEFINE head == SubSeq(stream, 1, taken + 1)
             tunnel == [kind |-> "tunnel", leftover |-> <<>>]
  <2>1. /\ pc = "response" /\ taken' = taken + 1 /\ UNCHANGED <<input, request, sent>> /\ stream' = stream
        /\ \/ UNCHANGED <<pc, result>>
           \/ Confirms(head) /\ Finish(tunnel)
           \/ Finish(Failure)
    BY <1>6 DEF ReadResponse, peer, stream
  <2>2. sent' = <<ConnectAuthority(input.target)>>
    BY <2>1 DEF AskedInv
  <2>3. CASE UNCHANGED <<pc, result>>
    BY <2>1, <2>2, <2>3 DEF AskedInv, ConnectAuthority
  <2>4. CASE Finish(Failure)
    <3>1. pc' = "done" /\ result'[1] = Failure
      BY <2>4, Routed DEF Finish
    <3> QED BY <2>1, <3>1 DEF AskedInv
  <2>5. CASE Confirms(head) /\ Finish(tunnel)
    <3>1. pc' = "done" /\ result'[1] = tunnel /\ Accepted(tunnel)
      BY <2>5, Routed DEF Finish, Accepted
    <3>2. taken' \in EndOf(input) /\ input.proxy = "http"
      <4>1. UpstreamInv'
        BY <1>0, <1>6, ReadsAnswer
      <4> HIDE DEF tunnel
      <4>2. taken' \in EndOf(input')
        BY <2>1, <3>1, <4>1 DEF UpstreamInv
      <4> QED BY <1>0, <2>1, <4>2 DEF UpstreamInv
    <3>3. PICK end \in FirstEnd(stream) : end + 4 = taken'
      BY <3>2 DEF EndOf, stream
    <3>4. Confirms(SubSeq(stream, 1, end + 4))
      BY <2>1, <2>5, <3>3
    <3>5. AnswerRead'
      BY <2>1, <2>2, <3>1, <3>3, <3>4 DEF AnswerRead, ConnectAuthority
    <3> QED BY <2>1, <3>1, <3>5 DEF AskedInv
  <2> HIDE DEF head, tunnel
  <2> QED BY <2>1, <2>3, <2>4, <2>5
<1>7. CASE Fails
  <2>1. pc' = "done" /\ result'[1] = Failure /\ input' = input
    BY <1>7, Routed DEF Fails, Finish, peer
  <2> QED BY <2>1 DEF AskedInv
<1> QED BY <1>1, <1>2, <1>3, <1>4, <1>5, <1>6, <1>7

LEMMA AskedDatagram ==
  ASSUME IInv, AskedInv, input.reader = "datagram", ReadDatagram \/ SendDatagram
  PROVE  AskedInv'
<1>1. UNCHANGED input /\ stream' = stream
  BY DEF ReadDatagram, SendDatagram, peer, stream
<1>2. CASE ReadDatagram
  <2> DEFINE outcome == ParseDatagram(stream)
  <2>1. result' = <<outcome>> \/ (~Accepted(outcome) /\ Finish(outcome))
    BY <1>2 DEF ReadDatagram
  <2>2. result'[1] = outcome
    <3> HIDE DEF outcome
    <3> QED BY <2>1 DEF Finish, Route, Accepted
  <2> QED BY <1>1, <2>2 DEF AskedInv
<1>3. CASE SendDatagram
  BY <1>1, <1>3 DEF SendDatagram, AskedInv
<1> QED BY <1>2, <1>3

LEMMA AskedPreserved == IInv /\ HostInv /\ AskedInv /\ [Next]_vars => AskedInv'
<1> SUFFICES ASSUME IInv, HostInv, AskedInv, [Next]_vars PROVE AskedInv'
  OBVIOUS
<1>0. TypeOK /\ ReaderInv
  BY DEF IInv
<1>1. input' = input
  BY DEF Next, vars, Arrive, Close, Step, Overdue, ReadHead, HeadBreaksOff, ReadGreeting, ReadMethods,
         ReadCommand, ReadLength, ReadAddress, ReadPort, RequestBreaksOff, Dialed, Resolved, SendConnect,
         LibraryConnects, ReadResponse, ResponseTooLarge, ResponseBreaksOff, UpstreamFails, ReadDatagram,
         SendDatagram, peer, Fails
<1>2. CASE UNCHANGED vars \/ Arrive \/ Close
  BY <1>2, Unchanged DEF vars, Arrive, Close
<1>3. CASE ReadHead \/ HeadBreaksOff
  <2>1. input.reader = "http"
    BY <1>0, <1>3, WhoseStep DEF ReadHead, HeadBreaksOff
  <2> QED BY <1>1, <2>1 DEF AskedInv
<1>4. CASE Reads
  <2>1. input.reader = "socks5"
    BY <1>0, <1>4, WhoseStep DEF Reads, ReadGreeting, ReadMethods, ReadCommand, ReadLength, ReadAddress,
                                 ReadPort, Got, SocksSteps
  <2> QED BY <1>4, <2>1, AskedSocks
<1>5. CASE RequestBreaksOff
  <2>1. input.reader = "socks5"
    BY <1>0, <1>5, WhoseStep DEF RequestBreaksOff, SocksSteps
  <2>2. pc' = "done" /\ result'[1] = Failure
    BY <1>5, Routed DEF RequestBreaksOff, Refused, Refuse, Finish
  <2> QED BY <1>1, <2>1, <2>2 DEF AskedInv, SocksSteps
<1>6. CASE pc \in UpstreamSteps
  BY <1>0, <1>6, WhoseStep, AskedUpstream
<1>7. CASE ReadDatagram \/ SendDatagram
  <2>1. input.reader = "datagram"
    BY <1>0, <1>7, WhoseStep DEF ReadDatagram, SendDatagram
  <2> QED BY <1>7, <2>1, AskedDatagram
<1> QED BY <1>2, <1>3, <1>4, <1>5, <1>6, <1>7
        DEF Next, Step, Overdue, AtUpstream, Dialed, Resolved, SendConnect, LibraryConnects, ReadResponse,
            ResponseTooLarge, ResponseBreaksOff, UpstreamFails, UpstreamSteps, Reads

-----------------------------------------------------------------------------
(* What a SOCKS5 request says, and why one is refused.                     *)

\* A stream of a known version, command and method, and what it asks for.
SocksAsks ==
  /\ stream[1] = 5 /\ stream[TypeAt - 3] = 5 /\ AskedFor \in {1, 3}
  /\ \E i \in 1 .. stream[2] : stream[i + 2] = 0

Said(host, end) ==
  IF AskedFor = 3 THEN [kind |-> "udp"]
  ELSE [kind |-> "connect", authority |-> [bracket |-> stream[TypeAt] = Ipv6Type, host |-> host,
                                           port |-> SubSeq(stream, end - 1, end)]]

LEMMA WhatIsSaid ==
  ASSUME NEW meaning
  PROVE  meaning \in SocksSays(stream) <=>
           /\ SocksAsks
           /\ \E end \in SocksEnd(stream) :
                \E host \in Hosts(stream[TypeAt], SubSeq(stream, AddressAt, end - 2)) :
                  meaning = Said(host, end)
<1> DEFINE Of(end) == Hosts(stream[TypeAt], SubSeq(stream, AddressAt, end - 2))
<1>1. SocksSays(stream) = UNION {{Said(host, end) : host \in Of(end)} : end \in {e \in SocksEnd(stream) : SocksAsks}}
  BY DEF SocksSays, SocksAsks, Said, TypeAt, AddressAt, AskedFor
<1> HIDE DEF Of
<1>2. meaning \in SocksSays(stream) <=>
        \E end \in {e \in SocksEnd(stream) : SocksAsks} : \E host \in Of(end) : meaning = Said(host, end)
  BY <1>1
<1> QED BY <1>2 DEF Of

\* The end of a request lies where the type of its address says.
LEMMA EndOfRequest ==
  ASSUME input \in Inputs, input.reader = "socks5", NEW end \in SocksEnd(stream)
  PROVE  /\ stream[2] \in Nat /\ TypeAt \in Nat /\ TypeAt = stream[2] + 6 /\ end \in Nat
         /\ TypeAt + 1 <= end /\ end <= Len(stream)
         /\ \/ stream[TypeAt] = Ipv4Type /\ end = TypeAt + 6
            \/ stream[TypeAt] = Ipv6Type /\ end = TypeAt + 18
            \/ /\ stream[TypeAt] = DomainType /\ stream[TypeAt + 1] \in Nat
               /\ end = TypeAt + stream[TypeAt + 1] + 3
<1>1. stream \in Seq(0 .. 255) /\ Len(stream) \in Nat
  BY Streams DEF stream
<1>2. ~(Len(stream) < 2) /\ end \in AddressEnd(stream, TypeAt)
  BY DEF SocksEnd, TypeAt
<1>3. stream[2] \in Nat
  <2>1. 2 \in 1 .. Len(stream)
    BY <1>1, <1>2
  <2>2. stream[2] \in 0 .. 255
    BY <1>1, <2>1, ElementOfSeq
  <2> QED BY <2>2, OctetsAreNat
<1>4. TypeAt \in Nat /\ TypeAt = stream[2] + 6
  BY <1>3 DEF TypeAt
<1>5. end \in TypeAt + 1 .. Len(stream)
      /\ \/ stream[TypeAt] = Ipv4Type /\ end = TypeAt + 6
         \/ stream[TypeAt] = Ipv6Type /\ end = TypeAt + 18
         \/ stream[TypeAt] = DomainType /\ end = TypeAt + stream[TypeAt + 1] + 3
  BY <1>2 DEF AddressEnd
<1>6. end \in Nat /\ TypeAt + 1 <= end /\ end <= Len(stream)
  BY <1>1, <1>4, <1>5
<1>7. stream[TypeAt + 1] \in Nat
  <2>1. TypeAt + 1 \in 1 .. Len(stream)
    BY <1>1, <1>4, <1>6
  <2>2. stream[TypeAt + 1] \in 0 .. 255
    BY <1>1, <2>1, ElementOfSeq
  <2> QED BY <2>2, OctetsAreNat
<1> QED BY <1>3, <1>4, <1>5, <1>6, <1>7

\* A request is refused if its whole stream says none, or it breaks off.
SocksWrong ==
  /\ result[1] = Failure
  /\ \/ SocksSays(stream) = {}
     \/ closed /\ \A end \in SocksEnd(stream) : end > arrived

WrongInv ==
  /\ input.reader = "socks5" /\ pc = "done" => Accepted(result[1]) \/ SocksWrong
  /\ input.reader = "datagram" =>
       /\ pc \in {"datagram", "answer"} => sent = <<>>
       /\ pc = "done" /\ Accepted(result[1]) =>
            sent = <<BuildDatagram(result[1].authority, result[1].leftover)>>

LEMMA WrongInit == Init => WrongInv
<1> SUFFICES ASSUME Init PROVE WrongInv
  OBVIOUS
<1>1. /\ input.reader = "socks5" => pc = "greeting"
      /\ input.reader = "datagram" => pc = "datagram"
      /\ sent = <<>>
  BY DEF Init, Start
<1> QED BY <1>1 DEF WrongInv

\* A step that refuses has a reason.
LEMMA RefusedForIt ==
  ASSUME IInv, AskedInv, input.reader = "socks5", Reads, Finish(Failure)
  PROVE  SocksSays(stream) = {}
<1> DEFINE s == stream
           type == TypeAt
<1>0. TypeOK /\ SocksInv /\ input \in Inputs
  BY DEF IInv, ReaderInv, TypeOK
<1>1. /\ s \in Seq(0 .. 255) /\ taken \in Nat /\ want \in Nat /\ arrived \in Nat
      /\ arrived <= Len(s) /\ Len(s) \in Nat
  BY <1>0, TheStream
<1>2. want <= arrived - taken /\ taken' = taken + want
  BY <1>1 DEF Reads, ReadGreeting, ReadMethods, ReadCommand, ReadLength, ReadAddress, ReadPort, Got
<1>3. /\ \A i \in 1 .. want : Octets[i] = s[taken + i]
      /\ Octets \in Seq(0 .. 255) /\ Len(Octets) = want
  BY <1>0, <1>2, Returned
<1>4. result' = <<Failure>> /\ pc' = "done"
  BY Routed DEF Finish
<1>5. ~SocksAsks => SocksSays(stream) = {}
  BY WhatIsSaid
<1>6. CASE ReadGreeting
  <2>1. taken = 0 /\ want = 2 /\ pc = "greeting"
    BY <1>0, <1>6 DEF ReadGreeting, Got, SocksInv
  <2>2. 1 \in 1 .. want /\ taken + 1 = 1
    BY <2>1
  <2>3. Octets[1] = s[1]
    BY <1>3, <2>2
  <2>4. Octets[1] # 5
    BY <1>4, <1>6 DEF ReadGreeting, Await
  <2> QED BY <1>5, <2>3, <2>4 DEF SocksAsks
<1>7. CASE ReadMethods
  <2>1. taken = 2 /\ want = s[2] /\ pc = "methods"
    BY <1>0, <1>7 DEF ReadMethods, Got, SocksInv
  <2>2. 0 \notin ToSet(Octets)
    BY <1>4, <1>7 DEF ReadMethods, Await
  <2>3. DOMAIN Octets = 1 .. want
    BY <1>3
  <2>4. \A i \in 1 .. s[2] : s[i + 2] # 0
    <3>1. \A i \in 1 .. want : Octets[i] # 0
      BY <2>2, <2>3 DEF ToSet
    <3>2. \A i \in 1 .. want : s[taken + i] # 0 /\ taken + i = i + 2
      BY <1>3, <2>1, <3>1
    <3> QED BY <2>1, <3>2
  <2> QED BY <1>5, <2>4 DEF SocksAsks
<1>8. CASE ReadCommand
  <2>1. taken = s[2] + 2 /\ want = 4 /\ pc = "command" /\ Len(s) >= 2
    BY <1>0, <1>8 DEF ReadCommand, Got, SocksInv, SocksSteps
  <2>2. Octets[1] = s[type - 3] /\ Octets[2] = s[type - 2] /\ Octets[4] = s[type]
    <3>1. s[2] \in Nat
      <4>1. 2 \in 1 .. Len(s)
        BY <1>1, <2>1
      <4>2. s[2] \in 0 .. 255
        BY <1>1, <4>1, ElementOfSeq
      <4> QED BY <4>2, OctetsAreNat
    <3>2. taken + 1 = type - 3 /\ taken + 2 = type - 2 /\ taken + 4 = type
      <4> DEFINE m == s[2]
      <4>1. m \in Nat /\ taken = m + 2 /\ type = m + 6
        BY <2>1, <3>1 DEF TypeAt
      <4> HIDE DEF m, type
      <4> QED BY <4>1
    <3>3. 1 \in 1 .. want /\ 2 \in 1 .. want /\ 4 \in 1 .. want
      BY <2>1
    <3> HIDE DEF type
    <3> QED BY <1>3, <3>2, <3>3
  <2>3. \/ Octets[1] # 5 \/ Octets[2] \notin {1, 3}
        \/ Octets[4] \notin {Ipv4Type, Ipv6Type, DomainType}
    <3> SUFFICES ASSUME Octets[1] = 5, Octets[2] \in {1, 3}, Octets[4] \in {Ipv4Type, Ipv6Type, DomainType}
                 PROVE  FALSE
      OBVIOUS
    <3>1. \/ Await("address", 4) \/ Await("address", 16) \/ Await("length", 1)
      BY <1>8 DEF ReadCommand, Ipv4Type, Ipv6Type, DomainType
    <3> QED BY <1>4, <3>1 DEF Await
  <2>4. CASE Octets[1] # 5 \/ Octets[2] \notin {1, 3}
    BY <1>5, <2>2, <2>4 DEF SocksAsks, AskedFor
  <2>5. CASE Octets[4] \notin {Ipv4Type, Ipv6Type, DomainType}
    <3>1. SocksEnd(s) = {}
      BY <1>0, <2>2, <2>5, EndOfRequest
    <3> QED BY <3>1, WhatIsSaid
  <2> QED BY <2>3, <2>4, <2>5
<1>9. CASE ReadLength
  BY <1>4, <1>9 DEF ReadLength, Await
<1>10. CASE ReadAddress
  <2>1. pc = "address"
    BY <1>10 DEF ReadAddress, Got
  <2>2. Hosts(request.type, Octets) = {}
    BY <1>4, <1>10 DEF ReadAddress, Await
  <2>3. request.type = s[type]
    BY <2>1 DEF AskedInv
  <2>4. ASSUME NEW end \in SocksEnd(s) PROVE Octets = SubSeq(s, AddressAt, end - 2)
    <3>1. /\ type \in Nat /\ end \in Nat
          /\ \/ s[type] = Ipv4Type /\ end = type + 6
             \/ s[type] = Ipv6Type /\ end = type + 18
             \/ /\ s[type] = DomainType /\ s[type + 1] \in Nat
                /\ end = type + s[type + 1] + 3
      BY <1>0, <2>4, EndOfRequest
    <3>2. \/ taken = type /\ want = 4 /\ s[type] = Ipv4Type
          \/ taken = type /\ want = 16 /\ s[type] = Ipv6Type
          \/ s[type] = DomainType /\ taken = type + 1 /\ want = s[type + 1]
      BY <1>0, <2>1 DEF SocksInv
    <3>3. AddressAt = IF s[type] = DomainType THEN type + 2 ELSE type + 1
      BY DEF AddressAt
    <3> HIDE DEF s, type
    <3>4. taken + 1 = AddressAt /\ taken + want = end - 2
      BY <3>1, <3>2, <3>3 DEF Ipv4Type, Ipv6Type, DomainType
    <3> QED BY <3>4 DEF Octets, s
  <2>5. \A end \in SocksEnd(s) : Hosts(s[type], SubSeq(s, AddressAt, end - 2)) = {}
    BY <2>2, <2>3, <2>4
  <2> QED BY <2>5, WhatIsSaid
<1>11. CASE ReadPort
  <2>1. \E authority, head, leftover, proxied :
          \/ result' = <<Route([kind |-> "udp", leftover |-> leftover])>>
          \/ result' = <<Route([kind |-> "connect", authority |-> authority, head |-> head,
                                leftover |-> leftover, proxied |-> proxied])>>
    BY <1>11 DEF ReadPort, Finish
  <2>2. PICK authority, head, leftover, proxied :
          \/ result' = <<Route([kind |-> "udp", leftover |-> leftover])>>
          \/ result' = <<Route([kind |-> "connect", authority |-> authority, head |-> head,
                                leftover |-> leftover, proxied |-> proxied])>>
    BY <2>1
  <2>3. Accepted(result'[1])
    BY <2>2 DEF Accepted, Route
  <2> QED BY <1>4, <2>3, Routed
<1> QED BY <1>6, <1>7, <1>8, <1>9, <1>10, <1>11 DEF Reads

\* A request that breaks off does so before its end.
LEMMA BrokenOff ==
  ASSUME IInv, input.reader = "socks5", pc \in SocksSteps, arrived - taken < want
  PROVE  \A end \in SocksEnd(stream) : end > arrived
<1> DEFINE s == stream
           type == TypeAt
<1>0. TypeOK /\ SocksInv /\ input \in Inputs
  BY DEF IInv, ReaderInv, TypeOK
<1>1. taken \in Nat /\ want \in Nat /\ arrived \in Nat
  BY <1>0, TheStream
<1> SUFFICES ASSUME NEW end \in SocksEnd(s) PROVE end > arrived
  OBVIOUS
<1>2. /\ s[2] \in Nat /\ type \in Nat /\ type = s[2] + 6 /\ end \in Nat /\ type + 1 <= end
      /\ \/ s[type] = Ipv4Type /\ end = type + 6
         \/ s[type] = Ipv6Type /\ end = type + 18
         \/ /\ s[type] = DomainType /\ s[type + 1] \in Nat
            /\ end = type + s[type + 1] + 3
  BY <1>0, EndOfRequest
<1>3. taken + want <= end
  <2>1. CASE pc = "greeting"
    <3>1. taken = 0 /\ want = 2
      BY <1>0, <2>1 DEF SocksInv
    <3> HIDE DEF s, type
    <3> QED BY <1>2, <3>1
  <2>2. CASE pc = "methods"
    <3>1. taken = 2 /\ want = s[2]
      BY <1>0, <2>2 DEF SocksInv
    <3> HIDE DEF s, type
    <3> QED BY <1>2, <3>1
  <2>3. CASE pc = "command"
    <3>1. taken = s[2] + 2 /\ want = 4
      BY <1>0, <2>3 DEF SocksInv
    <3> HIDE DEF s, type
    <3> QED BY <1>2, <3>1
  <2>4. CASE pc = "length"
    <3>1. taken = type /\ want = 1
      BY <1>0, <2>4 DEF SocksInv
    <3> HIDE DEF s, type
    <3> QED BY <1>2, <3>1
  <2>5. CASE pc = "address"
    <3>1. \/ taken = type /\ want = 4 /\ s[type] = Ipv4Type
          \/ taken = type /\ want = 16 /\ s[type] = Ipv6Type
          \/ s[type] = DomainType /\ taken = type + 1 /\ want = s[type + 1]
      BY <1>0, <2>5 DEF SocksInv
    <3> HIDE DEF s, type
    <3> QED BY <1>2, <3>1 DEF Ipv4Type, Ipv6Type, DomainType
  <2>6. CASE pc = "port"
    <3>1. want = 2 /\ \/ taken = type + 4 /\ s[type] = Ipv4Type
                      \/ taken = type + 16 /\ s[type] = Ipv6Type
                      \/ s[type] = DomainType /\ taken = type + 1 + s[type + 1]
      BY <1>0, <2>6 DEF SocksInv
    <3> HIDE DEF s, type
    <3> QED BY <1>2, <3>1 DEF Ipv4Type, Ipv6Type, DomainType
  <2> QED BY <2>1, <2>2, <2>3, <2>4, <2>5, <2>6 DEF SocksSteps
<1> HIDE DEF s, type
<1> QED BY <1>1, <1>2, <1>3

LEMMA WrongPreserved == IInv /\ AskedInv /\ WrongInv /\ [Next]_vars => WrongInv'
<1> SUFFICES ASSUME IInv, AskedInv, WrongInv, [Next]_vars PROVE WrongInv'
  OBVIOUS
<1>0. TypeOK /\ ReaderInv
  BY DEF IInv
<1>1. input' = input /\ stream' = stream
  BY DEF Next, vars, Arrive, Close, Step, Overdue, ReadHead, HeadBreaksOff, ReadGreeting, ReadMethods,
         ReadCommand, ReadLength, ReadAddress, ReadPort, RequestBreaksOff, Dialed, Resolved, SendConnect,
         LibraryConnects, ReadResponse, ResponseTooLarge, ResponseBreaksOff, UpstreamFails, ReadDatagram,
         SendDatagram, peer, Fails, stream
<1>2. CASE UNCHANGED vars \/ Arrive \/ Close
  <2>1. /\ UNCHANGED <<pc, sent, result>>
        /\ pc = "done" => closed' = closed /\ (closed => arrived' = arrived)
    BY <1>2 DEF vars, Arrive, Close
  <2>2. pc = "done" /\ SocksWrong => SocksWrong'
    BY <1>1, <2>1 DEF SocksWrong
  <2> QED BY <1>1, <2>1, <2>2 DEF WrongInv
<1>3. ASSUME input.reader \notin {"socks5", "datagram"} PROVE WrongInv'
  BY <1>1, <1>3 DEF WrongInv
<1>4. CASE Reads
  <2>1. input.reader = "socks5"
    BY <1>0, <1>4, WhoseStep DEF Reads, ReadGreeting, ReadMethods, ReadCommand, ReadLength, ReadAddress,
                                 ReadPort, Got, SocksSteps
  <2> SUFFICES ASSUME pc' = "done" PROVE Accepted(result'[1]) \/ SocksWrong'
    BY <1>1, <2>1 DEF WrongInv
  <2>2. CASE Finish(Failure)
    <3>1. SocksSays(stream) = {}
      BY <1>4, <2>1, <2>2, RefusedForIt
    <3>2. result'[1] = Failure
      BY <2>2, Routed DEF Finish
    <3> QED BY <1>1, <3>1, <3>2 DEF SocksWrong
  <2>3. CASE ~Finish(Failure)
    <3>1. CASE ReadPort
      <4>1. PICK authority, head, leftover, proxied :
              \/ result' = <<Route([kind |-> "udp", leftover |-> leftover])>>
              \/ result' = <<Route([kind |-> "connect", authority |-> authority, head |-> head,
                                    leftover |-> leftover, proxied |-> proxied])>>
        BY <3>1 DEF ReadPort, Finish
      <4> QED BY <4>1 DEF Accepted, Route
    <3>2. CASE ~ReadPort
      <4>1. pc' \in SocksSteps
        BY <1>4, <2>3, <3>2 DEF Reads, ReadGreeting, ReadMethods, ReadCommand, ReadLength, ReadAddress,
                                 Await, Refused, Refuse, SocksSteps, Ipv4Type, Ipv6Type, DomainType
      <4> QED BY <4>1 DEF SocksSteps
    <3> QED BY <3>1, <3>2
  <2> QED BY <2>2, <2>3
<1>5. CASE RequestBreaksOff
  <2>1. input.reader = "socks5" /\ pc \in SocksSteps /\ closed /\ arrived - taken < want
    BY <1>0, <1>5, WhoseStep DEF RequestBreaksOff, SocksSteps
  <2>2. \A end \in SocksEnd(stream) : end > arrived
    BY <2>1, BrokenOff
  <2>3. result'[1] = Failure /\ UNCHANGED <<arrived, closed>>
    BY <1>5, Routed DEF RequestBreaksOff, Refused, Refuse, Finish, peer
  <2>4. SocksWrong'
    BY <1>1, <2>1, <2>2, <2>3 DEF SocksWrong
  <2> QED BY <1>1, <2>1, <2>4 DEF WrongInv
<1>6. CASE ReadDatagram
  <2>1. input.reader = "datagram" /\ pc = "datagram"
    BY <1>0, <1>6, WhoseStep DEF ReadDatagram
  <2>2. sent' = sent /\ sent = <<>>
    BY <1>6, <2>1 DEF ReadDatagram, WrongInv
  <2> DEFINE outcome == ParseDatagram(stream)
  <2>3. pc' = "done" => result' = <<Route(outcome)>> /\ ~Accepted(outcome)
    BY <1>6 DEF ReadDatagram, Finish
  <2>4. ~Accepted(outcome) => Route(outcome) = outcome
    <3> HIDE DEF outcome
    <3> QED BY DEF Accepted, Route
  <2>5. pc' = "done" => ~Accepted(result'[1])
    <3> HIDE DEF outcome
    <3> QED BY <2>3, <2>4
  <2> QED BY <1>1, <2>1, <2>2, <2>5 DEF WrongInv
<1>7. CASE SendDatagram
  <2>1. input.reader = "datagram" /\ pc = "answer"
    BY <1>0, <1>7, WhoseStep DEF SendDatagram
  <2>2. sent = <<>>
    BY <2>1 DEF WrongInv
  <2>3. sent' = <<BuildDatagram(result[1].authority, result[1].leftover)>> /\ pc' = "done" /\ result' = result
    BY <1>7, <2>2 DEF SendDatagram
  <2> QED BY <1>1, <2>1, <2>3 DEF WrongInv
<1>8. CASE ReadHead \/ HeadBreaksOff
  <2>1. input.reader = "http"
    BY <1>0, <1>8, WhoseStep DEF ReadHead, HeadBreaksOff
  <2> QED BY <1>3, <2>1
<1>9. CASE pc \in UpstreamSteps
  <2>1. input.reader = "upstream"
    BY <1>0, <1>9, WhoseStep
  <2> QED BY <1>3, <2>1
<1> QED BY <1>2, <1>4, <1>5, <1>6, <1>7, <1>8, <1>9
        DEF Next, Step, Overdue, AtUpstream, Dialed, Resolved, SendConnect, LibraryConnects, ReadResponse,
            ResponseTooLarge, ResponseBreaksOff, UpstreamFails, UpstreamSteps, Reads

\* What a peer is taken to say does not depend on how its stream is cut into pieces:
\* it is what the whole stream says. A head is the first there is, with what was read
\* behind it, and is refused for what it says, for breaking off, or for an end that is
\* not within a read of the limit; a SOCKS5 request goes to the host and port at their
\* places in the stream, and is refused if the whole stream says none or breaks off; an upstream proxy is believed when the whole of
\* its answer confirms the tunnel, and was asked for the target once.
CutsDoNotMatter ==
  Ended =>
    /\ input.reader = "http" => HeadRead \/ HeadRefused
    /\ input.reader = "socks5" => SocksRead \/ SocksWrong
    /\ input.reader = "upstream" => AnswerRead \/ result[1] = Failure
    /\ input.reader = "datagram" => result[1] = ParseDatagram(stream)

\* The readers of requests and answers understand a stream as a whole
\* (read_proxy_request, read_socks5_request, http_connect).
THEOREM StreamsAreReadWhole == Spec => []CutsDoNotMatter
<1>1. Init => AskedInv /\ WrongInv
  BY AskedInit, WrongInit
<1>2. IInv /\ HostInv /\ AskedInv /\ WrongInv /\ [Next]_vars => AskedInv' /\ WrongInv'
  BY AskedPreserved, WrongPreserved
<1>3. IInv /\ AskedInv /\ WrongInv => CutsDoNotMatter
  BY Routed DEF IInv, ReaderInv, HttpInv, AskedInv, WrongInv, CutsDoNotMatter, Ended
<1> QED BY <1>1, <1>2, <1>3, HostsAreRouted, PTL DEF Spec

-----------------------------------------------------------------------------
(* What is written is read: a datagram, and the address in it.             *)

\* A sequence of two parts.
Joins(T, u, s, m, t, n) ==
  /\ u \in Seq(T) /\ Len(u) = m + n
  /\ \A i \in 1 .. m : u[i] = s[i]
  /\ \A i \in 1 .. n : u[m + i] = t[i]

LEMMA Joined ==
  ASSUME NEW T, NEW s \in Seq(T), NEW t \in Seq(T)
  PROVE  Joins(T, s \o t, s, Len(s), t, Len(t))
  BY ConcatProperties DEF Joins

\* What stands at its places is a piece.
StandsAt(T, s, x, y, z, t, l) ==
  /\ s \in Seq(T) /\ t \in Seq(T) /\ x \in Nat /\ l \in Nat /\ Len(t) = l /\ y = x + 1 /\ z = x + l /\ z <= Len(s)
  /\ \A i \in 1 .. l : s[x + i] = t[i]

LEMMA PieceAt ==
  ASSUME NEW T, NEW s, NEW x, NEW y, NEW z, NEW t, NEW l, StandsAt(T, s, x, y, z, t, l)
  PROVE  SubSeq(s, y, z) = t
<1>0. /\ s \in Seq(T) /\ t \in Seq(T) /\ x \in Nat /\ l \in Nat /\ Len(t) = l /\ y = x + 1 /\ z = x + l
      /\ z <= Len(s) /\ \A i \in 1 .. l : s[x + i] = t[i]
  BY DEF StandsAt
<1>a. s \in Seq(T) /\ Len(s) \in Nat
  BY <1>0
<1>1. /\ y \in 1 .. Len(s) + 1 /\ z \in y - 1 .. Len(s) /\ z - y + 1 = l
      /\ \A i \in 1 .. l : y + i - 1 = x + i
  BY <1>0, <1>a
<1>2. /\ SubSeq(s, y, z) \in Seq(T) /\ Len(SubSeq(s, y, z)) = z - y + 1
      /\ \A i \in 1 .. z - y + 1 : SubSeq(s, y, z)[i] = s[y + i - 1]
  BY <1>a, <1>1, Piece, ZenonT(30)
<1>3. \A i \in 1 .. l : SubSeq(s, y, z)[i] = t[i]
  BY <1>0, <1>1, <1>2
<1> QED BY <1>0, <1>1, <1>2, <1>3, Alike

\* The pieces of a datagram are at their places in it.
Laid(T, data, front, mark, octets, port, payload, f, m, n, k) ==
  /\ data \in Seq(T) /\ Len(data) = f + m + n + 2 + k
  /\ \A i \in 1 .. f : data[i] = front[i]
  /\ \A i \in 1 .. m : data[f + i] = mark[i]
  /\ SubSeq(data, f + m + 1, f + m + n) = octets
  /\ SubSeq(data, f + m + n + 1, f + m + n + 2) = port
  /\ SubSeq(data, f + m + n + 3, Len(data)) = payload

LEMMA Layout ==
  ASSUME NEW T, NEW front \in Seq(T), NEW mark \in Seq(T), NEW octets \in Seq(T), NEW port \in Seq(T),
         NEW payload \in Seq(T), Len(port) = 2
  PROVE  Laid(T, front \o (mark \o octets) \o port \o payload, front, mark, octets, port, payload,
              Len(front), Len(mark), Len(octets), Len(payload))
<1> DEFINE f == Len(front)
           m == Len(mark)
           n == Len(octets)
           k == Len(payload)
           data == front \o (mark \o octets) \o port \o payload
<1>l. /\ f \in Nat /\ m \in Nat /\ n \in Nat /\ k \in Nat
      /\ Len(front) = f /\ Len(mark) = m /\ Len(octets) = n /\ Len(payload) = k
  OBVIOUS
<1>m. data = front \o (mark \o octets) \o port \o payload
  OBVIOUS
<1> HIDE DEF f, m, n, k, data
<1> DEFINE a == mark \o octets
           b == front \o a
           c == b \o port
           la == m + n
           lb == f + la
           lc == lb + 2
           ld == lc + k
<1>0. la \in Nat /\ lb \in Nat /\ lc \in Nat /\ ld \in Nat /\ 2 \in Nat
  BY <1>l
<1>a. la = m + n /\ a = mark \o octets
  OBVIOUS
<1>b. lb = f + la /\ b = front \o a
  OBVIOUS
<1>c. lc = lb + 2 /\ c = b \o port
  OBVIOUS
<1>d. ld = lc + k /\ data = c \o payload
  BY <1>m
<1> HIDE DEF a, b, c, la, lb, lc, ld
<1>1. /\ a \in Seq(T) /\ Len(a) = la
      /\ \A i \in 1 .. m : a[i] = mark[i]
      /\ \A i \in 1 .. n : a[m + i] = octets[i]
  <2>1. Joins(T, mark \o octets, mark, Len(mark), octets, Len(octets))
    BY Joined
  <2>2. Joins(T, a, mark, m, octets, n)
    BY <1>a, <1>l, <2>1
  <2> QED BY <1>0, <1>l, <1>a, <2>2 DEF Joins
<1>2. /\ b \in Seq(T) /\ Len(b) = lb
      /\ \A i \in 1 .. f : b[i] = front[i]
      /\ \A i \in 1 .. la : b[f + i] = a[i]
  <2>1. Joins(T, front \o a, front, Len(front), a, Len(a))
    BY <1>1, Joined
  <2>2. Joins(T, b, front, f, a, la)
    BY <1>1, <1>b, <1>l, <2>1
  <2> QED BY <1>0, <1>l, <1>b, <2>2 DEF Joins
<1>3. /\ c \in Seq(T) /\ Len(c) = lc
      /\ \A i \in 1 .. lb : c[i] = b[i]
      /\ \A i \in 1 .. 2 : c[lb + i] = port[i]
  <2>1. Joins(T, b \o port, b, Len(b), port, Len(port))
    BY <1>2, Joined
  <2>2. Joins(T, c, b, lb, port, 2)
    BY <1>2, <1>c, <2>1
  <2> QED BY <1>0, <1>l, <1>c, <2>2 DEF Joins
<1>4. /\ data \in Seq(T) /\ Len(data) = ld
      /\ \A i \in 1 .. lc : data[i] = c[i]
      /\ \A i \in 1 .. k : data[lc + i] = payload[i]
  <2>1. Joins(T, c \o payload, c, Len(c), payload, Len(payload))
    BY <1>3, Joined
  <2>2. Joins(T, data, c, lc, payload, k)
    BY <1>3, <1>d, <1>l, <2>1
  <2> QED BY <1>0, <1>l, <1>d, <2>2 DEF Joins
<1>5. \A i \in 1 .. lb : data[i] = b[i]
  <2>1. \A i \in 1 .. lb : i \in 1 .. lc
    BY <1>0, <1>l, <1>c
  <2> QED BY <1>3, <1>4, <2>1
<1>6. \A i \in 1 .. f : data[i] = front[i]
  <2>1. \A i \in 1 .. f : i \in 1 .. lb
    BY <1>0, <1>l, <1>b
  <2> QED BY <1>2, <1>5, <2>1
<1>7. \A i \in 1 .. la : data[f + i] = a[i]
  <2>1. \A i \in 1 .. la : f + i \in 1 .. lb
    BY <1>0, <1>l, <1>b
  <2> QED BY <1>2, <1>5, <2>1
<1>8. \A i \in 1 .. m : data[f + i] = mark[i]
  <2>1. \A i \in 1 .. m : i \in 1 .. la
    BY <1>0, <1>l, <1>a
  <2> QED BY <1>1, <1>7, <2>1
<1>9. \A i \in 1 .. n : data[(f + m) + i] = octets[i]
  <2>1. \A i \in 1 .. n : m + i \in 1 .. la /\ f + (m + i) = (f + m) + i
    BY <1>0, <1>l, <1>a
  <2>2. ASSUME NEW i \in 1 .. n PROVE data[(f + m) + i] = octets[i]
    <3>1. data[f + (m + i)] = a[m + i] /\ a[m + i] = octets[i]
      BY <1>1, <1>7, <2>1
    <3> QED BY <2>1, <3>1
  <2> QED BY <2>2
<1>10. \A i \in 1 .. 2 : data[lb + i] = port[i]
  <2>1. \A i \in 1 .. 2 : lb + i \in 1 .. lc
    BY <1>0, <1>l, <1>c
  <2> QED BY <1>3, <1>4, <2>1
<1>11. /\ f + m + n = lb /\ f + m + n + 1 = lb + 1 /\ f + m + n + 2 = lc /\ f + m + n + 3 = lc + 1
       /\ f + m + n + 2 + k = ld /\ lb + 2 <= ld /\ lc + k <= ld /\ (f + m) + n <= ld /\ f + m \in Nat
  BY <1>0, <1>l, <1>a, <1>b, <1>c, <1>d
<1>13. SubSeq(data, f + m + 1, f + m + n) = octets
  <2>1. StandsAt(T, data, f + m, f + m + 1, f + m + n, octets, n)
    BY <1>4, <1>9, <1>11, <1>l DEF StandsAt
  <2> QED BY <2>1, PieceAt
<1>14. SubSeq(data, f + m + n + 1, f + m + n + 2) = port
  <2>1. StandsAt(T, data, lb, f + m + n + 1, f + m + n + 2, port, 2)
    BY <1>0, <1>l, <1>4, <1>10, <1>11, <1>c DEF StandsAt
  <2> QED BY <2>1, PieceAt
<1>15. SubSeq(data, f + m + n + 3, Len(data)) = payload
  <2>1. StandsAt(T, data, lc, f + m + n + 3, Len(data), payload, k)
    BY <1>0, <1>l, <1>4, <1>11, <1>d DEF StandsAt
  <2> QED BY <2>1, PieceAt
<1>17. data \in Seq(T) /\ Len(data) = f + m + n + 2 + k
  BY <1>4, <1>11
<1> QED BY <1>6, <1>8, <1>13, <1>14, <1>15, <1>17 DEF Laid, f, m, n, k, data

\* How the header of a datagram says where its address ends.
Written(type, mark, n) ==
  \/ type = Ipv4Type /\ mark = <<Ipv4Type>> /\ n = 4
  \/ type = Ipv6Type /\ mark = <<Ipv6Type>> /\ n = 16
  \/ type = DomainType /\ mark = <<DomainType, n>>

IsWritten(T, type, host, mark, octets, port, payload) ==
  /\ 0 \in T /\ mark \in Seq(T) /\ octets \in Seq(T) /\ port \in Seq(T) /\ payload \in Seq(T)
  /\ Len(port) = 2 /\ Written(type, mark, Len(octets)) /\ Hosts(type, octets) = {host}

LEMMA ReadBack ==
  ASSUME NEW T, NEW type, NEW host, NEW mark, NEW octets, NEW port, NEW payload,
         IsWritten(T, type, host, mark, octets, port, payload)
  PROVE  ParseDatagram(<<0, 0, 0>> \o (mark \o octets) \o port \o payload) =
           [kind |-> "datagram",
            authority |-> [bracket |-> type = Ipv6Type, host |-> host, port |-> port],
            leftover |-> payload]
<1>0. /\ 0 \in T /\ mark \in Seq(T) /\ octets \in Seq(T) /\ port \in Seq(T) /\ payload \in Seq(T)
      /\ Len(port) = 2 /\ Written(type, mark, Len(octets)) /\ Hosts(type, octets) = {host}
  BY DEF IsWritten
<1> DEFINE front == <<0, 0, 0>>
           m == Len(mark)
           k == Len(payload)
           n == Len(octets)
           data == front \o (mark \o octets) \o port \o payload
<1>1. front \in Seq(T) /\ Len(front) = 3 /\ front[3] = 0
  BY <1>0
<1>n. n \in Nat /\ Len(octets) = n /\ Written(type, mark, n)
  BY <1>0
<1> HIDE DEF n
<1>2. m \in Nat /\ k \in Nat /\ m \in {1, 2} /\ mark[1] = type /\ (m = 2 => mark[2] = n)
      /\ m = IF type = DomainType THEN 2 ELSE 1
  BY <1>0, <1>n DEF Written, Ipv4Type, Ipv6Type, DomainType
<1>3. Len(mark) = m /\ Len(payload) = k /\ data = front \o (mark \o octets) \o port \o payload
  OBVIOUS
<1> HIDE DEF front, m, k, data
<1> DEFINE f == 3
<1>4. f \in Nat /\ Len(front) = f
  BY <1>1
<1> HIDE DEF f
<1>5. /\ data \in Seq(T) /\ Len(data) = f + m + n + 2 + k
      /\ \A i \in 1 .. f : data[i] = front[i]
      /\ \A i \in 1 .. m : data[f + i] = mark[i]
      /\ SubSeq(data, f + m + 1, f + m + n) = octets
      /\ SubSeq(data, f + m + n + 1, f + m + n + 2) = port
      /\ SubSeq(data, f + m + n + 3, Len(data)) = payload
  <2>1. Laid(T, front \o (mark \o octets) \o port \o payload, front, mark, octets, port, payload,
             Len(front), Len(mark), Len(octets), Len(payload))
    BY <1>0, <1>1, Layout
  <2>2. Laid(T, data, front, mark, octets, port, payload, f, m, n, k)
    BY <1>3, <1>4, <1>n, <2>1
  <2> QED BY <2>2 DEF Laid
<1>6. data[3] = 0 /\ data[4] = type /\ (m = 2 => data[5] = n)
  <2>1. f = 3 /\ 3 \in 1 .. f /\ 1 \in 1 .. m /\ f + 1 = 4 /\ (m = 2 => 2 \in 1 .. m /\ f + 2 = 5)
    BY <1>2 DEF f
  <2>2. data[f] = 0 /\ data[f + 1] = type
    BY <1>1, <1>2, <1>5, <2>1
  <2>3. m = 2 => data[f + 2] = n
    BY <1>2, <1>5, <2>1
  <2> QED BY <2>1, <2>2, <2>3
<1> DEFINE first == f + m + 1
           last == f + m + n
<1>7. /\ Len(data) >= 5 /\ Len(data) >= last + 2 /\ last \in Nat /\ last + 1 = f + m + n + 1
      /\ last + 2 = f + m + n + 2 /\ last + 3 = f + m + n + 3
  <2>1. f = 3 /\ m \in Nat /\ n \in Nat /\ k \in Nat /\ m >= 1 /\ Len(data) = f + m + n + 2 + k
    BY <1>2, <1>5, <1>n DEF f
  <2>2. Len(data) >= 5 /\ Len(data) >= f + m + n + 2
    BY <2>1
  <2> QED BY <2>1, <2>2
<1>8. Span(data) = <<first, last>>
  <2>1. CASE type = Ipv4Type
    <3>1. m = 1 /\ n = 4 /\ first = 5 /\ last = 8
      BY <1>2, <1>n, <2>1 DEF f, Written, Ipv4Type, Ipv6Type, DomainType
    <3> HIDE DEF first, last
    <3>2. data[4] = Ipv4Type
      BY <1>6, <2>1
    <3>3. Span(data) = <<5, 8>>
      BY <3>2 DEF Span, Ipv4Type, Ipv6Type, DomainType
    <3> QED BY <3>1, <3>3
  <2>2. CASE type = Ipv6Type
    <3>1. m = 1 /\ n = 16 /\ first = 5 /\ last = 20
      BY <1>2, <1>n, <2>2 DEF f, Written, Ipv4Type, Ipv6Type, DomainType
    <3> HIDE DEF first, last
    <3> QED BY <1>6, <2>2, <3>1 DEF Span, Ipv4Type, Ipv6Type, DomainType
  <2>3. CASE type = DomainType
    <3>1. m = 2 /\ first = 6 /\ last = 5 + n
      BY <1>2, <1>n, <2>3 DEF f
    <3> HIDE DEF first, last
    <3>2. data[4] = DomainType /\ data[5] = n /\ Len(data) >= 5
      BY <1>6, <1>7, <2>3, <3>1
    <3> QED BY <3>1, <3>2 DEF Span, Ipv4Type, Ipv6Type, DomainType
  <2> QED BY <1>n, <2>1, <2>2, <2>3 DEF Written
<1>9. Span(data)[1] = first /\ Span(data)[2] = last
  <2> HIDE DEF first, last
  <2> QED BY <1>8
<1>10. /\ SubSeq(data, first, last) = octets /\ SubSeq(data, last + 1, last + 2) = port
       /\ SubSeq(data, last + 3, Len(data)) = payload
  BY <1>5, <1>7
<1> HIDE DEF first, last
<1>11. ~(Len(data) < 4) /\ ~(Len(data) < last + 2) /\ Len(data) \in Nat
  BY <1>5, <1>7
<1> DEFINE hosts == Hosts(data[4], SubSeq(data, Span(data)[1], last))
<1>12. hosts = {host}
  BY <1>0, <1>6, <1>9, <1>10
<1>13. hosts # {} /\ (CHOOSE h \in hosts : TRUE) = host
  <2> HIDE DEF hosts
  <2> QED BY <1>12
<1>14. ParseDatagram(data) =
         [kind |-> "datagram",
          authority |-> [bracket |-> data[4] = Ipv6Type, host |-> CHOOSE h \in hosts : TRUE,
                         port |-> SubSeq(data, last + 1, last + 2)],
          leftover |-> SubSeq(data, last + 3, Len(data))]
  <2>1. ~(data[3] # 0 \/ Len(data) < Span(data)[2] + 2
          \/ Hosts(data[4], SubSeq(data, Span(data)[1], Span(data)[2])) = {})
    <3>1. Hosts(data[4], SubSeq(data, Span(data)[1], Span(data)[2])) # {}
      BY <1>9, <1>13
    <3> QED BY <1>6, <1>9, <1>11, <3>1
  <2> QED BY <1>9, <1>11, <2>1 DEF ParseDatagram
<1>15. ParseDatagram(data) =
         [kind |-> "datagram",
          authority |-> [bracket |-> type = Ipv6Type, host |-> host, port |-> port],
          leftover |-> payload]
  <2> HIDE DEF hosts
  <2> QED BY <1>6, <1>10, <1>13, <1>14
<1> QED BY <1>15 DEF data, front

\* An IPv6 address has one text, and an octet of a stream is a number or a label.
OneText == \A text, other \in DOMAIN Ipv6 : Ipv6[text] = Ipv6[other] => text = other

Octet == 0 .. 255 \cup DOMAIN Labels

\* Numbers and labels are read as they are written.
LEMMA OctetIsRead ==
  ASSUME NEW label \in Digits
  PROVE  OctetOf(label) \in 0 .. 255 /\ ToString(OctetOf(label)) = label
<1>1. \E n \in 0 .. 255 : ToString(n) = label
  BY TextsAssumption
<1> QED BY <1>1 DEF OctetOf

LEMMA LetterIsRead ==
  ASSUME NEW n \in DOMAIN Labels
  PROVE  LetterOf(Labels[n]) \in DOMAIN Labels /\ Labels[LetterOf(Labels[n])] = Labels[n]
  BY DEF LetterOf

\* Sequences that are given element by element.
LEMMA Sequence ==
  ASSUME NEW T, NEW n \in Nat, NEW f \in [1 .. n -> T]
  PROVE  f \in Seq(T) /\ Len(f) = n /\ DOMAIN f = 1 .. n
<1>1. f \in Seq(T)
  BY SeqDef
<1>2. DOMAIN f = 1 .. n
  OBVIOUS
<1> QED BY <1>1, <1>2, LenProperties

\* A host is written so that it is read again, as an address if it looks like one.
LEMMA AddressIsRead ==
  ASSUME OneText, NEW octets \in Seq(0 .. 255), NEW type, type = Ipv4Type => Len(octets) = 4,
         NEW host \in Hosts(type, octets)
  PROVE  \E kind, mark, written :
           /\ mark \in Seq(Octet \cup {Len(written)}) /\ written \in Seq(Octet)
           /\ Written(kind, mark, Len(written)) /\ Hosts(kind, written) = {host}
           /\ Address(host) = mark \o written
<1> DEFINE n == Len(octets)
<1>1. n \in Nat /\ DOMAIN octets = 1 .. n /\ \A i \in 1 .. n : octets[i] \in 0 .. 255
  BY ElementOfSeq
<1> HIDE DEF n
\* What is read as an address of four numbers, a name that looks so included.
<1>2. ASSUME IsIpv4(host), NEW f, host = [i \in DOMAIN octets |-> f[i]]
      PROVE  \E kind, mark, written :
               /\ mark \in Seq(Octet \cup {Len(written)}) /\ written \in Seq(Octet)
               /\ Written(kind, mark, Len(written)) /\ Hosts(kind, written) = {host}
               /\ Address(host) = mark \o written
  <2> DEFINE written == [i \in DOMAIN host |-> OctetOf(host[i])]
  <2>1. DOMAIN host = 1 .. n /\ Len(host) = 4 /\ \A i \in DOMAIN host : host[i] \in Digits
    BY <1>1, <1>2 DEF IsIpv4
  <2>2. n = 4
    <3> DEFINE T == ToSet(host)
    <3>1. host \in [1 .. n -> T]
      BY <1>1, <1>2, <2>1 DEF ToSet
    <3> HIDE DEF T
    <3>2. Len(host) = n
      BY <1>1, <3>1, Sequence
    <3> QED BY <2>1, <3>2
  <2>3. written \in [1 .. 4 -> Octet]
    BY <2>1, <2>2, OctetIsRead DEF Octet
  <2>4. written \in Seq(Octet) /\ Len(written) = 4 /\ DOMAIN written = DOMAIN host
    <3> HIDE DEF written
    <3>1. 4 \in Nat
      OBVIOUS
    <3>2. written \in Seq(Octet) /\ Len(written) = 4 /\ DOMAIN written = 1 .. 4
      BY <2>3, <3>1, Sequence
    <3> QED BY <2>1, <2>2, <3>2
  <2>5. Hosts(Ipv4Type, written) = {[i \in DOMAIN written |-> ToString(written[i])]}
    <3> HIDE DEF written
    <3> QED BY DEF Hosts, Ipv4Type, Ipv6Type, DomainType
  <2>6. [i \in DOMAIN written |-> ToString(written[i])] = host
    <3>1. \A i \in DOMAIN host : ToString(written[i]) = host[i]
      BY <2>1, OctetIsRead
    <3> HIDE DEF written
    <3>2. host = [i \in DOMAIN host |-> host[i]]
      BY <1>2
    <3>3. [i \in DOMAIN written |-> ToString(written[i])] = [i \in DOMAIN host |-> host[i]]
      BY <2>4, <3>1
    <3> QED BY <3>2, <3>3
  <2>7. Address(host) = <<Ipv4Type>> \o written
    <3>1. Len(host) # 1
      BY <2>1
    <3> QED BY <1>2, <3>1 DEF Address
  <2>8. Ipv4Type \in Octet /\ <<Ipv4Type>> \in Seq(Octet \cup {Len(written)})
    <3>1. Ipv4Type \in Octet
      BY DEF Ipv4Type, Octet
    <3> DEFINE T == Octet \cup {Len(written)}
    <3>2. Ipv4Type \in T
      BY <3>1
    <3> HIDE DEF written, T
    <3>3. <<Ipv4Type>> \in Seq(T)
      BY <3>2
    <3> QED BY <3>1, <3>3 DEF T
  <2> HIDE DEF written
  <2>9. Written(Ipv4Type, <<Ipv4Type>>, Len(written))
    BY <2>4 DEF Written
  <2> QED BY <2>4, <2>5, <2>6, <2>7, <2>8, <2>9
\* What is read as an IPv6 address.
<1>3. ASSUME ~IsIpv4(host), NEW label \in DOMAIN Ipv6, host = <<label>>
      PROVE  \E kind, mark, written :
               /\ mark \in Seq(Octet \cup {Len(written)}) /\ written \in Seq(Octet)
               /\ Written(kind, mark, Len(written)) /\ Hosts(kind, written) = {host}
               /\ Address(host) = mark \o written
  <2> DEFINE written == Ipv6[label]
  <2>1. written \in Seq(0 .. 255) /\ Len(written) = 16
    BY TextsAssumption
  <2>2. written \in Seq(Octet)
    BY <2>1, SeqMonotonic DEF Octet
  <2>3. Len(host) = 1 /\ host[1] = label
    BY <1>3
  <2>4. Address(host) = <<Ipv6Type>> \o written
    BY <1>3, <2>3 DEF Address
  <2>5. Hosts(Ipv6Type, written) = {<<other>> : other \in {l \in DOMAIN Ipv6 : Ipv6[l] = written}}
    BY DEF Hosts, Ipv4Type, Ipv6Type, DomainType
  <2>6. {l \in DOMAIN Ipv6 : Ipv6[l] = written} = {label}
    BY DEF OneText
  <2>7. Hosts(Ipv6Type, written) = {host}
    <3> HIDE DEF written
    <3> QED BY <1>3, <2>5, <2>6
  <2> HIDE DEF written
  <2>8. <<Ipv6Type>> \in Seq(Octet \cup {Len(written)})
    <3> DEFINE T == Octet \cup {Len(written)}
    <3>1. Ipv6Type \in T
      BY DEF Ipv6Type, Octet
    <3> HIDE DEF T
    <3>2. <<Ipv6Type>> \in Seq(T)
      BY <3>1
    <3> QED BY <3>2 DEF T
  <2>9. Written(Ipv6Type, <<Ipv6Type>>, Len(written))
    BY <2>1 DEF Written
  <2> QED BY <2>2, <2>4, <2>7, <2>8, <2>9
<1>4. CASE type = Ipv4Type
  <2>1. host = [i \in DOMAIN octets |-> ToString(octets[i])]
    BY <1>4 DEF Hosts, Ipv4Type, Ipv6Type, DomainType
  <2>2. n = 4
    BY <1>4 DEF n
  <2>3. Len(host) = 4 /\ DOMAIN host = 1 .. n
    BY <1>1, <2>1, <2>2
  <2>4. \A i \in DOMAIN host : host[i] \in Digits
    BY <1>1, <2>1, <2>3, TextsAssumption
  <2>5. IsIpv4(host)
    BY <2>3, <2>4 DEF IsIpv4
  <2> DEFINE f == [i \in DOMAIN octets |-> ToString(octets[i])]
  <2>6. host = [i \in DOMAIN octets |-> f[i]]
    BY <2>1
  <2> HIDE DEF f
  <2> QED BY <1>2, <2>5, <2>6
<1>5. CASE type = Ipv6Type
  <2>1. PICK label \in DOMAIN Ipv6 : host = <<label>>
    BY <1>5 DEF Hosts, Ipv4Type, Ipv6Type, DomainType
  <2>2. Len(host) # 4
    BY <2>1
  <2> QED BY <1>3, <2>1, <2>2 DEF IsIpv4
<1>6. CASE type = DomainType
  <2>1. ToSet(octets) \subseteq DOMAIN Labels /\ host = [i \in DOMAIN octets |-> Labels[octets[i]]]
    BY <1>6 DEF Hosts, Ipv4Type, Ipv6Type, DomainType
  <2>2. \A i \in 1 .. n : octets[i] \in DOMAIN Labels /\ host[i] = Labels[octets[i]]
    BY <1>1, <2>1 DEF ToSet
  <2>3. DOMAIN host = 1 .. n /\ Len(host) = n /\ host = [i \in DOMAIN octets |-> host[i]]
    BY <1>1, <2>1
  <2>4. CASE IsIpv4(host)
    BY <1>2, <2>3, <2>4
  <2>5. CASE ~IsIpv4(host) /\ Len(host) = 1 /\ host[1] \in DOMAIN Ipv6
    <3>1. host = <<host[1]>>
      <4>1. n = 1 /\ host = [i \in 1 .. n |-> host[i]]
        BY <1>1, <2>3, <2>5
      <4> QED BY <4>1
    <3> QED BY <1>3, <2>5, <3>1
  <2>6. CASE ~IsIpv4(host) /\ ~(Len(host) = 1 /\ host[1] \in DOMAIN Ipv6)
    <3> DEFINE written == [i \in DOMAIN host |-> LetterOf(host[i])]
    <3>1. Address(host) = <<DomainType, Len(host)>> \o written
      BY <2>6 DEF Address
    <3>2. written \in [1 .. n -> Octet] /\ \A i \in 1 .. n : written[i] \in DOMAIN Labels
          /\ Labels[written[i]] = host[i]
      <4>1. \A i \in 1 .. n : LetterOf(host[i]) \in DOMAIN Labels /\ Labels[LetterOf(host[i])] = host[i]
        BY <2>2, LetterIsRead
      <4>2. \A i \in 1 .. n : written[i] = LetterOf(host[i])
        BY <2>3
      <4>3. written = [i \in 1 .. n |-> LetterOf(host[i])]
        BY <2>3
      <4>4. \A i \in 1 .. n : LetterOf(host[i]) \in Octet
        BY <4>1 DEF Octet
      <4> HIDE DEF written
      <4> QED BY <4>1, <4>2, <4>3, <4>4
    <3> HIDE DEF written
    <3>3. written \in Seq(Octet) /\ Len(written) = n /\ DOMAIN written = 1 .. n
      BY <1>1, <3>2, Sequence
    <3>4. ToSet(written) \subseteq DOMAIN Labels
      BY <3>2, <3>3 DEF ToSet
    <3>5. Hosts(DomainType, written) = {[i \in DOMAIN written |-> Labels[written[i]]]}
      BY <3>4 DEF Hosts, Ipv4Type, Ipv6Type, DomainType
    <3>6. [i \in DOMAIN written |-> Labels[written[i]]] = host
      <4>1. [i \in DOMAIN written |-> Labels[written[i]]] = [i \in 1 .. n |-> host[i]]
        BY <3>2, <3>3
      <4>2. host = [i \in 1 .. n |-> host[i]]
        BY <1>1, <2>3
      <4> QED BY <4>1, <4>2
    <3> DEFINE mark == <<DomainType, Len(host)>>
    <3>7. mark \in Seq(Octet \cup {Len(written)})
      <4> DEFINE T == Octet \cup {Len(written)}
      <4>1. DomainType \in T /\ Len(host) \in T
        BY <2>3, <3>3 DEF DomainType, Octet
      <4> HIDE DEF T
      <4>2. mark \in Seq(T)
        BY <4>1
      <4> QED BY <4>2 DEF T
    <3>8. Written(DomainType, mark, Len(written))
      BY <2>3, <3>3 DEF Written
    <3> HIDE DEF mark
    <3>9. Address(host) = mark \o written
      BY <3>1 DEF mark
    <3> QED BY <3>3, <3>5, <3>6, <3>7, <3>8, <3>9
  <2> QED BY <2>4, <2>5, <2>6
<1> QED BY <1>4, <1>5, <1>6 DEF Hosts

\* What a datagram is taken apart into.
LEMMA TakenApart ==
  ASSUME NEW s \in Seq(0 .. 255), Accepted(ParseDatagram(s))
  PROVE  \E octets, port, rest, host :
           /\ octets \in Seq(0 .. 255) /\ port \in Seq(0 .. 255) /\ rest \in Seq(0 .. 255)
           /\ host \in Hosts(s[4], octets)
           /\ Len(port) = 2 /\ (s[4] = Ipv4Type => Len(octets) = 4)
           /\ ParseDatagram(s) = [kind |-> "datagram",
                                  authority |-> [bracket |-> s[4] = Ipv6Type, host |-> host, port |-> port],
                                  leftover |-> rest]
<1> DEFINE first == Span(s)[1]
           last  == Span(s)[2]
           octets == SubSeq(s, first, last)
           hosts == Hosts(s[4], octets)
           port == SubSeq(s, last + 1, last + 2)
           rest == SubSeq(s, last + 3, Len(s))
           host == CHOOSE h \in hosts : TRUE
<1>0. ~Accepted(Failure) /\ Len(s) \in Nat
  BY Routed
<1>1. ~(Len(s) < 4) /\ ~(Len(s) < last + 2) /\ hosts # {}
  <2> HIDE DEF last, hosts
  <2> QED BY <1>0 DEF ParseDatagram, last, hosts
<1>2. ParseDatagram(s) = [kind |-> "datagram",
                          authority |-> [bracket |-> s[4] = Ipv6Type, host |-> host, port |-> port],
                          leftover |-> rest]
  <2>1. ~(s[3] # 0 \/ Len(s) < last + 2 \/ hosts = {})
    <3> HIDE DEF last, hosts
    <3> QED BY <1>0 DEF ParseDatagram, last, hosts
  <2> QED BY <1>1, <2>1 DEF ParseDatagram
<1>3. host \in hosts
  <2> HIDE DEF hosts
  <2> QED BY <1>1
<1>4. /\ last \in Nat /\ first \in {5, 6} /\ first <= last + 1
      /\ s[4] = Ipv4Type => first = 5 /\ last = 8
  <2>1. CASE s[4] = Ipv4Type
    <3>1. Span(s) = <<5, 8>>
      BY <2>1 DEF Span, Ipv4Type, Ipv6Type, DomainType
    <3> QED BY <3>1
  <2>2. CASE s[4] = Ipv6Type
    <3>1. Span(s) = <<5, 20>>
      BY <2>2 DEF Span, Ipv4Type, Ipv6Type, DomainType
    <3>2. s[4] # Ipv4Type
      BY <2>2 DEF Ipv4Type, Ipv6Type
    <3> QED BY <3>1, <3>2
  <2>3. CASE s[4] = DomainType
    <3>0. s[4] # Ipv4Type
      BY <2>3 DEF Ipv4Type, DomainType
    <3>1. CASE Len(s) >= 5
      <4>1. Span(s) = <<6, 5 + s[5]>>
        BY <2>3, <3>1 DEF Span, Ipv4Type, Ipv6Type, DomainType
      <4>2. s[5] \in Nat
        <5>1. 5 \in 1 .. Len(s)
          BY <1>0, <3>1
        <5>2. s[5] \in 0 .. 255
          BY <5>1, ElementOfSeq
        <5> QED BY <5>2, OctetsAreNat
      <4>3. first = 6 /\ last = 5 + s[5]
        BY <4>1
      <4> HIDE DEF first, last
      <4> QED BY <3>0, <4>2, <4>3
    <3>2. CASE ~(Len(s) >= 5)
      <4>1. last = Len(s)
        BY <2>3, <3>2 DEF Span, Ipv4Type, Ipv6Type, DomainType
      <4> HIDE DEF last, hosts
      <4> QED BY <1>0, <1>1, <4>1
    <3> QED BY <3>1, <3>2
  <2>4. CASE s[4] \notin {Ipv4Type, Ipv6Type, DomainType}
    <3>1. hosts = {}
      <4> HIDE DEF octets
      <4> QED BY <2>4 DEF Hosts
    <3> QED BY <1>1, <3>1
  <2> QED BY <2>1, <2>2, <2>3, <2>4
<1> HIDE DEF first, last
<1>5. octets \in Seq(0 .. 255) /\ Len(octets) = last - first + 1
  <2>1. first \in 1 .. Len(s) + 1 /\ last \in first - 1 .. Len(s)
    BY <1>0, <1>1, <1>4
  <2> QED BY <2>1, Piece
<1>6. port \in Seq(0 .. 255) /\ Len(port) = 2
  <2> DEFINE m == last + 1
             n == last + 2
  <2>1. m \in 1 .. Len(s) + 1 /\ n \in m - 1 .. Len(s) /\ n - m + 1 = 2
    BY <1>0, <1>1, <1>4
  <2> HIDE DEF m, n
  <2>2. SubSeq(s, m, n) \in Seq(0 .. 255) /\ Len(SubSeq(s, m, n)) = n - m + 1
    BY <2>1, Piece, ZenonT(30)
  <2> QED BY <2>1, <2>2 DEF m, n
<1>7. rest \in Seq(0 .. 255)
  <2> DEFINE m == last + 3
             n == Len(s)
  <2>1. m \in 1 .. Len(s) + 1 /\ n \in m - 1 .. Len(s)
    BY <1>0, <1>1, <1>4
  <2> HIDE DEF m, n
  <2>2. SubSeq(s, m, n) \in Seq(0 .. 255)
    BY <2>1, Piece
  <2> QED BY <2>2 DEF m, n
<1>8. s[4] = Ipv4Type => Len(octets) = 4
  BY <1>4, <1>5
<1> HIDE DEF octets, port, rest, host
<1>9. host \in Hosts(s[4], octets)
  BY <1>3
<1> QED BY <1>2, <1>5, <1>6, <1>7, <1>8, <1>9

\* The answer to a datagram is read as from the host and port the datagram went to.
LEMMA ThereAndBack ==
  ASSUME OneText, NEW s \in Seq(0 .. 255), Accepted(ParseDatagram(s))
  PROVE  LET outcome == ParseDatagram(s)
             back == ParseDatagram(BuildDatagram(outcome.authority, outcome.leftover))
         IN  /\ Accepted(back) /\ back.leftover = outcome.leftover
             /\ back.authority.host = outcome.authority.host
             /\ back.authority.port = outcome.authority.port
<1>1. PICK octets, port, rest, host :
             /\ octets \in Seq(0 .. 255) /\ port \in Seq(0 .. 255) /\ rest \in Seq(0 .. 255)
             /\ host \in Hosts(s[4], octets)
             /\ Len(port) = 2 /\ (s[4] = Ipv4Type => Len(octets) = 4)
             /\ ParseDatagram(s) = [kind |-> "datagram",
                                    authority |-> [bracket |-> s[4] = Ipv6Type, host |-> host, port |-> port],
                                    leftover |-> rest]
  BY TakenApart
<1> DEFINE type == s[4]
           outcome == ParseDatagram(s)
<1>2. outcome.authority.host = host /\ outcome.authority.port = port /\ outcome.leftover = rest
  BY <1>1
<1>3. PICK kind, mark, written :
           /\ mark \in Seq(Octet \cup {Len(written)}) /\ written \in Seq(Octet)
           /\ Written(kind, mark, Len(written)) /\ Hosts(kind, written) = {host}
           /\ Address(host) = mark \o written
  <2> DEFINE t == s[4]
  <2>1. octets \in Seq(0 .. 255) /\ (t = Ipv4Type => Len(octets) = 4) /\ host \in Hosts(t, octets)
    BY <1>1
  <2> HIDE DEF t
  <2> QED BY <2>1, AddressIsRead
<1> DEFINE T == Octet \cup {Len(written)}
           data == <<0, 0, 0>> \o (mark \o written) \o port \o rest
<1>4. 0 \in T /\ mark \in Seq(T)
  BY <1>3 DEF Octet
<1>5. written \in Seq(T) /\ port \in Seq(T) /\ rest \in Seq(T)
  <2>1. Octet \subseteq T /\ 0 .. 255 \subseteq T
    BY DEF Octet
  <2> HIDE DEF T
  <2>2. Seq(Octet) \subseteq Seq(T) /\ Seq(0 .. 255) \subseteq Seq(T)
    BY <2>1, SeqMonotonic
  <2> QED BY <1>1, <1>3, <2>2
<1> HIDE DEF T
<1>6. ParseDatagram(data) = [kind |-> "datagram",
                             authority |-> [bracket |-> kind = Ipv6Type, host |-> host, port |-> port],
                             leftover |-> rest]
  <2>1. IsWritten(T, kind, host, mark, written, port, rest)
    BY <1>1, <1>3, <1>4, <1>5 DEF IsWritten
  <2> QED BY <2>1, ReadBack
<1>7. BuildDatagram(outcome.authority, outcome.leftover) = data
  <2> HIDE DEF outcome
  <2> QED BY <1>2, <1>3 DEF BuildDatagram
<1> HIDE DEF data, outcome
<1>8. /\ Accepted(ParseDatagram(data)) /\ ParseDatagram(data).leftover = rest
      /\ ParseDatagram(data).authority.host = host /\ ParseDatagram(data).authority.port = port
  BY <1>6 DEF Accepted
<1> QED BY <1>2, <1>7, <1>8 DEF outcome

-----------------------------------------------------------------------------
(* What is meant.                                                          *)

\* A stream has one first end, and it is there if there is an end.
LEMMA OneFirstEnd ==
  ASSUME NEW T, NEW s \in Seq(T)
  PROVE  /\ \A end, other \in FirstEnd(s) : end = other
         /\ HeadEnds(s) # {} => FirstEnd(s) # {}
         /\ FirstEnd(s) \subseteq HeadEnds(s) /\ HeadEnds(s) \in SUBSET Nat
         /\ \A end \in HeadEnds(s) : end + 4 <= Len(s)
<1>1. HeadEnds(s) \in SUBSET Nat /\ \A end \in HeadEnds(s) : end + 4 <= Len(s)
  BY HeadEndsAreNat
<1>2. \A end, other \in FirstEnd(s) : end <= other /\ other <= end /\ end \in Nat /\ other \in Nat
  BY <1>1 DEF FirstEnd
<1>3. \A end, other \in FirstEnd(s) : end = other
  BY <1>2
<1>4. HeadEnds(s) # {} => FirstEnd(s) # {}
  <2> SUFFICES ASSUME HeadEnds(s) # {} PROVE FirstEnd(s) # {}
    OBVIOUS
  <2>1. Min(HeadEnds(s)) \in HeadEnds(s) /\ \A y \in HeadEnds(s) : Min(HeadEnds(s)) <= y
    BY <1>1, Least
  <2>2. Min(HeadEnds(s)) \in FirstEnd(s)
    BY <2>1 DEF FirstEnd
  <2> QED BY <2>2
<1> QED BY <1>1, <1>3, <1>4 DEF FirstEnd

\* A head that is accepted says so.
LEMMA WhatAHeadSays ==
  ASSUME NEW s, NEW end \in FirstEnd(s), Accepted(Request(SubSeq(s, 1, end)))
  PROVE  LET asked == Request(SubSeq(s, 1, end))
         IN  [kind |-> asked.kind, authority |-> asked.authority] \in HeadSays(s)
  BY DEF HeadSays

\* How long the head of an input is.
LEMMA HeadIsUpTo ==
  ASSUME input \in Inputs, NEW end \in EndOf(input), end \in Nat, end <= Len(stream)
  PROVE  HeadLength = end
<1>1. stream \in Seq(Made(input)) /\ Len(stream) \in Nat /\ input.after = SubSeq(stream, end + 1, Len(stream))
  BY Streams DEF stream
<1> DEFINE m == end + 1
           n == Len(stream)
<1>2. m \in 1 .. n + 1 /\ n \in m - 1 .. n /\ n - m + 1 = n - end /\ n - (n - end) = end
  BY <1>1
<1>3. n = Len(stream)
  OBVIOUS
<1> HIDE DEF m, n
<1>4. Len(SubSeq(stream, m, n)) = n - m + 1
  BY <1>1, <1>2, <1>3, Piece
<1> QED BY <1>1, <1>2, <1>3, <1>4 DEF HeadLength, m, n

\* There is one meaning, and a peer that says nothing means nothing.
LEMMA Meaning ==
  ASSUME SaidAsMeant, input \in Inputs
  PROVE  /\ \A meaning \in Says(input) : meant # Failure /\ meant = meaning
         /\ Says(input) = {} => meant = Failure
         /\ input.reader = "http" /\ meant # Failure => HasHost(meant.authority)
         /\ input.reader = "upstream" => ConnectAuthority(input.target) = input.target
  BY DEF SaidAsMeant, meant

\* Each reader understands what is meant: a head,
LEMMA HttpUnderstood ==
  ASSUME IInv, SaidAsMeant, Ended, input.reader = "http"
  PROVE  Understood
<1>0. input \in Inputs /\ stream \in Seq(Made(input)) /\ Len(stream) \in Nat /\ arrived \in Nat
  BY TheStream DEF IInv
<1>1. Says(input) = HeadSays(stream)
  BY DEF Says, stream
<1>2. HeadRead \/ HeadRefused
  BY DEF IInv, ReaderInv, HttpInv, Ended
<1>3. CASE HeadRead
  <2>1. PICK end \in FirstEnd(stream) :
               /\ Accepted(Request(SubSeq(stream, 1, end)))
               /\ result[1] = Route(ProxyRequest(Request(SubSeq(stream, 1, end)), SubSeq(stream, end + 5, taken)))
    BY <1>3 DEF HeadRead
  <2> DEFINE asked == Request(SubSeq(stream, 1, end))
             rest == SubSeq(stream, end + 5, taken)
  <2>2. asked.kind \in {"connect", "http"}
    BY <2>1, Understanding
  <2>3. [kind |-> asked.kind, authority |-> asked.authority] \in Says(input)
    BY <1>1, <2>1, WhatAHeadSays
  <2> HIDE DEF asked, rest
  <2>4. meant = [kind |-> asked.kind, authority |-> asked.authority] /\ HasHost(meant.authority)
    BY <1>0, <2>3, Meaning
  <2>5. result[1] = Route(ProxyRequest(asked, rest))
    BY <2>1 DEF asked, rest
  <2>6. result[1].kind = asked.kind /\ result[1].authority = asked.authority
    <3>1. HasHost(ProxyRequest(asked, rest).authority)
      BY <2>4 DEF ProxyRequest
    <3> QED BY <2>2, <2>5, <3>1 DEF Route, ProxyRequest
  <2> QED BY <2>2, <2>4, <2>6 DEF Understood
<1>4. CASE HeadRefused
  <2>1. result[1].kind = "error"
    BY <1>4 DEF HeadRefused, Failure
  <2>2. \/ meant = Failure
        \/ closed /\ arrived < HeadLength
        \/ HeadLength > MaxHead - Chunk
    <3>1. CASE HeadEnds(stream) = {}
      <4>1. HeadSays(stream) = {}
        BY <3>1 DEF HeadSays, FirstEnd
      <4> QED BY <1>0, <1>1, <4>1, Meaning
    <3>2. CASE HeadEnds(stream) # {}
      <4>1. PICK end \in FirstEnd(stream) : TRUE
        BY <1>0, <3>2, OneFirstEnd
      <4>2. end \in HeadEnds(stream) /\ end \in Nat /\ end + 4 <= Len(stream) /\ end + 4 \in Nat
        BY <1>0, OneFirstEnd
      <4>3. HeadLength = end + 4
        <5>1. end + 4 \in EndOf(input)
          BY DEF EndOf, stream
        <5> HIDE DEF EndOf
        <5> QED BY <1>0, <4>2, <5>1, HeadIsUpTo
      <4>4. CASE \E other \in FirstEnd(stream) : ~Accepted(Request(SubSeq(stream, 1, other)))
        <5>1. \A other \in FirstEnd(stream) : ~Accepted(Request(SubSeq(stream, 1, other)))
          BY <1>0, <4>4, OneFirstEnd
        <5>2. HeadSays(stream) = {}
          BY <5>1 DEF HeadSays
        <5> QED BY <1>0, <1>1, <5>2, Meaning
      <4>5. CASE closed /\ \A other \in HeadEnds(stream) : other + 4 > arrived
        BY <1>0, <4>2, <4>3, <4>5
      <4>6. CASE \A other \in HeadEnds(stream) : other + 4 > MaxHead - Chunk
        BY <4>2, <4>3, <4>6
      <4> QED BY <1>4, <4>4, <4>5, <4>6 DEF HeadRefused
    <3> QED BY <3>1, <3>2
  <2> QED BY <2>1, <2>2 DEF Understood
<1> QED BY <1>2, <1>3, <1>4

\* a SOCKS5 request,
LEMMA SocksUnderstood ==
  ASSUME IInv, AskedInv, WrongInv, SaidAsMeant, Ended, input.reader = "socks5"
  PROVE  Understood
<1>0. input \in Inputs /\ arrived \in Nat /\ Len(stream) \in Nat
  BY TheStream DEF IInv
<1>1. Says(input) = SocksSays(stream)
  BY DEF Says, stream
<1>2. SocksRead \/ SocksWrong
  BY Routed DEF AskedInv, WrongInv, Ended
<1>3. CASE SocksRead
  <2>1. SocksAsks
    BY <1>3 DEF SocksRead, SocksAsks
  <2>2. PICK host \in Hosts(stream[TypeAt], SubSeq(stream, AddressAt, taken - 2)) :
          \/ AskedFor = 3 /\ result[1] = [kind |-> "udp", leftover |-> <<>>]
          \/ /\ AskedFor = 1
             /\ result[1] = Route([kind |-> "connect",
                                   authority |-> [bracket |-> stream[TypeAt] = Ipv6Type, host |-> host,
                                                  port |-> SubSeq(stream, taken - 1, taken)],
                                   head |-> <<>>, leftover |-> <<>>, proxied |-> FALSE])
    BY <1>3 DEF SocksRead
  <2>3. taken \in SocksEnd(stream)
    BY <1>3 DEF SocksRead
  <2>4. Said(host, taken) \in SocksSays(stream)
    BY <2>1, <2>2, <2>3, WhatIsSaid
  <2>5. meant = Said(host, taken)
    BY <1>0, <1>1, <2>4, Meaning
  <2>6. CASE AskedFor = 3 /\ result[1] = [kind |-> "udp", leftover |-> <<>>]
    BY <2>5, <2>6 DEF Said, Understood
  <2>7. CASE /\ AskedFor = 1
             /\ result[1] = Route([kind |-> "connect",
                                   authority |-> [bracket |-> stream[TypeAt] = Ipv6Type, host |-> host,
                                                  port |-> SubSeq(stream, taken - 1, taken)],
                                   head |-> <<>>, leftover |-> <<>>, proxied |-> FALSE])
    <3> DEFINE where == [bracket |-> stream[TypeAt] = Ipv6Type, host |-> host,
                         port |-> SubSeq(stream, taken - 1, taken)]
    <3>1. meant = [kind |-> "connect", authority |-> where]
      BY <2>5, <2>7 DEF Said
    <3>2. result[1] = Route([kind |-> "connect", authority |-> where, head |-> <<>>,
                             leftover |-> <<>>, proxied |-> FALSE])
      BY <2>7
    <3> HIDE DEF where
    <3>3. result[1].kind \in {"connect", "unroutable"} /\ result[1].authority = where
      BY <3>2 DEF Route
    <3> QED BY <3>1, <3>3 DEF Understood
  <2> QED BY <2>2, <2>6, <2>7
<1>4. CASE SocksWrong
  <2>1. result[1].kind = "error"
    BY <1>4 DEF SocksWrong, Failure
  <2>2. meant = Failure \/ (closed /\ arrived < HeadLength)
    <3>1. CASE SocksSays(stream) = {}
      BY <1>0, <1>1, <3>1, Meaning
    <3>2. CASE SocksSays(stream) # {} /\ closed /\ \A end \in SocksEnd(stream) : end > arrived
      <4>1. PICK end \in SocksEnd(stream) : TRUE
        BY <3>2, WhatIsSaid
      <4>2. end \in Nat /\ end <= Len(stream)
        BY <1>0, EndOfRequest
      <4>3. end \in EndOf(input)
        BY DEF EndOf, stream
      <4>4. HeadLength = end
        BY <1>0, <4>2, <4>3, HeadIsUpTo
      <4> QED BY <1>0, <3>2, <4>2, <4>4
    <3> QED BY <1>4, <3>1, <3>2 DEF SocksWrong
  <2> QED BY <2>1, <2>2 DEF Understood
<1> QED BY <1>2, <1>3, <1>4

\* the answer of an upstream proxy,
LEMMA AnswerUnderstood ==
  ASSUME IInv, AskedInv, SaidAsMeant, Ended, input.reader = "upstream"
  PROVE  Understood
<1>0. input \in Inputs
  BY TheStream DEF IInv
<1>1. AnswerRead \/ result[1] = Failure
  BY DEF AskedInv, Ended
<1>2. CASE result[1] = Failure
  BY <1>2 DEF Failure, Understood
<1>3. CASE AnswerRead
  <2>1. result[1].kind = "tunnel"
    BY <1>3 DEF AnswerRead
  <2>2. [kind |-> "tunnel"] \in AnswerSays(input)
    <3>1. CASE input.proxy = "http"
      BY <1>3, <3>1 DEF AnswerRead, AnswerSays, stream
    <3>2. CASE input.proxy # "http"
      BY <3>2 DEF AnswerSays
    <3> QED BY <3>1, <3>2
  <2>3. meant = [kind |-> "tunnel"]
    BY <1>0, <2>2, Meaning DEF Says
  <2>4. input.proxy = "http" => sent = <<input.target>>
    BY <1>0, <1>3, Meaning DEF AnswerRead
  <2> QED BY <2>1, <2>3, <2>4 DEF Understood
<1> QED BY <1>1, <1>2, <1>3

\* and a datagram, with the way its answer goes back.
LEMMA DatagramUnderstood ==
  ASSUME IInv, AskedInv, WrongInv, SaidAsMeant, Ended, input.reader = "datagram"
  PROVE  Understood
<1>0. input \in Inputs /\ stream \in Seq(0 .. 255)
  BY TheStream DEF IInv
<1> DEFINE outcome == ParseDatagram(stream)
<1>1. result[1] = outcome
  BY DEF AskedInv, Ended
<1>2. Says(input) = {[kind |-> o.kind, authority |-> o.authority] : o \in {p \in {outcome} : Accepted(p)}}
  BY DEF Says, DatagramSays, stream
<1>3. CASE Accepted(outcome)
  <2>1. outcome.kind = "datagram"
    BY <1>0, <1>3, Payload
  <2>2. sent = <<BuildDatagram(outcome.authority, outcome.leftover)>>
    BY <1>1, <1>3 DEF WrongInv, Ended
  <2> DEFINE back == ParseDatagram(BuildDatagram(outcome.authority, outcome.leftover))
  <2>3. /\ Accepted(back) /\ back.leftover = outcome.leftover
        /\ back.authority.host = outcome.authority.host
        /\ back.authority.port = outcome.authority.port
    BY <1>0, <1>3, ThereAndBack DEF SaidAsMeant, OneText
  <2> HIDE DEF outcome
  <2>4. meant = [kind |-> outcome.kind, authority |-> outcome.authority]
    BY <1>0, <1>2, <1>3, Meaning
  <2>5. ParseDatagram(sent[1]) = back
    BY <2>2
  <2> HIDE DEF back
  <2> QED BY <1>1, <2>1, <2>3, <2>4, <2>5 DEF Understood
<1>4. CASE ~Accepted(outcome)
  <2>1. outcome.kind = "error"
    BY <1>4 DEF Accepted
  <2> HIDE DEF outcome
  <2>2. meant = Failure
    BY <1>0, <1>2, <1>4, Meaning
  <2> QED BY <1>1, <2>1, <2>2 DEF Understood
<1> QED BY <1>3, <1>4

\* Requests, greetings, answers and datagrams are understood as they are meant, of peers
\* that say what they mean.
THEOREM RequestsAreUnderstood == SaidAsMeant => (Spec => []Understood)
<1> SUFFICES ASSUME SaidAsMeant PROVE Spec => []Understood
  OBVIOUS
<1>1. ASSUME IInv, AskedInv, WrongInv PROVE Understood
  <2> SUFFICES ASSUME Ended PROVE Understood
    BY DEF Understood
  <2>1. input.reader \in {"http", "socks5", "upstream", "datagram"}
    BY <1>1, TheStream, Streams DEF IInv
  <2> QED BY <1>1, <2>1, HttpUnderstood, SocksUnderstood, AnswerUnderstood, DatagramUnderstood
<1>2. Init => AskedInv /\ WrongInv
  BY AskedInit, WrongInit
<1>3. IInv /\ HostInv /\ AskedInv /\ WrongInv /\ [Next]_vars => AskedInv' /\ WrongInv'
  BY AskedPreserved, WrongPreserved
<1> QED BY <1>1, <1>2, <1>3, HostsAreRouted, PTL DEF Spec

-----------------------------------------------------------------------------
(* The elements of a sequence that are in a set. What a recursive function  *)
(* is at each number follows from least counterexamples.                    *)

\* Induction, for the elements of a set.
LEMMA Induct ==
  ASSUME NEW P, NEW n \in Nat, 0 \in P, \A i \in 1 .. n : i - 1 \in P => i \in P
  PROVE  \A i \in 0 .. n : i \in P
<1> DEFINE Bad == {i \in 0 .. n : i \notin P}
<1> SUFFICES ASSUME Bad # {} PROVE FALSE
  OBVIOUS
<1> DEFINE m == Min(Bad)
<1>1. Bad \in SUBSET Nat
  OBVIOUS
<1> HIDE DEF Bad
<1>2. m \in Bad /\ \A i \in Bad : m <= i
  BY <1>1, Least
<1> HIDE DEF m
<1>3. m \in 1 .. n /\ m \notin P
  BY <1>2 DEF Bad
<1>4. m - 1 \in P
  <2>1. m - 1 \notin Bad /\ m - 1 \in 0 .. n
    BY <1>1, <1>2, <1>3
  <2> QED BY <2>1 DEF Bad
<1> QED BY <1>3, <1>4

\* What is kept of each prefix of a sequence.
Keeps(k, s, S) ==
  /\ k[0] = <<>>
  /\ \A n \in 1 .. Len(s) : k[n] = IF s[n] \in S THEN Append(k[n - 1], s[n]) ELSE k[n - 1]

\* Only is what is kept of the whole: the function of its definition exists.
LEMMA OnlyKeeps ==
  ASSUME NEW T, NEW s \in Seq(T), NEW S
  PROVE  \E k : Keeps(k, s, S) /\ Only(s, S) = k[Len(s)]
<1> DEFINE Body(f, n) ==
             [i \in 0 .. n |-> IF i = 0 THEN <<>>
                               ELSE IF s[i] \in S THEN Append(f[i - 1], s[i]) ELSE f[i - 1]]
           P == {n \in Nat : \E f : f = Body(f, n)}
<1>1. Len(s) \in Nat
  OBVIOUS
<1>2. 0 \in P
  <2> DEFINE f == [i \in 0 .. 0 |-> <<>>]
  <2>1. f = Body(f, 0)
    OBVIOUS
  <2> QED BY <2>1
<1>3. ASSUME NEW n \in 1 .. Len(s), n - 1 \in P PROVE n \in P
  <2>1. PICK f : f = Body(f, n - 1)
    BY <1>3
  <2> DEFINE g == [i \in 0 .. n |-> IF i = n THEN IF s[n] \in S THEN Append(f[n - 1], s[n]) ELSE f[n - 1]
                                    ELSE f[i]]
  <2>2. ASSUME NEW i \in 0 .. n PROVE g[i] = Body(g, n)[i]
    <3>1. CASE i = n
      <4>1. n # 0 /\ n - 1 \in 0 .. n /\ n - 1 # n
        BY <1>1
      <4>2. g[n - 1] = f[n - 1]
        BY <4>1
      <4> QED BY <3>1, <4>1, <4>2
    <3>2. CASE i = 0
      <4>1. 0 \in 0 .. n - 1 /\ i # n
        BY <1>1, <3>2
      <4>2. f[0] = <<>>
        BY <2>1, <4>1
      <4> QED BY <3>2, <4>1, <4>2
    <3>3. CASE i # n /\ i # 0
      <4>1. i \in 0 .. n - 1 /\ i - 1 \in 0 .. n /\ i - 1 # n
        BY <1>1, <3>3
      <4>2. g[i] = f[i] /\ g[i - 1] = f[i - 1]
        BY <3>3, <4>1
      <4>3. f[i] = IF s[i] \in S THEN Append(f[i - 1], s[i]) ELSE f[i - 1]
        BY <2>1, <3>3, <4>1
      <4> HIDE DEF g
      <4> QED BY <3>3, <4>2, <4>3
    <3> QED BY <3>1, <3>2, <3>3
  <2>3. g = [i \in 0 .. n |-> g[i]]
    OBVIOUS
  <2>4. g = Body(g, n)
    <3> HIDE DEF g
    <3> DEFINE h == Body(g, n)
    <3>1. h = [i \in 0 .. n |-> h[i]]
      OBVIOUS
    <3>2. \A i \in 0 .. n : g[i] = h[i]
      BY <2>2
    <3> HIDE DEF h
    <3>3. g = h
      BY <2>3, <3>1, <3>2
    <3> QED BY <3>3 DEF h
  <2>5. n \in Nat
    BY <1>1
  <2> HIDE DEF g
  <2> QED BY <2>4, <2>5
<1>4. Len(s) \in P
  <2> DEFINE n == Len(s)
  <2>1. n \in Nat /\ 0 \in P /\ \A i \in 1 .. n : i - 1 \in P => i \in P
    <3> HIDE DEF P
    <3> QED BY <1>1, <1>2, <1>3
  <2> HIDE DEF P, n
  <2>2. \A i \in 0 .. n : i \in P
    BY <2>1, Induct
  <2> QED BY <2>1, <2>2 DEF n
<1> DEFINE k == CHOOSE f : f = Body(f, Len(s))
<1>5. k = Body(k, Len(s))
  <2>1. \E f : f = Body(f, Len(s))
    BY <1>4
  <2> QED BY <2>1
<1>6. Only(s, S) = k[Len(s)]
  BY DEF Only
<1> HIDE DEF k
<1>7. Keeps(k, s, S)
  <2>1. 0 \in 0 .. Len(s) /\ \A n \in 1 .. Len(s) : n \in 0 .. Len(s) /\ n # 0
    BY <1>1
  <2> QED BY <1>5, <2>1 DEF Keeps
<1> QED BY <1>6, <1>7

\* Sequences that agree in what is to be kept keep the same.
LEMMA KeepsAlike ==
  ASSUME NEW s, NEW t, NEW S, NEW U, NEW k, NEW l, Keeps(k, s, S), Keeps(l, t, U),
         NEW n \in Nat, Len(s) \in Nat, Len(t) \in Nat, n <= Len(s), n <= Len(t),
         \A i \in 1 .. n : (s[i] \in S <=> t[i] \in U) /\ (s[i] \in S => s[i] = t[i])
  PROVE  \A i \in 0 .. n : k[i] = l[i]
<1> DEFINE P == {i \in Nat : k[i] = l[i]}
<1>1. 0 \in P
  BY DEF Keeps
<1>2. ASSUME NEW i \in 1 .. n, i - 1 \in P PROVE i \in P
  <2>1. i \in 1 .. Len(s) /\ i \in 1 .. Len(t) /\ i \in Nat
    OBVIOUS
  <2>2. k[i - 1] = l[i - 1]
    BY <1>2
  <2>3. k[i] = l[i]
    BY <2>1, <2>2 DEF Keeps
  <2> QED BY <2>1, <2>3
<1>3. \A i \in 0 .. n : i \in P
  <2> HIDE DEF P
  <2> QED BY <1>1, <1>2, Induct
<1> QED BY <1>3

\* and so does Only.
LEMMA OnlyAlike ==
  ASSUME NEW T, NEW V, NEW s \in Seq(T), NEW t \in Seq(V), NEW S, NEW U, Len(s) = Len(t),
         \A i \in 1 .. Len(s) : (s[i] \in S <=> t[i] \in U) /\ (s[i] \in S => s[i] = t[i])
  PROVE  Only(s, S) = Only(t, U)
<1>1. PICK k : Keeps(k, s, S) /\ Only(s, S) = k[Len(s)]
  BY OnlyKeeps
<1>2. PICK l : Keeps(l, t, U) /\ Only(t, U) = l[Len(t)]
  BY OnlyKeeps
<1> DEFINE n == Len(s)
<1>3. n \in Nat /\ Len(s) \in Nat /\ Len(t) \in Nat /\ n <= Len(s) /\ n <= Len(t) /\ n \in 0 .. n
  OBVIOUS
<1>4. \A i \in 0 .. n : k[i] = l[i]
  <2>1. \A i \in 1 .. n : (s[i] \in S <=> t[i] \in U) /\ (s[i] \in S => s[i] = t[i])
    OBVIOUS
  <2> HIDE DEF n
  <2> QED BY <1>1, <1>2, <1>3, <2>1, KeepsAlike
<1> QED BY <1>1, <1>2, <1>3, <1>4

\* One more element.
LEMMA OnlyAppend ==
  ASSUME NEW T, NEW s \in Seq(T), NEW e \in T, NEW S
  PROVE  Only(Append(s, e), S) = IF e \in S THEN Append(Only(s, S), e) ELSE Only(s, S)
<1> DEFINE t == Append(s, e)
           n == Len(s)
<1>1. n \in Nat /\ t \in Seq(T) /\ Len(t) = n + 1 /\ t[n + 1] = e /\ \A i \in 1 .. n : t[i] = s[i]
  OBVIOUS
<1> HIDE DEF t
<1>2. PICK k : Keeps(k, t, S) /\ Only(t, S) = k[Len(t)]
  BY <1>1, OnlyKeeps
<1>3. PICK l : Keeps(l, s, S) /\ Only(s, S) = l[Len(s)]
  BY OnlyKeeps
<1>4. \A i \in 0 .. n : k[i] = l[i]
  <2>1. Len(s) \in Nat /\ Len(t) \in Nat /\ n <= Len(s) /\ n <= Len(t)
    BY <1>1
  <2>2. \A i \in 1 .. n : (t[i] \in S <=> s[i] \in S) /\ (t[i] \in S => t[i] = s[i])
    BY <1>1
  <2> HIDE DEF n
  <2> QED BY <1>1, <1>2, <1>3, <2>1, <2>2, KeepsAlike
<1>5. n + 1 \in 1 .. Len(t) /\ n \in 0 .. n /\ (n + 1) - 1 = n
  BY <1>1
<1> DEFINE m == n + 1
<1>6. k[m] = IF t[m] \in S THEN Append(k[m - 1], t[m]) ELSE k[m - 1]
  BY <1>2, <1>5 DEF Keeps
<1>7. Only(t, S) = IF e \in S THEN Append(k[n], e) ELSE k[n]
  BY <1>1, <1>2, <1>5, <1>6
<1>8. k[n] = Only(s, S)
  BY <1>3, <1>4, <1>5
<1> QED BY <1>7, <1>8 DEF t

\* Nothing is kept of nothing.
LEMMA OnlyOfNothing == ASSUME NEW S PROVE Only(<<>>, S) = <<>>
<1>1. <<>> \in Seq({}) /\ Len(<<>>) = 0
  OBVIOUS
<1>2. PICK k : Keeps(k, <<>>, S) /\ Only(<<>>, S) = k[Len(<<>>)]
  BY <1>1, OnlyKeeps
<1> QED BY <1>1, <1>2 DEF Keeps

\* The elements of a sequence and of one that is longer by one.
LEMMA OneMore ==
  ASSUME NEW T, NEW s \in Seq(T), NEW e \in T
  PROVE  ToSet(Append(s, e)) = ToSet(s) \cup {e}
<1> DEFINE t == Append(s, e)
<1>1. /\ Len(s) \in Nat /\ DOMAIN s = 1 .. Len(s) /\ DOMAIN t = 1 .. Len(s) + 1
      /\ \A i \in 1 .. Len(s) : t[i] = s[i]
      /\ t[Len(s) + 1] = e
  OBVIOUS
<1>2. 1 .. Len(s) + 1 = 1 .. Len(s) \cup {Len(s) + 1}
  BY <1>1
<1> HIDE DEF t
<1>3. ToSet(t) = ToSet(s) \cup {e}
  BY <1>1, <1>2 DEF ToSet
<1> QED BY <1>3 DEF t

\* Keeping twice is keeping what is in both sets, and the elements kept are those in the set.
LEMMA OnlyTwice ==
  ASSUME NEW T, NEW s \in Seq(T), NEW S, NEW U
  PROVE  /\ Only(s, S) \in Seq(T)
         /\ Only(Only(s, S), U) = Only(s, S \cap U)
         /\ ToSet(Only(s, S)) = ToSet(s) \cap S
<1>1. PICK k : Keeps(k, s, S) /\ Only(s, S) = k[Len(s)]
  BY OnlyKeeps
<1>2. PICK l : Keeps(l, s, S \cap U) /\ Only(s, S \cap U) = l[Len(s)]
  BY OnlyKeeps
<1>3. Len(s) \in Nat /\ Len(s) \in 0 .. Len(s) /\ \A i \in 1 .. Len(s) : s[i] \in T
  BY ElementOfSeq
<1> DEFINE P == {n \in Nat : /\ k[n] \in Seq(T) /\ Only(k[n], U) = l[n]
                             /\ ToSet(k[n]) = {s[i] : i \in 1 .. n} \cap S}
<1>4. 0 \in P
  <2>1. k[0] = <<>> /\ l[0] = <<>>
    BY <1>1, <1>2 DEF Keeps
  <2>2. k[0] \in Seq(T) /\ ToSet(k[0]) = {}
    BY <2>1 DEF ToSet
  <2>3. {s[i] : i \in 1 .. 0} \cap S = {}
    OBVIOUS
  <2>4. Only(k[0], U) = l[0]
    BY <2>1, OnlyOfNothing
  <2> QED BY <2>2, <2>3, <2>4
<1>5. ASSUME NEW n \in 1 .. Len(s), n - 1 \in P PROVE n \in P
  <2> DEFINE m == n - 1
  <2>1. n \in Nat /\ 1 .. n = 1 .. m \cup {n} /\ s[n] \in T
    BY <1>3
  <2>2. /\ k[m] \in Seq(T) /\ Only(k[m], U) = l[m]
        /\ ToSet(k[m]) = {s[i] : i \in 1 .. m} \cap S
    BY <1>5
  <2>3. /\ k[n] = IF s[n] \in S THEN Append(k[m], s[n]) ELSE k[m]
        /\ l[n] = IF s[n] \in S \cap U THEN Append(l[m], s[n]) ELSE l[m]
    BY <1>1, <1>2 DEF Keeps
  <2> HIDE DEF m
  <2>4. {s[i] : i \in 1 .. n} = {s[i] : i \in 1 .. m} \cup {s[n]}
    BY <2>1
  <2>5. k[n] \in Seq(T) /\ Only(k[n], U) = l[n]
    <3>1. CASE s[n] \in S
      <4> DEFINE x == k[m]
                 e == s[n]
      <4>1. Only(Append(x, e), U) = IF e \in U THEN Append(Only(x, U), e) ELSE Only(x, U)
        <5>1. x \in Seq(T) /\ e \in T
          BY <2>1, <2>2
        <5> HIDE DEF x, e
        <5> QED BY <5>1, OnlyAppend
      <4>2. k[n] = Append(k[m], s[n]) /\ l[n] = IF s[n] \in U THEN Append(l[m], s[n]) ELSE l[m]
        BY <2>3, <3>1
      <4>3. k[n] \in Seq(T)
        BY <2>1, <2>2, <4>2
      <4>4. Only(k[n], U) = l[n]
        BY <2>2, <4>1, <4>2
      <4> QED BY <4>3, <4>4
    <3>2. CASE s[n] \notin S
      BY <2>2, <2>3, <3>2
    <3> QED BY <3>1, <3>2
  <2>6. ToSet(k[n]) = {s[i] : i \in 1 .. n} \cap S
    <3>1. CASE s[n] \in S
      <4> DEFINE x == k[m]
                 e == s[n]
                 y == Append(x, e)
      <4>1. ToSet(y) = ToSet(x) \cup {e}
        <5>1. x \in Seq(T) /\ e \in T
          BY <2>1, <2>2
        <5> HIDE DEF x, e
        <5> QED BY <5>1, OneMore
      <4> QED BY <2>2, <2>3, <2>4, <3>1, <4>1
    <3>2. CASE s[n] \notin S
      BY <2>2, <2>3, <2>4, <3>2
    <3> QED BY <3>1, <3>2
  <2> QED BY <2>1, <2>5, <2>6
<1>6. Len(s) \in P
  <2> HIDE DEF P
  <2> QED BY <1>3, <1>4, <1>5, Induct
<1>7. ToSet(s) = {s[i] : i \in 1 .. Len(s)}
  BY DEF ToSet
<1> QED BY <1>1, <1>2, <1>6, <1>7

-----------------------------------------------------------------------------
(* The head that is sent on.                                               *)

\* What each header says, what it says when it is passed on, and what is said for the target.
Own(headers) == [i \in DOMAIN headers |-> [name |-> headers[i][1].name, value |-> headers[i][1].value]]
Passed(headers, authority) ==
  [i \in DOMAIN headers |->
     [name  |-> headers[i][1].name,
      value |-> IF headers[i][1].name = "host" THEN authority ELSE headers[i][1].value]]
ForTarget(own) == Only(own, {header \in ToSet(own) : header.name \notin HopByHop \cup {"host"}})

\* A header that is passed on, and what it said.
IsPassed(passed, own, authority) ==
  /\ passed.name = own.name
  /\ passed.name = "host" => passed.value = authority
  /\ passed.name # "host" => passed = own

\* The headers that are passed on, one for one (rewrite_http_proxy_header).
LEMMA PassedOn ==
  ASSUME NEW headers, NEW authority
  PROVE  /\ DOMAIN Passed(headers, authority) = DOMAIN headers /\ DOMAIN Own(headers) = DOMAIN headers
         /\ \A i \in DOMAIN headers : /\ IsPassed(Passed(headers, authority)[i], Own(headers)[i], authority)
                                      /\ Own(headers)[i].name = headers[i][1].name
<1>1. ASSUME NEW i \in DOMAIN headers
      PROVE  /\ IsPassed(Passed(headers, authority)[i], Own(headers)[i], authority)
             /\ Own(headers)[i].name = headers[i][1].name
  <2> DEFINE p == Passed(headers, authority)[i]
             o == Own(headers)[i]
  <2>1. o = [name |-> headers[i][1].name, value |-> headers[i][1].value]
    BY DEF Own
  <2>2. p = [name  |-> headers[i][1].name,
             value |-> IF headers[i][1].name = "host" THEN authority ELSE headers[i][1].value]
    BY DEF Passed
  <2> HIDE DEF p, o
  <2>3. IsPassed(p, o, authority) /\ o.name = headers[i][1].name
    BY <2>1, <2>2 DEF IsPassed
  <2> QED BY <2>3 DEF p, o
<1> QED BY <1>1 DEF Own, Passed

\* What is sent on for headers that all have a colon: every Host is the target's, and
\* there is one; the rest is what they say for the target, and the end of the connection.
LEMMA SentOn ==
  ASSUME NEW T, NEW headers \in Seq(T), \A i \in DOMAIN headers : HasColon(headers[i]), NEW authority
  PROVE  LET head  == Rewritten(headers, authority)
             hosts == {header \in ToSet(head) : header.name = "host"}
         IN  /\ {header.value : header \in hosts} = {authority}
             /\ Only(head, ToSet(head) \ hosts) = ForTarget(Own(headers)) \o Closing
<1> DEFINE passed == Passed(headers, authority)
           host == [name |-> "host", value |-> authority]
           close == [name |-> "connection", value |-> "close"]
           own == Own(headers)
           V == ToSet(passed) \cup {host, close}
           K == {header \in ToSet(passed) : header.name \notin HopByHop}
           N == {header \in V : header.name # "host"}
           y == Only(passed, K)
           x == y \o AddedHost(headers, authority)
           head == x \o Closing
           n == Len(headers)
<1>1. n \in Nat /\ DOMAIN headers = 1 .. n
  OBVIOUS
<1> HIDE DEF n
<1>2. passed \in Seq(V) /\ Len(passed) = n /\ DOMAIN passed = 1 .. n
  <2>0. passed = [i \in 1 .. n |-> passed[i]] /\ DOMAIN passed = 1 .. n
    BY <1>1 DEF Passed
  <2>1. passed \in [1 .. n -> V]
    <3>1. \A i \in 1 .. n : passed[i] \in ToSet(passed)
      BY <2>0 DEF ToSet
    <3>2. \A i \in 1 .. n : passed[i] \in V
      BY <3>1
    <3> HIDE DEF passed, V
    <3> QED BY <2>0, <3>2
  <2> HIDE DEF passed, V
  <2> QED BY <1>1, <2>1, Sequence
<1>3. own \in Seq(ToSet(own)) /\ Len(own) = n /\ DOMAIN own = 1 .. n
  <2> DEFINE W == ToSet(own)
  <2>1. own = [i \in 1 .. n |-> own[i]] /\ DOMAIN own = 1 .. n
    BY <1>1 DEF Own
  <2>2. \A i \in 1 .. n : own[i] \in W
    BY <2>1 DEF ToSet
  <2> HIDE DEF W, own
  <2>3. own \in [1 .. n -> W]
    BY <2>1, <2>2
  <2>4. own \in Seq(W) /\ Len(own) = n /\ DOMAIN own = 1 .. n
    BY <1>1, <2>3, Sequence
  <2> QED BY <2>4 DEF W
<1>4. \A i \in 1 .. n : IsPassed(passed[i], own[i], authority) /\ own[i].name = headers[i][1].name
  BY <1>1, PassedOn
<1>5. host.name = "host" /\ host.value = authority /\ close.name = "connection"
      /\ "host" \notin HopByHop /\ "connection" # "host"
  BY DEF HopByHop
<1>6. host \in V /\ close \in V
  OBVIOUS
<1>7. Closing = <<close>> /\ AddedHost(headers, authority) \in {<<>>, <<host>>}
      /\ (AddedHost(headers, authority) = <<host>> <=> Named(headers, "host") = <<>>)
  BY DEF Closing, AddedHost
<1>8. Rewritten(headers, authority) = head
  BY DEF Rewritten, Passed
<1> HIDE DEF host, close
<1>9. /\ y \in Seq(V) /\ Only(y, N) = Only(passed, K \cap N) /\ ToSet(y) = ToSet(passed) \cap K
  <2>1. passed \in Seq(V)
    BY <1>2
  <2> HIDE DEF passed, V, K, N
  <2> DEFINE KN == K \cap N
  <2>2. Only(passed, K) \in Seq(V) /\ Only(Only(passed, K), N) = Only(passed, KN)
        /\ ToSet(Only(passed, K)) = ToSet(passed) \cap K
    <3> HIDE DEF KN
    <3>1. Only(passed, K) \in Seq(V)
      BY <2>1, OnlyTwice
    <3>2. ToSet(Only(passed, K)) = ToSet(passed) \cap K
      BY <2>1, OnlyTwice
    <3>3. Only(Only(passed, K), N) = Only(passed, KN)
      BY <2>1, OnlyTwice DEF KN
    <3> QED BY <3>1, <3>2, <3>3
  <2> QED BY <2>2
<1>10. x \in Seq(V) /\ Only(x, N) = Only(y, N)
       /\ ToSet(x) = ToSet(y) \cup (IF Named(headers, "host") = <<>> THEN {host} ELSE {})
  <2>1. host \notin N
    BY <1>5
  <2> HIDE DEF y, V, N
  <2>2. CASE Named(headers, "host") = <<>>
    <3>1. x = Append(y, host)
      BY <1>6, <1>7, <1>9, <2>2, AppendIsConcat
    <3>2. Append(y, host) \in Seq(V)
      BY <1>6, <1>9
    <3>3. Only(Append(y, host), N) = Only(y, N) /\ ToSet(Append(y, host)) = ToSet(y) \cup {host}
      BY <1>6, <1>9, <2>1, OnlyAppend, OneMore
    <3> HIDE DEF x
    <3> QED BY <2>2, <3>1, <3>2, <3>3
  <2>3. CASE Named(headers, "host") # <<>>
    <3>1. AddedHost(headers, authority) = <<>>
      BY <1>7, <2>3
    <3>2. x = y
      BY <1>9, <3>1
    <3> QED BY <1>9, <2>3, <3>2
  <2> QED BY <2>2, <2>3
<1> HIDE DEF x, y
<1>11. /\ head \in Seq(V) /\ ToSet(head) = ToSet(x) \cup {close}
       /\ Only(head, N) = Append(Only(x, N), close)
  <2>1. close \in N
    BY <1>5, <1>6
  <2> HIDE DEF V, N
  <2>2. head = Append(x, close)
    BY <1>6, <1>7, <1>10, AppendIsConcat
  <2>3. Append(x, close) \in Seq(V)
    BY <1>6, <1>10
  <2>4. Only(Append(x, close), N) = Append(Only(x, N), close) /\ ToSet(Append(x, close)) = ToSet(x) \cup {close}
    BY <1>6, <1>10, <2>1, OnlyAppend, OneMore
  <2> HIDE DEF head
  <2> QED BY <2>2, <2>3, <2>4
<1> HIDE DEF head
\* What is kept of the headers is what they say for the target.
<1> DEFINE E == {header \in ToSet(own) : header.name \notin HopByHop \cup {"host"}}
<1>12. Only(passed, K \cap N) = Only(own, E)
  <2>1. ASSUME NEW i \in 1 .. n
        PROVE  (passed[i] \in K \cap N <=> own[i] \in E) /\ (passed[i] \in K \cap N => passed[i] = own[i])
    <3>1. passed[i] \in ToSet(passed) /\ own[i] \in ToSet(own)
      BY <1>2, <1>3 DEF ToSet
    <3>2. passed[i].name = own[i].name /\ (passed[i].name # "host" => passed[i] = own[i])
      BY <1>4 DEF IsPassed
    <3> HIDE DEF passed, own
    <3> QED BY <3>1, <3>2
  <2> DEFINE S == K \cap N
             W == ToSet(own)
  <2>2. /\ passed \in Seq(V) /\ own \in Seq(W) /\ Len(passed) = Len(own)
        /\ \A i \in 1 .. Len(passed) : (passed[i] \in S <=> own[i] \in E) /\ (passed[i] \in S => passed[i] = own[i])
    <3> HIDE DEF passed, own, V, K, N, E
    <3> QED BY <1>2, <1>3, <2>1
  <2> HIDE DEF S, W, passed, own, V, E
  <2>3. Only(passed, S) = Only(own, E)
    BY <2>2, OnlyAlike
  <2> QED BY <2>3 DEF S
<1> DEFINE hosts == {header \in ToSet(head) : header.name = "host"}
           F == ToSet(head) \ hosts
<1>13. Only(head, F) = Only(head, N)
  <2>1. Len(head) \in Nat /\ DOMAIN head = 1 .. Len(head) /\ \A i \in 1 .. Len(head) : head[i] \in V
    <3> HIDE DEF V
    <3> QED BY <1>11, ElementOfSeq
  <2>2. \A i \in 1 .. Len(head) : head[i] \in ToSet(head)
    BY <2>1 DEF ToSet
  <2>3. \A i \in 1 .. Len(head) : head[i] \in F <=> head[i] \in N
    <3> HIDE DEF V
    <3> QED BY <2>1, <2>2
  <2>4. /\ head \in Seq(V) /\ Len(head) = Len(head)
        /\ \A i \in 1 .. Len(head) : (head[i] \in F <=> head[i] \in N) /\ (head[i] \in F => head[i] = head[i])
    BY <1>11, <2>3
  <2> HIDE DEF F, N, V
  <2> QED BY <2>4, OnlyAlike
<1>14. Only(head, F) = ForTarget(own) \o Closing
  <2>1. Only(own, E) \in Seq(ToSet(own) \cup {close})
    <3> DEFINE W == ToSet(own) \cup {close}
    <3>1. own \in Seq(W)
      <4> HIDE DEF own
      <4> QED BY <1>3, SeqMonotonic
    <3> HIDE DEF own, E, W
    <3>2. Only(own, E) \in Seq(W)
      BY <3>1, OnlyTwice
    <3> QED BY <3>2 DEF W
  <2>2. Only(own, E) \o <<close>> = Append(Only(own, E), close)
    <3> DEFINE W == ToSet(own) \cup {close}
    <3>1. close \in W
      OBVIOUS
    <3> HIDE DEF own, E
    <3> QED BY <2>1, <3>1, AppendIsConcat
  <2>3. Only(own, E) = ForTarget(own)
    <3> HIDE DEF own
    <3> QED BY DEF ForTarget
  <2> HIDE DEF own, E, F, N, K, V, passed
  <2> QED BY <1>7, <1>9, <1>10, <1>11, <1>12, <1>13, <2>2, <2>3
\* Every Host is the target's, and there is one.
<1>15. \A header \in hosts : header.value = authority
  <2>1. \A header \in ToSet(passed) : header.name = "host" => header.value = authority
    <3>1. \A i \in 1 .. n : passed[i].name = "host" => passed[i].value = authority
      BY <1>4 DEF IsPassed
    <3> HIDE DEF passed
    <3> QED BY <1>2, <3>1 DEF ToSet
  <2> HIDE DEF passed
  <2> QED BY <1>5, <1>9, <1>10, <1>11, <2>1
<1>16. hosts # {}
  <2>1. CASE Named(headers, "host") = <<>>
    <3>1. host \in ToSet(head)
      BY <1>10, <1>11, <2>1
    <3> QED BY <1>5, <3>1
  <2>2. CASE Named(headers, "host") # <<>>
    <3> DEFINE S == {line \in ToSet(headers) : HasColon(line) /\ line[1].name = "host"}
    <3>1. Only(headers, S) \in Seq(T) /\ ToSet(Only(headers, S)) = ToSet(headers) \cap S /\ Only(headers, S) # <<>>
      <4>1. Only(headers, S) # <<>>
        BY <2>2 DEF Named
      <4> HIDE DEF S
      <4>2. Only(headers, S) \in Seq(T) /\ ToSet(Only(headers, S)) = ToSet(headers) \cap S
        BY OnlyTwice
      <4> QED BY <4>1, <4>2
    <3>2. \E line \in ToSet(headers) : line \in S
      <4> DEFINE o == Only(headers, S)
      <4>1. o[1] \in ToSet(o)
        <5>1. o \in Seq(T) /\ o # <<>>
          BY <3>1
        <5> HIDE DEF o
        <5>2. 1 \in DOMAIN o
          BY <5>1
        <5> QED BY <5>2 DEF ToSet
      <4> HIDE DEF S
      <4> QED BY <3>1, <4>1
    <3>3. PICK i \in 1 .. n : headers[i][1].name = "host"
      BY <1>1, <3>2 DEF ToSet
    <3>4. passed[i].name = "host" /\ passed[i] \in ToSet(passed)
      <4>1. passed[i] \in ToSet(passed)
        <5> HIDE DEF passed
        <5> QED BY <1>2 DEF ToSet
      <4> QED BY <1>4, <3>3, <4>1 DEF IsPassed
    <3> HIDE DEF passed
    <3>5. passed[i] \in ToSet(y)
      BY <1>5, <1>9, <3>4
    <3> QED BY <1>10, <1>11, <3>4, <3>5
  <2> QED BY <2>1, <2>2
<1>17. {header.value : header \in hosts} = {authority}
  <2> HIDE DEF hosts
  <2> QED BY <1>15, <1>16
<1> QED BY <1>8, <1>14, <1>17

\* The lines of a head are a sequence, and so are its headers.
LEMMA HeadersAreLines ==
  ASSUME NEW T, NEW head \in Seq(T), head # <<>>
  PROVE  \E V : Headers(Lines(head)) \in Seq(V)
<1> DEFINE starts == LineStarts(head)
           n == Cardinality(starts)
           lines == Lines(head)
           V == {lines[i] : i \in 1 .. n}
<1>1. DOMAIN head = 1 .. Len(head) /\ Len(head) \in Nat /\ 1 \in DOMAIN head
  OBVIOUS
<1>2. IsFiniteSet(starts) /\ 1 \in starts
  <2>1. IsFiniteSet(1 .. Len(head))
    BY <1>1, FS_Interval
  <2>2. starts \subseteq 1 .. Len(head) /\ 1 \in starts
    BY <1>1 DEF LineStarts
  <2> HIDE DEF starts
  <2> QED BY <2>1, <2>2, FS_Subset
<1>3. lines = [i \in 1 .. n |-> lines[i]]
  BY DEF Lines
<1>4. n \in Nat /\ n # 0
  <2> HIDE DEF starts
  <2> QED BY <1>2, FS_CardinalityType, FS_EmptySet
<1> HIDE DEF n, lines
<1>5. lines \in [1 .. n -> V]
  BY <1>3
<1> HIDE DEF V
<1>6. lines \in Seq(V) /\ Len(lines) = n
  BY <1>4, <1>5, Sequence
<1>7. Tail(lines) \in Seq(V)
  BY <1>4, <1>6
<1> DEFINE rest == Tail(lines)
           full == ToSet(lines) \ {<<>>}
<1>8. Only(rest, full) \in Seq(V)
  <2> HIDE DEF rest, full
  <2>1. rest \in Seq(V)
    BY <1>7 DEF rest
  <2> QED BY <2>1, OnlyTwice
<1>9. Headers(lines) \in Seq(V)
  BY <1>8 DEF Headers
<1> QED BY <1>9 DEF lines

\* A plain request is made of the headers of its head.
LEMMA PlainHead ==
  ASSUME NEW T, NEW head \in Seq(T), Accepted(Request(head)), Request(head).kind = "http"
  PROVE  LET sentOn == Request(head).head
             hosts  == {header \in ToSet(sentOn) : header.name = "host"}
         IN  /\ {header.value : header \in hosts} = {Request(head).authority}
             /\ Only(sentOn, ToSet(sentOn) \ hosts) = SaysForTarget(head) \o Closing
<1> DEFINE headers == Headers(Lines(head))
           asked == Request(head)
           authority == asked.authority
<1>1. head # <<>> /\ \E target : asked \in PlainRequests(target, headers)
  BY Understanding
<1>2. PICK V : headers \in Seq(V)
  BY <1>1, HeadersAreLines
<1>3. SaysForTarget(head) = ForTarget(Own(headers))
  <2>1. OfConnection = HopByHop
    BY DEF OfConnection, HopByHop
  <2> QED BY <2>1 DEF SaysForTarget, ForTarget, Own
<1> HIDE DEF headers, asked
<1>4. (\A i \in DOMAIN headers : HasColon(headers[i])) /\ asked.head = Rewritten(headers, authority)
  BY <1>1 DEF PlainRequests
<1> DEFINE sentOn == Rewritten(headers, authority)
           hosts == {header \in ToSet(sentOn) : header.name = "host"}
<1>5. /\ {header.value : header \in hosts} = {authority}
      /\ Only(sentOn, ToSet(sentOn) \ hosts) = ForTarget(Own(headers)) \o Closing
  <2> HIDE DEF authority
  <2> QED BY <1>2, <1>4, SentOn
<1> HIDE DEF sentOn
<1>6. asked.head = sentOn
  BY <1>4 DEF sentOn
<1> QED BY <1>3, <1>5, <1>6 DEF asked

\* What is sent on of a plain request is its client's own headers, for the target it names
\* (rewrite_http_proxy_header, parse_http_proxy_request), of clients that say what they mean.
THEOREM OwnHeadersAreForwarded == SaidAsMeant /\ OthersAsMeant => (Spec => []ForwardedHead)
<1> SUFFICES ASSUME SaidAsMeant, OthersAsMeant PROVE Spec => []ForwardedHead
  OBVIOUS
<1>1. ASSUME IInv, CutsDoNotMatter PROVE ForwardedHead
  <2> SUFFICES ASSUME Ended, result[1].kind = "http" PROVE ForwardedHead
    BY DEF ForwardedHead
  <2>0. input \in Inputs /\ stream \in Seq(Made(input)) /\ Len(stream) \in Nat /\ stream = input.stream
        /\ (input.reader = "datagram" => stream \in Seq(0 .. 255))
    BY <1>1, TheStream DEF IInv
  <2>1. input.reader = "http" /\ HeadRead
    <3>1. CASE input.reader = "http"
      BY <1>1, <3>1 DEF CutsDoNotMatter, HeadRefused, Failure
    <3>2. CASE input.reader = "socks5"
      <4>1. CASE SocksRead
        BY <4>1 DEF SocksRead, Route
      <4>2. CASE SocksWrong
        BY <4>2 DEF SocksWrong, Failure
      <4> QED BY <1>1, <3>2, <4>1, <4>2 DEF CutsDoNotMatter
    <3>3. CASE input.reader = "upstream"
      BY <1>1, <3>3 DEF CutsDoNotMatter, AnswerRead, Failure
    <3>4. CASE input.reader = "datagram"
      <4>1. result[1] = ParseDatagram(stream)
        BY <1>1, <3>4 DEF CutsDoNotMatter
      <4>2. Accepted(ParseDatagram(stream))
        BY <4>1 DEF Accepted
      <4>3. result[1].kind = "datagram"
        BY <2>0, <3>4, <4>1, <4>2, Payload
      <4> QED BY <4>3
    <3> QED BY <1>1, <3>1, <3>2, <3>3, <3>4, TheStream, Streams DEF IInv
  <2>2. PICK end \in FirstEnd(stream) :
               /\ Accepted(Request(SubSeq(stream, 1, end)))
               /\ result[1] = Route(ProxyRequest(Request(SubSeq(stream, 1, end)), SubSeq(stream, end + 5, taken)))
    BY <2>1 DEF HeadRead
  <2> DEFINE head == SubSeq(stream, 1, end)
             asked == Request(head)
             rest == SubSeq(stream, end + 5, taken)
  <2>3. head \in Seq(Made(input))
    <3>1. end \in Nat /\ end <= Len(stream)
      BY <2>0, OneFirstEnd
    <3> QED BY <2>0, <3>1, Piece
  <2>4. asked.kind \in {"connect", "http"}
    BY <2>2, Understanding
  <2>5. [kind |-> asked.kind, authority |-> asked.authority] \in Says(input)
    BY <2>0, <2>1, <2>2, WhatAHeadSays DEF Says
  <2>6. meant # Failure /\ meant.kind = asked.kind
    BY <2>0, <2>5, Meaning
  <2>7. result[1].kind = asked.kind /\ result[1].authority = asked.authority /\ result[1].head = asked.head
    <3>1. result[1] = Route(ProxyRequest(asked, rest))
      BY <2>2
    <3> HIDE DEF asked, rest
    <3> QED BY <2>4, <3>1 DEF Route, ProxyRequest
  <2>8. Accepted(asked) /\ asked.kind = "http"
    BY <2>2, <2>7
  <2>9. input.others = SaysForTarget(head)
    BY <2>0, <2>1, <2>6, <2>8 DEF OthersAsMeant, meant
  <2> HIDE DEF head
  <2> DEFINE sentOn == asked.head
             hosts == {header \in ToSet(sentOn) : header.name = "host"}
  <2>10. /\ {header.value : header \in hosts} = {asked.authority}
         /\ Only(sentOn, ToSet(sentOn) \ hosts) = SaysForTarget(head) \o Closing
    BY <2>3, <2>8, PlainHead
  <2> HIDE DEF asked
  <2> QED BY <2>7, <2>9, <2>10 DEF ForwardedHead
<1> QED BY <1>1, Inductive, StreamsAreReadWhole, PTL
=============================================================================
