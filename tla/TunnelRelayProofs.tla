-------------------------- MODULE TunnelRelayProofs --------------------------
(***************************************************************************)
(* Theorems about TunnelRelay, for sockets of any size and any number of   *)
(* chunks: a relay loses, doubles and reorders nothing between two peers   *)
(* that are there, and its chunks stand between the reply and the end.     *)
(***************************************************************************)
EXTENDS TunnelRelay, SequenceTheorems, TLAPS

Both == side["client"] # "gone" /\ side["target"] # "gone"

Early == {"reading", "connecting", "replying"}

\* What of the request goes to the target first.
Begun(d) == IF d = "up" THEN initial ELSE <<>>

\* Where the handler may hold what, and on which route.
PlaceInv ==
  /\ initial # <<>> => pc \in {"connecting", "replying", "starting"}
  /\ held["up"] # <<>> => pc \in {"sendingUp", "copying"}
  /\ held["down"] # <<>> => pc \in {"sendingDown", "copying"}
  /\ pc \in {"relaying", "sendingUp", "sendingDown", "ponging", "closing"} => route = "gateway"
  /\ pc = "copying" => route = "direct"
  /\ pc \in {"connecting", "replying", "starting"} => route # "none"
  /\ pc = "reading" => route = "none"
  /\ \A d \in Dirs : copy[d] = "done" => route = "direct" /\ pc \in {"copying", "over"}
  /\ side["target"] = "none" => pc \in {"reading", "connecting", "over"}
  /\ pc \in {"reading", "connecting"} => side["target"] = "none"
  /\ cause = "none" <=> pc # "over"

\* Nobody reads for a peer that is not there; no peer sends behind its end.
PeerInv ==
  /\ \A d \in Dirs : side[Receiver(d)] \in {"none", "gone"} => outbox[d] = <<>>
  /\ \A d \in Dirs : \A i \in 1 .. Len(inbox[d]) :
       inbox[d][i] = End => i = Len(inbox[d]) /\ side[Source(d)] = "closed"
  /\ side["target"] = "none" => inbox["down"] = <<>>
  /\ pc = "closing" => side["client"] # "open"
  /\ \A d \in Dirs : copy[d] = "done" => side[Source(d)] # "open"

TypeInv == TypeOK /\ PlaceInv /\ PeerInv

\* Direction d in its four parts, while the handler goes on and when it is over.
Parts(d, a, b, c) ==
  /\ InTurn(outbox[d], got[d], a) /\ InTurn(held[d], a, b)
  /\ InTurn(Begun(d), b, c) /\ InTurn(inbox[d], c, sent[d])
  /\ got[d] <= a /\ a <= b /\ b <= c /\ c <= sent[d]

FlowAt(d) ==
  Both => IF pc = "over" THEN \E n \in got[d] .. sent[d] : InTurn(outbox[d], got[d], n)
          ELSE \E a, b, c \in 0 .. MaxChunks : Parts(d, a, b, c)

FlowInv == \A d \in Dirs : FlowAt(d)

\* Once the end of a direction was read, all of it is written, and stays so.
Written(d) == AllWritten(d) /\ got[d] <= sent[d]

EndInv ==
  /\ pc = "closing" /\ side["target"] # "gone" => Written("up")
  /\ route = "gateway" /\ Ended("up") => Written("up") /\ pc = "over"
  /\ cause = "target" /\ Ended("down") => Written("down")
  /\ \A d \in Dirs : copy[d] = "done" /\ Ended(d) => Written(d)

\* No reply travels up; the client's is the first thing it gets, and when it is
\* Failure the only one.
NoReply(items) == \A i \in 1 .. Len(items) : items[i] \notin {Success, Failure}
NoChunk(items) == \A i \in 1 .. Len(items) : ~Chunk(items[i])
Holds(item) == \E i \in 1 .. Len(outbox["down"]) : outbox["down"][i] = item

ReplyInv ==
  /\ NoReply(outbox["up"])
  /\ pc \in Early => outbox["down"] = <<>> /\ got["down"] = 0 /\ reply = "none"
  /\ pc \notin Early \cup {"over"} =>
       /\ reply # "failure" /\ ~Holds(Failure)
       /\ style # "plain" /\ side["client"] # "gone" => reply = "success" \/ Holds(Success)
  /\ Holds(Failure) => NoChunk(outbox["down"])
  /\ ReplyComesFirst

LEMMA Bounds == MaxChunks \in Nat /\ MaxChunks > 0 /\ Window \in Nat /\ Window > 0
  BY ConstantsAssumption

LEMMA ItemsAreInts == Items \subseteq Int
  BY Bounds DEF Items, Broken, Ping, Pong, Success, Failure

LEMMA ChunksAreItems ==
  /\ 1 .. MaxChunks \subseteq Items
  /\ \A item \in Items : Chunk(item) => item \in 1 .. MaxChunks
  /\ {End, Broken, Ping, Pong, Success, Failure} \subseteq Items
  /\ \A item \in {End, Broken, Ping, Pong, Success, Failure} : ~Chunk(item)
  BY Bounds DEF Items, Chunk, End, Broken, Ping, Pong, Success, Failure

-----------------------------------------------------------------------------
(* Sequences of items, and chunks in turn.                                 *)

LEMMA Joined ==
  ASSUME NEW s \in Seq(Items), NEW t \in Seq(Items)
  PROVE  /\ s \o t \in Seq(Items) /\ Len(s \o t) = Len(s) + Len(t)
         /\ \A i \in 1 .. Len(s) : (s \o t)[i] = s[i]
         /\ \A i \in 1 .. Len(t) : (s \o t)[Len(s) + i] = t[i]
         /\ \A i \in 1 .. Len(s \o t) : (s \o t)[i] =
              IF i <= Len(s) THEN s[i] ELSE t[i - Len(s)]
  BY ConcatProperties

LEMMA Dequeued ==
  ASSUME NEW s \in Seq(Items), s # <<>>
  PROVE  /\ Len(s) > 0 /\ Head(s) = s[1] /\ Head(s) \in Items
         /\ Tail(s) \in Seq(Items) /\ Len(Tail(s)) = Len(s) - 1
         /\ \A i \in 1 .. Len(s) - 1 : Tail(s)[i] = s[i + 1]
  BY HeadTailProperties, EmptySeq

LEMMA Single ==
  ASSUME NEW item \in Items
  PROVE  <<item>> \in Seq(Items) /\ Len(<<item>>) = 1 /\ <<item>>[1] = item
  OBVIOUS

LEMMA Elements ==
  ASSUME NEW s \in Seq(Items)
  PROVE  Len(s) \in Nat /\ \A i \in 1 .. Len(s) : s[i] \in Items /\ s[i] \in Int
  BY ElementOfSeq, LenProperties, ItemsAreInts

LEMMA Nothing == <<>> \in Seq(Items) /\ Len(<<>>) = 0
  OBVIOUS

LEMMA NoChunks ==
  ASSUME NEW s \in Seq(Items), \A i \in 1 .. Len(s) : ~Chunk(s[i])
  PROVE  \A a \in Nat : InTurn(s, a, a)
  BY DEF InTurn

LEMMA EmptyInTurn ==
  ASSUME NEW a \in Int, NEW b \in Int, a <= b
  PROVE  InTurn(<<>>, a, b) <=> a = b
  BY DEF InTurn

LEMMA ChunkInTurn ==
  ASSUME NEW item \in Items, Chunk(item)
  PROVE  InTurn(<<item>>, item - 1, item)
  BY Single, ItemsAreInts DEF InTurn, Chunk

\* Two pieces that follow each other are one.
LEMMA JoinedInTurn ==
  ASSUME NEW s \in Seq(Items), NEW t \in Seq(Items),
         NEW a \in Nat, NEW b \in Nat, NEW c \in Nat, a <= b, b <= c,
         InTurn(s, a, b), InTurn(t, b, c)
  PROVE  InTurn(s \o t, a, c)
<1> DEFINE u == s \o t
<1>1. /\ Len(u) = Len(s) + Len(t) /\ Len(s) \in Nat /\ Len(t) \in Nat
      /\ \A i \in 1 .. Len(s) : u[i] = s[i]
      /\ \A i \in 1 .. Len(t) : u[Len(s) + i] = t[i]
      /\ \A i \in 1 .. Len(u) : u[i] = IF i <= Len(s) THEN s[i] ELSE t[i - Len(s)]
  BY Joined
<1>2. /\ \A i \in 1 .. Len(s) : s[i] \in Int
      /\ \A i \in 1 .. Len(t) : t[i] \in Int
  BY Elements
<1> HIDE DEF u
<1>3. ASSUME NEW i \in 1 .. Len(u), Chunk(u[i])
      PROVE  a < u[i] /\ u[i] <= c
  <2>1. CASE i <= Len(s)
    BY <1>1, <1>2, <1>3, <2>1 DEF InTurn
  <2>2. CASE i > Len(s)
    <3>1. i - Len(s) \in 1 .. Len(t) /\ u[i] = t[i - Len(s)]
      BY <1>1, <2>2
    <3> QED BY <1>2, <1>3, <3>1 DEF InTurn
  <2> QED BY <1>1, <2>1, <2>2
<1>4. ASSUME NEW i \in 1 .. Len(u), NEW j \in 1 .. Len(u), i < j, Chunk(u[i]), Chunk(u[j])
      PROVE  u[i] < u[j]
  <2>1. CASE j <= Len(s)
    BY <1>1, <1>4, <2>1 DEF InTurn
  <2>2. CASE i > Len(s)
    <3>1. /\ i - Len(s) \in 1 .. Len(t) /\ u[i] = t[i - Len(s)]
          /\ j - Len(s) \in 1 .. Len(t) /\ u[j] = t[j - Len(s)]
          /\ i - Len(s) < j - Len(s)
      BY <1>1, <1>4, <2>2, SMTT(30)
    <3> QED BY <1>4, <3>1 DEF InTurn
  <2>3. CASE i <= Len(s) /\ j > Len(s)
    <3>1. i \in 1 .. Len(s) /\ u[i] = s[i] /\ j - Len(s) \in 1 .. Len(t) /\ u[j] = t[j - Len(s)]
      BY <1>1, <2>3
    <3>2. u[i] <= b /\ b < u[j]
      BY <1>4, <3>1 DEF InTurn
    <3> QED BY <1>2, <3>1, <3>2, SMTT(30)
  <2> QED BY <1>1, <2>1, <2>2, <2>3
<1>5. ASSUME NEW n \in a + 1 .. c
      PROVE  \E i \in 1 .. Len(u) : u[i] = n
  <2>1. CASE n <= b
    <3>1. PICK i \in 1 .. Len(s) : s[i] = n
      BY <2>1 DEF InTurn
    <3> QED BY <1>1, <3>1
  <2>2. CASE n > b
    <3>1. PICK i \in 1 .. Len(t) : t[i] = n
      BY <2>2 DEF InTurn
    <3>2. Len(s) + i \in 1 .. Len(u)
      BY <1>1
    <3> QED BY <1>1, <3>1, <3>2
  <2> QED BY <2>1, <2>2
<1> QED BY <1>3, <1>4, <1>5 DEF InTurn, u

\* The first of the chunks in turn is the next one.
LEMMA FirstInTurn ==
  ASSUME NEW s \in Seq(Items), s # <<>>, NEW a \in Nat, NEW b \in Nat, a <= b,
         InTurn(s, a, b), Chunk(Head(s))
  PROVE  Head(s) = a + 1 /\ a + 1 <= b /\ InTurn(Tail(s), a + 1, b)
<1>1. /\ Len(s) \in Nat /\ Len(s) > 0 /\ Head(s) = s[1]
      /\ Len(Tail(s)) = Len(s) - 1
      /\ \A i \in 1 .. Len(s) - 1 : Tail(s)[i] = s[i + 1]
      /\ \A i \in 1 .. Len(s) : s[i] \in Int
  BY Dequeued, Elements
<1>2. a < s[1] /\ s[1] <= b
  BY <1>1 DEF InTurn
<1>3. PICK k \in 1 .. Len(s) : s[k] = a + 1
  BY <1>1, <1>2 DEF InTurn
<1>4. Chunk(s[k])
  BY <1>3 DEF Chunk
<1>5. ~(1 < k)
  BY <1>1, <1>2, <1>3, <1>4 DEF InTurn
<1>6. s[1] = a + 1
  BY <1>3, <1>5
<1>7. ASSUME NEW i \in 1 .. Len(Tail(s)), Chunk(Tail(s)[i])
      PROVE  a + 1 < Tail(s)[i] /\ Tail(s)[i] <= b
  <2>1. i + 1 \in 1 .. Len(s) /\ 1 \in 1 .. Len(s) /\ 1 < i + 1 /\ Tail(s)[i] = s[i + 1]
    BY <1>1
  <2> QED BY <1>1, <1>6, <1>7, <2>1 DEF InTurn
<1>8. ASSUME NEW i \in 1 .. Len(Tail(s)), NEW j \in 1 .. Len(Tail(s)), i < j,
             Chunk(Tail(s)[i]), Chunk(Tail(s)[j])
      PROVE  Tail(s)[i] < Tail(s)[j]
  <2>1. /\ i + 1 \in 1 .. Len(s) /\ j + 1 \in 1 .. Len(s) /\ i + 1 < j + 1
        /\ Tail(s)[i] = s[i + 1] /\ Tail(s)[j] = s[j + 1]
    BY <1>1, <1>8, SMTT(30)
  <2> QED BY <1>8, <2>1 DEF InTurn
<1>9. ASSUME NEW n \in a + 2 .. b
      PROVE  \E i \in 1 .. Len(Tail(s)) : Tail(s)[i] = n
  <2>1. PICK i \in 1 .. Len(s) : s[i] = n
    BY DEF InTurn
  <2>2. i - 1 \in 1 .. Len(Tail(s))
    BY <1>1, <1>6, <2>1
  <2>3. Tail(s)[i - 1] = s[i]
    BY <1>1, <2>2
  <2> QED BY <2>1, <2>2, <2>3
<1> QED BY <1>1, <1>2, <1>6, <1>7, <1>8, <1>9 DEF InTurn

\* A sign on the way is no part of the count.
LEMMA SignInTurn ==
  ASSUME NEW s \in Seq(Items), s # <<>>, NEW a \in Nat, NEW b \in Nat,
         InTurn(s, a, b), ~Chunk(Head(s))
  PROVE  InTurn(Tail(s), a, b)
<1>1. /\ Len(s) \in Nat /\ Len(s) > 0 /\ Head(s) = s[1]
      /\ Len(Tail(s)) = Len(s) - 1
      /\ \A i \in 1 .. Len(s) - 1 : Tail(s)[i] = s[i + 1]
      /\ \A i \in 1 .. Len(s) : s[i] \in Int
  BY Dequeued, Elements
<1>2. \A i \in 1 .. Len(Tail(s)) : i + 1 \in 1 .. Len(s) /\ Tail(s)[i] = s[i + 1]
  BY <1>1
<1>3. ASSUME NEW n \in a + 1 .. b
      PROVE  \E i \in 1 .. Len(Tail(s)) : Tail(s)[i] = n
  <2>1. PICK i \in 1 .. Len(s) : s[i] = n
    BY DEF InTurn
  <2>2. i - 1 \in 1 .. Len(Tail(s))
    BY <1>1, <2>1 DEF Chunk
  <2>3. Tail(s)[i - 1] = s[i]
    BY <1>1, <2>2
  <2> QED BY <2>1, <2>2, <2>3
<1> QED BY <1>1, <1>2, <1>3 DEF InTurn

\* Chunks that are read together come in turn, and so does the rest.
LEMMA SplitInTurn ==
  ASSUME NEW s \in Seq(Items), NEW n \in 0 .. Len(s), NEW a \in Nat, NEW b \in Nat, a <= b,
         InTurn(s, a, b), \A i \in 1 .. n : Chunk(s[i])
  PROVE  \E m \in a .. b : InTurn(SubSeq(s, 1, n), a, m) /\ InTurn(SubSeq(s, n + 1, Len(s)), m, b)
<1> DEFINE first == SubSeq(s, 1, n)
           rest  == SubSeq(s, n + 1, Len(s))
           m     == IF n = 0 THEN a ELSE s[n]
<1>1. Len(s) \in Nat /\ n \in Nat /\ n <= Len(s) /\ \A i \in 1 .. Len(s) : s[i] \in Items /\ s[i] \in Int
  BY Elements
<1>2. Len(first) = n /\ \A i \in 1 .. n : first[i] = s[i]
  <2>1. \A i \in 1 .. n : s[i] \in Items
    BY <1>1
  <2> QED BY <1>1, <2>1, SubSeqProperties
<1>3. Len(rest) = Len(s) - n /\ \A i \in 1 .. Len(s) - n : rest[i] = s[n + i]
  <2>1. \A i \in n + 1 .. Len(s) : s[i] \in Items
    BY <1>1
  <2>2. /\ Len(rest) = IF n + 1 <= Len(s) THEN Len(s) - (n + 1) + 1 ELSE 0
        /\ \A i \in 1 .. Len(s) - (n + 1) + 1 : rest[i] = s[n + 1 + i - 1]
    BY <1>1, <2>1, SubSeqProperties
  <2> QED BY <1>1, <2>2
<1>4. m \in a .. b
  BY <1>1 DEF InTurn
<1>5. \A i \in 1 .. n : a < s[i] /\ s[i] <= m
  BY <1>1 DEF InTurn
<1>6. \A i \in n + 1 .. Len(s) : Chunk(s[i]) => m < s[i]
  BY <1>1 DEF InTurn
<1> HIDE DEF first, rest, m
<1>7. InTurn(first, a, m)
  <2>1. ASSUME NEW v \in a + 1 .. m
        PROVE  \E i \in 1 .. Len(first) : first[i] = v
    <3>1. PICK i \in 1 .. Len(s) : s[i] = v
      BY <1>4 DEF InTurn
    <3>2. i <= n
      BY <1>1, <1>4, <1>6, <3>1 DEF Chunk
    <3> QED BY <1>1, <1>2, <3>1, <3>2
  <2>2. ASSUME NEW i \in 1 .. n, NEW j \in 1 .. n, i < j
        PROVE  first[i] < first[j]
    <3>1. /\ i \in 1 .. Len(s) /\ first[i] = s[i] /\ Chunk(s[i])
          /\ j \in 1 .. Len(s) /\ first[j] = s[j] /\ Chunk(s[j])
      BY <1>1, <1>2
    <3> QED BY <2>2, <3>1 DEF InTurn
  <2> QED BY <1>1, <1>2, <1>5, <2>1, <2>2 DEF InTurn
<1>8. InTurn(rest, m, b)
  <2>1. ASSUME NEW v \in m + 1 .. b
        PROVE  \E i \in 1 .. Len(rest) : rest[i] = v
    <3>1. PICK i \in 1 .. Len(s) : s[i] = v
      BY <1>4 DEF InTurn
    <3>2. i > n
      BY <1>1, <1>4, <1>5, <3>1
    <3>3. i - n \in 1 .. Len(rest) /\ rest[i - n] = s[i]
      BY <1>1, <1>3, <3>2
    <3> QED BY <3>1, <3>3
  <2>2. ASSUME NEW i \in 1 .. Len(rest), Chunk(rest[i])
        PROVE  m < rest[i] /\ rest[i] <= b
    <3>1. n + i \in n + 1 .. Len(s) /\ n + i \in 1 .. Len(s) /\ rest[i] = s[n + i]
      BY <1>1, <1>3
    <3> QED BY <1>6, <2>2, <3>1 DEF InTurn
  <2>3. ASSUME NEW i \in 1 .. Len(rest), NEW j \in 1 .. Len(rest), i < j,
               Chunk(rest[i]), Chunk(rest[j])
        PROVE  rest[i] < rest[j]
    <3>1. /\ n + i \in 1 .. Len(s) /\ rest[i] = s[n + i] /\ n + j \in 1 .. Len(s)
          /\ rest[j] = s[n + j] /\ n + i < n + j
      BY <1>1, <1>3, <2>3
    <3> QED BY <2>3, <3>1 DEF InTurn
  <2> QED BY <2>1, <2>2, <2>3 DEF InTurn
<1> QED BY <1>4, <1>7, <1>8 DEF first, rest

-----------------------------------------------------------------------------
(* The end of the handler.                                                 *)

LastToClient == {<<>>, <<End>>, <<Failure, End>>}
LastToTarget == {<<>>, <<End>>, <<Broken>>}

\* What every way to end has in common.
Ends(why, to_client, to_target) ==
  /\ HangUp(why, to_client, to_target)
  /\ pc # "over" /\ why \in {"client", "target", "both", "error"}
  /\ to_client \in LastToClient /\ to_target \in LastToTarget
  /\ to_client = <<Failure, End>> => pc \in {"reading", "connecting"}
  /\ pc \in {"reading", "connecting", "replying"} => to_client # <<>>
  /\ to_target = <<End>> => pc = "closing" \/ (route # "gateway" /\ copy["up"] # "done")
  /\ to_client # <<>> => copy["down"] # "done"
  /\ why = "target" => pc = "relaying" /\ NextIs("down", End)

Hangs ==
  \/ RequestFails \/ ConnectFails \/ ReplyFails \/ SendClose \/ ClientBreaks
  \/ TargetEnds \/ TargetBreaks \/ WriteFails \/ CopyDone
  \/ \E d \in Dirs : CopyFails(d)

LEMMA HangsAreEnds ==
  ASSUME TypeOK, PlaceInv, Hangs
  PROVE  \E why, to_client, to_target : Ends(why, to_client, to_target)
<1>1. Dropped \in LastToTarget /\ (Dropped = <<End>> => route # "gateway" /\ copy["up"] # "done")
  BY DEF Dropped, LastToTarget, End, Broken
<1>2. \A d \in Dirs : pc \notin {"copying", "over"} => copy[d] # "done"
  BY DEF PlaceInv
<1>3. CASE RequestFails \/ ConnectFails
  <2>1. Ends("error", <<Failure, End>>, <<>>)
    BY <1>2, <1>3 DEF RequestFails, ConnectFails, Ends, LastToClient, LastToTarget, Dirs
  <2> QED BY <2>1
<1>4. CASE ReplyFails \/ ClientBreaks \/ TargetBreaks \/ WriteFails
  <2>1. /\ HangUp("error", <<End>>, Dropped)
        /\ pc \in {"replying", "relaying", "sendingUp", "sendingDown", "ponging", "starting"}
    BY <1>4 DEF ReplyFails, ClientBreaks, TargetBreaks, WriteFails, Relaying
  <2>2. Ends("error", <<End>>, Dropped)
    BY <1>1, <1>2, <2>1 DEF Ends, LastToClient, Dirs
  <2> QED BY <2>2
<1>5. CASE SendClose
  <2>1. Ends("client", <<End>>, <<End>>)
    BY <1>2, <1>5 DEF SendClose, Ends, LastToClient, LastToTarget, Dirs
  <2> QED BY <2>1
<1>6. CASE TargetEnds
  <2>1. Ends("target", <<End>>, Dropped)
    BY <1>1, <1>2, <1>6 DEF TargetEnds, Ends, LastToClient, Relaying, Dirs
  <2> QED BY <2>1
<1>7. CASE CopyDone
  <2>1. Ends("both", <<>>, <<>>)
    BY <1>7 DEF CopyDone, Ends, LastToClient, LastToTarget
  <2> QED BY <2>1
<1>8. CASE \E d \in Dirs : CopyFails(d)
  <2> DEFINE last == IF copy["down"] = "done" THEN <<>> ELSE <<End>>
  <2>1. HangUp("error", last, Dropped) /\ pc = "copying"
    BY <1>8 DEF CopyFails, Copying
  <2>2. Ends("error", last, Dropped)
    BY <1>1, <2>1 DEF Ends, LastToClient
  <2> QED BY <2>2
<1> QED BY <1>3, <1>4, <1>5, <1>6, <1>7, <1>8 DEF Hangs

\* What is left in the sockets then.
LEMMA Hung ==
  ASSUME NEW why, NEW to_client, NEW to_target, Ends(why, to_client, to_target)
  PROVE  /\ pc' = "over" /\ cause' = why /\ initial' = <<>>
         /\ held' = [d \in Dirs |-> <<>>]
         /\ outbox' = [d \in Dirs |-> outbox'[d]]
         /\ outbox'["up"] \in AfterDrop("up", to_target)
         /\ outbox'["down"] \in AfterDrop("down", to_client)
         /\ UNCHANGED <<style, route, copy, side, inbox, sent, got, reply>>
  BY DEF Ends, HangUp, Dirs, history

\* A socket holds what it held, and perhaps the last words, or it is reset.
LEMMA LastWords ==
  ASSUME TypeOK, NEW d \in Dirs, NEW last \in LastToClient \cup LastToTarget,
         NEW o \in AfterDrop(d, last)
  PROVE  /\ last \in Seq(Items) /\ o \in Seq(Items)
         /\ \A i \in 1 .. Len(last) : ~Chunk(last[i])
         /\ \/ o = outbox[d]
            \/ o = outbox[d] \o last /\ side[Receiver(d)] \notin {"none", "gone"}
            \/ o = <<Broken>> /\ side[Receiver(d)] \notin {"none", "gone"}
<1>1. last \in Seq(Items) /\ \A i \in 1 .. Len(last) : ~Chunk(last[i])
  <2>1. CASE last = <<>>
    BY <2>1, Nothing
  <2>2. CASE \E item \in {End, Broken} : last = <<item>>
    BY <2>2, Single, ChunksAreItems
  <2>3. CASE last = <<Failure, End>>
    <3>1. Failure \in Items /\ End \in Items /\ ~Chunk(Failure) /\ ~Chunk(End)
      BY ChunksAreItems
    <3> QED BY <2>3, <3>1
  <2> QED BY <2>1, <2>2, <2>3 DEF LastToClient, LastToTarget
<1>2. outbox[d] \in Seq(Items)
  BY DEF TypeOK
<1>3. outbox[d] \o last \in Seq(Items) /\ <<Broken>> \in Seq(Items)
  BY <1>1, <1>2, Joined, ChunksAreItems, Single
<1>4. \/ o = outbox[d]
      \/ o = outbox[d] \o last /\ side[Receiver(d)] \notin {"none", "gone"}
      \/ o = <<Broken>> /\ side[Receiver(d)] \notin {"none", "gone"}
  BY DEF AfterDrop
<1> QED BY <1>1, <1>2, <1>3, <1>4

-----------------------------------------------------------------------------
(* Types, places and peers.                                                *)

Starts ==
  \/ \E n \in 0 .. Len(inbox["up"]) : ReadRequest(n)
  \/ Connects \/ ReplySuccess \/ SendInitial

Relays == ReadClient \/ SendUp \/ ClientEnds \/ ReadFrame \/ SendDown \/ ReadPing \/ SendPong

CopiesOn(d) == CopyRead(d) \/ CopyWrite(d) \/ CopyEnd(d)

PeerMoves == PeerPings \/ \E d \in Dirs : Peer(d)

LEMMA Steps ==
  Next => Starts \/ Relays \/ (\E d \in Dirs : CopiesOn(d)) \/ PeerMoves \/ Hangs
  BY DEF Next, Starts, Relays, CopiesOn, PeerMoves, Hangs, Branches, Writes, Copies

LEMMA InitTypes == Init => TypeInv
<1> SUFFICES ASSUME Init PROVE TypeInv
  OBVIOUS
<1>1. <<>> \in Seq(Items) /\ <<>> \in Seq(1 .. MaxChunks) /\ Len(<<>>) = 0
  OBVIOUS
<1>2. 1 \in Items /\ <<1>> \in Seq(Items)
  BY Bounds, ChunksAreItems, Single
<1>3. TypeOK
  BY <1>1, <1>2, Bounds DEF Init, TypeOK, Dirs
<1>4. PlaceInv
  BY DEF Init, PlaceInv, Dirs
<1>5. PeerInv
  BY <1>1, <1>2 DEF Init, PeerInv, Dirs, Receiver, Source, End
<1> QED BY <1>3, <1>4, <1>5 DEF TypeInv

\* What is read from a socket, and what is added to one.
LEMMA Read ==
  ASSUME TypeOK, NEW d \in Dirs, inbox[d] # <<>>
  PROVE  /\ Tail(inbox[d]) \in Seq(Items) /\ Len(Tail(inbox[d])) = Len(inbox[d]) - 1
         /\ Head(inbox[d]) \in Items /\ Head(inbox[d]) = inbox[d][1]
         /\ \A i \in 1 .. Len(inbox[d]) - 1 : Tail(inbox[d])[i] = inbox[d][i + 1]
         /\ Chunk(Head(inbox[d])) =>
              <<Head(inbox[d])>> \in Seq(1 .. MaxChunks) /\ Len(<<Head(inbox[d])>>) = 1
<1>1. inbox[d] \in Seq(Items)
  BY DEF TypeOK
<1>2. Chunk(Head(inbox[d])) => Head(inbox[d]) \in 1 .. MaxChunks
  BY <1>1, Dequeued, ChunksAreItems
<1> QED BY <1>1, <1>2, Dequeued

LEMMA Wider ==
  ASSUME NEW s \in Seq(1 .. MaxChunks)
  PROVE  s \in Seq(Items) /\ \A i \in 1 .. Len(s) : s[i] \in 1 .. MaxChunks /\ Chunk(s[i])
<1>1. \A i \in 1 .. Len(s) : s[i] \in 1 .. MaxChunks
  BY ElementOfSeq
<1> QED BY <1>1, ChunksAreItems, SeqMonotonic DEF Chunk

LEMMA PutTyped ==
  ASSUME TypeOK, NEW d \in Dirs, NEW items \in Seq(Items), Put(d, items)
  PROVE  /\ outbox' \in [Dirs -> Seq(Items)]
         /\ outbox'[d] = IF side[Receiver(d)] = "gone" THEN outbox[d] ELSE outbox[d] \o items
         /\ \A x \in Dirs \ {d} : outbox'[x] = outbox[x]
<1>1. outbox[d] \o items \in Seq(Items)
  BY Joined DEF TypeOK
<1> QED BY <1>1 DEF Put, TypeOK

LEMMA TypesOfStart == TypeInv /\ Starts => TypeOK'
<1> SUFFICES ASSUME TypeInv, Starts PROVE TypeOK'
  OBVIOUS
<1> USE DEF TypeInv
<1>1. ASSUME NEW n \in 0 .. Len(inbox["up"]), ReadRequest(n)
      PROVE  TypeOK'
  <2> DEFINE s == inbox["up"]
  <2>1. s \in Seq(Items) /\ Len(s) \in Nat /\ \A i \in 1 .. Len(s) : s[i] \in Items
    BY Elements DEF TypeOK, Dirs
  <2>2. \A i \in 1 .. n : s[i] \in 1 .. MaxChunks
    BY <1>1, <2>1, ChunksAreItems DEF ReadRequest
  <2>3. SubSeq(s, 1, n) \in Seq(1 .. MaxChunks)
    BY <2>2, SubSeqProperties
  <2>4. SubSeq(s, n + 1, Len(s)) \in Seq(Items)
    BY <2>1, SubSeqProperties
  <2> HIDE DEF s
  <2> QED BY <1>1, <2>3, <2>4 DEF ReadRequest, TypeOK, history, s
<1>2. CASE Connects
  BY <1>2 DEF Connects, TypeOK, history
<1>3. CASE ReplySuccess
  <2> DEFINE items == IF style = "plain" THEN <<>> ELSE <<Success>>
  <2>1. items \in Seq(Items)
    BY ChunksAreItems, Single, Nothing
  <2>2. outbox' \in [Dirs -> Seq(Items)]
    BY <1>3, <2>1, PutTyped DEF ReplySuccess, Dirs
  <2> QED BY <1>3, <2>2 DEF ReplySuccess, TypeOK, history
<1>4. CASE SendInitial
  <2>1. outbox' \in [Dirs -> Seq(Items)]
    BY <1>4, Wider, PutTyped DEF SendInitial, Dirs, TypeOK
  <2>2. initial' \in Seq(1 .. MaxChunks)
    BY <1>4 DEF SendInitial
  <2> QED BY <1>4, <2>1, <2>2 DEF SendInitial, TypeOK, history
<1> QED BY <1>1, <1>2, <1>3, <1>4 DEF Starts

\* One direction reads a chunk, writes it, or passes a sign.
LEMMA TypesOfOne ==
  ASSUME TypeInv, NEW d \in Dirs,
         UNCHANGED <<style, route, initial, side, history, cause>>,
         pc' \in {"relaying", "sendingUp", "sendingDown", "ponging", "closing", "copying"},
         copy' = copy \/ copy' = [copy EXCEPT ![d] = "done"],
         \/ /\ NextIsChunk(d) /\ Take(d)
            /\ held' = [held EXCEPT ![d] = <<Head(inbox[d])>>] /\ outbox' = outbox
         \/ inbox[d] # <<>> /\ Take(d) /\ held' = held /\ (outbox' = outbox \/ Put(d, <<End>>))
         \/ Put(d, held[d]) /\ held' = [held EXCEPT ![d] = <<>>] /\ inbox' = inbox
         \/ Put(d, <<Pong>>) /\ held' = held /\ inbox' = inbox
  PROVE  TypeOK'
<1>1. held[d] \in Seq(Items) /\ <<End>> \in Seq(Items) /\ <<Pong>> \in Seq(Items)
  BY Wider, ChunksAreItems, Single DEF TypeInv, TypeOK
<1>2. outbox' \in [Dirs -> Seq(Items)]
  BY <1>1, PutTyped DEF TypeInv, TypeOK
<1>3. inbox' \in [Dirs -> Seq(Items)]
  BY Read, ZenonT(30) DEF TypeInv, TypeOK, Take, NextIsChunk
<1>4. held' \in [Dirs -> Seq(1 .. MaxChunks)] /\ \A x \in Dirs : Len(held'[x]) <= 1
  <2>1. CASE NextIsChunk(d) /\ held' = [held EXCEPT ![d] = <<Head(inbox[d])>>]
    BY <2>1, Read DEF TypeInv, TypeOK, NextIsChunk
  <2>2. CASE held' = held
    BY <2>2 DEF TypeInv, TypeOK
  <2>3. CASE held' = [held EXCEPT ![d] = <<>>]
    <3>1. <<>> \in Seq(1 .. MaxChunks) /\ Len(<<>>) = 0
      OBVIOUS
    <3> QED BY <2>3, <3>1 DEF TypeInv, TypeOK
  <2> QED BY <2>1, <2>2, <2>3
<1>5. copy' \in [Dirs -> {"on", "done"}]
  BY DEF TypeInv, TypeOK
<1> QED BY <1>2, <1>3, <1>4, <1>5 DEF TypeInv, TypeOK, history

LEMMA TypesOfRelay == TypeInv /\ Relays => TypeOK'
<1> SUFFICES ASSUME TypeInv, Relays PROVE TypeOK'
  OBVIOUS
<1>1. "up" \in Dirs /\ "down" \in Dirs
  BY DEF Dirs
<1>2. CASE ReadClient
  BY <1>1, <1>2, TypesOfOne DEF ReadClient
<1>3. CASE SendUp
  BY <1>1, <1>3, TypesOfOne DEF SendUp
<1>4. CASE ClientEnds
  BY <1>1, <1>4, TypesOfOne DEF ClientEnds, NextIs
<1>5. CASE ReadFrame
  BY <1>1, <1>5, TypesOfOne DEF ReadFrame
<1>6. CASE SendDown
  BY <1>1, <1>6, TypesOfOne DEF SendDown
<1>7. CASE ReadPing
  BY <1>1, <1>7, TypesOfOne DEF ReadPing, NextIs
<1>8. CASE SendPong
  BY <1>1, <1>8, TypesOfOne DEF SendPong
<1> QED BY <1>2, <1>3, <1>4, <1>5, <1>6, <1>7, <1>8 DEF Relays

LEMMA TypesOfCopy ==
  ASSUME TypeInv, NEW d \in Dirs, CopiesOn(d)
  PROVE  TypeOK'
<1>1. CASE CopyRead(d)
  BY <1>1, TypesOfOne DEF CopyRead, Copying
<1>2. CASE CopyWrite(d)
  BY <1>2, TypesOfOne DEF CopyWrite, Copying
<1>3. CASE CopyEnd(d)
  BY <1>3, TypesOfOne DEF CopyEnd, Copying, NextIs
<1> QED BY <1>1, <1>2, <1>3 DEF CopiesOn

LEMMA Added ==
  ASSUME NEW s \in Seq(Items), NEW item \in Items
  PROVE  /\ Append(s, item) \in Seq(Items) /\ Append(s, item) = s \o <<item>>
         /\ Len(Append(s, item)) = Len(s) + 1
         /\ Append(s, item)[Len(s) + 1] = item
         /\ \A i \in 1 .. Len(s) : Append(s, item)[i] = s[i]
  BY AppendProperties, AppendIsConcat

LEMMA TypesOfPeers == TypeInv /\ PeerMoves => TypeOK'
<1> SUFFICES ASSUME TypeInv, PeerMoves PROVE TypeOK'
  OBVIOUS
<1> USE DEF TypeInv
<1>1. CASE PeerPings
  <2>1. Append(inbox["down"], Ping) \in Seq(Items)
    BY Added, ChunksAreItems DEF TypeOK, Dirs
  <2> QED BY <1>1, <2>1 DEF PeerPings, TypeOK, handler, history
<1>2. ASSUME NEW d \in Dirs, Peer(d)
      PROVE  TypeOK'
  <2>1. CASE PeerSends(d)
    <3>1. sent[d] + 1 \in 1 .. MaxChunks /\ sent[d] + 1 \in Items
      BY <2>1, ChunksAreItems, Bounds DEF PeerSends, TypeOK
    <3>2. Append(inbox[d], sent[d] + 1) \in Seq(Items)
      BY <3>1, Added DEF TypeOK
    <3> QED BY <2>1, <3>1, <3>2 DEF PeerSends, TypeOK, handler
  <2>2. CASE PeerCloses(d)
    <3>1. Append(inbox[d], End) \in Seq(Items)
      BY Added, ChunksAreItems DEF TypeOK
    <3>2. Source(d) \in {"client", "target"}
      BY DEF Source
    <3> QED BY <2>2, <3>1, <3>2 DEF PeerCloses, TypeOK, handler, history
  <2>3. CASE PeerReads(d)
    <3>1. /\ Tail(outbox[d]) \in Seq(Items)
          /\ Head(outbox[d]) \in Items
      BY <2>3, Dequeued DEF PeerReads, TypeOK
    <3>2. got' \in [Dirs -> 0 .. MaxChunks]
      BY <2>3, <3>1, ChunksAreItems, Bounds DEF PeerReads, TypeOK
    <3>3. reply' \in {"none", "success", "failure"}
      BY <2>3 DEF PeerReads, TypeOK
    <3>4. outbox' \in [Dirs -> Seq(Items)]
      BY <2>3, <3>1 DEF PeerReads, TypeOK
    <3> QED BY <2>3, <3>2, <3>3, <3>4 DEF PeerReads, TypeOK, handler
  <2>4. CASE PeerGone(d)
    <3>1. <<Broken>> \in Seq(Items) /\ <<>> \in Seq(Items)
      BY ChunksAreItems, Single, Nothing
    <3>2. Source(d) \in {"client", "target"}
      BY DEF Source
    <3>3. outbox' \in [Dirs -> Seq(Items)] /\ inbox' \in [Dirs -> Seq(Items)]
      BY <2>4, <3>1 DEF PeerGone, TypeOK
    <3>4. side' \in [{"client", "target"} -> {"none", "open", "closed", "gone"}] /\ side'["client"] # "none"
      BY <2>4, <3>2 DEF PeerGone, TypeOK
    <3> QED BY <2>4, <3>3, <3>4, SMTT(30) DEF PeerGone, TypeOK, handler, history
  <2> QED BY <1>2, <2>1, <2>2, <2>3, <2>4 DEF Peer
<1> QED BY <1>1, <1>2 DEF PeerMoves

LEMMA TypesOfEnd == TypeInv /\ Hangs => TypeOK'
<1> SUFFICES ASSUME TypeInv, Hangs PROVE TypeOK'
  OBVIOUS
<1> USE DEF TypeInv
<1>1. PICK why, to_client, to_target : Ends(why, to_client, to_target)
  BY HangsAreEnds
<1>2. outbox'["up"] \in Seq(Items) /\ outbox'["down"] \in Seq(Items)
  BY <1>1, Hung, LastWords DEF Ends, Dirs
<1>3. outbox' \in [Dirs -> Seq(Items)]
  BY <1>1, <1>2, Hung DEF Dirs
<1>4. <<>> \in Seq(1 .. MaxChunks) /\ Len(<<>>) = 0
  OBVIOUS
<1>5. held' \in [Dirs -> Seq(1 .. MaxChunks)] /\ (\A d \in Dirs : Len(held'[d]) <= 1)
  <2>1. held' = [d \in Dirs |-> <<>>]
    BY <1>1, Hung
  <2> QED BY <1>4, <2>1
<1>6. initial' \in Seq(1 .. MaxChunks) /\ pc' = "over" /\ cause' \in {"client", "target", "both", "error"}
  BY <1>1, <1>4, Hung DEF Ends
<1>7. UNCHANGED <<style, route, copy, side, inbox, sent, got, reply>>
  BY <1>1, Hung
<1> QED BY <1>3, <1>5, <1>6, <1>7 DEF TypeOK

LEMMA TypesPreserved == TypeInv /\ [Next]_vars => TypeOK'
<1>1. TypeInv /\ UNCHANGED vars => TypeOK'
  BY DEF TypeInv, TypeOK, vars, handler, history
<1> QED BY <1>1, Steps, TypesOfStart, TypesOfRelay, TypesOfCopy, TypesOfPeers, TypesOfEnd

LEMMA PlacesPreserved == TypeInv /\ [Next]_vars => PlaceInv'
<1> SUFFICES ASSUME TypeInv, [Next]_vars PROVE PlaceInv'
  OBVIOUS
<1> USE DEF TypeInv
<1>1. held \in [Dirs -> Seq(1 .. MaxChunks)]
  BY DEF TypeOK
<1>2. CASE UNCHANGED vars
  BY <1>2 DEF PlaceInv, vars, handler
<1>3. CASE Starts
  <2>1. CASE \E n \in 0 .. Len(inbox["up"]) : ReadRequest(n)
    BY <2>1 DEF PlaceInv, ReadRequest
  <2>2. CASE Connects
    BY <2>2 DEF PlaceInv, Connects, TypeOK
  <2>3. CASE ReplySuccess
    BY <2>3 DEF PlaceInv, ReplySuccess
  <2>4. CASE SendInitial
    BY <2>4 DEF PlaceInv, SendInitial, TypeOK
  <2> QED BY <1>3, <2>1, <2>2, <2>3, <2>4 DEF Starts
<1>4. CASE Relays
  <2>1. CASE ReadClient
    BY <1>1, <2>1 DEF PlaceInv, ReadClient, Relaying, Dirs
  <2>2. CASE SendUp
    BY <1>1, <2>2 DEF PlaceInv, SendUp, Dirs
  <2>3. CASE ReadFrame
    BY <1>1, <2>3 DEF PlaceInv, ReadFrame, Relaying, Dirs
  <2>4. CASE SendDown
    BY <1>1, <2>4 DEF PlaceInv, SendDown, Dirs
  <2>5. CASE ClientEnds \/ ReadPing \/ SendPong
    BY <2>5 DEF PlaceInv, ClientEnds, ReadPing, SendPong, Relaying
  <2> QED BY <1>4, <2>1, <2>2, <2>3, <2>4, <2>5 DEF Relays
<1>5. ASSUME NEW d \in Dirs, CopiesOn(d)
      PROVE  PlaceInv'
  BY <1>1, <1>5 DEF PlaceInv, CopiesOn, CopyRead, CopyWrite, CopyEnd, Copying, Dirs, TypeOK
<1>6. CASE PeerMoves
  <2>1. CASE PeerPings
    BY <2>1 DEF PlaceInv, PeerPings, handler
  <2>2. ASSUME NEW d \in Dirs, Peer(d)
        PROVE  PlaceInv'
    <3>1. UNCHANGED handler
      BY <2>2 DEF Peer, PeerSends, PeerCloses, PeerReads, PeerGone
    <3>2. side'["target"] = "none" <=> side["target"] = "none"
      BY <2>2 DEF Peer, PeerSends, PeerCloses, PeerReads, PeerGone, TypeOK, Source
    <3> QED BY <3>1, <3>2 DEF PlaceInv, handler
  <2> QED BY <1>6, <2>1, <2>2 DEF PeerMoves
<1>7. CASE Hangs
  <2>1. PICK why, to_client, to_target : Ends(why, to_client, to_target)
    BY <1>7, HangsAreEnds
  <2> QED BY <2>1, Hung DEF PlaceInv, Ends, Dirs
<1> QED BY <1>2, <1>3, <1>4, <1>5, <1>6, <1>7, Steps

LEMMA PeersPreserved == TypeInv /\ [Next]_vars => PeerInv'
<1> SUFFICES ASSUME TypeInv, [Next]_vars PROVE PeerInv'
  OBVIOUS
<1> USE DEF TypeInv
<1> DEFINE Unheard(d) == side[Receiver(d)] \in {"none", "gone"} => outbox[d] = <<>>
           Last(d)    == \A i \in 1 .. Len(inbox[d]) :
                           inbox[d][i] = End => i = Len(inbox[d]) /\ side[Source(d)] = "closed"
           Rest       == /\ side["target"] = "none" => inbox["down"] = <<>>
                         /\ pc = "closing" => side["client"] # "open"
                         /\ \A d \in Dirs : copy[d] = "done" => side[Source(d)] # "open"
<1>1. Rest /\ \A d \in Dirs : Unheard(d) /\ Last(d)
  BY DEF PeerInv
<1>2. (Rest /\ \A d \in Dirs : Unheard(d) /\ Last(d))' => PeerInv'
  BY DEF PeerInv
<1>3. /\ \A d \in Dirs : Receiver(d) \in {"client", "target"} /\ Source(d) \in {"client", "target"}
      /\ \A d \in Dirs : inbox[d] \in Seq(Items) /\ outbox[d] \in Seq(Items)
  BY DEF Receiver, Source, TypeOK
\* Taking the head leaves an end where it was, at the end.
<1>4. ASSUME NEW d \in Dirs, inbox[d] # <<>>, Take(d), UNCHANGED side
      PROVE  (\A x \in Dirs : Last(x))'
  <2>1. /\ inbox' = [inbox EXCEPT ![d] = Tail(@)] /\ Len(inbox[d]) \in Nat
        /\ Len(Tail(inbox[d])) = Len(inbox[d]) - 1
        /\ \A i \in 1 .. Len(inbox[d]) - 1 : Tail(inbox[d])[i] = inbox[d][i + 1]
    BY <1>3, <1>4, Read DEF Take
  <2>2. inbox'[d] = Tail(inbox[d]) /\ \A x \in Dirs \ {d} : inbox'[x] = inbox[x]
    BY <2>1 DEF TypeOK
  <2>3. Last(d)'
    BY <1>1, <1>4, <2>1, <2>2
  <2> QED BY <1>1, <1>4, <2>2, <2>3, ZenonT(30)
\* Nothing is written to who is not there.
<1>5. ASSUME NEW d \in Dirs, NEW items \in Seq(Items), Put(d, items), side[Receiver(d)] # "none",
             UNCHANGED side
      PROVE  (\A x \in Dirs : Unheard(x))'
  BY <1>1, <1>5, PutTyped DEF Receiver
<1>6. UNCHANGED side /\ UNCHANGED inbox => (\A d \in Dirs : Last(d))'
  BY <1>1
<1>7. UNCHANGED side /\ UNCHANGED outbox => (\A d \in Dirs : Unheard(d))'
  BY <1>1
<1>8. /\ side["client"] # "none"
      /\ \A d \in Dirs : pc \notin {"reading", "connecting", "over"} => side[Receiver(d)] # "none"
  BY DEF TypeOK, PlaceInv, Receiver
<1>9. <<End>> \in Seq(Items) /\ <<Pong>> \in Seq(Items) /\ <<Success>> \in Seq(Items)
      /\ <<>> \in Seq(Items) /\ initial \in Seq(Items) /\ \A d \in Dirs : held[d] \in Seq(Items)
  BY ChunksAreItems, Single, Nothing, Wider DEF TypeOK
<1>10. "up" \in Dirs /\ "down" \in Dirs
  BY DEF Dirs
<1> HIDE DEF Unheard, Last
<1>11. CASE UNCHANGED vars
  BY <1>11 DEF PeerInv, vars, handler
<1>12. CASE Starts
  <2>1. ASSUME NEW n \in 0 .. Len(inbox["up"]), ReadRequest(n)
        PROVE  PeerInv'
    <3> DEFINE s == inbox["up"]
    <3>1. s \in Seq(Items) /\ Len(s) \in Nat /\ \A i \in 1 .. Len(s) : s[i] \in Items
      BY <1>3, <1>10, Elements
    <3>2. /\ Len(SubSeq(s, n + 1, Len(s))) = Len(s) - n
          /\ \A i \in 1 .. Len(s) - n : SubSeq(s, n + 1, Len(s))[i] = s[n + i]
      BY <3>1, SubSeqProperties
    <3>3. inbox'["up"] = SubSeq(s, n + 1, Len(s)) /\ inbox'["down"] = inbox["down"]
      BY <2>1, <1>10 DEF ReadRequest, TypeOK
    <3>4. Last("up")' /\ Last("down")'
      BY <1>1, <1>10, <2>1, <3>1, <3>2, <3>3 DEF ReadRequest, Last
    <3>5. Rest'
      BY <1>1, <2>1, <3>3 DEF ReadRequest
    <3> QED BY <1>2, <1>7, <2>1, <3>4, <3>5 DEF ReadRequest, Dirs
  <2>2. CASE Connects
    <3>1. \A d \in Dirs : Last(d)' /\ Unheard(d)'
      BY <1>1, <2>2 DEF Connects, Last, Unheard, TypeOK, PlaceInv, Receiver, Source, Dirs
    <3>2. Rest'
      BY <1>1, <2>2 DEF Connects, TypeOK, PlaceInv, Source, Dirs
    <3> QED BY <1>2, <3>1, <3>2
  <2>3. CASE ReplySuccess
    BY <1>1, <1>2, <1>5, <1>6, <1>8, <1>9, <1>10, <2>3 DEF ReplySuccess
  <2>4. CASE SendInitial
    BY <1>1, <1>2, <1>5, <1>6, <1>8, <1>9, <1>10, <2>4 DEF SendInitial
  <2> QED BY <1>12, <2>1, <2>2, <2>3, <2>4 DEF Starts
<1>13. CASE Relays
  <2>1. CASE ReadClient \/ ReadFrame \/ ReadPing
    BY <1>1, <1>2, <1>4, <1>7, <1>8, <1>10, <2>1
       DEF ReadClient, ReadFrame, ReadPing, NextIs, NextIsChunk, Take, Relaying, TypeOK, Dirs
  <2>2. CASE ClientEnds
    <3>1. side["client"] = "closed"
      BY <1>1, <1>3, <1>10, <2>2, Read DEF ClientEnds, NextIs, Last, Source
    <3> QED BY <1>1, <1>2, <1>4, <1>7, <1>10, <2>2, <3>1
            DEF ClientEnds, NextIs, Take, TypeOK, Dirs
  <2>3. CASE SendUp \/ SendDown \/ SendPong
    BY <1>1, <1>2, <1>5, <1>6, <1>8, <1>9, <1>10, <2>3 DEF SendUp, SendDown, SendPong
  <2> QED BY <1>13, <2>1, <2>2, <2>3 DEF Relays
<1>14. ASSUME NEW d \in Dirs, CopiesOn(d)
       PROVE  PeerInv'
  <2>1. CASE CopyRead(d)
    <3>1. (inbox["down"] = <<>>)' \/ side["target"] # "none"
      BY <1>8, <2>1 DEF CopyRead, Copying, Dirs, Receiver, PlaceInv
    <3> QED BY <1>1, <1>2, <1>4, <1>7, <2>1, <3>1
            DEF CopyRead, Copying, NextIsChunk
  <2>2. CASE CopyWrite(d)
    BY <1>1, <1>2, <1>5, <1>6, <1>8, <1>9, <2>2 DEF CopyWrite, Copying
  <2>3. CASE CopyEnd(d)
    <3>1. side[Source(d)] = "closed"
      BY <1>1, <1>3, <2>3, Read DEF CopyEnd, NextIs, Last
    <3>2. side["target"] # "none" /\ pc' # "closing"
      BY <2>3 DEF CopyEnd, Copying, PlaceInv
    <3>3. Rest'
      BY <1>1, <2>3, <3>1, <3>2 DEF CopyEnd, TypeOK
    <3>4. (\A x \in Dirs : Unheard(x))' /\ (\A x \in Dirs : Last(x))'
      BY <1>4, <1>5, <1>8, <1>9, <2>3 DEF CopyEnd, NextIs, Copying
    <3> QED BY <1>2, <3>3, <3>4
  <2> QED BY <1>14, <2>1, <2>2, <2>3 DEF CopiesOn
<1>15. CASE PeerMoves
  <2> DEFINE Adds(d, item) == inbox' = [inbox EXCEPT ![d] = Append(@, item)] /\ UNCHANGED outbox
  <2>1. ASSUME NEW d \in Dirs, NEW item \in Items, Adds(d, item), side[Source(d)] = "open",
               \/ item # End /\ UNCHANGED side
               \/ side' = [side EXCEPT ![Source(d)] = "closed"]
        PROVE  (\A x \in Dirs : Last(x) /\ Unheard(x))'
    <3>1. /\ inbox'[d] = Append(inbox[d], item) /\ \A x \in Dirs \ {d} : inbox'[x] = inbox[x]
          /\ Len(Append(inbox[d], item)) = Len(inbox[d]) + 1 /\ Len(inbox[d]) \in Nat
          /\ Append(inbox[d], item)[Len(inbox[d]) + 1] = item
          /\ \A i \in 1 .. Len(inbox[d]) : Append(inbox[d], item)[i] = inbox[d][i]
      BY <1>3, <2>1, Added DEF TypeOK
    <3>2. \A i \in 1 .. Len(inbox[d]) : inbox[d][i] # End
      BY <1>1, <2>1 DEF Last
    <3>3. item = End => side'[Source(d)] = "closed"
      BY <1>3, <2>1 DEF TypeOK
    <3>4. Last(d)'
      BY <3>1, <3>2, <3>3 DEF Last
    <3>5. \A x \in Dirs : side[Source(x)] = "closed" => side'[Source(x)] = "closed"
      BY <1>3, <2>1 DEF TypeOK
    <3>6. \A x \in Dirs \ {d} : Last(x)'
      BY <1>1, <3>1, <3>5 DEF Last
    <3>7. \A x \in Dirs : Unheard(x)'
      BY <1>1, <1>3, <2>1 DEF Unheard, TypeOK
    <3> QED BY <3>4, <3>6, <3>7
  <2>2. CASE PeerPings
    <3>1. Ping \in Items /\ Ping # End /\ Source("down") = "target"
      BY ChunksAreItems DEF Ping, End, Source
    <3>2. Rest'
      BY <1>1, <2>2 DEF PeerPings, handler
    <3> QED BY <1>2, <1>10, <2>1, <2>2, <3>1, <3>2 DEF PeerPings
  <2>3. ASSUME NEW d \in Dirs, PeerSends(d)
        PROVE  PeerInv'
    <3>1. sent[d] + 1 \in 1 .. MaxChunks
      BY <2>3, Bounds DEF PeerSends, TypeOK
    <3>2. sent[d] + 1 \in Items /\ sent[d] + 1 # End
      BY <3>1, ChunksAreItems DEF End
    <3>3. Rest'
      BY <1>1, <2>3 DEF PeerSends, handler, Source, Dirs, TypeOK
    <3> QED BY <1>2, <2>1, <2>3, <3>2, <3>3 DEF PeerSends
  <2>4. ASSUME NEW d \in Dirs, PeerCloses(d)
        PROVE  PeerInv'
    <3>1. End \in Items
      BY ChunksAreItems
    <3>2. side["target"] = "none" => d = "up"
      BY <2>4 DEF PeerCloses, Source, Dirs
    <3>3. Rest'
      BY <1>1, <1>3, <2>4, <3>2 DEF PeerCloses, handler, Source, Dirs, TypeOK
    <3> QED BY <1>2, <2>1, <2>4, <3>1, <3>3 DEF PeerCloses
  <2>5. ASSUME NEW d \in Dirs, PeerReads(d)
        PROVE  PeerInv'
    <3>1. \A x \in Dirs : Unheard(x)'
      BY <1>1, <2>5 DEF PeerReads, Unheard, TypeOK
    <3> QED BY <1>1, <1>2, <1>6, <2>5, <3>1 DEF PeerReads, handler
  <2>6. ASSUME NEW d \in Dirs, PeerGone(d)
        PROVE  PeerInv'
    <3>1. \A x \in Dirs : Unheard(x)'
      BY <1>1, <1>3, <2>6 DEF PeerGone, Unheard, TypeOK, Receiver, Source, Back, Dirs
    <3>2. Last(d)'
      BY <1>3, <2>6 DEF PeerGone, Last, TypeOK, Broken, End
    <3>3. \A x \in Dirs \ {d} : Last(x)'
      BY <1>1, <1>3, <2>6 DEF PeerGone, Last, TypeOK, Source, Dirs
    <3>4. Rest'
      BY <1>1, <1>3, <2>6 DEF PeerGone, handler, Source, Dirs, TypeOK
    <3> QED BY <1>2, <3>1, <3>2, <3>3, <3>4
  <2> QED BY <1>15, <2>2, <2>3, <2>4, <2>5, <2>6 DEF PeerMoves, Peer
<1>16. CASE Hangs
  <2>1. PICK why, to_client, to_target : Ends(why, to_client, to_target)
    BY <1>16, HangsAreEnds
  <2>2. Unheard("up")' /\ Unheard("down")'
    BY <1>1, <1>10, <2>1, Hung, LastWords DEF Ends, Unheard
  <2> QED BY <1>1, <1>2, <1>6, <2>1, <2>2, Hung DEF Dirs
<1> QED BY <1>11, <1>12, <1>13, <1>14, <1>15, <1>16, Steps

LEMMA Typed == Spec => []TypeInv
<1>1. TypeInv /\ [Next]_vars => TypeInv'
  BY TypesPreserved, PlacesPreserved, PeersPreserved DEF TypeInv
<1> QED BY <1>1, InitTypes, PTL DEF Spec

\* Types.
THEOREM TypeCorrect == Spec => []TypeOK
<1>1. TypeInv => TypeOK
  BY DEF TypeInv
<1> QED BY <1>1, Typed, PTL

-----------------------------------------------------------------------------
(* The flow: what one step may do to a direction.                          *)

Moved(d, o, h, b, i, g, s) ==
  /\ outbox'[d] = o /\ held'[d] = h /\ Begun(d)' = b /\ inbox'[d] = i
  /\ got'[d] = g /\ sent'[d] = s

Stays(d) == Moved(d, outbox[d], held[d], Begun(d), inbox[d], got[d], sent[d])

\* The source adds a chunk or a sign,
Sends(d) ==
  /\ sent[d] < MaxChunks
  /\ Moved(d, outbox[d], held[d], Begun(d), Append(inbox[d], sent[d] + 1), got[d], sent[d] + 1)
Signs(d) == \E item \in {End, Ping} :
  Moved(d, outbox[d], held[d], Begun(d), Append(inbox[d], item), got[d], sent[d])

\* the handler reads a chunk, or several at first, or a sign,
Reads(d) ==
  /\ inbox[d] # <<>> /\ Chunk(Head(inbox[d])) /\ held[d] = <<>> /\ Begun(d) = <<>>
  /\ Moved(d, outbox[d], <<Head(inbox[d])>>, <<>>, Tail(inbox[d]), got[d], sent[d])
Begins(d) ==
  /\ held[d] = <<>> /\ Begun(d) = <<>>
  /\ \E n \in 0 .. Len(inbox[d]) :
       /\ \A i \in 1 .. n : Chunk(inbox[d][i])
       /\ Moved(d, outbox[d], <<>>, SubSeq(inbox[d], 1, n),
                SubSeq(inbox[d], n + 1, Len(inbox[d])), got[d], sent[d])
Skips(d) ==
  /\ inbox[d] # <<>> /\ ~Chunk(Head(inbox[d]))
  /\ \E o \in {outbox[d], outbox[d] \o <<End>>} :
       Moved(d, o, held[d], Begun(d), Tail(inbox[d]), got[d], sent[d])

\* writes what it holds, or a sign,
Forwards(d) == Moved(d, outbox[d] \o held[d], <<>>, Begun(d), inbox[d], got[d], sent[d])
Opens(d) ==
  held[d] = <<>> /\ Moved(d, outbox[d] \o Begun(d), <<>>, <<>>, inbox[d], got[d], sent[d])
Tells(d) == \E items \in {<<>>, <<Success>>, <<Pong>>} :
  Moved(d, outbox[d] \o items, held[d], Begun(d), inbox[d], got[d], sent[d])

\* and the receiver takes what comes next.
Receives(d) ==
  /\ outbox[d] # <<>>
  /\ Moved(d, Tail(outbox[d]), held[d], Begun(d), inbox[d],
           IF Chunk(Head(outbox[d])) THEN Head(outbox[d]) ELSE got[d], sent[d])

Moves(d) ==
  \/ Stays(d) \/ Sends(d) \/ Signs(d) \/ Reads(d) \/ Begins(d) \/ Skips(d)
  \/ Forwards(d) \/ Opens(d) \/ Tells(d) \/ Receives(d)

\* A peer that has gone does not come back, nor does the handler.
LEMMA Gone == TypeInv /\ [Next]_vars => (Both' => Both) /\ (pc = "over" => pc' = "over")
<1> SUFFICES ASSUME TypeInv, [Next]_vars PROVE (Both' => Both) /\ (pc = "over" => pc' = "over")
  OBVIOUS
<1>1. CASE UNCHANGED vars
  BY <1>1 DEF Both, vars, handler
<1>2. CASE Starts
  BY <1>2 DEF TypeInv, TypeOK, PlaceInv, Starts, ReadRequest, Connects, ReplySuccess, SendInitial, Both
<1>3. CASE Relays
  BY <1>3 DEF Relays, Relaying, ReadClient, SendUp, ClientEnds, ReadFrame, SendDown, ReadPing,
              SendPong, Both
<1>4. CASE \E d \in Dirs : CopiesOn(d)
  BY <1>4 DEF CopiesOn, CopyRead, CopyWrite, CopyEnd, Copying, Both
<1>5. CASE PeerMoves
  BY <1>5 DEF PeerMoves, PeerPings, Peer, PeerSends, PeerCloses, PeerReads, PeerGone, Both, Source,
              TypeInv, TypeOK, handler
<1>6. CASE Hangs
  <2>1. PICK why, to_client, to_target : Ends(why, to_client, to_target)
    BY <1>6, HangsAreEnds DEF TypeInv
  <2> QED BY <2>1, Hung DEF Both
<1> QED BY <1>1, <1>2, <1>3, <1>4, <1>5, <1>6, Steps

\* Between two peers that are there, every step but the last is a move.
LEMMA MovesOf ==
  ASSUME TypeInv, Next, Both', pc' # "over" \/ pc = "over"
  PROVE  \A d \in Dirs : Moves(d)
<1> USE DEF TypeInv
<1>1. Both
  BY Gone
<1>2. /\ held \in [Dirs -> Seq(1 .. MaxChunks)] /\ outbox \in [Dirs -> Seq(Items)]
      /\ inbox \in [Dirs -> Seq(Items)] /\ got \in [Dirs -> 0 .. MaxChunks]
      /\ sent \in [Dirs -> 0 .. MaxChunks]
  BY DEF TypeOK
<1>3. \A d \in Dirs : side[Receiver(d)] # "gone"
  BY <1>1 DEF Both, Receiver
<1>4. Begun("up") = initial /\ Begun("down") = <<>> /\ Dirs = {"up", "down"}
  BY DEF Begun, Dirs
<1>5. CASE Starts
  <2>1. ASSUME NEW n \in 0 .. Len(inbox["up"]), ReadRequest(n)
        PROVE  Begins("up") /\ Stays("down")
    <3>1. initial = <<>> /\ held["up"] = <<>>
      BY <2>1 DEF ReadRequest, PlaceInv
    <3> QED BY <1>2, <1>4, <2>1, <3>1 DEF ReadRequest, Begins, Stays, Moved, Begun, history
  <2>2. CASE Connects
    BY <2>2, <1>4 DEF Connects, Stays, Moves, Moved, Begun, history
  <2>3. CASE ReplySuccess
    <3>1. Stays("up") /\ Tells("down")
      BY <1>2, <1>3, <1>4, <2>3 DEF ReplySuccess, Put, Stays, Tells, Moved, Begun, history
    <3> QED BY <1>4, <3>1 DEF Moves
  <2>4. CASE SendInitial
    <3>1. held["up"] = <<>>
      BY <2>4 DEF SendInitial, PlaceInv
    <3>2. Opens("up") /\ Stays("down")
      BY <1>2, <1>3, <1>4, <2>4, <3>1 DEF SendInitial, Put, Stays, Opens, Moved, Begun, history
    <3> QED BY <1>4, <3>2 DEF Moves
  <2> QED BY <1>4, <1>5, <2>1, <2>2, <2>3, <2>4 DEF Starts, Moves
<1>6. CASE Relays
  <2>1. CASE ReadClient
    <3>1. initial = <<>> /\ held["up"] = <<>>
      BY <2>1 DEF ReadClient, Relaying, PlaceInv
    <3>2. Reads("up") /\ Stays("down")
      BY <1>2, <1>4, <2>1, <3>1 DEF ReadClient, NextIsChunk, Take, Reads, Stays, Moved, Begun, history
    <3> QED BY <1>4, <3>2 DEF Moves
  <2>2. CASE SendUp
    <3>1. Forwards("up") /\ Stays("down")
      BY <1>2, <1>3, <1>4, <2>2 DEF SendUp, Put, Forwards, Stays, Moved, Begun, history
    <3> QED BY <1>4, <3>1 DEF Moves
  <2>3. CASE ClientEnds
    <3>1. Skips("up") /\ Stays("down")
      BY <1>2, <1>4, <2>3, ChunksAreItems DEF ClientEnds, NextIs, Take, Skips, Stays, Moved, Begun, history
    <3> QED BY <1>4, <3>1 DEF Moves
  <2>4. CASE ReadFrame
    <3>1. held["down"] = <<>>
      BY <2>4 DEF ReadFrame, Relaying, PlaceInv
    <3>2. Reads("down") /\ Stays("up")
      BY <1>2, <1>4, <2>4, <3>1 DEF ReadFrame, NextIsChunk, Take, Reads, Stays, Moved, Begun, history
    <3> QED BY <1>4, <3>2 DEF Moves
  <2>5. CASE SendDown
    <3>1. Forwards("down") /\ Stays("up")
      BY <1>2, <1>3, <1>4, <2>5 DEF SendDown, Put, Forwards, Stays, Moved, Begun, history
    <3> QED BY <1>4, <3>1 DEF Moves
  <2>6. CASE ReadPing
    <3>1. Skips("down") /\ Stays("up")
      BY <1>2, <1>4, <2>6, ChunksAreItems DEF ReadPing, NextIs, Take, Skips, Stays, Moved, Begun, history
    <3> QED BY <1>4, <3>1 DEF Moves
  <2>7. CASE SendPong
    <3>1. Tells("up") /\ Stays("down")
      BY <1>2, <1>3, <1>4, <2>7 DEF SendPong, Put, Tells, Stays, Moved, Begun, history
    <3> QED BY <1>4, <3>1 DEF Moves
  <2> QED BY <1>6, <2>1, <2>2, <2>3, <2>4, <2>5, <2>6, <2>7 DEF Relays
<1>7. ASSUME NEW d \in Dirs, CopiesOn(d)
      PROVE  \A x \in Dirs : Moves(x)
  <2>1. initial = <<>> /\ Begun(d) = <<>> /\ \A x \in Dirs : Begun(x) = <<>>
    BY <1>7 DEF CopiesOn, CopyRead, CopyWrite, CopyEnd, Copying, PlaceInv, Begun
  <2>2. UNCHANGED initial /\ \A x \in Dirs : Begun(x)' = Begun(x)
    BY <1>7, <2>1 DEF CopiesOn, CopyRead, CopyWrite, CopyEnd, Begun
  <2>3. \A x \in Dirs \ {d} : Stays(x)
    BY <1>2, <1>7, <2>2 DEF CopiesOn, CopyRead, CopyWrite, CopyEnd, Put, Take, Stays, Moved, history
  <2>4. CASE CopyRead(d)
    <3>1. Reads(d)
      BY <1>2, <2>1, <2>2, <2>4 DEF CopyRead, NextIsChunk, Take, Reads, Moved, history
    <3> QED BY <2>3, <3>1 DEF Moves
  <2>5. CASE CopyWrite(d)
    <3>1. Forwards(d)
      BY <1>2, <1>3, <2>2, <2>5 DEF CopyWrite, Put, Forwards, Moved, history
    <3> QED BY <2>3, <3>1 DEF Moves
  <2>6. CASE CopyEnd(d)
    <3>1. Skips(d)
      BY <1>2, <1>3, <2>2, <2>6, ChunksAreItems DEF CopyEnd, NextIs, Put, Take, Skips, Moved, history
    <3> QED BY <2>3, <3>1 DEF Moves
  <2> QED BY <1>7, <2>4, <2>5, <2>6 DEF CopiesOn
<1>8. CASE PeerMoves
  <2>1. CASE PeerPings
    <3>1. Signs("down") /\ Stays("up")
      BY <1>2, <1>4, <2>1 DEF PeerPings, Signs, Stays, Moved, Begun, handler, history
    <3> QED BY <1>4, <3>1 DEF Moves
  <2>2. ASSUME NEW d \in Dirs, Peer(d)
        PROVE  \A x \in Dirs : Moves(x)
    <3>1. UNCHANGED handler /\ \A x \in Dirs : Begun(x)' = Begun(x)
      BY <2>2 DEF Peer, PeerSends, PeerCloses, PeerReads, PeerGone, handler, Begun
    <3>2. CASE PeerSends(d)
      <4>1. Sends(d) /\ \A x \in Dirs \ {d} : Stays(x)
        BY <1>2, <3>1, <3>2 DEF PeerSends, Sends, Stays, Moved, handler
      <4> QED BY <4>1 DEF Moves
    <3>3. CASE PeerCloses(d)
      <4>1. Signs(d) /\ \A x \in Dirs \ {d} : Stays(x)
        BY <1>2, <3>1, <3>3 DEF PeerCloses, Signs, Stays, Moved, handler, history
      <4> QED BY <4>1 DEF Moves
    <3>4. CASE PeerReads(d)
      <4>1. Receives(d) /\ \A x \in Dirs \ {d} : Stays(x)
        BY <1>2, <3>1, <3>4 DEF PeerReads, Receives, Stays, Moved, handler
      <4> QED BY <4>1 DEF Moves
    <3>5. CASE PeerGone(d)
      <4>1. ~Both'
        BY <3>5 DEF PeerGone, Both, Source, TypeOK
      <4> QED BY <4>1
    <3> QED BY <2>2, <3>2, <3>3, <3>4, <3>5 DEF Peer
  <2> QED BY <1>8, <2>1, <2>2 DEF PeerMoves
<1>9. CASE Hangs
  <2>1. PICK why, to_client, to_target : Ends(why, to_client, to_target)
    BY <1>9, HangsAreEnds
  <2> QED BY <2>1, Hung DEF Ends
<1> QED BY <1>5, <1>6, <1>7, <1>8, <1>9, Steps

-----------------------------------------------------------------------------
(* The flow is kept.                                                       *)

LEMMA FlowInit == TypeInv /\ Init => FlowInv
<1> SUFFICES ASSUME TypeInv, Init, NEW d \in Dirs PROVE FlowAt(d)
  BY DEF FlowInv
<1>1. /\ outbox[d] = <<>> /\ held[d] = <<>> /\ Begun(d) = <<>> /\ got[d] = 0 /\ pc # "over"
      /\ sent[d] \in 0 .. MaxChunks
      /\ \/ sent[d] = 0 /\ inbox[d] = <<>>
         \/ sent[d] = 1 /\ inbox[d] = <<1>>
  BY DEF Init, Begun, Dirs, TypeInv, TypeOK
<1>2. InTurn(<<>>, 0, 0)
  BY EmptyInTurn
<1>3. InTurn(inbox[d], 0, sent[d])
  <2>1. 1 \in Items /\ Chunk(1)
    BY ChunksAreItems, Bounds DEF Chunk
  <2>2. InTurn(<<1>>, 1 - 1, 1)
    BY <2>1, ChunkInTurn
  <2> QED BY <1>1, <1>2, <2>2
<1>4. Parts(d, 0, 0, 0) /\ 0 \in 0 .. MaxChunks
  BY <1>1, <1>2, <1>3, Bounds DEF Parts
<1> QED BY <1>1, <1>4 DEF FlowAt

LEMMA FlowMoves ==
  ASSUME TypeInv, NEW d \in Dirs, Both, pc # "over", FlowAt(d), Moves(d), TypeOK'
  PROVE  \E a, b, c \in 0 .. MaxChunks : Parts(d, a, b, c)'
<1> DEFINE out == outbox[d]  in == inbox[d]  g == got[d]  s == sent[d]
<1>1. PICK a \in 0 .. MaxChunks, b \in 0 .. MaxChunks, c \in 0 .. MaxChunks : Parts(d, a, b, c)
  BY DEF FlowAt
<1>2. /\ out \in Seq(Items) /\ in \in Seq(Items) /\ held[d] \in Seq(Items) /\ Begun(d) \in Seq(Items)
      /\ g \in Nat /\ s \in Nat /\ a \in Nat /\ b \in Nat /\ c \in Nat /\ s <= MaxChunks
      /\ MaxChunks \in Nat
  BY Wider, Nothing, Bounds DEF TypeInv, TypeOK, Begun
<1>3. /\ InTurn(out, g, a) /\ InTurn(held[d], a, b) /\ InTurn(Begun(d), b, c) /\ InTurn(in, c, s)
      /\ g <= a /\ a <= b /\ b <= c /\ c <= s
  BY <1>1 DEF Parts
<1>4. /\ held[d] = <<>> => a = b
      /\ Begun(d) = <<>> => b = c
  BY <1>2, <1>3, EmptyInTurn
<1>5. \A x \in Nat : InTurn(<<>>, x, x)
  BY EmptyInTurn
\* A sign counts for nothing.
<1>6. ASSUME NEW items \in Seq(Items), \A i \in 1 .. Len(items) : ~Chunk(items[i])
      PROVE  InTurn(out \o items, g, a) /\ InTurn(in \o items, c, s)
  <2>1. InTurn(items, a, a) /\ InTurn(items, s, s)
    BY <1>2, <1>6, NoChunks
  <2>2. InTurn(out \o items, g, a)
    BY <1>2, <1>3, <2>1, JoinedInTurn, SMTT(30)
  <2>3. InTurn(in \o items, c, s)
    BY <1>2, <1>3, <2>1, JoinedInTurn, SMTT(30)
  <2> QED BY <2>2, <2>3
<1>7. \A item \in {End, Ping, Success, Pong} :
        item \in Items /\ <<item>> \in Seq(Items) /\ \A i \in 1 .. Len(<<item>>) : ~Chunk(<<item>>[i])
  BY ChunksAreItems, Single
<1> HIDE DEF out, in, g, s
<1>8. CASE Stays(d)
  <2>1. Parts(d, a, b, c)'
    BY <1>3, <1>8 DEF Stays, Moved, Parts, out, in, g, s
  <2> QED BY <2>1
<1>9. CASE Sends(d)
  <2>1. s + 1 \in 1 .. MaxChunks
    BY <1>2, <1>9 DEF Sends, s
  <2>2. s + 1 \in Items /\ Chunk(s + 1)
    BY <2>1, ChunksAreItems DEF Chunk
  <2>3. InTurn(<<s + 1>>, s, s + 1)
    <3>1. InTurn(<<s + 1>>, (s + 1) - 1, s + 1) /\ (s + 1) - 1 = s
      BY <1>2, <2>2, ChunkInTurn
    <3> QED BY <3>1
  <2>4. InTurn(Append(in, s + 1), c, s + 1)
    <3>1. InTurn(in \o <<s + 1>>, c, s + 1)
      <4>1. <<s + 1>> \in Seq(Items) /\ s + 1 \in Nat /\ s <= s + 1
        BY <1>2, <2>2, Single
      <4> QED BY <1>2, <1>3, <2>3, <4>1, JoinedInTurn
    <3> QED BY <1>2, <2>2, <3>1, Added
  <2>5. Parts(d, a, b, c)'
    BY <1>2, <1>3, <1>9, <2>4 DEF Sends, Moved, Parts, out, in, g, s
  <2> QED BY <2>5
<1>10. CASE Signs(d)
  <2>1. PICK item \in {End, Ping} : Moved(d, out, held[d], Begun(d), Append(in, item), g, s)
    BY <1>10 DEF Signs, out, in, g, s
  <2>2. InTurn(Append(in, item), c, s)
    <3>1. InTurn(in \o <<item>>, c, s)
      BY <1>6, <1>7
    <3> QED BY <1>2, <1>7, <3>1, Added, ZenonT(30)
  <2>3. Parts(d, a, b, c)'
    BY <1>3, <2>1, <2>2 DEF Moved, Parts
  <2> QED BY <2>3
<1>11. CASE Reads(d)
  <2>1. /\ Head(in) = c + 1 /\ c + 1 <= s /\ InTurn(Tail(in), c + 1, s)
        /\ Head(in) \in Items /\ Chunk(Head(in))
    BY <1>2, <1>3, <1>11, FirstInTurn, Dequeued DEF Reads, in
  <2>2. InTurn(<<Head(in)>>, c, c + 1)
    <3>1. InTurn(<<Head(in)>>, Head(in) - 1, Head(in))
      BY <2>1, ChunkInTurn
    <3>2. c \in Nat /\ Head(in) = c + 1
      BY <1>2, <2>1
    <3>3. Head(in) - 1 = c
      BY <3>2
    <3> QED BY <3>1, <3>2, <3>3
  <2>3. a = c /\ b = c
    BY <1>4, <1>11 DEF Reads
  <2>4. Parts(d, c, c + 1, c + 1)'
    BY <1>2, <1>3, <1>5, <1>11, <2>1, <2>2, <2>3 DEF Reads, Moved, Parts, out, in, g, s
  <2>5. c + 1 \in 0 .. MaxChunks
    BY <1>2, <2>1
  <2> QED BY <2>4, <2>5
<1>12. CASE Begins(d)
  <2>1. PICK n \in 0 .. Len(in) :
             /\ \A i \in 1 .. n : Chunk(in[i])
             /\ Moved(d, out, <<>>, SubSeq(in, 1, n), SubSeq(in, n + 1, Len(in)), g, s)
    BY <1>12 DEF Begins, out, in, g, s
  <2>2. PICK m \in c .. s : InTurn(SubSeq(in, 1, n), c, m) /\ InTurn(SubSeq(in, n + 1, Len(in)), m, s)
    BY <1>2, <1>3, <2>1, SplitInTurn
  <2>3. a = c /\ b = c
    BY <1>4, <1>12 DEF Begins
  <2>4. Parts(d, a, a, m)'
    BY <1>2, <1>3, <1>5, <2>1, <2>2, <2>3 DEF Moved, Parts
  <2>5. m \in 0 .. MaxChunks
    BY <1>2, <2>2
  <2> QED BY <2>4, <2>5
<1>13. CASE Skips(d)
  <2>1. InTurn(Tail(in), c, s)
    BY <1>2, <1>3, <1>13, SignInTurn DEF Skips, in
  <2>2. InTurn(out \o <<End>>, g, a)
    BY <1>6, <1>7
  <2>3. Parts(d, a, b, c)'
    BY <1>3, <1>13, <2>1, <2>2 DEF Skips, Moved, Parts, out, in, g, s
  <2> QED BY <2>3
<1>14. CASE Forwards(d)
  <2>1. InTurn(out \o held[d], g, b)
    BY <1>2, <1>3, JoinedInTurn
  <2>2. Parts(d, b, b, c)'
    BY <1>2, <1>3, <1>5, <1>14, <2>1 DEF Forwards, Moved, Parts, out, in, g, s
  <2> QED BY <2>2
<1>15. CASE Opens(d)
  <2>1. a = b
    BY <1>4, <1>15 DEF Opens
  <2>2. InTurn(out \o Begun(d), g, c)
    BY <1>2, <1>3, <2>1, JoinedInTurn
  <2>3. Parts(d, c, c, c)'
    BY <1>2, <1>3, <1>5, <1>15, <2>2 DEF Opens, Moved, Parts, out, in, g, s
  <2> QED BY <2>3
<1>16. CASE Tells(d)
  <2>1. PICK items \in {<<>>, <<Success>>, <<Pong>>} :
             Moved(d, out \o items, held[d], Begun(d), in, g, s)
    BY <1>16 DEF Tells, out, in, g, s
  <2>2. items \in Seq(Items) /\ \A i \in 1 .. Len(items) : ~Chunk(items[i])
    <3>1. CASE items = <<>>
      BY <3>1, Nothing
    <3>2. CASE \E item \in {Success, Pong} : items = <<item>>
      BY <1>7, <3>2
    <3> QED BY <3>1, <3>2
  <2>3. InTurn(out \o items, g, a)
    BY <1>6, <2>2
  <2>4. Parts(d, a, b, c)'
    BY <1>3, <2>1, <2>3 DEF Moved, Parts
  <2> QED BY <2>4
<1>17. CASE Receives(d)
  <2>1. CASE Chunk(Head(out))
    <3>1. Head(out) = g + 1 /\ g + 1 <= a /\ InTurn(Tail(out), g + 1, a)
      BY <1>2, <1>3, <1>17, <2>1, FirstInTurn DEF Receives, out
    <3>2. Parts(d, a, b, c)'
      BY <1>3, <1>17, <2>1, <3>1 DEF Receives, Moved, Parts, out, in, g, s
    <3> QED BY <3>2
  <2>2. CASE ~Chunk(Head(out))
    <3>1. InTurn(Tail(out), g, a)
      BY <1>2, <1>3, <1>17, <2>2, SignInTurn DEF Receives, out
    <3>2. Parts(d, a, b, c)'
      BY <1>3, <1>17, <2>2, <3>1 DEF Receives, Moved, Parts, out, in, g, s
    <3> QED BY <3>2
  <2> QED BY <2>1, <2>2
<1> QED BY <1>8, <1>9, <1>10, <1>11, <1>12, <1>13, <1>14, <1>15, <1>16, <1>17 DEF Moves

\* After the end, a receiver goes on with what its socket holds.
LEMMA FlowAfter ==
  ASSUME TypeInv, NEW d \in Dirs, Both, pc = "over", FlowAt(d), Next, TypeOK', Both'
  PROVE  \E n \in got'[d] .. sent'[d] : InTurn(outbox'[d], got'[d], n)
<1>1. PICK n \in got[d] .. sent[d] : InTurn(outbox[d], got[d], n)
  BY DEF FlowAt
<1>2. outbox[d] \in Seq(Items) /\ got[d] \in Nat /\ sent[d] \in Nat /\ n \in Nat /\ got[d] <= n
  BY DEF TypeInv, TypeOK
<1>3. PICK x \in Dirs : PeerReads(x)
  BY DEF Next, ReadRequest, RequestFails, ConnectFails, Connects, ReplySuccess, ReplyFails, Branches,
         ReadClient, ClientEnds, ClientBreaks, ReadFrame, ReadPing, TargetEnds, TargetBreaks, Relaying,
         Writes, SendInitial, SendUp, SendDown, SendPong, SendClose, WriteFails, Copies, CopyRead,
         CopyWrite, CopyEnd, CopyFails, Copying, Peer, PeerSends, PeerCloses, PeerGone, CopyDone, PeerPings
<1>4. CASE x # d
  <2>1. outbox'[d] = outbox[d] /\ got'[d] = got[d] /\ sent'[d] = sent[d]
    BY <1>3, <1>4 DEF PeerReads, TypeInv, TypeOK
  <2> QED BY <1>1, <2>1
<1>5. CASE x = d
  <2>1. /\ outbox[d] # <<>> /\ outbox'[d] = Tail(outbox[d]) /\ sent'[d] = sent[d]
        /\ got'[d] = IF Chunk(Head(outbox[d])) THEN Head(outbox[d]) ELSE got[d]
    BY <1>3, <1>5 DEF PeerReads, TypeInv, TypeOK
  <2>2. CASE Chunk(Head(outbox[d]))
    <3>1. Head(outbox[d]) = got[d] + 1 /\ got[d] + 1 <= n /\ InTurn(Tail(outbox[d]), got[d] + 1, n)
      BY <1>1, <1>2, <2>1, <2>2, FirstInTurn
    <3> QED BY <1>1, <1>2, <2>1, <2>2, <3>1
  <2>3. CASE ~Chunk(Head(outbox[d]))
    <3>1. InTurn(Tail(outbox[d]), got[d], n)
      BY <1>1, <1>2, <2>1, <2>3, SignInTurn
    <3> QED BY <1>1, <2>1, <2>3, <3>1
  <2> QED BY <2>2, <2>3
<1> QED BY <1>4, <1>5

\* The end leaves in the sockets a part of what was on its way, from the front.
LEMMA FlowEnds ==
  ASSUME TypeInv, NEW d \in Dirs, Both, FlowAt(d), Hangs
  PROVE  \E n \in got'[d] .. sent'[d] : InTurn(outbox'[d], got'[d], n)
<1>1. PICK why, to_client, to_target : Ends(why, to_client, to_target)
  BY HangsAreEnds DEF TypeInv
<1> DEFINE last == IF d = "up" THEN to_target ELSE to_client
<1>2. PICK a \in 0 .. MaxChunks, b \in 0 .. MaxChunks, c \in 0 .. MaxChunks : Parts(d, a, b, c)
  BY <1>1 DEF FlowAt, Ends
<1>3. /\ outbox[d] \in Seq(Items) /\ got[d] \in Nat /\ a \in got[d] .. sent[d] /\ a \in Nat
      /\ sent[d] \in Nat /\ InTurn(outbox[d], got[d], a)
  BY <1>2 DEF Parts, TypeInv, TypeOK
<1>4. last \in LastToClient \cup LastToTarget /\ outbox'[d] \in AfterDrop(d, last)
  BY <1>1, Hung DEF Ends, Dirs
<1>5. got'[d] = got[d] /\ sent'[d] = sent[d]
  BY <1>1, Hung
<1> HIDE DEF last
<1>6. /\ last \in Seq(Items) /\ \A i \in 1 .. Len(last) : ~Chunk(last[i])
      /\ outbox'[d] \in {outbox[d], outbox[d] \o last, <<Broken>>}
  BY <1>4, LastWords DEF TypeInv
<1>7. InTurn(outbox[d] \o last, got[d], a)
  BY <1>3, <1>6, NoChunks, JoinedInTurn
<1>8. InTurn(<<Broken>>, got[d], got[d]) /\ got[d] \in got[d] .. sent[d]
  <2> DEFINE reset == <<Broken>>
  <2>1. reset \in Seq(Items) /\ \A i \in 1 .. Len(reset) : ~Chunk(reset[i])
    BY ChunksAreItems, Single
  <2> HIDE DEF reset
  <2>2. InTurn(reset, got[d], got[d])
    BY <1>3, <2>1, NoChunks
  <2> QED BY <1>3, <2>2 DEF reset
<1> QED BY <1>3, <1>5, <1>6, <1>7, <1>8

LEMMA FlowPreserved == TypeInv /\ FlowInv /\ [Next]_vars => FlowInv'
<1> SUFFICES ASSUME TypeInv, FlowInv, [Next]_vars, NEW d \in Dirs, Both' PROVE FlowAt(d)'
  BY DEF FlowInv, FlowAt
<1>1. FlowAt(d) /\ Both /\ TypeOK' /\ (pc = "over" => pc' = "over")
  BY Gone, TypesPreserved DEF FlowInv
<1>2. CASE UNCHANGED vars
  BY <1>1, <1>2 DEF FlowAt, Both, Parts, Begun, vars, handler, history
<1>3. CASE Next /\ pc = "over"
  BY <1>1, <1>3, FlowAfter DEF FlowAt
<1>4. CASE Next /\ pc # "over" /\ pc' # "over"
  <2>1. Moves(d)
    BY <1>4, MovesOf
  <2> QED BY <1>1, <1>4, <2>1, FlowMoves DEF FlowAt
<1>5. CASE Next /\ pc # "over" /\ pc' = "over"
  <2>1. Hangs
    BY <1>5, Steps DEF Starts, ReadRequest, Connects, ReplySuccess, SendInitial, Relays, ReadClient,
         SendUp, ClientEnds, ReadFrame, SendDown, ReadPing, SendPong, CopiesOn, CopyRead, CopyWrite,
         CopyEnd, Copying, PeerMoves, PeerPings, Peer, PeerSends, PeerCloses, PeerReads, PeerGone, handler
  <2> QED BY <1>1, <1>5, <2>1, FlowEnds DEF FlowAt
<1> QED BY <1>2, <1>3, <1>4, <1>5

LEMMA Flows == Spec => [](TypeInv /\ FlowInv)
<1>1. Init => TypeInv /\ FlowInv
  BY InitTypes, FlowInit
<1>2. TypeInv /\ FlowInv /\ [Next]_vars => TypeInv' /\ FlowInv'
  BY TypesPreserved, PlacesPreserved, PeersPreserved, FlowPreserved DEF TypeInv
<1> QED BY <1>1, <1>2, PTL DEF Spec

LEMMA FlowIsWhole == TypeInv /\ FlowInv => Whole
<1> SUFFICES ASSUME TypeInv, FlowInv, NEW d \in Dirs, Both
             PROVE  \E n \in got[d] .. sent[d] : InTurn(Path(d), got[d], n) /\ (pc # "over" => n = sent[d])
  BY DEF Whole, Both
<1>1. FlowAt(d)
  BY DEF FlowInv
<1>2. CASE pc = "over"
  BY <1>1, <1>2 DEF FlowAt, Path
<1>3. CASE pc # "over"
  <2>1. PICK a \in 0 .. MaxChunks, b \in 0 .. MaxChunks, c \in 0 .. MaxChunks : Parts(d, a, b, c)
    BY <1>1, <1>3 DEF FlowAt
  <2>2. /\ outbox[d] \in Seq(Items) /\ inbox[d] \in Seq(Items) /\ held[d] \in Seq(Items)
        /\ Begun(d) \in Seq(Items) /\ got[d] \in Nat /\ sent[d] \in Nat
        /\ a \in Nat /\ b \in Nat /\ c \in Nat
    BY Wider, Nothing, Bounds DEF TypeInv, TypeOK, Begun
  <2>3. InTurn(outbox[d] \o held[d], got[d], b) /\ outbox[d] \o held[d] \in Seq(Items)
    BY <2>1, <2>2, JoinedInTurn, Joined DEF Parts
  <2>4. /\ InTurn(outbox[d] \o held[d] \o Begun(d), got[d], c)
        /\ outbox[d] \o held[d] \o Begun(d) \in Seq(Items) /\ got[d] <= c
    <3> DEFINE most == outbox[d] \o held[d]
    <3>1. most \in Seq(Items) /\ InTurn(most, got[d], b) /\ InTurn(Begun(d), b, c)
          /\ got[d] <= b /\ b <= c /\ got[d] <= c
      BY <2>1, <2>2, <2>3 DEF Parts
    <3> HIDE DEF most
    <3>2. InTurn(most \o Begun(d), got[d], c) /\ most \o Begun(d) \in Seq(Items)
      BY <2>2, <3>1, JoinedInTurn, Joined
    <3> QED BY <3>1, <3>2 DEF most
  <2>5. InTurn(outbox[d] \o held[d] \o Begun(d) \o inbox[d], got[d], sent[d]) /\ got[d] <= sent[d]
    <3> DEFINE most == outbox[d] \o held[d] \o Begun(d)
    <3>1. most \in Seq(Items) /\ InTurn(most, got[d], c) /\ InTurn(inbox[d], c, sent[d])
          /\ got[d] <= c /\ c <= sent[d] /\ got[d] <= sent[d]
      BY <2>1, <2>2, <2>4 DEF Parts
    <3> HIDE DEF most
    <3>2. InTurn(most \o inbox[d], got[d], sent[d])
      BY <2>2, <3>1, JoinedInTurn
    <3> QED BY <3>1, <3>2 DEF most
  <2>6. Path(d) = outbox[d] \o held[d] \o Begun(d) \o inbox[d]
    BY <1>3 DEF Path, Begun
  <2> QED BY <2>2, <2>5, <2>6
<1> QED BY <1>2, <1>3

\* For sockets of any size and any number of chunks, the relay loses, doubles and
\* reorders nothing between two peers that are there.
THEOREM NothingLost == Spec => []Whole
  BY Flows, FlowIsWhole, PTL

-----------------------------------------------------------------------------
(* The end comes last.                                                     *)

\* Between two peers that are there, a direction whose source has ended and whose
\* end was just read is in the receiver's socket.
LEMMA AllWrittenAtEnd ==
  ASSUME TypeInv, FlowInv, NEW d \in Dirs, Both, pc # "over",
         NextIs(d, End), held[d] = <<>>, Begun(d) = <<>>
  PROVE  AllWritten(d) /\ side[Source(d)] = "closed" /\ Tail(inbox[d]) = <<>>
<1>1. PICK a \in 0 .. MaxChunks, b \in 0 .. MaxChunks, c \in 0 .. MaxChunks : Parts(d, a, b, c)
  BY DEF FlowInv, FlowAt
<1>2. /\ inbox[d] \in Seq(Items) /\ inbox[d] # <<>> /\ Head(inbox[d]) = End
      /\ got[d] \in Nat /\ sent[d] \in Nat /\ a \in Nat /\ b \in Nat /\ c \in Nat
  BY DEF TypeInv, TypeOK, NextIs
<1>3. /\ Len(inbox[d]) \in Nat /\ Len(inbox[d]) > 0 /\ inbox[d][1] = End
      /\ Tail(inbox[d]) \in Seq(Items) /\ Len(Tail(inbox[d])) = Len(inbox[d]) - 1
  BY <1>2, Dequeued
<1>4. Len(inbox[d]) = 1 /\ side[Source(d)] = "closed"
  <2>1. 1 \in 1 .. Len(inbox[d])
    BY <1>3
  <2> QED BY <1>3, <2>1 DEF TypeInv, PeerInv
<1>5. Tail(inbox[d]) = <<>>
  <2>1. Len(Tail(inbox[d])) = 0
    BY <1>3, <1>4
  <2> QED BY <1>3, <2>1, EmptySeq
<1>6. InTurn(Tail(inbox[d]), c, sent[d])
  BY <1>1, <1>2, SignInTurn, ChunksAreItems DEF Parts
<1>7. a = b /\ b = c /\ c = sent[d]
  <2>1. /\ InTurn(<<>>, a, b) /\ a <= b /\ InTurn(<<>>, b, c) /\ b <= c
        /\ InTurn(<<>>, c, sent[d]) /\ c <= sent[d]
    BY <1>1, <1>5, <1>6 DEF Parts
  <2>2. a \in Int /\ b \in Int /\ c \in Int /\ sent[d] \in Int
    BY <1>2
  <2>3. a = b /\ b = c
    BY <2>1, <2>2, EmptyInTurn
  <2>4. c = sent[d]
    BY <2>1, <2>2, EmptyInTurn
  <2> QED BY <2>3, <2>4
<1> QED BY <1>1, <1>4, <1>5, <1>7 DEF Parts, AllWritten

\* A receiver that reads leaves what was all written all written,
LEMMA ReadsAll ==
  ASSUME TypeInv, NEW d \in Dirs, PeerReads(d), NEW x \in Dirs
  PROVE  /\ (Ended(x))' => Ended(x)
         /\ AllWritten(x) /\ got[x] <= sent[x] => (AllWritten(x))' /\ got'[x] <= sent'[x]
<1>1. CASE x # d
  <2>1. outbox'[x] = outbox[x] /\ got'[x] = got[x] /\ sent'[x] = sent[x]
    BY <1>1 DEF PeerReads, TypeInv, TypeOK
  <2> QED BY <2>1 DEF Ended, AllWritten
<1>2. CASE x = d
  <2> DEFINE s == outbox[d]
  <2>1. /\ s # <<>> /\ outbox'[d] = Tail(s) /\ sent'[d] = sent[d]
        /\ got'[d] = IF Chunk(Head(s)) THEN Head(s) ELSE got[d]
        /\ s \in Seq(Items) /\ got[d] \in Nat /\ sent[d] \in Nat
    BY <1>2 DEF PeerReads, TypeInv, TypeOK
  <2>2. (Ended(d))' => Ended(d)
    <3>1. /\ Len(s) \in Nat /\ Len(Tail(s)) = Len(s) - 1
          /\ \A i \in 1 .. Len(s) - 1 : Tail(s)[i] = s[i + 1]
      BY <2>1, Dequeued
    <3>2. \A i \in 1 .. Len(Tail(s)) : i + 1 \in 1 .. Len(s) /\ Tail(s)[i] = s[i + 1]
      BY <3>1
    <3> QED BY <2>1, <3>2 DEF Ended
  <2>3. AllWritten(d) /\ got[d] <= sent[d] => (AllWritten(d))' /\ got'[d] <= sent'[d]
    BY <2>1, FirstInTurn, SignInTurn DEF AllWritten
  <2> QED BY <1>2, <2>2, <2>3
<1> QED BY <1>1, <1>2

\* and so does a sign that is written.
LEMMA WritesSign ==
  ASSUME NEW s \in Seq(Items), NEW last \in Seq(Items), \A i \in 1 .. Len(last) : ~Chunk(last[i]),
         NEW a \in Nat, NEW b \in Nat, a <= b, InTurn(s, a, b)
  PROVE  InTurn(s \o last, a, b)
<1>1. InTurn(last, b, b)
  BY NoChunks
<1> QED BY <1>1, JoinedInTurn

\* A step that changes nothing of what a peer of d sees keeps what was written.
LEMMA StaysWritten ==
  ASSUME NEW d, outbox'[d] = outbox[d], got'[d] = got[d], sent'[d] = sent[d]
  PROVE  (Ended(d))' = Ended(d) /\ (Written(d))' = Written(d)
  BY DEF Ended, Written, AllWritten

LEMMA EndInit == TypeInv /\ Init => EndInv
<1> SUFFICES ASSUME Init PROVE EndInv
  OBVIOUS
<1>1. \A d \in Dirs : ~Ended(d)
  BY DEF Init, Ended
<1> QED BY <1>1 DEF Init, EndInv, Dirs

\* Only an end that is read, or the last words, put End into a socket.
LEMMA NoNewEnd ==
  ASSUME TypeInv, NEW d \in Dirs, NEW items \in Seq(Items), Put(d, items),
         \A i \in 1 .. Len(items) : items[i] # End
  PROVE  (Ended(d))' => Ended(d)
<1>1. CASE outbox'[d] = outbox[d]
  BY <1>1 DEF Ended
<1>2. CASE outbox'[d] = outbox[d] \o items
  <2>1. /\ outbox[d] \in Seq(Items) /\ Len(outbox[d]) \in Nat /\ Len(items) \in Nat
        /\ Len(outbox'[d]) = Len(outbox[d]) + Len(items)
        /\ \A i \in 1 .. Len(outbox'[d]) :
             outbox'[d][i] = IF i <= Len(outbox[d]) THEN outbox[d][i] ELSE items[i - Len(outbox[d])]
    BY <1>2, Joined DEF TypeInv, TypeOK
  <2>2. ASSUME NEW i \in 1 .. Len(outbox'[d]), outbox'[d][i] = End
        PROVE  i \in 1 .. Len(outbox[d]) /\ outbox[d][i] = End
    <3>1. CASE i > Len(outbox[d])
      <4>1. i - Len(outbox[d]) \in 1 .. Len(items)
        BY <2>1, <3>1
      <4>2. items[i - Len(outbox[d])] # End
        BY <4>1
      <4>3. ~(i <= Len(outbox[d]))
        BY <2>1, <3>1
      <4> QED BY <2>1, <2>2, <4>2, <4>3
    <3> QED BY <2>1, <2>2, <3>1
  <2> QED BY <2>2 DEF Ended
<1> QED BY <1>1, <1>2, PutTyped DEF TypeInv

LEMMA EndPreserved == TypeInv /\ FlowInv /\ EndInv /\ [Next]_vars => EndInv'
<1> SUFFICES ASSUME TypeInv, FlowInv, EndInv, [Next]_vars PROVE EndInv'
  OBVIOUS
<1>1. "up" \in Dirs /\ "down" \in Dirs /\ Dirs = {"up", "down"}
  BY DEF Dirs
<1>2. /\ held \in [Dirs -> Seq(1 .. MaxChunks)] /\ outbox \in [Dirs -> Seq(Items)]
      /\ inbox \in [Dirs -> Seq(Items)] /\ copy \in [Dirs -> {"on", "done"}]
  BY DEF TypeInv, TypeOK
<1>3. /\ \A d \in Dirs : pc \notin {"copying", "over"} => copy[d] # "done"
      /\ pc # "over" => cause = "none"
      /\ pc # "over" /\ route = "gateway" => ~Ended("up")
      /\ pc = "copying" => route = "direct"
      /\ pc \in {"relaying", "sendingUp", "sendingDown", "ponging", "closing"} => route = "gateway"
  BY DEF TypeInv, PlaceInv, EndInv
\* Before the ends, the invariant says little.
<1>4. ASSUME pc' \notin {"closing", "copying", "over"}, TypeInv',
             route' = "gateway" => ~Ended("up")'
      PROVE  EndInv'
  BY <1>4 DEF EndInv, TypeInv, PlaceInv
<1>5. TypeInv'
  BY TypesPreserved, PlacesPreserved, PeersPreserved DEF TypeInv
<1>6. /\ <<>> \in Seq(Items) /\ (\A i \in 1 .. Len(<<>>) : <<>>[i] # End)
      /\ <<Success>> \in Seq(Items) /\ (\A i \in 1 .. Len(<<Success>>) : <<Success>>[i] # End)
      /\ <<Pong>> \in Seq(Items) /\ (\A i \in 1 .. Len(<<Pong>>) : <<Pong>>[i] # End)
  BY ChunksAreItems, Single, Nothing DEF Success, Pong, End
<1>7. /\ initial \in Seq(Items) /\ \A i \in 1 .. Len(initial) : initial[i] # End
      /\ \A d \in Dirs : held[d] \in Seq(Items) /\ \A i \in 1 .. Len(held[d]) : held[d][i] # End
  BY Wider DEF TypeInv, TypeOK, Chunk, End
<1>8. CASE UNCHANGED vars
  BY <1>8 DEF EndInv, Ended, Written, AllWritten, vars, handler, history
<1>9. CASE Starts
  <2>1. CASE (\E n \in 0 .. Len(inbox["up"]) : ReadRequest(n)) \/ Connects
    <3>1. pc \in {"reading", "connecting"} /\ outbox' = outbox /\ pc' \in {"connecting", "replying"}
      BY <2>1 DEF ReadRequest, Connects
    <3>2. outbox["up"] = <<>>
      BY <3>1, <1>1 DEF TypeInv, PlaceInv, PeerInv, Receiver
    <3>3. ~Ended("up")'
      BY <3>1, <3>2 DEF Ended
    <3> QED BY <1>4, <1>5, <3>1, <3>3
  <2>2. CASE ReplySuccess
    <3>1. (Ended("up"))' = Ended("up")
      BY <1>1, <1>2, <2>2 DEF ReplySuccess, Put, Ended
    <3> QED BY <1>3, <1>4, <1>5, <2>2, <3>1 DEF ReplySuccess
  <2>3. CASE SendInitial
    <3>1. (Ended("up"))' => Ended("up")
      BY <1>1, <1>7, <2>3, NoNewEnd DEF SendInitial
    <3>2. \A d \in Dirs : copy'[d] # "done"
      BY <1>3, <2>3 DEF SendInitial
    <3>3. pc' \in {"relaying", "copying"} /\ cause' = "none" /\ route' = route
      BY <1>3, <2>3 DEF SendInitial
    <3> QED BY <1>3, <2>3, <3>1, <3>2, <3>3 DEF EndInv, SendInitial
  <2> QED BY <1>9, <2>1, <2>2, <2>3 DEF Starts
<1>10. CASE Relays
  <2>1. CASE ReadClient \/ ReadFrame \/ ReadPing
    <3>1. outbox' = outbox /\ pc' \in {"sendingUp", "sendingDown", "ponging"} /\ pc = "relaying"
      BY <2>1 DEF ReadClient, ReadFrame, ReadPing, Relaying
    <3> QED BY <1>3, <1>4, <1>5, <3>1 DEF Ended
  <2>2. CASE SendUp \/ SendPong
    <3>1. (Ended("up"))' => Ended("up")
      BY <1>1, <1>6, <1>7, <2>2, NoNewEnd DEF SendUp, SendPong
    <3> QED BY <1>3, <1>4, <1>5, <2>2, <3>1 DEF SendUp, SendPong
  <2>3. CASE SendDown
    <3>1. (Ended("up"))' = Ended("up")
      BY <1>1, <1>2, <2>3 DEF SendDown, Put, Ended
    <3> QED BY <1>3, <1>4, <1>5, <2>3, <3>1 DEF SendDown
  <2>4. CASE ClientEnds
    <3>1. pc = "relaying" /\ pc' = "closing" /\ NextIs("up", End) /\ UNCHANGED <<outbox, side, got, sent, route, copy, cause>>
      BY <2>4 DEF ClientEnds, Relaying, history
    <3>2. held["up"] = <<>> /\ Begun("up") = <<>>
      BY <3>1 DEF TypeInv, PlaceInv, Begun
    <3>3. side["client"] = "closed"
      <4>1. inbox["up"] \in Seq(Items) /\ inbox["up"] # <<>> /\ inbox["up"][1] = End
        BY <1>1, <1>2, <3>1, Dequeued DEF NextIs
      <4>2. 1 \in 1 .. Len(inbox["up"])
        BY <4>1, EmptySeq
      <4> QED BY <1>1, <4>1, <4>2 DEF TypeInv, PeerInv, Source
    <3>4. side["target"] # "gone" => Written("up")
      <4>1. ASSUME side["target"] # "gone" PROVE Written("up")
        <5>1. Both
          BY <3>3, <4>1 DEF Both
        <5>2. AllWritten("up")
          BY <1>1, <3>1, <3>2, <5>1, AllWrittenAtEnd
        <5>3. got["up"] <= sent["up"]
          BY <1>1, <3>1, <5>1, SMTT(30) DEF FlowInv, FlowAt, Parts, TypeInv, TypeOK
        <5> QED BY <5>2, <5>3 DEF Written
      <4> QED BY <4>1
    <3>5. (Written("up"))' = Written("up") /\ (Ended("up"))' = Ended("up")
      BY <3>1, StaysWritten
    <3> QED BY <1>3, <3>1, <3>4, <3>5 DEF EndInv
  <2> QED BY <1>10, <2>1, <2>2, <2>3, <2>4 DEF Relays
<1>11. ASSUME NEW d \in Dirs, CopiesOn(d)
       PROVE  EndInv'
  <2>1. /\ pc = "copying" /\ pc' = "copying" /\ copy[d] = "on" /\ route' = "direct" /\ cause' = "none"
        /\ UNCHANGED <<side, got, sent>>
    BY <1>3, <1>11 DEF CopiesOn, CopyRead, CopyWrite, CopyEnd, Copying, history
  <2>2. \A x \in Dirs \ {d} : outbox'[x] = outbox[x] /\ copy'[x] = copy[x]
    BY <1>2, <1>11 DEF CopiesOn, CopyRead, CopyWrite, CopyEnd, Put
  <2>3. \A x \in Dirs \ {d} : copy'[x] = "done" /\ (Ended(x))' => (Written(x))'
    BY <2>1, <2>2, StaysWritten DEF EndInv
  <2>4. CASE CopyRead(d) \/ CopyWrite(d)
    <3>1. copy'[d] # "done"
      BY <2>1, <2>4 DEF CopyRead, CopyWrite
    <3> QED BY <2>1, <2>3, <3>1 DEF EndInv
  <2>5. CASE CopyEnd(d)
    <3>1. NextIs(d, End) /\ held[d] = <<>> /\ Put(d, <<End>>) /\ Begun(d) = <<>> /\ UNCHANGED side
      BY <2>1, <2>5 DEF CopyEnd, Begun, TypeInv, PlaceInv
    <3>2. side[Source(d)] = "closed"
      <4>1. inbox[d] \in Seq(Items) /\ inbox[d] # <<>> /\ inbox[d][1] = End
        BY <1>2, <3>1, Dequeued DEF NextIs
      <4>2. 1 \in 1 .. Len(inbox[d])
        BY <4>1, EmptySeq
      <4> QED BY <4>1, <4>2 DEF TypeInv, PeerInv
    <3>3. <<End>> \in Seq(Items) /\ \A i \in 1 .. Len(<<End>>) : ~Chunk(<<End>>[i])
      BY ChunksAreItems, Single
    <3>4. CASE side[Receiver(d)] = "gone"
      <4>1. outbox'[d] = <<>>
        BY <1>5, <3>1, <3>4 DEF TypeInv, PeerInv
      <4>2. ~Ended(d)'
        BY <4>1 DEF Ended
      <4> QED BY <2>1, <2>3, <4>2 DEF EndInv
    <3>5. CASE side[Receiver(d)] # "gone"
      <4>1. Both
        BY <3>2, <3>5 DEF Both, Receiver, Source, Dirs
      <4>2. AllWritten(d)
        BY <2>1, <3>1, <4>1, AllWrittenAtEnd
      <4>3. got[d] \in Nat /\ sent[d] \in Nat /\ got[d] <= sent[d]
        BY <2>1, <4>1 DEF FlowInv, FlowAt, Parts, TypeInv, TypeOK
      <4>4. outbox'[d] = outbox[d] \o <<End>>
        BY <1>2, <3>1, <3>5 DEF Put
      <4>5. InTurn(outbox[d] \o <<End>>, got[d], sent[d])
        BY <1>2, <3>3, <4>2, <4>3, WritesSign DEF AllWritten
      <4>6. (Written(d))'
        BY <2>1, <4>3, <4>4, <4>5 DEF Written, AllWritten
      <4> QED BY <2>1, <2>3, <4>6 DEF EndInv
    <3> QED BY <3>4, <3>5
  <2> QED BY <1>11, <2>4, <2>5 DEF CopiesOn
<1>12. CASE PeerMoves
  <2>1. CASE PeerPings
    <3>1. UNCHANGED <<pc, route, cause, copy, side>> /\ \A d \in Dirs : (Ended(d))' = Ended(d) /\ (Written(d))' = Written(d)
      BY <2>1, StaysWritten DEF PeerPings, handler, history
    <3> QED BY <1>1, <3>1 DEF EndInv
  <2>2. ASSUME NEW d \in Dirs, PeerSends(d)
        PROVE  EndInv'
    <3>1. UNCHANGED <<pc, route, cause, copy, side, outbox, got>> /\ pc # "over" /\ side[Source(d)] = "open"
      BY <2>2 DEF PeerSends, handler
    <3>2. \A x \in Dirs \ {d} : (Ended(x))' = Ended(x) /\ (Written(x))' = Written(x)
      BY <1>2, <2>2, StaysWritten DEF PeerSends, TypeInv, TypeOK
    <3>3. (Ended(d))' = Ended(d) /\ copy[d] # "done" /\ (pc = "closing" => d # "up")
      BY <3>1 DEF Ended, TypeInv, PeerInv, Source
    <3> QED BY <1>1, <1>3, <3>1, <3>2, <3>3 DEF EndInv
  <2>3. ASSUME NEW d \in Dirs, PeerCloses(d)
        PROVE  EndInv'
    <3>1. UNCHANGED <<pc, route, cause, copy>> /\ \A x \in Dirs : (Ended(x))' = Ended(x) /\ (Written(x))' = Written(x)
      BY <2>3, StaysWritten DEF PeerCloses, handler, history
    <3>2. side'["target"] # "gone" => side["target"] # "gone"
      BY <2>3 DEF PeerCloses, Source, TypeInv, TypeOK
    <3> QED BY <1>1, <3>1, <3>2 DEF EndInv
  <2>4. ASSUME NEW d \in Dirs, PeerReads(d)
        PROVE  EndInv'
    <3>1. UNCHANGED <<pc, route, cause, copy, side>>
      BY <2>4 DEF PeerReads, handler
    <3>2. \A x \in Dirs : ((Ended(x))' => Ended(x)) /\ (Written(x) => (Written(x))')
      BY <2>4, ReadsAll DEF Written
    <3> QED BY <1>1, <3>1, <3>2 DEF EndInv
  <2>5. ASSUME NEW d \in Dirs, PeerGone(d)
        PROVE  EndInv'
    <3>1. UNCHANGED <<pc, route, cause, copy, got, sent>>
      BY <2>5 DEF PeerGone, handler, history
    <3>2. Back(d) \in Dirs /\ outbox'[Back(d)] = <<>> /\ \A x \in Dirs \ {Back(d)} : outbox'[x] = outbox[x]
      BY <1>2, <2>5 DEF PeerGone, Back, Dirs
    <3>3. ~(Ended(Back(d)))'
      BY <3>2 DEF Ended
    <3>4. \A x \in Dirs \ {Back(d)} : (Ended(x))' = Ended(x) /\ (Written(x))' = Written(x)
      BY <3>1, <3>2, StaysWritten
    <3>5. side'["target"] # "gone" => side["target"] # "gone" /\ Back(d) # "up"
      BY <2>5 DEF PeerGone, Source, Back, TypeInv, TypeOK, Dirs
    <3> QED BY <1>1, <3>1, <3>3, <3>4, <3>5 DEF EndInv
  <2> QED BY <1>12, <2>1, <2>2, <2>3, <2>4, <2>5 DEF PeerMoves, Peer
<1>13. CASE Hangs
  <2>1. PICK why, to_client, to_target : Ends(why, to_client, to_target)
    BY <1>13, HangsAreEnds DEF TypeInv
  <2> DEFINE last(d) == IF d = "up" THEN to_target ELSE to_client
  <2>2. \A d \in Dirs : last(d) \in LastToClient \cup LastToTarget /\ outbox'[d] \in AfterDrop(d, last(d))
    BY <2>1, Hung DEF Ends, Dirs
  <2>3. UNCHANGED <<route, copy, side, sent, got>> /\ pc' = "over" /\ cause' = why /\ pc # "over"
    BY <2>1, Hung DEF Ends
  <2> HIDE DEF last
  \* Either nothing ends here, or what ends was all written before, or is now.
  <2>4. ASSUME NEW d \in Dirs, (Ended(d))'
        PROVE  /\ last(d) # <<>> /\ ~Ended(d) => side[Receiver(d)] \notin {"none", "gone"}
               /\ Written(d) => (Written(d))'
               /\ Ended(d) \/ End \in {last(d)[i] : i \in 1 .. Len(last(d))}
    <3>1. /\ last(d) \in Seq(Items) /\ \A i \in 1 .. Len(last(d)) : ~Chunk(last(d)[i])
          /\ \/ outbox'[d] = outbox[d]
             \/ outbox'[d] = outbox[d] \o last(d) /\ side[Receiver(d)] \notin {"none", "gone"}
             \/ outbox'[d] = <<Broken>>
      BY <2>2, LastWords DEF TypeInv
    <3>2. outbox'[d] # <<Broken>>
      BY <2>4 DEF Ended, Broken, End
    <3>3. CASE outbox'[d] = outbox[d]
      BY <2>3, <2>4, <3>3, StaysWritten
    <3>4. CASE outbox'[d] = outbox[d] \o last(d) /\ side[Receiver(d)] \notin {"none", "gone"}
      <4>1. Written(d) => (Written(d))'
        <5>1. /\ got[d] \in Nat /\ sent[d] \in Nat /\ got'[d] = got[d] /\ sent'[d] = sent[d]
              /\ outbox[d] \in Seq(Items)
          BY <1>2, <2>3 DEF TypeInv, TypeOK
        <5>2. got[d] <= sent[d] /\ InTurn(outbox[d], got[d], sent[d]) => InTurn(outbox[d] \o last(d), got[d], sent[d])
          BY <3>1, <5>1, WritesSign
        <5> QED BY <3>4, <5>1, <5>2 DEF Written, AllWritten
      <4>2. /\ Len(outbox[d]) \in Nat /\ Len(last(d)) \in Nat
            /\ Len(outbox'[d]) = Len(outbox[d]) + Len(last(d))
            /\ \A i \in 1 .. Len(outbox'[d]) :
                 outbox'[d][i] = IF i <= Len(outbox[d]) THEN outbox[d][i] ELSE last(d)[i - Len(outbox[d])]
        BY <1>2, <3>1, <3>4, Joined
      <4>3. PICK i \in 1 .. Len(outbox'[d]) : outbox'[d][i] = End
        BY <2>4 DEF Ended
      <4>4. CASE i <= Len(outbox[d])
        <5>1. Ended(d)
          BY <4>2, <4>3, <4>4 DEF Ended
        <5> QED BY <3>4, <4>1, <5>1
      <4>5. CASE i > Len(outbox[d])
        <5>1. i - Len(outbox[d]) \in 1 .. Len(last(d)) /\ last(d)[i - Len(outbox[d])] = End
          BY <4>2, <4>3, <4>5, SMTT(30)
        <5> QED BY <3>4, <4>1, <5>1
      <4> QED BY <4>2, <4>4, <4>5
    <3> QED BY <3>1, <3>2, <3>3, <3>4
  <2>5. \A d \in Dirs : End \in {last(d)[i] : i \in 1 .. Len(last(d))} => last(d) \in {<<End>>, <<Failure, End>>}
    <3>1. ASSUME NEW d \in Dirs, last(d) \in {<<>>, <<Broken>>}
          PROVE  End \notin {last(d)[i] : i \in 1 .. Len(last(d))}
      BY <3>1 DEF End, Broken
    <3> QED BY <2>2, <3>1 DEF LastToClient, LastToTarget
  <2>6. route = "gateway" /\ (Ended("up"))' => (Written("up"))'
    <3> SUFFICES ASSUME route = "gateway", (Ended("up"))' PROVE (Written("up"))'
      OBVIOUS
    <3>1. to_target = <<End>> /\ ~Ended("up") /\ side["target"] # "gone"
      BY <1>1, <1>3, <2>1, <2>3, <2>4, <2>5 DEF last, Ends, LastToTarget, Receiver
    <3>2. pc = "closing"
      BY <2>1, <3>1 DEF Ends
    <3> QED BY <1>1, <2>4, <3>1, <3>2 DEF EndInv
  <2>7. why = "target" /\ (Ended("down"))' => (Written("down"))'
    <3> SUFFICES ASSUME why = "target", (Ended("down"))' PROVE (Written("down"))'
      OBVIOUS
    <3>1. pc = "relaying" /\ NextIs("down", End)
      BY <2>1 DEF Ends
    <3>2. held["down"] = <<>> /\ Begun("down") = <<>>
      BY <3>1 DEF TypeInv, PlaceInv, Begun
    <3>3. CASE side["client"] = "gone"
      <4>1. outbox'["down"] = <<>>
        BY <1>1, <1>5, <2>3, <3>3 DEF TypeInv, PeerInv, Receiver
      <4> QED BY <4>1 DEF Ended
    <3>4. CASE side["client"] # "gone"
      <4>1. side["target"] = "closed"
        <5>1. inbox["down"] \in Seq(Items) /\ inbox["down"] # <<>> /\ inbox["down"][1] = End
          BY <1>1, <1>2, <3>1, Dequeued DEF NextIs
        <5>2. 1 \in 1 .. Len(inbox["down"])
          BY <5>1, EmptySeq
        <5> QED BY <1>1, <5>1, <5>2 DEF TypeInv, PeerInv, Source
      <4>2. Both
        BY <3>4, <4>1 DEF Both
      <4>3. AllWritten("down") /\ got["down"] <= sent["down"]
        BY <1>1, <3>1, <3>2, <4>2, AllWrittenAtEnd, SMTT(30) DEF FlowInv, FlowAt, Parts, TypeInv, TypeOK
      <4> QED BY <1>1, <2>4, <4>3 DEF Written
    <3> QED BY <3>3, <3>4
  <2>8. ASSUME NEW d \in Dirs, copy[d] = "done", (Ended(d))'
        PROVE  (Written(d))'
    <3>1. last(d) \notin {<<End>>, <<Failure, End>>}
      <4>1. CASE d = "down"
        BY <2>1, <2>8, <4>1 DEF last, Ends
      <4>2. CASE d = "up"
        <5>1. to_target # <<End>>
          BY <1>3, <2>1, <2>8, <4>2 DEF Ends
        <5> QED BY <2>1, <4>2, <5>1 DEF last, Ends, LastToTarget
      <4> QED BY <1>1, <4>1, <4>2
    <3>2. Ended(d)
      BY <2>4, <2>5, <2>8, <3>1
    <3> QED BY <2>4, <2>8, <3>2 DEF EndInv
  <2> QED BY <2>3, <2>6, <2>7, <2>8 DEF EndInv
<1> QED BY <1>8, <1>9, <1>10, <1>11, <1>12, <1>13, Steps

LEMMA EndIsLast == EndInv => EndComesLast
  BY DEF EndInv, EndComesLast, Written

-----------------------------------------------------------------------------
(* The reply comes first.                                                  *)

LEMMA ReplyInit == TypeInv /\ Init => ReplyInv
<1> SUFFICES ASSUME Init PROVE ReplyInv
  OBVIOUS
<1>1. outbox["up"] = <<>> /\ outbox["down"] = <<>> /\ got["down"] = 0 /\ reply = "none" /\ pc = "reading"
  BY DEF Init, Dirs
<1>2. ReplyComesFirst
  BY <1>1 DEF ReplyComesFirst
<1> QED BY <1>1, <1>2 DEF ReplyInv, NoReply, NoChunk, Holds, Early

\* The handler goes from before the reply to behind it, and to its end.
OnwardOnly ==
  /\ pc' \in Early => pc \in Early
  /\ pc' \notin Early \cup {"over"} => pc \notin Early \cup {"over"}
  /\ side'["client"] # "gone" => side["client"] # "gone"
  /\ style' = style

\* What the client sees may stay as it is,
LEMMA ReplyStays ==
  ASSUME ReplyInv, OnwardOnly, NoReply(outbox'["up"]),
         outbox'["down"] = outbox["down"], got'["down"] = got["down"], reply' = reply
  PROVE  ReplyInv'
<1>1. ReplyComesFirst'
  BY DEF ReplyInv, OnwardOnly, ReplyComesFirst, IsBefore
<1>2. (Holds(Failure))' = Holds(Failure) /\ (Holds(Success))' = Holds(Success)
  BY DEF Holds
<1> QED BY <1>1, <1>2 DEF ReplyInv, OnwardOnly, NoReply, NoChunk

\* or lose all of it when the client goes,
LEMMA ReplyLost ==
  ASSUME ReplyInv, OnwardOnly, NoReply(outbox'["up"]), outbox'["down"] = <<>>,
         pc' = "over" \/ side'["client"] = "gone", got'["down"] = got["down"], reply' = reply
  PROVE  ReplyInv'
<1>1. ReplyComesFirst' /\ ~(Holds(Failure))'
  BY DEF ReplyComesFirst, Holds
<1> QED BY <1>1 DEF ReplyInv, OnwardOnly, NoReply

\* or grow by what is no reply, once the reply is behind.
LEMMA ReplyPrecedes ==
  ASSUME TypeInv, ReplyInv, OnwardOnly, NoReply(outbox'["up"]), pc' \notin Early,
         NEW items \in Seq(Items), outbox'["down"] = outbox["down"] \o items, NoReply(items),
         NoChunk(items) \/ (pc \notin Early \cup {"over"} /\ side["client"] # "gone"),
         got'["down"] = got["down"], reply' = reply
  PROVE  ReplyInv'
<1> DEFINE s == outbox["down"]
           t == outbox'["down"]
<1>1. /\ s \in Seq(Items) /\ Len(s) \in Nat /\ Len(items) \in Nat /\ Len(t) = Len(s) + Len(items)
      /\ \A i \in 1 .. Len(s) : i \in 1 .. Len(t) /\ t[i] = s[i]
      /\ \A i \in 1 .. Len(t) : i \in 1 .. Len(s) \/ (i > Len(s) /\ i - Len(s) \in 1 .. Len(items)
                                                       /\ t[i] = items[i - Len(s)])
  <2>1. s \in Seq(Items)
    BY DEF TypeInv, TypeOK, Dirs
  <2>2. Len(s) \in Nat /\ Len(items) \in Nat /\ t = s \o items
    BY <2>1
  <2> HIDE DEF s, t
  <2> QED BY <2>1, <2>2, Joined
<1> HIDE DEF s, t
<1>2. \A i \in 1 .. Len(t) : t[i] \in {Success, Failure} => i \in 1 .. Len(s) /\ s[i] = t[i]
  BY <1>1 DEF NoReply
<1>3. \A item \in {Success, Failure} : (Holds(item))' <=> Holds(item)
  BY <1>1, <1>2 DEF Holds, s, t
<1>4. NoChunk(items) \/ ~Holds(Failure)
  BY DEF ReplyInv
<1>5. (Holds(Failure))' => NoChunk(t)
  <2> SUFFICES ASSUME Holds(Failure) PROVE NoChunk(t)
    BY <1>3
  <2>1. NoChunk(s) /\ NoChunk(items)
    BY <1>4 DEF ReplyInv, s
  <2> QED BY <1>1, <2>1 DEF NoChunk
<1>6. \A i \in 1 .. Len(s) : Chunk(s[i]) =>
        reply # "failure" /\ (style = "plain" \/ reply = "success" \/ \E j \in 1 .. i - 1 : s[j] = Success)
  BY DEF ReplyInv, ReplyComesFirst, IsBefore, s
<1>7. ASSUME NEW i \in 1 .. Len(t), Chunk(t[i])
      PROVE  reply # "failure" /\ (style = "plain" \/ reply = "success" \/ \E j \in 1 .. i - 1 : t[j] = Success)
  <2>1. CASE i \in 1 .. Len(s)
    <3>1. \A j \in 1 .. i - 1 : t[j] = s[j]
      BY <1>1, <2>1
    <3>2. Chunk(s[i])
      BY <1>1, <1>7, <2>1
    <3> QED BY <1>6, <2>1, <3>1, <3>2
  <2>2. CASE i > Len(s) /\ i - Len(s) \in 1 .. Len(items) /\ t[i] = items[i - Len(s)]
    <3>1. pc \notin Early \cup {"over"} /\ side["client"] # "gone"
      BY <1>7, <2>2 DEF NoChunk
    <3>2. reply # "failure" /\ (style = "plain" \/ reply = "success" \/ Holds(Success))
      BY <3>1 DEF ReplyInv
    <3>3. Holds(Success) => \E j \in 1 .. i - 1 : t[j] = Success
      <4> SUFFICES ASSUME NEW j \in 1 .. Len(s), s[j] = Success PROVE \E k \in 1 .. i - 1 : t[k] = Success
        BY DEF Holds, s
      <4>1. j \in 1 .. i - 1 /\ t[j] = Success
        BY <1>1, <2>2
      <4> QED BY <4>1
    <3> QED BY <3>2, <3>3
  <2> QED BY <1>1, <2>1, <2>2
<1>8. ReplyComesFirst'
  <2>1. \A i \in 1 .. Len(t) : t[i] \in {Success, Failure} => reply = "none" /\ got["down"] = 0 /\ i = 1
    BY <1>2 DEF ReplyInv, ReplyComesFirst, s
  <2>2. reply' = reply /\ got'["down"] = got["down"] /\ style' = style
    BY DEF OnwardOnly
  <2> QED BY <1>7, <2>1, <2>2 DEF ReplyComesFirst, IsBefore, t
<1> QED BY <1>3, <1>5, <1>8 DEF ReplyInv, OnwardOnly, NoReply, t

\* What the client reads leaves the rest in its place.
LEMMA ReplyRead ==
  ASSUME TypeInv, ReplyInv, PeerReads("down")
  PROVE  ReplyInv'
<1> DEFINE s == outbox["down"]
           t == outbox'["down"]
<1>1. /\ s \in Seq(Items) /\ s # <<>> /\ t = Tail(s) /\ outbox'["up"] = outbox["up"]
      /\ reply' = IF s[1] = Success THEN "success" ELSE IF s[1] = Failure THEN "failure" ELSE reply
      /\ got'["down"] = IF Chunk(s[1]) THEN s[1] ELSE got["down"]
      /\ UNCHANGED <<pc, style, side>>
  <2>1. s \in Seq(Items) /\ s # <<>>
    BY DEF PeerReads, TypeInv, TypeOK, Dirs
  <2>2. Head(s) = s[1]
    <3> HIDE DEF s
    <3> QED BY <2>1, Dequeued
  <2> QED BY <2>1, <2>2 DEF PeerReads, TypeInv, TypeOK, Dirs, handler
<1> HIDE DEF s, t
<1>2. /\ Len(s) \in Nat /\ Len(s) > 0 /\ Len(t) = Len(s) - 1 /\ 1 \in 1 .. Len(s)
      /\ \A i \in 1 .. Len(t) : i + 1 \in 1 .. Len(s) /\ i + 1 # 1 /\ t[i] = s[i + 1]
  <2>1. Len(s) \in Nat
    BY <1>1
  <2> QED BY <1>1, <2>1, Dequeued
<1>3. pc \notin Early
  BY <1>1 DEF ReplyInv, s
<1>4. \A i \in 1 .. Len(s) : s[i] \in {Success, Failure} => reply = "none" /\ got["down"] = 0 /\ i = 1
  BY DEF ReplyInv, ReplyComesFirst, s
<1>5. NoReply(t)
  BY <1>2, <1>4 DEF NoReply
<1>6. /\ Holds(Success) => s[1] = Success
      /\ Holds(Failure) <=> s[1] = Failure
      /\ ~(Holds(Success))' /\ ~(Holds(Failure))'
  BY <1>2, <1>4, <1>5 DEF Holds, NoReply, s, t
<1>7. pc \notin Early \cup {"over"} => reply' # "failure"
  BY <1>1, <1>6 DEF ReplyInv
<1>8. pc \notin Early \cup {"over"} /\ style # "plain" /\ side["client"] # "gone" => reply' = "success"
  BY <1>1, <1>6 DEF ReplyInv
<1>9. ASSUME NEW i \in 1 .. Len(t), Chunk(t[i])
      PROVE  reply' # "failure" /\ (style = "plain" \/ reply' = "success")
  <2>1. i + 1 \in 1 .. Len(s) /\ Chunk(s[i + 1])
    BY <1>2, <1>9
  <2>2. s[1] # Failure
    BY <1>6, <2>1 DEF ReplyInv, NoChunk, s
  <2>3. reply # "failure" /\ (style = "plain" \/ reply = "success" \/ \E j \in 1 .. (i + 1) - 1 : s[j] = Success)
    BY <2>1 DEF ReplyInv, ReplyComesFirst, IsBefore, s
  <2>4. (\E j \in 1 .. (i + 1) - 1 : s[j] = Success) => s[1] = Success
    <3> SUFFICES ASSUME NEW j \in 1 .. (i + 1) - 1, s[j] = Success PROVE s[1] = Success
      OBVIOUS
    <3>1. j \in 1 .. Len(s)
      BY <1>2, <2>1
    <3> QED BY <1>4, <3>1
  <2> QED BY <1>1, <2>2, <2>3, <2>4
<1>10. ReplyComesFirst'
  BY <1>1, <1>5, <1>9 DEF ReplyComesFirst, NoReply, t
<1> QED BY <1>1, <1>3, <1>6, <1>7, <1>8, <1>10 DEF ReplyInv

\* Upwards, there is no reply at all.
LEMMA NoReplyItems ==
  /\ NoReply(<<>>) /\ NoReply(<<End>>) /\ NoReply(<<Broken>>) /\ NoReply(<<Pong>>)
  /\ NoChunk(<<>>) /\ NoChunk(<<End>>) /\ NoChunk(<<Broken>>)
  /\ <<>> \in Seq(Items) /\ <<End>> \in Seq(Items) /\ <<Broken>> \in Seq(Items) /\ <<Pong>> \in Seq(Items)
<1>1. \A item \in {End, Broken, Pong} : item \notin {Success, Failure} /\ item \in Items
  BY ChunksAreItems DEF End, Broken, Pong, Success, Failure
<1> QED BY <1>1, Single, ChunksAreItems DEF NoReply, NoChunk

LEMMA ChunksNoReply ==
  ASSUME NEW s \in Seq(1 .. MaxChunks)
  PROVE  s \in Seq(Items) /\ NoReply(s)
<1>1. \A i \in 1 .. Len(s) : s[i] \in 1 .. MaxChunks
  BY Wider
<1> QED BY <1>1, Wider DEF NoReply, Success, Failure

LEMMA JoinedNoReply ==
  ASSUME NEW s \in Seq(Items), NEW t \in Seq(Items), NoReply(s), NoReply(t)
  PROVE  NoReply(s \o t)
<1>1. /\ Len(s) \in Nat /\ Len(t) \in Nat /\ Len(s \o t) = Len(s) + Len(t)
      /\ \A i \in 1 .. Len(s \o t) : (s \o t)[i] = IF i <= Len(s) THEN s[i] ELSE t[i - Len(s)]
  BY Joined
<1> DEFINE u == s \o t
<1>2. Len(u) = Len(s) + Len(t) /\ \A i \in 1 .. Len(u) : u[i] = IF i <= Len(s) THEN s[i] ELSE t[i - Len(s)]
  BY <1>1
<1> HIDE DEF u
<1>3. ASSUME NEW i \in 1 .. Len(u) PROVE u[i] \notin {Success, Failure}
  <2>1. CASE i <= Len(s)
    BY <1>1, <1>2, <2>1 DEF NoReply
  <2>2. CASE ~(i <= Len(s))
    <3>1. i - Len(s) \in 1 .. Len(t)
      BY <1>1, <1>2, <2>2
    <3> QED BY <1>2, <2>2, <3>1 DEF NoReply
  <2> QED BY <2>1, <2>2
<1>4. NoReply(u)
  BY <1>3 DEF NoReply
<1> QED BY <1>4 DEF u

LEMMA PutNoReply ==
  ASSUME TypeInv, ReplyInv, NEW items \in Seq(Items), Put("up", items), NoReply(items)
  PROVE  NoReply(outbox'["up"]) /\ outbox'["down"] = outbox["down"]
<1>1. /\ outbox["up"] \in Seq(Items) /\ outbox'["down"] = outbox["down"]
      /\ outbox'["up"] = IF side[Receiver("up")] = "gone" THEN outbox["up"] ELSE outbox["up"] \o items
  BY PutTyped DEF TypeInv, TypeOK, Dirs
<1> QED BY <1>1, JoinedNoReply DEF ReplyInv

LEMMA ReplyPreserved == TypeInv /\ ReplyInv /\ [Next]_vars => ReplyInv'
<1> SUFFICES ASSUME TypeInv, ReplyInv, [Next]_vars PROVE ReplyInv'
  OBVIOUS
<1>1. /\ initial \in Seq(Items) /\ NoReply(initial)
      /\ \A d \in Dirs : held[d] \in Seq(Items) /\ NoReply(held[d])
  BY ChunksNoReply DEF TypeInv, TypeOK
<1>2. /\ Dirs = {"up", "down"} /\ NoReply(outbox["up"])
      /\ outbox["up"] \in Seq(Items) /\ outbox["down"] \in Seq(Items)
  BY DEF TypeInv, TypeOK, ReplyInv, Dirs
\* A write to the client, once the reply is behind.
<1>3. ASSUME NEW items \in Seq(Items), Put("down", items), NoReply(items),
             pc \notin Early \cup {"over"}, pc' \notin Early \cup {"over"},
             UNCHANGED <<style, side, got, reply>>
      PROVE  ReplyInv'
  <2>1. OnwardOnly
    BY <1>3 DEF OnwardOnly
  <2>2. /\ outbox'["up"] = outbox["up"]
        /\ outbox'["down"] = IF side["client"] = "gone" THEN outbox["down"] ELSE outbox["down"] \o items
    BY <1>3, PutTyped DEF TypeInv, Dirs, Receiver
  <2>3. CASE side["client"] = "gone"
    BY <1>2, <1>3, <2>1, <2>2, <2>3, ReplyStays
  <2>4. CASE side["client"] # "gone"
    BY <1>2, <1>3, <2>1, <2>2, <2>4, ReplyPrecedes
  <2> QED BY <2>3, <2>4
\* A write to the target, or none.
<1>4. ASSUME NoReply(outbox'["up"]), outbox'["down"] = outbox["down"], OnwardOnly,
             UNCHANGED <<got, reply>>
      PROVE  ReplyInv'
  BY <1>4, ReplyStays
<1>5. CASE UNCHANGED vars
  <2>1. OnwardOnly
    BY <1>5 DEF OnwardOnly, vars, handler
  <2> QED BY <1>2, <1>4, <1>5, <2>1 DEF vars, history
<1>6. CASE Starts
  <2>1. CASE (\E n \in 0 .. Len(inbox["up"]) : ReadRequest(n)) \/ Connects
    <3>1. UNCHANGED <<outbox, got, reply>>
      BY <2>1 DEF ReadRequest, Connects, history
    <3>2. OnwardOnly
      BY <2>1 DEF ReadRequest, Connects, OnwardOnly, Early, TypeInv, TypeOK
    <3> QED BY <1>2, <1>4, <3>1, <3>2
  <2>2. CASE ReplySuccess
    <3> DEFINE items == IF style = "plain" THEN <<>> ELSE <<Success>>
    <3>1. /\ pc = "replying" /\ pc' = "starting" /\ Put("down", items)
          /\ UNCHANGED <<style, side, got, reply>>
      BY <2>2 DEF ReplySuccess, history
    <3>2. outbox["down"] = <<>> /\ got["down"] = 0 /\ reply = "none"
      BY <3>1 DEF ReplyInv, Early
    <3>3. /\ items \in Seq(Items) /\ <<>> \o items = items
          /\ Success \in Items /\ ~Chunk(Success) /\ Success # Failure
      BY Single, Nothing, ChunksAreItems DEF Success, Failure
    <3>4. /\ outbox'["up"] = outbox["up"]
          /\ outbox'["down"] = IF side["client"] = "gone" THEN <<>> ELSE items
      BY <3>1, <3>2, <3>3, PutTyped DEF TypeInv, Dirs, Receiver
    <3>5. CASE outbox'["down"] = <<>> /\ (style = "plain" \/ side["client"] = "gone")
      <4>1. ReplyComesFirst' /\ ~(Holds(Failure))'
        BY <3>5 DEF ReplyComesFirst, Holds
      <4> QED BY <1>2, <3>1, <3>2, <3>4, <3>5, <4>1 DEF ReplyInv, Early
    <3>6. CASE outbox'["down"] = <<Success>>
      <4>1. Len(outbox'["down"]) = 1 /\ outbox'["down"][1] = Success
        BY <3>3, <3>6, Single
      <4>2. ReplyComesFirst' /\ ~(Holds(Failure))' /\ (Holds(Success))'
        BY <3>1, <3>2, <3>3, <4>1 DEF ReplyComesFirst, Holds
      <4> QED BY <1>2, <3>1, <3>2, <3>4, <4>2 DEF ReplyInv, Early
    <3> QED BY <3>4, <3>5, <3>6
  <2>3. CASE SendInitial
    <3>1. NoReply(outbox'["up"]) /\ outbox'["down"] = outbox["down"]
      BY <1>1, <2>3, PutNoReply DEF SendInitial
    <3>2. OnwardOnly /\ UNCHANGED <<got, reply>>
      BY <2>3 DEF SendInitial, OnwardOnly, Early, history
    <3> QED BY <1>4, <3>1, <3>2
  <2> QED BY <1>6, <2>1, <2>2, <2>3 DEF Starts
<1>7. CASE Relays
  <2>1. OnwardOnly /\ UNCHANGED <<style, side, got, reply>>
        /\ pc \notin Early \cup {"over"} /\ pc' \notin Early \cup {"over"}
    BY <1>7 DEF Relays, Relaying, ReadClient, SendUp, ClientEnds, ReadFrame, SendDown, ReadPing,
                SendPong, OnwardOnly, Early, history
  <2>2. CASE ReadClient \/ ClientEnds \/ ReadFrame \/ ReadPing
    <3>1. outbox' = outbox
      BY <2>2 DEF ReadClient, ClientEnds, ReadFrame, ReadPing
    <3> QED BY <1>2, <1>4, <2>1, <3>1
  <2>3. CASE SendUp \/ SendPong
    <3>1. NoReply(outbox'["up"]) /\ outbox'["down"] = outbox["down"]
      BY <1>1, <1>2, <2>3, PutNoReply, NoReplyItems DEF SendUp, SendPong
    <3> QED BY <1>4, <2>1, <3>1
  <2>4. CASE SendDown
    BY <1>1, <1>2, <1>3, <2>1, <2>4 DEF SendDown
  <2> QED BY <1>7, <2>2, <2>3, <2>4 DEF Relays
<1>8. ASSUME NEW d \in Dirs, CopiesOn(d)
      PROVE  ReplyInv'
  <2>1. OnwardOnly /\ UNCHANGED <<style, side, got, reply>>
        /\ pc \notin Early \cup {"over"} /\ pc' \notin Early \cup {"over"}
    BY <1>8 DEF CopiesOn, CopyRead, CopyWrite, CopyEnd, Copying, OnwardOnly, Early, history
  <2>2. CASE CopyRead(d)
    BY <1>2, <1>4, <2>1, <2>2 DEF CopyRead
  <2>3. ASSUME NEW items \in Seq(Items), Put(d, items), NoReply(items)
        PROVE  ReplyInv'
    <3>1. CASE d = "up"
      <4>1. NoReply(outbox'["up"]) /\ outbox'["down"] = outbox["down"]
        BY <2>3, <3>1, PutNoReply
      <4> QED BY <1>4, <2>1, <4>1
    <3>2. CASE d = "down"
      BY <1>3, <2>1, <2>3, <3>2
    <3> QED BY <1>2, <3>1, <3>2
  <2> QED BY <1>1, <1>8, <2>2, <2>3, NoReplyItems DEF CopiesOn, CopyWrite, CopyEnd
<1>9. CASE PeerMoves
  <2>1. CASE PeerPings \/ \E d \in Dirs : PeerSends(d) \/ PeerCloses(d)
    <3>1. UNCHANGED <<outbox, got, reply>> \/ (outbox' = outbox /\ got'["down"] = got["down"] /\ reply' = reply)
      BY <2>1 DEF PeerPings, PeerSends, PeerCloses, history
    <3>2. OnwardOnly
      BY <2>1 DEF PeerPings, PeerSends, PeerCloses, OnwardOnly, handler, TypeInv, TypeOK, Source
    <3> QED BY <1>2, <3>1, <3>2, ReplyStays
  <2>2. CASE PeerReads("down")
    BY <2>2, ReplyRead
  <2>3. CASE PeerReads("up")
    <3>1. /\ outbox["up"] # <<>> /\ outbox'["up"] = Tail(outbox["up"]) /\ outbox'["down"] = outbox["down"]
          /\ got'["down"] = got["down"] /\ OnwardOnly
      BY <2>3 DEF PeerReads, TypeInv, TypeOK, Dirs, OnwardOnly, handler
    <3>2. Head(outbox["up"]) \notin {Success, Failure} /\ NoReply(Tail(outbox["up"]))
      <4> DEFINE s == outbox["up"]
      <4>1. s \in Seq(Items) /\ s # <<>> /\ NoReply(s)
        BY <1>2, <3>1
      <4> HIDE DEF s
      <4>2. /\ Len(s) \in Nat /\ Len(s) > 0 /\ Head(s) = s[1] /\ Len(Tail(s)) = Len(s) - 1
            /\ \A i \in 1 .. Len(s) - 1 : Tail(s)[i] = s[i + 1]
        BY <4>1, Dequeued
      <4>3. Head(s) \notin {Success, Failure} /\ NoReply(Tail(s))
        <5>1. 1 \in 1 .. Len(s) /\ \A i \in 1 .. Len(s) - 1 : i + 1 \in 1 .. Len(s)
          BY <4>2
        <5> QED BY <4>1, <4>2, <5>1 DEF NoReply
      <4> QED BY <4>3 DEF s
    <3>3. reply' = reply
      BY <2>3, <3>2 DEF PeerReads
    <3> QED BY <3>1, <3>2, <3>3, ReplyStays
  <2>4. ASSUME NEW d \in Dirs, PeerGone(d)
        PROVE  ReplyInv'
    <3>1. OnwardOnly /\ UNCHANGED <<pc, got, reply>>
      BY <2>4 DEF PeerGone, OnwardOnly, handler, history, TypeInv, TypeOK, Source
    <3>2. CASE d = "up"
      <4>1. outbox'["down"] = <<>> /\ outbox'["up"] = outbox["up"] /\ side'["client"] = "gone"
        BY <2>4, <3>2, <1>2 DEF PeerGone, Back, Source, TypeInv, TypeOK
      <4> QED BY <1>2, <3>1, <4>1, ReplyLost
    <3>3. CASE d = "down"
      <4>1. outbox'["up"] = <<>> /\ outbox'["down"] = outbox["down"]
        BY <2>4, <3>3, <1>2 DEF PeerGone, Back, TypeInv, TypeOK
      <4> QED BY <1>4, <3>1, <4>1, NoReplyItems
    <3> QED BY <1>2, <3>2, <3>3
  <2> QED BY <1>2, <1>9, <2>1, <2>2, <2>3, <2>4 DEF PeerMoves, Peer
<1>10. CASE Hangs
  <2>1. PICK why, to_client, to_target : Ends(why, to_client, to_target)
    BY <1>10, HangsAreEnds DEF TypeInv
  <2>2. pc' = "over" /\ pc # "over" /\ UNCHANGED <<style, side, got, reply>> /\ OnwardOnly
    BY <2>1, Hung DEF Ends, OnwardOnly, Early
  <2>3. to_client \in LastToClient /\ to_target \in LastToTarget
        /\ outbox'["up"] \in AfterDrop("up", to_target)
        /\ outbox'["down"] \in AfterDrop("down", to_client)
    BY <2>1, Hung DEF Ends
  <2>4. /\ to_target \in Seq(Items) /\ to_client \in Seq(Items) /\ NoChunk(to_client)
        /\ outbox'["up"] \in {outbox["up"], outbox["up"] \o to_target, <<Broken>>}
        /\ outbox'["down"] \in {outbox["down"], outbox["down"] \o to_client, <<Broken>>}
    BY <1>2, <2>3, LastWords DEF TypeInv, NoChunk
  <2>5. NoReply(outbox'["up"])
    <3>1. NoReply(to_target)
      BY <2>3, NoReplyItems DEF LastToTarget
    <3> QED BY <1>2, <2>4, <3>1, JoinedNoReply, NoReplyItems
  <2>6. CASE outbox'["down"] = outbox["down"]
    BY <1>4, <2>2, <2>5, <2>6
  <2>7. CASE outbox'["down"] = <<Broken>>
    <3>1. NoReply(outbox'["down"]) /\ NoChunk(outbox'["down"])
      BY <2>7, NoReplyItems
    <3>2. ReplyComesFirst' /\ ~(Holds(Failure))'
      BY <3>1 DEF ReplyComesFirst, Holds, NoReply, NoChunk
    <3> QED BY <2>2, <2>5, <3>2 DEF ReplyInv, Early
  <2>8. CASE outbox'["down"] = outbox["down"] \o to_client /\ to_client # <<Failure, End>>
    <3>1. NoReply(to_client)
      BY <2>3, <2>8, NoReplyItems DEF LastToClient
    <3>2. pc' \notin Early
      BY <2>2 DEF Early
    <3> QED BY <2>2, <2>4, <2>5, <2>8, <3>1, <3>2, ReplyPrecedes
  <2>9. CASE outbox'["down"] = outbox["down"] \o to_client /\ to_client = <<Failure, End>>
    <3>1. outbox["down"] = <<>> /\ got["down"] = 0 /\ reply = "none"
      BY <2>1, <2>9 DEF Ends, ReplyInv, Early
    <3>2. outbox'["down"] = <<Failure, End>>
      BY <2>4, <2>9, <3>1
    <3>3. Failure \notin {Success, End} /\ End # Success /\ ~Chunk(Failure) /\ ~Chunk(End)
      BY ChunksAreItems DEF Failure, Success, End
    <3>4. Len(outbox'["down"]) = 2 /\ outbox'["down"][1] = Failure /\ outbox'["down"][2] = End
      BY <3>2
    <3>5. 1 .. 2 = {1, 2}
      OBVIOUS
    <3>6. ReplyComesFirst' /\ NoChunk(outbox'["down"])
      BY <2>2, <3>1, <3>3, <3>4, <3>5 DEF ReplyComesFirst, NoChunk
    <3> QED BY <2>2, <2>5, <3>6 DEF ReplyInv, Early
  <2> QED BY <2>4, <2>6, <2>7, <2>8, <2>9
<1> QED BY <1>5, <1>6, <1>7, <1>8, <1>9, <1>10, Steps

\* A client that waits for a reply gets it before any byte of the target, once and
\* never after a failure, and an orderly end on either side stands behind every
\* byte that was sent there (write_success, write_failure, and the two relays).
THEOREM BytesAreFramed == Spec => []Framed
<1> DEFINE Inv == TypeInv /\ FlowInv /\ EndInv /\ ReplyInv
<1>1. Init => Inv
  BY InitTypes, FlowInit, EndInit, ReplyInit
<1>2. Inv /\ [Next]_vars => Inv'
  BY TypesPreserved, PlacesPreserved, PeersPreserved, FlowPreserved, EndPreserved, ReplyPreserved DEF TypeInv
<1>3. Inv => Framed
  BY EndIsLast DEF Framed, ReplyInv
<1> QED BY <1>1, <1>2, <1>3, PTL DEF Spec

=============================================================================
