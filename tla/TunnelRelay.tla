----------------------------- MODULE TunnelRelay -----------------------------
(***************************************************************************)
(* One TCP connection of a client of ws2tcp-local-core (tunnel.rs), from   *)
(* its request to its end: handle_client and handle_socks_client, then     *)
(* handle_gateway with the relay `proxy`, or handle_direct with tokio's    *)
(* copy_bidirectional.                                                     *)
(*                                                                         *)
(* Bytes travel "up" from the client to the target (behind the gateway, or *)
(* reached directly) and "down" back, in chunks numbered per direction.    *)
(* inbox[d] is what the handler has still to read of direction d, outbox[d]*)
(* what it wrote and the receiver has still to read; either holds Window   *)
(* items before a writer has to wait. Besides chunks they carry the signs  *)
(* End (end of stream, or a websocket Close), Broken (a reset, or a        *)
(* websocket that ends without Close), Ping, Pong, and the replies to the  *)
(* client's request.                                                       *)
(***************************************************************************)
EXTENDS Integers, Sequences

CONSTANTS
  Window,     \* items a socket takes before its writer waits
  MaxChunks   \* bound: chunks in each direction

ASSUME ConstantsAssumption == Window \in Nat \ {0} /\ MaxChunks \in Nat \ {0}

Dirs == {"up", "down"}
Source(d)   == IF d = "up" THEN "client" ELSE "target"
Receiver(d) == IF d = "up" THEN "target" ELSE "client"
Back(d)     == IF d = "up" THEN "down" ELSE "up"

End == 0
Broken == -1
Ping == -2
Pong == -3
Success == -4
Failure == -5

Chunk(item) == item > 0
HoldsChunk(items) == \E i \in 1 .. Len(items) : Chunk(items[i])

VARIABLES
  style,     \* ReplyStyle: connect, plain or socks
  route,     \* gateway or direct, once decided
  pc,        \* where the handler is
  initial,   \* initial_client_bytes
  held,      \* the chunk read and not yet written, in each direction
  copy,      \* copy_bidirectional: whether a direction goes on or is done
  side,      \* each peer: none, open, closed (sends no more) or gone
  inbox,
  outbox

\* History, read by the properties only.
VARIABLES
  sent,      \* chunks each source has sent
  got,       \* the last chunk each receiver got
  reply,     \* the reply the client got
  cause      \* why the handler ended

handler == <<style, route, pc, initial, held, copy, cause>>
history == <<sent, got, reply>>
vars    == <<handler, side, inbox, outbox, history>>

Room(d) == side[Receiver(d)] = "gone" \/ Len(outbox[d]) < Window

\* What is written to a peer that has gone is lost.
Put(d, items) ==
  outbox' = [outbox EXCEPT ![d] = IF side[Receiver(d)] = "gone" THEN @ ELSE @ \o items]

Take(d) == inbox' = [inbox EXCEPT ![d] = Tail(@)]
NextIs(d, item) == inbox[d] # <<>> /\ Head(inbox[d]) = item
NextIsChunk(d) == inbox[d] # <<>> /\ Chunk(Head(inbox[d]))

-----------------------------------------------------------------------------
(* The end of the handler.                                                 *)

\* The sockets are dropped after `last` was written to them. A kernel that still
\* holds bytes nobody read resets the connection, and what it was to send may be
\* lost.
AfterDrop(d, last) ==
  IF side[Receiver(d)] \in {"none", "gone"} THEN {outbox[d]}
  ELSE {outbox[d] \o last}
         \cup IF HoldsChunk(inbox[Back(d)]) THEN {<<Broken>>} ELSE {}

\* What a target sees of an upward stream that is just dropped.
Dropped ==
  IF route = "gateway" THEN <<Broken>> ELSE IF copy["up"] = "done" THEN <<>> ELSE <<End>>

HangUp(why, to_client, to_target) ==
  /\ pc' = "over"
  /\ cause' = why
  /\ initial' = <<>>
  /\ held' = [d \in Dirs |-> <<>>]
  /\ \E u \in AfterDrop("up", to_target), w \in AfterDrop("down", to_client) :
       outbox' = [d \in Dirs |-> IF d = "up" THEN u ELSE w]
  /\ UNCHANGED <<style, route, copy, side, inbox, history>>

-----------------------------------------------------------------------------
(* The request and its reply.                                              *)

\* The request is read and the routing rules looked up. Reading an HTTP head
\* takes along what came with it, and an ordinary request is itself the first
\* chunk for the target; SOCKS5 reads its request only.
ReadRequest(n) ==
  /\ pc = "reading"
  /\ \A i \in 1 .. n : Chunk(inbox["up"][i])
  /\ style = "socks" => n = 0
  /\ style = "plain" => n > 0
  /\ initial' = SubSeq(inbox["up"], 1, n)
  /\ inbox' = [inbox EXCEPT !["up"] = SubSeq(@, n + 1, Len(@))]
  /\ route' \in {"gateway", "direct"}
  /\ pc' = "connecting"
  /\ UNCHANGED <<style, held, copy, side, outbox, history, cause>>

\* It is malformed, or breaks off.
RequestFails == pc = "reading" /\ HangUp("error", <<Failure, End>>, <<>>)

ConnectFails == pc = "connecting" /\ HangUp("error", <<Failure, End>>, <<>>)

Connects ==
  /\ pc = "connecting"
  /\ pc' = "replying"
  /\ side' = [side EXCEPT !["target"] = "open"]
  /\ UNCHANGED <<style, route, initial, held, copy, inbox, outbox, history, cause>>

\* write_success. An ordinary HTTP request has no reply of its own.
ReplySuccess ==
  /\ pc = "replying"
  /\ Put("down", IF style = "plain" THEN <<>> ELSE <<Success>>)
  /\ pc' = "starting"
  /\ UNCHANGED <<style, route, initial, held, copy, side, inbox, history, cause>>

ReplyFails ==
  /\ pc = "replying" /\ style # "plain" /\ side["client"] = "gone"
  /\ HangUp("error", <<End>>, Dropped)

\* The bytes that came with the request go first.
SendInitial ==
  /\ pc = "starting"
  /\ initial # <<>> => Room("up")
  /\ Put("up", initial)
  /\ initial' = <<>>
  /\ pc' = IF route = "gateway" THEN "relaying" ELSE "copying"
  /\ UNCHANGED <<style, route, held, copy, side, inbox, history, cause>>

-----------------------------------------------------------------------------
(* proxy: a select! on the client and the websocket. What was read is      *)
(* written inside the branch, and nothing else is looked at meanwhile.     *)

Relaying == pc = "relaying"

\* Mutant: a read chunk is written by a future that a frame from the gateway
\* cancels.
ReadClient_Cancelled ==
  /\ Relaying /\ NextIsChunk("up")
  /\ Take("up")
  /\ IF inbox["down"] = <<>>
       THEN held' = [held EXCEPT !["up"] = <<Head(inbox["up"])>>] /\ pc' = "sendingUp"
       ELSE UNCHANGED <<held, pc>>
  /\ UNCHANGED <<style, route, initial, copy, side, outbox, history, cause>>

ReadClient ==
  /\ Relaying /\ NextIsChunk("up")
  /\ Take("up")
  /\ held' = [held EXCEPT !["up"] = <<Head(inbox["up"])>>]
  /\ pc' = "sendingUp"
  /\ UNCHANGED <<style, route, initial, copy, side, outbox, history, cause>>

SendUp ==
  /\ pc = "sendingUp" /\ Room("up")
  /\ Put("up", held["up"])
  /\ held' = [held EXCEPT !["up"] = <<>>]
  /\ pc' = "relaying"
  /\ UNCHANGED <<style, route, initial, copy, side, inbox, history, cause>>

\* The client sends no more: the websocket is closed, and the relay ends.
ClientEnds ==
  /\ Relaying /\ NextIs("up", End)
  /\ Take("up")
  /\ pc' = "closing"
  /\ UNCHANGED <<style, route, initial, held, copy, side, outbox, history, cause>>

\* Mutant: the Close waits for the target to close as well.
SendClose_WaitsForTarget ==
  pc = "closing" /\ Room("up") /\ side["target"] # "open" /\ HangUp("client", <<End>>, <<End>>)

SendClose == pc = "closing" /\ Room("up") /\ HangUp("client", <<End>>, <<End>>)

\* Mutant: a broken client connection is reported as an orderly end.
ClientBreaks_Close == Relaying /\ NextIs("up", Broken) /\ HangUp("error", <<End>>, <<End>>)

ClientBreaks == Relaying /\ NextIs("up", Broken) /\ HangUp("error", <<End>>, Dropped)

ReadFrame ==
  /\ Relaying /\ NextIsChunk("down")
  /\ Take("down")
  /\ held' = [held EXCEPT !["down"] = <<Head(inbox["down"])>>]
  /\ pc' = "sendingDown"
  /\ UNCHANGED <<style, route, initial, copy, side, outbox, history, cause>>

SendDown ==
  /\ pc = "sendingDown" /\ Room("down")
  /\ Put("down", held["down"])
  /\ held' = [held EXCEPT !["down"] = <<>>]
  /\ pc' = "relaying"
  /\ UNCHANGED <<style, route, initial, copy, side, inbox, history, cause>>

\* Other control frames are skipped.
ReadPing ==
  /\ Relaying /\ NextIs("down", Ping)
  /\ Take("down")
  /\ pc' = "ponging"
  /\ UNCHANGED <<style, route, initial, held, copy, side, outbox, history, cause>>

SendPong ==
  /\ pc = "ponging" /\ Room("up")
  /\ Put("up", <<Pong>>)
  /\ pc' = "relaying"
  /\ UNCHANGED <<style, route, initial, held, copy, side, inbox, history, cause>>

\* A Close, or the end of the websocket: the client's side is shut down.
TargetEnds == Relaying /\ NextIs("down", End) /\ HangUp("target", <<End>>, Dropped)

TargetBreaks == Relaying /\ NextIs("down", Broken) /\ HangUp("error", <<End>>, Dropped)

\* Writing fails, the peer having gone.
WriteFails ==
  /\ \/ pc \in {"sendingUp", "ponging"} /\ side["target"] = "gone"
     \/ pc = "starting" /\ initial # <<>> /\ side["target"] = "gone"
     \/ pc = "sendingDown" /\ side["client"] = "gone"
  /\ HangUp("error", <<End>>, Dropped)

-----------------------------------------------------------------------------
(* copy_bidirectional of tokio: each direction on its own, until both have *)
(* seen the end of their stream, or one fails.                             *)

Copying(d) == pc = "copying" /\ copy[d] = "on"

CopyRead(d) ==
  /\ Copying(d) /\ held[d] = <<>> /\ NextIsChunk(d)
  /\ Take(d)
  /\ held' = [held EXCEPT ![d] = <<Head(inbox[d])>>]
  /\ UNCHANGED <<style, route, pc, initial, copy, side, outbox, history, cause>>

CopyWrite(d) ==
  /\ Copying(d) /\ held[d] # <<>> /\ Room(d)
  /\ Put(d, held[d])
  /\ held' = [held EXCEPT ![d] = <<>>]
  /\ UNCHANGED <<style, route, pc, initial, copy, side, inbox, history, cause>>

\* The other side is shut down for writing.
CopyEnd(d) ==
  /\ Copying(d) /\ held[d] = <<>> /\ NextIs(d, End)
  /\ Take(d)
  /\ Put(d, <<End>>)
  /\ copy' = [copy EXCEPT ![d] = "done"]
  /\ UNCHANGED <<style, route, pc, initial, held, side, history, cause>>

CopyFails(d) ==
  /\ Copying(d)
  /\ NextIs(d, Broken) \/ (held[d] # <<>> /\ side[Receiver(d)] = "gone")
  /\ HangUp("error", IF copy["down"] = "done" THEN <<>> ELSE <<End>>, Dropped)

CopyDone ==
  /\ pc = "copying" /\ \A d \in Dirs : copy[d] = "done"
  /\ HangUp("both", <<>>, <<>>)

-----------------------------------------------------------------------------
(* The peers.                                                              *)

PeerSends(d) ==
  /\ side[Source(d)] = "open" /\ pc # "over"
  /\ sent[d] < MaxChunks /\ Len(inbox[d]) < Window
  /\ sent' = [sent EXCEPT ![d] = @ + 1]
  /\ inbox' = [inbox EXCEPT ![d] = Append(@, sent[d] + 1)]
  /\ UNCHANGED <<handler, side, outbox, got, reply>>

\* A gateway that has not yet closed pings.
PeerPings ==
  /\ side["target"] = "open" /\ pc # "over" /\ route = "gateway"
  /\ Len(inbox["down"]) < Window
  /\ inbox' = [inbox EXCEPT !["down"] = Append(@, Ping)]
  /\ UNCHANGED <<handler, side, outbox, history>>

PeerCloses(d) ==
  /\ side[Source(d)] = "open" /\ pc # "over"
  /\ side' = [side EXCEPT ![Source(d)] = "closed"]
  /\ inbox' = [inbox EXCEPT ![d] = Append(@, End)]
  /\ UNCHANGED <<handler, outbox, history>>

PeerReads(d) ==
  /\ outbox[d] # <<>>
  /\ LET item == Head(outbox[d])
     IN  /\ got' = IF Chunk(item) THEN [got EXCEPT ![d] = item] ELSE got
         /\ reply' = IF item = Success THEN "success"
                     ELSE IF item = Failure THEN "failure" ELSE reply
  /\ outbox' = [outbox EXCEPT ![d] = Tail(@)]
  /\ UNCHANGED <<handler, side, inbox, sent>>

\* A peer resets its connection: nothing of what is under way is of use.
PeerGone(d) ==
  /\ side[Source(d)] \in {"open", "closed"} /\ pc # "over"
  /\ side' = [side EXCEPT ![Source(d)] = "gone"]
  /\ inbox' = [inbox EXCEPT ![d] = <<Broken>>]
  /\ outbox' = [outbox EXCEPT ![Back(d)] = <<>>]
  /\ UNCHANGED <<handler, history>>

-----------------------------------------------------------------------------
\* The head of an ordinary HTTP request is the first chunk.
Init ==
  /\ style \in {"connect", "plain", "socks"}
  /\ route = "none" /\ pc = "reading" /\ initial = <<>> /\ cause = "none"
  /\ held = [d \in Dirs |-> <<>>]
  /\ copy = [d \in Dirs |-> "on"]
  /\ side = [p \in {"client", "target"} |-> IF p = "client" THEN "open" ELSE "none"]
  /\ sent = [d \in Dirs |-> IF d = "up" /\ style = "plain" THEN 1 ELSE 0]
  /\ inbox = [d \in Dirs |-> IF sent[d] = 1 THEN <<1>> ELSE <<>>]
  /\ outbox = [d \in Dirs |-> <<>>]
  /\ got = [d \in Dirs |-> 0]
  /\ reply = "none"

Branches ==
  \/ ReadClient \/ ClientEnds \/ ClientBreaks
  \/ ReadFrame \/ ReadPing \/ TargetEnds \/ TargetBreaks

Writes == SendInitial \/ SendUp \/ SendDown \/ SendPong \/ SendClose \/ WriteFails

Copies(d) == CopyRead(d) \/ CopyWrite(d) \/ CopyEnd(d) \/ CopyFails(d)

Peer(d) == PeerSends(d) \/ PeerCloses(d) \/ PeerReads(d) \/ PeerGone(d)

Next ==
  \/ \E n \in 0 .. Len(inbox["up"]) : ReadRequest(n)
  \/ RequestFails \/ ConnectFails \/ Connects \/ ReplySuccess \/ ReplyFails
  \/ Branches \/ Writes
  \/ \E d \in Dirs : Copies(d) \/ Peer(d)
  \/ CopyDone \/ PeerPings

Spec == Init /\ [][Next]_vars

\* The relay writes when it can, and select! polls its branches in random order,
\* so that the end of the client's stream, or a frame of the gateway, is read in
\* the end however much comes from the other side. Both peers read; nothing makes
\* them send or close, nor the connection to the target come about.
Fairness ==
  /\ WF_vars(ReplySuccess \/ ReplyFails) /\ WF_vars(Writes) /\ WF_vars(CopyDone)
  /\ SF_vars(ReadClient \/ ClientEnds \/ ClientBreaks)
  /\ SF_vars(ReadFrame \/ ReadPing \/ TargetEnds \/ TargetBreaks)
  /\ \A d \in Dirs : WF_vars(Copies(d)) /\ WF_vars(PeerReads(d))

FairSpec == Spec /\ Fairness

-----------------------------------------------------------------------------
(* Properties.                                                             *)

Items == Broken .. MaxChunks \cup {Ping, Pong, Success, Failure}

\* Types. The relay holds at most one chunk of each direction.
TypeOK ==
  /\ style \in {"connect", "plain", "socks"}
  /\ route \in {"none", "gateway", "direct"}
  /\ pc \in {"reading", "connecting", "replying", "starting", "relaying", "sendingUp",
             "sendingDown", "ponging", "closing", "copying", "over"}
  /\ initial \in Seq(1 .. MaxChunks)
  /\ held \in [Dirs -> Seq(1 .. MaxChunks)] /\ \A d \in Dirs : Len(held[d]) <= 1
  /\ copy \in [Dirs -> {"on", "done"}]
  /\ inbox \in [Dirs -> Seq(Items)] /\ outbox \in [Dirs -> Seq(Items)]
  /\ sent \in [Dirs -> 0 .. MaxChunks] /\ got \in [Dirs -> 0 .. MaxChunks]
  /\ side \in [{"client", "target"} -> {"none", "open", "closed", "gone"}]
  /\ side["client"] # "none"
  /\ reply \in {"none", "success", "failure"}
  /\ cause \in {"none", "client", "target", "both", "error"}

\* The chunks among items are a + 1 .. b, each once and in this order.
InTurn(items, a, b) ==
  /\ \A i \in 1 .. Len(items) : Chunk(items[i]) => a < items[i] /\ items[i] <= b
  /\ \A i, j \in 1 .. Len(items) :
       i < j /\ Chunk(items[i]) /\ Chunk(items[j]) => items[i] < items[j]
  /\ \A n \in a + 1 .. b : \E i \in 1 .. Len(items) : items[i] = n

\* What is under way in direction d, the first to arrive first.
Path(d) ==
  IF pc = "over" THEN outbox[d]
  ELSE outbox[d] \o held[d] \o (IF d = "up" THEN initial ELSE <<>>) \o inbox[d]

\* Between two peers that are there, every chunk is under way in its place, the
\* bytes that came with the request before all others: none is lost, doubled or
\* overtaken by the branches of select!, and the end of the handler cuts off the
\* last ones at most.
Whole ==
  \A d \in Dirs :
    side["client"] # "gone" /\ side["target"] # "gone" =>
      \E n \in got[d] .. sent[d] : InTurn(Path(d), got[d], n) /\ (pc # "over" => n = sent[d])

Ended(d) == \E i \in 1 .. Len(outbox[d]) : outbox[d][i] = End

\* All that was sent has been received or is in the receiver's socket.
AllWritten(d) == InTurn(outbox[d], got[d], sent[d])

\* The gateway is told of an orderly end only after everything the client sent,
\* and so is the client when the gateway closed; a direct target and its client
\* are when they are shut down for writing. (To the client, a tunnel that breaks
\* looks like an orderly end, 822: `cause` excludes that.)
EndComesLast ==
  /\ route = "gateway" /\ Ended("up") => AllWritten("up")
  /\ cause = "target" /\ Ended("down") => AllWritten("down")
  /\ \A d \in Dirs : copy[d] = "done" /\ Ended(d) => AllWritten(d)

\* The client's view: what it got, then what it is about to get.
IsBefore(item, i) == \E j \in 1 .. i - 1 : outbox["down"][j] = item

\* A client that waits for a reply gets it before any byte of the target, and a
\* client whose connection failed gets neither bytes nor a success (ReplyStyle).
ReplyComesFirst ==
  \A i \in 1 .. Len(outbox["down"]) :
    /\ Chunk(outbox["down"][i]) =>
         reply # "failure" /\ (style = "plain" \/ reply = "success" \/ IsBefore(Success, i))
    /\ outbox["down"][i] \in {Success, Failure} =>
         reply = "none" /\ got["down"] = 0 /\ i = 1

\* The bytes of a tunnel stand between the reply and the end, on both sides.
Framed == ReplyComesFirst /\ EndComesLast

\* What a peer sends on a connection that came about arrives, as long as the
\* receiver is there and nothing fails. What `proxy` loses is what comes down after
\* the client ended its stream, since it ends with it (794-797), and whatever is
\* on its way when a socket is dropped that holds bytes nobody read. The direct
\* route loses nothing.
Delivered ==
  \A d \in Dirs : \A n \in 1 .. MaxChunks :
    pc \notin {"reading", "connecting"} /\ sent[d] >= n
      ~> \/ got[d] >= n \/ cause = "error"
         \/ \E p \in {"client", "target"} : side[p] = "gone"
         \/ route = "gateway" /\ side[Receiver(d)] = "closed"
         \/ route = "gateway" /\ pc = "over" /\ HoldsChunk(inbox[Back(d)])

\* A handler whose peers read ends: with the first peer that ends on the gateway
\* route, with the second on the direct one.
HandlerEnds ==
  /\ pc \notin {"reading", "connecting"}
  /\ \/ \A p \in {"client", "target"} : side[p] # "open"
     \/ route = "gateway" /\ \E p \in {"client", "target"} : side[p] # "open"
  ~> pc = "over"
=============================================================================
