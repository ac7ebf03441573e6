------------------------- MODULE UdpAssociateProofs -------------------------
(***************************************************************************)
(* Theorems about UdpAssociate, for any destinations and peers, any        *)
(* capacity of the channels and any timeout: an association answers to one *)
(* client, channels keep within their capacity, and no destination is sent *)
(* a datagram twice or out of order.                                       *)
(***************************************************************************)
EXTENDS UdpAssociate, TLAPS

Ids == 1 .. MaxDatagrams

Sending(d) == loop = "sending" /\ pending.dest = d

\* A task that has not begun or has ended holds nothing; the loop waits only for
\* a task it started.
QueueInv ==
  /\ \A d \in Dests : task[d] \in {"none", "ended"} => channel[d] = <<>>
  /\ loop = "sending" =>
       pending.dest \in Dests /\ pending.id \in Ids /\ task[pending.dest] # "none"

\* Each datagram is lost once at most, the one the loop waits with not yet.
LostInv == \A d \in Dests : IF Sending(d) THEN lost[d] < arrived ELSE lost[d] <= arrived

TypeInv == TypeOK /\ QueueInv /\ LostInv

\* Tasks exist only once there is a client.
PinnedInv == \A d \in Dests : task[d] # "none" => client_addr # NoPeer

\* What destination d was sent, what is queued for it and what the loop waits to
\* queue are in the order of arrival.
InOrderAt(d) ==
  /\ last_out[d] <= arrived
  /\ \A i \in 1 .. Len(channel[d]) : last_out[d] < channel[d][i] /\ channel[d][i] <= arrived
  /\ \A i, j \in 1 .. Len(channel[d]) : i < j => channel[d][i] < channel[d][j]
  /\ Sending(d) =>
       /\ last_out[d] < pending.id /\ pending.id <= arrived
       /\ \A i \in 1 .. Len(channel[d]) : channel[d][i] < pending.id

OrderInv == \A d \in Dests : InOrderAt(d)

LEMMA Bounds ==
  /\ NoPeer \notin Peers
  /\ Capacity \in Nat /\ Capacity > 0 /\ IdleTimeout \in Nat /\ IdleTimeout > 0
  /\ MaxDatagrams \in Nat
  BY ConstantsAssumption

\* What Append and Tail do to a queue.
LEMMA Appended ==
  ASSUME NEW s \in Seq(Ids), NEW e \in Ids
  PROVE  /\ Append(s, e) \in Seq(Ids) /\ Len(Append(s, e)) = Len(s) + 1
         /\ Append(s, e)[Len(s) + 1] = e
         /\ \A i \in 1 .. Len(s) : Append(s, e)[i] = s[i]
  BY Bounds DEF Ids

LEMMA Dequeued ==
  ASSUME NEW s \in Seq(Ids), s # <<>>
  PROVE  /\ Len(s) > 0 /\ Head(s) = s[1] /\ Head(s) \in Ids
         /\ Tail(s) \in Seq(Ids) /\ Len(Tail(s)) = Len(s) - 1
         /\ \A i \in 1 .. Len(s) - 1 : Tail(s)[i] = s[i + 1]
  BY Bounds DEF Ids

LEMMA Empty == <<>> \in Seq(Ids) /\ Len(<<>>) = 0
  OBVIOUS

-----------------------------------------------------------------------------
(* Steps, by what they change.                                             *)

\* The loop stops or waits on, perhaps with its client known, or the client closes.
LoopOnly ==
  /\ loop' \in {loop, "over"} /\ quiet' \in {quiet, 0} /\ control' \in BOOLEAN
  /\ client_addr' = client_addr \/ (client_addr = NoPeer /\ client_addr' \in Peers)
  /\ UNCHANGED <<pending, targets, arrived, history>>

\* A task goes on with its channel as it is,
Proceeds(d) ==
  /\ task[d] \in Alive
  /\ task' = task \/ \E state \in Alive : Becomes(d, state)
  /\ target_quiet' = target_quiet \/ target_quiet' = [target_quiet EXCEPT ![d] = 0]
  /\ silent' \in {silent, 0}
  /\ UNCHANGED <<association, control, channel, reply_to, arrived, lost, last_out>>

\* or ends.
Ends(d) ==
  /\ task[d] \in Alive
  /\ End(d)
  /\ UNCHANGED <<association, control, reply_to, arrived, history>>

LEMMA Steps ==
  ASSUME TypeOK, Next
  PROVE  \/ LoopOnly \/ SendEnds \/ Tick
         \/ \E from \in Peers, d \in Dests : ToKnownTarget(from, d) \/ ToNewTarget(from, d)
         \/ \E d \in Dests : Proceeds(d) \/ Ends(d) \/ Forward(d)
  <1>1. CASE ControlClosed \/ ControlByte \/ IdleAssociation \/ ReceiveFails \/ CloseControl
    BY <1>1 DEF TypeOK, LoopOnly, ControlClosed, ControlByte, IdleAssociation, ReceiveFails,
                CloseControl, association
  <1>2. ASSUME NEW from \in Peers, Ignored(from) \/ Malformed(from)
        PROVE  LoopOnly
    BY <1>2 DEF TypeOK, LoopOnly, Ignored, Malformed, Pinned
  <1>3. ASSUME NEW d \in Dests, TargetStep(d)
        PROVE  Proceeds(d) \/ Ends(d) \/ Forward(d)
    <2>1. CASE Ready(d) \/ Reply(d) \/ ControlFrame(d) \/ IdleTarget(d)
      BY <2>1 DEF Ready, Reply, ControlFrame, IdleTarget, Proceeds, Alive, history
    <2>2. CASE NotReady(d) \/ Breaks(d) \/ Closed(d) \/ InboundClosed(d)
      BY <2>2 DEF NotReady, Breaks, Closed, InboundClosed, Ends, Alive
    <2> QED
      BY <1>3, <2>1, <2>2 DEF TargetStep
  <1> QED
    BY <1>1, <1>2, <1>3 DEF Next, Receives

-----------------------------------------------------------------------------
(* Types.                                                                  *)

LEMMA TypeInit == Init => TypeInv
  <1> SUFFICES ASSUME Init PROVE TypeInv
    OBVIOUS
  <1>1. TypeOK
    BY Bounds, Empty DEF Init, TypeOK, NoDatagram, Alive, Ids
  <1>2. QueueInv /\ LostInv
    BY DEF Init, QueueInv, LostInv, Sending
  <1> QED
    BY <1>1, <1>2 DEF TypeInv

\* The queue of one destination grows by one.
LEMMA Pushed ==
  ASSUME TypeOK, NEW d \in Dests, NEW id \in Ids, Push(d, id), Len(channel[d]) < Capacity
  PROVE  /\ channel' \in [Dests -> Seq(Ids)]
         /\ \A x \in Dests : Len(channel'[x]) <= Capacity
         /\ channel'[d] = Append(channel[d], id)
         /\ \A x \in Dests \ {d} : channel'[x] = channel[x]
  <1>1. channel[d] \in Seq(Ids)
    BY DEF TypeOK, Ids
  <1>2. Append(channel[d], id) \in Seq(Ids) /\ Len(Append(channel[d], id)) = Len(channel[d]) + 1
    BY <1>1, Appended
  <1>3. Len(channel[d]) + 1 <= Capacity
    BY <1>1, Bounds
  <1>4. channel' = [channel EXCEPT ![d] = Append(channel[d], id)]
    BY DEF Push
  <1> QED
    BY <1>2, <1>3, <1>4 DEF TypeOK, Ids

LEMMA TypeLoop ==
  ASSUME TypeInv, LoopOnly
  PROVE  TypeInv'
  <1> USE DEF TypeInv, targets, history
  <1>1. TypeOK'
    BY Bounds DEF LoopOnly, TypeOK
  <1>2. QueueInv'
    BY DEF LoopOnly, QueueInv
  <1>3. LostInv'
    BY DEF LoopOnly, LostInv, Sending, TypeOK
  <1> QED
    BY <1>1, <1>2, <1>3

LEMMA TypeKnown ==
  ASSUME TypeInv, NEW from \in Peers, NEW d \in Dests, ToKnownTarget(from, d)
  PROVE  TypeInv'
  <1> USE DEF TypeInv
  <1>1. arrived' = arrived + 1 /\ arrived' \in Ids /\ loop = "selecting"
    BY Bounds DEF ToKnownTarget, TypeOK, Ids
  <1>2. /\ client_addr' \in Peers /\ quiet' = 0 /\ silent' = 0
        /\ UNCHANGED <<control, task, reply_to, target_quiet, last_out>>
    BY DEF ToKnownTarget, Pinned
  <1>3. /\ last_out' \in [Dests -> 0 .. MaxDatagrams] /\ arrived' \in 0 .. MaxDatagrams
        /\ quiet' \in 0 .. IdleTimeout /\ silent' \in 0 .. IdleTimeout
    BY <1>1, <1>2, Bounds DEF TypeOK, Ids
  <1>4. CASE /\ task[d] \in Alive /\ Len(channel[d]) < Capacity
             /\ Push(d, arrived + 1) /\ UNCHANGED <<loop, pending, lost>>
    <2>1. /\ channel' \in [Dests -> Seq(Ids)] /\ \A x \in Dests : Len(channel'[x]) <= Capacity
          /\ \A x \in Dests \ {d} : channel'[x] = channel[x]
      BY <1>1, <1>4, Pushed
    <2>2. TypeOK'
      BY <1>2, <1>3, <1>4, <2>1 DEF TypeOK, Ids
    <2>3. QueueInv'
      BY <1>1, <1>2, <1>4, <2>1 DEF QueueInv, Alive
    <2>4. LostInv'
      BY <1>1, <1>4 DEF LostInv, Sending, TypeOK
    <2> QED
      BY <2>2, <2>3, <2>4
  <1>5. CASE /\ task[d] = "ended" /\ lost' = [lost EXCEPT ![d] = @ + 1]
             /\ UNCHANGED <<loop, pending, channel>>
    <2>1. /\ lost'[d] = lost[d] + 1 /\ \A x \in Dests \ {d} : lost'[x] = lost[x]
          /\ \A x \in Dests : lost[x] \in 0 .. MaxDatagrams
      BY <1>5 DEF TypeOK
    <2>2. \A x \in Dests : lost[x] <= arrived /\ ~Sending(x) /\ ~Sending(x)'
      BY <1>1, <1>5 DEF LostInv, Sending
    <2>3. arrived \in Nat
      BY Bounds DEF TypeOK
    <2>4. \A x \in Dests : lost'[x] <= arrived' /\ lost'[x] \in 0 .. MaxDatagrams
      BY <1>1, <2>1, <2>2, <2>3, Bounds DEF Ids
    <2>5. LostInv'
      BY <2>2, <2>4 DEF LostInv
    <2>6. TypeOK'
      BY <1>2, <1>3, <1>5, <2>4 DEF TypeOK
    <2>7. QueueInv'
      BY <1>1, <1>2, <1>5 DEF QueueInv
    <2> QED
      BY <2>5, <2>6, <2>7
  <1>6. CASE /\ task[d] \in Alive /\ loop' = "sending"
             /\ pending' = [dest |-> d, id |-> arrived + 1] /\ UNCHANGED <<channel, lost>>
    <2>1. pending' \in [dest : Dests \cup {"none"}, id : 0 .. MaxDatagrams]
      BY <1>1, <1>6 DEF Ids
    <2>2. TypeOK'
      BY <1>2, <1>3, <1>6, <2>1 DEF TypeOK
    <2>3. QueueInv'
      BY <1>1, <1>2, <1>6 DEF QueueInv, Alive
    <2>4. LostInv'
      BY <1>1, <1>6 DEF LostInv, Sending, TypeOK
    <2> QED
      BY <2>2, <2>3, <2>4
  <1> QED
    BY <1>4, <1>5, <1>6 DEF ToKnownTarget

LEMMA TypeNew ==
  ASSUME TypeInv, NEW from \in Peers, NEW d \in Dests, ToNewTarget(from, d)
  PROVE  TypeInv'
  <1> USE DEF TypeInv
  <1>1. arrived' = arrived + 1 /\ arrived' \in Ids /\ loop' = "selecting" /\ loop = "selecting"
    BY Bounds DEF ToNewTarget, TypeOK, Ids
  <1>2. Len(channel[d]) < Capacity
    BY Bounds, Empty DEF ToNewTarget, QueueInv
  <1>3. /\ channel' \in [Dests -> Seq(Ids)] /\ \A x \in Dests : Len(channel'[x]) <= Capacity
        /\ \A x \in Dests \ {d} : channel'[x] = channel[x]
    BY <1>1, <1>2, Pushed DEF ToNewTarget
  <1>4. /\ task' \in [Dests -> Alive \cup {"none", "ended"}] /\ task'[d] = "connecting"
        /\ \A x \in Dests \ {d} : task'[x] = task[x]
    BY DEF ToNewTarget, Becomes, TypeOK, Alive
  <1>5. TypeOK'
    <2>1. /\ reply_to' \in [Dests -> Peers \cup {NoPeer}] /\ client_addr' \in Peers
          /\ quiet' = 0 /\ silent' = 0
          /\ UNCHANGED <<pending, control, target_quiet, lost, last_out>>
      BY DEF ToNewTarget, Pinned, TypeOK
    <2>2. arrived' \in 0 .. MaxDatagrams /\ 0 \in 0 .. IdleTimeout
      BY <1>1, Bounds DEF Ids
    <2> QED
      BY <1>1, <1>3, <1>4, <2>1, <2>2 DEF TypeOK, Ids
  <1>6. QueueInv'
    BY <1>1, <1>3, <1>4 DEF QueueInv
  <1>7. LostInv'
    BY <1>1 DEF ToNewTarget, LostInv, Sending, TypeOK
  <1> QED
    BY <1>5, <1>6, <1>7

LEMMA TypeSend ==
  ASSUME TypeInv, SendEnds
  PROVE  TypeInv'
  <1> USE DEF TypeInv
  <1> DEFINE d == pending.dest
  <1>1. d \in Dests /\ Sending(d) /\ loop' = "selecting"
    BY DEF SendEnds, QueueInv, Sending
  <1>2. UNCHANGED <<client_addr, quiet, control, task, reply_to, target_quiet, arrived, last_out,
                    silent>>
    BY DEF SendEnds
  <1>3. pending' \in [dest : Dests \cup {"none"}, id : 0 .. MaxDatagrams]
    BY Bounds DEF SendEnds, NoDatagram
  <1> HIDE DEF d
  <1>4. CASE task[d] \in Alive /\ Len(channel[d]) < Capacity /\ Push(d, pending.id) /\ lost' = lost
    <2>1. pending.id \in Ids
      BY <1>1 DEF QueueInv, Sending
    <2>2. /\ channel' \in [Dests -> Seq(Ids)]
          /\ \A x \in Dests : Len(channel'[x]) <= Capacity
          /\ \A x \in Dests \ {d} : channel'[x] = channel[x]
      BY <1>1, <1>4, <2>1, Pushed
    <2>3. TypeOK'
      BY <1>1, <1>2, <1>3, <1>4, <2>2 DEF TypeOK, Ids
    <2>4. QueueInv'
      BY <1>1, <1>2, <1>4, <2>2 DEF QueueInv, Alive
    <2>5. LostInv'
      BY <1>1, <1>2, <1>4 DEF LostInv, Sending, TypeOK
    <2> QED
      BY <2>3, <2>4, <2>5
  <1>5. CASE task[d] = "ended" /\ lost' = [lost EXCEPT ![d] = @ + 1] /\ channel' = channel
    <2>1. LostInv'
      BY <1>1, <1>2, <1>5 DEF LostInv, Sending, TypeOK
    <2>2. \A x \in Dests : lost'[x] \in 0 .. MaxDatagrams
      BY <1>1, <1>2, <1>5, Bounds DEF LostInv, Sending, TypeOK
    <2>3. TypeOK'
      BY <1>1, <1>2, <1>3, <1>5, <2>2 DEF TypeOK
    <2>4. QueueInv'
      BY <1>1, <1>2, <1>5 DEF QueueInv
    <2> QED
      BY <2>1, <2>3, <2>4
  <1> QED
    BY <1>4, <1>5 DEF SendEnds, d

LEMMA TypeTarget ==
  ASSUME TypeInv, NEW d \in Dests, Proceeds(d) \/ Ends(d) \/ Forward(d)
  PROVE  TypeInv'
  <1> USE DEF TypeInv
  <1>1. /\ UNCHANGED <<loop, pending, client_addr, quiet, control, reply_to, arrived, lost>>
        /\ silent' \in {silent, 0}
    BY DEF Proceeds, Ends, Forward, association, history
  <1>2. target_quiet' \in [Dests -> 0 .. IdleTimeout] /\ silent' \in 0 .. IdleTimeout
    <2>1. target_quiet \in [Dests -> 0 .. IdleTimeout] /\ 0 \in 0 .. IdleTimeout
      BY Bounds DEF TypeOK
    <2>2. target_quiet' = target_quiet \/ target_quiet' = [target_quiet EXCEPT ![d] = 0]
      BY DEF Proceeds, Ends, End, Forward
    <2>3. silent' \in 0 .. IdleTimeout
      BY <1>1, <2>1 DEF TypeOK
    <2> QED
      BY <2>1, <2>2, <2>3
  <1>3. LostInv'
    BY <1>1 DEF LostInv, Sending
  <1>4. /\ task' \in [Dests -> Alive \cup {"none", "ended"}]
        /\ \A x \in Dests \ {d} : task'[x] = task[x]
        /\ task[d] \in Alive /\ task'[d] # "none"
    BY DEF Proceeds, Ends, End, Forward, Becomes, TypeOK, Alive
  <1>5. CASE Proceeds(d)
    <2>1. task'[d] \in Alive /\ UNCHANGED <<channel, last_out>>
      BY <1>5 DEF Proceeds, Becomes, TypeOK
    <2>2. TypeOK'
      BY <1>1, <1>2, <1>4, <1>5, <2>1 DEF TypeOK, Proceeds, association
    <2>3. QueueInv'
      BY <1>1, <1>4, <2>1 DEF QueueInv, Alive
    <2> QED
      BY <1>3, <2>2, <2>3
  <1>6. CASE Ends(d)
    <2>1. /\ channel' \in [Dests -> Seq(Ids)] /\ channel'[d] = <<>> /\ last_out' = last_out
          /\ \A x \in Dests \ {d} : channel'[x] = channel[x]
      BY <1>6, Empty DEF Ends, End, history, TypeOK, Ids
    <2>2. TypeOK'
      <3>1. \A x \in Dests : Len(channel'[x]) <= Capacity
        <4>1. Len(channel'[d]) = 0
          BY <2>1, Empty
        <4>2. \A x \in Dests : Len(channel[x]) <= Capacity
          BY DEF TypeOK
        <4> QED
          BY <2>1, <4>1, <4>2, Bounds
      <3> QED
        BY <1>1, <1>2, <1>4, <2>1, <3>1 DEF TypeOK, Ids
    <2>3. QueueInv'
      BY <1>1, <1>4, <2>1 DEF QueueInv
    <2> QED
      BY <1>3, <2>2, <2>3
  <1>7. CASE Forward(d)
    <2>1. channel[d] \in Seq(Ids) /\ channel[d] # <<>> /\ task' = task
      BY <1>7 DEF Forward, TypeOK, Ids
    <2>2. /\ channel'[d] = Tail(channel[d])
          /\ \A x \in Dests \ {d} : channel'[x] = channel[x]
          /\ last_out' = [last_out EXCEPT ![d] = Head(channel[d])]
      BY <1>7 DEF Forward, TypeOK
    <2>3. channel' \in [Dests -> Seq(Ids)]
      BY <1>7, <2>1, Dequeued DEF Forward, TypeOK, Ids
    <2>4. \A x \in Dests : Len(channel'[x]) <= Capacity
      <3>1. Len(channel'[d]) = Len(channel[d]) - 1 /\ Len(channel[d]) \in Nat
        BY <2>1, <2>2, Dequeued
      <3>2. Len(channel[d]) - 1 <= Capacity
        BY <3>1, Bounds DEF TypeOK
      <3> QED
        BY <2>2, <3>1, <3>2 DEF TypeOK
    <2>5. last_out' \in [Dests -> 0 .. MaxDatagrams]
      BY <2>1, <2>2, Dequeued, Bounds DEF TypeOK, Ids
    <2>6. TypeOK'
      BY <1>1, <1>2, <1>4, <2>3, <2>4, <2>5 DEF TypeOK, Ids
    <2>7. QueueInv'
      BY <1>1, <1>4, <2>1, <2>2 DEF QueueInv, Alive
    <2> QED
      BY <1>3, <2>6, <2>7
  <1> QED
    BY <1>5, <1>6, <1>7

LEMMA TypeTick ==
  ASSUME TypeInv, Tick
  PROVE  TypeInv'
  <1> USE DEF TypeInv
  <1>1. quiet' \in 0 .. IdleTimeout /\ silent' \in 0 .. IdleTimeout
    BY Bounds DEF Tick, TypeOK
  <1>2. target_quiet' \in [Dests -> 0 .. IdleTimeout]
    BY Bounds DEF Tick, TypeOK
  <1>3. TypeOK'
    BY <1>1, <1>2 DEF Tick, TypeOK
  <1>4. QueueInv' /\ LostInv'
    BY DEF Tick, QueueInv, LostInv, Sending
  <1> QED
    BY <1>3, <1>4

LEMMA TypeStep == TypeInv /\ [Next]_vars => TypeInv'
  <1> SUFFICES ASSUME TypeInv, [Next]_vars PROVE TypeInv'
    OBVIOUS
  <1>1. CASE UNCHANGED vars
    BY <1>1 DEF vars, association, targets, history, TypeInv, TypeOK, QueueInv, LostInv, Sending
  <1>2. CASE Next
    BY <1>2, Steps, TypeLoop, TypeKnown, TypeNew, TypeSend, TypeTarget, TypeTick DEF TypeInv
  <1> QED
    BY <1>1, <1>2

\* Types, and the capacity of the channels (tunnel.rs 288: 32).
THEOREM TypeCorrect == Spec => []TypeOK
  <1>1. TypeInv => TypeOK
    BY DEF TypeInv
  <1> QED
    BY TypeInit, TypeStep, <1>1, PTL DEF Spec

-----------------------------------------------------------------------------
(* One client.                                                             *)

ClientInv == TypeInv /\ PinnedInv /\ OneClient

LEMMA ClientInit == Init => ClientInv
  BY TypeInit DEF Init, ClientInv, PinnedInv, OneClient

LEMMA ClientStep == ClientInv /\ [Next]_vars => ClientInv'
  <1> SUFFICES ASSUME ClientInv, [Next]_vars PROVE PinnedInv' /\ OneClient'
    BY TypeStep DEF ClientInv
  <1> USE DEF ClientInv, PinnedInv, OneClient
  <1>1. CASE UNCHANGED vars
    BY <1>1 DEF vars, association, targets
  <1>2. CASE LoopOnly
    BY <1>2, Bounds DEF LoopOnly, targets
  <1>3. CASE SendEnds \/ Tick
    BY <1>3 DEF SendEnds, Tick
  <1>4. ASSUME NEW from \in Peers, NEW d \in Dests, ToKnownTarget(from, d)
        PROVE  PinnedInv' /\ OneClient'
    BY <1>4, Bounds DEF ToKnownTarget, Pinned
  <1>5. ASSUME NEW from \in Peers, NEW d \in Dests, ToNewTarget(from, d)
        PROVE  PinnedInv' /\ OneClient'
    <2>1. client_addr' = from /\ from # NoPeer /\ client_addr \in {NoPeer, from}
      BY <1>5, Bounds DEF ToNewTarget, Pinned
    <2>2. /\ reply_to'[d] = from
          /\ \A x \in Dests \ {d} : task'[x] = task[x] /\ reply_to'[x] = reply_to[x]
      BY <1>5 DEF ToNewTarget, Becomes, TypeInv, TypeOK
    <2> QED
      BY <2>1, <2>2
  <1>6. ASSUME NEW d \in Dests, Proceeds(d) \/ Ends(d) \/ Forward(d)
        PROVE  PinnedInv' /\ OneClient'
    <2>1. UNCHANGED <<client_addr, reply_to>> /\ task[d] # "none"
      BY <1>6 DEF Proceeds, Ends, Forward, association, Alive
    <2>2. \A x \in Dests \ {d} : task'[x] = task[x]
      BY <1>6 DEF Proceeds, Ends, End, Forward, Becomes, TypeInv, TypeOK
    <2> QED
      BY <2>1, <2>2
  <1>7. CASE Next
    BY <1>2, <1>3, <1>4, <1>5, <1>6, <1>7, Steps DEF TypeInv
  <1> QED
    BY <1>1, <1>7

\* Nobody else on the host takes over the association (tunnel.rs 265-266).
THEOREM AnswersOneClient == Spec => []OneClient
  <1>1. ClientInv => OneClient
    BY DEF ClientInv
  <1> QED
    BY ClientInit, ClientStep, <1>1, PTL DEF Spec

-----------------------------------------------------------------------------
(* Order.                                                                  *)

QueuedInv == TypeInv /\ OrderInv

LEMMA OrderInit == Init => QueuedInv
  <1> SUFFICES ASSUME Init, NEW d \in Dests PROVE InOrderAt(d)
    BY TypeInit DEF QueuedInv, OrderInv
  <1>1. Len(channel[d]) = 0 /\ last_out[d] = 0 /\ arrived = 0 /\ ~Sending(d)
    BY Empty DEF Init, Sending
  <1> QED
    BY <1>1 DEF InOrderAt

\* Where nothing is sent or queued, a later arrival changes nothing.
LEMMA OrderKept ==
  ASSUME TypeOK, NEW d \in Dests, InOrderAt(d),
         channel'[d] = channel[d], last_out'[d] = last_out[d],
         arrived' \in Nat, arrived' >= arrived,
         Sending(d)' => Sending(d) /\ pending' = pending
  PROVE  InOrderAt(d)'
  <1>1. channel[d] \in Seq(Ids) /\ arrived \in Nat /\ last_out[d] \in Nat
    BY Bounds DEF TypeOK, Ids
  <1>2. \A i \in 1 .. Len(channel[d]) : channel[d][i] \in Nat
    BY <1>1, Bounds DEF Ids
  <1>3. last_out[d] <= arrived'
    BY <1>1 DEF InOrderAt
  <1>4. \A i \in 1 .. Len(channel[d]) : last_out[d] < channel[d][i] /\ channel[d][i] <= arrived'
    BY <1>1, <1>2 DEF InOrderAt
  <1>5. Sending(d)' => pending.id \in Nat /\ last_out[d] < pending.id /\ pending.id <= arrived'
    BY <1>1, Bounds DEF InOrderAt, TypeOK
  <1> QED
    BY <1>3, <1>4, <1>5 DEF InOrderAt

\* A datagram later than all that came before is queued in its place.
LEMMA OrderPushed ==
  ASSUME TypeOK, NEW d \in Dests, InOrderAt(d), NEW id \in Ids,
         channel'[d] = Append(channel[d], id), last_out'[d] = last_out[d],
         arrived' \in Nat, arrived' >= arrived, id <= arrived', last_out[d] < id,
         \A i \in 1 .. Len(channel[d]) : channel[d][i] < id,
         ~Sending(d)'
  PROVE  InOrderAt(d)'
  <1>1. channel[d] \in Seq(Ids) /\ arrived \in Nat /\ last_out[d] \in Nat /\ id \in Nat
    BY Bounds DEF TypeOK, Ids
  <1>2. \A i \in 1 .. Len(channel[d]) : channel[d][i] \in Nat
    BY <1>1, Bounds DEF Ids
  <1>3. /\ Len(channel'[d]) = Len(channel[d]) + 1 /\ channel'[d][Len(channel[d]) + 1] = id
        /\ \A i \in 1 .. Len(channel[d]) : channel'[d][i] = channel[d][i]
    BY <1>1, Appended
  <1>4. \A i \in 1 .. Len(channel'[d]) : i = Len(channel[d]) + 1 \/ i \in 1 .. Len(channel[d])
    BY <1>1, <1>3
  <1>5. last_out[d] <= arrived'
    BY <1>1 DEF InOrderAt
  <1>6. \A i \in 1 .. Len(channel'[d]) : last_out[d] < channel'[d][i] /\ channel'[d][i] <= arrived'
    BY <1>1, <1>2, <1>3, <1>4 DEF InOrderAt
  <1>7. \A i, j \in 1 .. Len(channel'[d]) : i < j => channel'[d][i] < channel'[d][j]
    <2> SUFFICES ASSUME NEW i \in 1 .. Len(channel'[d]), NEW j \in 1 .. Len(channel'[d]), i < j
                 PROVE  channel'[d][i] < channel'[d][j]
      OBVIOUS
    <2>1. i \in 1 .. Len(channel[d])
      BY <1>1, <1>3
    <2>2. CASE j = Len(channel[d]) + 1
      BY <1>3, <2>1, <2>2
    <2>3. CASE j \in 1 .. Len(channel[d])
      BY <1>3, <2>1, <2>3 DEF InOrderAt
    <2> QED
      BY <1>4, <2>2, <2>3
  <1> QED
    BY <1>5, <1>6, <1>7 DEF InOrderAt

\* The first datagram goes, and the rest moves up.
LEMMA OrderForwarded ==
  ASSUME TypeOK, NEW d \in Dests, InOrderAt(d), channel[d] # <<>>,
         channel'[d] = Tail(channel[d]), last_out'[d] = Head(channel[d]),
         UNCHANGED <<arrived, loop, pending>>
  PROVE  InOrderAt(d)' /\ last_out'[d] > last_out[d]
  <1>1. channel[d] \in Seq(Ids) /\ arrived \in Nat /\ last_out[d] \in Nat
    BY Bounds DEF TypeOK, Ids
  <1>2. \A i \in 1 .. Len(channel[d]) : channel[d][i] \in Nat
    BY <1>1, Bounds DEF Ids
  <1>3. /\ Len(channel[d]) \in Nat /\ Len(channel[d]) > 0
        /\ Len(channel'[d]) = Len(channel[d]) - 1 /\ last_out'[d] = channel[d][1]
        /\ \A i \in 1 .. Len(channel[d]) - 1 : channel'[d][i] = channel[d][i + 1]
    BY <1>1, Dequeued
  <1>4. \A i \in 1 .. Len(channel'[d]) :
          /\ channel'[d][i] = channel[d][i + 1] /\ i + 1 \in 1 .. Len(channel[d]) /\ 1 < i + 1
    BY <1>3
  <1>5. last_out'[d] <= arrived /\ last_out'[d] > last_out[d]
    BY <1>1, <1>2, <1>3 DEF InOrderAt
  <1>6. \A i \in 1 .. Len(channel'[d]) : last_out'[d] < channel'[d][i] /\ channel'[d][i] <= arrived
    BY <1>3, <1>4 DEF InOrderAt
  <1>7. \A i, j \in 1 .. Len(channel'[d]) : i < j => channel'[d][i] < channel'[d][j]
    BY <1>3, <1>4 DEF InOrderAt
  <1>8. Sending(d) => /\ last_out'[d] < pending.id /\ pending.id <= arrived
                      /\ \A i \in 1 .. Len(channel'[d]) : channel'[d][i] < pending.id
    BY <1>3, <1>4 DEF InOrderAt
  <1> QED
    BY <1>5, <1>6, <1>7, <1>8 DEF InOrderAt, Sending

\* One step keeps the order, and a queue gets shorter only by sending its first
\* datagram or by the end of its task.
LEMMA OrderNext ==
  ASSUME QueuedInv, Next, NEW d \in Dests
  PROVE  /\ InOrderAt(d)'
         /\ task'[d] = "running" /\ Len(channel'[d]) < Len(channel[d])
              => last_out'[d] > last_out[d]
  <1> USE DEF QueuedInv, TypeInv
  <1>1. /\ InOrderAt(d) /\ arrived \in Nat /\ channel[d] \in Seq(Ids) /\ Len(channel[d]) \in Nat
        /\ last_out[d] \in Nat
    BY Bounds DEF OrderInv, TypeOK, Ids
  <1>2. CASE /\ channel'[d] = channel[d] /\ last_out'[d] = last_out[d]
             /\ arrived' \in {arrived, arrived + 1}
             /\ (Sending(d)' => Sending(d) /\ pending' = pending)
    BY <1>1, <1>2, OrderKept
  <1>3. CASE LoopOnly
    BY <1>1, <1>2, <1>3 DEF LoopOnly, Sending, targets, history
  <1>4. CASE Tick
    BY <1>1, <1>2, <1>4 DEF Tick, Sending
  <1>5. CASE SendEnds
    <2>1. arrived' = arrived /\ last_out' = last_out /\ loop' = "selecting" /\ loop = "sending"
      BY <1>5 DEF SendEnds
    <2>2. CASE channel'[d] = channel[d]
      BY <1>2, <2>1, <2>2 DEF Sending
    <2>3. CASE pending.dest = d /\ channel'[d] = Append(channel[d], pending.id)
      <3>1. Sending(d) /\ pending.id \in Ids
        BY <2>1, <2>3 DEF Sending, QueueInv
      <3>2. /\ last_out[d] < pending.id /\ pending.id <= arrived
            /\ \A i \in 1 .. Len(channel[d]) : channel[d][i] < pending.id
        BY <1>1, <3>1 DEF InOrderAt
      <3>3. InOrderAt(d)'
        BY <1>1, <2>1, <2>3, <3>1, <3>2, OrderPushed DEF Sending
      <3>4. Len(channel'[d]) = Len(channel[d]) + 1
        BY <1>1, <2>3, <3>1, Appended
      <3> QED
        BY <1>1, <3>3, <3>4
    <2> QED
      BY <1>5, <2>2, <2>3 DEF SendEnds, Push, TypeOK
  <1>6. ASSUME NEW from \in Peers, NEW x \in Dests, ToKnownTarget(from, x) \/ ToNewTarget(from, x)
        PROVE  /\ InOrderAt(d)'
               /\ task'[d] = "running" /\ Len(channel'[d]) < Len(channel[d])
                    => last_out'[d] > last_out[d]
    <2>1. /\ arrived' = arrived + 1 /\ arrived' \in Ids /\ last_out' = last_out
          /\ loop = "selecting"
      BY <1>6, Bounds DEF ToKnownTarget, ToNewTarget, TypeOK, Ids
    <2>2. /\ last_out[d] < arrived + 1
          /\ \A i \in 1 .. Len(channel[d]) : channel[d][i] < arrived + 1
      <3>1. \A i \in 1 .. Len(channel[d]) : channel[d][i] \in Nat
        BY <1>1, Bounds DEF Ids
      <3> QED
        BY <1>1, <3>1 DEF InOrderAt
    <2>3. CASE channel'[d] = channel[d] /\ loop' = "selecting"
      BY <1>2, <2>1, <2>3 DEF Sending
    <2>4. CASE channel'[d] = channel[d] /\ loop' = "sending" /\ pending' = [dest |-> x, id |-> arrived + 1]
      <3>1. CASE x = d
        <4>1. pending'.id = arrived' /\ ~Sending(d)
          BY <2>1, <2>4 DEF Sending
        <4>2. \A i \in 1 .. Len(channel[d]) : channel[d][i] \in Nat
          BY <1>1, Bounds DEF Ids
        <4>3. /\ last_out'[d] <= arrived' /\ last_out'[d] < pending'.id /\ pending'.id <= arrived'
              /\ \A i \in 1 .. Len(channel[d]) :
                   last_out[d] < channel[d][i] /\ channel[d][i] <= arrived'
          BY <1>1, <2>1, <2>2, <4>1, <4>2 DEF InOrderAt
        <4>4. /\ \A i \in 1 .. Len(channel'[d]) :
                   last_out'[d] < channel'[d][i] /\ channel'[d][i] <= arrived' /\ channel'[d][i] < pending'.id
              /\ \A i, j \in 1 .. Len(channel'[d]) : i < j => channel'[d][i] < channel'[d][j]
          BY <1>1, <2>1, <2>2, <2>4, <4>1, <4>3 DEF InOrderAt
        <4>5. InOrderAt(d)'
          BY <4>3, <4>4 DEF InOrderAt
        <4> QED
          BY <1>1, <2>4, <4>5
      <3>2. CASE x # d
        BY <1>2, <2>1, <2>4, <3>2 DEF Sending
      <3> QED
        BY <3>1, <3>2
    <2>5. CASE x = d /\ channel'[d] = Append(channel[d], arrived + 1) /\ loop' = "selecting"
      <3>1. InOrderAt(d)'
        BY <1>1, <2>1, <2>2, <2>5, OrderPushed DEF Sending, Ids
      <3>2. Len(channel'[d]) = Len(channel[d]) + 1
        BY <1>1, <2>1, <2>5, Appended
      <3> QED
        BY <1>1, <3>1, <3>2
    <2>6. CASE x # d /\ channel'[d] = channel[d] /\ loop' = "selecting"
      BY <2>3, <2>6
    <2>7. CASE ToKnownTarget(from, x)
      BY <2>1, <2>3, <2>4, <2>5, <2>6, <2>7 DEF ToKnownTarget, Push, TypeOK
    <2>8. CASE ToNewTarget(from, x)
      BY <2>1, <2>5, <2>6, <2>8 DEF ToNewTarget, Push, TypeOK
    <2> QED
      BY <1>6, <2>7, <2>8
  <1>7. ASSUME NEW x \in Dests, Proceeds(x)
        PROVE  /\ InOrderAt(d)'
               /\ task'[d] = "running" /\ Len(channel'[d]) < Len(channel[d])
                    => last_out'[d] > last_out[d]
    BY <1>2, <1>7 DEF Proceeds, association, Sending
  <1>8. ASSUME NEW x \in Dests, Ends(x)
        PROVE  /\ InOrderAt(d)'
               /\ task'[d] = "running" /\ Len(channel'[d]) < Len(channel[d])
                    => last_out'[d] > last_out[d]
    <2>1. UNCHANGED <<loop, pending, arrived, last_out>>
      BY <1>8 DEF Ends, association, history
    <2>2. CASE x = d
      <3>1. channel'[d] = <<>> /\ task'[d] = "ended"
        BY <1>8, <2>2 DEF Ends, End, Becomes, TypeOK
      <3>2. Len(channel'[d]) = 0
        BY <3>1, Empty
      <3>3. InOrderAt(d)'
        <4>1. last_out[d] <= arrived /\ (Sending(d) => last_out[d] < pending.id /\ pending.id <= arrived)
          BY <1>1 DEF InOrderAt
        <4> QED
          BY <2>1, <3>2, <4>1 DEF InOrderAt, Sending
      <3> QED
        BY <3>1, <3>3
    <2>3. CASE x # d
      <3>1. channel'[d] = channel[d]
        BY <1>8, <2>3 DEF Ends, End, TypeOK
      <3> QED
        BY <1>2, <2>1, <3>1 DEF Sending
    <2> QED
      BY <2>2, <2>3
  <1>9. ASSUME NEW x \in Dests, Forward(x)
        PROVE  /\ InOrderAt(d)'
               /\ task'[d] = "running" /\ Len(channel'[d]) < Len(channel[d])
                    => last_out'[d] > last_out[d]
    <2>1. UNCHANGED <<loop, pending, arrived>> /\ channel[x] # <<>>
      BY <1>9 DEF Forward, association
    <2>2. CASE x = d
      <3>1. channel'[d] = Tail(channel[d]) /\ last_out'[d] = Head(channel[d])
        BY <1>9, <2>2 DEF Forward, TypeOK
      <3> QED
        BY <1>1, <2>1, <2>2, <3>1, OrderForwarded
    <2>3. CASE x # d
      <3>1. channel'[d] = channel[d] /\ last_out'[d] = last_out[d]
        BY <1>9, <2>3 DEF Forward, TypeOK
      <3> QED
        BY <1>2, <2>1, <3>1 DEF Sending
    <2> QED
      BY <2>2, <2>3
  <1> QED
    BY <1>3, <1>4, <1>5, <1>6, <1>7, <1>8, <1>9, Steps

LEMMA OrderStep == QueuedInv /\ [Next]_vars => QueuedInv'
  <1> SUFFICES ASSUME QueuedInv, [Next]_vars PROVE QueuedInv'
    OBVIOUS
  <1>1. CASE UNCHANGED vars
    BY <1>1 DEF vars, association, targets, history, QueuedInv, TypeInv, TypeOK, QueueInv, LostInv,
                OrderInv, InOrderAt, Sending
  <1>2. CASE Next
    BY <1>2, TypeStep, OrderNext DEF QueuedInv, OrderInv
  <1> QED
    BY <1>1, <1>2

\* A destination gets the client's datagrams in order, and none of them twice.
THEOREM SentInOrder == Spec => InOrder
  <1>1. QueuedInv /\ [Next]_vars =>
          [\A d \in Dests : task'[d] = "running" /\ Len(channel'[d]) < Len(channel[d])
                              => last_out'[d] > last_out[d]]_vars
    BY OrderNext
  <1> QED
    BY OrderInit, OrderStep, <1>1, PTL DEF Spec, InOrder
=============================================================================
