---------------------------- MODULE UdpAssociate ----------------------------
(***************************************************************************)
(* One SOCKS5 UDP ASSOCIATE session of ws2tcp-local-core (tunnel.rs): the  *)
(* loop of handle_socks_udp_associate, which reads the control connection  *)
(* and the relay socket, and one task run_udp_target per destination, fed  *)
(* through a bounded channel.                                              *)
(*                                                                         *)
(* Both wait in a `select!` whose branches are wrapped in timeouts that    *)
(* start anew with every iteration: `quiet` and `target_quiet` count the   *)
(* ticks since. A datagram is the number of its arrival. The transport of  *)
(* a destination, gateway or direct, is the same but for the handshake it  *)
(* waits for; whether a handshake ends is left to the fairness assumed.    *)
(***************************************************************************)
EXTENDS Naturals, Sequences

CONSTANTS
  Dests,          \* "host:port" keys
  Peers,          \* source addresses of datagrams on the relay socket
  NoPeer,         \* client_addr before the first datagram
  Capacity,       \* of a channel, 32 in the code
  IdleTimeout,    \* UDP_IDLE_TIMEOUT in ticks
  MaxDatagrams    \* bound: datagrams with a destination

ASSUME ConstantsAssumption ==
  /\ NoPeer \notin Peers
  /\ Capacity \in Nat \ {0} /\ IdleTimeout \in Nat \ {0} /\ MaxDatagrams \in Nat

VARIABLES
  loop,          \* the association: its loop, the send it waits for, or over
  pending,       \* the datagram and destination of that send
  control,       \* the client keeps the control connection open
  client_addr,   \* the peer the association is pinned to
  quiet,         \* ticks since the loop's select! began to wait
  task,          \* the task of each destination, "none" when not in `targets`
  channel,       \* the datagrams queued for it
  reply_to,      \* the client_addr it was given
  target_quiet,  \* ticks since its select! began to wait
  arrived        \* datagrams with a destination so far

\* History, read by the properties only.
VARIABLES
  lost,          \* datagrams that found their destination's task gone
  last_out,      \* the last datagram each destination was sent
  silent         \* ticks since a datagram came from the client or a reply went to it

association == <<loop, pending, client_addr, quiet>>
targets     == <<task, channel, reply_to, target_quiet>>
history     == <<lost, last_out, silent>>
vars        == <<association, control, targets, arrived, history>>

Alive == {"connecting", "running", "closing"}
NoDatagram == [dest |-> "none", id |-> 0]

Push(d, id) == channel' = [channel EXCEPT ![d] = Append(@, id)]
Becomes(d, state) == task' = [task EXCEPT ![d] = state]

-----------------------------------------------------------------------------
(* The loop of the association.                                            *)

\* The control connection is closed: the function returns and drops every
\* Sender.
ControlClosed ==
  /\ loop = "selecting" /\ ~control
  /\ loop' = "over"
  /\ UNCHANGED <<pending, client_addr, quiet, control, targets, arrived, history>>

\* A byte on the control connection is ignored; the next iteration's timeout
\* starts anew.
ControlByte ==
  /\ loop = "selecting" /\ control
  /\ quiet' = 0
  /\ UNCHANGED <<loop, pending, client_addr, control, targets, arrived, history>>

IdleAssociation ==
  /\ loop = "selecting" /\ quiet = IdleTimeout
  /\ loop' = "over"
  /\ UNCHANGED <<pending, client_addr, quiet, control, targets, arrived, history>>

\* recv_from fails: the function returns the error.
ReceiveFails ==
  /\ loop = "selecting"
  /\ loop' = "over"
  /\ UNCHANGED <<pending, client_addr, quiet, control, targets, arrived, history>>

\* Mutant: the latest source is the client.
Pinned_Latest(from) ==
  client_addr' = from

\* The first source is the client; datagrams from elsewhere are ignored.
Pinned(from) ==
  /\ client_addr \in {NoPeer, from}
  /\ client_addr' = from

Ignored(from) ==
  /\ loop = "selecting" /\ client_addr \notin {NoPeer, from}
  /\ quiet' = 0
  /\ UNCHANGED <<loop, pending, client_addr, control, targets, arrived, history>>

\* A datagram that is not SOCKS5-framed is dropped, but it pins the client.
Malformed(from) ==
  /\ loop = "selecting"
  /\ Pinned(from)
  /\ quiet' = 0
  /\ UNCHANGED <<loop, pending, control, targets, arrived, history>>

\* A datagram for a destination that is in `targets`: sent to its channel if
\* there is room, lost if its task has ended; else the loop waits for room.
ToKnownTarget(from, d) ==
  /\ loop = "selecting" /\ arrived < MaxDatagrams
  /\ task[d] # "none"
  /\ Pinned(from)
  /\ arrived' = arrived + 1
  /\ quiet' = 0 /\ silent' = 0
  /\ \/ /\ task[d] \in Alive /\ Len(channel[d]) < Capacity
        /\ Push(d, arrived + 1)
        /\ UNCHANGED <<loop, pending, lost>>
     \/ /\ task[d] = "ended"
        /\ lost' = [lost EXCEPT ![d] = @ + 1]
        /\ UNCHANGED <<loop, pending, channel>>
     \/ /\ task[d] \in Alive /\ Len(channel[d]) >= Capacity
        /\ loop' = "sending"
        /\ pending' = [dest |-> d, id |-> arrived + 1]
        /\ UNCHANGED <<channel, lost>>
  /\ UNCHANGED <<control, task, reply_to, target_quiet, last_out>>

\* The first datagram for a destination starts its task.
ToNewTarget(from, d) ==
  /\ loop = "selecting" /\ arrived < MaxDatagrams
  /\ task[d] = "none"
  /\ Pinned(from)
  /\ arrived' = arrived + 1
  /\ Push(d, arrived + 1)
  /\ Becomes(d, "connecting")
  /\ reply_to' = [reply_to EXCEPT ![d] = from]
  /\ quiet' = 0 /\ silent' = 0
  /\ UNCHANGED <<loop, pending, control, target_quiet, lost, last_out>>

\* Mutant: the send is tried again as long as the channel is full or closed.
SendEnds_OnlyWithRoom ==
  LET d == pending.dest IN
  /\ loop = "sending"
  /\ task[d] \in Alive /\ Len(channel[d]) < Capacity
  /\ Push(d, pending.id)
  /\ loop' = "selecting"
  /\ pending' = NoDatagram
  /\ UNCHANGED <<client_addr, quiet, control, task, reply_to, target_quiet,
                 arrived, history>>

\* The send the loop waits for ends: there is room, or the channel has closed.
SendEnds ==
  LET d == pending.dest IN
  /\ loop = "sending"
  /\ \/ /\ task[d] \in Alive /\ Len(channel[d]) < Capacity
        /\ Push(d, pending.id)
        /\ UNCHANGED lost
     \/ /\ task[d] = "ended"
        /\ lost' = [lost EXCEPT ![d] = @ + 1]
        /\ UNCHANGED channel
  /\ loop' = "selecting"
  /\ pending' = NoDatagram
  /\ UNCHANGED <<client_addr, quiet, control, task, reply_to, target_quiet,
                 arrived, last_out, silent>>

-----------------------------------------------------------------------------
(* run_udp_target.                                                         *)

\* The task ends, and its Receiver with what is queued.
End(d) ==
  /\ Becomes(d, "ended")
  /\ channel' = [channel EXCEPT ![d] = <<>>]
  /\ target_quiet' = [target_quiet EXCEPT ![d] = 0]

\* connect_gateway or the direct socket is ready,
Ready(d) ==
  /\ task[d] = "connecting"
  /\ Becomes(d, "running")
  /\ UNCHANGED <<association, control, channel, reply_to, target_quiet, arrived, history>>

\* or not.
NotReady(d) ==
  /\ task[d] = "connecting"
  /\ End(d)
  /\ UNCHANGED <<association, control, reply_to, arrived, history>>

\* Mutant: the newest datagram goes first.
Forward_Newest(d) ==
  /\ task[d] = "running" /\ channel[d] # <<>>
  /\ last_out' = [last_out EXCEPT ![d] = channel[d][Len(channel[d])]]
  /\ channel' = [channel EXCEPT ![d] = SubSeq(@, 1, Len(@) - 1)]
  /\ target_quiet' = [target_quiet EXCEPT ![d] = 0]
  /\ UNCHANGED <<association, control, task, reply_to, arrived, lost, silent>>

\* A queued datagram is sent to the destination.
Forward(d) ==
  /\ task[d] = "running" /\ channel[d] # <<>>
  /\ last_out' = [last_out EXCEPT ![d] = Head(channel[d])]
  /\ channel' = [channel EXCEPT ![d] = Tail(@)]
  /\ target_quiet' = [target_quiet EXCEPT ![d] = 0]
  /\ UNCHANGED <<association, control, task, reply_to, arrived, lost, silent>>

\* A datagram of the destination is sent to the client.
Reply(d) ==
  /\ task[d] = "running"
  /\ target_quiet' = [target_quiet EXCEPT ![d] = 0]
  /\ silent' = 0
  /\ UNCHANGED <<association, control, task, channel, reply_to, arrived,
                 lost, last_out>>

\* A Ping or Pong of the gateway: nothing for the client, but the timeouts of the
\* next iteration start anew.
ControlFrame(d) ==
  /\ task[d] = "running"
  /\ target_quiet' = [target_quiet EXCEPT ![d] = 0]
  /\ UNCHANGED <<association, control, task, channel, reply_to, arrived, history>>

\* Reading or writing fails, or the gateway closes the tunnel.
Breaks(d) ==
  /\ task[d] = "running"
  /\ End(d)
  /\ UNCHANGED <<association, control, reply_to, arrived, history>>

\* Nothing in either direction for UDP_IDLE_TIMEOUT: a gateway tunnel is sent a
\* Close, while the channel still takes datagrams.
IdleTarget(d) ==
  /\ task[d] = "running" /\ channel[d] = <<>> /\ target_quiet[d] = IdleTimeout
  /\ Becomes(d, "closing")
  /\ UNCHANGED <<association, control, channel, reply_to, target_quiet, arrived, history>>

Closed(d) ==
  /\ task[d] = "closing"
  /\ End(d)
  /\ UNCHANGED <<association, control, reply_to, arrived, history>>

\* Mutant: a Sender outlives the association.
InboundClosed_Never(d) == task[d] = "no such state" /\ UNCHANGED vars

\* The association is over and the queued datagrams have been sent.
InboundClosed(d) ==
  /\ task[d] = "running" /\ channel[d] = <<>> /\ loop = "over"
  /\ End(d)
  /\ UNCHANGED <<association, control, reply_to, arrived, history>>

-----------------------------------------------------------------------------
(* The client, and time.                                                   *)

CloseControl ==
  /\ control
  /\ control' = FALSE
  /\ UNCHANGED <<association, targets, arrived, history>>

\* A timeout that has run out is noticed before the next tick.
Tick ==
  /\ loop = "selecting" => quiet < IdleTimeout
  /\ \A d \in Dests : task[d] = "running" => target_quiet[d] < IdleTimeout
  /\ quiet' = IF loop = "selecting" THEN quiet + 1 ELSE quiet
  /\ target_quiet' = [d \in Dests |-> IF task[d] = "running" THEN target_quiet[d] + 1
                                      ELSE target_quiet[d]]
  /\ silent' = IF silent < IdleTimeout THEN silent + 1 ELSE silent
  /\ UNCHANGED <<loop, pending, client_addr, control, task, channel, reply_to,
                 arrived, lost, last_out>>

-----------------------------------------------------------------------------
Init ==
  /\ loop = "selecting" /\ pending = NoDatagram
  /\ control = TRUE
  /\ client_addr = NoPeer
  /\ quiet = 0
  /\ task = [d \in Dests |-> "none"]
  /\ channel = [d \in Dests |-> <<>>]
  /\ reply_to = [d \in Dests |-> NoPeer]
  /\ target_quiet = [d \in Dests |-> 0]
  /\ arrived = 0
  /\ lost = [d \in Dests |-> 0]
  /\ last_out = [d \in Dests |-> 0]
  /\ silent = 0

Receives ==
  \E from \in Peers :
    \/ Ignored(from) \/ Malformed(from)
    \/ \E d \in Dests : ToKnownTarget(from, d) \/ ToNewTarget(from, d)

TargetStep(d) ==
  \/ Ready(d) \/ NotReady(d) \/ Forward(d) \/ Reply(d) \/ ControlFrame(d) \/ Breaks(d)
  \/ IdleTarget(d) \/ Closed(d) \/ InboundClosed(d)

Next ==
  \/ ControlClosed \/ ControlByte \/ IdleAssociation \/ ReceiveFails \/ Receives \/ SendEnds
  \/ \E d \in Dests : TargetStep(d)
  \/ CloseControl \/ Tick

Spec == Init /\ [][Next]_vars

\* Every ready branch of a `select!` is taken in the end (it polls its branches
\* in random order), sockets take datagrams, and time passes. That handshakes
\* end is a separate assumption: over TCP nothing limits the time a gateway
\* takes to answer.
LoopFairness ==
  /\ SF_vars(ControlClosed) /\ WF_vars(IdleAssociation) /\ WF_vars(SendEnds)
  /\ \A d \in Dests :
       WF_vars(Forward(d)) /\ WF_vars(IdleTarget(d)) /\ WF_vars(Closed(d))
         /\ WF_vars(InboundClosed(d))
  /\ WF_vars(Tick)

HandshakesEnd == \A d \in Dests : WF_vars(Ready(d) \/ NotReady(d))

LoopSpec == Spec /\ LoopFairness
FairSpec == LoopSpec /\ HandshakesEnd

-----------------------------------------------------------------------------
(* Properties.                                                             *)

\* Types; a channel never holds more than its capacity.
TypeOK ==
  /\ loop \in {"selecting", "sending", "over"}
  /\ pending \in [dest : Dests \cup {"none"}, id : 0 .. MaxDatagrams]
  /\ control \in BOOLEAN
  /\ client_addr \in Peers \cup {NoPeer}
  /\ quiet \in 0 .. IdleTimeout
  /\ task \in [Dests -> Alive \cup {"none", "ended"}]
  /\ channel \in [Dests -> Seq(1 .. MaxDatagrams)]
  /\ \A d \in Dests : Len(channel[d]) <= Capacity
  /\ reply_to \in [Dests -> Peers \cup {NoPeer}]
  /\ target_quiet \in [Dests -> 0 .. IdleTimeout]
  /\ arrived \in 0 .. MaxDatagrams
  /\ lost \in [Dests -> 0 .. MaxDatagrams]
  /\ last_out \in [Dests -> 0 .. MaxDatagrams]
  /\ silent \in 0 .. IdleTimeout

\* All destinations answer to one peer, the one whose datagram came first:
\* nobody else on the host takes over the association (tunnel.rs 265-266).
OneClient ==
  \A d \in Dests : task[d] # "none" => reply_to[d] = client_addr

\* A destination is sent the client's datagrams in the order they came, none of
\* them twice, also when the loop had to wait for room in the channel.
InOrder ==
  [][\A d \in Dests :
       task'[d] = "running" /\ Len(channel'[d]) < Len(channel[d])
         => last_out'[d] > last_out[d]]_vars

\* The association ends once its control connection closes (CHANGELOG 0.4.0).
\* It holds when handshakes with the gateway end. When one does not, and its
\* channel is full, the loop waits for room and never looks at the control
\* connection again (303).
ControlEndsAssociation == ~control ~> loop = "over"

\* When the association is over, the tasks of its destinations end, also those
\* whose destination keeps sending.
TargetsEnd ==
  \A d \in Dests : loop = "over" ~> task[d] \in {"none", "ended"}

\* tunnel.rs 300-302: "a send racing that shutdown is simply dropped". A task
\* that has ended stays in `targets`: every later datagram to its destination is
\* dropped as well.
OnlyRacingSendsLost == \A d \in Dests : lost[d] <= 1

\* tunnel.rs 45-47: the timeout is for associations that "sit idle", that
\* "nobody is using any more". One whose client only receives is torn down.
OnlyIdleTornDown ==
  [][IdleAssociation => silent = IdleTimeout]_vars
=============================================================================
