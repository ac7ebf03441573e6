------------------------- MODULE TokenSessionProofs -------------------------
(***************************************************************************)
(* Theorems about TokenSession, for any number of tunnels, any lifetimes   *)
(* and any bounds: which tokens are held and presented; when a renewal     *)
(* begins and how old a token a tunnel may be given; and that the          *)
(* background task keeps its distance and a second try another token.      *)
(***************************************************************************)
EXTENDS TokenSession, SequenceTheorems, TLAPS

Pairs == [id : 0 .. MaxIssued, renew_at : Nat, access_expires : Nat,
          refresh_expires : Nat]

Wires == [kind : {"none", "login", "refresh", "granted", "rejected"},
          id : 0 .. MaxIssued, ttl : Nat]

\* TypeOK in parts, so that a step need only look at what it changes.
ClockType == now \in Nat /\ serving \in BOOLEAN

SessionType == tokens \in Pairs /\ queue \in Seq(Actors)

PcType == pc \in [Actors -> Places]

WireType == wire \in [Actors -> Wires]

TunnelType == carried \in [Tunnels -> 0 .. MaxIssued] /\ renewed \in [Tunnels -> BOOLEAN]

KeeperType ==
  /\ seen \in Nat /\ wake_at \in Nat /\ retry_at \in Nat
  /\ retry_delay \in RenewRetryDelay .. MaxRetryDelay

RouterType ==
  /\ issued \in 0 .. MaxIssued
  /\ access_until \in [Ids -> Nat]
  /\ refresh_until \in [Ids -> Nat]
  /\ restarts \in 0 .. MaxRestarts

HistoryType ==
  /\ spent \subseteq Ids /\ refused \subseteq 0 .. MaxIssued /\ unrenewed \subseteq Ids
  /\ scheduled \in Nat /\ quiet_until \in Nat /\ tried_id \in 0 .. MaxIssued

\* Whoever waits for the router's answer holds the mutex.
Owner == \A a \in Actors : pc[a] \in Renewing => Holds(a)

\* Types are inductive only together with Owner: what lets the mutex go takes
\* the head off the queue, which must not be empty.
TypeInv ==
  /\ ClockType /\ SessionType /\ PcType /\ WireType /\ TunnelType
  /\ KeeperType /\ RouterType /\ HistoryType /\ Owner

LEMMA TypeInvImpliesTypeOK == TypeInv => TypeOK
  BY DEF TypeInv, TypeOK, ClockType, SessionType, PcType, WireType, TunnelType,
         KeeperType, RouterType, HistoryType, Pairs, Wires

-----------------------------------------------------------------------------
(* The queue and the mutex.                                                *)

\* Two actors do not hold the mutex at the same time.
LEMMA OneHolder ==
  ASSUME NEW a, NEW b, Holds(a), Holds(b)
  PROVE  a = b
  BY DEF Holds

LEMMA Released ==
  ASSUME queue \in Seq(Actors), NEW a, Holds(a)
  PROVE  Tail(queue) \in Seq(Actors)
  BY HeadTailProperties DEF Holds

\* Joining the queue does not move its head.
LEMMA Joined ==
  ASSUME queue \in Seq(Actors), NEW b \in Actors, queue' = Append(queue, b)
  PROVE  /\ queue' \in Seq(Actors)
         /\ \A a : Holds(a) => Holds(a)'
  <1>1. /\ queue' \in Seq(Actors)
        /\ Len(queue') = Len(queue) + 1
        /\ \A i \in 1 .. Len(queue) : queue'[i] = queue[i]
    BY AppendProperties
  <1>2. ASSUME NEW a, Holds(a) PROVE Holds(a)'
    <2>1. Len(queue) \in Nat \ {0} /\ Head(queue) = queue[1]
      BY <1>2, EmptySeq, LenProperties DEF Holds
    <2>2. queue' # <<>> /\ Head(queue') = queue'[1]
      BY <1>1, <2>1, LenProperties
    <2> QED
      BY <1>1, <1>2, <2>1, <2>2 DEF Holds
  <1> QED
    BY <1>1, <1>2

\* Owner stays true when nobody but a holder of the mutex begins to renew ...
LEMMA OwnerStays ==
  ASSUME Owner,
         \A c : Holds(c) => Holds(c)',
         \A c \in Actors : pc'[c] \in Renewing => pc[c] \in Renewing \/ Holds(c)
  PROVE  Owner'
  BY DEF Owner

\* ... and when the holder lets the mutex go, for nobody else is renewing then.
LEMMA OwnerLetsGo ==
  ASSUME Owner, NEW a \in Actors, Holds(a), pc'[a] \notin Renewing,
         \A c \in Actors : pc'[c] \in Renewing => pc[c] \in Renewing
  PROVE  Owner'
  BY OneHolder DEF Owner

-----------------------------------------------------------------------------
(* The building blocks of the actions.                                     *)

LEMMA Naturals ==
  /\ MaxIssued \in Nat /\ RefreshTtl \in Nat /\ AccessTtls \subseteq Nat
  /\ RenewRetryDelay \in Nat /\ MinInterval \in Nat /\ MaxRetryDelay \in Nat
  /\ RenewRetryDelay \in RenewRetryDelay .. MaxRetryDelay
  /\ MaxRestarts \in Nat
  BY TimesAssumption

LEMMA Durations ==
  ASSUME NEW m \in Nat
  PROVE  (4 * m) \div 5 \in Nat /\ (4 * m) \div 5 <= m
  OBVIOUS

LEMMA WireStep ==
  ASSUME WireType, NEW a \in Actors, NEW w \in Wires, wire' = [wire EXCEPT ![a] = w]
  PROVE  WireType'
  BY DEF WireType

LEMMA WireField ==
  ASSUME WireType, NEW a \in Actors
  PROVE  wire[a].id \in 0 .. MaxIssued /\ wire[a].ttl \in Nat
  BY DEF WireType, Wires

LEMMA SomeWires ==
  /\ NoWire \in Wires
  /\ [kind |-> "login", id |-> 0, ttl |-> 0] \in Wires
  /\ \A i \in 0 .. MaxIssued : [kind |-> "refresh", id |-> i, ttl |-> 0] \in Wires
  BY Naturals DEF Wires, NoWire

LEMMA PcStep ==
  ASSUME PcType, NEW a \in Actors, NEW p \in Places, pc' = [pc EXCEPT ![a] = p]
  PROVE  /\ PcType' /\ pc'[a] = p
         /\ \A c \in Actors : c # a => pc'[c] = pc[c]
  BY DEF PcType

\* renew begins: the actor waits for an answer from now on.
LEMMA RenewBegins ==
  ASSUME TypeInv, NEW a \in Actors, BeginRenew(a)
  PROVE  /\ PcType' /\ WireType' /\ spent' \subseteq Ids
         /\ pc'[a] \in Renewing /\ \A c \in Actors : c # a => pc'[c] = pc[c]
  <1> USE DEF TypeInv
  <1>1. tokens.id \in 0 .. MaxIssued
    BY DEF SessionType, Pairs
  <1>2. CASE tokens.id # 0 /\ now < tokens.refresh_expires
    <2>1. /\ pc' = [pc EXCEPT ![a] = "refreshing"]
          /\ wire' = [wire EXCEPT ![a] = [kind |-> "refresh", id |-> tokens.id, ttl |-> 0]]
          /\ spent' = spent \cup {tokens.id}
      BY <1>2 DEF BeginRenew
    <2>2. WireType'
      BY <1>1, <2>1, SomeWires, WireStep
    <2>3. spent' \subseteq Ids
      <3>1. tokens.id \in Ids
        BY <1>1, <1>2, Naturals DEF Ids
      <3> QED
        BY <2>1, <3>1 DEF HistoryType
    <2> QED
      BY <2>1, <2>2, <2>3, PcStep DEF Places, Renewing
  <1>3. CASE ~(tokens.id # 0 /\ now < tokens.refresh_expires)
    <2>1. /\ pc' = [pc EXCEPT ![a] = "loggingIn"]
          /\ wire' = [wire EXCEPT ![a] = [kind |-> "login", id |-> 0, ttl |-> 0]]
          /\ spent' = spent
      BY <1>3 DEF BeginRenew
    <2>2. WireType'
      BY <1>1, <2>1, SomeWires, WireStep
    <2> QED
      BY <2>1, <2>2, PcStep DEF Places, Renewing, HistoryType
  <1> QED
    BY <1>2, <1>3

\* renew returns Ok.
LEMMA TokensArrive ==
  ASSUME TypeInv, NEW a \in Actors, Replaced(a)
  PROVE  /\ Holds(a) /\ SessionType' /\ WireType' /\ scheduled' \in Nat
         /\ wire[a].id \in 0 .. MaxIssued
  <1> USE DEF TypeInv
  <1>1. Holds(a)
    BY DEF Owner, Replaced
  <1>2. wire[a].id \in 0 .. MaxIssued /\ wire[a].ttl \in Nat
    BY WireField
  <1>3. tokens' = IntoTokens(wire[a].id, wire[a].ttl)
    BY DEF Replaced
  <1>4. tokens' \in Pairs
    BY <1>2, <1>3, Durations, TimesAssumption DEF IntoTokens, Pairs, ClockType
  <1>5. queue' \in Seq(Actors)
    BY <1>1, Released DEF Replaced, Release, SessionType
  <1>6. WireType'
    BY <1>2, WireStep, SomeWires DEF Replaced
  <1>7. scheduled' \in Nat
    BY <1>2, Durations DEF Replaced, ClockType
  <1> QED
    BY <1>1, <1>2, <1>4, <1>5, <1>6, <1>7 DEF SessionType

\* renew returns Err.
LEMMA TokensStay ==
  ASSUME TypeInv, NEW a \in Actors, NotReplaced(a)
  PROVE  /\ Holds(a) /\ WireType' /\ pc[a] \in Renewing
         /\ spent' \subseteq Ids /\ unrenewed' \subseteq Ids /\ scheduled' \in Nat
  <1> USE DEF TypeInv
  <1>1. pc[a] \in Renewing
    BY DEF NotReplaced, Renewing
  <1>2. tokens.id \in 0 .. MaxIssued
    BY DEF SessionType, Pairs
  <1>3. WireType'
    BY <1>2, WireStep, SomeWires DEF NotReplaced
  <1>4. spent' \subseteq Ids
    BY DEF NotReplaced, HistoryType
  <1>5. unrenewed' \subseteq Ids
    <2>1. {tokens.id} \ {0} \subseteq Ids
      BY <1>2, Naturals DEF Ids
    <2> QED
      BY <2>1 DEF NotReplaced, HistoryType
  <1> QED
    BY <1>1, <1>3, <1>4, <1>5 DEF Owner, NotReplaced, HistoryType

LEMMA GivesUp ==
  ASSUME TunnelType, PcType, NEW t \in Tunnels, GiveUp(t)
  PROVE  /\ TunnelType' /\ PcType' /\ pc'[t] = "idle"
         /\ \A c \in Actors : c # t => pc'[c] = pc[c]
  <1>1. TunnelType'
    BY TimesAssumption DEF TunnelType, GiveUp
  <1>2. t \in Actors /\ pc' = [pc EXCEPT ![t] = "idle"]
    BY DEF Actors, GiveUp
  <1> QED
    BY <1>1, <1>2, PcStep DEF Places

-----------------------------------------------------------------------------
(* One lemma for each group of actions.                                   *)

LEMMA TypeTunnelStep ==
  ASSUME TypeInv, NEW t \in Tunnels, TunnelStep(t)
  PROVE  TypeInv'
  <1> USE ActorsAssumption, TimesAssumption DEF TypeInv
  <1>a. t \in Actors
    BY DEF Actors
  <1>1. CASE OpenTunnel(t)
    <2>1. /\ PcType' /\ pc'[t] = "authorizing"
          /\ \A c \in Actors : c # t => pc'[c] = pc[c]
      BY <1>1, <1>a, PcStep DEF OpenTunnel, Places, Waiting, Renewing
    <2>2. queue' \in Seq(Actors) /\ \A c : Holds(c) => Holds(c)'
      BY <1>1, <1>a, Joined DEF OpenTunnel, Enqueue, SessionType
    <2>3. PcType'
      BY <2>1
    <2>4. SessionType'
      BY <1>1, <2>2 DEF OpenTunnel, SessionType
    <2>5. ClockType' /\ WireType' /\ TunnelType' /\ KeeperType' /\ RouterType' /\ HistoryType'
      BY <1>1 DEF OpenTunnel, session, tunnels, keeper, router, history, ClockType, WireType, TunnelType, KeeperType, RouterType, HistoryType
    <2>6. Owner'
      BY <2>1, <2>2, OwnerStays DEF Renewing
    <2> QED
      BY <2>3, <2>4, <2>5, <2>6
  <1>2. CASE UseToken(t)
    <2>1. /\ PcType' /\ pc'[t] = "connecting"
          /\ \A c \in Actors : c # t => pc'[c] = pc[c]
      BY <1>2, <1>a, PcStep DEF UseToken, Places, Waiting, Renewing
    <2>2. Holds(t) /\ tokens.id \in 0 .. MaxIssued
      BY <1>2 DEF UseToken, SessionType, Pairs
    <2>3. PcType'
      BY <2>1
    <2>4. SessionType'
      BY <1>2, <2>2, Released DEF UseToken, Release, SessionType
    <2>5. TunnelType'
      BY <1>2, <2>2 DEF UseToken, TunnelType
    <2>6. ClockType' /\ WireType' /\ KeeperType' /\ RouterType' /\ HistoryType'
      BY <1>2 DEF UseToken, session, tunnels, keeper, router, history, ClockType, WireType, KeeperType, RouterType, HistoryType
    <2>7. Owner'
      BY <1>a, <2>1, <2>2, OwnerLetsGo DEF Renewing
    <2> QED
      BY <2>3, <2>4, <2>5, <2>6, <2>7
  <1>3. CASE RenewForTunnel(t)
    <2>1. /\ PcType' /\ WireType' /\ spent' \subseteq Ids
          /\ pc'[t] \in Renewing /\ \A c \in Actors : c # t => pc'[c] = pc[c]
      BY <1>3, <1>a, RenewBegins DEF RenewForTunnel
    <2>2. PcType' /\ WireType'
      BY <2>1
    <2>3. HistoryType'
      BY <1>3, <2>1 DEF RenewForTunnel, HistoryType
    <2>4. ClockType' /\ SessionType' /\ TunnelType' /\ KeeperType' /\ RouterType'
      BY <1>3 DEF RenewForTunnel, session, tunnels, keeper, router, history, ClockType, SessionType, TunnelType, KeeperType, RouterType
    <2>5. Owner'
      <3>1. \A c : Holds(c) => Holds(c)'
        BY <1>3 DEF RenewForTunnel, session, Holds
      <3>2. Holds(t)
        BY <1>3 DEF RenewForTunnel
      <3> QED
        BY <2>1, <3>1, <3>2, OwnerStays
    <2> QED
      BY <2>2, <2>3, <2>4, <2>5
  <1>4. CASE TunnelRenewed(t)
    <2>1. /\ PcType' /\ pc'[t] = "connecting"
          /\ \A c \in Actors : c # t => pc'[c] = pc[c]
      BY <1>4, <1>a, PcStep DEF TunnelRenewed, Places, Waiting, Renewing
    <2>2. /\ Holds(t) /\ SessionType' /\ WireType' /\ scheduled' \in Nat
          /\ wire[t].id \in 0 .. MaxIssued
      BY <1>4, <1>a, TokensArrive DEF TunnelRenewed
    <2>3. PcType' /\ SessionType' /\ WireType'
      BY <2>1, <2>2
    <2>4. TunnelType'
      BY <1>4, <2>2 DEF TunnelRenewed, TunnelType
    <2>5. HistoryType'
      BY <1>4, <2>2 DEF TunnelRenewed, HistoryType
    <2>6. ClockType' /\ KeeperType' /\ RouterType'
      BY <1>4 DEF TunnelRenewed, session, tunnels, keeper, router, history, ClockType, KeeperType, RouterType
    <2>7. Owner'
      BY <1>a, <2>1, <2>2, OwnerLetsGo DEF Renewing
    <2> QED
      BY <2>3, <2>4, <2>5, <2>6, <2>7
  <1>5. CASE TunnelNotRenewed(t)
    <2>1. /\ Holds(t) /\ WireType' /\ spent' \subseteq Ids /\ unrenewed' \subseteq Ids
          /\ scheduled' \in Nat
      BY <1>5, <1>a, TokensStay DEF TunnelNotRenewed
    <2>2. /\ TunnelType' /\ PcType' /\ tokens' \in Pairs /\ pc'[t] \notin Renewing
          /\ \A c \in Actors : c # t => pc'[c] = pc[c]
      <3>1. CASE UseCurrentInstead(t)
        <4>1. PcType' /\ pc'[t] = "connecting" /\ \A c \in Actors : c # t => pc'[c] = pc[c]
          BY <3>1, <1>a, PcStep DEF UseCurrentInstead, Places
        <4>2. TunnelType'
          BY <3>1 DEF UseCurrentInstead, TunnelType, SessionType, Pairs
        <4>3. tokens' \in Pairs
          <5>1. tokens \in Pairs /\ now + RenewRetryDelay \in Nat
            BY Naturals DEF SessionType, ClockType
          <5>2. tokens' = [tokens EXCEPT !.renew_at = now + RenewRetryDelay]
            BY <3>1 DEF UseCurrentInstead
          <5> QED
            BY <5>1, <5>2 DEF Pairs
        <4> QED
          BY <4>1, <4>2, <4>3 DEF Renewing
      <3>2. CASE GiveUp(t) /\ UNCHANGED tokens
        BY <3>2, GivesUp DEF SessionType, Renewing
      <3> QED
        BY <1>5, <3>1, <3>2 DEF TunnelNotRenewed
    <2>3. PcType' /\ WireType' /\ TunnelType'
      BY <2>1, <2>2
    <2>4. SessionType'
      BY <1>5, <2>1, <2>2, Released DEF TunnelNotRenewed, Release, SessionType
    <2>5. HistoryType'
      BY <1>5, <2>1 DEF TunnelNotRenewed, HistoryType
    <2>6. ClockType' /\ KeeperType' /\ RouterType'
      BY <1>5 DEF TunnelNotRenewed, session, tunnels, keeper, router, history, ClockType, KeeperType, RouterType
    <2>7. Owner'
      BY <1>a, <2>1, <2>2, OwnerLetsGo
    <2> QED
      BY <2>3, <2>4, <2>5, <2>6, <2>7
  <1>6. CASE Connected(t)
    <2>1. /\ PcType' /\ pc'[t] = "open"
          /\ \A c \in Actors : c # t => pc'[c] = pc[c]
      BY <1>6, <1>a, PcStep DEF Connected, Places, Waiting, Renewing
    <2>2. \A c : Holds(c) => Holds(c)'
      BY <1>6 DEF Connected, session, Holds
    <2>3. PcType'
      BY <2>1
    <2>4. TunnelType'
      BY <1>6 DEF Connected, TunnelType
    <2>5. ClockType' /\ SessionType' /\ WireType' /\ KeeperType' /\ RouterType' /\ HistoryType'
      BY <1>6 DEF Connected, session, tunnels, keeper, router, history, ClockType, SessionType, WireType, KeeperType, RouterType, HistoryType
    <2>6. Owner'
      BY <2>1, <2>2, OwnerStays DEF Renewing
    <2> QED
      BY <2>3, <2>4, <2>5, <2>6
  <1>7. CASE Refused(t)
    <2>1. /\ PcType' /\ pc'[t] = "reporting"
          /\ \A c \in Actors : c # t => pc'[c] = pc[c]
      BY <1>7, <1>a, PcStep DEF Refused, Places, Waiting, Renewing
    <2>2. queue' \in Seq(Actors) /\ \A c : Holds(c) => Holds(c)'
      BY <1>7, <1>a, Joined DEF Refused, Enqueue, SessionType
    <2>3. PcType'
      BY <2>1
    <2>4. SessionType'
      BY <1>7, <2>2 DEF Refused, SessionType
    <2>5. TunnelType' /\ HistoryType'
      BY <1>7 DEF Refused, TunnelType, HistoryType
    <2>6. ClockType' /\ WireType' /\ KeeperType' /\ RouterType'
      BY <1>7 DEF Refused, session, tunnels, keeper, router, history, ClockType, WireType, KeeperType, RouterType
    <2>7. Owner'
      BY <2>1, <2>2, OwnerStays DEF Renewing
    <2> QED
      BY <2>3, <2>4, <2>5, <2>6, <2>7
  <1>8. CASE RefusedAgain(t)
    <2>1. /\ TunnelType' /\ PcType' /\ pc'[t] = "idle"
          /\ \A c \in Actors : c # t => pc'[c] = pc[c]
      BY <1>8, GivesUp DEF RefusedAgain
    <2>2. \A c : Holds(c) => Holds(c)'
      BY <1>8 DEF RefusedAgain, session, Holds
    <2>3. PcType' /\ TunnelType'
      BY <2>1
    <2>4. HistoryType'
      BY <1>8 DEF RefusedAgain, HistoryType, TunnelType
    <2>5. ClockType' /\ SessionType' /\ WireType' /\ KeeperType' /\ RouterType'
      BY <1>8 DEF RefusedAgain, session, tunnels, keeper, router, history, ClockType, SessionType, WireType, KeeperType, RouterType
    <2>6. Owner'
      BY <2>1, <2>2, OwnerStays DEF Renewing
    <2> QED
      BY <2>3, <2>4, <2>5, <2>6
  <1>9. CASE ConnectFails(t)
    <2>1. /\ TunnelType' /\ PcType' /\ pc'[t] = "idle"
          /\ \A c \in Actors : c # t => pc'[c] = pc[c]
      BY <1>9, GivesUp DEF ConnectFails
    <2>2. \A c : Holds(c) => Holds(c)'
      BY <1>9 DEF ConnectFails, session, Holds
    <2>3. PcType' /\ TunnelType'
      BY <2>1
    <2>4. ClockType' /\ SessionType' /\ WireType' /\ KeeperType' /\ RouterType' /\ HistoryType'
      BY <1>9 DEF ConnectFails, session, tunnels, keeper, router, history, ClockType, SessionType, WireType, KeeperType, RouterType, HistoryType
    <2>5. Owner'
      BY <2>1, <2>2, OwnerStays DEF Renewing
    <2> QED
      BY <2>3, <2>4, <2>5
  <1>10. CASE ReportRejected(t)
    <2>1. /\ PcType' /\ pc'[t] = "authorizing"
          /\ \A c \in Actors : c # t => pc'[c] = pc[c]
      BY <1>10, <1>a, PcStep DEF ReportRejected, Places, Waiting, Renewing
    <2>2. Holds(t) /\ queue' = Append(Tail(queue), t)
      BY <1>10 DEF ReportRejected
    <2>3. queue' \in Seq(Actors)
      BY <1>a, <2>2, Released, AppendProperties DEF SessionType
    <2>4. tokens' \in Pairs
      BY <1>10 DEF ReportRejected, Rejected, SessionType, Pairs, ClockType
    <2>5. PcType'
      BY <2>1
    <2>6. SessionType'
      BY <2>3, <2>4 DEF SessionType
    <2>7. ClockType' /\ WireType' /\ TunnelType' /\ KeeperType' /\ RouterType' /\ HistoryType'
      BY <1>10 DEF ReportRejected, session, tunnels, keeper, router, history, ClockType, WireType, TunnelType, KeeperType, RouterType, HistoryType
    <2>8. Owner'
      BY <1>a, <2>1, <2>2, OwnerLetsGo DEF Renewing
    <2> QED
      BY <2>5, <2>6, <2>7, <2>8
  <1>11. CASE CloseTunnel(t)
    <2>1. /\ PcType' /\ pc'[t] = "idle"
          /\ \A c \in Actors : c # t => pc'[c] = pc[c]
      BY <1>11, <1>a, PcStep DEF CloseTunnel, Places, Waiting, Renewing
    <2>2. \A c : Holds(c) => Holds(c)'
      BY <1>11 DEF CloseTunnel, session, Holds
    <2>3. PcType'
      BY <2>1
    <2>4. ClockType' /\ SessionType' /\ WireType' /\ TunnelType' /\ KeeperType' /\ RouterType' /\ HistoryType'
      BY <1>11 DEF CloseTunnel, session, tunnels, keeper, router, history, ClockType, SessionType, WireType, TunnelType, KeeperType, RouterType, HistoryType
    <2>5. Owner'
      BY <2>1, <2>2, OwnerStays DEF Renewing
    <2> QED
      BY <2>3, <2>4, <2>5
  <1> QED
    BY <1>1, <1>2, <1>3, <1>4, <1>5, <1>6, <1>7, <1>8, <1>9, <1>10, <1>11 DEF TunnelStep

LEMMA TypeKeeperStep ==
  ASSUME TypeInv, KeeperStep
  PROVE  TypeInv'
  <1> USE ActorsAssumption, TimesAssumption DEF TypeInv
  <1>a. Keeper \in Actors
    BY DEF Actors
  <1>1. CASE Plan
    <2>1. /\ PcType' /\ queue' \in Seq(Actors) /\ seen' \in Nat
          /\ pc'[Keeper] \notin Renewing /\ \A c \in Actors : c # Keeper => pc'[c] = pc[c]
          /\ \A c : Holds(c) => Holds(c)'
      <3>1. CASE Alive
        BY <1>1, <3>1, <1>a, PcStep, Joined
        DEF Plan, Enqueue, SessionType, ClockType, Places, Waiting, Renewing
      <3>2. CASE ~Alive
        BY <1>1, <3>2, <1>a, PcStep DEF Plan, SessionType, KeeperType, Places, Renewing, Holds
      <3> QED
        BY <3>1, <3>2
    <2>2. PcType'
      BY <2>1
    <2>3. SessionType' /\ KeeperType'
      BY <1>1, <2>1 DEF Plan, SessionType, KeeperType
    <2>4. ClockType' /\ WireType' /\ TunnelType' /\ RouterType' /\ HistoryType'
      BY <1>1 DEF Plan, session, tunnels, keeper, router, history, ClockType, WireType, TunnelType, RouterType, HistoryType
    <2>5. Owner'
      BY <2>1, OwnerStays
    <2> QED
      BY <2>2, <2>3, <2>4, <2>5
  <1>2. CASE Sleep
    <2>1. /\ PcType' /\ pc'[Keeper] = "asleep"
          /\ \A c \in Actors : c # Keeper => pc'[c] = pc[c]
      BY <1>2, <1>a, PcStep DEF Sleep, Places, Waiting, Renewing
    <2>2. Holds(Keeper)
      BY <1>2 DEF Sleep
    <2>3. wake_at' \in Nat
      <3>1. BackgroundDue \in Int
        BY DEF BackgroundDue, MaxOf, SessionType, Pairs, KeeperType
      <3> QED
        BY <1>2, <3>1 DEF Sleep, MaxOf, ClockType, KeeperType
    <2>4. PcType'
      BY <2>1
    <2>5. SessionType'
      BY <1>2, <2>2, Released DEF Sleep, Release, SessionType
    <2>6. KeeperType'
      BY <1>2, <2>3 DEF Sleep, KeeperType
    <2>7. ClockType' /\ WireType' /\ TunnelType' /\ RouterType' /\ HistoryType'
      BY <1>2 DEF Sleep, session, tunnels, keeper, router, history, ClockType, WireType, TunnelType, RouterType, HistoryType
    <2>8. Owner'
      BY <1>a, <2>1, <2>2, OwnerLetsGo DEF Renewing
    <2> QED
      BY <2>4, <2>5, <2>6, <2>7, <2>8
  <1>3. CASE Wake
    <2>1. /\ PcType' /\ queue' \in Seq(Actors)
          /\ pc'[Keeper] \notin Renewing /\ \A c \in Actors : c # Keeper => pc'[c] = pc[c]
          /\ \A c : Holds(c) => Holds(c)'
      <3>1. CASE Alive
        BY <1>3, <3>1, <1>a, PcStep, Joined
        DEF Wake, Enqueue, SessionType, Places, Waiting, Renewing
      <3>2. CASE ~Alive
        BY <1>3, <3>2, <1>a, PcStep DEF Wake, SessionType, Places, Renewing, Holds
      <3> QED
        BY <3>1, <3>2
    <2>2. PcType'
      BY <2>1
    <2>3. SessionType' /\ KeeperType'
      BY <1>3, <2>1 DEF Wake, SessionType, KeeperType
    <2>4. ClockType' /\ WireType' /\ TunnelType' /\ RouterType' /\ HistoryType'
      BY <1>3 DEF Wake, session, tunnels, keeper, router, history, ClockType, WireType, TunnelType, RouterType, HistoryType
    <2>5. Owner'
      BY <2>1, OwnerStays
    <2> QED
      BY <2>2, <2>3, <2>4, <2>5
  <1>4. CASE NotDueAnyMore
    <2>1. /\ PcType' /\ pc'[Keeper] = "planning"
          /\ \A c \in Actors : c # Keeper => pc'[c] = pc[c]
      BY <1>4, <1>a, PcStep DEF NotDueAnyMore, NoFailure, Places, Waiting, Renewing
    <2>2. Holds(Keeper)
      BY <1>4 DEF NotDueAnyMore
    <2>3. PcType'
      BY <2>1
    <2>4. SessionType'
      BY <1>4, <2>2, Released DEF NotDueAnyMore, Release, SessionType
    <2>5. KeeperType'
      BY <1>4 DEF NotDueAnyMore, NoFailure, KeeperType
    <2>6. ClockType' /\ WireType' /\ TunnelType' /\ RouterType' /\ HistoryType'
      BY <1>4 DEF NotDueAnyMore, session, tunnels, keeper, router, history, ClockType, WireType, TunnelType, RouterType, HistoryType
    <2>7. Owner'
      BY <1>a, <2>1, <2>2, OwnerLetsGo DEF Renewing
    <2> QED
      BY <2>3, <2>4, <2>5, <2>6, <2>7
  <1>5. CASE RenewForKeeper
    <2>1. /\ PcType' /\ WireType' /\ spent' \subseteq Ids
          /\ pc'[Keeper] \in Renewing /\ \A c \in Actors : c # Keeper => pc'[c] = pc[c]
      BY <1>5, <1>a, RenewBegins DEF RenewForKeeper
    <2>2. PcType' /\ WireType'
      BY <2>1
    <2>3. HistoryType'
      BY <1>5, <2>1 DEF RenewForKeeper, HistoryType
    <2>4. ClockType' /\ SessionType' /\ TunnelType' /\ KeeperType' /\ RouterType'
      BY <1>5 DEF RenewForKeeper, session, tunnels, keeper, router, history, ClockType, SessionType, TunnelType, KeeperType, RouterType
    <2>5. Owner'
      <3>1. \A c : Holds(c) => Holds(c)'
        BY <1>5 DEF RenewForKeeper, session, Holds
      <3>2. Holds(Keeper)
        BY <1>5 DEF RenewForKeeper
      <3> QED
        BY <2>1, <3>1, <3>2, OwnerStays
    <2> QED
      BY <2>2, <2>3, <2>4, <2>5
  <1>6. CASE KeeperRenewed
    <2>1. /\ PcType' /\ pc'[Keeper] = "planning"
          /\ \A c \in Actors : c # Keeper => pc'[c] = pc[c]
      BY <1>6, <1>a, PcStep DEF KeeperRenewed, NoFailure, Places, Waiting, Renewing
    <2>2. /\ Holds(Keeper) /\ SessionType' /\ WireType' /\ scheduled' \in Nat
          /\ wire[Keeper].id \in 0 .. MaxIssued
      BY <1>6, <1>a, TokensArrive DEF KeeperRenewed
    <2>3. PcType' /\ SessionType' /\ WireType'
      BY <2>1, <2>2
    <2>4. KeeperType'
      BY <1>6 DEF KeeperRenewed, NoFailure, KeeperType
    <2>5. HistoryType'
      BY <1>6, <2>2 DEF KeeperRenewed, HistoryType, ClockType
    <2>6. ClockType' /\ TunnelType' /\ RouterType'
      BY <1>6 DEF KeeperRenewed, session, tunnels, keeper, router, history, ClockType, TunnelType, RouterType
    <2>7. Owner'
      BY <1>a, <2>1, <2>2, OwnerLetsGo DEF Renewing
    <2> QED
      BY <2>3, <2>4, <2>5, <2>6, <2>7
  <1>7. CASE KeeperNotRenewed
    <2>1. /\ PcType' /\ pc'[Keeper] = "planning"
          /\ \A c \in Actors : c # Keeper => pc'[c] = pc[c]
      BY <1>7, <1>a, PcStep DEF KeeperNotRenewed, Places, Waiting, Renewing
    <2>2. /\ Holds(Keeper) /\ WireType' /\ spent' \subseteq Ids /\ unrenewed' \subseteq Ids
          /\ scheduled' \in Nat
      BY <1>7, <1>a, TokensStay DEF KeeperNotRenewed
    <2>3. PcType' /\ WireType'
      BY <2>1, <2>2
    <2>4. SessionType'
      BY <1>7, <2>2, Released DEF KeeperNotRenewed, Release, SessionType
    <2>5. KeeperType'
      BY <1>7 DEF KeeperNotRenewed, MinOf, KeeperType, ClockType
    <2>6. HistoryType'
      BY <1>7, <2>2, Naturals DEF KeeperNotRenewed, HistoryType, ClockType, SessionType, Pairs
    <2>7. ClockType' /\ TunnelType' /\ RouterType'
      BY <1>7 DEF KeeperNotRenewed, session, tunnels, keeper, router, history, ClockType, TunnelType, RouterType
    <2>8. Owner'
      BY <1>a, <2>1, <2>2, OwnerLetsGo DEF Renewing
    <2> QED
      BY <2>3, <2>4, <2>5, <2>6, <2>7, <2>8
  <1> QED
    BY <1>1, <1>2, <1>3, <1>4, <1>5, <1>6, <1>7 DEF KeeperStep

LEMMA TypeActorStep ==
  ASSUME TypeInv, NEW a \in Actors, ActorStep(a)
  PROVE  TypeInv'
  <1> USE ActorsAssumption, TimesAssumption DEF TypeInv
  <1>1. CASE RefreshRejected(a)
    <2>1. /\ PcType' /\ pc'[a] = "loggingIn"
          /\ \A c \in Actors : c # a => pc'[c] = pc[c]
      BY <1>1, PcStep DEF RefreshRejected, Places, Waiting, Renewing
    <2>2. pc[a] \in Renewing /\ \A c : Holds(c) => Holds(c)'
      BY <1>1 DEF RefreshRejected, Renewing, session, Holds
    <2>3. PcType'
      BY <2>1
    <2>4. WireType'
      BY <1>1, WireStep, SomeWires DEF RefreshRejected
    <2>5. HistoryType'
      BY <1>1 DEF RefreshRejected, HistoryType
    <2>6. ClockType' /\ SessionType' /\ TunnelType' /\ KeeperType' /\ RouterType'
      BY <1>1 DEF RefreshRejected, session, tunnels, keeper, router, history, ClockType, SessionType, TunnelType, KeeperType, RouterType
    <2>7. Owner'
      BY <2>1, <2>2, OwnerStays
    <2> QED
      BY <2>3, <2>4, <2>5, <2>6, <2>7
  <1>2. CASE Panics(a)
    <2>1. Holds(a)
      BY <1>2 DEF Panics, Owner
    <2>2. /\ PcType' /\ pc'[a] \notin Renewing
          /\ \A c \in Actors : c # a => pc'[c] = pc[c]
      <3>1. PICK p \in {"idle", "ended"} : pc' = [pc EXCEPT ![a] = p]
        BY <1>2 DEF Panics
      <3> QED
        BY <3>1, PcStep DEF Places, Renewing
    <2>3. PcType'
      BY <2>2
    <2>4. SessionType'
      BY <1>2, <2>1, Released DEF Panics, Release, SessionType
    <2>5. WireType'
      BY <1>2, WireStep, SomeWires DEF Panics
    <2>6. TunnelType'
      <3>1. carried' \in [Tunnels -> 0 .. MaxIssued]
        BY <1>2 DEF Panics, TunnelType
      <3>2. renewed' \in [Tunnels -> BOOLEAN]
        BY <1>2 DEF Panics, TunnelType
      <3> QED
        BY <3>1, <3>2 DEF TunnelType
    <2>7. HistoryType'
      BY <1>2 DEF Panics, HistoryType
    <2>8. ClockType' /\ KeeperType' /\ RouterType'
      BY <1>2 DEF Panics, session, tunnels, keeper, router, history, ClockType, KeeperType, RouterType
    <2>9. Owner'
      BY <2>1, <2>2, OwnerLetsGo
    <2> QED
      BY <2>3, <2>4, <2>5, <2>6, <2>7, <2>8, <2>9
  <1>3. CASE Grants(a)
    <2>1. issued + 1 \in Ids /\ issued' = issued + 1 /\ restarts' = restarts
          /\ UNCHANGED <<now, session, pc, tunnels, serving, keeper, history>>
      BY <1>3 DEF Grants, RouterType, Ids
    <2>2. PICK ttl \in AccessTtls :
            /\ wire' = [wire EXCEPT ![a] = [kind |-> "granted", id |-> issued + 1, ttl |-> ttl]]
            /\ access_until' = [access_until EXCEPT ![issued + 1] = now + ttl]
      BY <1>3 DEF Grants
    <2>3. [kind |-> "granted", id |-> issued + 1, ttl |-> ttl] \in Wires
      BY <2>1 DEF Wires, Ids
    <2>4. refresh_until' \in [Ids -> Nat]
      BY <1>3 DEF Grants, RouterType, ClockType
    <2>5. WireType'
      BY <2>2, <2>3, WireStep
    <2>6. RouterType'
      BY <2>1, <2>2, <2>4 DEF RouterType, Ids, ClockType
    <2>7. ClockType' /\ SessionType' /\ PcType' /\ TunnelType' /\ KeeperType' /\ HistoryType'
      BY <2>1 DEF session, tunnels, keeper, history, ClockType, SessionType, PcType, TunnelType, KeeperType, HistoryType
    <2>8. Owner'
      BY <2>1 DEF Owner, Holds, session
    <2> QED
      BY <2>5, <2>6, <2>7, <2>8
  <1>4. CASE Rejects(a)
    <2>1. WireType'
      BY <1>4 DEF Rejects, WireType, Wires
    <2>2. ClockType' /\ SessionType' /\ PcType' /\ TunnelType' /\ KeeperType' /\ RouterType' /\ HistoryType'
      BY <1>4 DEF Rejects, session, tunnels, keeper, router, history, ClockType, SessionType, PcType, TunnelType, KeeperType, RouterType, HistoryType
    <2>3. Owner'
      BY <1>4 DEF Rejects, Owner, Holds, session
    <2> QED
      BY <2>1, <2>2, <2>3
  <1> QED
    BY <1>1, <1>2, <1>3, <1>4 DEF ActorStep

LEMMA TypeOtherStep ==
  ASSUME TypeInv, LoginSucceeds \/ LoginFails \/ Shutdown \/ Restart \/ Tick
  PROVE  TypeInv'
  <1> USE ActorsAssumption, TimesAssumption DEF TypeInv
  <1>a. Startup \in Actors
    BY DEF Actors
  <1>1. CASE LoginSucceeds
    <2>1. /\ Holds(Startup) /\ SessionType' /\ WireType' /\ scheduled' \in Nat
          /\ wire[Startup].id \in 0 .. MaxIssued
      BY <1>1, <1>a, TokensArrive DEF LoginSucceeds
    <2>2. /\ PcType' /\ pc'[Startup] \notin Renewing
          /\ \A c \in Actors : pc'[c] \in Renewing => pc[c] \in Renewing
      BY <1>1, <1>a DEF LoginSucceeds, PcType, Places, Renewing
    <2>3. PcType' /\ SessionType' /\ WireType'
      BY <2>2, <2>1
    <2>4. ClockType' /\ HistoryType'
      BY <1>1, <2>1 DEF LoginSucceeds, ClockType, HistoryType
    <2>5. TunnelType' /\ KeeperType' /\ RouterType'
      BY <1>1 DEF LoginSucceeds, session, tunnels, keeper, router, history, TunnelType, KeeperType, RouterType
    <2>6. Owner'
      BY <1>a, <2>2, <2>1, OwnerLetsGo
    <2> QED
      BY <2>3, <2>4, <2>5, <2>6
  <1>2. CASE LoginFails
    <2>1. /\ Holds(Startup) /\ WireType' /\ spent' \subseteq Ids /\ unrenewed' \subseteq Ids
          /\ scheduled' \in Nat
      BY <1>2, <1>a, TokensStay DEF LoginFails
    <2>2. /\ PcType' /\ pc'[Startup] = "ended"
          /\ \A c \in Actors : c # Startup => pc'[c] = pc[c]
      BY <1>2, <1>a, PcStep DEF LoginFails, Places, Waiting, Renewing
    <2>3. PcType' /\ WireType'
      BY <2>2, <2>1
    <2>4. SessionType'
      BY <1>2, <2>1, Released DEF LoginFails, Release, SessionType
    <2>5. HistoryType'
      BY <1>2, <2>1 DEF LoginFails, HistoryType
    <2>6. ClockType' /\ TunnelType' /\ KeeperType' /\ RouterType'
      BY <1>2 DEF LoginFails, session, tunnels, keeper, router, history, ClockType, TunnelType, KeeperType, RouterType
    <2>7. Owner'
      BY <1>a, <2>2, <2>1, OwnerLetsGo DEF Renewing
    <2> QED
      BY <2>3, <2>4, <2>5, <2>6, <2>7
  <1>3. CASE Shutdown
    <2>1. ClockType'
      BY <1>3 DEF Shutdown, ClockType
    <2>2. SessionType' /\ PcType' /\ WireType' /\ TunnelType' /\ KeeperType' /\ RouterType' /\ HistoryType'
      BY <1>3 DEF Shutdown, session, tunnels, keeper, router, history, SessionType, PcType, WireType, TunnelType, KeeperType, RouterType, HistoryType
    <2>3. Owner'
      BY <1>3 DEF Shutdown, Owner, Holds, session
    <2> QED
      BY <2>1, <2>2, <2>3
  <1>4. CASE Restart
    <2>1. RouterType'
      BY <1>4 DEF Restart, RouterType
    <2>2. ClockType' /\ SessionType' /\ PcType' /\ WireType' /\ TunnelType' /\ KeeperType' /\ HistoryType'
      BY <1>4 DEF Restart, session, tunnels, keeper, router, history, ClockType, SessionType, PcType, WireType, TunnelType, KeeperType, HistoryType
    <2>3. Owner'
      BY <1>4 DEF Restart, Owner, Holds, session
    <2> QED
      BY <2>1, <2>2, <2>3
  <1>5. CASE Tick
    <2>1. ClockType'
      BY <1>5 DEF Tick, ClockType
    <2>2. SessionType' /\ PcType' /\ WireType' /\ TunnelType' /\ KeeperType' /\ RouterType' /\ HistoryType'
      BY <1>5 DEF Tick, session, tunnels, keeper, router, history, SessionType, PcType, WireType, TunnelType, KeeperType, RouterType, HistoryType
    <2>3. Owner'
      BY <1>5 DEF Tick, Owner, Holds, session
    <2> QED
      BY <2>1, <2>2, <2>3
  <1> QED
    BY <1>1, <1>2, <1>3, <1>4, <1>5

-----------------------------------------------------------------------------
(* The invariant.                                                          *)

LEMMA TypeInit == Init => TypeInv
  <1> SUFFICES ASSUME Init PROVE TypeInv
    OBVIOUS
  <1> USE ActorsAssumption, TimesAssumption DEF Init
  <1>1. ClockType /\ SessionType
    <2>1. ClockType
      BY DEF ClockType
    <2>3. NoTokens \in Pairs
      BY ONLY Naturals DEF Pairs, NoTokens
    <2>2. queue \in Seq(Actors)
      BY DEF Actors
    <2> QED
      BY <2>1, <2>2, <2>3 DEF SessionType
  <1>2. PcType
    BY DEF PcType, Places, Renewing, Waiting
  <1>3. WireType
    BY DEF WireType, Wires, NoWire
  <1>4. TunnelType /\ RouterType
    BY DEF TunnelType, RouterType
  <1>5. KeeperType /\ HistoryType
    BY DEF KeeperType, HistoryType
  <1>6. Owner
    BY DEF Owner, Holds, Actors, Renewing
  <1> QED
    BY <1>1, <1>2, <1>3, <1>4, <1>5, <1>6 DEF TypeInv

LEMMA TypeStep == TypeInv /\ [Next]_vars => TypeInv'
  <1> SUFFICES ASSUME TypeInv, [Next]_vars PROVE TypeInv'
    OBVIOUS
  <1>1. CASE UNCHANGED vars
    BY <1>1 DEF vars, session, tunnels, keeper, router, history, TypeInv, ClockType,
       SessionType, PcType, WireType, TunnelType, KeeperType, RouterType, HistoryType,
       Owner, Holds
  <1>2. CASE Next
    BY <1>2, TypeTunnelStep, TypeKeeperStep, TypeActorStep, TypeOtherStep DEF Next
  <1> QED
    BY <1>1, <1>2

LEMMA TypeInvariant == Spec => []TypeInv
  BY TypeInit, TypeStep, PTL DEF Spec

\* The state keeps its types; in particular the delay between failed background
\* renewals stays between RENEW_RETRY_DELAY and MAX_BACKGROUND_RETRY_DELAY.
THEOREM TypeCorrect == Spec => []TypeOK
  BY TypeInvariant, TypeInvImpliesTypeOK, PTL

\* At most one actor is renewing: nobody else can hold the mutex.
THEOREM Exclusive == Spec => []RenewalsExclusive
  <1>1. TypeInv => RenewalsExclusive
    BY OneHolder DEF TypeInv, Owner, RenewalsExclusive
  <1> QED
    BY <1>1, TypeInvariant, PTL

-----------------------------------------------------------------------------
(* The kinds of steps, as a renewal sees them.                             *)

OthersStay(a) ==
  \A c \in Actors \ {a} :
    pc[c] \in Renewing \/ pc'[c] \in Renewing => pc'[c] = pc[c]

\* No renewal begins, ends, or is answered.
Quiet ==
  /\ UNCHANGED <<wire, issued, spent>> /\ tokens'.id = tokens.id
  /\ \A c \in Actors : pc[c] \in Renewing \/ pc'[c] \in Renewing => pc'[c] = pc[c]

Begins(a) ==
  /\ Holds(a) /\ pc[a] \in Waiting /\ Due /\ BeginRenew(a)
  /\ UNCHANGED <<now, tokens, issued, refused, scheduled>>

Answered(a) ==
  /\ Replaced(a) /\ pc'[a] \notin Renewing /\ OthersStay(a)
  /\ UNCHANGED <<now, issued, spent, refused>>

Unanswered(a) ==
  /\ NotReplaced(a) /\ pc'[a] \notin Renewing /\ OthersStay(a)
  /\ tokens'.id = tokens.id
  /\ UNCHANGED <<now, issued, refused>>

\* Who renews is alone in that.
LEMMA Alone ==
  ASSUME TypeInv, NEW a \in Actors, Holds(a), NEW c \in Actors \ {a}
  PROVE  pc[c] \notin Renewing
  BY OneHolder DEF TypeInv, Owner

LEMMA QuietPc ==
  ASSUME PcType, NEW a \in Actors, NEW p \in Places \ Renewing, pc[a] \notin Renewing,
         pc' = [pc EXCEPT ![a] = p]
  PROVE  \A c \in Actors : pc[c] \in Renewing \/ pc'[c] \in Renewing => pc'[c] = pc[c]
  BY DEF PcType

LEMMA EndingPc ==
  ASSUME PcType, NEW a \in Actors, NEW p \in Places \ Renewing, pc' = [pc EXCEPT ![a] = p]
  PROVE  pc'[a] \notin Renewing /\ OthersStay(a)
  BY DEF PcType, OthersStay

LEMMA TunnelAnswered ==
  ASSUME TypeInv, NEW t \in Tunnels, TunnelRenewed(t)
  PROVE  Answered(t)
  <1>1. t \in Actors /\ PcType
    BY DEF Actors, TypeInv
  <1>2. pc'[t] \notin Renewing /\ OthersStay(t)
    BY <1>1, EndingPc DEF TunnelRenewed, Places, Renewing
  <1> QED
    BY <1>2 DEF TunnelRenewed, Answered, router

LEMMA KeeperAnswered ==
  ASSUME TypeInv, KeeperRenewed
  PROVE  Answered(Keeper)
  <1>1. Keeper \in Actors /\ PcType
    BY DEF Actors, TypeInv
  <1>2. pc'[Keeper] \notin Renewing /\ OthersStay(Keeper)
    BY <1>1, EndingPc DEF KeeperRenewed, NoFailure, Places, Renewing
  <1> QED
    BY <1>2 DEF KeeperRenewed, Answered, router

LEMMA LoginAnswered ==
  ASSUME TypeInv, LoginSucceeds
  PROVE  Answered(Startup)
  <1>1. Startup \in Actors /\ Keeper \in Actors /\ PcType
    BY DEF Actors, TypeInv
  <1>2. Holds(Startup)
    BY <1>1, TokensArrive DEF LoginSucceeds
  <1>3. pc[Keeper] \notin Renewing
    BY <1>1, <1>2, Alone, ActorsAssumption
  <1>4. pc'[Startup] \notin Renewing /\ OthersStay(Startup)
    BY <1>1, <1>3, ActorsAssumption DEF LoginSucceeds, PcType, OthersStay, Renewing
  <1> QED
    BY <1>4 DEF LoginSucceeds, Answered, router

LEMMA TunnelKinds ==
  ASSUME TypeInv, NEW t \in Tunnels, TunnelStep(t)
  PROVE  Quiet \/ Begins(t) \/ Answered(t) \/ Unanswered(t)
  <1>a. t \in Actors /\ PcType
    BY DEF Actors, TypeInv
  <1>1. CASE RenewForTunnel(t)
    BY <1>1 DEF RenewForTunnel, Begins, Waiting, session, router
  <1>2. CASE TunnelRenewed(t)
    BY <1>2, TunnelAnswered
  <1>3. CASE TunnelNotRenewed(t)
    <2>1. \E p \in {"connecting", "idle"} : pc' = [pc EXCEPT ![t] = p]
      BY <1>3 DEF TunnelNotRenewed, UseCurrentInstead, GiveUp
    <2>2. pc'[t] \notin Renewing /\ OthersStay(t)
      BY <2>1, <1>a, EndingPc DEF Places, Renewing
    <2>3. tokens'.id = tokens.id
      BY <1>3 DEF TunnelNotRenewed, UseCurrentInstead, TypeInv, SessionType, Pairs
    <2> QED
      BY <1>3, <2>2, <2>3 DEF TunnelNotRenewed, Unanswered, router
  <1>4. CASE OpenTunnel(t) \/ UseToken(t) \/ Connected(t) \/ Refused(t)
             \/ RefusedAgain(t) \/ ConnectFails(t) \/ ReportRejected(t) \/ CloseTunnel(t)
    <2>1. /\ pc[t] \notin Renewing
          /\ \E p \in Places \ Renewing : pc' = [pc EXCEPT ![t] = p]
      BY <1>4 DEF OpenTunnel, UseToken, Connected, Refused, RefusedAgain, ConnectFails,
         ReportRejected, CloseTunnel, GiveUp, Places, Waiting, Renewing
    <2>2. UNCHANGED <<wire, issued, spent>>
      BY <1>4 DEF OpenTunnel, UseToken, Connected, Refused, RefusedAgain, ConnectFails,
         ReportRejected, CloseTunnel, router, history
    <2>3. tokens'.id = tokens.id
      BY <1>4 DEF OpenTunnel, UseToken, Connected, Refused, RefusedAgain, ConnectFails,
         ReportRejected, CloseTunnel, Rejected, session, TypeInv, SessionType, Pairs
    <2> QED
      BY <1>a, <2>1, <2>2, <2>3, QuietPc DEF Quiet
  <1> QED
    BY <1>1, <1>2, <1>3, <1>4 DEF TunnelStep

LEMMA KeeperKinds ==
  ASSUME TypeInv, KeeperStep
  PROVE  Quiet \/ Begins(Keeper) \/ Answered(Keeper) \/ Unanswered(Keeper)
  <1>a. Keeper \in Actors /\ PcType
    BY DEF Actors, TypeInv
  <1>1. CASE RenewForKeeper
    BY <1>1 DEF RenewForKeeper, Begins, Waiting, session, router
  <1>2. CASE KeeperRenewed
    BY <1>2, KeeperAnswered
  <1>3. CASE KeeperNotRenewed
    <2>1. pc'[Keeper] \notin Renewing /\ OthersStay(Keeper)
      BY <1>3, <1>a, EndingPc DEF KeeperNotRenewed, Places, Renewing
    <2> QED
      BY <1>3, <2>1 DEF KeeperNotRenewed, Unanswered, router
  <1>4. CASE Plan \/ Sleep \/ Wake \/ NotDueAnyMore
    <2>1. /\ pc[Keeper] \notin Renewing
          /\ \E p \in Places \ Renewing : pc' = [pc EXCEPT ![Keeper] = p]
      BY <1>4 DEF Plan, Sleep, Wake, NotDueAnyMore, NoFailure, Places, Waiting, Renewing
    <2>2. UNCHANGED <<wire, issued, spent>> /\ tokens'.id = tokens.id
      BY <1>4 DEF Plan, Sleep, Wake, NotDueAnyMore, router, history
    <2> QED
      BY <1>a, <2>1, <2>2, QuietPc DEF Quiet
  <1> QED
    BY <1>1, <1>2, <1>3, <1>4 DEF KeeperStep

LEMMA OtherKinds ==
  ASSUME TypeInv, LoginSucceeds \/ LoginFails \/ Shutdown \/ Restart \/ Tick \/ UNCHANGED vars
  PROVE  Quiet \/ Answered(Startup) \/ Unanswered(Startup)
  <1>a. Startup \in Actors /\ PcType
    BY DEF Actors, TypeInv
  <1>1. CASE LoginSucceeds
    BY <1>1, LoginAnswered
  <1>2. CASE LoginFails
    <2>1. pc'[Startup] \notin Renewing /\ OthersStay(Startup)
      BY <1>2, <1>a, EndingPc DEF LoginFails, Places, Renewing
    <2> QED
      BY <1>2, <2>1 DEF LoginFails, Unanswered, router
  <1>3. CASE Shutdown \/ Restart \/ Tick \/ UNCHANGED vars
    BY <1>3 DEF Shutdown, Restart, Tick, vars, Quiet, session, router, history
  <1> QED
    BY <1>1, <1>2, <1>3

LEMMA StepKinds ==
  ASSUME TypeInv, [Next]_vars
  PROVE  \/ Quiet
         \/ \E a \in Actors : Begins(a) \/ Answered(a) \/ Unanswered(a) \/ ActorStep(a)
  BY TunnelKinds, KeeperKinds, OtherKinds DEF Next, Actors

-----------------------------------------------------------------------------
(* A refresh token is not presented twice.                                 *)

\* A request is on the wire only for who renews,
Wired == \A a \in Actors : wire[a].kind # "none" => pc[a] \in Renewing

\* and a refresh presents the current pair.
Presented ==
  \A a \in Actors :
    wire[a].kind \in {"refresh", "rejected"} =>
      pc[a] = "refreshing" /\ wire[a].id = tokens.id

\* A pair that was handed out has not been presented.
GrantedNew ==
  \A a \in Actors :
    wire[a].kind = "granted" => wire[a].id \in 1 .. issued /\ wire[a].id \notin spent

Numbers == tokens.id <= issued /\ spent \subseteq 1 .. issued

\* The current pair was presented only if that renewal is still under way.
InFlight == tokens.id \in spent => \E a \in Actors : pc[a] = "refreshing"

PairInv == Wired /\ Presented /\ GrantedNew /\ Numbers /\ InFlight

LEMMA PairInit == Init => PairInv
  <1> SUFFICES ASSUME Init PROVE PairInv
    OBVIOUS
  <1>1. \A a \in Actors : wire[a].kind = (IF a = Startup THEN "login" ELSE "none")
    BY DEF Init, NoWire
  <1>2. Wired
    BY <1>1 DEF Init, Wired, Renewing
  <1>3. Presented /\ GrantedNew
    BY <1>1 DEF Presented, GrantedNew
  <1>4. Numbers /\ InFlight
    BY DEF Init, Numbers, InFlight, NoTokens
  <1> QED
    BY <1>2, <1>3, <1>4 DEF PairInv

LEMMA PairTypes ==
  ASSUME TypeInv
  PROVE  /\ tokens.id \in Nat /\ issued \in Nat
         /\ \A a \in Actors : wire[a].id \in Nat
         /\ wire \in [Actors -> Wires] /\ pc \in [Actors -> Places]
  BY Naturals DEF TypeInv, SessionType, Pairs, RouterType, WireType, Wires, PcType

\* Nobody else has a request on the wire while somebody holds the mutex.
LEMMA AloneOnWire ==
  ASSUME TypeInv, Wired, NEW a \in Actors, Holds(a), NEW c \in Actors \ {a}
  PROVE  wire[c].kind = "none"
  BY Alone DEF Wired

\* Who is about to renew presents a token that is neither in flight nor spent.
LEMMA Unspent ==
  ASSUME TypeInv, PairInv, NEW a \in Actors, Holds(a), pc[a] # "refreshing"
  PROVE  tokens.id \notin spent
  BY Alone DEF PairInv, InFlight, Renewing

LEMMA PairBegins ==
  ASSUME TypeInv, PairInv, NEW a \in Actors, Begins(a)
  PROVE  PairInv'
  <1> USE DEF PairInv
  <1>1. Holds(a) /\ pc[a] \in Waiting /\ tokens' = tokens /\ issued' = issued
    BY DEF Begins
  <1>2. \A c \in Actors \ {a} : wire'[c] = wire[c] /\ wire[c].kind = "none" /\ pc'[c] = pc[c]
    BY <1>1, AloneOnWire, PairTypes DEF Begins, BeginRenew
  <1>3. CASE tokens.id # 0 /\ now < tokens.refresh_expires
    <2>1. /\ pc'[a] = "refreshing" /\ spent' = spent \cup {tokens.id}
          /\ wire'[a].kind = "refresh" /\ wire'[a].id = tokens.id
      BY <1>3, PairTypes DEF Begins, BeginRenew
    <2>2. Wired' /\ Presented' /\ GrantedNew' /\ InFlight'
      BY <1>1, <1>2, <2>1 DEF Wired, Presented, GrantedNew, InFlight, Renewing
    <2>3. Numbers'
      <3>1. tokens.id \in 1 .. issued
        BY <1>3, PairTypes DEF Numbers
      <3> QED
        BY <1>1, <2>1, <3>1 DEF Numbers
    <2> QED
      BY <2>2, <2>3
  <1>4. CASE ~(tokens.id # 0 /\ now < tokens.refresh_expires)
    <2>1. pc'[a] = "loggingIn" /\ wire'[a].kind = "login" /\ spent' = spent
      BY <1>4, PairTypes DEF Begins, BeginRenew
    <2>2. tokens.id \notin spent
      BY <1>1, Unspent DEF Waiting
    <2> QED
      BY <1>1, <1>2, <2>1, <2>2
      DEF Wired, Presented, GrantedNew, Numbers, InFlight, Renewing
  <1> QED
    BY <1>3, <1>4

LEMMA PairEnds ==
  ASSUME TypeInv, PairInv, NEW a \in Actors, Answered(a) \/ Unanswered(a)
  PROVE  PairInv'
  <1> USE DEF PairInv
  <1>1. /\ Holds(a) /\ pc'[a] \notin Renewing /\ issued' = issued
        /\ wire' = [wire EXCEPT ![a] = NoWire]
    BY TokensArrive, TokensStay DEF Answered, Unanswered, Replaced, NotReplaced
  <1>2. \A c \in Actors : wire'[c].kind = "none" /\ pc'[c] \notin Renewing
    <2>1. wire'[a].kind = "none"
      BY <1>1, PairTypes DEF NoWire
    <2>2. ASSUME NEW c \in Actors \ {a}
          PROVE  wire'[c].kind = "none" /\ pc'[c] \notin Renewing
      BY <1>1, <2>2, Alone, AloneOnWire, PairTypes
      DEF Answered, Unanswered, OthersStay
    <2> QED
      BY <1>1, <2>1, <2>2
  <1>3. Wired' /\ Presented' /\ GrantedNew'
    BY <1>2 DEF Wired, Presented, GrantedNew
  <1>4. CASE Answered(a)
    <2>1. /\ tokens'.id = wire[a].id /\ wire[a].id \in 1 .. issued
          /\ wire[a].id \notin spent /\ spent' = spent
      BY <1>4 DEF Answered, Replaced, IntoTokens, GrantedNew
    <2>2. Numbers' /\ InFlight'
      BY <1>1, <2>1, PairTypes DEF Numbers, InFlight
    <2> QED
      BY <1>3, <2>2
  <1>5. CASE Unanswered(a)
    <2>1. tokens'.id = tokens.id /\ spent' \subseteq spent
      BY <1>5 DEF Unanswered, NotReplaced
    <2>2. tokens.id \notin spent'
      BY <1>1, <1>5, Unspent DEF Unanswered, NotReplaced
    <2> QED
      BY <1>1, <1>3, <2>1, <2>2 DEF Numbers, InFlight
  <1> QED
    BY <1>4, <1>5

LEMMA PairActorStep ==
  ASSUME TypeInv, PairInv, NEW a \in Actors, ActorStep(a)
  PROVE  PairInv'
  <1> USE DEF PairInv
  <1>1. CASE RefreshRejected(a)
    <2>1. /\ pc[a] = "refreshing" /\ wire[a].id = tokens.id
          /\ spent' = spent \ {tokens.id} /\ tokens' = tokens /\ issued' = issued
      BY <1>1 DEF RefreshRejected, Presented, session, router
    <2>2. pc'[a] = "loggingIn" /\ wire'[a].kind = "login"
      BY <1>1, PairTypes DEF RefreshRejected
    <2>3. \A c \in Actors \ {a} : wire'[c] = wire[c] /\ pc'[c] = pc[c]
      BY <1>1, PairTypes DEF RefreshRejected
    <2> QED
      BY <2>1, <2>2, <2>3 DEF Wired, Presented, GrantedNew, Numbers, InFlight, Renewing
  <1>2. CASE Panics(a)
    <2>1. Holds(a) /\ pc[a] \in Renewing /\ tokens' = tokens /\ issued' = issued
      BY <1>2 DEF Panics, TypeInv, Owner, router
    <2>2. wire'[a].kind = "none" /\ pc'[a] \notin Renewing
      BY <1>2, PairTypes DEF Panics, NoWire, Renewing
    <2>3. \A c \in Actors \ {a} :
            wire'[c] = wire[c] /\ wire[c].kind = "none" /\ pc'[c] = pc[c]
      BY <1>2, <2>1, AloneOnWire DEF Panics
    <2>4. spent' \subseteq spent /\ tokens.id \notin spent'
      BY <1>2, <2>1, Unspent DEF Panics
    <2> QED
      BY <2>1, <2>2, <2>3, <2>4
      DEF Wired, Presented, GrantedNew, Numbers, InFlight
  <1>3. CASE Grants(a)
    <2>1. /\ wire[a].kind # "none" /\ issued' = issued + 1
          /\ UNCHANGED <<pc, tokens, spent>>
      BY <1>3 DEF Grants, session, history
    <2>2. wire'[a].kind = "granted" /\ wire'[a].id = issued + 1
      BY <1>3, PairTypes DEF Grants
    <2>3. \A c \in Actors \ {a} : wire'[c] = wire[c]
      BY <1>3, PairTypes DEF Grants
    <2>4. Numbers' /\ issued + 1 \notin spent
      BY <2>1, PairTypes DEF Numbers
    <2>5. GrantedNew'
      BY <2>1, <2>2, <2>3, <2>4, PairTypes DEF GrantedNew
    <2> QED
      BY <2>1, <2>2, <2>3, <2>4, <2>5 DEF Wired, Presented, InFlight
  <1>4. CASE Rejects(a)
    <2>1. /\ wire[a].kind = "refresh" /\ UNCHANGED <<pc, tokens, spent, issued>>
          /\ wire'[a].kind = "rejected" /\ wire'[a].id = wire[a].id
          /\ \A c \in Actors \ {a} : wire'[c] = wire[c]
      BY <1>4, PairTypes DEF Rejects, session, history, router, Wires
    <2> QED
      BY <2>1 DEF Wired, Presented, GrantedNew, Numbers, InFlight
  <1> QED
    BY <1>1, <1>2, <1>3, <1>4 DEF ActorStep

LEMMA PairStep == TypeInv /\ PairInv /\ [Next]_vars => PairInv'
  <1> SUFFICES ASSUME TypeInv, PairInv, [Next]_vars PROVE PairInv'
    OBVIOUS
  <1>1. CASE Quiet
    BY <1>1 DEF Quiet, PairInv, Wired, Presented, GrantedNew, Numbers, InFlight, Renewing
  <1> QED
    BY <1>1, StepKinds, PairBegins, PairEnds, PairActorStep

LEMMA PairInvariant == Spec => [](TypeInv /\ PairInv)
  BY TypeInit, TypeStep, PairInit, PairStep, PTL DEF Spec

\* No renewal presents a refresh token that another one has in flight, or whose
\* new pair has arrived.
THEOREM PresentedOnce == Spec => RefreshTokenOnce
  <1>1. ASSUME TypeInv, PairInv, [Next]_vars, NEW a \in Actors,
               pc[a] # "refreshing", pc'[a] = "refreshing"
        PROVE  wire'[a].id \notin spent
    <2>1. Begins(a)
      <3>1. ~Quiet
        BY <1>1 DEF Quiet, Renewing
      <3>2. ASSUME NEW c \in Actors, Answered(c) \/ Unanswered(c)
            PROVE  FALSE
        BY <1>1, <3>2 DEF Answered, Unanswered, OthersStay, Renewing
      <3>3. ASSUME NEW c \in Actors, ActorStep(c)
            PROVE  FALSE
        BY <1>1, <3>3, PairTypes
        DEF ActorStep, RefreshRejected, Panics, Grants, Rejects
      <3>4. ASSUME NEW c \in Actors, Begins(c)
            PROVE  c = a
        BY <1>1, <3>4, PairTypes DEF Begins, BeginRenew
      <3> QED
        BY <1>1, <3>1, <3>2, <3>3, <3>4, StepKinds
    <2>2. wire'[a].id = tokens.id
      BY <1>1, <2>1, PairTypes DEF Begins, BeginRenew
    <2>3. tokens.id \notin spent
      BY <1>1, <2>1, Unspent DEF Begins
    <2> QED
      BY <2>2, <2>3
  <1>2. TypeInv /\ PairInv /\ [Next]_vars =>
          [\A a \in Actors :
             pc[a] # "refreshing" /\ pc'[a] = "refreshing" => wire'[a].id \notin spent]_vars
    BY <1>1
  <1> QED
    BY <1>2, PairInvariant, PTL DEF Spec, RefreshTokenOnce

-----------------------------------------------------------------------------
(* When a renewal begins, and how old a token may be handed out.           *)

\* A postponed renewal is not postponed by more than RENEW_RETRY_DELAY past expiry.
RenewSoon ==
  tokens.renew_at <= now \/ tokens.renew_at < tokens.access_expires + RenewRetryDelay

\* There is reason to renew: it is time, or the gateway refused the access token.
WithReason == tokens.id = 0 \/ now >= scheduled \/ tokens.id \in refused

\* The renewal is brought forward only with reason, and begins only with reason.
Scheduled == tokens.renew_at >= scheduled \/ WithReason
NeedKept  == \A a \in Actors : pc[a] \in Renewing => WithReason

\* What a tunnel is about to report was refused.
Reported == \A t \in Tunnels : pc[t] = "reporting" => carried[t] \in refused

TimeInv == RenewSoon /\ Scheduled /\ NeedKept /\ Reported

\* What a step does to the current pair: nothing,
Kept == tokens' = tokens

\* a tunnel goes on with it and its renewal is postponed,
Postponed(a) ==
  /\ pc[a] \in Renewing /\ UseCurrentInstead(a)

\* or a tunnel reports that it was refused. (Else it is replaced: Answered.)
Marked(a) == a \in Tunnels /\ pc[a] = "reporting" /\ Rejected(a)

LEMMA TimeTypes ==
  ASSUME TypeInv
  PROVE  /\ now \in Nat /\ scheduled \in Nat /\ RenewRetryDelay \in Nat \ {0}
         /\ tokens \in Pairs /\ tokens.renew_at \in Nat /\ tokens.access_expires \in Nat
         /\ pc \in [Actors -> Places]
  BY TimesAssumption DEF TypeInv, ClockType, SessionType, Pairs, HistoryType, PcType

LEMMA TunnelTime ==
  ASSUME TypeInv, NEW t \in Tunnels, TunnelStep(t)
  PROVE  /\ Answered(t) \/ ((Kept \/ Postponed(t) \/ Marked(t)) /\ scheduled' = scheduled)
         /\ now' = now /\ refused \subseteq refused'
  <1>1. CASE TunnelRenewed(t)
    BY <1>1, TunnelAnswered DEF Answered
  <1>2. CASE TunnelNotRenewed(t)
    BY <1>2 DEF TunnelNotRenewed, Kept, Postponed, NotReplaced, Renewing
  <1>3. CASE ReportRejected(t)
    BY <1>3 DEF ReportRejected, Marked, history
  <1>4. CASE OpenTunnel(t) \/ UseToken(t) \/ RenewForTunnel(t) \/ Connected(t) \/ Refused(t)
             \/ RefusedAgain(t) \/ ConnectFails(t) \/ CloseTunnel(t)
    BY <1>4 DEF OpenTunnel, UseToken, RenewForTunnel, Connected, Refused, RefusedAgain,
       ConnectFails, CloseTunnel, Kept, session, history
  <1> QED
    BY <1>1, <1>2, <1>3, <1>4 DEF TunnelStep

LEMMA OtherTime ==
  ASSUME TypeInv,
         \/ KeeperStep \/ LoginSucceeds \/ LoginFails \/ Shutdown \/ Restart \/ Tick
         \/ UNCHANGED vars \/ \E a \in Actors : ActorStep(a)
  PROVE  /\ \/ \E a \in Actors : Answered(a)
            \/ Kept /\ scheduled' = scheduled
         /\ now' >= now /\ refused \subseteq refused'
  <1>a. Keeper \in Actors /\ Startup \in Actors /\ now \in Nat
    BY TimeTypes DEF Actors
  <1>1. CASE KeeperRenewed
    BY <1>1, <1>a, KeeperAnswered DEF Answered
  <1>2. CASE LoginSucceeds
    BY <1>2, <1>a, LoginAnswered DEF Answered
  <1>3. CASE Plan \/ Sleep \/ Wake \/ NotDueAnyMore \/ RenewForKeeper \/ KeeperNotRenewed
    BY <1>3, <1>a DEF Plan, Sleep, Wake, NotDueAnyMore, RenewForKeeper, KeeperNotRenewed,
       NotReplaced, Kept, session, history
  <1>4. CASE LoginFails \/ Shutdown \/ Restart \/ Tick \/ UNCHANGED vars
    BY <1>4, <1>a DEF LoginFails, NotReplaced, Shutdown, Restart, Tick, vars, Kept, session, history
  <1>5. CASE \E a \in Actors : ActorStep(a)
    BY <1>5, <1>a DEF ActorStep, RefreshRejected, Panics, Grants, Rejects, Kept, session, history
  <1> QED
    BY <1>1, <1>2, <1>3, <1>4, <1>5 DEF KeeperStep

LEMMA StepTime ==
  ASSUME TypeInv, [Next]_vars
  PROVE  /\ \/ \E a \in Actors : Answered(a)
            \/ /\ Kept \/ \E t \in Tunnels : Postponed(t) \/ Marked(t)
               /\ scheduled' = scheduled
         /\ now' >= now /\ refused \subseteq refused'
  <1>1. CASE \E t \in Tunnels : TunnelStep(t)
    BY <1>1, TunnelTime, TimeTypes DEF Actors
  <1>2. CASE ~ \E t \in Tunnels : TunnelStep(t)
    BY <1>2, OtherTime DEF Next
  <1> QED
    BY <1>1, <1>2

\* A renewal that was not under way begins.
LEMMA RenewingFrom ==
  ASSUME TypeInv, [Next]_vars, NEW a \in Actors, pc'[a] \in Renewing, pc[a] \notin Renewing
  PROVE  Begins(a)
  <1>1. ~Quiet
    BY DEF Quiet
  <1>2. ASSUME NEW c \in Actors, Answered(c) \/ Unanswered(c)
        PROVE  FALSE
    BY <1>2 DEF Answered, Unanswered, OthersStay
  <1>3. ASSUME NEW c \in Actors, ActorStep(c)
        PROVE  FALSE
    BY <1>3, TimeTypes DEF ActorStep, RefreshRejected, Panics, Grants, Rejects, Renewing
  <1>4. ASSUME NEW c \in Actors, Begins(c)
        PROVE  c = a
    BY <1>4, TimeTypes DEF Begins, BeginRenew
  <1> QED
    BY <1>1, <1>2, <1>3, <1>4, StepKinds

LEMMA ReasonStays ==
  ASSUME TypeInv, WithReason, Kept \/ \E t \in Tunnels : Postponed(t) \/ Marked(t),
         scheduled' = scheduled, now' >= now, now' \in Nat, refused \subseteq refused'
  PROVE  WithReason'
  <1>1. tokens'.id = tokens.id
    BY TimeTypes DEF Kept, Postponed, UseCurrentInstead, Marked, Rejected, Pairs
  <1> QED
    BY <1>1, TimeTypes DEF WithReason

LEMMA ReportedStep ==
  ASSUME TypeInv, Reported, [Next]_vars
  PROVE  Reported'
  <1>1. refused \subseteq refused'
    BY StepTime
  <1>2. ASSUME NEW t \in Tunnels, pc'[t] = "reporting"
        PROVE  \/ pc[t] = "reporting" /\ carried'[t] = carried[t]
               \/ carried'[t] \in refused'
    <2>a. t \in Actors /\ pc \in [Actors -> Places] /\ carried \in [Tunnels -> 0 .. MaxIssued]
          /\ t # Keeper /\ t # Startup
      BY TimeTypes, ActorsAssumption DEF Actors, TypeInv, TunnelType
    <2>1. CASE \E u \in Tunnels : TunnelStep(u)
      <3>1. PICK u \in Tunnels : TunnelStep(u)
        BY <2>1
      <3>2. CASE OpenTunnel(u) \/ UseToken(u) \/ TunnelRenewed(u)
        BY <1>2, <2>a, <3>2 DEF OpenTunnel, UseToken, TunnelRenewed, tunnels
      <3>3. CASE RenewForTunnel(u)
        BY <1>2, <2>a, <3>3 DEF RenewForTunnel, BeginRenew, tunnels
      <3>4. CASE TunnelNotRenewed(u)
        BY <1>2, <2>a, <3>4 DEF TunnelNotRenewed, UseCurrentInstead, GiveUp
      <3>5. CASE Connected(u) \/ ConnectFails(u) \/ RefusedAgain(u)
        BY <1>2, <2>a, <3>5 DEF Connected, ConnectFails, RefusedAgain, GiveUp
      <3>6. CASE Refused(u)
        BY <1>2, <2>a, <3>6 DEF Refused
      <3>7. CASE ReportRejected(u) \/ CloseTunnel(u)
        BY <1>2, <2>a, <3>7 DEF ReportRejected, CloseTunnel, tunnels
      <3> QED
        BY <3>1, <3>2, <3>3, <3>4, <3>5, <3>6, <3>7 DEF TunnelStep
    <2>2. CASE KeeperStep
      BY <1>2, <2>a, <2>2 DEF KeeperStep, Plan, Sleep, Wake, NotDueAnyMore, RenewForKeeper,
         BeginRenew, KeeperRenewed, KeeperNotRenewed, NoFailure, tunnels
    <2>3. CASE \E a \in Actors : ActorStep(a)
      BY <1>2, <2>a, <2>3 DEF ActorStep, RefreshRejected, Panics, Grants, Rejects, tunnels
    <2>4. CASE LoginSucceeds \/ LoginFails \/ Shutdown \/ Restart \/ Tick \/ UNCHANGED vars
      BY <1>2, <2>a, <2>4 DEF LoginSucceeds, LoginFails, Shutdown, Restart, Tick, vars, tunnels
    <2> QED
      BY <2>1, <2>2, <2>3, <2>4 DEF Next
  <1> QED
    BY <1>1, <1>2 DEF Reported

LEMMA TimeInit == Init => TimeInv
  <1> SUFFICES ASSUME Init PROVE TimeInv
    OBVIOUS
  <1>1. tokens.id = 0 /\ tokens.renew_at = 0 /\ now = 0
    BY DEF Init, NoTokens
  <1>2. \A t \in Tunnels : pc[t] # "reporting"
    BY DEF Init, Actors
  <1> QED
    BY <1>1, <1>2 DEF TimeInv, RenewSoon, Scheduled, WithReason, NeedKept, Reported

LEMMA TimeStep == TypeInv /\ TimeInv /\ [Next]_vars => TimeInv'
  <1> SUFFICES ASSUME TypeInv, TimeInv, [Next]_vars PROVE TimeInv'
    OBVIOUS
  <1>a. now' >= now /\ now' \in Nat /\ refused \subseteq refused' /\ Reported'
    BY StepTime, TypeStep, ReportedStep DEF TimeInv, TypeInv, ClockType
  <1>1. CASE \E a \in Actors : Answered(a)
    <2>1. PICK a \in Actors : Answered(a)
      BY <1>1
    <2>2. wire[a].ttl \in Nat /\ now' = now
      BY <2>1, WireField DEF TypeInv, Answered
    <2>3. /\ tokens'.renew_at = now + (4 * wire[a].ttl) \div 5 /\ scheduled' = tokens'.renew_at
          /\ tokens'.access_expires = now + wire[a].ttl
      BY <2>1 DEF Answered, Replaced, IntoTokens
    <2>4. RenewSoon'
      BY <2>2, <2>3, Durations, TimeTypes DEF RenewSoon
    <2>5. Scheduled'
      BY <1>a, <2>2, <2>3, Durations DEF Scheduled
    <2>6. \A c \in Actors : pc'[c] \notin Renewing
      BY <2>1, TokensArrive, Alone DEF Answered, OthersStay
    <2> QED
      BY <1>a, <2>4, <2>5, <2>6 DEF TimeInv, NeedKept
  <1>2. CASE ~ \E a \in Actors : Answered(a)
    <2>1. /\ Kept \/ \E t \in Tunnels : Postponed(t) \/ Marked(t)
          /\ scheduled' = scheduled
      BY <1>2, StepTime
    <2>2. WithReason => WithReason'
      BY <1>a, <2>1, ReasonStays
    <2>3. NeedKept'
      <3>1. ASSUME NEW a \in Actors, pc'[a] \in Renewing, pc[a] \notin Renewing
            PROVE  WithReason
        BY <3>1, RenewingFrom, TimeTypes
        DEF Begins, Due, TimeInv, Scheduled, WithReason
      <3> QED
        BY <2>2, <3>1 DEF NeedKept, TimeInv
    <2>4. CASE Kept
      BY <1>a, <2>1, <2>2, <2>3, <2>4, TimeTypes DEF Kept, TimeInv, RenewSoon, Scheduled
    <2>5. CASE \E t \in Tunnels : Postponed(t)
      <3>1. PICK t \in Tunnels : Postponed(t)
        BY <2>5
      <3>2. /\ tokens'.renew_at = now + RenewRetryDelay /\ now < tokens.access_expires
            /\ tokens'.access_expires = tokens.access_expires
        BY <3>1, TimeTypes DEF Postponed, UseCurrentInstead, Pairs
      <3>3. WithReason
        BY <3>1 DEF Postponed, TimeInv, NeedKept, Actors
      <3> QED
        BY <1>a, <2>2, <2>3, <3>2, <3>3, TimeTypes DEF TimeInv, RenewSoon, Scheduled
    <2>6. CASE \E t \in Tunnels : Marked(t) /\ ~Kept
      <3>1. PICK t \in Tunnels : Marked(t) /\ ~Kept
        BY <2>6
      <3>2. tokens'.renew_at = now /\ tokens.id \in refused
        BY <3>1, TimeTypes DEF Marked, Rejected, Kept, Pairs, TimeInv, Reported
      <3> QED
        BY <1>a, <2>2, <2>3, <3>2, TimeTypes DEF TimeInv, RenewSoon, Scheduled, WithReason
    <2> QED
      BY <2>1, <2>4, <2>5, <2>6
  <1> QED
    BY <1>1, <1>2

LEMMA TimeInvariant == Spec => [](TypeInv /\ TimeInv)
  BY TypeInit, TypeStep, TimeInit, TimeStep, PTL DEF Spec

\* Nobody renews a pair before it is time to, unless its access token was refused.
THEOREM OnlyWhenNeeded == Spec => RenewalIsNeeded
  <1>1. TypeInv /\ TimeInv /\ [Next]_vars =>
          [\A a \in Actors :
             pc[a] \in Waiting /\ pc'[a] \in Renewing =>
               tokens.id = 0 \/ now >= scheduled \/ tokens.id \in refused]_vars
    <2> SUFFICES ASSUME TypeInv, TimeInv, [Next]_vars, NEW a \in Actors,
                        pc[a] \in Waiting, pc'[a] \in Renewing
                 PROVE  WithReason
      BY DEF WithReason
    <2>1. Begins(a)
      BY RenewingFrom DEF Waiting, Renewing
    <2> QED
      BY <2>1, TimeTypes DEF Begins, Due, TimeInv, Scheduled, WithReason
  <1> QED
    BY <1>1, TimeInvariant, PTL DEF Spec, RenewalIsNeeded

\* A tunnel is given no access token that expired RENEW_RETRY_DELAY ago or earlier.
THEOREM NeverLongExpired == Spec => ExpiredOnlyBriefly
  <1>1. TypeInv /\ TimeInv /\ [Next]_vars =>
          [\A t \in Tunnels :
             HandedOut(t) => now < tokens'.access_expires + RenewRetryDelay]_vars
    <2> SUFFICES ASSUME TypeInv, TimeInv, Next, NEW t \in Tunnels,
                        pc[t] # "connecting", pc'[t] = "connecting"
                 PROVE  now < tokens'.access_expires + RenewRetryDelay
      BY DEF HandedOut, vars
    <2>1. UseToken(t) \/ TunnelRenewed(t) \/ (TunnelNotRenewed(t) /\ UseCurrentInstead(t))
      <3>a. t \in Actors /\ pc \in [Actors -> Places] /\ t # Keeper /\ t # Startup
        BY TimeTypes, ActorsAssumption DEF Actors
      <3>1. ~KeeperStep
        BY <3>a DEF KeeperStep, Plan, Sleep, Wake, NotDueAnyMore, RenewForKeeper,
           BeginRenew, KeeperRenewed, KeeperNotRenewed, NoFailure
      <3>2. \A a \in Actors : ~ActorStep(a)
        BY <3>a DEF ActorStep, RefreshRejected, Panics, Grants, Rejects
      <3>3. ~(LoginSucceeds \/ LoginFails \/ Shutdown \/ Restart \/ Tick)
        BY <3>a DEF LoginSucceeds, LoginFails, Shutdown, Restart, Tick
      <3>4. PICK u \in Tunnels : TunnelStep(u)
        BY <3>1, <3>2, <3>3 DEF Next
      <3>5. ~(OpenTunnel(u) \/ Connected(u) \/ Refused(u) \/ RefusedAgain(u)
              \/ ConnectFails(u) \/ ReportRejected(u) \/ CloseTunnel(u) \/ RenewForTunnel(u))
        BY <3>a DEF OpenTunnel, Connected, Refused, RefusedAgain, ConnectFails, ReportRejected,
           CloseTunnel, RenewForTunnel, BeginRenew, GiveUp
      <3>6. UseToken(u) \/ TunnelRenewed(u) \/ (TunnelNotRenewed(u) /\ UseCurrentInstead(u))
            \/ (TunnelNotRenewed(u) /\ GiveUp(u))
        BY <3>4, <3>5 DEF TunnelStep, TunnelNotRenewed
      <3>7. ~GiveUp(u)
        BY <3>a DEF GiveUp
      <3>8. u = t
        BY <3>a, <3>6, <3>7 DEF UseToken, TunnelRenewed, UseCurrentInstead
      <3> QED
        BY <3>6, <3>7, <3>8
    <2>2. CASE UseToken(t)
      BY <2>2, TimeTypes DEF UseToken, Due, TimeInv, RenewSoon
    <2>3. CASE TunnelRenewed(t)
      <3>1. wire[t].ttl \in Nat
        BY WireField DEF TypeInv, Actors
      <3>2. tokens'.access_expires = now + wire[t].ttl
        BY <2>3 DEF TunnelRenewed, Replaced, IntoTokens
      <3> QED
        BY <3>1, <3>2, TimeTypes
    <2>4. CASE UseCurrentInstead(t)
      BY <2>4, TimeTypes DEF UseCurrentInstead, Pairs
    <2> QED
      BY <2>1, <2>2, <2>3, <2>4
  <1> QED
    BY <1>1, TimeInvariant, PTL DEF Spec, ExpiredOnlyBriefly

-----------------------------------------------------------------------------
(* The pace of keep_fresh.                                                 *)

\* What sets the end of the sleep: after a failure retry_at is late enough, and
\* otherwise the least interval, counted from when the sleep begins.
Spaced == quiet_until <= now + MinInterval \/ (retry_at # 0 /\ quiet_until <= retry_at)

PaceInv ==
  /\ pc[Startup] \in Renewing => pc[Keeper] = "unborn"
  /\ pc[Keeper] = "unborn" => quiet_until = 0
  /\ pc[Keeper] \in {"planning", "waiting"} => Spaced
  /\ pc[Keeper] = "waiting" => seen <= now
  /\ pc[Keeper] = "asleep" => quiet_until <= wake_at
  /\ pc[Keeper] \in {"checking", "refreshing", "loggingIn"} => quiet_until <= now

LEMMA PaceTypes ==
  ASSUME TypeInv
  PROVE  /\ now \in Nat /\ seen \in Nat /\ wake_at \in Nat /\ retry_at \in Nat /\ quiet_until \in Nat
         /\ retry_delay \in Nat /\ retry_delay >= RenewRetryDelay
         /\ MinInterval \in Nat /\ RenewRetryDelay \in Nat /\ RenewRetryDelay > 0
         /\ tokens.renew_at \in Nat
         /\ Keeper \in Actors /\ Startup \in Actors /\ pc \in [Actors -> Places]
<1>1. retry_delay \in RenewRetryDelay .. MaxRetryDelay
  BY DEF TypeInv, KeeperType
<1>2. retry_delay \in Nat /\ retry_delay >= RenewRetryDelay
  BY <1>1, Naturals
<1> QED BY <1>2, TimesAssumption, TimeTypes DEF TypeInv, ClockType, KeeperType, HistoryType, Actors

LEMMA PaceFrame ==
  ASSUME TypeInv, PaceInv, UNCHANGED <<keeper, quiet_until>>, pc'[Keeper] = pc[Keeper],
         pc'[Startup] \in Renewing => pc[Startup] \in Renewing, now' \in Nat, now' >= now
  PROVE  PaceInv'
  BY PaceTypes DEF PaceInv, Spaced, keeper

LEMMA PaceKeeper ==
  ASSUME TypeInv, PaceInv, KeeperStep
  PROVE  PaceInv'
<1> USE PaceTypes
<1>a. pc'[Startup] = pc[Startup] /\ pc[Keeper] # "unborn"
  BY ActorsAssumption DEF KeeperStep, Plan, Sleep, Wake, NotDueAnyMore, NoFailure,
     RenewForKeeper, BeginRenew, KeeperRenewed, KeeperNotRenewed, Replaced, NotReplaced, Renewing
<1>b. pc'[Startup] \notin Renewing
  BY <1>a DEF PaceInv
<1> USE <1>b
<1>1. CASE Plan
  BY <1>1 DEF Plan, PaceInv, Spaced, history
<1>2. CASE Sleep
  <2>1. /\ pc'[Keeper] = "asleep" /\ UNCHANGED quiet_until
        /\ wake_at' = now + MaxOf(BackgroundDue - seen, MinInterval)
    BY <1>2 DEF Sleep, history
  <2>2. BackgroundDue \in Nat /\ (retry_at # 0 => BackgroundDue >= retry_at)
    BY DEF BackgroundDue, MaxOf
  <2>3. Spaced /\ seen <= now
    BY <1>2 DEF Sleep, PaceInv
  <2>4. PICK due \in Nat : due = BackgroundDue
    BY <2>2
  <2>5. /\ wake_at' \in Int /\ wake_at' >= now + MinInterval
        /\ wake_at' >= now + (due - seen)
    BY <2>1, <2>4 DEF MaxOf
  <2>6. quiet_until <= wake_at'
    BY <2>2, <2>3, <2>4, <2>5 DEF Spaced
  <2> QED BY <2>1, <2>6 DEF PaceInv
<1>3. CASE Wake
  BY <1>3 DEF Wake, PaceInv, history
<1>4. CASE NotDueAnyMore
  BY <1>4 DEF NotDueAnyMore, NoFailure, PaceInv, Spaced, history
<1>5. CASE RenewForKeeper
  <2>1. pc'[Keeper] \in {"refreshing", "loggingIn"} /\ UNCHANGED <<now, quiet_until>>
    BY <1>5 DEF RenewForKeeper, BeginRenew
  <2>2. quiet_until <= now
    BY <1>5 DEF RenewForKeeper, PaceInv
  <2> QED BY <2>1, <2>2 DEF PaceInv
<1>6. CASE KeeperRenewed
  BY <1>6 DEF KeeperRenewed, NoFailure, PaceInv, Spaced
<1>7. CASE KeeperNotRenewed
  <2>1. /\ pc'[Keeper] = "planning" /\ now' = now
        /\ retry_at' = now + retry_delay /\ quiet_until' = now + RenewRetryDelay
    BY <1>7 DEF KeeperNotRenewed
  <2> QED BY <2>1 DEF PaceInv, Spaced
<1> QED BY <1>1, <1>2, <1>3, <1>4, <1>5, <1>6, <1>7 DEF KeeperStep

LEMMA PaceStep == TypeInv /\ PaceInv /\ [Next]_vars => PaceInv'
<1> SUFFICES ASSUME TypeInv, PaceInv, [Next]_vars PROVE PaceInv'
  OBVIOUS
<1>a. now' >= now /\ now' \in Nat
  BY StepTime, TypeStep DEF TypeInv, ClockType
<1>1. CASE KeeperStep
  BY <1>1, PaceKeeper
<1>2. CASE \E t \in Tunnels : TunnelStep(t)
  <2>1. PICK t \in Tunnels : TunnelStep(t)
    BY <1>2
  <2>2. UNCHANGED <<keeper, quiet_until>>
    BY <2>1 DEF TunnelStep, OpenTunnel, UseToken, RenewForTunnel, TunnelRenewed, TunnelNotRenewed,
       Connected, Refused, RefusedAgain, ConnectFails, ReportRejected, CloseTunnel, history
  <2>3. \E p \in Places : pc' = [pc EXCEPT ![t] = p]
    BY <2>1 DEF TunnelStep, OpenTunnel, UseToken, RenewForTunnel, BeginRenew, TunnelRenewed,
       TunnelNotRenewed, UseCurrentInstead, GiveUp, Connected, Refused, RefusedAgain,
       ConnectFails, ReportRejected, CloseTunnel, Places, Waiting, Renewing
  <2>4. pc'[Keeper] = pc[Keeper] /\ pc'[Startup] = pc[Startup]
    BY <2>3, PaceTypes, ActorsAssumption
  <2> QED BY <1>a, <2>2, <2>4, PaceFrame
<1>3. CASE LoginSucceeds
  <2>1. /\ pc'[Keeper] = "planning" /\ pc[Keeper] = "unborn" /\ pc'[Startup] = "ended"
        /\ now' = now /\ UNCHANGED quiet_until
    BY <1>3, PaceTypes, ActorsAssumption DEF LoginSucceeds, Replaced, PaceInv
  <2> QED BY <2>1, PaceTypes DEF PaceInv, Spaced, Renewing
<1>4. CASE LoginFails \/ Shutdown \/ Restart \/ Tick \/ UNCHANGED vars
  <2>1. /\ UNCHANGED <<keeper, quiet_until>> /\ pc'[Keeper] = pc[Keeper]
        /\ pc'[Startup] \in Renewing => pc[Startup] \in Renewing
    BY <1>4, PaceTypes, ActorsAssumption
    DEF Renewing, LoginFails, Shutdown, Restart, Tick, vars, history
  <2> QED BY <1>a, <2>1, PaceFrame
<1>5. CASE \E a \in Actors : ActorStep(a)
  <2>1. PICK a \in Actors : ActorStep(a)
    BY <1>5
  <2>2. UNCHANGED <<keeper, quiet_until>>
    BY <2>1 DEF ActorStep, RefreshRejected, Panics, Grants, Rejects, history
  <2>a. pc'[Startup] \in Renewing => pc[Startup] \in Renewing
    BY <2>1, PaceTypes DEF Renewing, ActorStep, RefreshRejected, Panics, Grants, Rejects
  <2>3. CASE pc'[Keeper] = pc[Keeper]
    BY <1>a, <2>a, <2>2, <2>3, PaceFrame
  <2>4. CASE pc'[Keeper] # pc[Keeper]
    <3>1. pc'[Keeper] \in {"loggingIn", "ended"}
      BY <2>1, <2>4, PaceTypes, ActorsAssumption
      DEF ActorStep, RefreshRejected, Panics, Grants, Rejects
    <3>2. pc'[Keeper] = "loggingIn" => quiet_until <= now
      BY <2>1, <2>4, PaceTypes
      DEF ActorStep, RefreshRejected, Panics, Grants, Rejects, PaceInv
    <3>3. pc[Keeper] # "unborn"
      BY <2>1, <2>4, PaceTypes DEF Renewing, ActorStep, RefreshRejected, Panics, Grants, Rejects
    <3> QED BY <1>a, <2>2, <2>a, <3>1, <3>2, <3>3, PaceTypes DEF PaceInv
  <2> QED BY <2>3, <2>4
<1> QED BY <1>1, <1>2, <1>3, <1>4, <1>5 DEF Next

\* A background renewal begins at least MIN_BACKGROUND_INTERVAL after the last one
\* ended, and RENEW_RETRY_DELAY after a failed one, whatever lifetimes the
\* router names (session.rs 40-45).
THEOREM KeepsPace == Spec => BackgroundPace
<1>1. Init => PaceInv
  BY ActorsAssumption DEF Init, PaceInv, Actors
<1>2. Spec => [](TypeInv /\ PaceInv)
  BY TypeInit, TypeStep, PaceStep, <1>1, PTL DEF Spec
<1>3. TypeInv /\ PaceInv /\ [Next]_vars =>
        [pc[Keeper] = "checking" /\ pc'[Keeper] \in Renewing => now >= quiet_until]_vars
  BY PaceTypes DEF PaceInv
<1> QED BY <1>2, <1>3, PTL DEF Spec, BackgroundPace

-----------------------------------------------------------------------------
(* The second try of a tunnel.                                             *)

\* Answers carry pairs later than the current one, and tunnels no later ones.
Later ==
  /\ \A a \in Actors : wire[a].kind = "granted" => tokens.id < wire[a].id
  /\ \A t \in Tunnels : carried[t] <= tokens.id

\* The token that a tunnel has reported is due, replaced, or could not be renewed.
Followed(t) ==
  tokens.id = carried[t] => tokens.renew_at <= now \/ carried[t] \in unrenewed

RetryInv ==
  /\ Later
  /\ \A t \in Tunnels : pc[t] \in {"idle", "open"} => ~renewed[t]
  /\ \A t \in Tunnels : pc[t] = "authorizing" /\ renewed[t] => Followed(t)

LEMMA RetryTypes ==
  ASSUME TypeInv
  PROVE  /\ Tunnels \subseteq Actors /\ Startup \notin Tunnels /\ Keeper \notin Tunnels
         /\ pc \in [Actors -> Places] /\ wire \in [Actors -> Wires]
         /\ carried \in [Tunnels -> 0 .. MaxIssued] /\ renewed \in [Tunnels -> BOOLEAN]
         /\ \A t \in Tunnels : carried[t] \in Nat
         /\ \A a \in Actors : wire[a].id \in Nat
         /\ tokens.id \in Nat /\ issued \in Nat /\ now \in Nat /\ tokens.renew_at \in Nat
  BY ActorsAssumption, PairTypes, TimeTypes, Naturals DEF Actors, TypeInv, TunnelType

\* What a step does to a tunnel that does not take it: nothing.
LEMMA OneTunnelMoves ==
  ASSUME TypeInv, [Next]_vars, NEW t \in Tunnels
  PROVE  \/ pc'[t] = pc[t] /\ carried'[t] = carried[t] /\ renewed'[t] = renewed[t]
         \/ TunnelStep(t)
         \/ Panics(t)
         \/ pc[t] = "refreshing" /\ pc'[t] = "loggingIn" /\ carried'[t] = carried[t]
            /\ renewed'[t] = renewed[t]
<1> USE RetryTypes
<1>1. CASE \E u \in Tunnels : TunnelStep(u)
  <2>1. PICK u \in Tunnels : TunnelStep(u)
    BY <1>1
  <2>2. CASE u # t
    <3>1. pc'[t] = pc[t]
      BY <2>1, <2>2 DEF TunnelStep, OpenTunnel, UseToken, RenewForTunnel, BeginRenew,
         TunnelRenewed, TunnelNotRenewed, UseCurrentInstead, GiveUp, Connected, Refused,
         RefusedAgain, ConnectFails, ReportRejected, CloseTunnel
    <3>2. carried'[t] = carried[t]
      BY <2>1, <2>2 DEF TunnelStep, OpenTunnel, UseToken, RenewForTunnel, TunnelRenewed,
         TunnelNotRenewed, UseCurrentInstead, GiveUp, Connected, Refused, RefusedAgain,
         ConnectFails, ReportRejected, CloseTunnel, tunnels
    <3>3. renewed'[t] = renewed[t]
      BY <2>1, <2>2 DEF TunnelStep, OpenTunnel, UseToken, RenewForTunnel, TunnelRenewed,
         TunnelNotRenewed, UseCurrentInstead, GiveUp, Connected, Refused, RefusedAgain,
         ConnectFails, ReportRejected, CloseTunnel, tunnels
    <3> QED BY <3>1, <3>2, <3>3
  <2> QED BY <2>1, <2>2
<1>2. CASE KeeperStep \/ LoginSucceeds \/ LoginFails \/ Shutdown \/ Restart \/ Tick \/ UNCHANGED vars
  <2>1. UNCHANGED tunnels
    BY <1>2 DEF KeeperStep, Plan, Sleep, Wake, NotDueAnyMore, RenewForKeeper, KeeperRenewed,
       KeeperNotRenewed, LoginSucceeds, LoginFails, Shutdown, Restart, Tick, vars
  <2>2. pc'[t] = pc[t]
    BY <1>2 DEF KeeperStep, Plan, Sleep, Wake, NotDueAnyMore, NoFailure, RenewForKeeper, BeginRenew,
       KeeperRenewed, KeeperNotRenewed, LoginSucceeds, LoginFails, Shutdown, Restart, Tick, vars
  <2> QED BY <2>1, <2>2 DEF tunnels
<1>3. CASE \E a \in Actors : ActorStep(a)
  <2>1. PICK a \in Actors : ActorStep(a)
    BY <1>3
  <2>2. CASE Panics(a) /\ a # t
    BY <2>2 DEF Panics
  <2>3. CASE RefreshRejected(a)
    BY <2>3 DEF RefreshRejected, tunnels
  <2>4. CASE Grants(a) \/ Rejects(a)
    BY <2>4 DEF Grants, Rejects, tunnels
  <2> QED BY <2>1, <2>2, <2>3, <2>4 DEF ActorStep
<1> QED BY <1>1, <1>2, <1>3 DEF Next

LEMMA UnrenewedGrows ==
  ASSUME [Next]_vars
  PROVE  unrenewed \subseteq unrenewed'
  BY DEF Next, ActorStep, RefreshRejected, Panics, Grants, Rejects, LoginSucceeds, LoginFails,
     NotReplaced, Shutdown, TunnelStep, OpenTunnel, UseToken, RenewForTunnel, TunnelRenewed,
     TunnelNotRenewed, Connected, Refused, RefusedAgain, ConnectFails, ReportRejected, CloseTunnel,
     KeeperStep, Plan, Sleep, Wake, NotDueAnyMore, RenewForKeeper, KeeperRenewed, KeeperNotRenewed,
     Restart, Tick, history, vars

\* The current pair only ever becomes a later one.
LEMMA IdGrows ==
  ASSUME TypeInv, Later, [Next]_vars
  PROVE  tokens'.id \in Nat /\ tokens'.id >= tokens.id
<1> USE RetryTypes
<1>1. CASE \E a \in Actors : Answered(a)
  <2>1. PICK a \in Actors : Answered(a)
    BY <1>1
  <2>2. tokens'.id = wire[a].id /\ wire[a].kind = "granted"
    BY <2>1 DEF Answered, Replaced, IntoTokens
  <2> QED BY <2>2 DEF Later
<1>2. CASE Kept \/ \E t \in Tunnels : Postponed(t) \/ Marked(t)
  <2>1. tokens'.id = tokens.id
    BY <1>2, TimeTypes DEF Kept, Postponed, UseCurrentInstead, Marked, Rejected, Pairs
  <2> QED BY <2>1
<1> QED BY <1>1, <1>2, StepTime

LEMMA GrantsLater ==
  ASSUME TypeInv, PairInv, Later, [Next]_vars, NEW c \in Actors, wire'[c].kind = "granted"
  PROVE  tokens'.id < wire'[c].id
<1> USE RetryTypes
<1>1. CASE Quiet
  BY <1>1 DEF Quiet, Later
<1>2. ASSUME NEW a \in Actors, Begins(a) PROVE tokens'.id < wire'[c].id
  BY <1>2 DEF Begins, BeginRenew, Later
<1>3. ASSUME NEW a \in Actors, Answered(a) \/ Unanswered(a) PROVE tokens'.id < wire'[c].id
  <2>1. Holds(a) /\ wire' = [wire EXCEPT ![a] = NoWire]
    BY <1>3, TokensArrive, TokensStay DEF Answered, Unanswered, Replaced, NotReplaced
  <2>2. c # a /\ wire[c].kind = "granted"
    BY <2>1 DEF NoWire
  <2> QED BY <2>1, <2>2, AloneOnWire DEF PairInv
<1>4. ASSUME NEW a \in Actors, ActorStep(a) PROVE tokens'.id < wire'[c].id
  <2>1. CASE Grants(a)
    <3>1. tokens' = tokens /\ tokens.id <= issued
      BY <2>1 DEF Grants, session, PairInv, Numbers
    <3>2. PICK ttl \in AccessTtls :
            wire' = [wire EXCEPT ![a] = [kind |-> "granted", id |-> issued + 1, ttl |-> ttl]]
      BY <2>1 DEF Grants
    <3>3. CASE c = a
      BY <3>1, <3>2, <3>3
    <3>4. CASE c # a
      BY <3>1, <3>2, <3>4 DEF Later
    <3> QED BY <3>3, <3>4
  <2>2. CASE RefreshRejected(a) \/ Panics(a) \/ Rejects(a)
    <3>1. tokens' = tokens
      BY <2>2 DEF RefreshRejected, Panics, Rejects, session
    <3>2. wire'[c] = wire[c]
      <4>1. CASE RefreshRejected(a)
        BY <4>1 DEF RefreshRejected
      <4>2. CASE Panics(a)
        BY <4>2 DEF Panics, NoWire
      <4>3. CASE Rejects(a)
        BY <4>3 DEF Rejects, Wires
      <4> QED BY <2>2, <4>1, <4>2, <4>3
    <3> QED BY <3>1, <3>2 DEF Later
  <2> QED BY <1>4, <2>1, <2>2 DEF ActorStep
<1> QED BY <1>1, <1>2, <1>3, <1>4, StepKinds

LEMMA CarriesNoLater ==
  ASSUME TypeInv, Later, [Next]_vars, NEW t \in Tunnels
  PROVE  carried'[t] <= tokens'.id
<1> USE RetryTypes
<1>a. carried[t] <= tokens'.id
  BY IdGrows DEF Later
<1>1. CASE TunnelStep(t)
  <2>1. carried'[t] \in {0, carried[t], tokens'.id}
    <3>1. CASE UseToken(t)
      BY <3>1 DEF UseToken
    <3>2. CASE TunnelRenewed(t)
      BY <3>2 DEF TunnelRenewed, Replaced, IntoTokens
    <3>3. CASE TunnelNotRenewed(t)
      BY <3>3, TimeTypes DEF TunnelNotRenewed, UseCurrentInstead, GiveUp, Pairs
    <3>4. CASE Connected(t) \/ RefusedAgain(t) \/ ConnectFails(t)
      BY <3>4 DEF Connected, RefusedAgain, ConnectFails, GiveUp
    <3>5. CASE OpenTunnel(t) \/ RenewForTunnel(t) \/ Refused(t) \/ ReportRejected(t) \/ CloseTunnel(t)
      BY <3>5 DEF OpenTunnel, RenewForTunnel, Refused, ReportRejected, CloseTunnel, tunnels
    <3> QED BY <1>1, <3>1, <3>2, <3>3, <3>4, <3>5 DEF TunnelStep
  <2> QED BY <1>a, <2>1, IdGrows
<1>2. CASE Panics(t)
  BY <1>2, IdGrows DEF Panics
<1>3. CASE carried'[t] = carried[t]
  BY <1>3, <1>a
<1> QED BY <1>1, <1>2, <1>3, OneTunnelMoves

\* When a tunnel goes on with the pair it has, renewing that pair has failed.
LEMMA PostponedUnrenewed ==
  ASSUME TypeInv, [Next]_vars, ~ \E a \in Actors : Answered(a), NEW u \in Tunnels, Postponed(u)
  PROVE  tokens.id \in unrenewed'
<1> USE RetryTypes
<1>1. pc[u] \in Renewing /\ pc'[u] = "connecting" /\ tokens.id # 0
  BY DEF Postponed, UseCurrentInstead
<1>2. TunnelStep(u)
  BY <1>1, OneTunnelMoves DEF Panics, Renewing
<1>3. TunnelNotRenewed(u)
  BY <1>1, <1>2, TunnelAnswered DEF Renewing, TunnelStep, OpenTunnel, UseToken, RenewForTunnel,
     Connected, Refused, RefusedAgain, ConnectFails, ReportRejected, CloseTunnel
<1> QED BY <1>1, <1>3 DEF TunnelNotRenewed, NotReplaced

LEMMA FollowedStays ==
  ASSUME TypeInv, Later, [Next]_vars, NEW t \in Tunnels, Followed(t), carried'[t] = carried[t]
  PROVE  Followed(t)'
<1> USE RetryTypes
<1>a. now' >= now /\ now' \in Nat /\ unrenewed \subseteq unrenewed'
  BY StepTime, TypeStep, UnrenewedGrows DEF TypeInv, ClockType
<1>1. CASE \E a \in Actors : Answered(a)
  <2>1. PICK a \in Actors : Answered(a)
    BY <1>1
  <2>2. tokens'.id = wire[a].id /\ wire[a].kind = "granted"
    BY <2>1 DEF Answered, Replaced, IntoTokens
  <2>3. tokens'.id > carried[t]
    BY <2>2 DEF Later
  <2> QED BY <2>3, <2>2 DEF Followed
<1>2. CASE ~ \E a \in Actors : Answered(a)
  <2>1. CASE Kept
    BY <1>a, <2>1 DEF Kept, Followed
  <2>2. ASSUME NEW u \in Tunnels, Postponed(u) PROVE Followed(t)'
    <3>1. tokens'.id = tokens.id
      BY <2>2, TimeTypes DEF Postponed, UseCurrentInstead, Pairs
    <3> QED BY <1>2, <2>2, <3>1, PostponedUnrenewed DEF Followed
  <2>3. ASSUME NEW u \in Tunnels, Marked(u) PROVE Followed(t)'
    <3>1. CASE Kept
      BY <1>a, <3>1 DEF Kept, Followed
    <3>2. CASE ~Kept
      <4>1. tokens'.renew_at = now
        BY <2>3, <3>2, TimeTypes DEF Marked, Rejected, Kept, Pairs
      <4> QED BY <1>a, <4>1 DEF Followed
    <3> QED BY <3>1, <3>2
  <2> QED BY <1>2, <2>1, <2>2, <2>3, StepTime
<1> QED BY <1>1, <1>2

LEMMA RetryInit == Init => RetryInv
<1> SUFFICES ASSUME Init PROVE RetryInv
  OBVIOUS
<1>1. Later
  BY DEF Init, Later, NoTokens, NoWire
<1>2. \A t \in Tunnels : ~renewed[t]
  BY DEF Init
<1> QED BY <1>1, <1>2 DEF RetryInv

LEMMA RetryStep == TypeInv /\ PairInv /\ RetryInv /\ [Next]_vars => RetryInv'
<1> SUFFICES ASSUME TypeInv, PairInv, RetryInv, [Next]_vars PROVE RetryInv'
  OBVIOUS
<1> USE RetryTypes
<1>1. Later'
  BY GrantsLater, CarriesNoLater DEF Later, RetryInv
<1>2. ASSUME NEW t \in Tunnels, pc'[t] \in {"idle", "open"} PROVE ~renewed'[t]
  <2>1. CASE TunnelStep(t)
    <3>1. CASE TunnelNotRenewed(t) \/ Connected(t) \/ RefusedAgain(t) \/ ConnectFails(t)
      BY <1>2, <3>1 DEF TunnelNotRenewed, UseCurrentInstead, GiveUp, Connected, RefusedAgain,
         ConnectFails
    <3>2. CASE CloseTunnel(t)
      BY <3>2 DEF CloseTunnel, tunnels, RetryInv
    <3>3. CASE OpenTunnel(t) \/ UseToken(t) \/ TunnelRenewed(t) \/ Refused(t) \/ ReportRejected(t)
      BY <1>2, <3>3 DEF OpenTunnel, UseToken, TunnelRenewed, Refused, ReportRejected
    <3>4. CASE RenewForTunnel(t)
      BY <1>2, <3>4 DEF RenewForTunnel, BeginRenew
    <3> QED BY <2>1, <3>1, <3>2, <3>3, <3>4 DEF TunnelStep
  <2>2. CASE Panics(t)
    BY <2>2 DEF Panics
  <2> QED BY <1>2, <2>1, <2>2, OneTunnelMoves DEF RetryInv
<1>3. ASSUME NEW t \in Tunnels, pc'[t] = "authorizing", renewed'[t] PROVE Followed(t)'
  <2>1. CASE TunnelStep(t)
    <3>1. CASE OpenTunnel(t)
      BY <1>3, <3>1 DEF OpenTunnel, tunnels, RetryInv
    <3>2. CASE ReportRejected(t)
      BY <3>2, TimeTypes DEF ReportRejected, Rejected, tunnels, Followed, Pairs
    <3>3. CASE UseToken(t) \/ TunnelRenewed(t) \/ TunnelNotRenewed(t) \/ Connected(t)
               \/ Refused(t) \/ RefusedAgain(t) \/ ConnectFails(t) \/ CloseTunnel(t)
      BY <1>3, <3>3 DEF UseToken, TunnelRenewed, TunnelNotRenewed, UseCurrentInstead, GiveUp,
         Connected, Refused, RefusedAgain, ConnectFails, CloseTunnel
    <3>4. CASE RenewForTunnel(t)
      BY <1>3, <3>4 DEF RenewForTunnel, BeginRenew
    <3> QED BY <2>1, <3>1, <3>2, <3>3, <3>4 DEF TunnelStep
  <2>2. CASE Panics(t)
    BY <1>3, <2>2 DEF Panics
  <2>3. CASE pc'[t] = pc[t] /\ carried'[t] = carried[t] /\ renewed'[t] = renewed[t]
    BY <1>3, <2>3, FollowedStays DEF RetryInv
  <2> QED BY <1>3, <2>1, <2>2, <2>3, OneTunnelMoves
<1> QED BY <1>1, <1>2, <1>3 DEF RetryInv

\* A tunnel that was answered 401 tries again with another token, unless renewing
\* the refused one failed (tunnel.rs 470-474).
THEOREM NewTokenOnRetry == Spec => RetryCarriesNewToken
<1>1. TypeInv /\ PairInv /\ RetryInv /\ [Next]_vars =>
        [\A t \in Tunnels :
           HandedOut(t) /\ renewed[t] =>
             carried'[t] # carried[t] \/ carried[t] \in unrenewed']_vars
  <2> SUFFICES ASSUME TypeInv, PairInv, RetryInv, [Next]_vars, NEW t \in Tunnels,
                      pc[t] # "connecting", pc'[t] = "connecting", renewed[t]
               PROVE  carried'[t] # carried[t] \/ carried[t] \in unrenewed'
    BY DEF HandedOut
  <2> USE RetryTypes
  <2>1. TunnelStep(t)
    BY OneTunnelMoves DEF Panics
  <2>2. CASE UseToken(t)
    BY <2>2, UnrenewedGrows DEF UseToken, Due, RetryInv, Followed
  <2>3. CASE TunnelRenewed(t)
    BY <2>3 DEF TunnelRenewed, Replaced, RetryInv, Later
  <2>4. CASE TunnelNotRenewed(t)
    BY <2>4 DEF TunnelNotRenewed, NotReplaced, UseCurrentInstead, GiveUp
  <2>5. CASE RenewForTunnel(t)
    BY <2>5 DEF RenewForTunnel, BeginRenew
  <2> QED BY <2>1, <2>2, <2>3, <2>4, <2>5
    DEF TunnelStep, OpenTunnel, Connected, Refused, RefusedAgain, ConnectFails, GiveUp,
        ReportRejected, CloseTunnel
<1> QED
  BY <1>1, RetryInit, RetryStep, PairInvariant, PTL DEF Spec, RetryCarriesNewToken
=============================================================================
