---------------------------- MODULE StartupProofs ----------------------------
(***************************************************************************)
(* Theorems about Startup, for any command lines and files, any timeouts   *)
(* and any number of addresses and connections: nothing precedes the check *)
(* of the credentials, the mode is the one reported, a network without     *)
(* QUIC fails the check only by its timeouts, and the command line wins.   *)
(***************************************************************************)
EXTENDS Startup, TLAPS

\* What a start that has not returned has settled. The second port is bound only
\* when it was asked for.
SettledInv ==
  /\ stage = "resolving" => settings = Unresolved
  /\ stage \notin {"resolving", "returned"} => settings = Resolved(given.flags, given.file)
  /\ settings = Unresolved \/ settings = Resolved(given.flags, given.file)
  /\ stage = "binding socks" => settings.socks_listen # Absent

\* The time the check has taken, against that left for the other addresses.
TimeInv ==
  /\ stage = "dialing" =>
       ~cached /\ left >= 1 /\ elapsed + left * HandshakeTimeout <= WaitsWithoutQuic
  /\ stage = "asking" =>
       /\ left >= 1
       /\ IF cached THEN net.cached /\ elapsed = 0 /\ left = net.addresses ELSE net.quic

TypeInv == TypeOK /\ TimeInv

\* The tasks run from when the rules are loaded, the handlers from when it serves.
CheckedInv ==
  /\ updating \/ conns > 0 => stage \in {"binding", "binding socks", "serving", "returned"}
  /\ NothingBeforeCheck

\* The mode is that of the start until a task changes it.
ModeInv ==
  /\ stage \in {"resolving", "starting"} => http3 = "off"
  /\ updating => stage \in {"binding", "binding socks", "serving", "returned"}
  /\ changed => updating
  /\ stage \notin {"resolving", "starting", "returned"} =>
       Startable(settings) /\ (~changed => http3 = StartMode(settings))
  /\ settings # Unresolved /\ Unusable(settings) => http3 = "off"

FallbackInv ==
  /\ result = "failed" => stage = "returned"
  /\ FallsBackInTime

LEMMA Bounds ==
  /\ CheckTimeout \in Nat /\ CheckTimeout > 0
  /\ HandshakeTimeout \in Nat /\ HandshakeTimeout > 0
  /\ RequestTimeout \in Nat /\ RequestTimeout > 0
  /\ MaxAddresses \in Nat /\ MaxConns \in Nat
  BY StartupAssumption

LEMMA Products ==
  ASSUME NEW n \in Nat, NEW h \in Nat
  PROVE  /\ n * h \in Nat
         /\ n >= 1 => (n - 1) * h = n * h - h /\ n * h >= h
  OBVIOUS

LEMMA OneAddressLess ==
  ASSUME NEW spent \in Nat, NEW time \in Nat, NEW before \in Nat, NEW waits \in Nat,
         NEW longer \in Nat, longer <= spent + time, spent + before <= waits
  PROVE  longer + (before - time) <= waits
  OBVIOUS

LEMMA WaitsIsNat ==
  ASSUME net \in Networks \cup {NoNetwork}
  PROVE  /\ net.addresses \in 0 .. MaxAddresses
         /\ WaitsWithoutQuic \in Nat
         /\ net.addresses * HandshakeTimeout \in Nat
         /\ net.cached => WaitsWithoutQuic = RequestTimeout + net.addresses * HandshakeTimeout
         /\ WaitsWithoutQuic >= net.addresses * HandshakeTimeout
<1>1. net.addresses \in 0 .. MaxAddresses
  BY Bounds DEF Networks, NoNetwork
<1>2. net.addresses * HandshakeTimeout \in Nat
  BY <1>1, Products, Bounds
<1> QED BY <1>1, <1>2, Bounds DEF WaitsWithoutQuic

\* The mode that is asked for is one of the three.
LEMMA ResolvedMode ==
  ASSUME given \in Inputs
  PROVE  Resolved(given.flags, given.file).http3 \in Modes
<1>1. {given.flags["http3"], given.file["http3"]} \subseteq Modes \cup {Absent}
  BY StartupAssumption
<1> QED BY <1>1 DEF Resolved, OrElse, Given, Modes

-----------------------------------------------------------------------------
(* The settings.                                                           *)

LEMMA InitSettled == Init => SettledInv
  BY DEF Init, SettledInv

LEMMA SettledPreserved == SettledInv /\ [Next]_vars => SettledInv'
<1> SUFFICES ASSUME SettledInv, [Next]_vars PROVE SettledInv'
  OBVIOUS
<1>1. CASE /\ UNCHANGED <<given, settings>>
           /\ stage \notin {"resolving", "returned"} /\ stage' # "resolving"
           /\ stage' = "binding socks" => settings.socks_listen # Absent
  BY <1>1 DEF SettledInv
<1>2. CASE UNCHANGED vars
  BY <1>2 DEF SettledInv, vars
<1>3. CASE Resolve
  BY <1>3 DEF SettledInv, Resolve, Returns
<1>4. CASE Refuse \/ Begin \/ Login \/ Check
  <2>1. /\ UNCHANGED <<given, settings>>
        /\ stage \notin {"resolving", "returned"} /\ stage' # "resolving"
        /\ stage' = "binding socks" => settings.socks_listen # Absent
    BY <1>4 DEF SettledInv, Refuse, Begin, Login, Check, DialFails, Dialed, Unanswered, AnsweredHttp3,
                AnsweredTcp, FirstMessage, CheckTimesOut, WithoutHttp3, Returns, Accepted, rest
  <2> QED BY <1>1, <2>1
<1>5. CASE RulesLoaded \/ NoClient \/ Bind \/ BindSocks \/ Serve
  <2>1. /\ UNCHANGED <<given, settings>>
        /\ stage \notin {"resolving", "returned"} /\ stage' # "resolving"
        /\ stage' = "binding socks" => settings.socks_listen # Absent
    BY <1>5 DEF RulesLoaded, NoClient, Bind, BindSocks, Serve, AcceptFails, ShutDown, Accept,
                Returns, ready
  <2> QED BY <1>1, <2>1
<1>6. CASE RequestShutdown \/ \E mode \in Modes : UpdateHttp3(mode)
  BY <1>6 DEF SettledInv, RequestShutdown, UpdateHttp3, ready
<1> QED BY <1>2, <1>3, <1>4, <1>5, <1>6 DEF Next

-----------------------------------------------------------------------------
(* Types, and the time of the check.                                       *)

LEMMA InitTypes == Init => TypeInv
<1> SUFFICES ASSUME Init PROVE TypeInv
  OBVIOUS
<1>1. /\ conns \in 0 .. MaxConns /\ left \in 0 .. MaxAddresses
      /\ elapsed \in 0 .. CheckTimeout - 1
  BY Bounds DEF Init
<1>2. TypeOK
  BY <1>1 DEF Init, TypeOK, Stages, Modes, Absent
<1> QED BY <1>2 DEF Init, TypeInv, TimeInv

\* What an action that leaves the check alone owes.
LEMMA TimeFrame ==
  ASSUME TypeInv, UNCHANGED check, stage' \notin {"dialing", "asking"} \/ stage' = stage
  PROVE  TimeInv'
  BY DEF TypeInv, TimeInv, check, WaitsWithoutQuic

LEMMA ResolveTypes ==
  ASSUME TypeInv, Resolve
  PROVE  TypeInv'
<1>1. UNCHANGED check /\ stage' \in {"starting", "returned"}
  BY DEF Resolve, Returns
<1>2. TimeInv'
  BY <1>1, TimeFrame
<1>3. TypeOK'
  BY <1>1 DEF TypeInv, TypeOK, Resolve, Returns, Stages, check
<1> QED BY <1>2, <1>3 DEF TypeInv

LEMMA ReturnTypes ==
  ASSUME TypeInv, Refuse \/ NoClient \/ AcceptFails \/ ShutDown
  PROVE  TypeInv'
<1>1. UNCHANGED check /\ stage' = "returned"
  BY DEF Refuse, NoClient, AcceptFails, ShutDown, Returns, ready
<1>2. TimeInv'
  BY <1>1, TimeFrame
<1>3. TypeOK'
  BY <1>1 DEF TypeInv, TypeOK, Refuse, NoClient, AcceptFails, ShutDown, Returns, Stages, check, ready
<1> QED BY <1>2, <1>3 DEF TypeInv

LEMMA BeginTypes ==
  ASSUME TypeInv, SettledInv, Begin
  PROVE  TypeInv'
<1>1. http3' \in Modes
  <2>1. settings.http3 \in Modes
    BY ResolvedMode DEF Begin, SettledInv, TypeInv, TypeOK
  <2> QED BY <2>1 DEF Begin, StartMode, Modes
<1>2. CASE settings.basic_auth = Absent \/ settings.auth_mode = "token"
  <2>1. UNCHANGED check /\ stage' \in {"loading", "logging in"}
    BY <1>2 DEF Begin
  <2>2. TimeInv'
    BY <2>1, TimeFrame
  <2>3. TypeOK'
    BY <1>1, <2>1 DEF Begin, TypeInv, TypeOK, Stages, check
  <2> QED BY <2>2, <2>3 DEF TypeInv
<1>3. CASE settings.basic_auth # Absent /\ settings.auth_mode # "token"
  <2>1. /\ net' \in Networks /\ left' = net'.addresses /\ cached' = net'.cached /\ elapsed' = 0
        /\ stage' \in {"asking", "dialing", "tcp"}
        /\ stage' = "asking" => cached'
        /\ stage' = "dialing" => ~cached'
    BY <1>3 DEF Begin
  <2>2. net'.addresses \in 1 .. MaxAddresses /\ net'.cached \in BOOLEAN
    BY <2>1 DEF Networks
  <2>3. TimeInv'
    <3>1. WaitsWithoutQuic' >= net'.addresses * HandshakeTimeout
      <4>1. net'.addresses * HandshakeTimeout \in Nat
        BY <2>2, Bounds, Products
      <4> QED BY <4>1, Bounds DEF WaitsWithoutQuic
    <3>2. net'.addresses * HandshakeTimeout \in Nat
      BY <2>2, Bounds, Products
    <3>3. 0 + left' * HandshakeTimeout <= WaitsWithoutQuic'
      BY <2>1, <3>1, <3>2
    <3>4. left' >= 1
      BY <2>1, <2>2, Bounds
    <3> QED BY <2>1, <3>3, <3>4 DEF TimeInv
  <2>4. TypeOK'
    <3>1. left' \in 0 .. MaxAddresses /\ elapsed' \in 0 .. CheckTimeout - 1 /\ cached' \in BOOLEAN
      BY <2>1, <2>2, Bounds
    <3> QED BY <1>1, <2>1, <3>1 DEF Begin, TypeInv, TypeOK, Stages
  <2> QED BY <2>3, <2>4 DEF TypeInv
<1> QED BY <1>2, <1>3

LEMMA LoginTypes ==
  ASSUME TypeInv, Login
  PROVE  TypeInv'
<1>1. UNCHANGED check /\ stage' \in {"loading", "returned"}
  BY DEF Login, Accepted, Returns
<1>2. TimeInv'
  BY <1>1, TimeFrame
<1>3. TypeOK'
  BY <1>1 DEF TypeInv, TypeOK, Login, Accepted, Returns, Stages, check
<1> QED BY <1>2, <1>3 DEF TypeInv

\* A step that spends time stays within the timeout.
LEMMA Ranges ==
  ASSUME TypeOK
  PROVE  /\ elapsed \in Nat /\ elapsed < CheckTimeout
         /\ left \in Nat /\ left <= MaxAddresses
         /\ net \in Networks \cup {NoNetwork}
<1>1. elapsed \in 0 .. CheckTimeout - 1 /\ left \in 0 .. MaxAddresses
  BY DEF TypeOK
<1>2. net \in Networks \cup {NoNetwork}
  BY DEF TypeOK
<1> QED BY <1>1, <1>2, Bounds

LEMMA SpentTypes ==
  ASSUME TypeInv, NEW seconds \in Nat, Spends(seconds)
  PROVE  elapsed' \in 0 .. CheckTimeout - 1
  BY Ranges, Bounds DEF Spends, TypeInv

LEMMA DialFailsTypes ==
  ASSUME TypeInv, DialFails
  PROVE  TypeInv'
<1>1. PICK seconds \in {0, DialTime} : Spends(seconds)
  BY DEF DialFails
<1>2. seconds \in Nat /\ seconds <= HandshakeTimeout
  BY <1>1, Bounds DEF DialTime
<1>3. /\ elapsed' \in 0 .. CheckTimeout - 1 /\ elapsed \in Nat
      /\ left \in 1 .. MaxAddresses /\ left' = left - 1 /\ left' \in 0 .. MaxAddresses
  <2>1. left >= 1 /\ left' = left - 1
    BY DEF TypeInv, TimeInv, DialFails
  <2> QED BY <2>1, <1>1, <1>2, Ranges, SpentTypes, Bounds DEF TypeInv
<1>4. TypeOK'
  BY <1>3 DEF DialFails, TypeInv, TypeOK, WithoutHttp3, Returns, Stages, rest
<1>5. TimeInv'
  <2>1. CASE left > 1
    <3>1. stage' = "dialing" /\ ~cached' /\ left' >= 1 /\ UNCHANGED WaitsWithoutQuic
      BY <2>1, <1>3 DEF DialFails, TypeInv, TimeInv, rest, WaitsWithoutQuic
    <3>2. elapsed + left * HandshakeTimeout <= WaitsWithoutQuic /\ WaitsWithoutQuic \in Nat
      BY WaitsIsNat DEF TypeInv, TypeOK, TimeInv, DialFails
    <3>3. left' * HandshakeTimeout = left * HandshakeTimeout - HandshakeTimeout
          /\ left * HandshakeTimeout \in Nat
      BY <1>3, Bounds, Products
    <3>4. elapsed' <= elapsed + HandshakeTimeout
      BY <1>1, <1>2, <1>3, Bounds DEF Spends
    <3>5. elapsed' + left' * HandshakeTimeout <= WaitsWithoutQuic'
      <4>1. HandshakeTimeout \in Nat /\ elapsed \in Nat /\ elapsed' \in Nat
        BY <1>3, Bounds
      <4>2. elapsed' + (left * HandshakeTimeout - HandshakeTimeout) <= WaitsWithoutQuic
        BY <4>1, <3>2, <3>3, <3>4, OneAddressLess
      <4> QED BY <4>2, <3>1, <3>3
    <3> QED BY <3>1, <3>5 DEF TimeInv
  <2>2. CASE ~(left > 1)
    BY <2>2 DEF DialFails, WithoutHttp3, Returns, TimeInv
  <2> QED BY <2>1, <2>2
<1> QED BY <1>4, <1>5 DEF TypeInv

LEMMA DialedTypes ==
  ASSUME TypeInv, Dialed
  PROVE  TypeInv'
<1>1. PICK seconds \in {0, DialTime - 1} : Spends(seconds)
  BY DEF Dialed
<1>2. seconds \in Nat
  BY <1>1, Bounds DEF DialTime
<1>3. elapsed' \in 0 .. CheckTimeout - 1
  BY <1>1, <1>2, SpentTypes
<1>4. TypeOK'
  BY <1>3 DEF Dialed, TypeInv, TypeOK, Stages, rest
<1>5. TimeInv'
  BY DEF Dialed, TypeInv, TimeInv, rest
<1> QED BY <1>4, <1>5 DEF TypeInv

LEMMA UnansweredTypes ==
  ASSUME TypeInv, Unanswered
  PROVE  TypeInv'
<1>1. PICK seconds \in {0, RequestTimeout} : Spends(seconds)
  BY DEF Unanswered
<1>2. seconds \in Nat /\ seconds <= RequestTimeout
  BY <1>1, Bounds
<1>3. elapsed' \in 0 .. CheckTimeout - 1 /\ elapsed' = elapsed + seconds
  BY <1>1, <1>2, SpentTypes DEF Spends
<1>4. TypeOK'
  BY <1>3 DEF Unanswered, TypeInv, TypeOK, WithoutHttp3, Returns, Stages, rest
<1>5. TimeInv'
  <2>1. CASE cached
    <3>1. /\ stage' = "dialing" /\ ~cached' /\ left' = net.addresses /\ left' >= 1
          /\ net.cached /\ elapsed = 0 /\ UNCHANGED WaitsWithoutQuic
      BY <2>1 DEF Unanswered, TypeInv, TimeInv, rest, WaitsWithoutQuic
    <3>2. elapsed' + left' * HandshakeTimeout <= WaitsWithoutQuic'
      <4> DEFINE waits == net.addresses * HandshakeTimeout
      <4>1. waits \in Nat /\ WaitsWithoutQuic = RequestTimeout + waits
        BY <3>1, WaitsIsNat, Ranges DEF TypeInv
      <4>2. left' * HandshakeTimeout = waits
        BY <3>1
      <4> HIDE DEF waits
      <4>3. elapsed' = seconds
        BY <3>1, <1>2, <1>3
      <4> QED BY <3>1, <4>1, <4>2, <4>3, <1>2, Bounds
    <3> QED BY <3>1, <3>2 DEF TimeInv
  <2>2. CASE ~cached
    BY <2>2 DEF Unanswered, WithoutHttp3, Returns, TimeInv
  <2> QED BY <2>1, <2>2
<1> QED BY <1>4, <1>5 DEF TypeInv

LEMMA AnswerTypes ==
  ASSUME TypeInv, AnsweredHttp3 \/ AnsweredTcp \/ CheckTimesOut
  PROVE  TypeInv'
<1>1. UNCHANGED check /\ stage' \in {"replying", "tcp", "returned"}
  BY DEF AnsweredHttp3, AnsweredTcp, CheckTimesOut, WithoutHttp3, Returns, rest, check
<1>2. TimeInv'
  BY <1>1, TimeFrame
<1>3. /\ result' \in {Absent, "ok", "error", "failed", "unauthorized", "login failed"}
      /\ listeners' = {}
      /\ UNCHANGED <<given, settings, http3, updating, conns, shutdown, changed, auth, verified>>
  BY DEF AnsweredHttp3, AnsweredTcp, CheckTimesOut, WithoutHttp3, Returns, Classify, rest,
         TypeInv, TypeOK
<1>4. TypeOK'
  BY <1>1, <1>3 DEF TypeInv, TypeOK, Stages, check
<1> QED BY <1>2, <1>4 DEF TypeInv

LEMMA FirstMessageTypes ==
  ASSUME TypeInv, FirstMessage
  PROVE  TypeInv'
<1>1. CASE Accepted("basic") /\ net' = NoNetwork /\ left' = 0 /\ cached' = FALSE /\ elapsed' = 0
  <2>1. TimeInv'
    BY <1>1 DEF Accepted, TimeInv
  <2>2. left' \in 0 .. MaxAddresses /\ elapsed' \in 0 .. CheckTimeout - 1
    BY <1>1, Bounds
  <2>3. TypeOK'
    BY <1>1, <2>2 DEF FirstMessage, Accepted, TypeInv, TypeOK, Stages
  <2> QED BY <2>1, <2>3 DEF TypeInv
<1>2. CASE Returns("failed") /\ UNCHANGED <<check, auth, verified>>
  <2>1. TimeInv'
    BY <1>2, TimeFrame DEF Returns
  <2>2. TypeOK'
    BY <1>2 DEF FirstMessage, Returns, TypeInv, TypeOK, Stages, check
  <2> QED BY <2>1, <2>2 DEF TypeInv
<1> QED BY <1>1, <1>2 DEF FirstMessage

LEMMA RulesAndPortsTypes ==
  ASSUME TypeInv, SettledInv, RulesLoaded \/ Bind \/ BindSocks
  PROVE  TypeInv'
<1>1. UNCHANGED check /\ stage' \in {"binding", "binding socks", "serving", "returned"}
  BY DEF RulesLoaded, Bind, BindSocks, Returns, ready
<1>2. TimeInv'
  BY <1>1, TimeFrame
<1>4. CASE Bind
  <2>1. TypeOK'
    BY <1>4 DEF Bind, Returns, TypeInv, TypeOK, Stages, Wanted, check, ready
  <2> QED BY <1>2, <2>1 DEF TypeInv
<1>5. CASE BindSocks
  <2>1. TypeOK'
    BY <1>5 DEF BindSocks, Returns, SettledInv, TypeInv, TypeOK, Stages, Wanted, check, ready
  <2> QED BY <1>2, <2>1 DEF TypeInv
<1>6. CASE RulesLoaded
  <2>1. TypeOK'
    BY <1>6 DEF RulesLoaded, TypeInv, TypeOK, Stages, check, ready
  <2> QED BY <1>2, <2>1 DEF TypeInv
<1> QED BY <1>4, <1>5, <1>6
LEMMA TypesPreserved == TypeInv /\ SettledInv /\ [Next]_vars => TypeInv'
<1> SUFFICES ASSUME TypeInv, SettledInv, [Next]_vars PROVE TypeInv'
  OBVIOUS
<1>1. CASE UNCHANGED vars
  BY <1>1 DEF TypeInv, TypeOK, TimeInv, WaitsWithoutQuic, Wanted, vars, check
<1>2. CASE Check
  BY <1>2, DialFailsTypes, DialedTypes, UnansweredTypes, AnswerTypes, FirstMessageTypes
  DEF Check
<1>3. CASE Accept("http") \/ Accept("socks")
  <2>1. UNCHANGED check /\ UNCHANGED stage
    BY <1>3 DEF Accept
  <2>2. conns' \in 0 .. MaxConns
    <3>1. conns \in 0 .. MaxConns /\ conns < MaxConns /\ conns' = conns + 1
      BY <1>3 DEF Accept, TypeInv, TypeOK
    <3> QED BY <3>1, Bounds
  <2>3. TypeOK'
    BY <1>3, <2>2 DEF Accept, TypeInv, TypeOK, Wanted, check
  <2> QED BY <2>1, <2>3, TimeFrame DEF TypeInv
<1>4. CASE RequestShutdown
  <2>1. UNCHANGED check /\ UNCHANGED stage
    BY <1>4 DEF RequestShutdown
  <2>2. TypeOK'
    BY <1>4 DEF RequestShutdown, TypeInv, TypeOK, Wanted, check
  <2> QED BY <2>1, <2>2, TimeFrame DEF TypeInv
<1>5. ASSUME NEW mode \in Modes, UpdateHttp3(mode) PROVE TypeInv'
  <2>1. UNCHANGED check /\ UNCHANGED stage
    BY <1>5 DEF UpdateHttp3, ready
  <2>2. TypeOK'
    BY <1>5 DEF UpdateHttp3, TypeInv, TypeOK, Wanted, check, ready
  <2> QED BY <2>1, <2>2, TimeFrame DEF TypeInv
<1> QED
  BY <1>1, <1>2, <1>3, <1>4, <1>5, ResolveTypes, ReturnTypes, BeginTypes, LoginTypes,
     RulesAndPortsTypes
  DEF Next, Serve

LEMMA Typed == Spec => [](SettledInv /\ TypeInv)
<1>1. Init => SettledInv /\ TypeInv
  BY InitSettled, InitTypes
<1>2. SettledInv /\ TypeInv /\ [Next]_vars => SettledInv' /\ TypeInv'
  BY SettledPreserved, TypesPreserved
<1> QED BY <1>1, <1>2, PTL DEF Spec

\* Startup keeps its types, and a check never takes longer than its timeout; a
\* proxy that serves holds the ports it was asked for, and one that failed or
\* returned holds none.
THEOREM TypeCorrect == Spec => []TypeOK
<1>1. TypeInv => TypeOK
  BY DEF TypeInv
<1> QED BY Typed, <1>1, PTL

-----------------------------------------------------------------------------
(* The order of the start, and the mode.                                   *)

LEMMA CheckedPreserved == SettledInv /\ CheckedInv /\ [Next]_vars => CheckedInv'
<1> SUFFICES ASSUME SettledInv, CheckedInv, [Next]_vars PROVE CheckedInv'
  OBVIOUS
<1>1. CASE UNCHANGED vars
  BY <1>1 DEF CheckedInv, NothingBeforeCheck, Started, vars
<1>2. CASE Resolve \/ Refuse \/ Begin \/ Login \/ Check
  <2>1. ~updating /\ ~(conns > 0) /\ UNCHANGED <<updating, conns>>
    BY <1>2 DEF CheckedInv, Resolve, Refuse, Begin, Login, Check, DialFails, Dialed, Unanswered,
         AnsweredHttp3, AnsweredTcp, FirstMessage, CheckTimesOut, rest
  <2>2. Started' => settings'.basic_auth = Absent \/ verified'
    <3>1. CASE Begin
      BY <3>1 DEF Begin, Started
    <3>2. CASE Login
      BY <3>2 DEF Login, Accepted, Returns, Started
    <3>3. CASE FirstMessage
      BY <3>3 DEF FirstMessage, Accepted, Returns, Started
    <3>4. CASE Resolve \/ Refuse
      BY <3>4 DEF Resolve, Refuse, Returns, Started
    <3>5. CASE DialFails \/ Dialed \/ Unanswered
      BY <3>5 DEF DialFails, Dialed, Unanswered, WithoutHttp3, Returns, Started
    <3>6. CASE AnsweredHttp3
      <4>1. PICK status \in {200, 401, 403} :
               \/ status = 200 /\ stage' = "replying"
               \/ status = 401 /\ Returns("unauthorized")
               \/ status = 403 /\ WithoutHttp3
        BY <3>6 DEF AnsweredHttp3
      <4>2. stage' \in {"replying", "returned", "tcp"}
        BY <4>1 DEF WithoutHttp3, Returns
      <4> QED BY <4>2 DEF Started
    <3>7. CASE AnsweredTcp
      BY <3>7 DEF AnsweredTcp, Returns, Started
    <3>8. CASE CheckTimesOut
      BY <3>8 DEF CheckTimesOut, Returns, Started
    <3> QED BY <1>2, <3>1, <3>2, <3>3, <3>4, <3>5, <3>6, <3>7, <3>8 DEF Check
  <2> QED BY <2>1, <2>2 DEF CheckedInv, NothingBeforeCheck
<1>3. CASE RulesLoaded \/ NoClient \/ Bind \/ BindSocks \/ Serve
  <2>1. UNCHANGED <<settings, verified>>
    BY <1>3 DEF CheckedInv, NothingBeforeCheck, Started, RulesLoaded, NoClient, Bind, BindSocks,
         Serve, AcceptFails, ShutDown, Accept, ready
  <2>2. stage' \in {"binding", "binding socks", "serving", "returned"}
    BY <1>3 DEF RulesLoaded, NoClient, Bind, BindSocks, Serve, AcceptFails, ShutDown, Accept, Returns
  <2>3. settings'.basic_auth = Absent \/ verified'
    BY <1>3 DEF CheckedInv, NothingBeforeCheck, Started, RulesLoaded, NoClient, Bind, BindSocks,
         Serve, AcceptFails, ShutDown, Accept, ready
  <2> QED BY <2>2, <2>3 DEF CheckedInv, NothingBeforeCheck
<1>4. CASE RequestShutdown \/ \E mode \in Modes : UpdateHttp3(mode)
  <2>1. UNCHANGED <<settings, verified, stage, updating, conns>>
    BY <1>4 DEF RequestShutdown, UpdateHttp3, ready
  <2> QED BY <2>1 DEF CheckedInv, NothingBeforeCheck, Started
<1> QED BY <1>1, <1>2, <1>3, <1>4 DEF Next

LEMMA CheckedAlways == Spec => []CheckedInv
<1>1. Init => CheckedInv
  BY DEF Init, CheckedInv, NothingBeforeCheck, Started
<1> QED BY <1>1, CheckedPreserved, Typed, PTL DEF Spec

\* Nothing is loaded, bound or accepted before the gateway accepted the
\* credentials, where there are any (service.rs 47-49).
THEOREM CheckedFirst == Spec => []NothingBeforeCheck
<1>1. CheckedInv => NothingBeforeCheck
  BY DEF CheckedInv
<1> QED BY CheckedAlways, <1>1, PTL

LEMMA ModePreserved == SettledInv /\ TypeInv /\ ModeInv /\ [Next]_vars => ModeInv'
<1> SUFFICES ASSUME SettledInv, TypeInv, ModeInv, [Next]_vars PROVE ModeInv'
  OBVIOUS
<1>1. CASE UNCHANGED vars
  BY <1>1 DEF ModeInv, vars
<1>2. CASE Resolve \/ Refuse
  <2>1. /\ http3 = "off" /\ UNCHANGED <<http3, updating, changed>> /\ ~updating /\ ~changed
        /\ stage' \in {"starting", "returned"}
    BY <1>2 DEF ModeInv, Resolve, Refuse, Returns
  <2> QED BY <2>1 DEF ModeInv
<1>3. CASE Begin
  <2>1. settings.http3 \in Modes
    BY <1>3, ResolvedMode DEF Begin, SettledInv, TypeInv, TypeOK
  <2>2. Unusable(settings) => StartMode(settings) = "off"
    BY <1>3, <2>1 DEF Begin, Startable, StartMode, Modes
  <2> QED BY <1>3, <2>2 DEF ModeInv, Begin
<1>4. CASE Login \/ Check
  <2>1. /\ UNCHANGED <<settings, http3, updating, changed>>
        /\ stage \in {"logging in", "dialing", "asking", "tcp", "replying"}
    BY <1>4 DEF Login, Check, DialFails, Dialed, Unanswered, AnsweredHttp3, AnsweredTcp,
         FirstMessage, CheckTimesOut, rest
  <2>2. stage' \notin {"resolving", "starting"}
    BY <1>4 DEF Login, Check, DialFails, Dialed, Unanswered, AnsweredHttp3, AnsweredTcp,
         FirstMessage, CheckTimesOut, WithoutHttp3, Returns, Accepted
  <2> QED BY <2>1, <2>2 DEF ModeInv
<1>5. CASE RulesLoaded \/ NoClient \/ Bind \/ BindSocks \/ Serve
  <2>1. UNCHANGED <<settings, http3, changed>> /\ Started
    BY <1>5 DEF RulesLoaded, NoClient, Bind, BindSocks, Serve, AcceptFails, ShutDown, Accept,
         ready, Started
  <2>2. /\ stage' \in {"binding", "binding socks", "serving", "returned"}
        /\ changed => updating'
    BY <1>5 DEF ModeInv, RulesLoaded, NoClient, Bind, BindSocks, Serve, AcceptFails, ShutDown,
         Accept, Returns
  <2> QED BY <2>1, <2>2 DEF ModeInv, Started
<1>6. CASE RequestShutdown
  BY <1>6 DEF ModeInv, RequestShutdown
<1>7. ASSUME NEW mode \in Modes, UpdateHttp3(mode) PROVE ModeInv'
  BY <1>7 DEF ModeInv, UpdateHttp3, ready
<1> QED BY <1>1, <1>2, <1>3, <1>4, <1>5, <1>6, <1>7 DEF Next

LEMMA ModeKept == Spec => []ModeInv
<1>1. Init => ModeInv
  BY DEF Init, ModeInv
<1> QED BY <1>1, ModePreserved, Typed, PTL DEF Spec

\* What http3_mode reports is the mode the proxy starts with and keeps until it
\* is changed, and HTTP/3 is never on where it cannot work (service.rs 235-236,
\* 40-41).
THEOREM Reported == Spec => []StartsAsReported
<1>1. ModeInv => StartsAsReported
  <2> SUFFICES ASSUME ModeInv PROVE StartsAsReported
    OBVIOUS
  <2>1. ASSUME Started, ~changed PROVE http3 = ReportedMode(settings)
    BY <2>1 DEF ModeInv, Started, Startable, StartMode, ReportedMode
  <2> QED BY <2>1 DEF StartsAsReported, ModeInv
<1> QED BY ModeKept, <1>1, PTL

-----------------------------------------------------------------------------
(* The fallback.                                                           *)

\* While the check lasts nothing has changed the mode yet.
LEMMA ModeOfCheck ==
  ASSUME ModeInv, settings.http3 = "preferred",
         stage \in {"dialing", "asking", "tcp", "replying"}
  PROVE  http3 # "only"
  BY DEF ModeInv, StartMode

LEMMA FallbackPreserved ==
  SettledInv /\ TypeInv /\ ModeInv /\ FallbackInv /\ [Next]_vars => FallbackInv'
<1> SUFFICES ASSUME SettledInv, TypeInv, ModeInv, FallbackInv, [Next]_vars PROVE FallbackInv'
  OBVIOUS
<1>1. CASE /\ UNCHANGED <<settings, net, result>>
           /\ result = Absent \/ stage' = stage
  BY <1>1 DEF FallbackInv, FallsBackInTime, WaitsWithoutQuic, Absent
<1>2. CASE result' # "failed"
  BY <1>2 DEF FallbackInv, FallsBackInTime
<1>3. CASE UNCHANGED vars
  BY <1>3 DEF FallbackInv, FallsBackInTime, WaitsWithoutQuic, vars, check
<1>4. CASE Resolve \/ Refuse \/ Begin \/ Login
  <2>1. result # "failed"
    BY <1>4 DEF FallbackInv, Resolve, Refuse, Begin, Login
  <2> QED BY <1>2, <1>4, <2>1 DEF Resolve, Refuse, Begin, Login, Accepted, Returns
<1>5. CASE DialFails \/ Dialed \/ Unanswered \/ AnsweredHttp3 \/ AnsweredTcp \/ FirstMessage
  <2>1. result # "failed" /\ stage \in {"dialing", "asking", "tcp", "replying"}
    BY <1>5 DEF FallbackInv, DialFails, Dialed, Unanswered, AnsweredHttp3, AnsweredTcp, FirstMessage
  <2>2. CASE result' = "failed"
    <3>1. stage' = "returned" /\ UNCHANGED <<settings, net>> /\ (http3 = "only" \/ ~net.good)
      BY <1>5, <2>1, <2>2 DEF DialFails, Dialed, Unanswered, AnsweredHttp3, AnsweredTcp,
         FirstMessage, WithoutHttp3, Returns, Accepted, rest, check
    <3>2. settings.http3 = "preferred" => http3 # "only"
      BY <2>1, ModeOfCheck
    <3> QED BY <3>1, <3>2 DEF FallbackInv, FallsBackInTime
  <2> QED BY <1>2, <2>2
<1>6. CASE CheckTimesOut
  <2>1. /\ stage' = "returned" /\ UNCHANGED <<settings, net>>
        /\ UNCHANGED WaitsWithoutQuic
    BY <1>6 DEF CheckTimesOut, Returns, rest, WaitsWithoutQuic
  <2>2. ASSUME net.good, ~net.quic PROVE WaitsWithoutQuic >= CheckTimeout
    <3> USE WaitsIsNat, Ranges, Bounds DEF TypeInv
    <3>1. CASE stage = "dialing"
      <4>1. /\ left >= 1 /\ elapsed + left * HandshakeTimeout <= WaitsWithoutQuic
            /\ elapsed + HandshakeTimeout >= CheckTimeout
        BY <1>6, <3>1 DEF CheckTimesOut, TimeInv, DialTime
      <4>2. left * HandshakeTimeout \in Nat /\ left * HandshakeTimeout >= HandshakeTimeout
        BY <4>1, Products
      <4> QED BY <4>1, <4>2
    <3>2. CASE stage = "asking"
      BY <1>6, <2>2, <3>2 DEF CheckTimesOut, TimeInv
    <3>3. CASE stage \in {"tcp", "replying"}
      BY <1>6, <2>2, <3>3 DEF CheckTimesOut
    <3> QED BY <1>6, <3>1, <3>2, <3>3 DEF CheckTimesOut
  <2> QED BY <2>1, <2>2 DEF FallbackInv, FallsBackInTime
<1>7. CASE RulesLoaded \/ NoClient \/ Bind \/ BindSocks
  <2>1. result # "failed"
    BY <1>7 DEF FallbackInv, RulesLoaded, NoClient, Bind, BindSocks
  <2> QED BY <1>2, <1>7, <2>1 DEF RulesLoaded, NoClient, Bind, BindSocks, Returns
<1>8. CASE Serve
  <2>1. result # "failed"
    BY <1>8 DEF FallbackInv, Serve, AcceptFails, ShutDown, Accept
  <2> QED BY <1>2, <1>8, <2>1 DEF Serve, AcceptFails, ShutDown, Accept, Returns
<1>9. CASE RequestShutdown \/ \E mode \in Modes : UpdateHttp3(mode)
  <2>1. UNCHANGED <<settings, net, result>> /\ stage' = stage
    BY <1>9 DEF RequestShutdown, UpdateHttp3, ready, check
  <2> QED BY <1>1, <2>1
<1> QED BY <1>3, <1>4, <1>5, <1>6, <1>7, <1>8, <1>9 DEF Next, Check

\* With HTTP/3 preferred, a network that drops QUIC fails the check of a gateway
\* that answers over TCP only when trying its addresses takes the whole of
\* CHECK_TIMEOUT, whatever the timeouts are (settings.rs 67-68).
THEOREM FallsBack == Spec => []FallsBackInTime
<1>1. Init => FallbackInv
  BY DEF Init, FallbackInv, FallsBackInTime, Absent
<1>2. FallbackInv => FallsBackInTime
  BY DEF FallbackInv
<1> QED BY <1>1, <1>2, FallbackPreserved, ModeKept, Typed, PTL DEF Spec

-----------------------------------------------------------------------------
(* The command line and the file.                                          *)

\* An entry of the file that the command line gives too is not looked at.
LEMMA FlagWins ==
  ASSUME NEW flags, NEW file, NEW key \in Keys \ {"insecure"},
         DOMAIN flags = Keys, DOMAIN file = Keys, flags[key] # Absent
  PROVE  Resolved(flags, file) = Resolved(flags, [file EXCEPT ![key] = Absent])
<1> DEFINE less == [file EXCEPT ![key] = Absent]
<1>1. \A k \in Keys : less[k] = IF k = key THEN Absent ELSE file[k]
  OBVIOUS
<1> HIDE DEF less
<1>2. \A k \in Keys : Given(flags, less, k) = Given(flags, file, k)
  BY <1>1 DEF Given
<1>3. Urls(flags, less) = Urls(flags, file) /\ Upstream(flags, less) = Upstream(flags, file)
  BY <1>2 DEF Urls, Upstream, Keys
<1>4. RulesPath(flags, less) = RulesPath(flags, file)
  <2>1. less["custom_domain_rules"] =
          IF key = "custom_domain_rules" THEN Absent ELSE file["custom_domain_rules"]
    BY <1>1 DEF Keys
  <2>2. CASE key = "custom_domain_rules"
    BY <2>2 DEF RulesPath
  <2>3. CASE key # "custom_domain_rules"
    <3>1. less["custom_domain_rules"] = file["custom_domain_rules"]
      BY <2>1, <2>3
    <3> QED BY <3>1 DEF RulesPath
  <2> QED BY <2>2, <2>3
<1>5. less["insecure"] = file["insecure"]
  BY <1>1 DEF Keys
<1>6. \A k \in {"socks_listen", "gateway", "basic_auth", "buffer_size",
                "rule_refresh_interval_secs", "proxy_mode", "http3", "auth_mode"} :
        Given(flags, less, k) = Given(flags, file, k)
  BY <1>2 DEF Keys
<1>7. Resolved(flags, less) = Resolved(flags, file)
  BY <1>3, <1>4, <1>5, <1>6 DEF Resolved
<1> QED BY <1>7 DEF less

\* What is given on the command line wins over the file, for every setting but
\* insecure (settings.rs 127-148).
THEOREM CommandLineWins == Spec => []FileNeverOverrides
<1>1. SettledInv /\ TypeInv => FileNeverOverrides
  <2> SUFFICES ASSUME SettledInv, TypeInv, settings # Unresolved,
                      NEW key \in Keys \ {"insecure"}, given.flags[key] # Absent
               PROVE  settings = Resolved(given.flags, [given.file EXCEPT ![key] = Absent])
    BY DEF FileNeverOverrides
  <2>1. given \in Inputs /\ settings = Resolved(given.flags, given.file)
    BY DEF SettledInv, TypeInv, TypeOK
  <2>2. DOMAIN given.flags = Keys /\ DOMAIN given.file = Keys
    BY <2>1, StartupAssumption
  <2> QED BY <2>1, <2>2, FlagWins
<1> QED BY <1>1, Typed, PTL
=============================================================================
