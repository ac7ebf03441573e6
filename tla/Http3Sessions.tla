--------------------------- MODULE Http3Sessions ---------------------------
(***************************************************************************)
(* The HTTP/3 transport of ws2tcp-local-core: connect, try_connect and     *)
(* session of http3.rs, the process-wide cache SESSIONS of QUIC            *)
(* connections behind an asynchronous mutex, the TCP fallback period,      *)
(* reset_sessions, and the mode switch of service.rs. One gateway, hence   *)
(* one key of the cache.                                                   *)
(*                                                                         *)
(* The mutex is first come, first served: `queue` holds those that asked   *)
(* for it, the head owns it. A connection is the number of the handshake   *)
(* that made it; 0 stands for none. That the fallback period lasts 60      *)
(* seconds is left out: it ends at some time after it began.               *)
(***************************************************************************)
EXTENDS Naturals, Sequences, FiniteSets

CONSTANTS
  Tunnels,      \* tasks that call connect
  Resetter,     \* the caller of reset_sessions
  MaxConns,     \* bound: QUIC handshakes that succeed
  MaxResets     \* bound: calls of reset_sessions

ASSUME ConstantsAssumption ==
  /\ Resetter \notin Tunnels
  /\ MaxConns \in Nat /\ MaxResets \in Nat

Conns == 1 .. MaxConns
Modes == {"off", "on", "only"}

VARIABLES
  mode,         \* the Switch
  cached,       \* SESSIONS: the cached connection
  dialed,       \* connections established so far
  open,         \* connections whose close_reason is none
  fallback,     \* FALLBACK_UNTIL lies in the future
  queue,        \* holder of the mutex of SESSIONS (the head) and waiters
  pc,           \* where each tunnel and the resetter are
  only,         \* the `only` argument of a tunnel's connect
  attempt,      \* first or second request of try_connect
  used,         \* the connection of the request
  was_cached    \* `cached` of the first attempt

\* History, read by the properties only.
VARIABLES
  epoch,        \* calls of reset_sessions that have cleared the cache
  conn_since,   \* the epoch in which the handshake of a tunnel's connection
  cached_since, \*   began, and that of the cached one
  faulty,       \* connections on which a request got no answer
  cause         \* why the fallback period began: a status, or no answer

locals  == <<only, attempt, used, was_cached>>
history == <<epoch, conn_since, cached_since, faulty, cause>>
vars    == <<mode, cached, dialed, open, fallback, queue, pc, locals, history>>

Holds(a) == queue # <<>> /\ Head(queue) = a

Enqueue(a) == queue' = Append(queue, a)
Release == queue' = Tail(queue)
Go(a, place) == pc' = [pc EXCEPT ![a] = place]

\* A tunnel is done with connect: its locals go out of scope.
Forget(t) ==
  /\ only' = [only EXCEPT ![t] = FALSE]
  /\ attempt' = [attempt EXCEPT ![t] = 0]
  /\ used' = [used EXCEPT ![t] = 0]
  /\ was_cached' = [was_cached EXCEPT ![t] = FALSE]

-----------------------------------------------------------------------------
(* connect_websocket and connect.                                          *)

\* The mode is read once per connection. TCP is used when HTTP/3 is off, or
\* after a recent failure unless HTTP/3 is the only transport; otherwise
\* try_connect asks for the cached connection.
Connect(t) ==
  /\ pc[t] = "idle"
  /\ IF mode = "off" \/ (mode = "on" /\ fallback)
       THEN Go(t, "tcp") /\ UNCHANGED <<queue, only, attempt>>
       ELSE /\ Go(t, "asking")
            /\ Enqueue(t)
            /\ only' = [only EXCEPT ![t] = (mode = "only")]
            /\ attempt' = [attempt EXCEPT ![t] = 1]
  /\ UNCHANGED <<mode, cached, dialed, open, fallback, used, was_cached, history>>

\* Mutant: the mode at the time of the failure decides.
Failed_CurrentMode(t, why) ==
  IF mode = "only"
    THEN Go(t, "failed") /\ UNCHANGED <<fallback, cause>>
    ELSE Go(t, "tcp") /\ fallback' = TRUE /\ cause' = why

\* The error arms of connect, run in the same go as what failed.
Failed(t, why) ==
  IF only[t]
    THEN Go(t, "failed") /\ UNCHANGED <<fallback, cause>>
    ELSE Go(t, "tcp") /\ fallback' = TRUE /\ cause' = why

\* 60 seconds have passed since the last failure.
FallbackEnds ==
  /\ fallback
  /\ fallback' = FALSE
  /\ UNCHANGED <<mode, cached, dialed, open, queue, pc, locals, history>>

-----------------------------------------------------------------------------
(* session: the cached connection, or a new one, all under the mutex.      *)

UseCached(t) ==
  /\ pc[t] = "asking" /\ Holds(t)
  /\ cached \in open
  /\ used' = [used EXCEPT ![t] = cached]
  /\ was_cached' = [was_cached EXCEPT ![t] = TRUE]
  /\ Go(t, "requesting")
  /\ Release
  /\ conn_since' = [conn_since EXCEPT ![t] = cached_since]
  /\ UNCHANGED <<mode, cached, dialed, open, fallback, only, attempt,
                 epoch, cached_since, faulty, cause>>

\* Mutant: the mutex is released for the handshake and taken again to insert.
Dial_Unlocked(t) ==
  /\ pc[t] = "asking" /\ Holds(t)
  /\ cached \notin open
  /\ cached' = 0
  /\ conn_since' = [conn_since EXCEPT ![t] = epoch]
  /\ Go(t, "dialing")
  /\ queue' = Append(Tail(queue), t)
  /\ UNCHANGED <<mode, dialed, open, fallback, locals,
                 epoch, cached_since, faulty, cause>>

\* None is cached, or the one that is has closed: the QUIC handshake begins,
\* with the mutex held.
Dial(t) ==
  /\ pc[t] = "asking" /\ Holds(t)
  /\ cached \notin open
  /\ cached' = 0
  /\ conn_since' = [conn_since EXCEPT ![t] = epoch]
  /\ Go(t, "dialing")
  /\ UNCHANGED <<mode, dialed, open, fallback, queue, locals,
                 epoch, cached_since, faulty, cause>>

\* It succeeds with one of the resolved addresses: the connection is cached.
Established(t) ==
  /\ pc[t] = "dialing" /\ Holds(t)
  /\ dialed < MaxConns
  /\ dialed' = dialed + 1
  /\ open' = open \cup {dialed + 1}
  /\ cached' = dialed + 1
  /\ cached_since' = conn_since[t]
  /\ used' = [used EXCEPT ![t] = dialed + 1]
  /\ was_cached' = [was_cached EXCEPT ![t] = FALSE]
  /\ Go(t, "requesting")
  /\ Release
  /\ UNCHANGED <<mode, fallback, only, attempt, epoch, conn_since, faulty, cause>>

\* No address answers in time, or the name does not resolve.
NotEstablished(t) ==
  /\ pc[t] = "dialing" /\ Holds(t)
  /\ Failed(t, "no answer")
  /\ Forget(t)
  /\ Release
  /\ UNCHANGED <<mode, cached, dialed, open, epoch, conn_since, cached_since, faulty>>

-----------------------------------------------------------------------------
(* The extended CONNECT request, and the rest of try_connect.              *)

\* 200: the tunnel is open.
Opened(t) ==
  /\ pc[t] = "requesting" /\ used[t] \in open
  /\ Go(t, "open")
  /\ Forget(t)
  /\ UNCHANGED <<mode, cached, dialed, open, fallback, queue, history>>

\* 401: the one error that is left to the caller.
Unauthorized(t) ==
  /\ pc[t] = "requesting" /\ used[t] \in open
  /\ Go(t, "refused")
  /\ Forget(t)
  /\ UNCHANGED <<mode, cached, dialed, open, fallback, queue, history>>

\* Any other status.
OtherStatus(t) ==
  /\ pc[t] = "requesting" /\ used[t] \in open
  /\ Failed(t, "status")
  /\ Forget(t)
  /\ UNCHANGED <<mode, cached, dialed, open, queue,
                 epoch, conn_since, cached_since, faulty>>

\* No answer within REQUEST_TIMEOUT, or the connection breaks. On a connection
\* made for this tunnel that is final; on one that was cached, and in the
\* second attempt, the cache is to be emptied.
Unanswered(t) ==
  /\ pc[t] = "requesting"
  /\ faulty' = faulty \cup {used[t]}
  /\ IF attempt[t] = 1 /\ ~was_cached[t]
       THEN Failed(t, "no answer") /\ Forget(t) /\ UNCHANGED queue
       ELSE Go(t, "removing") /\ Enqueue(t) /\ UNCHANGED <<fallback, cause, locals>>
  /\ UNCHANGED <<mode, cached, dialed, open, epoch, conn_since, cached_since>>

\* Mutant: the guard of the mutex lives on while session asks for it again.
RemoveAndRetry_KeepsGuard(t) ==
  /\ pc[t] = "removing" /\ Holds(t) /\ attempt[t] = 1
  /\ cached' = 0
  /\ attempt' = [attempt EXCEPT ![t] = 2]
  /\ Go(t, "asking")
  /\ queue' = Append(queue, t)
  /\ UNCHANGED <<mode, dialed, open, fallback, only, used, was_cached, history>>

\* Mutant: the connection stays in the cache unless it has closed.
RemoveAndRetry_KeepsOpen(t) ==
  /\ pc[t] = "removing" /\ Holds(t) /\ attempt[t] = 1
  /\ cached' = IF cached \in open THEN cached ELSE 0
  /\ attempt' = [attempt EXCEPT ![t] = 2]
  /\ Go(t, "asking")
  /\ queue' = Append(Tail(queue), t)
  /\ UNCHANGED <<mode, dialed, open, fallback, only, used, was_cached, history>>

\* SESSIONS.remove, whatever is cached now, and the request is repeated on what
\* session returns.
RemoveAndRetry(t) ==
  /\ pc[t] = "removing" /\ Holds(t) /\ attempt[t] = 1
  /\ cached' = 0
  /\ attempt' = [attempt EXCEPT ![t] = 2]
  /\ Go(t, "asking")
  /\ queue' = Append(Tail(queue), t)
  /\ UNCHANGED <<mode, dialed, open, fallback, only, used, was_cached, history>>

\* SESSIONS.remove after the second attempt, and connect's error arms.
RemoveAndFail(t) ==
  /\ pc[t] = "removing" /\ Holds(t) /\ attempt[t] = 2
  /\ cached' = 0
  /\ Failed(t, "no answer")
  /\ Forget(t)
  /\ Release
  /\ UNCHANGED <<mode, dialed, open, epoch, conn_since, cached_since, faulty>>

\* The tunnel ends, on whatever transport, or its failure has been reported.
End(t) ==
  /\ pc[t] \in {"open", "tcp", "refused", "failed"}
  /\ Go(t, "idle")
  /\ UNCHANGED <<mode, cached, dialed, open, fallback, queue, locals, history>>

-----------------------------------------------------------------------------
(* reset_sessions, the mode switch, and the network.                       *)

Reset ==
  /\ pc[Resetter] = "idle" /\ epoch < MaxResets
  /\ Go(Resetter, "clearing")
  /\ Enqueue(Resetter)
  /\ UNCHANGED <<mode, cached, dialed, open, fallback, locals, history>>

Clear ==
  /\ pc[Resetter] = "clearing" /\ Holds(Resetter)
  /\ cached' = 0
  /\ epoch' = epoch + 1
  /\ Go(Resetter, "cleared")
  /\ Release
  /\ UNCHANGED <<mode, dialed, open, fallback, locals,
                 conn_since, cached_since, faulty, cause>>

EndFallback ==
  /\ pc[Resetter] = "cleared"
  /\ fallback' = FALSE
  /\ Go(Resetter, "idle")
  /\ UNCHANGED <<mode, cached, dialed, open, queue, locals, history>>

SetMode(m) ==
  /\ mode' = m /\ m # mode
  /\ UNCHANGED <<cached, dialed, open, fallback, queue, pc, locals, history>>

\* The gateway closes a connection, or QUIC's idle timeout does.
Closes(c) ==
  /\ c \in open
  /\ open' = open \ {c}
  /\ UNCHANGED <<mode, cached, dialed, fallback, queue, pc, locals, history>>

-----------------------------------------------------------------------------
Init ==
  /\ mode \in Modes
  /\ cached = 0 /\ dialed = 0 /\ open = {}
  /\ fallback = FALSE
  /\ queue = <<>>
  /\ pc = [a \in Tunnels \cup {Resetter} |-> "idle"]
  /\ only = [t \in Tunnels |-> FALSE]
  /\ attempt = [t \in Tunnels |-> 0]
  /\ used = [t \in Tunnels |-> 0]
  /\ was_cached = [t \in Tunnels |-> FALSE]
  /\ epoch = 0
  /\ conn_since = [t \in Tunnels |-> 0]
  /\ cached_since = 0 /\ faulty = {} /\ cause = "none"

\* What a tunnel does between the call of connect and its result.
Progress(t) ==
  \/ UseCached(t) \/ Dial(t) \/ Established(t) \/ NotEstablished(t)
  \/ Opened(t) \/ Unauthorized(t) \/ OtherStatus(t) \/ Unanswered(t)
  \/ RemoveAndRetry(t) \/ RemoveAndFail(t)

Next ==
  \/ \E t \in Tunnels : Connect(t) \/ Progress(t) \/ End(t)
  \/ Reset \/ Clear \/ EndFallback \/ FallbackEnds
  \/ \E m \in Modes : SetMode(m)
  \/ \E c \in open : Closes(c)

Spec == Init /\ [][Next]_vars

\* The mutex is handed on, handshakes end after QUIC_HANDSHAKE_TIMEOUT for each
\* address, and requests after REQUEST_TIMEOUT. Tunnels need not come or end.
Fairness ==
  /\ \A t \in Tunnels : WF_vars(Progress(t))
  /\ WF_vars(Clear) /\ WF_vars(EndFallback)

FairSpec == Spec /\ Fairness

-----------------------------------------------------------------------------
(* Properties.                                                             *)

Places == {"idle", "asking", "dialing", "requesting", "removing",
           "open", "tcp", "refused", "failed", "clearing", "cleared"}

\* Types. try_connect sends at most two requests.
TypeOK ==
  /\ mode \in Modes
  /\ cached \in 0 .. dialed /\ dialed \in 0 .. MaxConns /\ open \subseteq 1 .. dialed
  /\ fallback \in BOOLEAN
  /\ queue \in Seq(Tunnels \cup {Resetter})
  /\ pc \in [Tunnels \cup {Resetter} -> Places]
  /\ only \in [Tunnels -> BOOLEAN]
  /\ attempt \in [Tunnels -> 0 .. 2]
  /\ used \in [Tunnels -> 0 .. dialed]
  /\ was_cached \in [Tunnels -> BOOLEAN]
  /\ epoch \in 0 .. MaxResets
  /\ conn_since \in [Tunnels -> 0 .. epoch]
  /\ cached_since \in 0 .. epoch
  /\ faulty \subseteq 1 .. dialed
  /\ cause \in {"none", "status", "no answer"}

\* The tunnels share one connection, made by one handshake at a time: a tunnel
\* that finds the cache empty waits for the handshake of another (http3.rs
\* 298-311), resets and removals wait for it, and no connection is put over one
\* that is open. The mutex that is held in between is no part of the promise.
Shared ==
  INSTANCE SharedConnection
    WITH shared <- cached, connecting <- \E t \in Tunnels : pc[t] = "dialing",
         made <- dialed, live <- open, given <- used

ImplementsShared == Shared!Spec

\* A connection is never put over another one in the cache.
InsertNeverOverwrites == [][cached' \notin {0, cached} => cached = 0]_vars

\* Whatever is cached was dialed, and the gateway resolved for it, after the
\* last call of reset_sessions cleared the cache, also when the handshake of a
\* tunnel was under way at the time (CHANGELOG 0.5.1).
FreshAfterReset == cached # 0 => cached_since = epoch

\* The second request of try_connect goes out on another connection than the
\* one that did not answer the first ("repeated once on a new connection").
RetryOnOtherConnection ==
  [][\A t \in Tunnels :
       attempt[t] = 2 /\ pc[t] # "requesting" /\ pc'[t] = "requesting" =>
         used'[t] # used[t]]_vars

\* A tunnel that called connect in the mode Only never goes over TCP and starts
\* no TCP period, even if the mode changes on its way (CHANGELOG 0.6.0).
OnlyNeverFallsBack ==
  [][\A t \in Tunnels :
       only[t] /\ pc'[t] # pc[t] => pc'[t] # "tcp" /\ (fallback' => fallback)]_vars

\* connect always comes back: no handshake, request or removal leaves the mutex
\* of SESSIONS locked, and there are at most two requests.
ConnectEnds ==
  \A t \in Tunnels :
    pc[t] \in {"asking", "dialing", "requesting", "removing"}
      ~> pc[t] \in {"open", "tcp", "refused", "failed"}

\* http3.rs 4-6: "All tunnels to one gateway share a single QUIC connection". A
\* connection that works is dropped from the cache when a request on an older
\* one fails late, and the next tunnel dials another.
HealthyConnectionKept ==
  [][cached' # cached /\ cached \in open => cached \in faulty \/ epoch' # epoch]_vars

\* http3.rs 200-202: reset_sessions forgets "any TCP fallback period, so the
\* next tunnel resolves the gateway again and dials a fresh QUIC connection". A
\* request that was under way on the old connection starts a new period.
ResetEndsFallback ==
  [][~fallback /\ fallback' /\ pc[Resetter] = "idle" =>
       \A t \in Tunnels : pc'[t] # pc[t] => conn_since[t] = epoch]_vars

\* CHANGELOG 0.5.0: tunnels fall back "when HTTP/3 cannot be used (UDP is
\* blocked, the gateway does not support RFC 9220)". One answer with a status
\* other than 200 and 401, such as 502 for one target, is enough.
FallbackOnlyWhenUnusable == fallback => cause = "no answer"
=============================================================================
