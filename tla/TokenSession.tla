---------------------------- MODULE TokenSession ----------------------------
(***************************************************************************)
(* The gateway login of ws2tcp-local-core in token mode: session.rs (the   *)
(* TokenSession, its background task keep_fresh and GatewayAuth::login)    *)
(* together with the retry loop of tunnel.rs connect_gateway that uses it, *)
(* and the token endpoints of the router, an external service.             *)
(*                                                                         *)
(* The actors are the tunnels, the start-up login and the background task. *)
(* They share `tokens`, the contents of TokenSession::state, behind a fair *)
(* (first come, first served) asynchronous mutex: the queue of actors that *)
(* have asked for it, its head being the owner. Every await point of the   *)
(* code is a value of pc, and every stretch of code between two await      *)
(* points is one action. Time is the integer `now`, in an arbitrary unit.  *)
(*                                                                         *)
(* A pair of tokens (access, refresh) is the number of the router's answer *)
(* that carried it; 0 stands for no pair.                                  *)
(***************************************************************************)
EXTENDS Integers, Sequences, FiniteSets

CONSTANTS
  Tunnels,            \* tasks that run connect_gateway
  Startup,            \* the call of GatewayAuth::login in run_proxy
  Keeper,             \* the task keep_fresh
  AccessTtls,         \* expires_in values the router may answer
  RefreshTtl,         \* the refresh_expires_in it answers
  LongestTtl,         \* the longest lifetime Instant and Duration can add up
  RenewRetryDelay,    \* RENEW_RETRY_DELAY
  MinInterval,        \* MIN_BACKGROUND_INTERVAL
  MaxRetryDelay,      \* MAX_BACKGROUND_RETRY_DELAY
  MaxTime,            \* bound: the clock stops here
  MaxIssued,          \* bound: pairs of tokens the router hands out
  MaxRestarts         \* bound: restarts of the router

Actors == Tunnels \cup {Startup, Keeper}
Ids == 1 .. MaxIssued

ASSUME ActorsAssumption ==
  /\ Startup # Keeper
  /\ Startup \notin Tunnels
  /\ Keeper \notin Tunnels

ASSUME TimesAssumption ==
  /\ AccessTtls \subseteq Nat
  /\ {RefreshTtl, LongestTtl, RenewRetryDelay, MinInterval, MaxRetryDelay,
      MaxTime, MaxIssued, MaxRestarts} \subseteq Nat
  /\ 0 < RenewRetryDelay /\ RenewRetryDelay <= MaxRetryDelay

VARIABLES
  now,            \* the clock
  tokens,         \* TokenSession::state, id = 0 while it is None
  queue,          \* who holds the mutex (the head), and who waits for it
  pc,             \* where each actor is
  wire,           \* the token request of each actor, or the answer to it
  carried,        \* the pair whose access token a tunnel's request carries
  renewed,        \* `renewed` of connect_gateway
  serving,        \* run_proxy has logged in and holds the Config
  seen,           \* `now` of until_background_renewal
  wake_at,        \* when the background task's sleep ends
  retry_at,       \* `retry_at` of keep_fresh, 0 for None
  retry_delay,    \* the delay after its next failure: 5 s * 2^failures, capped
  issued,         \* router: pairs handed out
  access_until,   \* router: when each access token ends, 0 once forgotten
  refresh_until,  \* router: the same for refresh tokens, 0 once used
  restarts        \* router: restarts so far

\* History, read by the properties only.
VARIABLES
  spent,          \* refresh tokens in flight, or exchanged for a new pair
  refused,        \* access tokens a tunnel was answered 401 to
  unrenewed,      \* pairs whose renewal failed
  scheduled,      \* renew_at as into_tokens set it for the current pair
  quiet_until,    \* no background attempt is expected before this time
  tried_id        \* the pair the last background attempt failed to renew

session  == <<tokens, queue>>
tunnels  == <<carried, renewed>>
keeper   == <<seen, wake_at, retry_at, retry_delay>>
router   == <<issued, access_until, refresh_until, restarts>>
history  == <<spent, refused, unrenewed, scheduled, quiet_until, tried_id>>
vars     == <<now, session, pc, wire, tunnels, serving, keeper, router, history>>

\* Where an actor waits for the mutex, and where for the answer to a request.
Waiting  == {"authorizing", "reporting", "waiting", "checking"}
Renewing == {"refreshing", "loggingIn"}

NoTokens == [id |-> 0, renew_at |-> 0, access_expires |-> 0, refresh_expires |-> 0]
NoWire   == [kind |-> "none", id |-> 0, ttl |-> 0]

MaxOf(m, n) == IF m >= n THEN m ELSE n
MinOf(m, n) == IF m <= n THEN m ELSE n

-----------------------------------------------------------------------------
(* The mutex.                                                              *)

Enqueue(a) == queue' = Append(queue, a)

\* Mutant: the state is read and replaced without holding the mutex.
Holds_NoLock(a) == \E i \in 1 .. Len(queue) : queue[i] = a

Holds(a) == queue # <<>> /\ Head(queue) = a

Release == queue' = Tail(queue)

\* Mutant: keep_fresh holds a strong reference.
Alive_Strong == serving \/ pc[Keeper] \notin {"unborn", "ended"}

\* The session is alive while somebody holds an Arc of it: run_proxy and the
\* handlers of open tunnels through their Config. The background task holds
\* one only while it is not asleep.
Alive == serving \/ \E t \in Tunnels : pc[t] # "idle"

-----------------------------------------------------------------------------
(* TokenResponse::into_tokens and TokenSession::renew.                     *)

IntoTokens(id, ttl) ==
  [id |-> id, renew_at |-> now + (4 * ttl) \div 5,
   access_expires |-> now + ttl, refresh_expires |-> now + RefreshTtl]

\* Mutant: only the expiry of the access token makes it due.
Due_MissesRenewAt == tokens.id = 0 \/ now >= tokens.access_expires

Due == tokens.id = 0 \/ now >= tokens.renew_at

\* The first await point of renew: a refresh when the refresh token has not
\* expired, else a login with the Basic credentials.
BeginRenew(a) ==
  IF tokens.id # 0 /\ now < tokens.refresh_expires
    THEN /\ pc' = [pc EXCEPT ![a] = "refreshing"]
         /\ wire' = [wire EXCEPT ![a] = [kind |-> "refresh", id |-> tokens.id, ttl |-> 0]]
         /\ spent' = spent \cup {tokens.id}
    ELSE /\ pc' = [pc EXCEPT ![a] = "loggingIn"]
         /\ wire' = [wire EXCEPT ![a] = [kind |-> "login", id |-> 0, ttl |-> 0]]
         /\ spent' = spent

\* The router refused the refresh token: log in instead.
RefreshRejected(a) ==
  /\ pc[a] = "refreshing" /\ wire[a].kind = "rejected"
  /\ pc' = [pc EXCEPT ![a] = "loggingIn"]
  /\ wire' = [wire EXCEPT ![a] = [kind |-> "login", id |-> 0, ttl |-> 0]]
  /\ spent' = spent \ {wire[a].id}
  /\ UNCHANGED <<now, session, tunnels, serving, keeper, router,
                 refused, unrenewed, scheduled, quiet_until, tried_id>>

\* renew returns Ok: the answer carried tokens, which replace the old ones,
\* and the caller lets the mutex go.
Replaced(a) ==
  /\ pc[a] \in Renewing
  /\ wire[a].kind = "granted" /\ wire[a].ttl <= LongestTtl
  /\ tokens' = IntoTokens(wire[a].id, wire[a].ttl)
  /\ scheduled' = now + (4 * wire[a].ttl) \div 5
  /\ wire' = [wire EXCEPT ![a] = NoWire]
  /\ Release

\* renew returns Err. A login was refused, or a request failed: the router
\* could not be reached, the answer was lost, late (REQUEST_TIMEOUT), not a
\* token response, or an error status. What the router did with the request
\* stays done.
NotReplaced(a) ==
  /\ \/ pc[a] = "refreshing" /\ wire[a].kind # "rejected"
        /\ spent' = spent \ {tokens.id}
     \/ pc[a] = "loggingIn"
        /\ spent' = spent
  /\ wire' = [wire EXCEPT ![a] = NoWire]
  /\ unrenewed' = unrenewed \cup ({tokens.id} \ {0})
  /\ UNCHANGED scheduled

\* into_tokens adds a lifetime that Instant or Duration cannot hold, and
\* panics. Unwinding drops the guard of the mutex and ends the task.
Panics(a) ==
  /\ pc[a] \in Renewing
  /\ wire[a].kind = "granted" /\ wire[a].ttl > LongestTtl
  /\ wire' = [wire EXCEPT ![a] = NoWire]
  /\ pc' = [pc EXCEPT ![a] = IF a \in Tunnels THEN "idle" ELSE "ended"]
  /\ Release
  /\ carried' = IF a \in Tunnels THEN [carried EXCEPT ![a] = 0] ELSE carried
  /\ renewed' = IF a \in Tunnels THEN [renewed EXCEPT ![a] = FALSE] ELSE renewed
  /\ spent' = IF pc[a] = "refreshing" THEN spent \ {tokens.id} ELSE spent
  /\ UNCHANGED <<now, tokens, serving, keeper, router,
                 refused, unrenewed, scheduled, quiet_until, tried_id>>

-----------------------------------------------------------------------------
(* GatewayAuth::login, at start-up: the only check of the credentials.     *)

LoginSucceeds ==
  /\ Replaced(Startup)
  /\ pc' = [pc EXCEPT ![Startup] = "ended", ![Keeper] = "planning"]
  /\ serving' = TRUE
  /\ UNCHANGED <<now, tunnels, keeper, router, spent, refused, unrenewed, quiet_until, tried_id>>

\* Rejected (Unauthorized) or failed (LoginFailed): run_proxy returns.
LoginFails ==
  /\ NotReplaced(Startup)
  /\ pc' = [pc EXCEPT ![Startup] = "ended"]
  /\ Release
  /\ UNCHANGED <<now, tokens, tunnels, serving, keeper, router, refused, quiet_until, tried_id>>

\* run_proxy returns and drops its Config. Handlers are tasks of their own
\* and go on.
Shutdown ==
  /\ serving
  /\ serving' = FALSE
  /\ UNCHANGED <<now, session, pc, wire, tunnels, keeper, router, history>>

-----------------------------------------------------------------------------
(* connect_gateway, run by a tunnel.                                       *)

\* A tunnel is accepted and asks for the authorization (session.rs 255-256).
OpenTunnel(t) ==
  /\ serving /\ pc[t] = "idle"
  /\ pc' = [pc EXCEPT ![t] = "authorizing"]
  /\ Enqueue(t)
  /\ UNCHANGED <<now, tokens, wire, tunnels, serving, keeper, router, history>>

\* authorization, with the mutex taken: the token is not due and is used.
UseToken(t) ==
  /\ pc[t] = "authorizing" /\ Holds(t) /\ ~Due
  /\ Release
  /\ carried' = [carried EXCEPT ![t] = tokens.id]
  /\ pc' = [pc EXCEPT ![t] = "connecting"]
  /\ UNCHANGED <<now, tokens, wire, renewed, serving, keeper, router, history>>

\* The same, when it is due.
RenewForTunnel(t) ==
  /\ pc[t] = "authorizing" /\ Holds(t) /\ Due
  /\ BeginRenew(t)
  /\ UNCHANGED <<now, session, tunnels, serving, keeper, router,
                 refused, unrenewed, scheduled, quiet_until, tried_id>>

TunnelRenewed(t) ==
  /\ Replaced(t)
  /\ carried' = [carried EXCEPT ![t] = wire[t].id]
  /\ pc' = [pc EXCEPT ![t] = "connecting"]
  /\ UNCHANGED <<now, renewed, serving, keeper, router,
                 spent, refused, unrenewed, quiet_until, tried_id>>

\* Mutant: the current token is used whether or not it has expired.
UseCurrentInstead_NoExpiryCheck(t) ==
  /\ tokens.id # 0
  /\ tokens' = [tokens EXCEPT !.renew_at = now + RenewRetryDelay]
  /\ carried' = [carried EXCEPT ![t] = tokens.id]
  /\ pc' = [pc EXCEPT ![t] = "connecting"]
  /\ UNCHANGED renewed

\* The renewal failed and the access token still works: use it, and renew
\* again a little later (session.rs 263-266).
UseCurrentInstead(t) ==
  /\ tokens.id # 0 /\ now < tokens.access_expires
  /\ tokens' = [tokens EXCEPT !.renew_at = now + RenewRetryDelay]
  /\ carried' = [carried EXCEPT ![t] = tokens.id]
  /\ pc' = [pc EXCEPT ![t] = "connecting"]
  /\ UNCHANGED renewed

\* connect_gateway returns an error and the handler ends.
GiveUp(t) ==
  /\ carried' = [carried EXCEPT ![t] = 0]
  /\ renewed' = [renewed EXCEPT ![t] = FALSE]
  /\ pc' = [pc EXCEPT ![t] = "idle"]

TunnelNotRenewed(t) ==
  /\ NotReplaced(t)
  /\ \/ UseCurrentInstead(t)
     \/ /\ tokens.id = 0 \/ now >= tokens.access_expires
        /\ GiveUp(t)
        /\ UNCHANGED tokens
  /\ Release
  /\ UNCHANGED <<now, serving, keeper, router, refused, quiet_until, tried_id>>

\* The websocket handshake with the gateway: it takes the access token.
Connected(t) ==
  /\ pc[t] = "connecting" /\ now < access_until[carried[t]]
  /\ pc' = [pc EXCEPT ![t] = "open"]
  /\ carried' = [carried EXCEPT ![t] = 0]
  /\ renewed' = [renewed EXCEPT ![t] = FALSE]
  /\ UNCHANGED <<now, session, wire, serving, keeper, router, history>>

\* It answers 401, the first time: the handler reports that.
Refused(t) ==
  /\ pc[t] = "connecting" /\ now >= access_until[carried[t]]
  /\ ~renewed[t]
  /\ renewed' = [renewed EXCEPT ![t] = TRUE]
  /\ refused' = refused \cup {carried[t]}
  /\ pc' = [pc EXCEPT ![t] = "reporting"]
  /\ Enqueue(t)
  /\ UNCHANGED <<now, tokens, wire, carried, serving, keeper, router,
                 spent, unrenewed, scheduled, quiet_until, tried_id>>

\* It answers 401 a second time: no retry.
RefusedAgain(t) ==
  /\ pc[t] = "connecting" /\ now >= access_until[carried[t]]
  /\ renewed[t]
  /\ GiveUp(t)
  /\ refused' = refused \cup {carried[t]}
  /\ UNCHANGED <<now, session, wire, serving, keeper, router,
                 spent, unrenewed, scheduled, quiet_until, tried_id>>

\* It does not answer, or answers anything else.
ConnectFails(t) ==
  /\ pc[t] = "connecting"
  /\ GiveUp(t)
  /\ UNCHANGED <<now, session, wire, serving, keeper, router, history>>

\* Mutant: a late report marks whatever token is current.
Rejected_AnyToken(t) == tokens' = [tokens EXCEPT !.renew_at = now]

\* TokenSession::rejected marks the token due only if it is still current.
Rejected(t) ==
  tokens' = IF tokens.id = carried[t]
              THEN [tokens EXCEPT !.renew_at = now] ELSE tokens

\* Mutant: the guard of the mutex is kept while the authorization is asked for.
ReportRejected_KeepsLock(t) ==
  /\ pc[t] = "reporting" /\ Holds(t)
  /\ Rejected(t)
  /\ pc' = [pc EXCEPT ![t] = "authorizing"]
  /\ queue' = Append(queue, t)
  /\ UNCHANGED <<now, wire, tunnels, serving, keeper, router, history>>

\* ... after which connect_gateway asks for the authorization again.
ReportRejected(t) ==
  /\ pc[t] = "reporting" /\ Holds(t)
  /\ Rejected(t)
  /\ pc' = [pc EXCEPT ![t] = "authorizing"]
  /\ queue' = Append(Tail(queue), t)
  /\ UNCHANGED <<now, wire, tunnels, serving, keeper, router, history>>

\* The tunnel's relay ends; the handler drops its Config.
CloseTunnel(t) ==
  /\ pc[t] = "open"
  /\ pc' = [pc EXCEPT ![t] = "idle"]
  /\ UNCHANGED <<now, session, wire, tunnels, serving, keeper, router, history>>

-----------------------------------------------------------------------------
(* keep_fresh, the background task.                                        *)

\* The top of the loop: upgrade the weak reference, read the clock
\* (session.rs 279), then wait for the mutex.
Plan ==
  /\ pc[Keeper] = "planning"
  /\ IF Alive
       THEN /\ pc' = [pc EXCEPT ![Keeper] = "waiting"]
            /\ seen' = now
            /\ Enqueue(Keeper)
       ELSE /\ pc' = [pc EXCEPT ![Keeper] = "ended"]
            /\ UNCHANGED <<seen, queue>>
  /\ UNCHANGED <<now, tokens, wire, tunnels, serving, wake_at, retry_at,
                 retry_delay, router, history>>

\* Mutant: the earlier of the two times counts.
BackgroundDue_Earlier ==
  LET renew_at == IF tokens.id = 0 THEN seen ELSE tokens.renew_at
  IN  IF retry_at = 0 THEN renew_at ELSE MinOf(renew_at, retry_at)

\* `due` of until_background_renewal.
BackgroundDue ==
  LET renew_at == IF tokens.id = 0 THEN seen ELSE tokens.renew_at
  IN  IF retry_at = 0 THEN renew_at ELSE MaxOf(renew_at, retry_at)

\* The rest of until_background_renewal. The wait is counted from the clock
\* as it was before the mutex was taken, and the sleep starts now.
Sleep ==
  /\ pc[Keeper] = "waiting" /\ Holds(Keeper)
  /\ Release
  /\ wake_at' = now + MaxOf(BackgroundDue - seen, MinInterval)
  /\ seen' = 0
  /\ pc' = [pc EXCEPT ![Keeper] = "asleep"]
  /\ UNCHANGED <<now, tokens, wire, tunnels, serving, retry_at, retry_delay,
                 router, history>>

\* The sleep is over: upgrade again, and ask for the mutex.
Wake ==
  /\ pc[Keeper] = "asleep" /\ now >= wake_at
  /\ IF Alive
       THEN pc' = [pc EXCEPT ![Keeper] = "checking"] /\ Enqueue(Keeper)
       ELSE pc' = [pc EXCEPT ![Keeper] = "ended"] /\ UNCHANGED queue
  /\ wake_at' = 0
  /\ UNCHANGED <<now, tokens, wire, tunnels, serving, seen, retry_at,
                 retry_delay, router, history>>

\* renew_in_background returned false: failures and retry_at are reset.
NoFailure ==
  /\ retry_at' = 0
  /\ retry_delay' = RenewRetryDelay
  /\ pc' = [pc EXCEPT ![Keeper] = "planning"]

\* ... because the tokens are not due any more,
NotDueAnyMore ==
  /\ pc[Keeper] = "checking" /\ Holds(Keeper) /\ ~Due
  /\ Release
  /\ NoFailure
  /\ UNCHANGED <<now, tokens, wire, tunnels, serving, seen, wake_at, router, history>>

RenewForKeeper ==
  /\ pc[Keeper] = "checking" /\ Holds(Keeper) /\ Due
  /\ BeginRenew(Keeper)
  /\ UNCHANGED <<now, session, tunnels, serving, keeper, router,
                 refused, unrenewed, scheduled, quiet_until, tried_id>>

\* ... or because it renewed them.
KeeperRenewed ==
  /\ Replaced(Keeper)
  /\ NoFailure
  /\ quiet_until' = now + MinInterval
  /\ tried_id' = 0
  /\ UNCHANGED <<now, tunnels, serving, seen, wake_at, router,
                 spent, refused, unrenewed>>

\* It failed: the delay doubles, up to its cap.
KeeperNotRenewed ==
  /\ NotReplaced(Keeper)
  /\ Release
  /\ retry_at' = now + retry_delay
  /\ retry_delay' = MinOf(2 * retry_delay, MaxRetryDelay)
  /\ pc' = [pc EXCEPT ![Keeper] = "planning"]
  /\ quiet_until' = now + RenewRetryDelay
  /\ tried_id' = tokens.id
  /\ UNCHANGED <<now, tokens, tunnels, serving, seen, wake_at, router, refused>>

-----------------------------------------------------------------------------
(* The router's token endpoints, known from how session.rs uses them and   *)
(* from its tests' router_like gateway: a login or a refresh hands out a   *)
(* new pair, and a refresh token can be used only once.                    *)

Grants(a) ==
  /\ \/ wire[a].kind = "login"
     \/ wire[a].kind = "refresh" /\ now < refresh_until[wire[a].id]
  /\ issued < MaxIssued
  /\ issued' = issued + 1
  /\ \E ttl \in AccessTtls :
       /\ wire' = [wire EXCEPT ![a] = [kind |-> "granted", id |-> issued + 1, ttl |-> ttl]]
       /\ access_until' = [access_until EXCEPT ![issued + 1] = now + ttl]
  /\ refresh_until' = [id \in Ids |->
       IF id = issued + 1 THEN now + RefreshTtl
       ELSE IF wire[a].kind = "refresh" /\ id = wire[a].id THEN 0
       ELSE refresh_until[id]]
  /\ UNCHANGED <<now, session, pc, tunnels, serving, keeper, restarts, history>>

Rejects(a) ==
  /\ wire[a].kind = "refresh" /\ now >= refresh_until[wire[a].id]
  /\ wire' = [wire EXCEPT ![a].kind = "rejected"]
  /\ UNCHANGED <<now, session, pc, tunnels, serving, keeper, router, history>>

\* A restart, or a revoked login: the router forgets every token.
Restart ==
  /\ restarts < MaxRestarts
  /\ restarts' = restarts + 1
  /\ access_until' = [id \in Ids |-> 0]
  /\ refresh_until' = [id \in Ids |-> 0]
  /\ UNCHANGED <<now, session, pc, wire, tunnels, serving, keeper, issued, history>>

Tick ==
  /\ now < MaxTime
  /\ now' = now + 1
  /\ UNCHANGED <<session, pc, wire, tunnels, serving, keeper, router, history>>

-----------------------------------------------------------------------------
Init ==
  /\ now = 0
  /\ tokens = NoTokens
  /\ queue = <<Startup>>
  /\ pc = [a \in Actors |-> IF a = Startup THEN "loggingIn"
                            ELSE IF a = Keeper THEN "unborn" ELSE "idle"]
  /\ wire = [a \in Actors |-> IF a = Startup THEN [kind |-> "login", id |-> 0, ttl |-> 0]
                              ELSE NoWire]
  /\ carried = [t \in Tunnels |-> 0]
  /\ renewed = [t \in Tunnels |-> FALSE]
  /\ serving = FALSE
  /\ seen = 0 /\ wake_at = 0 /\ retry_at = 0 /\ retry_delay = RenewRetryDelay
  /\ issued = 0 /\ restarts = 0
  /\ access_until = [id \in Ids |-> 0]
  /\ refresh_until = [id \in Ids |-> 0]
  /\ spent = {} /\ refused = {} /\ unrenewed = {}
  /\ scheduled = 0 /\ quiet_until = 0 /\ tried_id = 0

TunnelStep(t) ==
  \/ OpenTunnel(t) \/ UseToken(t) \/ RenewForTunnel(t) \/ TunnelRenewed(t)
  \/ TunnelNotRenewed(t) \/ Connected(t) \/ Refused(t) \/ RefusedAgain(t)
  \/ ConnectFails(t) \/ ReportRejected(t) \/ CloseTunnel(t)

KeeperStep ==
  \/ Plan \/ Sleep \/ Wake \/ NotDueAnyMore \/ RenewForKeeper
  \/ KeeperRenewed \/ KeeperNotRenewed

ActorStep(a) == RefreshRejected(a) \/ Panics(a) \/ Grants(a) \/ Rejects(a)

Next ==
  \/ \E a \in Actors : ActorStep(a)
  \/ LoginSucceeds \/ LoginFails \/ Shutdown
  \/ \E t \in Tunnels : TunnelStep(t)
  \/ KeeperStep
  \/ Restart \/ Tick

Spec == Init /\ [][Next]_vars

\* The same, with the code between two await points taking no time: the clock
\* moves only while everybody is asleep, idle, or waiting for the network.
Ready(a) == pc[a] = "planning" \/ (pc[a] \in Waiting /\ Holds(a))
PromptSpec == Init /\ [][Next /\ (now' # now => \A a \in Actors : ~Ready(a))]_vars

\* The mutex hands itself on, and every token request ends: reqwest times it
\* out after REQUEST_TIMEOUT. Nothing of the kind is assumed of tunnels, of the
\* handshake with the gateway (it has no timeout), or of the router.
LockStep(a) ==
  \/ a \in Tunnels /\ (UseToken(a) \/ RenewForTunnel(a) \/ ReportRejected(a))
  \/ a = Keeper /\ (Plan \/ Sleep \/ Wake \/ NotDueAnyMore \/ RenewForKeeper)

RequestEnds(a) ==
  \/ RefreshRejected(a) \/ Panics(a)
  \/ a \in Tunnels /\ (TunnelRenewed(a) \/ TunnelNotRenewed(a))
  \/ a = Keeper /\ (KeeperRenewed \/ KeeperNotRenewed)
  \/ a = Startup /\ (LoginSucceeds \/ LoginFails)

Fairness ==
  /\ \A a \in Actors : WF_vars(LockStep(a)) /\ WF_vars(RequestEnds(a))
  /\ WF_vars(Tick)

FairSpec == Spec /\ Fairness

-----------------------------------------------------------------------------
(* Properties.                                                             *)

Places   == Waiting \cup Renewing \cup
              {"unborn", "idle", "connecting", "open", "planning", "asleep", "ended"}

\* Types. The delay between failed background attempts stays within the two
\* constants of session.rs whatever the router answers.
TypeOK ==
  /\ now \in Nat
  /\ tokens \in [id : 0 .. MaxIssued, renew_at : Nat, access_expires : Nat,
                  refresh_expires : Nat]
  /\ queue \in Seq(Actors)
  /\ pc \in [Actors -> Places]
  /\ wire \in [Actors -> [kind : {"none", "login", "refresh", "granted", "rejected"},
                          id : 0 .. MaxIssued, ttl : Nat]]
  /\ carried \in [Tunnels -> 0 .. MaxIssued]
  /\ renewed \in [Tunnels -> BOOLEAN]
  /\ serving \in BOOLEAN
  /\ seen \in Nat /\ wake_at \in Nat /\ retry_at \in Nat
  /\ retry_delay \in RenewRetryDelay .. MaxRetryDelay
  /\ issued \in 0 .. MaxIssued
  /\ access_until \in [Ids -> Nat]
  /\ refresh_until \in [Ids -> Nat]
  /\ restarts \in 0 .. MaxRestarts
  /\ spent \subseteq Ids /\ refused \subseteq 0 .. MaxIssued /\ unrenewed \subseteq Ids
  /\ scheduled \in Nat /\ quiet_until \in Nat /\ tried_id \in 0 .. MaxIssued

\* At most one tunnel, login or background task is renewing at any moment
\* (session.rs 204-205: concurrent tunnels wait for one renewal instead of each
\* starting their own).
RenewalsExclusive ==
  \A a, b \in Actors : pc[a] \in Renewing /\ pc[b] \in Renewing => a = b

\* A refresh token is presented again only when the request that carried it
\* failed or was refused: never while it is in flight in another actor's
\* request, and never once the pair it was exchanged for has arrived
\* (session.rs 206-207: a refresh token can be used only once).
RefreshTokenOnce ==
  [][\A a \in Actors :
       pc[a] # "refreshing" /\ pc'[a] = "refreshing" => wire'[a].id \notin spent]_vars

\* Nobody renews a pair before 80% of its lifetime is used, unless the gateway
\* refused its access token: the late 401 of a tunnel that carried an older
\* token does not cost the new one (session.rs 306-313, test
\* a_rejected_access_token_is_replaced_on_the_next_call).
RenewalIsNeeded ==
  [][\A a \in Actors :
       pc[a] \in Waiting /\ pc'[a] \in Renewing =>
         tokens.id = 0 \/ now >= scheduled \/ tokens.id \in refused]_vars

HandedOut(t) == pc[t] # "connecting" /\ pc'[t] = "connecting"

\* The second try of a tunnel that was answered 401 carries another token,
\* unless renewing the refused one failed (tunnel.rs 470-474).
RetryCarriesNewToken ==
  [][\A t \in Tunnels :
       HandedOut(t) /\ renewed[t] =>
         carried'[t] # carried[t] \/ carried[t] \in unrenewed']_vars

\* The access token a tunnel is given expired less than RENEW_RETRY_DELAY ago,
\* if it expired at all.
ExpiredOnlyBriefly ==
  [][\A t \in Tunnels :
       HandedOut(t) => now < tokens'.access_expires + RenewRetryDelay]_vars

\* A renewal of the background task starts at least MIN_BACKGROUND_INTERVAL
\* after the last one ended, and RENEW_RETRY_DELAY after a failed one, whatever
\* lifetimes the router names (session.rs 40-45).
BackgroundPace ==
  [][pc[Keeper] = "checking" /\ pc'[Keeper] \in Renewing => now >= quiet_until]_vars

\* Whoever waits for the mutex gets it: no renewal, failed or not, and no
\* report of a refused token leaves it locked.
LockGranted ==
  \A a \in Tunnels \cup {Keeper} : pc[a] \in Waiting ~> pc[a] \notin Waiting

\* Once run_proxy has returned and the last tunnel is closed, the background
\* task ends, at the latest when its sleep does (keep_fresh holds a weak
\* reference only). A sleep that lasts longer than the clock runs is left out.
KeeperEnds ==
  /\ ~serving /\ \A t \in Tunnels : pc[t] = "idle"
  /\ pc[Keeper] \notin {"unborn", "waiting"} /\ wake_at <= MaxTime
  ~> pc[Keeper] = "ended"

\* session.rs 166-167: "a request never starts with a token that is about to
\* expire". It may start with one that has expired: after a failed renewal
\* renew_at is moved past access_expires (266), and until then nothing else
\* is checked.
NeverStartsExpired ==
  [][\A t \in Tunnels : HandedOut(t) => now < tokens'.access_expires]_vars

\* session.rs 276-277: the wait lasts until the access token is due, and not
\* before retry_at. It may last longer: it is counted from a clock read before
\* the mutex was waited for.
BackgroundOnTime ==
  [][pc[Keeper] = "waiting" /\ pc'[Keeper] = "asleep" =>
       wake_at' <= MaxOf(BackgroundDue, now + MinInterval)]_vars

\* session.rs 386-387: the background task renews "for as long as the session
\* lives". A lifetime that overflows Duration or Instant ends it.
KeeperLives == serving => pc[Keeper] # "ended"

\* session.rs 43-45: the delay "doubles with every failure in a row". A tunnel's
\* own failed renewal in between resets it.
BackoffKept ==
  [][retry_delay' < retry_delay => tokens'.id # tried_id]_vars
=============================================================================
