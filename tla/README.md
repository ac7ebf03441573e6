# Verification of ws2tcp-local-core

TLA+ models of `ws2tcp-local-core`, the library behind
the local proxy of ws2tcp: it accepts HTTP, SOCKS5 and UDP clients, decides by
routing rules whether a destination goes direct or through the gateway, and
tunnels the latter through websockets (over TCP or HTTP/3) to a ws2tcp-router.
Paths below are relative to the crate directory `src/`, as `src/session.rs`.

    tlc -workers 2 -config TokenTunnels.cfg MCTokenSession     # one run
    tlapm TokenSessionProofs.tla                               # one proof module

`PROJECT.json` maps every definition that models code to its lines, and lists
the runs, a mutant for each checked property, the hazards, the findings and the
main theorems.

## 1. The system

| Component | State | Operations | Acts together with |
|---|---|---|---|
| Token session, `session.rs` | `state: Mutex<Option<Tokens>>` (access and refresh token, `renew_at`, two expiry times); `failures`, `retry_at` of the task `keep_fresh` | `login`, `authorization`, `rejected`, `until_background_renewal`, `renew_in_background`, `renew`, `request` | tunnels, its background task, the router's token endpoints |
| Gateway connection, `tunnel.rs` `connect_gateway` | `renewed`, per tunnel | websocket handshake, one retry after a 401 | token session, HTTP/3 |
| HTTP/3 transport, `http3.rs` | `SESSIONS` (cache of QUIC connections), `FALLBACK_UNTIL`, the mode `Switch` | `connect`, `try_connect`, `session`, `establish`, `open_stream`, `reset_sessions`, `set` | tunnels, the mode task, the embedding program |
| Live rules, `routing_rules.rs` `RoutingRules` | `RwLock<RoutingRulesState>`, atomic `generation`, refresh tasks | `load`, `set_mode`, `spawn_auto_refresh`, `decide` | the mode task of `service.rs`, handlers that read |
| Rule list cache, `GfwlistCache` | cache file and its modification time, or body and time in memory | HEAD, compare, read, GET, write, set the time | sources, file system, other loaders and processes |
| Custom rules cache | parsed rules with their file time | reload when the time changed | file system |
| Rule parsing and matching | none | `parse_gfwlist`, `parse_custom_domain_rules`, `DomainRules::matches`, `host_from_authority` | handlers, the protocols |
| UDP association, `tunnel.rs` | `client_addr`, `targets`, a channel and a task per destination | receive, forward, reply, end | control connection, relay socket, gateway |
| Handlers and relay, `tunnel.rs` | per connection | `handle_client`, `handle_socks_client`, `handle_direct`, `handle_gateway`, `proxy` | all of the above |
| Start-up and accept loop, `service.rs` | the `Config`, the listeners, the tasks | check of the settings, login or health check, rules, mode tasks, bind, accept, shutdown | all of the above |
| Health check, `gateway_check.rs` | none kept | one websocket handshake and its first message, in one timeout | HTTP/3, start-up |
| Settings, `settings.rs` | the `Settings` | merge of command line and file, defaults, refusals | start-up |
| HTTP proxy requests, `http_proxy.rs` | the bytes read so far | read a head, find its authority, rewrite it | handlers |
| SOCKS5, `socks5.rs` | none kept | read a greeting and a request; take datagrams apart and build them | handlers, UDP association |
| Upstream proxy, `upstream.rs` | the bytes read so far | connect, CONNECT, read the answer, in one timeout | handlers, gateway connection |
| `gateway.rs`, `auth.rs`, `tls.rs`, `lib.rs` | none | parse, format, configure | start-up |

What is hard in it:

- *Token session.* Any number of tunnels and the background task find the token
  due at once, but a refresh token works once. Router restarts, lost answers,
  late 401s, a 401 for a token that was replaced meanwhile, odd lifetimes, and
  an asynchronous mutex that is held across network requests. Correct means: one
  renewal at a time, no refresh token presented twice, no needless renewal, one
  retry with a new token, a bounded use of an expired token, a mutex that always
  comes free, and a background task that keeps its pace and ends.
- *HTTP/3.* Tunnels share one connection that may die silently, race for the
  handshake, and race with `reset_sessions` and a switch of the mode. Correct
  means: one handshake at a time, a retry on another connection, nothing dialed
  before a reset left in the cache, no TCP in the mode `only`, and an end.
- *Live rules.* Loads and refreshes of earlier modes finish after later changes
  of the mode; mirrors are behind, and a source may never answer. Correct means: the
  last mode asked for wins, rules go back neither to an older mode nor to an older
  list of the same source, stale tasks end, published lists arrive.
- *Rule list cache.* A stop between two steps of the write, disks that fail,
  mirrors with times of their own, several loaders on one file. Correct means:
  no torn list, no outdated list, no needless download.
- *UDP association.* Two levels of tasks with timeouts and a bounded channel
  between them. Correct means: one client, datagrams in order, an end of the
  association with its control connection and of the targets with it.
- *Handlers and relay.* Two directions share one loop, and sends are awaited
  inside a branch of `select!`; peers close, reset or ping at any moment; bytes
  come along with the request. Correct means: no chunk lost, doubled or
  overtaken, the reply before and the end after everything else, and an end.
- *Start-up.* Three kinds of authentication over two transports, several
  timeouts inside one, modes worked out in four places, a shutdown that is looked
  at in one place only. Correct means: nothing bound or fetched before the
  credentials were accepted, the mode that was reported, the command line before
  the file, an end of the start and of the shutdown.
- *Handshakes with clients and the upstream proxy.* Requests arrive cut into
  pieces anywhere and break off anywhere; names go through text, brackets and
  octets and decide about the route on the way. Correct means: each request
  understood as it was meant, routed as the lists say, not a byte of what follows
  it lost, nothing passed on that was meant for this hop, and an end.

`PROJECT.json` lists each hazard at its line with the properties that catch it.

## 2. Modules

| Module | Models | Bounds (constants) |
|---|---|---|
| `TokenSession` | `session.rs`, `connect_gateway`; the router's token endpoints as environment | `MaxTime`, `MaxIssued`, `MaxRestarts` |
| `RoutingRules` | `RoutingRules::load`, `set_mode`, `spawn_auto_refresh`, the mode task; the sources as environment | `MaxChanges`, `MaxVersion`, `Sources` |
| `RuleCache` | `GfwlistCache`, the requests to the sources | `MaxVersion` |
| `Http3Sessions` | `connect` to `open_stream`, `SESSIONS`, `reset_sessions`, the `Switch` | `MaxConns`, `MaxResets` |
| `UdpAssociate` | `handle_socks_udp_associate`, `run_udp_target` and its transports | `MaxDatagrams`, ticks up to `IdleTimeout` |
| `TunnelRelay` | `handle_client`, `handle_socks_client`, `handle_gateway` with `proxy`, `handle_direct`; tokio's `copy_bidirectional`, the peers and their sockets as environment | `MaxChunks`, `Window` |
| `RoutingMode` | nothing of its own: what the live rules promise, implemented by `RoutingRules` | |
| `SharedConnection` | nothing of its own: what the connection cache promises, implemented by `Http3Sessions` | |
| `Startup` | `Settings::resolve`, `run_proxy_with_updates`, `http3_mode`, `check_gateway` with `connect_websocket` and the HTTP/3 attempts below it | `MaxAddresses`, `MaxConns` |
| `HostRules` | `parse_proxy_rule_domain`, `parse_custom_domain_rule_domain`, `DomainRules::matches`, `host_from_authority`, as operators | |
| `HttpHead` | `parse_proxy_request` and the rewriting of a head, as operators | |
| `Handshakes` | `read_proxy_request`, `read_socks5_request`, `parse_udp_datagram`, `build_udp_datagram`, the CONNECT exchange of `upstream.rs`, the choice of the route; uses `HostRules` and `HttpHead` | the inputs |
| `MC...` | the module for TLC: symmetry sets, inputs, and the times of the sources | |
| `...Proofs` | theorems | none: for all values of the constants |

The modules follow one convention. An actor is a task of the program; its `pc`
is the await point it is at, and an action is the code from one await point to
the next, early returns and error paths being disjuncts or actions of their own.
An asynchronous mutex is `queue`, with the owner at its head: tokio's `Mutex` is
first come, first served. Variables under *History* are read by properties only;
they record what the code itself forgets (what was refused, who wrote, which
tokens are in flight). Operators with an underscore in their name are mutants of
the definition that follows them and are used by nothing else.

**TokenSession.** `tokens` is `TokenSession::state`; a pair is the number of the
router's answer that carried it. `BeginRenew`, `RefreshRejected`, `Replaced` and
`NotReplaced` are the parts of `renew` and `request`, shared by the three callers:
the login (`LoginSucceeds`, `LoginFails`), `authorization` (`UseToken`,
`RenewForTunnel`, `TunnelRenewed`, `TunnelNotRenewed` with `UseCurrentInstead` or
`GiveUp`) and `renew_in_background` (`NotDueAnyMore`, `RenewForKeeper`,
`KeeperRenewed`, `KeeperNotRenewed`). `Refused`, `ReportRejected`, `RefusedAgain`
are the retry of `connect_gateway`; `Plan`, `Sleep`, `Wake` the loop of
`keep_fresh` with its two upgrades of the weak reference. Time is an integer in
an arbitrary unit. `Panics` stands for lifetimes that `Instant + Duration` or the
multiplication by 4 cannot hold. The router hands out a pair for a login or an
unused, unexpired refresh token, forgets everything in a `Restart`, and its
answer may be lost or late (`NotReplaced` after `Grants`).

**RoutingRules.** Comparing the generation and writing the rules are two
actions; with `Preemptive` other tasks run between them, as they do on a
multi-threaded runtime. Without it nothing does, since no await separates them.
A load is its outcome (`Answers`): what some source serves at the moment, any of
which may be behind the others, or a list that a cache keeps under the time that a
source gives (`Kept`; on a multi-threaded runtime any list, since two loaders may
write the file at once). It may also fail, and it need not end: the client that asks
the sources has no timeout. A list is its version and the source that it is said to
be from. The steps of a load are in `RuleCache`.

**RuleCache.** One action per step of a load, the write of the file being three
(truncate, fill, set the time). `New` is a restart, also in the middle of a load,
and the loader a switch to Auto makes. The time of a local write is 0, that is,
it is taken to differ from every time of a source. The body of the list is its
version, a bad body, or a torn one.

**Http3Sessions.** One gateway, so one key in `SESSIONS`. A connection is the
number of its handshake, `open` those without a close reason. The fallback period
ends at some time after it began. The copying of bytes and the tunnel counts are
left out: nothing in the cache reads them.

**UdpAssociate.** `quiet` and `target_quiet` are the ticks since the `select!`
began to wait, since the timeouts inside it start anew with each iteration. A
loop that waits for room in a channel (`sending`) looks at nothing else.

**TunnelRelay.** One connection, on either route. Bytes are chunks numbered per
direction; `inbox[d]` and `outbox[d]` are the sockets on both sides of the
handler, of `Window` items, and `held[d]` is the chunk that is read and not yet
written. `pc` follows `proxy` from one await to the next: while it is
`sendingUp`, `sendingDown`, `ponging` or `closing` the `select!` is not polled.
`copy_bidirectional` keeps two directions that know nothing of each other.
`AfterDrop` is what a peer sees of dropped sockets; a socket that is dropped with
unread bytes resets its connection, so that what was written may be lost. Which
route is taken is left open, since the rules may be anything at that moment.

**RoutingMode** is the abstract specification of the live rules: a mode that was
asked for and the active rules, which only ever change towards it, to a list that
its source has served, and never to an older list of the source of the active one;
from one source to another they may, mirrors being what they are.
`RoutingRules!Promise` maps `asked` to its mode, `rules` to its active rules and
`published` to what the sources serve; the loads, the refresh tasks and the
generations are stutters.

**SharedConnection** is the abstract specification of the connection cache: one
connection to share, one handshake at a time, begun only when there is no open one
to share. While it lasts nothing is shared, given or dropped, and it ends with a
connection that is new to all or with none. No tunnel is given again, without
having left it, the connection that did not answer it. `Http3Sessions!Shared` maps
`cached` to the shared connection, "some tunnel is dialing" to the handshake,
`dialed`, `open` and `used` to the connections made, live and given. The mutex and
its queue, the fallback period and the mode are stutters.

**Startup.** `stage` is the await `run_proxy_with_updates` is at. The command line
and the file are functions from keys to values or `Absent`; `Resolved` has the
precedence of each key. `http3` is the `Switch`: `Begin` sets it as the start
does, `ReportedMode` is the separate computation of `http3_mode`, and
`UpdateHttp3` the task that applies updates. The health check counts the seconds
it has spent (`elapsed`): a silent address costs `HandshakeTimeout`, a silent
request `RequestTimeout`, and `CheckTimesOut` is the one timeout around them.
Logins, loads of rules and handlers are their outcome here: `TokenSession`,
`RuleCache` and `TunnelRelay` have the rest. The test for `wss` is on the text of
the URL, so that `WSS://` counts as not `wss`, and an error of `accept`, on either
socket, ends the proxy; both are in the model as they are in the code.

**HostRules, HttpHead, Handshakes.** A name is the sequence of its labels; an
octet is a number, and a label of a name or a text of a head counts as one. An
input says what the peer means by its octets, so that `Understood` compares what
the code makes of them with what was meant. Octets arrive one or more at a time
and may end anywhere. A domain of a SOCKS5 request that begins with `[` ends the
handler without a reply (`tunnel.rs:170`): `unroutable`. Two things are read more
widely than one might think, and the inputs have them: an authority may have any
host in brackets (`http_proxy.rs:291`), which is then routed by that name; and a target
is a URL only if it starts with `http://` or `https://` in lower case
(`http_proxy.rs:130`), so that `HTTP://...` and `ftp://...` are passed on like a path,
to the host of the `Host` header. A line of the rule list does not end at `#`
(`routing_rules.rs:859`), a line of the custom rules does (`routing_rules.rs:847`).

## 3. Runs

| Run | Module, config | Shows | Why the bounds are enough |
|---|---|---|---|
| `token_tunnels` | MCTokenSession, TokenTunnels | one renewal at a time, no refresh token twice, no needless renewal, a retry with a new token | two tunnels and the background task contend; the lifetime of 2 is due after 1 and over after 2; two pairs give an old and a new token; one restart makes both tokens of a pair invalid |
| `token_clock` | TokenClock | an expired token is used for less than `RENEW_RETRY_DELAY`, the background task keeps its pace | one token lifetime (5) and a half; `RENEW_RETRY_DELAY` 2 reaches past the expiry of a token renewed at 4; the cap 4 is met after two failures; lifetimes 0 and 99 are the odd ones (`LongestTtl` is 50) |
| `token_liveness` | TokenLiveness | who waits for the mutex gets it; the background task ends | every outcome of a request, a refused refresh and a lost answer occur within two pairs and three ticks |
| `rules_one_thread` | MCRoutingRules, RulesOneThread | last mode wins, rules in order, stale tasks end, lists arrive, `RoutingMode` is implemented | two changes leave a task two generations behind; two versions make one list old; two sources put one behind the other; their times are all distinct (`DistinctTimes`) |
| `rule_cache` | MCRuleCache, RuleCache | no torn and no outdated list, no second download | three versions from two sources: an older, the present and a later one; restart at every step |
| `http3_cache` | MCHttp3Sessions, Http3Cache | fresh after a reset, `SharedConnection` is implemented (one handshake at a time), retry elsewhere, `only` stays | two connections: the dead one and its replacement; one reset at every step of two tunnels |
| `http3_ends` | Http3Ends | every `connect` comes back | one connection, which may die or be reset |
| `udp_association` | MCUdpAssociate, UdpAssociation | one client, order, the end of the association and of its targets | channels of two and four datagrams: full, and one waiting; two destinations and two peers to be told apart |
| `tunnel_relay` | MCTunnelRelay, TunnelRelay | no chunk lost, doubled or overtaken (`Whole`), reply first and end last (`Framed`), everything arrives, the handler ends | two chunks in each direction show an order and may both come with the request; sockets of two items are filled by chunks, replies and pings |
| `startup` | MCStartup, Startup | credentials before anything else, the mode as reported, fallback in time, command line before file, start and shutdown end | every pair of an entry on the command line and one in the file, and every combination of the settings the start depends on; the timeouts are those of the code (10, 3 and 5 s) and four silent addresses take more than the check's; one connection is open at the shutdown or not |
| `handshakes` | MCHandshakes, Handshakes | requests, greetings, answers and datagrams understood as meant (`Understood`), not a byte lost and no limit passed (`NotAByteMore`), the rewritten head, the route, an end | each kind of request right, and wrong in each way the code tells apart, with and without bytes after it; reads of 4 of at most 22 put cuts at every place of a head and heads on both sides of the limit |
| `rules_race` | RulesRace | *violated*: `set_mode(Global)` is undone by a load | |

The types of each module are its `TypeOK`, a theorem of each (section 5), so that
no run repeats them.

`CHECK_DEADLOCK FALSE` stands where the system may stop: the clock's bound is
reached, the session is over, there are no more mode changes, the association or
the connection has ended. `RuleCache` and `Http3Sessions` go on for ever and are checked for
deadlock.

*Fairness.* What each assumption stands for:

- `TokenSession`: the holder of the mutex goes on and a token request ends,
  since reqwest is built with `REQUEST_TIMEOUT` (10 s); the clock goes on.
  Nothing is assumed of the router, of tunnels, or of the handshake with the
  gateway, which over TCP has no timeout.
- `Http3Sessions`: handshakes end after `QUIC_HANDSHAKE_TIMEOUT` (3 s for each
  address), requests after `REQUEST_TIMEOUT` (5 s).
- `UdpAssociate`: strong fairness of `ControlClosed`, because `select!` polls its
  branches in random order: a branch that is ready whenever the loop selects is
  taken in the end. `HandshakesEnd` is a separate assumption, given to
  `udp_association` and withheld in UdpStuck.cfg: the websocket handshake over
  TCP has no timeout.
- `Startup`: awaits that a timeout limits come to an end, binding does, and the
  accept loop sees a shutdown. `SourcesAnswer` is a separate assumption, in
  `AnsweringSpec` only: nothing limits the download of the rules.
- `Handshakes`: what has arrived is read, and the timeout of `upstream.rs` runs.
  No client has to send or close: `HandshakesEnd` says what follows if it closes.
- `TunnelRelay`: the same of the two branches of `proxy`; both peers read, which is
  assumed, not justified: when one does not, the other direction stands still on
  the gateway route. Nobody has to send or close, and the connection to the
  target need not come about.
- `RoutingRules`: strong fairness of the steps of a task that wait for no source
  (`Runs`), since a current-thread runtime runs ready tasks in turn although a task
  may be briefly disabled by another in the middle of its stretch. A load need not
  end (`routing_rules.rs:29`), so `StaleTasksEnd` excepts a task whose load is never
  answered, and such tasks do pile up. `HotReload` says in its own words that the
  sources answer the task again and again. `SourcesAnswer` is a separate assumption,
  in `AnsweringSpec` only. Nobody has to change the mode.

*Mutants.* Each checked property is violated by a plausible bug in a definition
it is about, such as a state replaced without the mutex, the check of the
generation left out, or the expiry not looked at.

## 4. Findings

One is a run that TLC finds violated: `routing_rules.rs:197`. On a multi-threaded
runtime the comparison of the generation and the write are not atomic;
`set_mode(Global)` in between is lost, where the test
`dynamically_switches_to_global_mode` expects every host to be proxied.

### Other disagreements

The modules state further promises of comments and of the changelog that do not
hold. Each is in the config named here, and TLC gives the counterexample
(HandshakesPromises has three, for which `tlc -continue` shows all):

| Property | Config | What happens |
|---|---|---|
| `NeverStartsExpired` | TokenExpired | after a failed renewal the next one is put off by `RENEW_RETRY_DELAY` and the expiry is not looked at meanwhile (`session.rs:266`), although "a request never starts with a token that is about to expire" (`session.rs:166`); `ExpiredOnlyBriefly`, which is proved, bounds it |
| `BackgroundOnTime` | TokenLateWake | the clock is read before the mutex is waited for (`session.rs:279`), so the sleep ends too late by that wait; `PromptSpec` lets code between await points take no time, so that it is the wait and nothing else |
| `KeeperLives` | TokenKeeperDies | a lifetime too long for `Duration` or `Instant` panics (`session.rs:168`) and ends the background task |
| `BackoffKept` | TokenBackoff | a tunnel's failed renewal resets the background task's delay (`session.rs:294`) |
| `CachedIsCurrent` | RuleCacheMirrors | times of different mirrors are compared (`routing_rules.rs:464`): an old list passes for the current one |
| `CachedIsCurrent` | RuleCacheShared | two loaders write the file at once (`routing_rules.rs:737`): the list of one stays under the time of the other |
| `BadNotReused` | RuleCacheBad | a body is cached before it is parsed (`routing_rules.rs:503`), and a bad one is read again until the source's time changes |
| `HealthyConnectionKept` | Http3Sharing | the cache entry is removed by key (`http3.rs:276`), whichever connection it holds by then |
| `ResetEndsFallback` | Http3ResetRace | a request under way during `reset_sessions` starts a fallback period afterwards (`http3.rs:252`) |
| `FallbackOnlyWhenUnusable` | Http3Status | any status but 200 and 401, such as a 502 for one target, starts the fallback period (`http3.rs:246`) |
| `OnlyRacingSendsLost` | UdpBlackHole | the channel of an ended task stays in `targets` (`tunnel.rs:285`): every later datagram to it is dropped |
| `AutoRecovers` | RulesNoRefresh | a switch to Auto whose load fails starts no refresh task (`routing_rules.rs:204`), so "direct routing until rules are available" lasts for good, however well the sources answer (`AnsweringSpec`) |
| `ControlEndsAssociation` | UdpStuck | while the loop waits for room in a channel whose task waits for a handshake, the end of the control connection goes unnoticed (`tunnel.rs:303`), against "so is the whole association once its control connection closes" |
| `StartsRightAway` | StartupStuck | the client that downloads the rules has no timeout (`routing_rules.rs:29`): a source that stays silent keeps the proxy from starting, although without credentials "the proxy starts right away" (`README.md:51`) |
| `AlwaysFallsBack` | StartupFallback | four silent addresses of 3 s each use up the 10 s of the check before TCP is tried, although HTTP/1.1 is the fallback when "the network does not allow" HTTP/3 (`settings.rs:67`); `FallsBackInTime`, which is proved, says exactly when |
| `AnonymousIsChecked` | StartupAnonymous | without credentials there is no health check (`service.rs:70`), although `settings.rs:31` announces one |
| `LimitIsOnHead` | HandshakesPromises | the limit counts what was read together with the head (`http_proxy.rs:63`): whether a head is accepted depends on how it arrives |
| `DatagramsInverse` | HandshakesPromises | a datagram to the domain name `::1` is answered as from the IPv6 address (`socks5.rs:194`): `build_udp_datagram` is not the inverse of `parse_udp_datagram` |
| `OnlyHttpTargets` | HandshakesPromises | a target is a URL only if it starts with `http://` or `https://` (`http_proxy.rs:130`): one of any other scheme, `HTTPS://` among them, is sent in plain text to the host of the `Host` header, although "ordinary HTTP proxy requests only support http:// targets" (`http_proxy.rs:154`) |
| `OnlyIdleTornDown` | UdpIdle | an association that only receives is torn down as idle (`tunnel.rs:263`) |

Of the rest, a body that breaks off ends a load instead of moving on to the next
source (`routing_rules.rs:569`); no document says otherwise.

## 5. Proofs

Proved by TLAPS for every value of the constants, from the named assumptions of
the modules (distinct actors, naturals, `0 < RenewRetryDelay <= MaxRetryDelay`,
at least one version, command lines and files over `Keys`, sockets that hold
something, a read of at least one octet, streams that are sequences of octets,
lists whose names are sequences of labels, labels that are numbers being the texts
of octets, and IPv6 addresses of sixteen octets) and from those the table names:

| Theorem | States |
|---|---|
| `TokenSessionProofs!TypeCorrect` | `Spec => []TypeOK` |
| `TokenSessionProofs!Exclusive` | `Spec => []RenewalsExclusive` |
| `TokenSessionProofs!PresentedOnce` | `Spec => RefreshTokenOnce` |
| `TokenSessionProofs!OnlyWhenNeeded` | `Spec => RenewalIsNeeded` |
| `TokenSessionProofs!NeverLongExpired` | `Spec => ExpiredOnlyBriefly` |
| `TokenSessionProofs!KeepsPace` | `Spec => BackgroundPace` |
| `TokenSessionProofs!NewTokenOnRetry` | `Spec => RetryCarriesNewToken` |
| `RoutingRulesProofs!TypeCorrect` | `Spec => []TypeOK`, on every runtime |
| `RoutingRulesProofs!GlobalHasLastWord` | `~Preemptive`: `Spec => []GlobalStays` |
| `RoutingRulesProofs!InOrder` | `~Preemptive`, `TimesTell`: `Spec => RulesInOrder` |
| `RoutingRulesProofs!Implements` | `~Preemptive`, `TimesTell`: `Spec => Promise!Spec`, the refinement |
| `RuleCacheProofs!TypeCorrect` | `Spec => []TypeOK`, any number of loaders |
| `RuleCacheProofs!TornNotUsed` | `OneLoader`: `Spec => []NeverTorn` |
| `RuleCacheProofs!NotDownloadedAgain` | `OneLoader`: `Spec => UnchangedNotDownloaded` |
| `RuleCacheProofs!NeverBehind` | `OneLoader`, `TimesTell`: `Spec => []CachedIsCurrent` |
| `Http3SessionsProofs!TypeCorrect` | `Spec => []TypeOK` |
| `Http3SessionsProofs!Fresh` | `Spec => []FreshAfterReset` |
| `Http3SessionsProofs!NeverOverwritten` | `Spec => InsertNeverOverwrites`, which no run checks of its own: the refinement below says more |
| `Http3SessionsProofs!SharesOne` | `Spec => ImplementsShared`, the refinement of `SharedConnection`, any number of tunnels |
| `Http3SessionsProofs!RetriedElsewhere` | `Spec => RetryOnOtherConnection` |
| `Http3SessionsProofs!NeverOverTcp` | `Spec => OnlyNeverFallsBack` |
| `UdpAssociateProofs!TypeCorrect` | `Spec => []TypeOK`, channels within their capacity |
| `UdpAssociateProofs!AnswersOneClient` | `Spec => []OneClient` |
| `UdpAssociateProofs!SentInOrder` | `Spec => InOrder` |
| `StartupProofs!TypeCorrect` | `Spec => []TypeOK`, ports held by who serves only |
| `StartupProofs!CheckedFirst` | `Spec => []NothingBeforeCheck` |
| `StartupProofs!Reported` | `Spec => []StartsAsReported` |
| `StartupProofs!FallsBack` | `Spec => []FallsBackInTime`, for any timeouts |
| `StartupProofs!CommandLineWins` | `Spec => []FileNeverOverrides` |
| `TunnelRelayProofs!TypeCorrect` | `Spec => []TypeOK`, sockets within their window |
| `TunnelRelayProofs!NothingLost` | `Spec => []Whole`, any number of chunks |
| `TunnelRelayProofs!BytesAreFramed` | `Spec => []Framed` |
| `HandshakesProofs!TypeCorrect` | `Spec => []TypeOK` |
| `HandshakesProofs!NothingIsTakenTwice` | `Spec => []NotAByteMore`, any streams and limits |
| `HandshakesProofs!StreamsAreReadWhole` | `Spec => []CutsDoNotMatter`: what comes of a handshake is what the whole stream says, however it was cut |
| `HandshakesProofs!RouteFollowsRules` | `Spec => []RoutedByRules`: proxied if and only if the host is `Under` a rule's domain, for all lists and hosts |
| `HandshakesProofs!RouteIsAsListed` | `ReadAsMeant`: `Spec => []RoutedAsListed` |
| `HandshakesProofs!RequestsAreUnderstood` | `SaidAsMeant`: `Spec => []Understood`, any cut into pieces |
| `HandshakesProofs!OwnHeadersAreForwarded` | `SaidAsMeant` and `OthersAsMeant`: `Spec => []ForwardedHead`, any number of headers |

*Token session: types and the mutex.* The types are not inductive alone: letting
the mutex go takes the head off the queue. `TypeInv` adds `Owner`, that whoever
renews holds the mutex. `Exclusive` follows, because a queue has one head.

*Refresh tokens.* `PairInv` says who is on the wire (`Wired`), that a refresh
presents the current pair (`Presented`), that a granted pair is new
(`GrantedNew`, `Numbers`), and that the current pair counts as spent only while
its renewal is under way (`InFlight`). By `Exclusive`, whoever begins a renewal
then finds the current pair unspent. The proof goes by the kinds of steps: those
no renewal notices (`Quiet`), `Begins`, `Answered`, `Unanswered`, and those of
the router.

*Times.* `TimeInv` says that a renewal is never put off beyond expiry plus
`RENEW_RETRY_DELAY` (`RenewSoon`), and that one which is brought forward has a
reason (`Scheduled`, `NeedKept`), a token reported having been refused
(`Reported`). `PaceInv` follows the end of the quiet time through a round of
`keep_fresh`: whether `retry_at` or the least interval carries it (`Spaced`), the
sleep does not end before.

*The second try.* `RetryInv`: pairs only ever become later ones (`Later`), and
while a tunnel asks again, the token it reported is replaced, due, or has been
tried in vain (`Followed`). The last is what a tunnel that goes on with the
current pair leaves to the others.

*Rules.* A task only looks at the generation, ends a load, or writes (`Kinds`).
`OrderInv`: who has compared the generation is of the current one and no
`set_mode(Global)` is half done (`Undisturbed`), generations without a task
(`NoTask`), rules written for a mode that was asked for (`Asked`). That is where
`~Preemptive` is needed; `rules_race` is the counterexample without it. For the
order of lists and the refinement `PromiseInv` adds `AgeInv`: no list is newer than
what its source serves (`NotAhead`), and one that was loaded for the mode of the
active rules or a later one may follow the active list (`AheadOfNone`). It rests on
`TimesTell`, that no two sources and no two versions have the same time: only then
is what a cache hands out the list of the source that was asked (`AnswersServed`).
Where a mirror gives a version the time that the first source gave the one before
(`SharedTimes` in place of `DistinctTimes` in RulesOneThread.cfg), `RulesInOrder` and
the refinement fail: the cached list of one mirror passes for that of another, which
is behind, and a later load from the other goes back. `GlobalHasLastWord` does not
need `TimesTell`.

*Rule cache.* `WholeInv`: only a body written to its end has the time of a source,
because the time is set last. `KnownInv` ties the time of the last download to
the one that is looked at. `AgeInv`: a stored list is not older than any that a
source gives that time. `OneLoader` and `TimesTell` are needed: RuleCacheShared.cfg
and RuleCacheMirrors.cfg drop one each, and `CachedIsCurrent` fails. The times of
`rule_cache` satisfy `TimesTell`.

*HTTP/3.* `DialInv`: who dials owns the mutex, found the cache empty and has seen
every reset. `Fresh` and `NeverOverwritten` follow. `RetryInv`: while the second
attempt looks for a connection, the one that did not answer is not cached.
`OnlyInv`: outside `connect` no tunnel is one that may not use TCP. For the
refinement `UsedInv` adds that a tunnel which has yet to send its request, or is
done, is on no connection, so that who fails before a request leaves none; who holds
the mutex is the only one that may dial (`Alone`), so one tunnel that stops dialing
ends the handshake. Each step then is one of `SharedConnection` or a stutter.

*UDP.* `PinnedInv`: tasks exist only once a client is pinned. `OrderInv`: what a
destination was sent, what is queued and what the loop waits to queue are in the
order of arrival.

*Start.* `SettledInv`: the settings are `Resolved` of what was given, once they
are there at all. `TimeInv` keeps account of the check: while it dials, the time
spent and the time of the addresses left are together at most
`WaitsWithoutQuic`, whatever the timeouts are. `ModeInv`: until a task changes
it, the mode is that of the start, and where HTTP/3 is ruled out it is off.

*Relay.* Each direction is in four parts: what the peer can read, what the handler
holds, the request it began with (up only), and what waits to be read. `FlowInv`
says that, between two peers that are there, they are consecutive runs of chunks
(`InTurn`) that meet; a step moves a chunk over a seam or drops parts at the end.
It holds because of `PlaceInv`, which says where the handler may hold what on which
route, and `PeerInv`, that nothing waits behind an end. `Whole` is `FlowInv` in
the terms of what was sent and got. For `Framed`, `EndInv` says that whoever has read
the end of a direction has written all of it, and goes on so, and `ReplyInv` that
nothing precedes the reply to the client and nothing follows a failure but the end.

*Handshakes.* `ReaderInv` gives the place of each reader in its stream: no head
end among what `read_proxy_request` has taken (`HttpInv`), each `read_exact` of a
SOCKS5 request where the one before left it (`SocksInv`), the answer of an upstream
proxy to its last octet (`UpstreamInv`). So a reader stops at the first end there
is, and `NotAByteMore` follows. `AskedInv` adds what has become of the octets: the
fields of a SOCKS5 request as they are known, and in the end what the whole stream
asks for (`SocksRead`, `AnswerRead`, and `HeadRead` or `HeadRefused`); `WrongInv`,
that a SOCKS5 request is refused only if its whole stream asks for nothing or breaks
off before its end. `Understood` compares with what the peer meant, so it needs that
a peer says what it means: `SaidAsMeant`, which reads the whole stream at once
(`Says`) and which TLC evaluates for every input of the run, where the meanings are
given beside the streams. For a datagram it also needs that the answer goes back
under the same host and port, the lemma `ThereAndBack`: `ParseDatagram` undoes
`BuildDatagram`, whichever way the host is written, if an address has one text.

For the route, `HostInv` says that it was decided by `Matches`; that `Matches`, which looks at the suffixes of a name
without its outer dots, is `Under`, which has no such steps, is the lemma
`Matching`. `RouteIsAsListed` needs that the lines mean what is read from them
(`ReadAsMeant`); TLC evaluates that for the lists of the run.

For the head that is sent on, the headers that are kept are `Only` those in a set,
a recursive function over the length, about which the prover does induction by the
least number at which a claim fails (`Induct`): `Only` is what is kept of every
prefix (`OnlyKeeps`), keeping twice is keeping what is in both sets (`OnlyTwice`),
and sequences that agree on what is kept keep the same (`OnlyAlike`). `PassedOn`
compares each header that is passed on with what it said, and `SentOn` puts the two
together: without the hosts, what is sent on is what the headers say for the target
(`SaysForTarget`, which has its own list of the headers about the connection).
`OthersAsMeant` says that this is what the client meant to say; TLC evaluates it for
the heads of the run, whose headers are given beside them.

So every invariant and every action property that a run checks is a theorem.

*Beyond the prover*: liveness under fairness and `ENABLED` (`KeeperEnds`,
`LockGranted`, `StaleTasksEnd`, `HotReload`, `ConnectEnds`,
`ControlEndsAssociation`, `TargetsEnd`, `Delivered`, `HandlerEnds`, `StartupEnds`,
`ShutdownEnds`, `HandshakesEnd`).

## 6. Not modelled

- TLS, DNS, the JSON of the token endpoints, logging: no state of the modelled
  parts depends on more than their outcome. `tls.rs` and `lib.rs` are
  configuration and declarations.
- The cache of the custom rules file (`routing_rules.rs:314`): one value, replaced
  when the time of the file changes. The time is read before the contents, so an
  edit in between is read again at the next load; two edits within a second look
  the same to it. The choice of the cache directory is left to its outcome.
- Inside HTTP/3 streams, the pumps between QUIC and the websocket, and the counts
  of open tunnels.
- The base64 of the rule list; white space in rules. Of the URL parser, percent
  encoding, internationalised names and unusual forms of IPv4 addresses.
- The replies of the SOCKS5 server, which are constants, and the SOCKS5 client of
  `upstream.rs`, a library; the parsing of the upstream proxy's URL beyond absent,
  valid and invalid.
- Of the settings, `listen` and `log_level`, merged like `socks_listen`, and the
  wording of errors. Of `gateway.rs` and `auth.rs`, what they format; credentials from
  the environment (`auth.rs:13`) count as given.
- The example gateway and the tests, read for what the gateway answers.

## 7. Plan

What is left, in this order:

1. The pumps of an HTTP/3 stream below `TunnelRelay`: a stream that ends in one
   direction, and the ends of the tunnel it becomes.
2. `RuleCache` composed with `RoutingRules`: a load of the one, with its sources and
   its times, implements the `Answers` of the other; the custom rules cache beside it.
