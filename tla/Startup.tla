------------------------------- MODULE Startup -------------------------------
(***************************************************************************)
(* The life of ws2tcp-local-core: Settings::resolve (settings.rs), then    *)
(* run_proxy_with_updates (service.rs) with the health check of the        *)
(* gateway (gateway_check.rs), the start of the tasks, the listeners, the  *)
(* accept loop and the shutdown.                                           *)
(*                                                                         *)
(* One action per stretch between awaits. The check is followed through    *)
(* its transports with the seconds it has spent, since one timeout spans   *)
(* those of HTTP/3 below it. Logins, rule downloads and handlers are left  *)
(* to their outcome: TokenSession, RuleCache and TunnelRelay have the rest.*)
(***************************************************************************)
EXTENDS Integers

CONSTANTS
  Inputs,            \* the command lines with the config file they name
  CheckTimeout,      \* CHECK_TIMEOUT, in seconds
  HandshakeTimeout,  \* QUIC_HANDSHAKE_TIMEOUT, for each address
  RequestTimeout,    \* REQUEST_TIMEOUT of HTTP/3
  MaxAddresses,      \* bound: addresses the gateway's name resolves to
  MaxConns           \* bound: accepted connections

Absent == "absent"
Keys == {"config", "socks_listen", "gateway", "basic_auth", "buffer_size",
         "custom_domain_rules", "rule_refresh_interval_secs", "gfwlist_urls",
         "proxy_mode", "insecure", "http3", "http3_only", "auth_mode",
         "upstream_proxy"}
Modes == {"off", "preferred", "only"}
Networks == [good : BOOLEAN, quic : BOOLEAN, cached : BOOLEAN,
             addresses : 1 .. MaxAddresses]
NoNetwork == [good |-> TRUE, quic |-> TRUE, cached |-> FALSE, addresses |-> 0]

ASSUME StartupAssumption ==
  /\ {CheckTimeout, HandshakeTimeout, RequestTimeout} \subseteq Nat \ {0}
  /\ MaxAddresses \in Nat /\ MaxConns \in Nat
  /\ \A i \in Inputs : {DOMAIN i.flags, DOMAIN i.file} = {Keys}
  /\ \A i \in Inputs : {i.flags["http3"], i.file["http3"]} \subseteq Modes \cup {Absent}

VARIABLES
  given,      \* SettingsOverrides and the config file
  settings,   \* Settings, once resolved
  stage,      \* the await run_proxy is at
  result,     \* what it returned
  auth,       \* the kind of GatewayAuth
  http3,      \* the Switch
  listeners,  \* the sockets that are bound
  updating,   \* the tasks that apply updates of the modes are running
  conns,      \* connections handed to a handler
  shutdown,   \* the shutdown future is ready
  net,        \* how the network treats the health check
  left,       \* addresses not tried yet
  cached,     \* the request goes out on a connection of an earlier run
  elapsed     \* seconds the check has taken

\* History, read by the properties only.
VARIABLES
  verified,   \* the gateway has accepted the credentials
  changed     \* an update of the HTTP/3 mode was received

check == <<net, left, cached, elapsed>>
vars == <<given, settings, stage, result, auth, http3, listeners, updating,
          conns, shutdown, check, verified, changed>>

-----------------------------------------------------------------------------
(* Settings::resolve.                                                      *)

Given(flags, file, key) == IF flags[key] # Absent THEN flags[key] ELSE file[key]
OrElse(value, default) == IF value = Absent THEN default ELSE value

\* Mutant: a blank list on the command line leaves the one of the file.
Urls_BlankIsAbsent(flags, file) ==
  LET urls == IF flags["gfwlist_urls"] = "blank" THEN file["gfwlist_urls"]
              ELSE Given(flags, file, "gfwlist_urls")
  IN  IF urls \in {Absent, "blank"} THEN "default" ELSE urls

\* resolve_gfwlist_urls: blank entries are dropped, and none left is the default.
Urls(flags, file) ==
  LET urls == Given(flags, file, "gfwlist_urls")
  IN  IF urls \in {Absent, "blank"} THEN "default" ELSE urls

\* UpstreamProxy::parse_optional: a blank value is no proxy.
Upstream(flags, file) ==
  LET proxy == Given(flags, file, "upstream_proxy")
  IN  IF proxy = "blank" THEN Absent ELSE proxy

\* resolve_config_relative_path, for the path of the file only.
RulesPath(flags, file) ==
  IF flags["custom_domain_rules"] # Absent THEN flags["custom_domain_rules"]
  ELSE IF file["custom_domain_rules"] = "relative" THEN "beside config"
  ELSE file["custom_domain_rules"]

Refused(flags, file) ==
  \/ Given(flags, file, "buffer_size") = "zero"
  \/ Given(flags, file, "rule_refresh_interval_secs") = "zero"
  \/ file["http3_only"] = "true"
  \/ Urls(flags, file) = "not http"
  \/ Upstream(flags, file) = "invalid"

Resolved(flags, file) ==
  [socks_listen |-> Given(flags, file, "socks_listen"),
   gateway |-> OrElse(Given(flags, file, "gateway"), "wss"),
   basic_auth |-> Given(flags, file, "basic_auth"),
   buffer_size |-> OrElse(Given(flags, file, "buffer_size"), "default"),
   custom_domain_rules |-> RulesPath(flags, file),
   rule_refresh_interval |-> OrElse(Given(flags, file, "rule_refresh_interval_secs"), "default"),
   gfwlist_urls |-> Urls(flags, file),
   proxy_mode |-> OrElse(Given(flags, file, "proxy_mode"), "auto"),
   insecure |-> flags["insecure"] = "true" \/ file["insecure"] = "true",
   http3 |-> OrElse(Given(flags, file, "http3"), "off"),
   auth_mode |-> OrElse(Given(flags, file, "auth_mode"), "token"),
   upstream_proxy |-> Upstream(flags, file)]

Unresolved == [gateway |-> Absent]

Returns(outcome) ==
  /\ stage' = "returned"
  /\ result' = outcome
  /\ listeners' = {}

Resolve ==
  /\ stage = "resolving"
  /\ \/ given.flags["config"] # Absent /\ Returns("error")  \* read_file_settings
        /\ UNCHANGED settings
     \/ Refused(given.flags, given.file) /\ Returns("error") /\ UNCHANGED settings
     \/ /\ ~Refused(given.flags, given.file)
        /\ settings' = Resolved(given.flags, given.file)
        /\ stage' = "starting"
        /\ UNCHANGED <<result, listeners>>
  /\ UNCHANGED <<given, auth, http3, updating, conns, shutdown, check, verified, changed>>

-----------------------------------------------------------------------------
(* run_proxy_with_updates up to the first await.                           *)

\* http3_unusable. The test is on the text of the URL: "WSS" is not "wss".
Unusable(s) == s.gateway # "wss" \/ s.upstream_proxy # Absent

\* Mutant: only the gateway is looked at.
ReportedMode_IgnoresProxy(s) ==
  IF s.http3 = "preferred" /\ s.gateway \in {"ws", "WSS"} THEN "off" ELSE s.http3

\* http3_mode, which tells an embedding program what run_proxy will do.
ReportedMode(s) ==
  IF s.http3 = "preferred" /\ s.gateway # "other" /\ Unusable(s) THEN "off" ELSE s.http3

\* Gateway::parse, the HTTP/3 mode, and remote_basic_auth.
Startable(s) ==
  /\ s.gateway # "other"
  /\ ~(s.http3 = "only" /\ Unusable(s))
  /\ s.basic_auth # "no colon"

StartMode(s) == IF s.http3 = "preferred" /\ Unusable(s) THEN "off" ELSE s.http3

Refuse ==
  /\ stage = "starting" /\ ~Startable(settings)
  /\ Returns("error")
  /\ UNCHANGED <<given, settings, auth, http3, updating, conns, shutdown, check, verified, changed>>

\* Without credentials nothing is sent; else the login, or the health check, for
\* which the fallback period of an earlier run may still last. The credentials are
\* those in effect: the environment gives them where no setting does (auth.rs).
Begin ==
  /\ stage = "starting" /\ Startable(settings)
  /\ http3' = StartMode(settings)
  /\ IF settings.basic_auth = Absent THEN stage' = "loading" /\ UNCHANGED check
     ELSE IF settings.auth_mode = "token" THEN stage' = "logging in" /\ UNCHANGED check
     ELSE /\ net' \in Networks
          /\ left' = net'.addresses /\ cached' = net'.cached /\ elapsed' = 0
          /\ \/ http3' # "off" /\ stage' = IF cached' THEN "asking" ELSE "dialing"
             \/ http3' # "only" /\ stage' = "tcp"
  /\ UNCHANGED <<given, settings, result, auth, listeners, updating, conns, shutdown, verified, changed>>

Accepted(kind) ==
  auth' = kind /\ verified' = TRUE /\ stage' = "loading" /\ UNCHANGED <<result, listeners>>

\* GatewayAuth::login: the tokens, Unauthorized, or LoginFailed.
Login ==
  /\ stage = "logging in"
  /\ \/ Accepted("token")
     \/ \E error \in {"unauthorized", "login failed"} :
          Returns(error) /\ UNCHANGED <<auth, verified>>
  /\ UNCHANGED <<given, settings, http3, updating, conns, shutdown, check, changed>>

-----------------------------------------------------------------------------
(* check_gateway: connect_websocket and the first message, in one timeout. *)

Spends(seconds) ==
  /\ elapsed + seconds < CheckTimeout
  /\ elapsed' = elapsed + seconds

\* HTTP/3 failed. Its error is the end of the check, or TCP is next.
WithoutHttp3 ==
  \/ http3 = "preferred" /\ stage' = "tcp" /\ UNCHANGED <<result, listeners>>
  \/ http3 = "only" /\ Returns("failed")

rest == <<given, settings, http3, updating, conns, shutdown, net, changed>>

\* Mutant: an address is given the time of a request.
DialTime_OfRequest == RequestTimeout

\* What a silent address costs.
DialTime == HandshakeTimeout

\* establish: one address after the other, each refused or silent.
DialFails ==
  /\ stage = "dialing"
  /\ \E seconds \in {0, DialTime} : Spends(seconds)
  /\ left' = left - 1
  /\ IF left > 1 THEN UNCHANGED <<stage, result, listeners>> ELSE WithoutHttp3
  /\ UNCHANGED <<rest, auth, cached, verified>>

Dialed ==
  /\ stage = "dialing" /\ net.quic
  /\ \E seconds \in {0, DialTime - 1} : Spends(seconds)
  /\ stage' = "asking"
  /\ UNCHANGED <<rest, result, auth, listeners, left, cached, verified>>

\* try_connect: a cached connection that does not answer is replaced once.
Unanswered ==
  /\ stage = "asking"
  /\ \E seconds \in {0, RequestTimeout} : Spends(seconds)
  /\ IF cached THEN stage' = "dialing" /\ UNCHANGED <<result, listeners>> ELSE WithoutHttp3
  /\ cached' = FALSE
  /\ UNCHANGED <<rest, auth, left, verified>>

\* The answers to the handshake over HTTP/3: a 401 is final, 403 stands for any
\* other status.
AnsweredHttp3 ==
  /\ stage = "asking" /\ net.quic
  /\ \E status \in IF net.good THEN {200} ELSE {200, 401, 403} :
       \/ status = 200 /\ stage' = "replying" /\ UNCHANGED <<result, listeners>>
       \/ status = 401 /\ Returns("unauthorized")
       \/ status = 403 /\ WithoutHttp3
  /\ UNCHANGED <<rest, auth, left, cached, elapsed, verified>>

\* classify_connect_error: ended and unreachable differ in their wording only.
Classify(error) == IF error = "401" THEN "unauthorized" ELSE "failed"

AnsweredTcp ==
  /\ stage = "tcp"
  /\ \/ stage' = "replying" /\ UNCHANGED <<result, listeners>>
     \/ ~net.good /\ \E error \in {"401", "status", "ended", "unreachable"} :
          Returns(Classify(error))
  /\ UNCHANGED <<rest, auth, left, cached, elapsed, verified>>

\* Mutant: any text will do.
FirstMessage_AnyText ==
  /\ stage = "replying"
  /\ \/ Accepted("basic")
     \/ ~net.good /\ stage' = "loading" /\ auth' = "basic"
        /\ UNCHANGED <<verified, result, listeners>>
  /\ UNCHANGED <<rest, left, cached, elapsed>>

\* Only the text of the health check passes; another message, also a ping, an
\* error or the end fails.
FirstMessage ==
  /\ stage = "replying"
  /\ \/ Accepted("basic") /\ net' = NoNetwork /\ left' = 0 /\ cached' = FALSE /\ elapsed' = 0
     \/ ~net.good /\ Returns("failed") /\ UNCHANGED <<check, auth, verified>>
  /\ UNCHANGED <<given, settings, http3, updating, conns, shutdown, changed>>

\* Mutant: the timeout does not span the handshake over TCP.
CheckTimesOut_WithoutHandshake ==
  /\ \/ stage = "dialing" /\ elapsed + DialTime >= CheckTimeout
     \/ stage = "asking" /\ elapsed + RequestTimeout >= CheckTimeout
     \/ stage = "replying" /\ ~net.good
  /\ Returns("failed")
  /\ UNCHANGED <<rest, auth, left, cached, elapsed, verified>>

\* CHECK_TIMEOUT. Over TCP nothing else limits the wait for a silent gateway.
CheckTimesOut ==
  /\ \/ stage = "dialing" /\ elapsed + DialTime >= CheckTimeout
     \/ stage = "asking" /\ elapsed + RequestTimeout >= CheckTimeout
     \/ stage \in {"tcp", "replying"} /\ ~net.good
  /\ Returns("failed")
  /\ UNCHANGED <<rest, auth, left, cached, elapsed, verified>>

-----------------------------------------------------------------------------
(* Rules, tasks and listeners.                                             *)

ready == <<given, settings, auth, conns, shutdown, check, verified>>

\* RoutingRules::load returns: in the global mode at once, in auto when the
\* sources have answered, well or badly, since a failed load is no error. Then
\* the tasks that apply updates are started. No timeout limits the wait.
RulesLoaded ==
  /\ stage = "loading"
  /\ stage' = "binding" /\ updating' = TRUE
  /\ UNCHANGED <<ready, result, http3, listeners, changed>>

\* build_http_client fails.
NoClient ==
  /\ stage = "loading"
  /\ Returns("error")
  /\ UNCHANGED <<ready, http3, updating, changed>>

Bind ==
  /\ stage = "binding"
  /\ \/ /\ listeners' = {"http"}
        /\ stage' = IF settings.socks_listen = Absent THEN "serving" ELSE "binding socks"
        /\ UNCHANGED result
     \/ Returns("error")
  /\ UNCHANGED <<ready, http3, updating, changed>>

BindSocks ==
  /\ stage = "binding socks"
  /\ \/ listeners' = listeners \cup {"socks"} /\ stage' = "serving" /\ UNCHANGED result
     \/ Returns("error")
  /\ UNCHANGED <<ready, http3, updating, changed>>

\* The task that receives http3_updates; `usable` was computed at the start.
UpdateHttp3(mode) ==
  /\ updating
  /\ http3' = IF Unusable(settings) /\ mode # "off" THEN http3 ELSE mode
  /\ changed' = TRUE
  /\ UNCHANGED <<ready, stage, result, listeners, updating>>

-----------------------------------------------------------------------------
(* The accept loop.                                                        *)

Accept(socket) ==
  /\ stage = "serving" /\ socket \in listeners
  /\ conns < MaxConns
  /\ conns' = conns + 1
  /\ UNCHANGED <<given, settings, stage, result, auth, http3, listeners, updating,
                 shutdown, check, verified, changed>>

\* Any error of accept, on either socket, is the end.
AcceptFails ==
  /\ stage = "serving"
  /\ Returns("error")
  /\ UNCHANGED <<ready, http3, updating, changed>>

\* Mutant: the handlers are waited for.
ShutDown_Waits ==
  /\ stage = "serving" /\ shutdown /\ conns = 0
  /\ Returns("ok")
  /\ UNCHANGED <<ready, http3, updating, changed>>

\* The future is looked at here, and nowhere before. Handlers go on.
ShutDown ==
  /\ stage = "serving" /\ shutdown
  /\ Returns("ok")
  /\ UNCHANGED <<ready, http3, updating, changed>>

RequestShutdown ==
  /\ ~shutdown
  /\ shutdown' = TRUE
  /\ UNCHANGED <<given, settings, stage, result, auth, http3, listeners, updating,
                 conns, check, verified, changed>>

-----------------------------------------------------------------------------
Init ==
  /\ given \in Inputs
  /\ settings = Unresolved
  /\ stage = "resolving"
  /\ result = Absent
  /\ auth = "none"
  /\ http3 = "off"
  /\ listeners = {}
  /\ updating = FALSE
  /\ conns = 0
  /\ shutdown = FALSE
  /\ net = NoNetwork
  /\ left = 0
  /\ cached = FALSE
  /\ elapsed = 0
  /\ verified = FALSE
  /\ changed = FALSE

Check ==
  \/ DialFails \/ Dialed \/ Unanswered \/ AnsweredHttp3
  \/ AnsweredTcp \/ FirstMessage \/ CheckTimesOut

Serve == AcceptFails \/ ShutDown \/ \E socket \in {"http", "socks"} : Accept(socket)

Next ==
  \/ Resolve \/ Refuse \/ Begin \/ Login \/ Check
  \/ RulesLoaded \/ NoClient \/ Bind \/ BindSocks \/ Serve
  \/ \E mode \in Modes : UpdateHttp3(mode)
  \/ RequestShutdown

\* What the code sees to by itself: awaits that a timeout limits, or the kernel.
Fairness ==
  /\ WF_vars(Resolve) /\ WF_vars(Refuse \/ Begin) /\ WF_vars(Login)
  /\ WF_vars(CheckTimesOut) /\ WF_vars(DialFails) /\ WF_vars(Unanswered)
  /\ WF_vars(net.good /\ (AnsweredTcp \/ FirstMessage))
  /\ WF_vars(RulesLoaded /\ settings.proxy_mode = "global")
  /\ WF_vars(Bind) /\ WF_vars(BindSocks) /\ WF_vars(ShutDown)

\* What it relies on: the sources of the rules answer, or break off.
SourcesAnswer == WF_vars(RulesLoaded)

Spec == Init /\ [][Next]_vars
FairSpec == Spec /\ Fairness
AnsweringSpec == FairSpec /\ SourcesAnswer

-----------------------------------------------------------------------------
(* Properties.                                                             *)

Stages == {"resolving", "starting", "logging in", "dialing", "asking", "tcp",
           "replying", "loading", "binding", "binding socks", "serving", "returned"}

\* The listeners run_proxy should hold.
Wanted == IF settings.socks_listen = Absent THEN {"http"} ELSE {"http", "socks"}

\* Types. Ports are held by a proxy that serves, all that were asked for, or that
\* is about to; a start that fails halfway releases them (147-165).
TypeOK ==
  /\ given \in Inputs
  /\ stage \in Stages
  /\ result \in {Absent, "ok", "error", "failed", "unauthorized", "login failed"}
  /\ auth \in {"none", "basic", "token"}
  /\ http3 \in Modes
  /\ {updating, shutdown, cached, verified, changed} \subseteq BOOLEAN
  /\ conns \in 0 .. MaxConns
  /\ net \in Networks \cup {NoNetwork} /\ left \in 0 .. MaxAddresses
  /\ elapsed \in 0 .. CheckTimeout - 1
  /\ stage = "serving" => listeners = Wanted
  /\ stage = "binding socks" => listeners = {"http"}
  /\ stage \notin {"serving", "binding socks"} => listeners = {}

Started == stage \in {"loading", "binding", "binding socks", "serving"}

\* service.rs 47-49: "Fail fast, before fetching routing rules or binding any
\* port, when the gateway cannot be used with the credentials". Every way to the
\* rules, the ports and the clients leads through a gateway that accepted them.
NothingBeforeCheck ==
  Started \/ updating \/ conns > 0 =>
    settings.basic_auth = Absent \/ verified

\* 235-236: what http3_mode tells a frontend is the mode the proxy starts with,
\* and keeps until it is changed (the two are computed apart). 40-41: an update
\* "that the gateway or the upstream proxy rules out" is ignored, so that HTTP/3
\* is never on where it cannot work.
StartsAsReported ==
  /\ Started /\ ~changed => http3 = ReportedMode(settings)
  /\ settings # Unresolved /\ Unusable(settings) => http3 = "off"

\* Seconds until HTTP/3 is given up on a network that drops its packets.
WaitsWithoutQuic ==
  (IF net.cached THEN RequestTimeout ELSE 0) + net.addresses * HandshakeTimeout

\* settings.rs 67-68: HTTP/1.1 is the fallback when "the network does not allow"
\* HTTP/3. A gateway that answers over TCP passes the check on a network without
\* QUIC, if the timeouts of HTTP/3 leave time for it.
FallsBackInTime ==
  result = "failed" /\ net.good /\ ~net.quic /\ settings.http3 = "preferred" =>
    WaitsWithoutQuic >= CheckTimeout

\* The same without the condition (StartupFallback.cfg).
AlwaysFallsBack ==
  result = "failed" /\ net.good /\ ~net.quic => settings.http3 = "only"

\* settings.rs 127-148: what is given on the command line wins, blank values
\* included: the settings are those without that entry in the file. Only insecure
\* and the refused http3_only of the file stay.
FileNeverOverrides ==
  settings # Unresolved =>
    \A key \in Keys \ {"insecure"} :
      given.flags[key] # Absent =>
        settings = Resolved(given.flags, [given.file EXCEPT ![key] = Absent])

\* The start ends, in serving or with an error, whatever the gateway does (the
\* timeouts), if the sources of the rules answer.
StartupEnds == <>(stage \in {"serving", "returned"})

\* A shutdown asked for at any time, the start included, ends run_proxy, whatever
\* clients and handlers do (181-213).
ShutdownEnds == shutdown ~> stage = "returned"

\* README.md 51: without credentials "nothing is sent at startup, in either mode,
\* and the proxy starts right away".
StartsRightAway ==
  (stage = "loading" /\ settings.basic_auth = Absent) ~> stage \in {"serving", "returned"}

\* settings.rs 31-32: without credentials the gateway is used "after a health
\* check" (StartupAnonymous.cfg).
AnonymousIsChecked ==
  [][stage = "starting" /\ stage' = "loading" => settings.basic_auth # Absent]_vars
=============================================================================
