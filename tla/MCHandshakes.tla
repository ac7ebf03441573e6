---------------------------- MODULE MCHandshakes ----------------------------
EXTENDS Handshakes

MCLabels == <<"", "blocked", "com", "www", "open", "Blocked", "custom", "::1", "[">>
MCLowered == "Blocked" :> "blocked"
MCOdd == {"::1", "[", "*", "user@open"}
MCBarred == {"user@open"}
MCDigits == {ToString(n) : n \in 0 .. 255}
Loopback == [i \in 1 .. 16 |-> IF i = 16 THEN 1 ELSE 0]
MCIpv6 == "::1" :> Loopback

\* The rules, and the domains each is meant to name.
Line(mark, name, tail, means) == [mark |-> mark, name |-> name, tail |-> tail, means |-> means]
MCList ==
  { Line("||", <<"blocked", "com">>, "", {<<"blocked", "com">>}),
    Line(".", <<"www", "Blocked", "">>, "^$third-party", {<<"www", "blocked">>}),
    Line("||", <<"*", "com">>, "", {}), Line("||", <<"open", "com">>, "/*", {}),
    Line("||", <<"1", "1", "1", "1">>, "", {}), Line("||", <<>>, "", {}),
    Line("||", <<"open", "com">>, "#", {}), Line(".", <<"com">>, "#", {}),
    Line("@@||", <<"open", "com">>, "", {}), Line("|https://", <<"open", "com">>, "", {}) }
MCCustom ==
  { Line("", <<"custom", "com">>, "#", {<<"custom", "com">>}),
    Line("", <<"open", "com">>, "/", {}), Line("||", <<"open", "com">>, "", {}) }

ASSUME RulesAreReadAsMeant == ReadAsMeant

-----------------------------------------------------------------------------
At(host, port) == [bracket |-> host = <<"::1">>, host |-> host, port |-> port]
InBrackets(host, port) == [At(host, port) EXCEPT !.bracket = TRUE]
Bare(host, port) == [At(host, port) EXCEPT !.bracket = FALSE]
Https == <<1, 187>>
Names == { <<"blocked", "com">>, <<"www", "blocked", "com">>, <<"open", "com">>, <<"com">>,
           <<"", "www", "Blocked", "com", "">>, <<"www", "www", "blocked", "com">>,
           <<"www", "blocked">>, <<"custom", "com">> }
Addresses == {<<"1", "1", "1", "1">>, <<"::1">>}

Input(reader, stream_, after, meaning) ==
  [reader |-> reader, proxy |-> "none", stream |-> stream_ \o after, after |-> after,
   meant |-> meaning, others |-> <<>>, target |-> At(<<>>, Https)]

\* Requests.
Data == [token |-> "data"]
After == {<<>>, <<Data, CR, LF, CR, LF, Data>>}
Asks(method, target) == [token |-> "request", fields |-> <<method, target, "HTTP">>]
Header(name, value) == [token |-> "header", name |-> name, value |-> value, colon |-> TRUE]
HeadOf(first, headers) ==
  <<first, CR, LF>> \o FlattenSeq([i \in DOMAIN headers |-> <<headers[i], CR, LF>>]) \o <<CR, LF>>

ToAuthority(authority) == [form |-> "authority", authority |-> authority]
ToUrl(scheme, user, host, port) ==
  [form |-> "url", scheme |-> scheme, user |-> user, bracket |-> host = <<"::1">>, host |-> host,
   port |-> port]
ToPath == [form |-> "path"]

Connects(authority, after) ==
  Input("http", HeadOf(Asks("CONNECT", ToAuthority(authority)), <<Header("accept", "x")>>),
        after, [kind |-> "connect", authority |-> authority])

Means(authority) == [kind |-> "http", authority |-> authority]
Plain(target, headers, authority, others, after) ==
  [Input("http", HeadOf(Asks("GET", target), headers), after, Means(authority))
     EXCEPT !.others = others]

Open == <<"open", "com">>
Other == Header("host", At(<<"com">>, <<>>))
Own(header) == [name |-> header.name, value |-> header.value]
Accept == Header("accept", "x")
Secret == Header("proxy-authorization", "secret")
Alive == Header("proxy-connection", "keep-alive")

Requests ==
  {Connects(At(host, Https), after) : host \in Names \cup Addresses, after \in After}
  \cup {Connects(InBrackets(host, Https), <<>>) :
          host \in {Open, <<"www", "Blocked", "com">>, <<"1", "1", "1", "1">>, <<"[">>}}
  \cup {Plain(ToUrl("http", FALSE, host, port), <<Secret, Other, Accept, Alive>>,
              At(host, IF port = <<>> THEN <<0, 80>> ELSE port), <<Own(Accept)>>, after) :
          host \in {Open, <<"www", "blocked", "com">>, <<"::1">>}, port \in {<<>>, Https},
          after \in After}
  \cup {Plain(ToPath, <<Header("host", At(host, <<>>)), Accept, Other>>,
              At(host, <<0, 80>>), <<Own(Accept)>>, <<>>) : host \in {Open, <<"::1">>}}
  \cup {Plain(ToUrl("http", FALSE, Open, <<>>), <<>>, At(Open, <<0, 80>>), <<>>, after) :
          after \in After}

Wrong(first, headers) == Input("http", HeadOf(first, headers), <<>>, Failure)
BadPort == <<"bad">>
WrongRequests ==
  { Wrong([token |-> "request", fields |-> <<"GET", "HTTP">>], <<>>),
    Wrong([token |-> "request", fields |-> <<"GET", ToPath, "SIP">>], <<Other>>),
    Wrong(Asks("GET", ToPath), <<Accept>>),
    Wrong(Asks("GET", ToUrl("https", FALSE, Open, Https)), <<Other>>),
    Wrong(Asks("GET", ToUrl("http", TRUE, Open, Https)), <<Other>>),
    Wrong(Asks("GET", ToPath), <<Header("host", At(Open, BadPort))>>),
    Wrong(Asks("GET", ToPath), <<Other, [Accept EXCEPT !.colon = FALSE]>>),
    Wrong(Asks("CONNECT", ToAuthority(At(Open, <<>>))), <<Other>>),
    Wrong(Asks("CONNECT", ToAuthority(At(<<>>, Https))), <<>>),
    Wrong(Asks("CONNECT", ToAuthority(Bare(<<"::1">>, Https))), <<>>),
    Wrong(Asks("CONNECT", ToPath), <<Other>>),
    Wrong(Accept, <<Other>>),
    Input("http", <<CR, LF, CR, LF>>, <<>>, Failure),
    Input("http", <<Asks("GET", ToPath), CR, LF, CR, CR, LF, LF, Other, CR, LF, CR, LF>>, <<>>, Failure),
    Input("http", [i \in 1 .. MaxHead + 2 |-> Data], <<>>, Failure) }
\* A target with another scheme, or one in capitals, leaves it to the Host header to
\* name the host, as a path does. Brackets are taken off any host, and a URL names
\* its host in any case.
Otherwise == {ToPath, ToAuthority(At(Open, Https)), ToUrl("HTTP", FALSE, Open, <<>>),
              ToUrl("HTTPS", TRUE, Open, <<>>), ToUrl("ftp", FALSE, <<"blocked", "com">>, Https)}
OtherwiseAsked ==
  {Plain(target, <<Header("host", host), Accept>>, [host EXCEPT !.port = <<0, 80>>],
         <<Own(Accept)>>, <<>>) :
     target \in Otherwise,
     host \in {At(Open, <<>>), InBrackets(<<"www", "blocked", "com">>, <<>>), At(Open, <<0, 80>>)}}
  \cup {Wrong(Asks("GET", target), headers) :
          target \in Otherwise,
          headers \in {<<Accept>>, <<Header("host", Bare(<<"::1">>, <<>>))>>,
                       <<Header("host", Bare(<<"[", "com">>, <<>>))>>,
                       <<Header("host", At(<<"user@open", "com">>, <<>>)), Other>>}}
  \cup {Wrong(Asks("CONNECT", ToAuthority(authority)), <<Other>>) :
          authority \in {At(<<"user@open", "com">>, Https), Bare(<<"[", "com">>, Https),
                         InBrackets(<<>>, Https), InBrackets(Open, <<>>)}}
  \cup {Wrong(Asks("GET", [ToUrl("http", FALSE, Open, <<>>) EXCEPT !.bracket = TRUE]), <<Other>>),
        Plain(ToUrl("http", FALSE, <<"www", "Blocked", "com">>, <<>>), <<Accept>>,
              At(<<"www", "blocked", "com">>, <<0, 80>>), <<Own(Accept)>>, <<>>)}

\* Line ends the parser takes as well, and a head as long as the limit.
OddRequests ==
  { [Input("http", <<Asks("GET", ToPath), LF, LF, Other, LF, CR, LF, Accept, CR, LF, CR, LF>>, <<>>,
           Means(At(<<"com">>, <<0, 80>>))) EXCEPT !.others = <<Own(Accept)>>],
    [Input("http", HeadOf(Asks("GET", ToPath), <<Other, Accept, Accept, Accept, Accept>>), <<Data, Data, Data>>,
           Means(At(<<"com">>, <<0, 80>>))) EXCEPT !.others = [i \in 1 .. 4 |-> Own(Accept)]] }

-----------------------------------------------------------------------------
\* SOCKS5 requests and datagrams, encoded as RFC 1928 has it.
Letters(host) == [i \in DOMAIN host |-> CHOOSE n \in DOMAIN MCLabels : MCLabels[n] = host[i]]
Encoded(host) ==
  CASE host = <<"1", "1", "1", "1">> -> <<1, 1, 1, 1, 1>>
    [] host = <<"::1">> -> <<4>> \o Loopback
    [] OTHER -> <<3, Len(host)>> \o Letters(host)
Unbracketed == Bare(<<"::1">>, Https)

Socks(methods, command, host, after, meaning) ==
  Input("socks5", <<5, Len(methods)>> \o methods \o <<5, command, 0>> \o Encoded(host) \o Https,
        after, meaning)
SocksHosts == Names \cup Addresses \cup {<<>>, <<"[", "com">>}
SocksRequests ==
  {Socks(methods, 1, host, <<22>>, [kind |-> "connect", authority |-> At(host, Https)]) :
     host \in SocksHosts, methods \in {<<0>>, <<2, 0>>}}
  \cup {Socks(<<0>>, 3, host, <<>>, [kind |-> "udp"]) : host \in {<<"1", "1", "1", "1">>, <<"com">>}}
  \cup {Input("socks5", <<5, 1, 0, 5, 1, 0, 3, 1, 8>> \o Https, <<>>,
              [kind |-> "connect", authority |-> Unbracketed])}
  \cup {Socks(methods, command, Open, <<>>, Failure) :
          methods \in {<<>>, <<2>>, <<1, 2>>}, command \in {1, 3}}
  \cup {Socks(<<0>>, 2, Open, <<>>, Failure), Input("socks5", <<4, 1, 0, 80>>, <<>>, Failure),
        Input("socks5", <<5, 1, 0, 4, 1, 0, 1>>, <<>>, Failure),
        Input("socks5", <<5, 1, 0, 5, 1, 0, 2, 1, 1>>, <<>>, Failure),
        Input("socks5", <<5, 1, 0, 5, 1, 0, 3, 2, 200, 3>> \o Https, <<>>, Failure)}

Datagram(header, payload, meaning) == Input("datagram", header, payload, meaning)
Datagrams ==
  {Datagram(<<0, 0, 0>> \o Encoded(host) \o Https, payload,
            [kind |-> "datagram", authority |-> At(host, Https)]) :
     host \in SocksHosts, payload \in {<<>>, <<0, 0, 7>>}}
  \cup {Datagram(<<0, 0, 0, 3, 1, 8>> \o Https, <<7>>,
                 [kind |-> "datagram", authority |-> Unbracketed])}
  \cup {Datagram(header, <<>>, Failure) :
          header \in {<<>>, <<0, 0, 0>>, <<0, 0, 1>> \o Encoded(Open) \o Https, <<0, 0, 0, 3>>,
                      <<0, 0, 0, 3, 2, 3>>, <<0, 0, 0, 1, 1, 1, 1>>, <<0, 0, 0, 2, 1, 1, 1, 1>>,
                      <<0, 0, 0>> \o Encoded(Open) \o <<1>>, <<0, 0, 0, 3, 1, 200>> \o Https}}

-----------------------------------------------------------------------------
\* Answers of an upstream proxy.
Status(version, class) == [token |-> "status", version |-> version, class |-> class]
Upstream(proxy, host, stream_, after, meaning) ==
  [Input("upstream", stream_, after, meaning)
     EXCEPT !.proxy = proxy, !.target = At(host, Https)]
Tunnel == [kind |-> "tunnel"]
Upstreams ==
  {Upstream("http", host, HeadOf(Status("HTTP", 2), headers), after, Tunnel) :
     host \in {Open, <<"::1">>}, headers \in {<<>>, <<Accept>>}, after \in After}
  \cup {Upstream(proxy, Open, <<>>, <<>>, Tunnel) : proxy \in {"socks5", "socks5h"}}
  \cup {Upstream("http", Open, HeadOf(first, <<Accept>>), <<Data>>, Failure) :
          first \in {Status("HTTP", 4), Status("SSH", 2), Accept}}
  \cup {Upstream("http", Open, <<CR, LF, CR, LF>>, <<>>, Failure),
        Upstream("http", Open, [i \in 1 .. MaxResponse + 1 |-> Data], <<>>, Failure)}

MCInputs == Requests \cup WrongRequests \cup OtherwiseAsked \cup OddRequests \cup SocksRequests \cup Datagrams \cup Upstreams

ASSUME InputsSayWhatIsMeant == SaidAsMeant /\ OthersAsMeant
=============================================================================
