------------------------------ MODULE HttpHead -------------------------------
(***************************************************************************)
(* Parsing and rewriting of the head of a proxy request (http_proxy.rs).   *)
(*                                                                         *)
(* A head is a sequence of tokens: CR, LF, the text of a request line and  *)
(* the text of a header. A request line is its fields, a target being an   *)
(* authority, a URL, or a path, which stands for any other text; a header  *)
(* is a name in lower case and a value, or has no colon. The port of a URL *)
(* is <<>> if it gives none. A token is one unit of length.                *)
(***************************************************************************)
EXTENDS HostRules, FiniteSetsExt, SequencesExt

CR == [token |-> "CR"]
LF == [token |-> "LF"]

CONSTANTS
  Ipv6,   \* the sixteen octets of each label with a colon, an IPv6 address
  Barred  \* labels with a slash, an at sign or white space

Failure == [kind |-> "error"]

\* The elements of a sequence that are in a set, in order.
Only(s, S) ==
  LET kept[n \in 0 .. Len(s)] ==
        IF n = 0 THEN <<>>
        ELSE IF s[n] \in S THEN Append(kept[n - 1], s[n]) ELSE kept[n - 1]
  IN  kept[Len(s)]

\* find_header_end: the positions before CR LF CR LF, of which the first counts.
HeadEnds(buffer) ==
  {i \in 0 .. Len(buffer) - 4 : SubSeq(buffer, i + 1, i + 4) = <<CR, LF, CR, LF>>}

\* str::lines: a line ends at LF, and a CR before that LF is no part of it.
LineStarts(head) == {i \in DOMAIN head : i = 1 \/ head[i - 1] = LF}
NthLine(head, n) ==
  LET start == CHOOSE i \in LineStarts(head) :
                 Cardinality({other \in LineStarts(head) : other <= i}) = n
      feeds == {i \in DOMAIN head : i >= start /\ head[i] = LF}
      last  == IF feeds = {} THEN Len(head)
               ELSE IF Min(feeds) > start /\ head[Min(feeds) - 1] = CR THEN Min(feeds) - 2
               ELSE Min(feeds) - 1
  IN  SubSeq(head, start, last)
Lines(head) == [n \in 1 .. Cardinality(LineStarts(head)) |-> NthLine(head, n)]

\* What the lines after the first say; empty ones are skipped.
Headers(lines) == Only(Tail(lines), ToSet(lines) \ {<<>>})
HasColon(line) == line[1].token = "header" /\ line[1].colon
Named(headers, name) ==
  Only(headers, {line \in ToSet(headers) : HasColon(line) /\ line[1].name = name})

\* parse_request_line: three fields and nothing else; a CR counts as white space.
IsRequestLine(line) ==
  LET texts == Only(line, ToSet(line) \ {CR})
  IN  Len(texts) = 1 /\ texts[1].token = "request" /\ Len(texts[1].fields) = 3

-----------------------------------------------------------------------------
(* Authorities.                                                            *)

\* A port is its two octets; <<>> if there is no colon, anything else if what
\* follows the colon is not a port.
IsPort(port) == Len(port) = 2
IsIpv6(host) == \E i \in DOMAIN host : host[i] \in DOMAIN Ipv6

\* validate_authority: host:port or [host]:port. An IPv6 address needs brackets, and
\* anything may be in them.
IsAuthority(authority) ==
  /\ HasHost(authority) /\ authority.host # <<>> /\ IsPort(authority.port)
  /\ \A i \in DOMAIN authority.host : authority.host[i] \notin Barred
  /\ IsIpv6(authority.host) => authority.bracket

\* normalize_http_authority: the port of a Host header defaults to 80. What it
\* refuses is no authority either.
HostAuthority(host) == IF host.port = <<>> THEN [host EXCEPT !.port = <<0, 80>>] ELSE host

\* A target is taken for a URL if it starts with one of these, in lower case.
IsUrl(target) == target.form = "url" /\ target.scheme \in {"http", "https"}

\* parse_absolute_http_target: the authority of an http URL without a user. The URL
\* parser takes brackets for IPv6 addresses only, and makes the host lower-case.
IsPlainUrl(url) == url.scheme = "http" /\ ~url.user /\ (url.bracket <=> IsIpv6(url.host))
UrlAuthority(url) ==
  HostAuthority([bracket |-> url.bracket, host |-> [i \in DOMAIN url.host |-> Lower(url.host[i])],
                 port |-> url.port])

-----------------------------------------------------------------------------
(* parse_http_proxy_request and rewrite_http_proxy_header.                 *)

\* Mutant: the list lacks the header some clients send for Connection.
HopByHop_Incomplete == {"connection", "keep-alive", "te", "trailer", "upgrade",
                        "proxy-authenticate", "proxy-authorization"}

HopByHop == {"connection", "keep-alive", "te", "trailer", "upgrade",
             "proxy-authenticate", "proxy-authorization", "proxy-connection"}

Closing == <<[name |-> "connection", value |-> "close"]>>
AddedHost(headers, authority) ==
  IF Named(headers, "host") = <<>> THEN <<[name |-> "host", value |-> authority]>> ELSE <<>>

\* rewrite_http_proxy_header, for headers that all have a colon.
Rewritten(headers, authority) ==
  LET passed == [i \in DOMAIN headers |->
                   [name  |-> headers[i][1].name,
                    value |-> IF headers[i][1].name = "host" THEN authority ELSE headers[i][1].value]]
  IN  Only(passed, {header \in ToSet(passed) : header.name \notin HopByHop})
      \o AddedHost(headers, authority) \o Closing

\* The authority of a request other than CONNECT: that of its URL, or else, whatever
\* the target is, of its first Host header; none otherwise.
Targets(target, headers) ==
  LET hosts == Named(headers, "host")
  IN  CASE IsUrl(target) -> IF IsPlainUrl(target) THEN {UrlAuthority(target)} ELSE {}
        [] ~IsUrl(target) /\ hosts # <<>> -> {HostAuthority(hosts[1][1].value)}
        [] OTHER -> {}

\* The requests a request line and headers can stand for: one, or none.
ConnectRequests(target) ==
  IF target.form = "authority" /\ IsAuthority(target.authority)
  THEN {[kind |-> "connect", authority |-> target.authority, head |-> <<>>]} ELSE {}

PlainRequests(target, headers) ==
  IF \E i \in DOMAIN headers : ~HasColon(headers[i]) THEN {}
  ELSE {[kind |-> "http", authority |-> authority, head |-> Rewritten(headers, authority)] :
          authority \in {a \in Targets(target, headers) : IsAuthority(a)}}

\* What the lines of a head ask for.
Asked(lines) ==
  LET fields == Only(lines[1], ToSet(lines[1]) \ {CR})[1].fields
  IN  CASE fields[3] # "HTTP" -> {}
        [] fields[3] = "HTTP" /\ fields[1] = "CONNECT" -> ConnectRequests(fields[2])
        [] OTHER -> PlainRequests(fields[2], Headers(lines))

\* parse_proxy_request
Request(head) ==
  IF head = <<>> THEN Failure
  ELSE LET lines    == Lines(head)
           requests == IF IsRequestLine(lines[1]) THEN Asked(lines) ELSE {}
       IN  IF requests = {} THEN Failure ELSE CHOOSE request \in requests : TRUE
=============================================================================
