----------------------------- MODULE Handshakes -----------------------------
(***************************************************************************)
(* How the proxy learns where a tunnel is to go, before a byte is relayed: *)
(* the readers of a proxy request (http_proxy.rs), of a SOCKS5 request and *)
(* a SOCKS5 datagram (socks5.rs), and of the answer of an upstream proxy   *)
(* (upstream.rs), and the choice of the route (tunnel.rs).                 *)
(*                                                                         *)
(* Each behaviour is one exchange. What the peer sends is one of Inputs;   *)
(* it arrives in pieces cut anywhere, and may end early. An octet is a     *)
(* number; a label of a name counts as one octet, a text of a head too.    *)
(***************************************************************************)
EXTENDS HttpHead

CONSTANTS
  Inputs,       \* what a peer may send, and what it means by it
  Labels,       \* the label each octet of a domain name stands for
  Chunk,        \* read_proxy_request: the size of a read
  MaxHead,      \* MAX_HEADER_BYTES
  MaxResponse,  \* MAX_CONNECT_RESPONSE_BYTES
  List,         \* the lines of the rule list
  Custom        \* the lines of the custom rules file

ASSUME ListIsUsable == IsList(List)
ASSUME LimitsAssumption == Chunk \in Nat \ {0} /\ MaxHead \in Nat /\ MaxResponse \in Nat

VARIABLES
  input,    \* [reader, proxy, stream, meant, after], never changed
  arrived,  \* octets of the stream that have arrived
  closed,   \* no more will arrive: the peer closed or broke the connection
  taken,    \* octets of the stream that were read
  pc,       \* what is awaited
  want,     \* octets the pending read_exact asks for
  request,  \* a SOCKS5 request as far as it is known: command, address type, host
  sent,     \* what was written to the peer
  result    \* what the handshake comes to, <<>> before

vars == <<input, arrived, closed, taken, pc, want, request, sent, result>>
peer == <<input, arrived, closed>>

stream == input.stream

Accepted(outcome) == outcome.kind # "error"

\* What the peer sends arrives bit by bit, until it closes.
Arrive == /\ ~closed /\ arrived < Len(stream)
          /\ arrived' = arrived + 1
          /\ UNCHANGED <<input, closed, taken, pc, want, request, sent, result>>

Close == /\ ~closed /\ pc # "done"
         /\ closed' = TRUE
         /\ UNCHANGED <<input, arrived, taken, pc, want, request, sent, result>>

-----------------------------------------------------------------------------
(* The end of a handshake, and the route it leads to.                      *)

Rules == Domains(List, Custom)

\* handle_client and handle_socks_client: the host that was asked for decides. A
\* host that cannot be told from the authority ends the handler without a word.
Route(outcome) ==
  IF outcome.kind \notin {"connect", "http"} THEN outcome
  ELSE IF ~HasHost(outcome.authority) THEN [kind |-> "unroutable", authority |-> outcome.authority]
  ELSE [outcome EXCEPT !.proxied = Matches(Rules, outcome.authority.host)]

Finish(outcome) == pc' = "done" /\ result' = <<Route(outcome)>>

\* The answer a client gets when its request could not be read.
Refusal == IF input.reader = "http" THEN "400 Bad Request" ELSE "general failure"

Refuse == Finish(Failure) /\ sent' = Append(sent, Refusal)

-----------------------------------------------------------------------------
(* read_proxy_request.                                                     *)

\* Mutant: the end of the head is looked for in what was just read.
HeadIn_LastChunk(n) == {i \in HeadEnds(SubSeq(stream, 1, taken + n)) : i >= taken}

\* find_header_end on the buffer after a read of n octets.
HeadIn(n) == HeadEnds(SubSeq(stream, 1, taken + n))

\* Mutant: what was read behind the head is dropped.
Leftover_Dropped(end, n) == <<>>

\* What was read behind the head.
Leftover(end, n) == SubSeq(stream, end + 5, taken + n)

\* What handle_client goes on with.
ProxyRequest(asked, leftover) ==
  [kind |-> asked.kind, authority |-> asked.authority, head |-> asked.head,
   leftover |-> leftover, proxied |-> FALSE]

TooLarge(n) == taken + n > MaxHead

\* What each head in the inputs asks for: parse_proxy_request, worked out once.
Parsed ==
  LET heads == UNION {{SubSeq(in.stream, 1, end) : end \in HeadEnds(in.stream)} :
                        in \in {i \in Inputs : i.reader = "http"}}
  IN  [head \in heads |-> Request(head)]

\* One round of the loop: a read of what is there, at most a chunk.
ReadHead ==
  /\ pc = "head" /\ taken < arrived
  /\ LET n == Min({arrived - taken, Chunk})
     IN  /\ taken' = taken + n
         /\ CASE TooLarge(n) -> Refuse
              [] ~TooLarge(n) /\ HeadIn(n) = {} -> UNCHANGED <<pc, sent, result>>
              [] OTHER ->
                   LET end     == Min(HeadIn(n))
                       outcome == Parsed[SubSeq(stream, 1, end)]
                   IN  IF Accepted(outcome)
                       THEN /\ Finish(ProxyRequest(outcome, Leftover(end, n)))
                            /\ UNCHANGED sent
                       ELSE Refuse
  /\ UNCHANGED <<peer, want, request>>

HeadBreaksOff == /\ pc = "head" /\ closed /\ taken = arrived
                 /\ Refuse
                 /\ UNCHANGED <<peer, taken, want, request>>

-----------------------------------------------------------------------------
(* read_socks5_request: each step is one read_exact.                       *)

Ipv4Type == 1
DomainType == 3
Ipv6Type == 4

\* The host as it is written in an authority; none if it is not text.
Hosts(type, octets) ==
  CASE type = Ipv4Type -> {[i \in DOMAIN octets |-> ToString(octets[i])]}
    [] type = DomainType /\ ToSet(octets) \subseteq DOMAIN Labels ->
         {[i \in DOMAIN octets |-> Labels[octets[i]]]}
    [] type = Ipv6Type -> {<<label>> : label \in {l \in DOMAIN Ipv6 : Ipv6[l] = octets}}
    [] OTHER -> {}

\* What the read returns, and what it leaves for the next.
Octets == SubSeq(stream, taken + 1, taken + want)
Got(step) == pc = step /\ arrived - taken >= want /\ taken' = taken + want
Await(step, n) == pc' = step /\ want' = n /\ UNCHANGED result
Refused == Refuse /\ UNCHANGED <<want, request>>

ReadGreeting ==
  /\ Got("greeting")
  /\ IF Octets[1] = 5 THEN Await("methods", Octets[2]) /\ UNCHANGED <<request, sent>>
     ELSE Refused
  /\ UNCHANGED peer

\* negotiate_auth: no authentication, or nothing.
ReadMethods ==
  /\ Got("methods")
  /\ IF 0 \in ToSet(Octets)
     THEN Await("command", 4) /\ sent' = Append(sent, "no authentication") /\ UNCHANGED request
     ELSE /\ Finish(Failure)
          /\ sent' = sent \o <<"no acceptable method", Refusal>>
          /\ UNCHANGED <<want, request>>
  /\ UNCHANGED peer

\* read_command
ReadCommand ==
  /\ Got("command")
  /\ request' = [command |-> Octets[2], type |-> Octets[4], host |-> <<>>]
  /\ CASE Octets[1] # 5 \/ Octets[2] \notin {1, 3} -> Refuse /\ UNCHANGED want
       [] Octets[1] = 5 /\ Octets[2] \in {1, 3} /\ Octets[4] = Ipv4Type ->
            Await("address", 4) /\ UNCHANGED sent
       [] Octets[1] = 5 /\ Octets[2] \in {1, 3} /\ Octets[4] = Ipv6Type ->
            Await("address", 16) /\ UNCHANGED sent
       [] Octets[1] = 5 /\ Octets[2] \in {1, 3} /\ Octets[4] = DomainType ->
            Await("length", 1) /\ UNCHANGED sent
       [] OTHER -> Refuse /\ UNCHANGED want
  /\ UNCHANGED peer

\* read_address: a domain is preceded by its length.
ReadLength == /\ Got("length")
              /\ Await("address", Octets[1])
              /\ UNCHANGED <<peer, request, sent>>

ReadAddress ==
  /\ Got("address")
  /\ \/ /\ Hosts(request.type, Octets) = {} /\ Refused
     \/ \E host \in Hosts(request.type, Octets) :
          /\ request' = [request EXCEPT !.host = host]
          /\ Await("port", 2) /\ UNCHANGED sent
  /\ UNCHANGED peer

\* The authority a SOCKS5 client asks for; only an IPv6 address gets brackets.
SocksAuthority(port) ==
  [bracket |-> request.type = Ipv6Type, host |-> request.host, port |-> port]

\* The address of UDP ASSOCIATE is read and not used.
ReadPort ==
  /\ Got("port")
  /\ IF request.command = 3 THEN Finish([kind |-> "udp", leftover |-> <<>>])
     ELSE Finish([kind |-> "connect", authority |-> SocksAuthority(Octets), head |-> <<>>,
                  leftover |-> <<>>, proxied |-> FALSE])
  /\ UNCHANGED <<peer, want, request, sent>>

RequestBreaksOff ==
  /\ pc \in {"greeting", "methods", "command", "length", "address", "port"}
  /\ closed /\ arrived - taken < want
  /\ Refused
  /\ UNCHANGED <<peer, taken>>
-----------------------------------------------------------------------------
(* UpstreamProxy::connect: how the tunnel's TCP connection is made when an  *)
(* upstream proxy is set. Everything runs under CONNECT_TIMEOUT.            *)

AtUpstream == pc \in {"dial", "resolve", "library", "send", "response"}

Dialed == /\ pc = "dial"
          /\ pc' = CASE input.proxy = "http"    -> "send"
                     [] input.proxy = "socks5"  -> "resolve"
                     [] input.proxy = "socks5h" -> "library"
          /\ UNCHANGED <<peer, taken, want, request, sent, result>>

\* socks5: the name is looked up here, and the proxy gets an address.
Resolved == /\ pc = "resolve"
            /\ pc' = "library"
            /\ UNCHANGED <<peer, taken, want, request, sent, result>>

\* The SOCKS5 client of a library ends its exchange well.
LibraryConnects == /\ pc = "library"
                   /\ Finish([kind |-> "tunnel", leftover |-> <<>>])
                   /\ UNCHANGED <<peer, taken, want, request, sent>>

\* http_connect puts the brackets back that connect took off.
ConnectAuthority(target) ==
  [target EXCEPT !.bracket = target.host # <<>> /\ target.host[1] \in DOMAIN Ipv6]

SendConnect == /\ pc = "send"
               /\ sent' = Append(sent, ConnectAuthority(input.target))
               /\ pc' = "response"
               /\ UNCHANGED <<peer, taken, want, request, result>>

\* A status line is its version and the class of its status.
Confirms(head) ==
  LET line == Lines(head)[1]
  IN  line # <<>> /\ line[1].token = "status" /\ line[1].version = "HTTP" /\ line[1].class = 2

\* One octet at a time, and none after the head.
ReadResponse ==
  /\ pc = "response" /\ taken < MaxResponse /\ taken < arrived
  /\ taken' = taken + 1
  /\ LET head == SubSeq(stream, 1, taken + 1)
     IN  IF ~IsSuffix(<<CR, LF, CR, LF>>, head) THEN UNCHANGED <<pc, result>>
         ELSE IF Confirms(head) THEN Finish([kind |-> "tunnel", leftover |-> <<>>])
         ELSE Finish(Failure)
  /\ UNCHANGED <<peer, want, request, sent>>

Fails == Finish(Failure) /\ UNCHANGED <<peer, taken, want, request, sent>>

ResponseTooLarge == pc = "response" /\ taken >= MaxResponse /\ Fails
ResponseBreaksOff == pc = "response" /\ closed /\ taken = arrived /\ Fails
UpstreamFails == pc \in {"dial", "resolve", "library", "send"} /\ Fails

\* Mutant: the timeout is for reaching the proxy, not for its answer.
Overdue_DialOnly == pc = "dial" /\ Fails

Overdue == AtUpstream /\ Fails

-----------------------------------------------------------------------------
(* SOCKS5 datagrams, which arrive whole.                                   *)

\* Where the address of a datagram is: its type decides how it is delimited.
Span(data) ==
  CASE data[4] = Ipv4Type -> <<5, 8>>
    [] data[4] = Ipv6Type -> <<5, 20>>
    [] data[4] = DomainType /\ Len(data) >= 5 -> <<6, 5 + data[5]>>
    [] OTHER -> <<5, Len(data)>>

\* parse_udp_datagram
ParseDatagram(data) ==
  IF Len(data) < 4 THEN Failure
  ELSE LET last  == Span(data)[2]
           hosts == Hosts(data[4], SubSeq(data, Span(data)[1], last))
       IN  IF data[3] # 0 \/ Len(data) < last + 2 \/ hosts = {} THEN Failure
           ELSE [kind |-> "datagram",
                 authority |-> [bracket |-> data[4] = Ipv6Type, host |-> CHOOSE h \in hosts : TRUE,
                                port |-> SubSeq(data, last + 1, last + 2)],
                 leftover |-> SubSeq(data, last + 3, Len(data))]

OctetOf(label) == CHOOSE n \in 0 .. 255 : ToString(n) = label
LetterOf(label) == CHOOSE n \in DOMAIN Labels : Labels[n] = label

\* An address if the host reads as one, else a name.
Address(host) ==
  CASE IsIpv4(host) -> <<Ipv4Type>> \o [i \in DOMAIN host |-> OctetOf(host[i])]
    [] Len(host) = 1 /\ host[1] \in DOMAIN Ipv6 -> <<Ipv6Type>> \o Ipv6[host[1]]
    [] OTHER -> <<DomainType, Len(host)>> \o [i \in DOMAIN host |-> LetterOf(host[i])]

BuildDatagram(authority, payload) ==
  <<0, 0, 0>> \o Address(authority.host) \o authority.port \o payload

ReadDatagram ==
  /\ pc = "datagram"
  /\ LET outcome == ParseDatagram(stream)
     IN  IF Accepted(outcome) THEN pc' = "answer" /\ result' = <<outcome>> ELSE Finish(outcome)
  /\ taken' = Len(stream)
  /\ UNCHANGED <<peer, want, request, sent>>

\* The target answers with what it was sent; the client is told from whom.
SendDatagram ==
  /\ pc = "answer"
  /\ sent' = Append(sent, BuildDatagram(result[1].authority, result[1].leftover))
  /\ pc' = "done"
  /\ UNCHANGED <<peer, taken, want, request, result>>

-----------------------------------------------------------------------------
Start == [http |-> "head", socks5 |-> "greeting", upstream |-> "dial", datagram |-> "datagram"]

Init == /\ input \in Inputs
        /\ arrived = IF input.reader = "datagram" THEN Len(input.stream) ELSE 0
        /\ closed = (input.reader = "datagram")
        /\ taken = 0
        /\ pc = Start[input.reader]
        /\ want = IF input.reader = "socks5" THEN 2 ELSE 0
        /\ request = [command |-> 0, type |-> 0, host |-> <<>>]
        /\ sent = <<>>
        /\ result = <<>>

\* What the proxy does once it can.
Step == \/ ReadHead \/ HeadBreaksOff
        \/ ReadGreeting \/ ReadMethods \/ ReadCommand \/ ReadLength \/ ReadAddress \/ ReadPort
        \/ RequestBreaksOff
        \/ Dialed \/ Resolved \/ SendConnect \/ LibraryConnects \/ ReadResponse
        \/ ResponseTooLarge \/ ResponseBreaksOff \/ UpstreamFails
        \/ ReadDatagram \/ SendDatagram

Next == Arrive \/ Close \/ Step \/ Overdue

Spec == Init /\ [][Next]_vars

\* The runtime polls a handler whose read can return, and timers fire. Nothing
\* makes a peer send or close, or an upstream proxy take part at all.
FairSpec == Spec /\ WF_vars(Step /\ (AtUpstream => pc = "response")) /\ WF_vars(Overdue)

-----------------------------------------------------------------------------
(* Properties. An input says what the peer means by its stream: a request   *)
(* or an error, the end-to-end headers, and what follows the handshake.     *)

meant == input.meant
HeadLength == Len(stream) - Len(input.after)
Ended == pc = "done"

\* Where a head ends that has all arrived.
FirstEnd(s) == {end \in HeadEnds(s) : \A other \in HeadEnds(s) : end <= other}

\* An address with a port ends where the type of the address says.
AddressEnd(s, type) ==
  {end \in type + 1 .. Len(s) :
     \/ s[type] = Ipv4Type /\ end = type + 6
     \/ s[type] = Ipv6Type /\ end = type + 18
     \/ s[type] = DomainType /\ end = type + s[type + 1] + 3}

SocksEnd(s) ==
  IF Len(s) < 2 \/ Len(s) < s[2] + 6 THEN {} ELSE AddressEnd(s, s[2] + 6)

DatagramEnd(s) == IF Len(s) < 4 THEN {} ELSE AddressEnd(s, 4)

\* Up to where the reader of an input is to take its stream. The library that
\* speaks SOCKS5 to an upstream proxy takes nothing here.
EndOf(in) ==
  CASE in.reader = "datagram" -> DatagramEnd(in.stream)
    [] in.reader = "socks5" -> SocksEnd(in.stream)
    [] in.reader = "upstream" /\ in.proxy # "http" -> {0}
    [] OTHER -> {end + 4 : end \in FirstEnd(in.stream)}

\* A sequence of labels.
IsName(name) == name \in Seq(ToSet(name))

\* A stream is a sequence, of octets where they are looked at, `after` is what
\* follows the handshake in it, and a host a head asks for is a name.
ASSUME InputsAssumption ==
  \A in \in Inputs :
    /\ in.reader \in DOMAIN Start
    /\ in.reader = "upstream" => in.proxy \in {"http", "socks5", "socks5h"}
    /\ Len(in.stream) \in Nat /\ in.stream = [i \in 1 .. Len(in.stream) |-> in.stream[i]]
    /\ in.reader \in {"socks5", "datagram"} => in.stream \in Seq(0 .. 255)
    /\ \A end \in EndOf(in) : in.after = SubSeq(in.stream, end + 1, Len(in.stream))
    /\ in.reader = "http" => \A end \in HeadEnds(in.stream) :
         LET asked == Request(SubSeq(in.stream, 1, end))
         IN  Accepted(asked) => IsName(asked.authority.host)

\* Labels that are numbers are the texts of octets, and an IPv6 address has sixteen.
ASSUME TextsAssumption ==
  /\ Digits = {ToString(n) : n \in 0 .. 255}
  /\ \A text \in DOMAIN Ipv6 : Ipv6[text] \in Seq(0 .. 255) /\ Len(Ipv6[text]) = 16

ASSUME NamesAssumption == \A line \in List \cup Custom : IsName(line.name)

\* Every state is well formed.
TypeOK ==
  /\ input \in Inputs /\ closed \in BOOLEAN
  /\ arrived \in 0 .. Len(stream) /\ taken \in 0 .. arrived
  /\ pc \in {"head", "greeting", "methods", "command", "length", "address", "port", "dial",
             "resolve", "library", "send", "response", "datagram", "answer", "done"}
  /\ want \in 0 .. 255
  /\ Len(result) = IF pc \in {"answer", "done"} THEN 1 ELSE 0

\* A request is understood as the client means it, however it was cut into
\* pieces: an accepted one goes where it was to go, and one is refused only if
\* it is wrong, breaks off, or comes near the size limit. The upstream proxy is
\* asked for the target, and believed only when its answer confirms it. The
\* datagram a client gets back names the host and port it sent its own to.
Understood ==
  Ended =>
    LET outcome == result[1]
    IN  CASE outcome.kind = "tunnel" ->
               /\ meant.kind = "tunnel"
               /\ input.proxy = "http" => sent = <<input.target>>
          [] outcome.kind = "udp" -> meant.kind = "udp"
          [] outcome.kind = "unroutable" ->
               meant.kind = "connect" /\ outcome.authority = meant.authority
          [] outcome.kind \in {"connect", "http"} ->
               outcome.kind = meant.kind /\ outcome.authority = meant.authority
          [] outcome.kind = "datagram" ->
               LET back == ParseDatagram(sent[1])
               IN  /\ outcome.kind = meant.kind /\ outcome.authority = meant.authority
                   /\ Accepted(back) /\ back.leftover = outcome.leftover
                   /\ back.authority.host = outcome.authority.host
                   /\ back.authority.port = outcome.authority.port
          [] OTHER -> \/ meant = Failure
                      \/ closed /\ arrived < HeadLength
                      \/ input.reader = "http" /\ HeadLength > MaxHead - Chunk
                      \/ input.reader = "upstream"

\* Not a byte of what follows a handshake is lost or taken twice: what was read
\* too much and what is not read yet are together what the peer sent after it.
\* No peer makes a reader take more than its limit: a head that goes on is refused
\* within one read, the answer of an upstream proxy at once.
NotAByteMore ==
  /\ Ended /\ Accepted(result[1]) /\ result[1].kind # "unroutable" =>
       CASE input.reader = "datagram" -> result[1].leftover = input.after
         [] OTHER -> result[1].leftover \o SubSeq(stream, taken + 1, Len(stream)) = input.after
  /\ input.reader = "http" => taken <= MaxHead + (IF Ended THEN Chunk ELSE 0)
  /\ input.reader = "upstream" => taken <= MaxResponse

\* What a whole stream says: the request it is to be read as, or none.
HeadSays(s) ==
  LET requests == {Request(SubSeq(s, 1, end)) : end \in FirstEnd(s)}
  IN  {[kind |-> asked.kind, authority |-> asked.authority] :
         asked \in {request_ \in requests : Accepted(request_)}}

SocksSays(s) ==
  LET type  == s[2] + 6
      first == IF s[type] = DomainType THEN type + 2 ELSE type + 1
      Asks  == /\ s[1] = 5 /\ s[type - 3] = 5 /\ s[type - 2] \in {1, 3}
               /\ \E i \in 1 .. s[2] : s[i + 2] = 0
      Says(host, end) ==
        IF s[type - 2] = 3 THEN [kind |-> "udp"]
        ELSE [kind |-> "connect", authority |-> [bracket |-> s[type] = Ipv6Type, host |-> host,
                                                 port |-> SubSeq(s, end - 1, end)]]
  IN  UNION {{Says(host, end) : host \in Hosts(s[type], SubSeq(s, first, end - 2))} :
               end \in {e \in SocksEnd(s) : Asks}}

AnswerSays(in) ==
  {[kind |-> "tunnel"] :
     end \in {e \in IF in.proxy = "http" THEN FirstEnd(in.stream) ELSE {0} :
                in.proxy = "http" => Confirms(SubSeq(in.stream, 1, e + 4))}}

DatagramSays(s) ==
  {[kind |-> outcome.kind, authority |-> outcome.authority] :
     outcome \in {o \in {ParseDatagram(s)} : Accepted(o)}}

Says(in) == CASE in.reader = "http"     -> HeadSays(in.stream)
              [] in.reader = "socks5"   -> SocksSays(in.stream)
              [] in.reader = "upstream" -> AnswerSays(in)
              [] in.reader = "datagram" -> DatagramSays(in.stream)

\* A peer that means a request says it, and one that means none does not. A target
\* is written as an authority, and an address has one text.
SaidAsMeant ==
  /\ \A in \in Inputs :
       /\ Says(in) = IF in.meant = Failure THEN {} ELSE {in.meant}
       /\ in.reader = "http" /\ in.meant # Failure => HasHost(in.meant.authority)
       /\ in.reader = "upstream" => ConnectAuthority(in.target) = in.target
  /\ \A text, other \in DOMAIN Ipv6 : Ipv6[text] = Ipv6[other] => text = other

\* The headers of a request to a proxy that speak of the connection they came by.
OfConnection == {"connection", "proxy-connection", "keep-alive", "upgrade", "te", "trailer",
                 "proxy-authenticate", "proxy-authorization"}

\* What a request says for its target: the headers that neither speak of the
\* connection nor name a host.
SaysForTarget(s) ==
  LET Own(headers) == [i \in DOMAIN headers |->
                         [name |-> headers[i][1].name, value |-> headers[i][1].value]]
      own == Own(Headers(Lines(s)))
  IN  Only(own, {header \in ToSet(own) : header.name \notin OfConnection \cup {"host"}})

\* What a plain request says for its target is what its client means to say.
OthersAsMeant ==
  \A in \in Inputs :
    in.reader = "http" /\ in.meant # Failure /\ in.meant.kind = "http" =>
      \A end \in FirstEnd(in.stream) : in.others = SaysForTarget(SubSeq(in.stream, 1, end))

\* What is sent on of a plain request: the target's authority in every Host, one
\* "Connection: close", no other hop-by-hop header (so no proxy credentials), and
\* the other headers in order.
ForwardedHead ==
  Ended /\ result[1].kind = "http" =>
    LET head  == result[1].head
        hosts == {header \in ToSet(head) : header.name = "host"}
    IN  /\ {header.value : header \in hosts} = {result[1].authority}
        /\ Only(head, ToSet(head) \ hosts) = input.others \o Closing

\* What a host ends with, at a dot, but for its case and the dots after it.
Under(host, domain) ==
  \E end \in Len(domain) .. Len(host) :
    /\ \A i \in end + 1 .. Len(host) : host[i] = ""
    /\ \A i \in DOMAIN domain : Lower(host[end - Len(domain) + i]) = domain[i]

\* What a line means is what is read from it.
ReadAsMeant == /\ \A line \in List : line.means = RuleDomain(line)
               /\ \A line \in Custom : line.means = CustomDomain(line)

\* The route is the one the lists mean for the host the tunnel goes to: the
\* gateway for a listed domain and all below it, in any case and with any outer
\* dots, and for nothing else.
RoutedAsListed ==
  Ended /\ result[1].kind \in {"connect", "http"} =>
    (result[1].proxied <=>
       \E line \in List \cup Custom : \E domain \in line.means :
         Under(result[1].authority.host, domain))

\* A handshake ends when its client has closed, and one with an upstream proxy
\* ends whatever the proxy does.
HandshakesEnd == closed \/ input.reader = "upstream" ~> Ended

\* Not so (README): a head within the limit is read whatever follows it.
LimitIsOnHead ==
  Ended /\ result[1] = Failure /\ input.reader = "http" /\ meant # Failure =>
    HeadLength > MaxHead \/ arrived < HeadLength

\* Not so (README): "ordinary HTTP proxy requests only support http:// targets". One
\* of any other scheme, https in capitals among them, goes to the host of its Host
\* header, in plain text.
OnlyHttpTargets ==
  Ended /\ result[1].kind = "http" =>
    \A i \in DOMAIN stream :
      stream[i].token = "request" /\ stream[i].fields[2].form = "url" =>
        stream[i].fields[2].scheme \in {"http", "HTTP"}

\* Not so (README): build_udp_datagram is the inverse of parse_udp_datagram.
DatagramsInverse ==
  Ended /\ result[1].kind = "datagram" => ParseDatagram(sent[1]) = result[1]
=============================================================================
