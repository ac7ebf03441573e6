------------------------------ MODULE HostRules ------------------------------
(***************************************************************************)
(* What a line of a rule list means, and which hosts a list matches        *)
(* (routing_rules.rs). A name is the sequence of its labels, an empty      *)
(* label standing between two dots, or before the first or after the last. *)
(* A label is a string of letters, of which those in Capital have a        *)
(* lower-case form; Digits are the labels that are numbers, Odd those with *)
(* a character no domain has. White space is left out.                     *)
(***************************************************************************)
EXTENDS Integers, Sequences

CONSTANTS
  Lowered,  \* the lower-case form of each label that has capitals
  Digits,   \* labels that are numbers
  Odd       \* labels with a colon, an asterisk, an underscore, ...

\* A label keeps its length: to_ascii_lowercase.
ASSUME LoweredAssumption == \A label \in DOMAIN Lowered : label # "" /\ Lowered[label] # ""

Lower(label) == IF label \in DOMAIN Lowered THEN Lowered[label] ELSE label

\* normalize_host_for_match: outer dots dropped, in lower case.
NormalHost(name) ==
  LET solid == {i \in DOMAIN name : name[i] # ""}
      first == CHOOSE i \in solid : \A j \in solid : i <= j
      last  == CHOOSE i \in solid : \A j \in solid : i >= j
  IN  IF solid = {} THEN <<>>
      ELSE [i \in 1 .. last - first + 1 |-> Lower(name[first + i - 1])]

IsIpv4(name) == Len(name) = 4 /\ \A i \in DOMAIN name : name[i] \in Digits

\* is_domain_like. A name with a colon has an odd label.
IsDomainLike(name) ==
  name # <<>> /\ ~IsIpv4(name) /\ \A i \in DOMAIN name : name[i] \notin Odd

\* A line: its mark, the name up to the first of / ^ $ #, and what follows, in
\* which an asterisk stands for any text with one.

\* parse_proxy_rule_domain: the domain of a gfwlist line, if it is used. The name
\* does not end at #, which is in no domain.
RuleDomain(line) ==
  LET domain == NormalHost(line.name)
  IN  IF /\ line.mark \in {"||", "."} /\ line.tail \notin {"/*", "#"}
         /\ \A i \in DOMAIN line.name : line.name[i] # "*"
         /\ IsDomainLike(domain)
      THEN {domain} ELSE {}

\* parse_custom_domain_rule_domain. Only # ends the name here: a mark other than
\* a dot, or a path, is no part of a domain.
CustomDomain(line) ==
  LET domain == NormalHost(line.name)
  IN  IF line.mark \in {"", "."} /\ line.tail \in {"", "#"} /\ IsDomainLike(domain)
      THEN {domain} ELSE {}

\* parse_gfwlist_text and DomainRules::new: a list without a domain is an error.
ListDomains(lines) == UNION {RuleDomain(line) : line \in lines}
IsList(lines) == ListDomains(lines) # {}

\* download_and_parse: the domains of the list, extended by the custom ones.
Domains(lines, custom) ==
  ListDomains(lines) \cup UNION {CustomDomain(line) : line \in custom}

\* Mutant: only the host itself and its parent are looked up.
Matches_ParentOnly(domains, host) ==
  LET name == NormalHost(host)
  IN  name # <<>> /\ (name \in domains \/ Tail(name) \in domains)

\* DomainRules::matches: the host, or what follows one of its dots.
Matches(domains, host) ==
  LET name == NormalHost(host)
  IN  /\ name # <<>>
      /\ \/ name \in domains
         \/ \E dot \in 1 .. Len(name) - 1 : SubSeq(name, dot + 1, Len(name)) \in domains

\* An authority: brackets or not, the host, and the port, <<>> if there is none.

\* host_from_authority. A host that begins with a bracket must be in brackets.
HasHost(authority) ==
  /\ authority.port # <<>>
  /\ authority.bracket \/ authority.host = <<>> \/ authority.host[1] # "["
=============================================================================
