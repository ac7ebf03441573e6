----------------------------- MODULE RoutingMode -----------------------------
(***************************************************************************)
(* What the live routing rules promise a program that embeds the crate,    *)
(* without the tasks that bring it about: set_mode asks for a mode, and    *)
(* from then on the active rules change only towards it. Sources serve     *)
(* newer and newer lists, mirrors of one list that may be behind; the      *)
(* rules are a list that has been served, and no list is followed by an    *)
(* older one of its source. Direct routing stands in where there is no     *)
(* list. RoutingRules implements it on a runtime that does not interleave  *)
(* tasks between two await points, if times tell the lists apart.          *)
(***************************************************************************)
EXTENDS Naturals

CONSTANT Sources

VARIABLES
  mode,      \* the mode asked for last
  active,    \* the active rules
  latest     \* the version each source serves

vars == <<mode, active, latest>>

NoList == [source |-> 0, version |-> 0]
Global == [mode |-> "global", list |-> NoList]
Direct == [mode |-> "direct", list |-> NoList]
ListOf(source, version) ==
  [mode |-> "domains", list |-> [source |-> source, version |-> version]]

Init == /\ mode \in {"global", "auto"}
        /\ active = IF mode = "global" THEN Global ELSE Direct
        /\ latest = [s \in Sources |-> 1]

\* RoutingRules::set_mode: the call returns before the rules change.
Ask(wish) == mode' = wish /\ UNCHANGED <<active, latest>>

\* Every host is proxied.
ProxyAll == /\ mode = "global"
            /\ active' = Global
            /\ UNCHANGED <<mode, latest>>

\* A list that is not older than an active one of the same source.
Follow(s, version) == /\ mode = "auto"
                      /\ active.mode = "domains" /\ active.list.source = s =>
                           version >= active.list.version
                      /\ active' = ListOf(s, version)
                      /\ UNCHANGED <<mode, latest>>

GoDirect == /\ mode = "auto"
            /\ active' = Direct
            /\ UNCHANGED <<mode, latest>>

Publish(s) == latest' = [latest EXCEPT ![s] = @ + 1] /\ UNCHANGED <<mode, active>>

Next == \/ \E wish \in {"global", "auto"} : Ask(wish)
        \/ ProxyAll \/ GoDirect
        \/ \E s \in Sources : Publish(s) \/ \E version \in 1 .. latest[s] : Follow(s, version)

Spec == Init /\ [][Next]_vars
=============================================================================
