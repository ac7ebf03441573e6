--------------------------- MODULE MCRoutingRules ---------------------------
(***************************************************************************)
(* RoutingRules for TLC: two changes of mode are enough for a task to be   *)
(* two generations behind, two versions for it to hold an old list, two    *)
(* sources for a mirror to be behind.                                      *)
(***************************************************************************)
EXTENDS RoutingRules

\* Every version of every source has a time of its own.
DistinctTimes == [s \in Sources |-> [v \in Versions |-> 10 * s + v]]

\* A mirror gives a version the time that the first source gave the one before.
SharedTimes == [s \in Sources |-> [v \in Versions |-> s + v]]
=============================================================================
