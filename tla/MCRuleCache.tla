----------------------------- MODULE MCRuleCache -----------------------------
(***************************************************************************)
(* RuleCache for TLC: a first source and a mirror.                         *)
(***************************************************************************)
EXTENDS RuleCache

\* Every version of every source has a time of its own.
DistinctTimes == [s \in Sources |-> [v \in Versions |-> 10 * s + v]]

\* The mirror copied a version in the second the source published the next.
SharedTimes == [s \in Sources |-> [v \in Versions |-> s + v]]
=============================================================================
