-------------------------- MODULE MCHttp3Sessions --------------------------
(***************************************************************************)
(* Http3Sessions for TLC: two tunnels race for one connection and the      *)
(* caller of reset_sessions joins in; the tunnels are interchangeable.     *)
(***************************************************************************)
EXTENDS Http3Sessions, TLC

TunnelSymmetry == Permutations(Tunnels)
=============================================================================
