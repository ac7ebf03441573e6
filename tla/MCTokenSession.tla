--------------------------- MODULE MCTokenSession ---------------------------
(***************************************************************************)
(* TokenSession for TLC. The unit of time is chosen so that a lifetime of  *)
(* 5 is due after 4, RENEW_RETRY_DELAY (2) reaches past the expiry of a    *)
(* token renewed late, and the cap of the delays (4) is met after two      *)
(* failures. The tunnels are interchangeable.                              *)
(***************************************************************************)
EXTENDS TokenSession, TLC

TunnelSymmetry == Permutations(Tunnels)
=============================================================================
