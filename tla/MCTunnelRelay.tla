---------------------------- MODULE MCTunnelRelay ----------------------------
(***************************************************************************)
(* TunnelRelay for TLC: two chunks in each direction show an order, and    *)
(* sockets of two items take two chunks with the request, and are filled   *)
(* by chunks, replies, pings and ends, so that every writer has to wait.   *)
(***************************************************************************)
EXTENDS TunnelRelay
=============================================================================
