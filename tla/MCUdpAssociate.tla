--------------------------- MODULE MCUdpAssociate ---------------------------
(***************************************************************************)
(* UdpAssociate for TLC: a channel of one or two datagrams is soon full,   *)
(* and two peers and two destinations are enough to be told apart. Where   *)
(* a short silence must differ from the whole timeout, it is two ticks.    *)
(***************************************************************************)
EXTENDS UdpAssociate
=============================================================================
