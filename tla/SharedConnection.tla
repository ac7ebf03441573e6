-------------------------- MODULE SharedConnection --------------------------
(***************************************************************************)
(* What the cache of QUIC connections promises the tunnels to one gateway, *)
(* without the mutex that brings it about: there is one connection to      *)
(* share, and one handshake at a time, which begins only when there is no  *)
(* open connection to share. While it lasts, nothing is shared and nothing *)
(* is dropped. A tunnel is given the connection that is shared then, never *)
(* the one it had before. Http3Sessions implements it.                     *)
(***************************************************************************)
EXTENDS Naturals

CONSTANT Tunnels

VARIABLES
  shared,      \* the connection to share, 0 for none
  connecting,  \* a handshake is under way
  made,        \* connections made so far
  live,        \* those that have not closed
  given        \* the connection each tunnel's request is on, 0 for none

vars == <<shared, connecting, made, live, given>>

Init == /\ shared = 0 /\ made = 0 /\ live = {}
        /\ connecting = FALSE
        /\ given = [t \in Tunnels |-> 0]

\* A handshake begins when there is no open connection to share. One that was
\* dropped may still be open.
Begin == /\ ~connecting /\ shared \notin live
         /\ connecting' = TRUE
         /\ shared' = 0
         /\ UNCHANGED <<made, live, given>>

\* It ends with a connection that is new to every tunnel,
Finish(t) == /\ connecting
             /\ connecting' = FALSE
             /\ made' = made + 1
             /\ shared' = made + 1
             /\ live' = live \cup {made + 1}
             /\ given' = [given EXCEPT ![t] = made + 1]

\* or without one.
GiveUp(t) == /\ connecting
             /\ connecting' = FALSE
             /\ given' = [given EXCEPT ![t] = 0]
             /\ UNCHANGED <<shared, made, live>>

\* A tunnel is given the connection, and not one again that did not answer it.
Give(t) == /\ ~connecting /\ shared \in live /\ given[t] # shared
           /\ given' = [given EXCEPT ![t] = shared]
           /\ UNCHANGED <<shared, connecting, made, live>>

Leave(t) == /\ given' = [given EXCEPT ![t] = 0]
            /\ UNCHANGED <<shared, connecting, made, live>>

\* A connection that did not answer, or is reset, is shared no more.
Drop == /\ ~connecting
        /\ shared' = 0
        /\ UNCHANGED <<connecting, made, live, given>>

\* A tunnel gives up on it as well.
DropAndLeave(t) == /\ ~connecting
                   /\ shared' = 0
                   /\ given' = [given EXCEPT ![t] = 0]
                   /\ UNCHANGED <<connecting, made, live>>

Close(c) == /\ live' = live \ {c}
            /\ UNCHANGED <<shared, connecting, made, given>>

Next == \/ Begin \/ Drop
        \/ \E t \in Tunnels : Finish(t) \/ GiveUp(t) \/ Give(t) \/ Leave(t) \/ DropAndLeave(t)
        \/ \E c \in live : Close(c)

Spec == Init /\ [][Next]_vars
=============================================================================
