------------------------------- MODULE MCNode -------------------------------
(***************************************************************************)
(* Bounds for TLC on Node: so many messages and so many connections, the   *)
(* last of which does not break.                                           *)
(***************************************************************************)
EXTENDS Node

CONSTANTS MaxSent, MaxSockets

MCNext ==
    \/ \E k \in 0..MaxSends : sent + k <= MaxSent /\ Turn(k)
    \/ \E d \in drains : WriteDone(d) \/ WriteFails(d)
    \/ ConnectDone
    \/ ConnectFails
    \/ Wake
    \/ \E c \in DOMAIN wire : Deliver(c) \/ (c < MaxSockets /\ Break(c))

MCSpec == Init /\ [][MCNext]_vars
MCFairSpec == MCSpec /\ Fairness

\* Every message leaves the node and its connection in the end (Settles).
EveryMessageSettles == \A m \in 1..MaxSent : Settles(m)
=============================================================================
