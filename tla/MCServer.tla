------------------------------ MODULE MCServer ------------------------------
(***************************************************************************)
(* Bounds for TLC on Server: so many commands of all clients together, a   *)
(* log that is so long, and so many changes of the role.                   *)
(***************************************************************************)
EXTENDS Server, FiniteSetsExt

CONSTANTS MaxAsked, MaxLog, MaxChanges

VARIABLE changes    \* how often the role has changed

AskedByAll == MapThenSumSet(LAMBDA c : asked[c], Client)

MCInit == Init /\ changes = 0

MCNext ==
    \/ /\ \E c \in Client :
             \/ Call(c) \/ Close(c)
             \/ AskedByAll < MaxAsked /\ Ask(c)
             \/ Accept(c) \/ ConnectionClosed(c)
             \/ /\ logSize < MaxLog
                /\ \E write \in BOOLEAN : Request(c, write)
             \/ WriteDone(c) \/ WriteFails(c)
       /\ UNCHANGED changes
    \/ Idle /\ UNCHANGED changes
    \/ PeerCommits /\ UNCHANGED changes
    \/ /\ changes < MaxChanges
       /\ changes' = changes + 1
       /\ \E size \in 0..MaxLog : PeerChangesRole(size)

MCSpec == MCInit /\ [][MCNext]_<<vars, changes>> /\ Fairness

\* Every command of a client that goes on reading is answered (Served).
EveryReaderServed == \A c \in Readers : \A k \in 1..MaxAsked : Served(c, k)

\* The node of every client that has left is given up (Released).
EveryNodeReleased == \A c \in Client : Released(c)
=============================================================================
