--------------------------- MODULE RaftRefinement ---------------------------
(***************************************************************************)
(* Raft implements ReplicatedLog: what a server has learned is its log up  *)
(* to CommitIndex.                                                         *)
(***************************************************************************)
EXTENDS Raft

Committed(n) == SubSeq(Log[n], 1, CommitIndex[n])

AnswerOf(r) ==
    [Replica |-> r.Server, Index |-> r.Index, Read |-> r.Result,
     IsRead |-> r.Cmd \in Reads]

Abstract == INSTANCE ReplicatedLog WITH
    Replica <- Server, Value <- Entry,
    learned <- [n \in Server |-> Committed(n)],
    answered <- {AnswerOf(r) : r \in replies}

\* Committed entries agree across servers, are never cut or changed, and clients
\* are answered from them: LeaderTimeout, OnAppendEntries and ProcessWaiting keep
\* this through every change of leader.
ImplementsReplicatedLog == Abstract!Spec
=============================================================================
