------------------------------- MODULE MCRaft -------------------------------
(***************************************************************************)
(* Bounds that make Raft finite for TLC, for clusters of two or more:      *)
(*   - a server may start the election of term t only if it is in          *)
(*     Candidates(t);                                                      *)
(*   - every client command is handed to a leader once, the writes in the  *)
(*     order of their numbers (nothing else tells them apart); the leader  *)
(*     of term t appends at most Quota(t) writes;                          *)
(*   - requests that are bound to be refused (of an old term, or for a     *)
(*     vote already cast) are handled as long as at most MaxRefusals       *)
(*     refusals are under way: a refusal only carries a term;              *)
(*   - a tick sends to every peer.  In the set msgs a message that is sent *)
(*     and never delivered is the same as one never sent, so this drops no *)
(*     behaviour of the servers.                                           *)
(***************************************************************************)
EXTENDS RaftRefinement, TLC

CONSTANTS Candidates(_), Quota(_), MaxRefusals

\* Schedules of candidates: who may lead which term.
TwoTo3(t) == IF t \in 2..3 THEN Server \ {3} ELSE {}
AnyoneTo4(t) == IF t \in 2..4 THEN Server ELSE {}
TurnsTo4(t) == CASE t \in {2, 4} -> {1} [] t = 3 -> {2} [] OTHER -> {}
TakeTurns(t) == CASE t \in {2, 4} -> {1} [] t \in {3, 5} -> {2} [] OTHER -> {}

\* Quotas of writes.
Unlimited(t) == Cardinality(Writes) + 1
OneEach(t) == 1
OneEachTo3(t) == IF t <= 3 THEN 1 ELSE 0

AppendedIn(t) == {i \in DOMAIN LeaderLog[t] : LeaderLog[t][i].Term = t}

Submitted(c) ==
    \/ \E t \in DOMAIN LeaderLog : \E i \in DOMAIN LeaderLog[t] : LeaderLog[t][i].Cmd = c
    \/ \E n \in Server : \E w \in waiting[n] : w.Cmd = c
    \/ \E r \in replies : r.Cmd = c

InTurn(n, w) ==
    /\ \A v \in 1 .. w - 1 : Submitted(v)
    /\ Cardinality(AppendedIn(CurrentTerm[n])) < Quota(CurrentTerm[n])

Refused(n, m) ==
    \/ m.Type = "RequestVoteRequest" /\ ~Grants(n, m)
    \/ m.Type = "AppendEntriesRequest" /\ m.Term < CurrentTerm[n]

Refusals(ms) ==
    {m \in ms : \/ m.Type = "RequestVoteResponse" /\ ~m.VoteGranted
                \/ m.Type = "AppendEntriesResponse" /\ ~m.Success}

(***************************************************************************)
(* What the future of a state depends on.  States that differ in nothing   *)
(* else are explored once:                                                 *)
(*   - a message is dead if it is of a term its receiver has left or of a  *)
(*     vote that is decided, or if its effect and its answer are there     *)
(*     already: it changes nothing, now or later.  (While a refusal may    *)
(*     still be sent, all messages count.)                                 *)
(*   - the peer variables of a follower are reset before they are read.    *)
(***************************************************************************)
Dead(m) ==
    LET n == m.Dst
    IN  \/ m.Term < CurrentTerm[n]
        \/ /\ m.Term = CurrentTerm[n]
           /\ \/ /\ m.Type = "RequestVoteRequest"
                 /\ VotedFor[n] # Nil
                 /\ Grants(n, m) => VoteResponse(n, m.Src, m.Term, TRUE) \in msgs
              \/ m.Type = "RequestVoteResponse" /\ StateName[n] # "CANDIDATE"
              \/ m.Type = "AppendEntriesResponse" /\ StateName[n] # "LEADER"
              \/ /\ m.Type = "AppendEntriesRequest"
                 /\ StateName[n] = "FOLLOWER"
                 /\ PrevMatches(n, m)
                 /\ Conflicts(Log[n], m.PrevLogIndex, m.Entries) = {}
                 /\ m.LeaderCommit <= CommitIndex[n]
                 /\ AppendResponse(n, m.Src, m.Term, MatchedIndex(n, m), TRUE) \in msgs

Live ==
    IF Cardinality(Refusals(msgs)) < MaxRefusals
    THEN msgs
    ELSE {m \in msgs : ~Dead(m)}

MCNext ==
    \E n \in Server :
        \/ \E m \in Live : /\ Process(n, m)
                           /\ Refused(n, m) => Cardinality(Refusals(msgs')) <= MaxRefusals
        \/ \E c \in Command : /\ ~Submitted(c)
                              /\ OnCommandRequest(n, c)
                              /\ c \in Writes => InTurn(n, c)
        \/ n \in Candidates(CurrentTerm[n] + 1) /\ (StartElection(n) \/ SoloElection(n))
        \/ ResendVotes(n, Peers(n) \ Votes[n])
        \/ BecomeLeader(n)
        \/ LeaderTimeout(n, Peers(n))

MCSpec == Init /\ [][MCNext]_vars

LeaderView(n) ==
    IF StateName[n] = "LEADER"
    THEN <<NextIndex[n], MatchIndex[n], BatchSize[n], BackOff[n]>>
    ELSE <<>>

LiveView ==
    <<StateName, stateVars, commitVars, clientVars, LeaderLog,
      [n \in Server |-> LeaderView(n)],
      [n \in Server |-> IF StateName[n] = "CANDIDATE" THEN Votes[n] ELSE {}],
      Live>>

ServerSymmetry == Permutations(Server)
=============================================================================
