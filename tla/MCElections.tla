----------------------------- MODULE MCElections -----------------------------
(***************************************************************************)
(* Bounds for TLC on Elections: every command is taken once, at a quiet    *)
(* moment after Deadline.  With one server it is Raft without peers, whose *)
(* clients are answered by its own ticks.                                  *)
(***************************************************************************)
EXTENDS Elections, RaftRefinement, TLC

Submitted(c) ==
    \/ \E n \in Server : \E w \in waiting[n] : w.Cmd = c
    \/ \E r \in replies : r.Cmd = c

MCNext ==
    \/ \E f \in flight : TimedProcess(f)
    \/ \E n \in Server :
          \/ \E c \in Command : ~Submitted(c) /\ elapsed = Deadline /\ flight = {} /\ TimedCommand(n, c)
          \/ TimedStartElection(n)
          \/ TimedBecomeLeader(n)
          \/ TimedSoloElection(n)
          \/ TimedResendVotes(n)
          \/ TimedLeaderTimeout(n)
          \/ TimedFollowerTimeout(n)
          \/ Start(n)
    \/ Tick

MCSpec == TimedInit /\ [][MCNext]_timedVars

\* TRabiaServer::Idle calls ProcessTimeout every 100 ms for ever.
TickingSpec ==
    MCSpec /\ \A n \in Server : WF_timedVars(TimedSoloElection(n) \/ TimedLeaderTimeout(n))

\* A leader without peers answers every command it took: nothing but its own tick
\* can advance CommitIndex, and no later command may be needed for it.
EveryCommandAnswered ==
    \A n \in Server : \A c \in Command :
        (\E w \in waiting[n] : w.Cmd = c) ~> (\E r \in replies : r.Cmd = c)

\* What the future depends on: not what is delivered, but who follows a leader, and
\* the peer variables only while they are read.
Ahead ==
    <<StateName, stateVars, CommitIndex, waiting, replies,
      [n \in Server |-> IF IsLeader(n) THEN <<NextIndex[n], MatchIndex[n], BatchSize[n],
                                              HeartbeatDue[n], RpcDue[n],
                                              {p \in Peers(n) : Follows(p, n)}>>
                        ELSE <<>>],
      [n \in Server |-> IF StateName[n] = "CANDIDATE" THEN <<Votes[n], RpcDue[n]>> ELSE <<>>],
      ElectionDue, draws, drawn, worldVars>>

ServerSymmetry == Permutations(Server)
=============================================================================
