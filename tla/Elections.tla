------------------------------ MODULE Elections ------------------------------
(***************************************************************************)
(* The timers of TRaft, which Raft leaves out: ElectionDue, HeartbeatDue   *)
(* and RpcDue, how ProcessTimeout decides by them, and who sets them to    *)
(* what.  Every step is a step of Raft or leaves its variables alone.      *)
(*                                                                         *)
(* A due time is kept as the time that is left until it, 0 once it has     *)
(* passed.  A server runs ProcessTimeout at least once in a unit of time   *)
(* (Idle does every 100 ms) and after every message; a message takes up to *)
(* Delay units to a server that is up.  The servers are started one after  *)
(* the other, by hand.                                                     *)
(***************************************************************************)
EXTENDS Raft

CONSTANTS
    Election,   \* TTimeout::Election
    Rpc,        \* TTimeout::Rpc
    Jitter,     \* what a draw may add to Election: at most as much again
    Never,      \* ITimeSource::Max
    Delay,      \* bound on the time from Send to Process
    Gaps,       \* the times between the starts of two servers
    Shared,     \* so many of the first draws are told apart from free ones
    Deadline    \* bound of `elapsed`

ASSUME TimesAssumption ==
    /\ Election \in Nat /\ Rpc \in Nat /\ Delay \in Nat /\ Shared \in Nat
    /\ Jitter \subseteq 0..Election
    /\ Never \notin Nat

VARIABLES
    ElectionDue,    \* TVolatileState
    HeartbeatDue,
    RpcDue,
    draws,          \* what MakeElection draws first, second, ...: every Seed is 31337
    drawn,          \* how often each server has drawn, up to Shared
    up,             \* the servers that have been started
    sinceStart,     \* time since the last start
    elapsed,        \* time since all are up
    flight,         \* messages on the way, with the time they have left
    turn            \* the server between Process and ProcessTimeout, or Nil

timerVars == <<ElectionDue, HeartbeatDue, RpcDue, draws, drawn>>
worldVars == <<up, sinceStart, elapsed, flight, turn>>
timedVars == <<vars, timerVars, worldVars>>

Drawable == {Election + j : j \in Jitter}

TimedInit ==
    /\ Init
    /\ ElectionDue = [n \in Server |-> 0]
    /\ HeartbeatDue = [n \in Server |-> [p \in Server |-> 0]]
    /\ RpcDue = [n \in Server |-> [p \in Server |-> 0]]
    /\ draws \in [1..Shared -> Drawable]
    /\ drawn = [n \in Server |-> 0]
    /\ up = {}
    /\ sinceStart = 0
    /\ elapsed = 0
    /\ flight = {}
    /\ turn = Nil

-----------------------------------------------------------------------------
\* MakeElection: the k-th draw of a server, which is the k-th of every other one.
\* What a bug would do: forget the 1.0, so that the timeout can be over at once.
MakeElectionFrom0(k) == Jitter
MakeElection(k) == IF k <= Shared THEN {draws[k]} ELSE Drawable

\* ElectionDue of n after k draws more.
Redraw(n, k) ==
    /\ ElectionDue' \in {[ElectionDue EXCEPT ![n] = d] :
                            d \in IF k = 0 THEN {ElectionDue[n]}
                                  ELSE MakeElection(MinOf(drawn[n], Shared) + k)}
    /\ drawn' = [drawn EXCEPT ![n] = MinOf(Shared, @ + k)]

\* Process, the later term: an ElectionDue that has not passed goes on.
RestartsOnTerm(n, m) == m.Term > CurrentTerm[n] /\ ElectionDue[n] \in {0, Never}

\* What a bug would do: let the timer of a follower run on while its leader is there.
RestartsOnVote(n, m) == m.Type = "RequestVoteRequest" /\ Grants(n, m)
\* The handlers: a vote that is granted, and any AppendEntries, a stale one too.
Restarts(n, m) == RestartsOnVote(n, m) \/ m.Type = "AppendEntriesRequest"

Draws(n, m) ==
    (IF RestartsOnTerm(n, m) THEN 1 ELSE 0) + (IF Restarts(n, m) THEN 1 ELSE 0)

\* A vote stops the requests to the voter; a response lets a leader send at once.
RpcDueOn(n, m) ==
    CASE /\ m.Type = "RequestVoteResponse" /\ m.VoteGranted
         /\ m.Term = TermOn(n, m) /\ StateNameOn(n, m) = "CANDIDATE" -> Never
      [] /\ m.Type = "AppendEntriesResponse"
         /\ m.Term = TermOn(n, m) /\ StateNameOn(n, m) = "LEADER" -> 0
      [] OTHER -> RpcDue[n][m.Src]

\* What the handler of m sends.
Answers(n, m) ==
    IF m.Type = "RequestVoteRequest"
    THEN {VoteResponse(n, m.Src, TermOn(n, m), Grants(n, m))}
    ELSE IF m.Type = "AppendEntriesRequest"
    THEN {IF m.Term < CurrentTerm[n]
          THEN AppendResponse(n, m.Src, CurrentTerm[n], 0, FALSE)
          ELSE IF PrevMatches(n, m)
          THEN AppendResponse(n, m.Src, m.Term, MatchedIndex(n, m), TRUE)
          ELSE AppendResponse(n, m.Src, m.Term, 0, FALSE)}
    ELSE {}

Sent(ms) == {[m |-> m, left |-> Delay] : m \in ms}

TimedProcess(f) ==
    LET n == f.m.Dst
    IN  /\ turn = Nil
        /\ n \in up
        /\ Process(n, f.m)
        /\ Redraw(n, Draws(n, f.m))
        /\ RpcDue' = [RpcDue EXCEPT ![n][f.m.Src] = RpcDueOn(n, f.m)]
        /\ flight' = (flight \ {f}) \cup Sent(Answers(n, f.m))
        /\ turn' = n
        /\ UNCHANGED <<HeartbeatDue, draws, up, sinceStart, elapsed>>

TimedCommand(n, c) ==
    /\ turn = Nil
    /\ n \in up
    /\ OnCommandRequest(n, c)
    /\ turn' = n
    /\ UNCHANGED <<timerVars, up, sinceStart, elapsed, flight>>

-----------------------------------------------------------------------------
(***************************************************************************)
(* ProcessTimeout, at the end of a message's turn or from Idle.            *)
(***************************************************************************)
Turn(n) ==
    /\ turn = n \/ (turn = Nil /\ n \in up)
    /\ turn' = Nil
    /\ UNCHANGED <<draws, up, sinceStart, elapsed>>

ElectionPassed(n) == StateName[n] # "LEADER" /\ ElectionDue[n] = 0
All(n, time) == [p \in Server |-> time]

TimedStartElection(n) ==
    /\ Turn(n)
    /\ ElectionPassed(n)
    /\ StartElection(n)
    /\ Redraw(n, 1)
    /\ HeartbeatDue' = [HeartbeatDue EXCEPT ![n] = All(n, 0)]
    /\ RpcDue' = [RpcDue EXCEPT ![n] = All(n, Rpc)]
    /\ flight' = flight \cup Sent({CreateVote(n, p, CurrentTerm[n] + 1) : p \in Peers(n)})

\* LeaderTimeout: when the next heartbeat is due.
\* What a bug would do: wait as long as a follower may.
HeartbeatAsLate == Election
Heartbeat == Election \div 2

TimedBecomeLeader(n) ==
    /\ Turn(n)
    /\ ~ElectionPassed(n)
    /\ BecomeLeader(n)
    /\ ElectionDue' = [ElectionDue EXCEPT ![n] = Never]
    /\ HeartbeatDue' = [HeartbeatDue EXCEPT ![n] = All(n, Heartbeat)]
    /\ RpcDue' = [RpcDue EXCEPT ![n] = All(n, Rpc)]
    /\ flight' = flight \cup Sent({CreateAppendEntries(n, p, Len(Log[n]) + 1, 0, 0) :
                                      p \in Peers(n)})
    /\ UNCHANGED drawn

\* A server without peers is its own majority: one tick draws ElectionDue for the
\* candidate and sets it to Max for the leader, whose TVolatileState is new.
TimedSoloElection(n) ==
    /\ Turn(n)
    /\ ElectionPassed(n)
    /\ SoloElection(n)
    /\ ElectionDue' = [ElectionDue EXCEPT ![n] = Never]
    /\ drawn' = [drawn EXCEPT ![n] = MinOf(Shared, @ + 1)]
    /\ HeartbeatDue' = [HeartbeatDue EXCEPT ![n] = All(n, 0)]
    /\ RpcDue' = [RpcDue EXCEPT ![n] = All(n, 0)]
    /\ UNCHANGED flight

\* The timers of n with those of the peers `due` set to `time`.
Reset(timer, n, due, time) ==
    [timer EXCEPT ![n] = [p \in Server |-> IF p \in due THEN time ELSE timer[n][p]]]

RpcPassed(n) == {p \in Peers(n) : RpcDue[n][p] = 0}

TimedResendVotes(n) ==
    /\ Turn(n)
    /\ ~ElectionPassed(n)
    /\ ResendVotes(n, RpcPassed(n))
    /\ RpcDue' = Reset(RpcDue, n, RpcPassed(n), Rpc)
    /\ flight' = flight \cup Sent({CreateVote(n, p, CurrentTerm[n]) : p \in RpcPassed(n)})
    /\ UNCHANGED <<ElectionDue, HeartbeatDue, drawn>>

AppendDue(n) ==
    {p \in Peers(n) : \/ HeartbeatDue[n][p] = 0
                      \/ NextIndex[n][p] <= Len(Log[n]) /\ RpcDue[n][p] = 0}

TimedLeaderTimeout(n) ==
    /\ Turn(n)
    /\ LeaderTimeout(n, AppendDue(n))
    /\ HeartbeatDue' = Reset(HeartbeatDue, n, AppendDue(n), Heartbeat)
    /\ RpcDue' = Reset(RpcDue, n, AppendDue(n), Rpc)
    /\ flight' = flight \cup Sent({CreateAppendEntries(n, p, NextIndex[n][p], MatchIndex[n][p],
                                                       BatchSize[n][p]) : p \in AppendDue(n)})
    /\ UNCHANGED <<ElectionDue, drawn>>

\* A follower whose time has not come: FollowerTimeout finds the same.
TimedFollowerTimeout(n) ==
    /\ Turn(n)
    /\ StateName[n] = "FOLLOWER"
    /\ ~ElectionPassed(n)
    /\ UNCHANGED <<vars, ElectionDue, HeartbeatDue, RpcDue, drawn, flight>>

-----------------------------------------------------------------------------
\* Somebody starts server n; Serve runs Idle up to its first sleep at once.
Start(n) ==
    /\ turn = Nil
    /\ n \notin up
    /\ up = {} \/ sinceStart \in Gaps
    /\ up' = up \cup {n}
    /\ sinceStart' = 0
    /\ turn' = n
    /\ UNCHANGED <<vars, timerVars, elapsed, flight>>

Less(time) == IF time \in Nat \ {0} THEN time - 1 ELSE time

\* ProcessTimeout of n would do something.
Due(n) ==
    \/ ElectionPassed(n)
    \/ StateName[n] = "CANDIDATE" /\ RpcPassed(n) # {}
    \/ StateName[n] = "LEADER" /\ AppendDue(n) # {}

\* A unit of time passes: not before ProcessTimeout has done what is due, every message
\* has come that must, and a server has been started that must be.
Tick ==
    /\ turn = Nil
    /\ \A n \in up : ~Due(n)
    /\ up # {}
    /\ up # Server => \E g \in Gaps : sinceStart < g
    /\ \A f \in flight : f.m.Dst \in up => f.left > 0
    /\ ElectionDue' = [n \in Server |-> Less(ElectionDue[n])]
    /\ HeartbeatDue' = [n \in Server |-> [p \in Server |-> Less(HeartbeatDue[n][p])]]
    /\ RpcDue' = [n \in Server |-> [p \in Server |-> Less(RpcDue[n][p])]]
    /\ flight' = {[m |-> f.m, left |-> IF f.m.Dst \in up THEN f.left - 1 ELSE f.left] :
                    f \in flight}
    /\ sinceStart' = IF up = Server THEN 0 ELSE sinceStart + 1
    /\ elapsed' = IF up = Server THEN MinOf(Deadline, elapsed + 1) ELSE 0
    /\ UNCHANGED <<vars, draws, drawn, up, turn>>

TimedNext ==
    \/ \E f \in flight : TimedProcess(f)
    \/ \E n \in Server :
          \/ \E c \in Command : TimedCommand(n, c)
          \/ TimedStartElection(n)
          \/ TimedBecomeLeader(n)
          \/ TimedSoloElection(n)
          \/ TimedResendVotes(n)
          \/ TimedLeaderTimeout(n)
          \/ TimedFollowerTimeout(n)
          \/ Start(n)
    \/ Tick

TimedSpec == TimedInit /\ [][TimedNext]_timedVars

-----------------------------------------------------------------------------
\* What is on the way has been sent.
FlightSent == \A f \in flight : f.m \in msgs

\* A server without an election timer leads: one that is no leader any more, or loses
\* an election, can stand again.
OnlyLeadersRest == \A n \in Server : ElectionDue[n] = Never => IsLeader(n)

\* Once all servers are up, one of them leads within Deadline, and from then on there
\* is a leader: though each draws the same timeouts, because each was started a
\* message's time after the one before.
LedInTime == elapsed = Deadline => \E n \in Server : IsLeader(n)

\* A leader is not deposed while messages arrive in time: its heartbeats keep the
\* timer of every follower from running out, whatever it drew.
LeaderStays ==
    [][\A n \in Server : IsLeader(n) => IsLeader(n)']_timedVars

\* Server p has taken an AppendEntries of l in the term that both are in.
Follows(p, l) ==
    /\ CurrentTerm[p] = CurrentTerm[l]
    /\ \E m \in msgs : /\ m.Type = "AppendEntriesResponse" /\ m.Success
                      /\ m.Src = p /\ m.Dst = l /\ m.Term = CurrentTerm[l]

\* Who follows a leader does not stand: its timer, which every AppendEntries restarts,
\* outlasts the leader's heartbeat and the heartbeat's way.
FollowersWait ==
    \A l \in Server : \A p \in Peers(l) :
        IsLeader(l) /\ Follows(p, l) => ~ElectionPassed(p)

Settled(l) == IsLeader(l) /\ \A p \in Peers(l) : Follows(p, l)

\* A leader that all others follow is never deposed, and they go on following it,
\* whatever they have drawn and whatever is still on the way from earlier terms.
SettledStays ==
    [][\A l \in Server : Settled(l) => Settled(l)']_timedVars
=============================================================================
