-------------------------------- MODULE Raft --------------------------------
(***************************************************************************)
(* The replication core: class TRaft of src/raft.h and src/raft.cpp, run   *)
(* by a fixed set of servers, each with the TDummyRsm of the same files as *)
(* its state machine.  TRaft has two entry points, and the actions below   *)
(* are their cases:                                                        *)
(*                                                                         *)
(*   Process         one message or client command: the term check, the    *)
(*                   dispatch on StateName and the handler (On...);        *)
(*   ProcessTimeout  one tick: StartElection, ResendVotes, BecomeLeader,   *)
(*                   SoloElection or LeaderTimeout.                        *)
(*                                                                         *)
(* Time is abstracted: an ElectionDue, HeartbeatDue or RpcDue that has     *)
(* been armed may have passed at any tick.  Messages in flight are the set *)
(* msgs of everything ever sent, so that one may be delivered late, twice, *)
(* out of order or never.                                                  *)
(***************************************************************************)
EXTENDS LogOps

CONSTANTS
    Server,      \* the servers: Id, and for each of them the keys of Nodes
    Nil,         \* VotedFor = 0
    Writes,      \* client commands that carry TCommandRequest::EWrite
    Reads,       \* client commands that do not
    MaxBatch,    \* entries in an AppendEntries after a success: 1024
    MaxBackOff   \* limit of the doubling of BackOff: 32768

ASSUME ServerAssumption == IsFiniteSet(Server) /\ Server # {}
ASSUME NilAssumption == Nil \notin Server
ASSUME CommandAssumption == Writes \cap Reads = {}
ASSUME BatchAssumption == MaxBatch \in Nat \ {0} /\ MaxBackOff \in Nat \ {0}

VARIABLES
    StateName,         \* EState of each server
    CurrentTerm,       \* TState
    VotedFor,
    Log,
    CommitIndex,       \* TVolatileState
    LastApplied,
    NextIndex,
    MatchIndex,
    Votes,
    BatchSize,
    BackOff,
    waiting,           \* commands whose client has no reply yet
    RsmLog,            \* TDummyRsm: Log and LastAppliedIndex
    LastAppliedIndex,
    msgs,              \* every message sent between servers
    replies,           \* every reply sent to a client
    LeaderLog          \* history: the log of each term's leader; no guard reads it

stateVars  == <<CurrentTerm, VotedFor, Log>>
commitVars == <<CommitIndex, LastApplied>>
peerVars   == <<NextIndex, MatchIndex, Votes, BatchSize, BackOff>>
clientVars == <<waiting, RsmLog, LastAppliedIndex, replies>>
vars == <<StateName, stateVars, commitVars, peerVars, clientVars, msgs, LeaderLog>>

-----------------------------------------------------------------------------
EState == {"CANDIDATE", "FOLLOWER", "LEADER"}
Command == Writes \cup Reads
Entry == [Term : Nat \ {0}, Cmd : Writes]

TRequestVoteRequest ==
    [Type : {"RequestVoteRequest"}, Src : Server, Dst : Server, Term : Nat,
     LastLogIndex : Nat, LastLogTerm : Nat]
TRequestVoteResponse ==
    [Type : {"RequestVoteResponse"}, Src : Server, Dst : Server, Term : Nat,
     VoteGranted : BOOLEAN]
TAppendEntriesRequest ==
    [Type : {"AppendEntriesRequest"}, Src : Server, Dst : Server, Term : Nat,
     PrevLogIndex : Nat, PrevLogTerm : Nat, LeaderCommit : Nat,
     Entries : Seq(Entry)]
TAppendEntriesResponse ==
    [Type : {"AppendEntriesResponse"}, Src : Server, Dst : Server, Term : Nat,
     MatchIndex : Nat, Success : BOOLEAN]
Message == TRequestVoteRequest \cup TRequestVoteResponse
             \cup TAppendEntriesRequest \cup TAppendEntriesResponse

Waiting == [Index : Nat, Cmd : Command]
Reply == [Server : Server, Index : Nat, Cmd : Command, Result : Seq(Entry)]

Peers(n) == Server \ {n}
Nservers == Cardinality(Server)
Npeers   == Nservers - 1
\* What a bug would do: forget that an even cluster commits with its half only.
MinVotesRoundedDown == (Npeers + 2) \div 2
MinVotes == (Npeers + 2 + (Npeers % 2)) \div 2

Init ==
    /\ StateName = [n \in Server |-> "FOLLOWER"]
    /\ CurrentTerm = [n \in Server |-> 1]
    /\ VotedFor = [n \in Server |-> Nil]
    /\ Log = [n \in Server |-> <<>>]
    /\ CommitIndex = [n \in Server |-> 0]
    /\ LastApplied = [n \in Server |-> 0]
    /\ NextIndex = [n \in Server |-> [p \in Server |-> 1]]
    /\ MatchIndex = [n \in Server |-> [p \in Server |-> 0]]
    /\ Votes = [n \in Server |-> {}]
    /\ BatchSize = [n \in Server |-> [p \in Server |-> 0]]
    /\ BackOff = [n \in Server |-> [p \in Server |-> 0]]
    /\ waiting = [n \in Server |-> {}]
    /\ RsmLog = [n \in Server |-> <<>>]
    /\ LastAppliedIndex = [n \in Server |-> 0]
    /\ msgs = {}
    /\ replies = {}
    /\ LeaderLog = [t \in {} |-> <<>>]

Send(m) == msgs' = msgs \cup {m}
SendAll(ms) == msgs' = msgs \cup ms

\* The history of leader logs once `log` is the log of the leader of term t.
WithLeaderLog(t, log) ==
    [u \in DOMAIN LeaderLog \cup {t} |-> IF u = t THEN log ELSE LeaderLog[u]]

-----------------------------------------------------------------------------
(***************************************************************************)
(* TRaft::Process, first part: a message of a later term makes the server  *)
(* a follower of that term that has not voted, whatever it was.  Every     *)
(* handler below works on these values.                                    *)
(***************************************************************************)
TermOn(n, m) == MaxOf(CurrentTerm[n], m.Term)
\* What a bug would do: forget the vote on every message.
NoVoteOn(n, m) == Nil
VotedForOn(n, m) == IF m.Term > CurrentTerm[n] THEN Nil ELSE VotedFor[n]
StateNameOn(n, m) == IF m.Term > CurrentTerm[n] THEN "FOLLOWER" ELSE StateName[n]

(***************************************************************************)
(* TRaft::OnRequestVote.  The request is handled in every role.            *)
(***************************************************************************)
\* What a bug would do: compare the lengths of the logs only.
LongEnough(n, m) == m.LastLogIndex >= Len(Log[n])

UpToDate(n, m) ==
    \/ m.LastLogTerm > LastLogTerm(Log[n])
    \/ /\ m.LastLogTerm = LastLogTerm(Log[n])
       /\ m.LastLogIndex >= Len(Log[n])

\* What a bug would do: vote again in a term in which it has voted.
GrantsTwice(n, m) == m.Term >= CurrentTerm[n] /\ UpToDate(n, m)

Grants(n, m) ==
    /\ m.Term >= CurrentTerm[n]
    /\ VotedForOn(n, m) \in {Nil, m.Src}
    /\ UpToDate(n, m)

VoteResponse(n, dst, term, granted) ==
    [Type |-> "RequestVoteResponse", Src |-> n, Dst |-> dst, Term |-> term,
     VoteGranted |-> granted]

OnRequestVoteRequest(n, m) ==
    /\ m.Type = "RequestVoteRequest"
    /\ CurrentTerm' = [CurrentTerm EXCEPT ![n] = TermOn(n, m)]
    /\ StateName' = [StateName EXCEPT ![n] = StateNameOn(n, m)]
    /\ VotedFor' = [VotedFor EXCEPT ![n] = IF Grants(n, m) THEN m.Src
                                                           ELSE VotedForOn(n, m)]
    /\ Send(VoteResponse(n, m.Src, TermOn(n, m), Grants(n, m)))
    /\ UNCHANGED <<Log, commitVars, peerVars, clientVars, LeaderLog>>

\* Only a candidate counts it; the other roles take just the term.
OnRequestVoteResponse(n, m) ==
    /\ m.Type = "RequestVoteResponse"
    /\ CurrentTerm' = [CurrentTerm EXCEPT ![n] = TermOn(n, m)]
    /\ StateName' = [StateName EXCEPT ![n] = StateNameOn(n, m)]
    /\ VotedFor' = [VotedFor EXCEPT ![n] = VotedForOn(n, m)]
    /\ Votes' = IF /\ StateNameOn(n, m) = "CANDIDATE"
                   /\ m.VoteGranted
                   /\ m.Term = TermOn(n, m)
                THEN [Votes EXCEPT ![n] = @ \cup {m.Src}]
                ELSE Votes
    /\ UNCHANGED <<Log, commitVars, NextIndex, MatchIndex, BatchSize, BackOff,
                   clientVars, msgs, LeaderLog>>

-----------------------------------------------------------------------------
(***************************************************************************)
(* TRaft::OnAppendEntries, the request.                                    *)
(***************************************************************************)
\* What a bug would do: not look at the term before the entries.
PrevExists(n, m) == m.PrevLogIndex <= Len(Log[n])

PrevMatches(n, m) ==
    \/ m.PrevLogIndex = 0
    \/ /\ m.PrevLogIndex <= Len(Log[n])
       /\ LogTerm(Log[n], m.PrevLogIndex) = m.PrevLogTerm

AppendResponse(n, dst, term, matchIndex, success) ==
    [Type |-> "AppendEntriesResponse", Src |-> n, Dst |-> dst, Term |-> term,
     MatchIndex |-> matchIndex, Success |-> success]

\* The MatchIndex of a success, and what a bug would do: claim the whole log.
WholeLog(n, m) == Len(Appended(Log[n], m.PrevLogIndex, m.Entries))
MatchedIndex(n, m) == m.PrevLogIndex + Len(m.Entries)

\* A stale request is refused with the current term and changes nothing else
\* (it does restart the election timer).
RefuseStaleAppend(n, m) ==
    /\ m.Term < CurrentTerm[n]
    /\ Send(AppendResponse(n, m.Src, CurrentTerm[n], 0, FALSE))
    /\ UNCHANGED <<StateName, stateVars, commitVars, peerVars, clientVars, LeaderLog>>

\* Bound: SetCommitIndex takes an int, which keeps a CommitIndex up to this one.
MaxInt == 2147483647

TakeAppend(n, m) ==
    /\ m.Term >= CurrentTerm[n]
    /\ CurrentTerm' = [CurrentTerm EXCEPT ![n] = m.Term]
    /\ VotedFor' = [VotedFor EXCEPT ![n] = VotedForOn(n, m)]
    /\ StateName' = [StateName EXCEPT ![n] = "FOLLOWER"]
    /\ \/ /\ PrevMatches(n, m)
          /\ Log' = [Log EXCEPT ![n] = Appended(@, m.PrevLogIndex, m.Entries)]
          /\ CommitIndex' = [CommitIndex EXCEPT ![n] = MaxOf(@, m.LeaderCommit)]
          /\ Send(AppendResponse(n, m.Src, m.Term, MatchedIndex(n, m), TRUE))
       \/ /\ ~PrevMatches(n, m)
          /\ Send(AppendResponse(n, m.Src, m.Term, 0, FALSE))
          /\ UNCHANGED <<Log, CommitIndex>>
    /\ CommitIndex'[n] <= MaxInt
    /\ UNCHANGED <<LastApplied, peerVars, clientVars, LeaderLog>>

OnAppendEntriesRequest(n, m) ==
    /\ m.Type = "AppendEntriesRequest"
    /\ RefuseStaleAppend(n, m) \/ TakeAppend(n, m)

-----------------------------------------------------------------------------
(***************************************************************************)
(* TRaft::OnAppendEntries, the response, and TVolatileState::CommitAdvance *)
(***************************************************************************)
Indices(n, matchIndex) ==
    [p \in Server |-> IF p = n THEN Len(Log[n]) ELSE matchIndex[p]]

\* What a bug would do: commit an entry of an earlier term by counting.
CommitAdvanceAnyTerm(n, matchIndex) ==
    \E k \in {Indices(n, matchIndex)[p] : p \in Server} :
        /\ IsMiddle(Indices(n, matchIndex), k)
        /\ CommitIndex' = [CommitIndex EXCEPT ![n] = MaxOf(@, k)]

CommitAdvance(n, matchIndex) ==
    \E k \in {Indices(n, matchIndex)[p] : p \in Server} :
        /\ IsMiddle(Indices(n, matchIndex), k)
        /\ LET c == MaxOf(CommitIndex[n], k)
           IN  CommitIndex' = IF LogTerm(Log[n], c) = CurrentTerm[n]
                              THEN [CommitIndex EXCEPT ![n] = c]
                              ELSE CommitIndex

AppendSucceeded(n, m) ==
    /\ m.Success
    /\ MatchIndex' = [MatchIndex EXCEPT ![n][m.Src] = MaxOf(@, m.MatchIndex)]
    /\ NextIndex' = [NextIndex EXCEPT ![n][m.Src] = m.MatchIndex + 1]
    /\ BatchSize' = [BatchSize EXCEPT ![n][m.Src] = MaxBatch]
    /\ BackOff' = [BackOff EXCEPT ![n][m.Src] = 1]
    /\ CommitAdvance(n, MatchIndex'[n])

\* What a bug would do: step back without looking at the start of the log.
SteppedBackFar(next, backOff) == next - backOff
SteppedBack(next, backOff) == IF next > backOff THEN next - backOff ELSE 1

AppendFailed(n, m) ==
    /\ ~m.Success
    /\ LET backOff == MaxOf(BackOff[n][m.Src], 1)
       IN  /\ NextIndex' = [NextIndex EXCEPT ![n][m.Src] = SteppedBack(@, backOff)]
           /\ BackOff' = [BackOff EXCEPT ![n][m.Src] = MinOf(MaxBackOff, 2 * backOff)]
    /\ BatchSize' = [BatchSize EXCEPT ![n][m.Src] = 1]
    /\ UNCHANGED <<MatchIndex, CommitIndex>>

\* Only a leader of the response's term uses it; the other roles, and a server
\* that learns of a later term, take just the term.
OnAppendEntriesResponse(n, m) ==
    /\ m.Type = "AppendEntriesResponse"
    /\ CurrentTerm' = [CurrentTerm EXCEPT ![n] = TermOn(n, m)]
    /\ StateName' = [StateName EXCEPT ![n] = StateNameOn(n, m)]
    /\ VotedFor' = [VotedFor EXCEPT ![n] = VotedForOn(n, m)]
    /\ IF StateNameOn(n, m) = "LEADER" /\ m.Term = TermOn(n, m)
       THEN AppendSucceeded(n, m) \/ AppendFailed(n, m)
       ELSE UNCHANGED <<CommitIndex, NextIndex, MatchIndex, BatchSize, BackOff>>
    /\ UNCHANGED <<Log, LastApplied, Votes, clientVars, msgs, LeaderLog>>

-----------------------------------------------------------------------------
(***************************************************************************)
(* TRaft::OnCommandRequest.  A write is appended with the leader's term    *)
(* (TDummyRsm::Prepare); a write or a read then waits until the index that *)
(* is last at this moment has been applied.  Other roles drop the command. *)
(***************************************************************************)
OnCommandRequest(n, c) ==
    /\ StateName[n] = "LEADER"
    /\ Log' = IF c \in Writes
              THEN [Log EXCEPT ![n] = Append(@, [Term |-> CurrentTerm[n], Cmd |-> c])]
              ELSE Log
    /\ waiting' = [waiting EXCEPT ![n] = @ \cup {[Index |-> Len(Log'[n]), Cmd |-> c]}]
    /\ LeaderLog' = WithLeaderLog(CurrentTerm[n], Log'[n])
    /\ UNCHANGED <<StateName, CurrentTerm, VotedFor, commitVars, peerVars, RsmLog,
                   LastAppliedIndex, replies, msgs>>

-----------------------------------------------------------------------------
CreateVote(n, dst, term) ==
    [Type |-> "RequestVoteRequest", Src |-> n, Dst |-> dst, Term |-> term,
     LastLogIndex |-> Len(Log[n]), LastLogTerm |-> LastLogTerm(Log[n])]

\* Entries are sent only once NextIndex is known to follow what the peer holds.
CreateAppendEntries(n, dst, nextIndex, matchIndex, batchSize) ==
    LET prev == nextIndex - 1
        last == IF matchIndex + 1 < nextIndex
                THEN prev
                ELSE MinOf(prev + MaxOf(1, batchSize), Len(Log[n]))
    IN  [Type |-> "AppendEntriesRequest", Src |-> n, Dst |-> dst,
         Term |-> CurrentTerm[n],
         PrevLogIndex |-> prev, PrevLogTerm |-> LogTerm(Log[n], prev),
         LeaderCommit |-> MinOf(CommitIndex[n], last),
         Entries |-> SubSeq(Log[n], prev + 1, last)]

(***************************************************************************)
(* TRaft::ProcessCommitted and ProcessWaiting, at the end of every tick of *)
(* a leader.  TDummyRsm::Write ignores an index it has applied before, so  *)
(* a leader whose LastApplied went back to 0 applies nothing twice.        *)
(***************************************************************************)
\* What a bug would do: trust LastApplied.
AppliedSinceElection(n) == LastApplied[n]
AppliedUpTo(n) == MaxOf(LastApplied[n], LastAppliedIndex[n])

ProcessCommitted(n, commitIndex) ==
    /\ RsmLog' = [RsmLog EXCEPT ![n] = Applied(@, Log[n], AppliedUpTo(n), commitIndex)]
    /\ LastAppliedIndex' = [LastAppliedIndex EXCEPT ![n] =
                                IF commitIndex > AppliedUpTo(n) THEN commitIndex ELSE @]
    /\ LastApplied' = [LastApplied EXCEPT ![n] = commitIndex]

\* A read returns what the state machine holds, a write only its index.
ReplyTo(n, w) ==
    [Server |-> n, Index |-> w.Index, Cmd |-> w.Cmd,
     Result |-> IF w.Cmd \in Reads THEN RsmLog'[n] ELSE <<>>]

\* What a bug would do: answer when all but the command itself is applied.
DoneEarly(n) == {w \in waiting[n] : w.Index <= LastApplied'[n] + 1}
Done(n) == {w \in waiting[n] : w.Index <= LastApplied'[n]}

ProcessWaiting(n) ==
    /\ waiting' = [waiting EXCEPT ![n] = @ \ Done(n)]
    /\ replies' = replies \cup {ReplyTo(n, w) : w \in Done(n)}

-----------------------------------------------------------------------------
(***************************************************************************)
(* TRaft::ProcessTimeout.  An expired ElectionDue restarts the election of *)
(* a candidate too, even of one that has enough votes.                     *)
(***************************************************************************)
StartElection(n) ==
    /\ MinVotes > 1
    /\ StateName[n] \in {"FOLLOWER", "CANDIDATE"}
    /\ StateName' = [StateName EXCEPT ![n] = "CANDIDATE"]
    /\ CurrentTerm' = [CurrentTerm EXCEPT ![n] = @ + 1]
    /\ VotedFor' = [VotedFor EXCEPT ![n] = n]
    /\ LastApplied' = [LastApplied EXCEPT ![n] = 0]
    /\ NextIndex' = [NextIndex EXCEPT ![n] = [p \in Server |-> 1]]
    /\ MatchIndex' = [MatchIndex EXCEPT ![n] = [p \in Server |-> 0]]
    /\ Votes' = [Votes EXCEPT ![n] = {}]
    /\ BatchSize' = [BatchSize EXCEPT ![n] = [p \in Server |-> 0]]
    /\ BackOff' = [BackOff EXCEPT ![n] = [p \in Server |-> 0]]
    /\ SendAll({CreateVote(n, p, CurrentTerm[n] + 1) : p \in Peers(n)})
    /\ UNCHANGED <<Log, CommitIndex, clientVars, LeaderLog>>

\* Requests to the peers `due`; RpcDue of a peer that granted its vote is Max.
ResendVotes(n, due) ==
    /\ StateName[n] = "CANDIDATE"
    /\ Cardinality(Votes[n]) + 1 < MinVotes
    /\ due \subseteq Peers(n) \ Votes[n]
    /\ SendAll({CreateVote(n, p, CurrentTerm[n]) : p \in due})
    /\ UNCHANGED <<StateName, stateVars, commitVars, peerVars, clientVars, LeaderLog>>

\* The tick that finds enough votes also sends the first heartbeats, applies and
\* answers: it ends with LeaderTimeout on the fresh volatile state.
BecomeLeader(n) ==
    /\ MinVotes > 1
    /\ StateName[n] = "CANDIDATE"
    /\ Cardinality(Votes[n]) + 1 >= MinVotes
    /\ StateName' = [StateName EXCEPT ![n] = "LEADER"]
    /\ NextIndex' = [NextIndex EXCEPT ![n] = [p \in Server |-> Len(Log[n]) + 1]]
    /\ MatchIndex' = [MatchIndex EXCEPT ![n] = [p \in Server |-> 0]]
    /\ Votes' = [Votes EXCEPT ![n] = {}]
    /\ BatchSize' = [BatchSize EXCEPT ![n] = [p \in Server |-> 0]]
    /\ BackOff' = [BackOff EXCEPT ![n] = [p \in Server |-> 0]]
    /\ SendAll({CreateAppendEntries(n, p, Len(Log[n]) + 1, 0, 0) : p \in Peers(n)})
    /\ ProcessCommitted(n, CommitIndex[n])
    /\ ProcessWaiting(n)
    /\ LeaderLog' = WithLeaderLog(CurrentTerm[n], Log[n])
    /\ UNCHANGED <<stateVars, CommitIndex>>

\* Without peers nobody responds, so the tick itself advances CommitIndex.
\* What a bug would do: wait for a response.
CommitOnResponse(n) == UNCHANGED CommitIndex
CommitOnTick(n) ==
    IF Nservers = 1 THEN CommitAdvance(n, MatchIndex[n]) ELSE UNCHANGED CommitIndex

\* Append entries go to the peers `due`.
LeaderTimeout(n, due) ==
    /\ StateName[n] = "LEADER"
    /\ due \subseteq Peers(n)
    /\ SendAll({CreateAppendEntries(n, p, NextIndex[n][p], MatchIndex[n][p],
                                    BatchSize[n][p]) : p \in due})
    /\ CommitOnTick(n)
    /\ ProcessCommitted(n, CommitIndex'[n])
    /\ ProcessWaiting(n)
    /\ UNCHANGED <<StateName, stateVars, peerVars, LeaderLog>>

\* A server without peers needs no vote: its first tick takes it from follower to
\* candidate to leader and through LeaderTimeout, which finds an empty log.
SoloElection(n) ==
    /\ MinVotes = 1
    /\ StateName[n] = "FOLLOWER"
    /\ StateName' = [StateName EXCEPT ![n] = "LEADER"]
    /\ CurrentTerm' = [CurrentTerm EXCEPT ![n] = @ + 1]
    /\ VotedFor' = [VotedFor EXCEPT ![n] = n]
    /\ LeaderLog' = WithLeaderLog(CurrentTerm[n] + 1, Log[n])
    /\ UNCHANGED <<Log, commitVars, peerVars, clientVars, msgs>>

-----------------------------------------------------------------------------
Process(n, m) ==
    /\ m.Dst = n
    /\ \/ OnRequestVoteRequest(n, m)
       \/ OnRequestVoteResponse(n, m)
       \/ OnAppendEntriesRequest(n, m)
       \/ OnAppendEntriesResponse(n, m)

ProcessTimeout(n) ==
    \/ StartElection(n)
    \/ \E due \in SUBSET Peers(n) : ResendVotes(n, due)
    \/ BecomeLeader(n)
    \/ \E due \in SUBSET Peers(n) : LeaderTimeout(n, due)
    \/ SoloElection(n)

Next ==
    \E n \in Server :
        \/ \E m \in msgs : Process(n, m)
        \/ \E c \in Command : OnCommandRequest(n, c)
        \/ ProcessTimeout(n)

Spec == Init /\ [][Next]_vars

-----------------------------------------------------------------------------
\* The variables have the types of raft.h, with Nat for uint64_t: an index that
\* went below 0 would wrap around.  (What the state machine holds, and with it
\* what clients are sent, is the subject of AppliedOnce.)
TypeOK ==
    /\ StateName \in [Server -> EState]
    /\ CurrentTerm \in [Server -> Nat \ {0}]
    /\ VotedFor \in [Server -> Server \cup {Nil}]
    /\ Log \in [Server -> Seq(Entry)]
    /\ CommitIndex \in [Server -> Nat]
    /\ LastApplied \in [Server -> Nat]
    /\ NextIndex \in [Server -> [Server -> Nat \ {0}]]
    /\ MatchIndex \in [Server -> [Server -> Nat]]
    /\ Votes \in [Server -> SUBSET Server]
    /\ BatchSize \in [Server -> [Server -> Nat]]
    /\ BackOff \in [Server -> [Server -> Nat]]
    /\ waiting \in [Server -> SUBSET Waiting]
    /\ LastAppliedIndex \in [Server -> Nat]
    /\ msgs \subseteq Message
    /\ DOMAIN LeaderLog \subseteq Nat
    /\ \A t \in DOMAIN LeaderLog : LeaderLog[t] \in Seq(Entry)

IsLeader(n) == StateName[n] = "LEADER"

\* The logs a and b hold the same entries at 1..k.
SameUpTo(a, b, k) ==
    k <= Len(a) /\ k <= Len(b) /\ \A i \in 1..k : a[i] = b[i]

\* Two servers that lead in the same term are the same: MinVotes servers must
\* grant a vote, and OnRequestVote grants one per term, however late, often or
\* out of order requests and responses arrive.
ElectionSafety ==
    \A a, b \in Server :
        IsLeader(a) /\ IsLeader(b) /\ CurrentTerm[a] = CurrentTerm[b] => a = b

\* If two logs have an entry of the same term at the same index, they are equal
\* up to it: what the check of PrevLogTerm and the truncation in OnAppendEntries
\* keep true while old and new leaders' requests interleave.
LogMatching ==
    \A a, b \in Server :
        \A i \in 1..Len(Log[a]) \cap 1..Len(Log[b]) :
            Log[a][i].Term = Log[b][i].Term => SameUpTo(Log[a], Log[b], i)

\* What a server knows to be committed is in the log of every leader of its own
\* or a later term: CommitAdvance counts only what no later election can lose.
LeaderCompleteness ==
    \A l, n \in Server :
        IsLeader(l) /\ CurrentTerm[l] >= CurrentTerm[n]
            => SameUpTo(Log[l], Log[n], CommitIndex[n])

\* A leader's MatchIndex of a peer that is still in its term is a promise: the
\* peer holds the leader's log up to it.  CommitAdvance relies on it, though
\* responses may be old or repeated.
MatchIndexSound ==
    \A l \in Server : \A p \in Peers(l) :
        IsLeader(l) /\ CurrentTerm[p] = CurrentTerm[l]
            => SameUpTo(Log[l], Log[p], MatchIndex[l][p])

\* CreateAppendEntries computes NextIndex - 1 and lastIndex - prevIndex in
\* uint64_t; neither goes below 0, whatever late responses did to NextIndex.
NextIndexInRange ==
    \A l \in Server : \A p \in Peers(l) :
        IsLeader(l) => NextIndex[l][p] \in 1 .. Len(Log[l]) + 1

\* The state machine has applied each committed entry once and in order, though
\* every election sets LastApplied back to 0.
AppliedOnce ==
    /\ replies \subseteq Reply
    /\ \A n \in Server :
        /\ RsmLog[n] \in Seq(Entry)
        /\ LastApplied[n] <= CommitIndex[n]
        /\ LastAppliedIndex[n] <= CommitIndex[n]
        /\ Len(RsmLog[n]) = LastAppliedIndex[n]
        /\ SameUpTo(RsmLog[n], Log[n], LastAppliedIndex[n])

\* The log of a term's leader only grows, and is the log of one server: no
\* second leader of the term and no second reign of the first replaces it.
OneLogPerTerm ==
    [][\A t \in DOMAIN LeaderLog :
          SameUpTo(LeaderLog[t], LeaderLog'[t], Len(LeaderLog[t]))]_vars

\* raft.h, line 19: a write is answered when its own log entry, appended at the
\* index of the reply, has been applied.
WriteAckMatchesLog ==
    \A r \in replies :
        r.Cmd \in Writes => RsmLog[r.Server][r.Index].Cmd = r.Cmd
=============================================================================
