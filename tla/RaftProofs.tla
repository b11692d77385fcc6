----------------------------- MODULE RaftProofs -----------------------------
(***************************************************************************)
(* Theorems about Raft for any number of servers and any commands.         *)
(***************************************************************************)
EXTENDS Raft, FiniteSetTheorems, SequenceTheorems, WellFoundedInduction, TLAPS

-----------------------------------------------------------------------------
(* The operators of LogOps, for logs of any length                          *)

\* A set of naturals has a least element.
LEMMA LeastNat ==
  ASSUME NEW T, T \subseteq Nat, T # {}
  PROVE  \E x \in T : \A y \in T : x <= y
<1>1. PICK x \in T : \A y \in T : ~ (<<y, x>> \in OpToRel(<, Nat))
  BY NatLessThanWellFounded, WFMin
<1>2. \A y \in T : ~ (y < x)
  BY <1>1 DEF OpToRel
<1>3. QED
  BY <1>2

\* What the payload loop of OnAppendEntries leaves: either the log, which already
\* held the entries, or the log cut before the first conflict c, followed by the
\* entries from there.
IsAppended(S, log, prev, entries, new) ==
    \/ /\ new = log
       /\ prev + Len(entries) <= Len(log)
       /\ \A i \in 1..Len(entries) : log[prev + i].Term = entries[i].Term
    \/ \E c \in 1..Len(entries) :
          /\ prev + c - 1 <= Len(log)
          /\ LogTerm(log, prev + c) # entries[c].Term
          /\ \A i \in 1..c - 1 : log[prev + i].Term = entries[i].Term
          /\ new \in Seq(S)
          /\ Len(new) = prev + Len(entries)
          /\ \A i \in 1..prev + c - 1 : new[i] = log[i]
          /\ \A i \in c..Len(entries) : new[prev + i] = entries[i]

LEMMA AppendedShape ==
  ASSUME NEW S, \A e \in S : e.Term \in Nat \ {0},
         NEW log \in Seq(S), NEW prev \in 0..Len(log), NEW entries \in Seq(S)
  PROVE  IsAppended(S, log, prev, entries, Appended(log, prev, entries))
<1> USE DEF IsAppended
<1> DEFINE C == Conflicts(log, prev, entries)
<1>1. CASE C = {}
  <2>1. \A i \in 1..Len(entries) : LogTerm(log, prev + i) = entries[i].Term
    BY <1>1 DEF Conflicts
  <2>2. \A i \in 1..Len(entries) :
           prev + i <= Len(log) /\ log[prev + i].Term = entries[i].Term
    <3> SUFFICES ASSUME NEW i \in 1..Len(entries)
                 PROVE  prev + i <= Len(log) /\ log[prev + i].Term = entries[i].Term
      OBVIOUS
    <3>1. entries[i] \in S
      OBVIOUS
    <3>2. entries[i].Term # 0
      BY <3>1
    <3>3. QED
      BY <2>1, <3>2 DEF LogTerm
  <2>3. prev + Len(entries) <= Len(log)
    <3>1. CASE Len(entries) = 0
      BY <3>1
    <3>2. CASE Len(entries) # 0
      <4>1. Len(entries) \in 1..Len(entries)
        BY <3>2
      <4>2. QED
        BY <4>1, <2>2
    <3>3. QED
      BY <3>1, <3>2
  <2>4. QED
    BY <1>1, <2>2, <2>3 DEF Appended
<1>2. CASE C # {}
  <2> DEFINE c == CHOOSE i \in C : \A j \in C : i <= j
  <2>1. C \subseteq 1..Len(entries)
    BY DEF Conflicts
  <2>2. C \subseteq Nat
    BY <2>1
  <2>3. c \in C /\ \A j \in C : c <= j
    BY <1>2, <2>2, LeastNat
  <2>4. Appended(log, prev, entries)
           = SubSeq(log, 1, prev + c - 1) \o SubSeq(entries, c, Len(entries))
    BY <1>2 DEF Appended
  <2>5. c \in 1..Len(entries) /\ LogTerm(log, prev + c) # entries[c].Term
    BY <2>3 DEF Conflicts
  <2> HIDE DEF c
  <2>6. \A i \in 1..c - 1 : LogTerm(log, prev + i) = entries[i].Term
    BY <2>3, <2>5 DEF Conflicts
  <2>7. \A i \in 1..c - 1 :
           prev + i <= Len(log) /\ log[prev + i].Term = entries[i].Term
    <3> SUFFICES ASSUME NEW i \in 1..c - 1
                 PROVE  prev + i <= Len(log) /\ log[prev + i].Term = entries[i].Term
      OBVIOUS
    <3>1. entries[i] \in S
      BY <2>5
    <3>2. entries[i].Term # 0
      BY <3>1
    <3>3. QED
      BY <2>6, <3>2, <2>5 DEF LogTerm
  <2>8. prev + c - 1 <= Len(log)
    <3>1. CASE c = 1
      BY <3>1
    <3>2. CASE c # 1
      <4>1. c - 1 \in 1..c - 1
        BY <3>2, <2>5
      <4>2. QED
        BY <4>1, <2>7, <2>5
    <3>3. QED
      BY <3>1, <3>2
  <2> DEFINE head == SubSeq(log, 1, prev + c - 1)
             tail == SubSeq(entries, c, Len(entries))
  <2>9. /\ head \in Seq(S)
        /\ Len(head) = prev + c - 1
        /\ \A i \in 1..prev + c - 1 : head[i] = log[i]
    <3>1. \A i \in 1..prev + c - 1 : log[i] \in S
      BY <2>8, <2>5
    <3>2. prev + c - 1 \in Nat
      BY <2>5
    <3>3. QED
      BY <3>1, <3>2, SubSeqProperties
  <2>10. /\ tail \in Seq(S)
         /\ Len(tail) = Len(entries) - c + 1
         /\ \A i \in 1..Len(entries) - c + 1 : tail[i] = entries[c + i - 1]
    <3>1. \A i \in c..Len(entries) : entries[i] \in S
      BY <2>5
    <3>3. QED
      BY <3>1, <2>5, SubSeqProperties
  <2> HIDE DEF head, tail
  <2>11. Appended(log, prev, entries) = head \o tail
    BY <2>4 DEF head, tail
  <2>12. /\ head \o tail \in Seq(S)
         /\ Len(head \o tail) = prev + Len(entries)
         /\ \A i \in 1..prev + Len(entries) :
               (head \o tail)[i] = IF i <= prev + c - 1 THEN head[i]
                                   ELSE tail[i - (prev + c - 1)]
    <3>1. /\ head \o tail \in Seq(S)
          /\ Len(head \o tail) = Len(head) + Len(tail)
          /\ \A i \in 1..Len(head) + Len(tail) :
                (head \o tail)[i] = IF i <= Len(head) THEN head[i]
                                    ELSE tail[i - Len(head)]
      BY <2>9, <2>10, ConcatProperties
    <3>2. Len(head) + Len(tail) = prev + Len(entries)
      BY <2>5, <2>9, <2>10
    <3>3. QED
      BY <2>9, <3>1, <3>2
  <2>13. \A i \in 1..prev + c - 1 : (head \o tail)[i] = log[i]
    BY <2>5, <2>9, <2>12
  <2>14. \A i \in c..Len(entries) : (head \o tail)[prev + i] = entries[i]
    BY SMTT(30), <2>5, <2>10, <2>12
  <2>15. QED
    BY ZenonT(60), <2>5, <2>7, <2>8, <2>11, <2>12, <2>13, <2>14
<1>3. QED
  BY <1>1, <1>2

-----------------------------------------------------------------------------
(* Quorums                                                                  *)

LEMMA ServerCount == Nservers \in Nat \ {0}
  BY ServerAssumption, FS_CardinalityType, FS_EmptySet DEF Nservers

\* The number of votes TRaft's constructor computes: a majority of an odd and of
\* an even cluster; a single vote is enough only for a server without peers.
LEMMA VoteQuorums ==
    /\ MinVotes \in Nat \ {0}
    /\ 2 * MinVotes > Nservers
    /\ MinVotes = 1 <=> Nservers = 1
<1> DEFINE N == Nservers
<1>1. N \in Nat \ {0}
  BY ServerCount
<1>2. MinVotes = (N - 1 + 2 + ((N - 1) % 2)) \div 2
  BY DEF MinVotes, Npeers
<1> HIDE DEF N
<1>3. QED
  BY <1>1, <1>2 DEF N

\* CommitAdvance is content with half of an even cluster; together with the votes
\* for a leader that is still more than all servers.
LEMMA CommitQuorums ==
    /\ CommitQuorum(Server) \in Nat \ {0}
    /\ MinVotes + CommitQuorum(Server) > Nservers
<1> DEFINE N == Nservers
<1>1. N \in Nat \ {0}
  BY ServerCount
<1>2. MinVotes = (N - 1 + 2 + ((N - 1) % 2)) \div 2
  BY DEF MinVotes, Npeers
<1>3. CommitQuorum(Server) = N - N \div 2
  BY DEF CommitQuorum, Nservers
<1> HIDE DEF N
<1>4. QED
  BY <1>1, <1>2, <1>3 DEF N

\* Two sets of servers that are together larger than the cluster share a server.
LEMMA QuorumsMeet ==
  ASSUME NEW P, P \subseteq Server, NEW Q, Q \subseteq Server,
         Cardinality(P) + Cardinality(Q) > Nservers
  PROVE  P \cap Q # {}
  BY ServerAssumption, FS_MajoritiesIntersect DEF Nservers

-----------------------------------------------------------------------------
(* Types                                                                    *)

LEMMA MessageTypes ==
  ASSUME NEW m \in Message
  PROVE  /\ m.Src \in Server
         /\ m.Dst \in Server
         /\ m.Term \in Nat
         /\ m.Type = "RequestVoteRequest" => m \in TRequestVoteRequest
         /\ m.Type = "RequestVoteResponse" => m \in TRequestVoteResponse
         /\ m.Type = "AppendEntriesRequest" => m \in TAppendEntriesRequest
         /\ m.Type = "AppendEntriesResponse" => m \in TAppendEntriesResponse
  BY DEF Message, TRequestVoteRequest, TRequestVoteResponse,
         TAppendEntriesRequest, TAppendEntriesResponse

\* What the term check of TRaft::Process leaves has the types of the state.
LEMMA TermCheckTypes ==
  ASSUME TypeOK, NEW n \in Server, NEW m \in Message
  PROVE  /\ TermOn(n, m) \in Nat \ {0}
         /\ VotedForOn(n, m) \in Server \cup {Nil}
         /\ StateNameOn(n, m) \in EState
  BY MessageTypes DEF TypeOK, TermOn, VotedForOn, StateNameOn, EState, MaxOf

LEMMA LogTermType ==
  ASSUME NEW log \in Seq(Entry), NEW i \in Int
  PROVE  LogTerm(log, i) \in Nat
<1>1. CASE i \in 1..Len(log)
  <2>1. log[i] \in Entry
    BY <1>1
  <2>2. QED
    BY <1>1, <2>1 DEF LogTerm, Entry
<1>2. CASE i \notin 1..Len(log)
  BY <1>2 DEF LogTerm
<1>3. QED
  BY <1>1, <1>2

\* Setting one entry of a map of maps keeps its type.
LEMMA SetEntry ==
  ASSUME NEW S, NEW f \in [Server -> [Server -> S]], NEW n \in Server, NEW p \in Server,
         NEW v \in S
  PROVE  [f EXCEPT ![n][p] = v] \in [Server -> [Server -> S]]
  OBVIOUS

LEMMA AppendedType ==
  ASSUME NEW log \in Seq(Entry), NEW prev \in 0..Len(log), NEW entries \in Seq(Entry)
  PROVE  Appended(log, prev, entries) \in Seq(Entry)
<1>1. \A e \in Entry : e.Term \in Nat \ {0}
  BY DEF Entry
<1>2. QED
  BY <1>1, AppendedShape DEF IsAppended

LEMMA CreateVoteType ==
  ASSUME TypeOK, NEW n \in Server, NEW p \in Server, NEW t \in Nat
  PROVE  CreateVote(n, p, t) \in TRequestVoteRequest
<1>1. Log[n] \in Seq(Entry)
  BY DEF TypeOK
<1>2. LastLogTerm(Log[n]) \in Nat /\ Len(Log[n]) \in Nat
  BY <1>1, LogTermType DEF LastLogTerm
<1>3. QED
  BY <1>2 DEF CreateVote, TRequestVoteRequest

LEMMA CreateAppendEntriesType ==
  ASSUME TypeOK, NEW n \in Server, NEW p \in Server,
         NEW next \in Nat \ {0}, NEW match \in Nat, NEW batch \in Nat
  PROVE  CreateAppendEntries(n, p, next, match, batch) \in TAppendEntriesRequest
<1> DEFINE last == IF match + 1 < next THEN next - 1
                   ELSE MinOf(next - 1 + MaxOf(1, batch), Len(Log[n]))
<1>1. Log[n] \in Seq(Entry) /\ CurrentTerm[n] \in Nat /\ CommitIndex[n] \in Nat
  BY DEF TypeOK
<1>2. last \in Nat
  BY <1>1 DEF MinOf, MaxOf
<1>3. SubSeq(Log[n], next - 1 + 1, last) \in Seq(Entry)
  <2>1. \A i \in next - 1 + 1..last : Log[n][i] \in Entry
    BY <1>1, <1>2 DEF MinOf, MaxOf
  <2>2. QED
    BY <1>2, <2>1, SubSeqProperties
<1>4. LogTerm(Log[n], next - 1) \in Nat
  BY SMTT(30), <1>1, LogTermType
<1>5. MinOf(CommitIndex[n], last) \in Nat
  BY <1>1, <1>2 DEF MinOf
<1>6. CreateAppendEntries(n, p, next, match, batch) =
        [Type |-> "AppendEntriesRequest", Src |-> n, Dst |-> p,
         Term |-> CurrentTerm[n],
         PrevLogIndex |-> next - 1, PrevLogTerm |-> LogTerm(Log[n], next - 1),
         LeaderCommit |-> MinOf(CommitIndex[n], last),
         Entries |-> SubSeq(Log[n], next - 1 + 1, last)]
  BY DEF CreateAppendEntries
<1> HIDE DEF last
<1>7. QED
  BY <1>1, <1>3, <1>4, <1>5, <1>6 DEF TAppendEntriesRequest

LEMMA TypeInit == Init => TypeOK
<1> SUFFICES ASSUME Init PROVE TypeOK
  OBVIOUS
<1>1. <<>> \in Seq(Entry)
  OBVIOUS
<1>2. QED
  BY <1>1, NilAssumption DEF Init, TypeOK, EState

LEMMA TypeRequestVoteRequest ==
  ASSUME TypeOK, NEW n \in Server, NEW m \in msgs, OnRequestVoteRequest(n, m)
  PROVE  TypeOK'
<1>1. m \in Message
  BY DEF TypeOK
<1>2. VoteResponse(n, m.Src, TermOn(n, m), Grants(n, m)) \in TRequestVoteResponse
  BY <1>1, MessageTypes, TermCheckTypes DEF VoteResponse, TRequestVoteResponse, Grants
<1>3. msgs' \subseteq Message
  BY <1>2 DEF OnRequestVoteRequest, Send, TypeOK, Message
<1>4. QED
  BY <1>1, <1>3, MessageTypes, TermCheckTypes
  DEF OnRequestVoteRequest, TypeOK, commitVars, peerVars, clientVars

LEMMA TypeRequestVoteResponse ==
  ASSUME TypeOK, NEW n \in Server, NEW m \in msgs, OnRequestVoteResponse(n, m)
  PROVE  TypeOK'
<1>1. m \in Message
  BY DEF TypeOK
<1>2. Votes' \in [Server -> SUBSET Server]
  BY <1>1, MessageTypes DEF OnRequestVoteResponse, TypeOK
<1>3. QED
  BY <1>1, <1>2, MessageTypes, TermCheckTypes
  DEF OnRequestVoteResponse, TypeOK, commitVars, clientVars

LEMMA TypeAppendEntriesRequest ==
  ASSUME TypeOK, NEW n \in Server, NEW m \in msgs, OnAppendEntriesRequest(n, m)
  PROVE  TypeOK'
<1>1. m \in Message /\ m \in TAppendEntriesRequest
  BY MessageTypes DEF OnAppendEntriesRequest, TypeOK
<1>2. CASE RefuseStaleAppend(n, m)
  <2>1. AppendResponse(n, m.Src, CurrentTerm[n], 0, FALSE) \in TAppendEntriesResponse
    BY <1>1, MessageTypes DEF AppendResponse, TAppendEntriesResponse, TypeOK
  <2>2. msgs' \subseteq Message
    BY <1>2, <2>1 DEF RefuseStaleAppend, Send, TypeOK, Message
  <2>3. QED
    BY <1>2, <2>2
    DEF RefuseStaleAppend, TypeOK, stateVars, commitVars, peerVars, clientVars
<1>3. CASE TakeAppend(n, m)
  <2>1. /\ m.Src \in Server /\ m.Term \in Nat /\ m.PrevLogIndex \in Nat
        /\ m.LeaderCommit \in Nat /\ m.Entries \in Seq(Entry)
    BY <1>1 DEF TAppendEntriesRequest
  <2>2. m.Term \in Nat \ {0}
    <3>1. CurrentTerm[n] \in Nat \ {0} /\ m.Term >= CurrentTerm[n]
      BY <1>3 DEF TakeAppend, TypeOK
    <3>2. QED
      BY <2>1, <3>1
  <2>3. CASE PrevMatches(n, m)
    <3>1. Log[n] \in Seq(Entry) /\ m.PrevLogIndex \in 0..Len(Log[n])
      BY <2>1, <2>3 DEF TypeOK, PrevMatches
    <3>2. Appended(Log[n], m.PrevLogIndex, m.Entries) \in Seq(Entry)
      BY <2>1, <3>1, AppendedType
    <3>3. AppendResponse(n, m.Src, m.Term, MatchedIndex(n, m), TRUE)
            \in TAppendEntriesResponse
      BY <2>1 DEF AppendResponse, TAppendEntriesResponse, MatchedIndex
    <3>4. msgs' \subseteq Message
      BY <1>3, <2>3, <3>3 DEF TakeAppend, Send, TypeOK, Message
    <3>5. Log' \in [Server -> Seq(Entry)] /\ CommitIndex' \in [Server -> Nat]
      <4>1. MaxOf(CommitIndex[n], m.LeaderCommit) \in Nat
        BY <2>1 DEF TypeOK, MaxOf
      <4>2. /\ Log' = [Log EXCEPT ![n] = Appended(Log[n], m.PrevLogIndex, m.Entries)]
            /\ CommitIndex' =
                  [CommitIndex EXCEPT ![n] = MaxOf(CommitIndex[n], m.LeaderCommit)]
        BY <1>3, <2>3 DEF TakeAppend
      <4>3. QED
        BY <3>2, <4>1, <4>2 DEF TypeOK
    <3>6. QED
      BY <1>1, <1>3, <2>2, <3>4, <3>5, TermCheckTypes
      DEF TakeAppend, TypeOK, peerVars, clientVars, EState
  <2>4. CASE ~PrevMatches(n, m)
    <3>1. AppendResponse(n, m.Src, m.Term, 0, FALSE) \in TAppendEntriesResponse
      BY <2>1 DEF AppendResponse, TAppendEntriesResponse
    <3>2. msgs' \subseteq Message
      BY <1>3, <2>4, <3>1 DEF TakeAppend, Send, TypeOK, Message
    <3>3. UNCHANGED <<Log, CommitIndex>>
      BY <1>3, <2>4 DEF TakeAppend
    <3>4. QED
      BY <1>1, <1>3, <2>2, <3>2, <3>3, TermCheckTypes
      DEF TakeAppend, TypeOK, peerVars, clientVars, EState
  <2>5. QED
    BY <2>3, <2>4
<1>4. QED
  BY <1>2, <1>3 DEF OnAppendEntriesRequest

\* A success can only be about indices a server may hold, so CommitIndex stays in Nat.
LEMMA CommitAdvanceType ==
  ASSUME TypeOK, NEW n \in Server, NEW match \in [Server -> Nat], CommitAdvance(n, match)
  PROVE  CommitIndex' \in [Server -> Nat]
<1>1. Len(Log[n]) \in Nat
  BY DEF TypeOK
<1>2. Indices(n, match) \in [Server -> Nat]
  BY <1>1 DEF Indices
<1>3. PICK k \in {Indices(n, match)[p] : p \in Server} :
         CommitIndex' = IF LogTerm(Log[n], MaxOf(CommitIndex[n], k)) = CurrentTerm[n]
                        THEN [CommitIndex EXCEPT ![n] = MaxOf(CommitIndex[n], k)]
                        ELSE CommitIndex
  BY DEF CommitAdvance
<1>4. k \in Nat
  BY <1>2
<1>5. MaxOf(CommitIndex[n], k) \in Nat
  BY <1>4 DEF TypeOK, MaxOf
<1>6. QED
  BY <1>3, <1>5 DEF TypeOK

LEMMA TypeAppendEntriesResponse ==
  ASSUME TypeOK, NEW n \in Server, NEW m \in msgs, OnAppendEntriesResponse(n, m)
  PROVE  TypeOK'
<1>1. m \in Message /\ m \in TAppendEntriesResponse
  BY MessageTypes DEF OnAppendEntriesResponse, TypeOK
<1>2. m.Src \in Server /\ m.MatchIndex \in Nat
  BY <1>1 DEF TAppendEntriesResponse
<1>3. CASE AppendSucceeded(n, m)
  <2>1. MatchIndex' \in [Server -> [Server -> Nat]]
    <3>1. MatchIndex \in [Server -> [Server -> Nat]] /\ MatchIndex[n][m.Src] \in Nat
      BY ZenonT(60), <1>2 DEF TypeOK
    <3>2. MaxOf(MatchIndex[n][m.Src], m.MatchIndex) \in Nat
      BY <1>2, <3>1 DEF MaxOf
    <3>3. MatchIndex' =
            [MatchIndex EXCEPT ![n][m.Src] = MaxOf(MatchIndex[n][m.Src], m.MatchIndex)]
      BY <1>3 DEF AppendSucceeded
    <3>4. QED
      BY <1>2, <3>1, <3>2, <3>3, SetEntry
  <2>2. CommitIndex' \in [Server -> Nat]
    <3>1. MatchIndex'[n] \in [Server -> Nat]
      BY <2>1
    <3>2. QED
      BY <1>3, <3>1, CommitAdvanceType DEF AppendSucceeded
  <2>3. NextIndex' \in [Server -> [Server -> Nat \ {0}]]
    <3>1. m.MatchIndex + 1 \in Nat \ {0}
      BY <1>2
    <3>2. NextIndex \in [Server -> [Server -> Nat \ {0}]]
      BY DEF TypeOK
    <3>3. NextIndex' = [NextIndex EXCEPT ![n][m.Src] = m.MatchIndex + 1]
      BY <1>3 DEF AppendSucceeded
    <3>4. QED
      BY <1>2, <3>1, <3>2, <3>3, SetEntry
  <2>4. BatchSize' \in [Server -> [Server -> Nat]] /\ BackOff' \in [Server -> [Server -> Nat]]
    BY <1>2, <1>3, BatchAssumption, SetEntry DEF AppendSucceeded, TypeOK
  <2>5. QED
    BY <1>1, <2>1, <2>2, <2>3, <2>4, TermCheckTypes
    DEF OnAppendEntriesResponse, TypeOK, clientVars
<1>4. CASE AppendFailed(n, m)
  <2>1. /\ MaxOf(BackOff[n][m.Src], 1) \in Nat \ {0}
        /\ NextIndex[n][m.Src] \in Nat \ {0}
    <3>1. BackOff[n] \in [Server -> Nat] /\ NextIndex[n] \in [Server -> Nat \ {0}]
      BY DEF TypeOK
    <3>2. QED
      BY <1>2, <3>1 DEF MaxOf
  <2>2. /\ MinOf(MaxBackOff, 2 * MaxOf(BackOff[n][m.Src], 1)) \in Nat
        /\ SteppedBack(NextIndex[n][m.Src], MaxOf(BackOff[n][m.Src], 1)) \in Nat \ {0}
    BY <2>1, BatchAssumption DEF MinOf, SteppedBack
  <2>3. /\ NextIndex' \in [Server -> [Server -> Nat \ {0}]]
        /\ BackOff' \in [Server -> [Server -> Nat]]
        /\ BatchSize' \in [Server -> [Server -> Nat]]
    <3> DEFINE backOff == MaxOf(BackOff[n][m.Src], 1)
    <3>1. /\ NextIndex' =
               [NextIndex EXCEPT ![n][m.Src] = SteppedBack(NextIndex[n][m.Src], backOff)]
          /\ BackOff' = [BackOff EXCEPT ![n][m.Src] = MinOf(MaxBackOff, 2 * backOff)]
          /\ BatchSize' = [BatchSize EXCEPT ![n][m.Src] = 1]
      BY <1>4 DEF AppendFailed
    <3>2. /\ NextIndex \in [Server -> [Server -> Nat \ {0}]]
          /\ BackOff \in [Server -> [Server -> Nat]]
          /\ BatchSize \in [Server -> [Server -> Nat]]
      BY DEF TypeOK
    <3> HIDE DEF backOff
    <3>3. NextIndex' \in [Server -> [Server -> Nat \ {0}]]
      BY <1>2, <2>2, <3>1, <3>2, SetEntry DEF backOff
    <3>4. BackOff' \in [Server -> [Server -> Nat]]
      BY <1>2, <2>2, <3>1, <3>2, SetEntry DEF backOff
    <3>5. BatchSize' \in [Server -> [Server -> Nat]]
      BY <1>2, <3>1, <3>2, SetEntry
    <3>6. QED
      BY <3>3, <3>4, <3>5
  <2>4. QED
    BY <1>1, <1>4, <2>3, TermCheckTypes
    DEF OnAppendEntriesResponse, AppendFailed, TypeOK, clientVars
<1>5. CASE UNCHANGED <<CommitIndex, NextIndex, MatchIndex, BatchSize, BackOff>>
  BY <1>1, <1>5, TermCheckTypes DEF OnAppendEntriesResponse, TypeOK, clientVars
<1>6. QED
  BY <1>3, <1>4, <1>5 DEF OnAppendEntriesResponse

LEMMA WithLeaderLogType ==
  ASSUME TypeOK, NEW t \in Nat, NEW log \in Seq(Entry),
         LeaderLog' = WithLeaderLog(t, log)
  PROVE  /\ DOMAIN LeaderLog' = DOMAIN LeaderLog \cup {t}
         /\ DOMAIN LeaderLog' \subseteq Nat
         /\ \A u \in DOMAIN LeaderLog' : LeaderLog'[u] \in Seq(Entry)
  BY DEF TypeOK, WithLeaderLog

LEMMA TypeCommandRequest ==
  ASSUME TypeOK, NEW n \in Server, NEW c \in Command, OnCommandRequest(n, c)
  PROVE  TypeOK'
<1>1. Log[n] \in Seq(Entry) /\ CurrentTerm[n] \in Nat \ {0}
  BY DEF TypeOK
<1>2. Log' \in [Server -> Seq(Entry)]
  <2>1. CASE c \in Writes
    <3>1. [Term |-> CurrentTerm[n], Cmd |-> c] \in Entry
      BY <1>1, <2>1 DEF Entry
    <3>2. Append(Log[n], [Term |-> CurrentTerm[n], Cmd |-> c]) \in Seq(Entry)
      BY <1>1, <3>1
    <3>3. QED
      BY <2>1, <3>2 DEF OnCommandRequest, TypeOK
  <2>2. CASE c \notin Writes
    BY <2>2 DEF OnCommandRequest, TypeOK
  <2>3. QED
    BY <2>1, <2>2
<1>3. waiting' \in [Server -> SUBSET Waiting]
  <2>1. Len(Log'[n]) \in Nat
    BY <1>2
  <2>2. [Index |-> Len(Log'[n]), Cmd |-> c] \in Waiting
    BY <2>1 DEF Waiting
  <2>3. QED
    BY <2>2 DEF OnCommandRequest, TypeOK
<1>4. /\ DOMAIN LeaderLog' \subseteq Nat
      /\ \A u \in DOMAIN LeaderLog' : LeaderLog'[u] \in Seq(Entry)
  BY <1>1, <1>2, WithLeaderLogType DEF OnCommandRequest
<1>5. QED
  BY <1>2, <1>3, <1>4 DEF OnCommandRequest, TypeOK, commitVars, peerVars

LEMMA TypeStartElection ==
  ASSUME TypeOK, NEW n \in Server, StartElection(n)
  PROVE  TypeOK'
<1>1. CurrentTerm[n] + 1 \in Nat \ {0}
  BY DEF TypeOK
<1>2. \A p \in Peers(n) : CreateVote(n, p, CurrentTerm[n] + 1) \in Message
  BY <1>1, CreateVoteType DEF Peers, Message
<1>3. msgs' \subseteq Message
  BY <1>2 DEF StartElection, SendAll, TypeOK
<1>4. QED
  BY <1>1, <1>3 DEF StartElection, TypeOK, EState, clientVars

LEMMA TypeResendVotes ==
  ASSUME TypeOK, NEW n \in Server, NEW due \in SUBSET Peers(n), ResendVotes(n, due)
  PROVE  TypeOK'
<1>1. CurrentTerm[n] \in Nat
  BY DEF TypeOK
<1>2. \A p \in due : CreateVote(n, p, CurrentTerm[n]) \in Message
  BY <1>1, CreateVoteType DEF Peers, Message
<1>3. msgs' \subseteq Message
  BY <1>2 DEF ResendVotes, SendAll, TypeOK
<1>4. QED
  BY <1>3 DEF ResendVotes, TypeOK, stateVars, commitVars, peerVars, clientVars

LEMMA TypeProcessCommitted ==
  ASSUME TypeOK, NEW n \in Server, NEW k \in Nat, ProcessCommitted(n, k)
  PROVE  LastApplied' \in [Server -> Nat] /\ LastAppliedIndex' \in [Server -> Nat]
  BY DEF ProcessCommitted, TypeOK

LEMMA TypeProcessWaiting ==
  ASSUME TypeOK, NEW n \in Server, ProcessWaiting(n)
  PROVE  waiting' \in [Server -> SUBSET Waiting]
  BY DEF ProcessWaiting, TypeOK

LEMMA TypeBecomeLeader ==
  ASSUME TypeOK, NEW n \in Server, BecomeLeader(n)
  PROVE  TypeOK'
<1>1. Len(Log[n]) + 1 \in Nat \ {0} /\ Log[n] \in Seq(Entry) /\ CurrentTerm[n] \in Nat
  BY DEF TypeOK
<1>2. \A p \in Peers(n) : CreateAppendEntries(n, p, Len(Log[n]) + 1, 0, 0) \in Message
  BY <1>1, CreateAppendEntriesType DEF Peers, Message
<1>3. msgs' \subseteq Message
  BY <1>2 DEF BecomeLeader, SendAll, TypeOK
<1>4. /\ LastApplied' \in [Server -> Nat] /\ LastAppliedIndex' \in [Server -> Nat]
      /\ waiting' \in [Server -> SUBSET Waiting]
  BY TypeProcessCommitted, TypeProcessWaiting DEF BecomeLeader, TypeOK
<1>5. /\ DOMAIN LeaderLog' \subseteq Nat
      /\ \A u \in DOMAIN LeaderLog' : LeaderLog'[u] \in Seq(Entry)
  BY <1>1, WithLeaderLogType DEF BecomeLeader
<1>6. QED
  BY <1>1, <1>3, <1>4, <1>5 DEF BecomeLeader, TypeOK, EState, stateVars

LEMMA TypeLeaderTimeout ==
  ASSUME TypeOK, NEW n \in Server, NEW due \in SUBSET Peers(n), LeaderTimeout(n, due)
  PROVE  TypeOK'
<1>1. \A p \in due : CreateAppendEntries(n, p, NextIndex[n][p], MatchIndex[n][p],
                                         BatchSize[n][p]) \in Message
  <2> SUFFICES ASSUME NEW p \in due
               PROVE  CreateAppendEntries(n, p, NextIndex[n][p], MatchIndex[n][p],
                                          BatchSize[n][p]) \in Message
    OBVIOUS
  <2>1. p \in Server
    BY DEF Peers
  <2>2. /\ NextIndex[n] \in [Server -> Nat \ {0}]
        /\ MatchIndex[n] \in [Server -> Nat]
        /\ BatchSize[n] \in [Server -> Nat]
    BY DEF TypeOK
  <2>3. /\ NextIndex[n][p] \in Nat \ {0}
        /\ MatchIndex[n][p] \in Nat
        /\ BatchSize[n][p] \in Nat
    BY <2>1, <2>2
  <2>4. QED
    BY <2>1, <2>3, CreateAppendEntriesType DEF Message
<1>2. msgs' \subseteq Message
  BY <1>1 DEF LeaderTimeout, SendAll, TypeOK
<1>3. CommitIndex' \in [Server -> Nat]
  <2>1. MatchIndex[n] \in [Server -> Nat]
    BY DEF TypeOK
  <2>2. QED
    BY <2>1, CommitAdvanceType DEF LeaderTimeout, CommitOnTick, TypeOK
<1>4. /\ LastApplied' \in [Server -> Nat] /\ LastAppliedIndex' \in [Server -> Nat]
      /\ waiting' \in [Server -> SUBSET Waiting]
  BY <1>3, TypeProcessCommitted, TypeProcessWaiting DEF LeaderTimeout
<1>5. QED
  BY <1>2, <1>3, <1>4 DEF LeaderTimeout, TypeOK, stateVars, peerVars

LEMMA TypeSoloElection ==
  ASSUME TypeOK, NEW n \in Server, SoloElection(n)
  PROVE  TypeOK'
<1>1. CurrentTerm[n] + 1 \in Nat \ {0} /\ Log[n] \in Seq(Entry)
  BY DEF TypeOK
<1>2. /\ DOMAIN LeaderLog' \subseteq Nat
      /\ \A u \in DOMAIN LeaderLog' : LeaderLog'[u] \in Seq(Entry)
  BY <1>1, WithLeaderLogType DEF SoloElection
<1>3. QED
  BY <1>1, <1>2
  DEF SoloElection, TypeOK, EState, commitVars, peerVars, clientVars

LEMMA TypeNext == TypeOK /\ [Next]_vars => TypeOK'
<1> SUFFICES ASSUME TypeOK, [Next]_vars PROVE TypeOK'
  OBVIOUS
<1>1. ASSUME NEW n \in Server, NEW m \in msgs, Process(n, m) PROVE TypeOK'
  BY <1>1, TypeRequestVoteRequest, TypeRequestVoteResponse, TypeAppendEntriesRequest,
     TypeAppendEntriesResponse DEF Process
<1>2. ASSUME NEW n \in Server, NEW c \in Command, OnCommandRequest(n, c) PROVE TypeOK'
  BY <1>2, TypeCommandRequest
<1>3. ASSUME NEW n \in Server, ProcessTimeout(n) PROVE TypeOK'
  BY <1>3, TypeStartElection, TypeResendVotes, TypeBecomeLeader, TypeLeaderTimeout,
     TypeSoloElection DEF ProcessTimeout
<1>4. CASE UNCHANGED vars
  BY <1>4 DEF TypeOK, vars, stateVars, commitVars, peerVars, clientVars
<1>5. QED
  BY <1>1, <1>2, <1>3, <1>4 DEF Next

\* Every reachable state of any cluster has the types of raft.h: in particular no
\* sequence of refusals or late responses takes NextIndex below 1, so the
\* subtraction in CreateAppendEntries does not wrap.
THEOREM TypeCorrect == Spec => []TypeOK
  BY TypeInit, TypeNext, PTL DEF Spec

-----------------------------------------------------------------------------
(***************************************************************************)
(* Votes.  msgs keeps every vote ever cast: a granted response is a vote   *)
(* for a peer, a request shows that its sender has voted for itself.       *)
(***************************************************************************)
IsGrant(m) == m.Type = "RequestVoteResponse" /\ m.VoteGranted
IsRequest(m) == m.Type = "RequestVoteRequest"

Voted(s, t, c) ==
    \/ \E m \in msgs : IsGrant(m) /\ m.Src = s /\ m.Term = t /\ m.Dst = c
    \/ s = c /\ \E m \in msgs : IsRequest(m) /\ m.Src = s /\ m.Term = t

Elected(n, t) ==
    \E Q \in SUBSET Server : Cardinality(Q) >= MinVotes /\ \A q \in Q : Voted(q, t, n)

NotToSelf == \A m \in msgs : m.Src # m.Dst

\* A server's state remembers the vote of its term and no vote is of a later one.
VotesRecorded ==
    \A s, c \in Server : \A t \in Nat :
        Voted(s, t, c) => t <= CurrentTerm[s] /\ (t = CurrentTerm[s] => VotedFor[s] = c)

VotedOnce ==
    \A s, c, d \in Server : \A t \in Nat : Voted(s, t, c) /\ Voted(s, t, d) => c = d

CandidateVotes ==
    \A n \in Server : StateName[n] = "CANDIDATE" =>
        /\ MinVotes > 1
        /\ Voted(n, CurrentTerm[n], n)
        /\ \A v \in Votes[n] : v # n /\ Voted(v, CurrentTerm[n], n)

LeaderElected ==
    \A n \in Server : IsLeader(n) /\ MinVotes > 1 => Elected(n, CurrentTerm[n])

VoteInv == NotToSelf /\ VotesRecorded /\ VotedOnce /\ CandidateVotes /\ LeaderElected

\* What every step does to terms, votes and messages.
VoteStep ==
    /\ msgs \subseteq msgs'
    /\ \A s \in Server : CurrentTerm[s] <= CurrentTerm'[s]
    /\ \A s \in Server : CurrentTerm'[s] = CurrentTerm[s] /\ VotedFor[s] # Nil
                            => VotedFor'[s] = VotedFor[s]
    /\ \A m \in msgs' \ msgs :
          /\ m.Src # m.Dst
          /\ IsGrant(m) => m.Term = CurrentTerm'[m.Src] /\ VotedFor'[m.Src] = m.Dst
          /\ IsRequest(m) => m.Term = CurrentTerm'[m.Src] /\ VotedFor'[m.Src] = m.Src

LEMMA VotedStable ==
  ASSUME msgs \subseteq msgs', NEW s, NEW t, NEW c, Voted(s, t, c)
  PROVE  Voted(s, t, c)'
  BY DEF Voted

LEMMA ElectedStable ==
  ASSUME msgs \subseteq msgs', NEW n, NEW t, Elected(n, t)
  PROVE  Elected(n, t)'
<1>1. PICK Q \in SUBSET Server :
         Cardinality(Q) >= MinVotes /\ \A q \in Q : Voted(q, t, n)
  BY DEF Elected
<1>2. \A q \in Q : Voted(q, t, n)'
  BY <1>1, VotedStable
<1>3. QED
  BY <1>1, <1>2 DEF Elected

\* A majority cannot vote for two servers in one term.
LEMMA OneElected ==
  ASSUME VotedOnce, NEW a \in Server, NEW b \in Server, NEW t \in Nat,
         Elected(a, t), Elected(b, t)
  PROVE  a = b
<1>1. PICK P \in SUBSET Server :
         Cardinality(P) >= MinVotes /\ \A q \in P : Voted(q, t, a)
  BY DEF Elected
<1>2. PICK Q \in SUBSET Server :
         Cardinality(Q) >= MinVotes /\ \A q \in Q : Voted(q, t, b)
  BY DEF Elected
<1>3. Cardinality(P) \in Nat /\ Cardinality(Q) \in Nat
  BY ServerAssumption, FS_Subset, FS_CardinalityType
<1>4. Cardinality(P) + Cardinality(Q) > Nservers
  BY <1>1, <1>2, <1>3, VoteQuorums, ServerCount
<1>5. PICK q \in Server : q \in P /\ q \in Q
  BY <1>4, QuorumsMeet
<1>6. QED
  BY <1>1, <1>2, <1>5 DEF VotedOnce

\* The votes a candidate has counted, and its own, elect it once they are enough.
LEMMA EnoughVotesElect ==
  ASSUME TypeOK, CandidateVotes, NEW n \in Server, StateName[n] = "CANDIDATE",
         Cardinality(Votes[n]) + 1 >= MinVotes
  PROVE  Elected(n, CurrentTerm[n])
<1> DEFINE Q == Votes[n] \cup {n}
<1>1. Votes[n] \subseteq Server /\ n \notin Votes[n]
  BY DEF TypeOK, CandidateVotes
<1>2. IsFiniteSet(Votes[n])
  BY <1>1, ServerAssumption, FS_Subset
<1>3. Cardinality(Q) = Cardinality(Votes[n]) + 1
  BY <1>1, <1>2, FS_AddElement
<1>4. \A q \in Q : Voted(q, CurrentTerm[n], n)
  BY DEF CandidateVotes
<1>5. Q \in SUBSET Server
  BY <1>1
<1>6. QED
  BY <1>3, <1>4, <1>5 DEF Elected

LEMMA VoteStepKeepsVotes ==
  ASSUME TypeOK, TypeOK', NotToSelf, VotesRecorded, VotedOnce, VoteStep
  PROVE  NotToSelf' /\ VotesRecorded' /\ VotedOnce'
<1>1. NotToSelf'
  BY DEF NotToSelf, VoteStep
<1>2. ASSUME NEW s \in Server, NEW c \in Server, NEW t \in Nat, Voted(s, t, c)'
      PROVE  Voted(s, t, c) \/ (t = CurrentTerm'[s] /\ VotedFor'[s] = c)
  BY <1>2 DEF Voted, VoteStep
<1>3. ASSUME NEW s \in Server, NEW c \in Server, NEW t \in Nat, Voted(s, t, c)'
      PROVE  t <= CurrentTerm'[s] /\ (t = CurrentTerm'[s] => VotedFor'[s] = c)
  <2>1. /\ CurrentTerm[s] \in Nat /\ CurrentTerm'[s] \in Nat
        /\ CurrentTerm[s] <= CurrentTerm'[s]
    BY DEF TypeOK, VoteStep
  <2>2. CASE Voted(s, t, c)
    <3>1. t <= CurrentTerm[s] /\ (t = CurrentTerm[s] => VotedFor[s] = c)
      BY <2>2 DEF VotesRecorded
    <3>2. c # Nil
      BY NilAssumption
    <3>3. CurrentTerm'[s] = CurrentTerm[s] /\ VotedFor[s] # Nil
             => VotedFor'[s] = VotedFor[s]
      BY DEF VoteStep
    <3>4. QED
      BY <2>1, <3>1, <3>2, <3>3
  <2>3. CASE t = CurrentTerm'[s] /\ VotedFor'[s] = c
    BY <2>1, <2>3
  <2>4. QED
    BY <1>2, <1>3, <2>2, <2>3
<1>4. VotesRecorded'
  BY <1>3 DEF VotesRecorded
<1>5. VotedOnce'
  BY <1>2, <1>3 DEF VotedOnce
<1>6. QED
  BY <1>1, <1>4, <1>5

\* A server keeps its role, becomes a follower, or has earned its new role.
RoleStep ==
    \A s \in Server :
        \/ StateName'[s] = "FOLLOWER"
        \/ UNCHANGED <<StateName[s], CurrentTerm[s], Votes[s]>>
        \/ /\ StateName'[s] = "CANDIDATE"
           /\ MinVotes > 1
           /\ Voted(s, CurrentTerm[s], s)'
           /\ \A v \in Votes'[s] : v # s /\ Voted(v, CurrentTerm[s], s)'
        \/ /\ StateName'[s] = "LEADER"
           /\ MinVotes > 1 => Elected(s, CurrentTerm[s])'

LEMMA RoleStepKeepsRoles ==
  ASSUME CandidateVotes, LeaderElected, VoteStep, RoleStep
  PROVE  CandidateVotes' /\ LeaderElected'
<1>1. msgs \subseteq msgs'
  BY DEF VoteStep
<1>2. ASSUME NEW s \in Server, StateName'[s] = "CANDIDATE"
      PROVE  /\ MinVotes > 1
             /\ Voted(s, CurrentTerm[s], s)'
             /\ \A v \in Votes'[s] : v # s /\ Voted(v, CurrentTerm[s], s)'
  <2>1. CASE UNCHANGED <<StateName[s], CurrentTerm[s], Votes[s]>>
    <3>1. PICK t : t = CurrentTerm[s] /\ t = CurrentTerm'[s]
      BY <2>1
    <3>2. /\ MinVotes > 1
          /\ Voted(s, t, s)
          /\ \A v \in Votes[s] : v # s /\ Voted(v, t, s)
      BY <1>2, <2>1, <3>1 DEF CandidateVotes
    <3>3. Voted(s, t, s)' /\ \A v \in Votes[s] : v # s /\ Voted(v, t, s)'
      BY <1>1, <3>2, VotedStable
    <3>4. QED
      BY <2>1, <3>1, <3>2, <3>3 DEF Voted
  <2>2. QED
    BY <1>2, <2>1 DEF RoleStep
<1>3. ASSUME NEW s \in Server, StateName'[s] = "LEADER", MinVotes > 1
      PROVE  Elected(s, CurrentTerm[s])'
  <2>1. CASE UNCHANGED <<StateName[s], CurrentTerm[s], Votes[s]>>
    <3>1. Elected(s, CurrentTerm[s])
      BY <1>3, <2>1 DEF LeaderElected, IsLeader
    <3>2. PICK t : t = CurrentTerm[s]
      OBVIOUS
    <3>3. Elected(s, t)'
      BY <1>1, <3>1, <3>2, ElectedStable
    <3>4. QED
      BY <2>1, <3>2, <3>3 DEF Elected, Voted
  <2>2. QED
    BY <1>3, <2>1 DEF RoleStep
<1>4. QED
  BY <1>2, <1>3 DEF CandidateVotes, LeaderElected, IsLeader

LEMMA VotesRequestVoteRequest ==
  ASSUME TypeOK, VoteInv, NEW n \in Server, NEW m \in msgs, m.Dst = n,
         OnRequestVoteRequest(n, m)
  PROVE  VoteStep /\ RoleStep
<1> DEFINE r == VoteResponse(n, m.Src, TermOn(n, m), Grants(n, m))
<1>1. m \in Message /\ m.Src \in Server /\ m.Term \in Nat
  BY MessageTypes DEF TypeOK
<1>2. CurrentTerm[n] \in Nat
  BY DEF TypeOK
<1>3. /\ CurrentTerm' = [CurrentTerm EXCEPT ![n] = TermOn(n, m)]
      /\ StateName' = [StateName EXCEPT ![n] = StateNameOn(n, m)]
      /\ VotedFor' = [VotedFor EXCEPT ![n] = IF Grants(n, m) THEN m.Src
                                                             ELSE VotedForOn(n, m)]
      /\ msgs' = msgs \cup {r}
      /\ Votes' = Votes
  BY DEF OnRequestVoteRequest, Send, peerVars
<1>4. /\ CurrentTerm'[n] = TermOn(n, m)
      /\ VotedFor'[n] = IF Grants(n, m) THEN m.Src ELSE VotedForOn(n, m)
      /\ \A s \in Server \ {n} : UNCHANGED <<CurrentTerm[s], VotedFor[s], StateName[s]>>
  BY <1>3 DEF TypeOK
<1>5. /\ CurrentTerm[n] <= TermOn(n, m)
      /\ TermOn(n, m) = CurrentTerm[n] /\ VotedFor[n] # Nil => VotedFor'[n] = VotedFor[n]
  BY <1>1, <1>2, <1>4 DEF TermOn, VotedForOn, MaxOf, Grants
<1>6. /\ r.Src = n /\ r.Dst = m.Src /\ r.Term = TermOn(n, m)
      /\ r.Type = "RequestVoteResponse" /\ r.VoteGranted = Grants(n, m)
  BY DEF VoteResponse
<1>7. r.Src # r.Dst
  BY <1>6 DEF VoteInv, NotToSelf
<1> HIDE DEF r
<1>8. VoteStep
  <2>1. \A s \in Server : CurrentTerm[s] \in Nat
    BY DEF TypeOK
  <2>2. \A s \in Server : CurrentTerm[s] <= CurrentTerm'[s]
    BY <2>1, <1>4, <1>5
  <2>3. QED
    BY <1>3, <1>4, <1>5, <1>6, <1>7, <2>2 DEF VoteStep, IsGrant, IsRequest
<1>9. RoleStep
  <2>1. StateName'[n] = "FOLLOWER" \/ UNCHANGED <<StateName[n], CurrentTerm[n], Votes[n]>>
    <3>1. StateName'[n] = StateNameOn(n, m)
      BY <1>3 DEF TypeOK
    <3>2. QED
      BY <1>1, <1>2, <1>3, <1>4, <3>1 DEF StateNameOn, TermOn, MaxOf
  <2>2. QED
    BY <1>3, <1>4, <2>1 DEF RoleStep
<1>10. QED
  BY <1>8, <1>9

LEMMA VotesRequestVoteResponse ==
  ASSUME TypeOK, VoteInv, NEW n \in Server, NEW m \in msgs, m.Dst = n,
         OnRequestVoteResponse(n, m)
  PROVE  VoteStep /\ RoleStep
<1>1. m \in Message /\ m.Src \in Server /\ m.Term \in Nat
  BY MessageTypes DEF TypeOK
<1>2. \A s \in Server : CurrentTerm[s] \in Nat
  BY DEF TypeOK
<1>3. /\ CurrentTerm'[n] = TermOn(n, m)
      /\ StateName'[n] = StateNameOn(n, m)
      /\ VotedFor'[n] = VotedForOn(n, m)
      /\ \A s \in Server \ {n} :
            UNCHANGED <<CurrentTerm[s], VotedFor[s], StateName[s], Votes[s]>>
      /\ msgs' = msgs
  BY DEF OnRequestVoteResponse, TypeOK
<1>4. VoteStep
  <2>1. \A s \in Server : CurrentTerm[s] <= CurrentTerm'[s]
    BY <1>1, <1>2, <1>3 DEF TermOn, MaxOf
  <2>2. CurrentTerm'[n] = CurrentTerm[n] => VotedFor'[n] = VotedFor[n]
    BY <1>1, <1>2, <1>3 DEF TermOn, VotedForOn, MaxOf
  <2>3. QED
    BY <1>3, <2>1, <2>2 DEF VoteStep
<1>5. RoleStep
  <2>1. CASE /\ StateNameOn(n, m) = "CANDIDATE"
             /\ m.VoteGranted
             /\ m.Term = TermOn(n, m)
    <3>1. StateName[n] = "CANDIDATE" /\ CurrentTerm'[n] = CurrentTerm[n] /\ m.Term = CurrentTerm[n]
      BY <1>1, <1>2, <1>3, <2>1 DEF StateNameOn, TermOn, MaxOf
    <3>2. Votes'[n] = Votes[n] \cup {m.Src}
      BY <2>1 DEF OnRequestVoteResponse, TypeOK
    <3>3. Voted(m.Src, CurrentTerm[n], n) /\ m.Src # n
      BY <2>1, <3>1 DEF OnRequestVoteResponse, Voted, IsGrant, VoteInv, NotToSelf
    <3>4. /\ MinVotes > 1
          /\ Voted(n, CurrentTerm[n], n)
          /\ \A v \in Votes'[n] : v # n /\ Voted(v, CurrentTerm[n], n)
      BY <3>1, <3>2, <3>3 DEF VoteInv, CandidateVotes
    <3>5. /\ MinVotes > 1
          /\ Voted(n, CurrentTerm[n], n)'
          /\ \A v \in Votes'[n] : v # n /\ Voted(v, CurrentTerm[n], n)'
      BY <1>3, <3>1, <3>4 DEF Voted
    <3>6. QED
      BY <1>3, <2>1, <3>5 DEF RoleStep
  <2>2. CASE ~(/\ StateNameOn(n, m) = "CANDIDATE"
               /\ m.VoteGranted
               /\ m.Term = TermOn(n, m))
    <3>1. Votes' = Votes
      BY <2>2 DEF OnRequestVoteResponse
    <3>2. StateName'[n] = "FOLLOWER" \/ UNCHANGED <<StateName[n], CurrentTerm[n], Votes[n]>>
      BY <1>1, <1>2, <1>3, <3>1 DEF StateNameOn, TermOn, MaxOf
    <3>3. QED
      BY <1>3, <3>2 DEF RoleStep
  <2>3. QED
    BY <2>1, <2>2
<1>6. QED
  BY <1>4, <1>5

\* Handlers and ticks that neither vote nor ask for votes: the server keeps its
\* vote and role, or takes a later term as a follower.
QuietStep(n) ==
    /\ CurrentTerm'[n] >= CurrentTerm[n]
    /\ CurrentTerm'[n] = CurrentTerm[n] => VotedFor'[n] = VotedFor[n]
    /\ \/ StateName'[n] = "FOLLOWER"
       \/ UNCHANGED <<StateName[n], CurrentTerm[n], Votes[n]>>
    /\ \A s \in Server \ {n} :
          UNCHANGED <<CurrentTerm[s], VotedFor[s], StateName[s], Votes[s]>>
    /\ msgs \subseteq msgs'
    /\ \A m \in msgs' \ msgs : m.Src # m.Dst /\ ~IsGrant(m) /\ ~IsRequest(m)

LEMMA QuietVotes ==
  ASSUME TypeOK, NEW n \in Server, QuietStep(n)
  PROVE  VoteStep /\ RoleStep
<1>1. \A s \in Server : CurrentTerm[s] \in Nat
  BY DEF TypeOK
<1>2. \A s \in Server : CurrentTerm[s] <= CurrentTerm'[s]
  <2>1. ASSUME NEW s \in Server, s # n PROVE CurrentTerm'[s] = CurrentTerm[s]
    BY <2>1 DEF QuietStep
  <2>2. CurrentTerm[n] <= CurrentTerm'[n]
    BY <1>1 DEF QuietStep
  <2>3. QED
    BY <1>1, <2>1, <2>2
<1>3. VoteStep
  BY <1>2 DEF VoteStep, QuietStep
<1>4. RoleStep
  BY DEF RoleStep, QuietStep
<1>5. QED
  BY <1>3, <1>4

LEMMA QuietAppendEntriesRequest ==
  ASSUME TypeOK, VoteInv, NEW n \in Server, NEW m \in msgs, m.Dst = n,
         OnAppendEntriesRequest(n, m)
  PROVE  QuietStep(n)
<1>1. m \in Message /\ m.Src \in Server /\ m.Src # n /\ m.Term \in Nat
  BY MessageTypes DEF TypeOK, VoteInv, NotToSelf
<1>2. CurrentTerm[n] \in Nat
  BY DEF TypeOK
<1>3. ASSUME NEW t, NEW k, NEW ok, msgs' = msgs \cup {AppendResponse(n, m.Src, t, k, ok)}
      PROVE  /\ msgs \subseteq msgs'
             /\ \A x \in msgs' \ msgs : x.Src # x.Dst /\ ~IsGrant(x) /\ ~IsRequest(x)
  BY <1>1, <1>3 DEF AppendResponse, IsGrant, IsRequest
<1>4. CASE RefuseStaleAppend(n, m)
  <2>1. UNCHANGED <<CurrentTerm, VotedFor, StateName, Votes>>
    BY <1>4 DEF RefuseStaleAppend, stateVars, peerVars
  <2>2. /\ msgs \subseteq msgs'
        /\ \A x \in msgs' \ msgs : x.Src # x.Dst /\ ~IsGrant(x) /\ ~IsRequest(x)
    BY <1>3, <1>4 DEF RefuseStaleAppend, Send
  <2>3. QED
    BY <1>2, <2>1, <2>2 DEF QuietStep
<1>5. CASE TakeAppend(n, m)
  <2>1. /\ CurrentTerm'[n] = m.Term
        /\ m.Term >= CurrentTerm[n]
        /\ VotedFor'[n] = VotedForOn(n, m)
        /\ StateName'[n] = "FOLLOWER"
        /\ \A s \in Server \ {n} :
              UNCHANGED <<CurrentTerm[s], VotedFor[s], StateName[s], Votes[s]>>
    BY <1>5 DEF TakeAppend, TypeOK, peerVars
  <2>2. /\ msgs \subseteq msgs'
        /\ \A x \in msgs' \ msgs : x.Src # x.Dst /\ ~IsGrant(x) /\ ~IsRequest(x)
    BY <1>3, <1>5 DEF TakeAppend, Send
  <2>3. m.Term = CurrentTerm[n] => VotedForOn(n, m) = VotedFor[n]
    BY <1>1, <1>2 DEF VotedForOn
  <2>4. QED
    BY <2>1, <2>2, <2>3 DEF QuietStep
<1>6. QED
  BY <1>4, <1>5 DEF OnAppendEntriesRequest

LEMMA QuietAppendEntriesResponse ==
  ASSUME TypeOK, NEW n \in Server, NEW m \in msgs, OnAppendEntriesResponse(n, m)
  PROVE  QuietStep(n)
<1>1. m \in Message /\ m.Term \in Nat /\ CurrentTerm[n] \in Nat
  BY MessageTypes DEF TypeOK
<1>2. /\ CurrentTerm'[n] = TermOn(n, m)
      /\ StateName'[n] = StateNameOn(n, m)
      /\ VotedFor'[n] = VotedForOn(n, m)
      /\ \A s \in Server \ {n} :
            UNCHANGED <<CurrentTerm[s], VotedFor[s], StateName[s], Votes[s]>>
      /\ Votes' = Votes
      /\ msgs' = msgs
  BY DEF OnAppendEntriesResponse, TypeOK
<1>3. QED
  BY <1>1, <1>2 DEF QuietStep, TermOn, StateNameOn, VotedForOn, MaxOf

LEMMA QuietCommandRequest ==
  ASSUME TypeOK, NEW n \in Server, NEW c \in Command, OnCommandRequest(n, c)
  PROVE  QuietStep(n)
<1>1. CurrentTerm[n] \in Nat
  BY DEF TypeOK
<1>2. QED
  BY <1>1 DEF OnCommandRequest, QuietStep, peerVars

LEMMA QuietLeaderTimeout ==
  ASSUME TypeOK, NEW n \in Server, NEW due \in SUBSET Peers(n), LeaderTimeout(n, due)
  PROVE  QuietStep(n)
<1>1. CurrentTerm[n] \in Nat
  BY DEF TypeOK
<1>2. \A p \in due : LET x == CreateAppendEntries(n, p, NextIndex[n][p],
                                                  MatchIndex[n][p], BatchSize[n][p])
                     IN  x.Src # x.Dst /\ ~IsGrant(x) /\ ~IsRequest(x)
  BY DEF CreateAppendEntries, Peers, IsGrant, IsRequest
<1>3. QED
  BY <1>1, <1>2 DEF LeaderTimeout, QuietStep, SendAll, stateVars, peerVars

LEMMA VotesResend ==
  ASSUME TypeOK, VoteInv, NEW n \in Server, NEW due \in SUBSET Peers(n),
         ResendVotes(n, due)
  PROVE  VoteStep /\ RoleStep
<1>1. \A s \in Server : CurrentTerm[s] \in Nat
  BY DEF TypeOK
<1>2. VotedFor[n] = n
  BY <1>1 DEF ResendVotes, VoteInv, CandidateVotes, VotesRecorded
<1>3. \A p \in due : LET x == CreateVote(n, p, CurrentTerm[n])
                     IN  /\ x.Src = n /\ x.Dst # n /\ x.Term = CurrentTerm[n]
                         /\ ~IsGrant(x)
  BY DEF CreateVote, Peers, IsGrant
<1>4. VoteStep
  BY <1>1, <1>2, <1>3 DEF ResendVotes, VoteStep, SendAll, stateVars
<1>5. RoleStep
  BY DEF ResendVotes, RoleStep, stateVars, peerVars
<1>6. QED
  BY <1>4, <1>5

LEMMA VotesStartElection ==
  ASSUME TypeOK, VoteInv, NEW n \in Server, StartElection(n)
  PROVE  VoteStep /\ RoleStep
<1>1. \A s \in Server : CurrentTerm[s] \in Nat
  BY DEF TypeOK
<1>2. /\ CurrentTerm'[n] = CurrentTerm[n] + 1
      /\ VotedFor'[n] = n
      /\ StateName'[n] = "CANDIDATE"
      /\ Votes'[n] = {}
      /\ \A s \in Server \ {n} :
            UNCHANGED <<CurrentTerm[s], VotedFor[s], StateName[s], Votes[s]>>
      /\ msgs' = msgs \cup {CreateVote(n, p, CurrentTerm[n] + 1) : p \in Peers(n)}
  BY DEF StartElection, SendAll, TypeOK
<1>3. \A p \in Peers(n) : LET x == CreateVote(n, p, CurrentTerm[n] + 1)
                          IN  /\ x.Src = n /\ x.Dst # n /\ x.Term = CurrentTerm[n] + 1
                              /\ ~IsGrant(x) /\ IsRequest(x)
  BY DEF CreateVote, Peers, IsGrant, IsRequest
<1>4. VoteStep
  <2>1. \A s \in Server : CurrentTerm[s] <= CurrentTerm'[s]
    BY <1>1, <1>2
  <2>2. CurrentTerm'[n] # CurrentTerm[n]
    BY <1>1, <1>2
  <2>3. QED
    BY <1>2, <1>3, <2>1, <2>2 DEF VoteStep
<1>5. Peers(n) # {}
  <2>1. Nservers # 1
    BY VoteQuorums DEF StartElection
  <2>2. Server # {n}
    BY <2>1, FS_Singleton DEF Nservers
  <2>3. QED
    BY <2>2 DEF Peers
<1>6. Voted(n, CurrentTerm[n], n)'
  BY <1>2, <1>3, <1>5 DEF Voted
<1>7. RoleStep
  BY <1>2, <1>6 DEF RoleStep, StartElection
<1>8. QED
  BY <1>4, <1>7

LEMMA VotesBecomeLeader ==
  ASSUME TypeOK, VoteInv, NEW n \in Server, BecomeLeader(n)
  PROVE  VoteStep /\ RoleStep
<1>1. \A s \in Server : CurrentTerm[s] \in Nat
  BY DEF TypeOK
<1>2. /\ UNCHANGED <<CurrentTerm, VotedFor>>
      /\ StateName'[n] = "LEADER"
      /\ \A s \in Server \ {n} : UNCHANGED <<StateName[s], Votes[s]>>
      /\ msgs' = msgs \cup
            {CreateAppendEntries(n, p, Len(Log[n]) + 1, 0, 0) : p \in Peers(n)}
  BY DEF BecomeLeader, SendAll, TypeOK, stateVars
<1>3. \A p \in Peers(n) : LET x == CreateAppendEntries(n, p, Len(Log[n]) + 1, 0, 0)
                          IN  x.Src # x.Dst /\ ~IsGrant(x) /\ ~IsRequest(x)
  BY DEF CreateAppendEntries, Peers, IsGrant, IsRequest
<1>4. VoteStep
  BY <1>1, <1>2, <1>3 DEF VoteStep
<1>5. Elected(n, CurrentTerm[n])
  BY EnoughVotesElect DEF BecomeLeader, VoteInv
<1>6. Elected(n, CurrentTerm[n])'
  <2>1. PICK t : t = CurrentTerm[n]
    OBVIOUS
  <2>2. Elected(n, t)'
    BY <1>2, <1>5, <2>1, ElectedStable
  <2>3. QED
    BY <1>2, <2>1, <2>2 DEF Elected, Voted
<1>7. RoleStep
  BY <1>2, <1>6 DEF RoleStep
<1>8. QED
  BY <1>4, <1>7

LEMMA VotesSoloElection ==
  ASSUME TypeOK, VoteInv, NEW n \in Server, SoloElection(n)
  PROVE  VoteStep /\ RoleStep
<1>1. \A s \in Server : CurrentTerm[s] \in Nat
  BY DEF TypeOK
<1>2. /\ CurrentTerm'[n] = CurrentTerm[n] + 1
      /\ StateName'[n] = "LEADER"
      /\ \A s \in Server \ {n} :
            UNCHANGED <<CurrentTerm[s], VotedFor[s], StateName[s], Votes[s]>>
      /\ msgs' = msgs
      /\ MinVotes = 1
  BY DEF SoloElection, TypeOK, peerVars
<1>3. VoteStep
  <2>1. \A s \in Server : CurrentTerm[s] <= CurrentTerm'[s]
    BY <1>1, <1>2
  <2>2. CurrentTerm'[n] # CurrentTerm[n]
    BY <1>1, <1>2
  <2>3. QED
    BY <1>2, <2>1, <2>2 DEF VoteStep
<1>4. RoleStep
  BY <1>2 DEF RoleStep
<1>5. QED
  BY <1>3, <1>4

LEMMA VotesNext ==
  ASSUME TypeOK, VoteInv, Next
  PROVE  VoteStep /\ RoleStep
<1>1. ASSUME NEW n \in Server, NEW m \in msgs, Process(n, m) PROVE VoteStep /\ RoleStep
  BY <1>1, VotesRequestVoteRequest, VotesRequestVoteResponse, QuietAppendEntriesRequest,
     QuietAppendEntriesResponse, QuietVotes DEF Process
<1>2. ASSUME NEW n \in Server, NEW c \in Command, OnCommandRequest(n, c)
      PROVE  VoteStep /\ RoleStep
  BY <1>2, QuietCommandRequest, QuietVotes
<1>3. ASSUME NEW n \in Server, ProcessTimeout(n) PROVE VoteStep /\ RoleStep
  BY <1>3, VotesStartElection, VotesResend, VotesBecomeLeader, QuietLeaderTimeout,
     QuietVotes, VotesSoloElection DEF ProcessTimeout
<1>4. QED
  BY <1>1, <1>2, <1>3 DEF Next

LEMMA VoteInvCorrect == Spec => []VoteInv
<1>1. Init => VoteInv
  BY DEF Init, VoteInv, NotToSelf, VotesRecorded, VotedOnce, CandidateVotes,
         LeaderElected, IsLeader, Voted
<1>2. TypeOK /\ TypeOK' /\ VoteInv /\ [Next]_vars => VoteInv'
  <2> SUFFICES ASSUME TypeOK, TypeOK', VoteInv, [Next]_vars PROVE VoteInv'
    OBVIOUS
  <2>1. CASE Next
    BY <2>1, VotesNext, VoteStepKeepsVotes, RoleStepKeepsRoles DEF VoteInv
  <2>2. CASE UNCHANGED vars
    BY <2>2 DEF VoteInv, NotToSelf, VotesRecorded, VotedOnce, CandidateVotes,
                LeaderElected, IsLeader, Elected, Voted, vars, stateVars, peerVars
  <2>3. QED
    BY <2>1, <2>2
<1>3. QED
  BY <1>1, <1>2, TypeCorrect, PTL DEF Spec

\* Two leaders of one term are the same server, in a cluster of any size, odd or
\* even, whatever becomes of the messages.
THEOREM ElectionSafe == Spec => []ElectionSafety
<1>1. TypeOK /\ VoteInv => ElectionSafety
  <2> SUFFICES ASSUME TypeOK, VoteInv, NEW a \in Server, NEW b \in Server,
                      IsLeader(a), IsLeader(b), CurrentTerm[a] = CurrentTerm[b]
               PROVE  a = b
    BY DEF ElectionSafety
  <2>1. CASE MinVotes > 1
    BY <2>1, OneElected DEF VoteInv, LeaderElected, TypeOK
  <2>2. CASE MinVotes = 1
    <3>1. Cardinality(Server) = 1
      BY <2>2, VoteQuorums DEF Nservers
    <3>2. QED
      BY <3>1, ServerAssumption, FS_Singleton
  <2>3. QED
    BY <2>1, <2>2, VoteQuorums
<1>2. QED
  BY <1>1, TypeCorrect, VoteInvCorrect, PTL

-----------------------------------------------------------------------------
(***************************************************************************)
(* Proofs of OneLogPerTerm and LogMatching.  The log of a term is that of  *)
(* the one server elected in it, and only gets longer.  Every entry of a   *)
(* log, and all that precedes it, is what the leader of its term had at    *)
(* these indices; two logs with an entry of one term at one index are      *)
(* therefore equal to one leader's log up to there.                        *)
(***************************************************************************)

-----------------------------------------------------------------------------
(* Whose log it is                                                          *)

\* The log of a term is that of a server that has been elected in it and will not
\* stand for it again; while it leads, LeaderLog follows its log.
LeaderLogInv ==
    /\ \A t \in DOMAIN LeaderLog : \E n \in Server :
          /\ t <= CurrentTerm[n]
          /\ t = CurrentTerm[n] => StateName[n] # "CANDIDATE"
          /\ MinVotes > 1 => Elected(n, t)
    /\ \A n \in Server : IsLeader(n) =>
          CurrentTerm[n] \in DOMAIN LeaderLog /\ LeaderLog[CurrentTerm[n]] = Log[n]

\* Steps that write no leader's log.
KeepsLeaders ==
    /\ LeaderLog' = LeaderLog
    /\ \A s \in Server : StateName'[s] = "CANDIDATE" =>
          \/ UNCHANGED <<StateName[s], CurrentTerm[s]>>
          \/ CurrentTerm'[s] > CurrentTerm[s]
    /\ \A s \in Server : StateName'[s] = "LEADER" =>
          UNCHANGED <<StateName[s], CurrentTerm[s], Log[s]>>

\* Steps of a leader that write its log, the first of its term or a longer one.
LeaderWrites(n) ==
    /\ LeaderLog' = WithLeaderLog(CurrentTerm'[n], Log'[n])
    /\ StateName'[n] = "LEADER"
    /\ MinVotes > 1 => Elected(n, CurrentTerm[n])'
    /\ \A s \in Server \ {n} : UNCHANGED <<StateName[s], CurrentTerm[s], Log[s]>>
    /\ \/ CurrentTerm'[n] \notin DOMAIN LeaderLog
       \/ /\ UNCHANGED <<StateName[n], CurrentTerm[n]>>
          /\ SameUpTo(Log[n], Log'[n], Len(Log[n]))

LEMMA LeadersRequestVoteRequest ==
  ASSUME TypeOK, NEW n \in Server, NEW m \in msgs, OnRequestVoteRequest(n, m)
  PROVE  KeepsLeaders
<1>1. m.Term \in Nat /\ \A s \in Server : CurrentTerm[s] \in Nat
  BY MessageTypes DEF TypeOK
<1>2. /\ CurrentTerm'[n] = TermOn(n, m)
      /\ StateName'[n] = StateNameOn(n, m)
      /\ \A s \in Server \ {n} : UNCHANGED <<CurrentTerm[s], StateName[s]>>
      /\ UNCHANGED <<Log, LeaderLog>>
  BY DEF OnRequestVoteRequest, TypeOK
<1>3. QED
  BY <1>1, <1>2 DEF KeepsLeaders, TermOn, StateNameOn, MaxOf

LEMMA LeadersRequestVoteResponse ==
  ASSUME TypeOK, NEW n \in Server, NEW m \in msgs, OnRequestVoteResponse(n, m)
  PROVE  KeepsLeaders
<1>1. m.Term \in Nat /\ \A s \in Server : CurrentTerm[s] \in Nat
  BY MessageTypes DEF TypeOK
<1>2. /\ CurrentTerm'[n] = TermOn(n, m)
      /\ StateName'[n] = StateNameOn(n, m)
      /\ \A s \in Server \ {n} : UNCHANGED <<CurrentTerm[s], StateName[s]>>
      /\ UNCHANGED <<Log, LeaderLog>>
  BY DEF OnRequestVoteResponse, TypeOK
<1>3. QED
  BY <1>1, <1>2 DEF KeepsLeaders, TermOn, StateNameOn, MaxOf

LEMMA LeadersAppendEntriesRequest ==
  ASSUME TypeOK, NEW n \in Server, NEW m \in msgs, OnAppendEntriesRequest(n, m)
  PROVE  KeepsLeaders
<1>1. CASE RefuseStaleAppend(n, m)
  BY <1>1 DEF RefuseStaleAppend, KeepsLeaders, stateVars
<1>2. CASE TakeAppend(n, m)
  <2>1. StateName'[n] = "FOLLOWER"
    BY <1>2 DEF TakeAppend, TypeOK
  <2>2. \A s \in Server \ {n} : UNCHANGED <<CurrentTerm[s], StateName[s], Log[s]>>
    BY <1>2 DEF TakeAppend, TypeOK
  <2>3. LeaderLog' = LeaderLog
    BY <1>2 DEF TakeAppend
  <2>4. QED
    BY <2>1, <2>2, <2>3 DEF KeepsLeaders
<1>3. QED
  BY <1>1, <1>2 DEF OnAppendEntriesRequest

LEMMA LeadersAppendEntriesResponse ==
  ASSUME TypeOK, NEW n \in Server, NEW m \in msgs, OnAppendEntriesResponse(n, m)
  PROVE  KeepsLeaders
<1>1. m.Term \in Nat /\ \A s \in Server : CurrentTerm[s] \in Nat
  BY MessageTypes DEF TypeOK
<1>2. /\ CurrentTerm'[n] = TermOn(n, m)
      /\ StateName'[n] = StateNameOn(n, m)
      /\ \A s \in Server \ {n} : UNCHANGED <<CurrentTerm[s], StateName[s]>>
      /\ UNCHANGED <<Log, LeaderLog>>
  BY DEF OnAppendEntriesResponse, TypeOK
<1>3. QED
  BY <1>1, <1>2 DEF KeepsLeaders, TermOn, StateNameOn, MaxOf

LEMMA LeadersStartElection ==
  ASSUME TypeOK, NEW n \in Server, StartElection(n)
  PROVE  KeepsLeaders
<1>1. CurrentTerm[n] \in Nat /\ CurrentTerm'[n] = CurrentTerm[n] + 1
  BY DEF StartElection, TypeOK
<1>2. /\ StateName'[n] = "CANDIDATE"
      /\ \A s \in Server \ {n} : UNCHANGED <<CurrentTerm[s], StateName[s]>>
      /\ UNCHANGED <<Log, LeaderLog>>
  BY DEF StartElection, TypeOK
<1>3. QED
  BY <1>1, <1>2 DEF KeepsLeaders

LEMMA LeadersQuietTick ==
  ASSUME NEW n \in Server, NEW due, ResendVotes(n, due) \/ LeaderTimeout(n, due)
  PROVE  KeepsLeaders
  BY DEF ResendVotes, LeaderTimeout, KeepsLeaders, stateVars

LEMMA LeadersCommandRequest ==
  ASSUME TypeOK, TypeOK', VoteInv', NEW n \in Server, NEW c \in Command,
         OnCommandRequest(n, c)
  PROVE  LeaderWrites(n)
<1>1. /\ UNCHANGED <<StateName, CurrentTerm>>
      /\ StateName[n] = "LEADER"
      /\ LeaderLog' = WithLeaderLog(CurrentTerm'[n], Log'[n])
      /\ \A s \in Server \ {n} : UNCHANGED Log[s]
  BY DEF OnCommandRequest, TypeOK
<1>2. SameUpTo(Log[n], Log'[n], Len(Log[n]))
  <2>1. Log[n] \in Seq(Entry)
    BY DEF TypeOK
  <2>2. Log'[n] = Log[n] \/ \E e : Log'[n] = Append(Log[n], e)
    BY DEF OnCommandRequest, TypeOK
  <2>3. QED
    BY <2>1, <2>2 DEF SameUpTo
<1>3. MinVotes > 1 => Elected(n, CurrentTerm[n])'
  BY <1>1 DEF VoteInv, LeaderElected, IsLeader
<1>4. QED
  BY <1>1, <1>2, <1>3 DEF LeaderWrites

LEMMA LeadersBecomeLeader ==
  ASSUME TypeOK, VoteInv, VoteInv', LeaderLogInv, NEW n \in Server, BecomeLeader(n)
  PROVE  LeaderWrites(n)
<1>1. /\ UNCHANGED <<CurrentTerm, Log>>
      /\ StateName[n] = "CANDIDATE"
      /\ StateName'[n] = "LEADER"
      /\ LeaderLog' = WithLeaderLog(CurrentTerm'[n], Log'[n])
      /\ \A s \in Server \ {n} : UNCHANGED StateName[s]
      /\ MinVotes > 1
  BY DEF BecomeLeader, TypeOK, stateVars
<1>2. Elected(n, CurrentTerm[n]) /\ CurrentTerm[n] \in Nat
  BY EnoughVotesElect DEF BecomeLeader, VoteInv, TypeOK
<1>3. CurrentTerm[n] \notin DOMAIN LeaderLog
  <2>1. SUFFICES ASSUME CurrentTerm[n] \in DOMAIN LeaderLog PROVE FALSE
    OBVIOUS
  <2>2. PICK m \in Server : /\ CurrentTerm[n] = CurrentTerm[m] => StateName[m] # "CANDIDATE"
                            /\ Elected(m, CurrentTerm[n])
    BY <1>1, <2>1 DEF LeaderLogInv
  <2>3. m = n
    BY <1>2, <2>2, OneElected DEF VoteInv
  <2>4. QED
    BY <1>1, <2>2, <2>3
<1>4. Elected(n, CurrentTerm[n])'
  BY <1>1 DEF VoteInv, LeaderElected, IsLeader
<1>5. QED
  BY <1>1, <1>3, <1>4 DEF LeaderWrites

LEMMA LeadersSoloElection ==
  ASSUME TypeOK, LeaderLogInv, NEW n \in Server, SoloElection(n)
  PROVE  LeaderWrites(n)
<1>1. /\ CurrentTerm'[n] = CurrentTerm[n] + 1
      /\ StateName'[n] = "LEADER"
      /\ LeaderLog' = WithLeaderLog(CurrentTerm'[n], Log'[n])
      /\ \A s \in Server \ {n} : UNCHANGED <<StateName[s], CurrentTerm[s], Log[s]>>
      /\ MinVotes = 1
  BY DEF SoloElection, TypeOK
<1>2. \A m \in Server : m = n
  <2>1. Cardinality(Server) = 1
    BY <1>1, VoteQuorums DEF Nservers
  <2>2. QED
    BY <2>1, ServerAssumption, FS_Singleton
<1>3. CurrentTerm[n] + 1 \notin DOMAIN LeaderLog
  <2>1. SUFFICES ASSUME CurrentTerm[n] + 1 \in DOMAIN LeaderLog PROVE FALSE
    OBVIOUS
  <2>2. CurrentTerm[n] + 1 <= CurrentTerm[n]
    BY <1>2, <2>1 DEF LeaderLogInv
  <2>3. QED
    BY <2>2 DEF TypeOK
<1>4. QED
  BY <1>1, <1>3 DEF LeaderWrites

LEMMA LeadersNext ==
  ASSUME TypeOK, TypeOK', VoteInv, VoteInv', LeaderLogInv, Next
  PROVE  KeepsLeaders \/ \E n \in Server : LeaderWrites(n)
<1>1. ASSUME NEW n \in Server, NEW m \in msgs, Process(n, m) PROVE KeepsLeaders
  BY <1>1, LeadersRequestVoteRequest, LeadersRequestVoteResponse,
     LeadersAppendEntriesRequest, LeadersAppendEntriesResponse DEF Process
<1>2. ASSUME NEW n \in Server, NEW c \in Command, OnCommandRequest(n, c)
      PROVE  LeaderWrites(n)
  BY <1>2, LeadersCommandRequest
<1>3. ASSUME NEW n \in Server, ProcessTimeout(n) PROVE KeepsLeaders \/ LeaderWrites(n)
  BY <1>3, LeadersStartElection, LeadersQuietTick, LeadersBecomeLeader,
     LeadersSoloElection DEF ProcessTimeout
<1>4. QED
  BY <1>1, <1>2, <1>3 DEF Next

LEMMA LeaderLogInvKept ==
  ASSUME TypeOK, TypeOK', VoteStep, VoteInv', ElectionSafety', LeaderLogInv,
         KeepsLeaders \/ \E n \in Server : LeaderWrites(n)
  PROVE  LeaderLogInv'
<1>1. /\ msgs \subseteq msgs'
      /\ \A s \in Server : /\ CurrentTerm[s] \in Nat /\ CurrentTerm'[s] \in Nat
                           /\ CurrentTerm[s] <= CurrentTerm'[s]
      /\ DOMAIN LeaderLog \subseteq Nat
  BY DEF VoteStep, TypeOK
\* Terms that had a leader keep the server that was elected in them.
<1>2. ASSUME \A s \in Server : StateName'[s] = "CANDIDATE" =>
                \/ UNCHANGED <<StateName[s], CurrentTerm[s]>>
                \/ CurrentTerm'[s] > CurrentTerm[s],
             NEW t \in DOMAIN LeaderLog
      PROVE  \E s \in Server : /\ t <= CurrentTerm'[s]
                               /\ t = CurrentTerm'[s] => StateName'[s] # "CANDIDATE"
                               /\ MinVotes > 1 => Elected(s, t)'
  <2>1. PICK s \in Server : /\ t <= CurrentTerm[s]
                            /\ t = CurrentTerm[s] => StateName[s] # "CANDIDATE"
                            /\ MinVotes > 1 => Elected(s, t)
    BY DEF LeaderLogInv
  <2>2. MinVotes > 1 => Elected(s, t)'
    BY <1>1, <2>1, ElectedStable
  <2>3. t \in Nat
    BY <1>1
  <2>4. QED
    BY <1>1, <1>2, <2>1, <2>2, <2>3
<1>3. CASE KeepsLeaders
  <2>1. \A s \in Server : StateName'[s] = "LEADER" =>
           CurrentTerm'[s] \in DOMAIN LeaderLog /\ LeaderLog[CurrentTerm'[s]] = Log'[s]
    BY <1>3 DEF KeepsLeaders, LeaderLogInv, IsLeader
  <2>2. QED
    BY <1>2, <1>3, <2>1 DEF KeepsLeaders, LeaderLogInv, IsLeader
<1>4. ASSUME NEW n \in Server, LeaderWrites(n) PROVE LeaderLogInv'
  <2> DEFINE T == CurrentTerm'[n]
  <2>1. /\ DOMAIN LeaderLog' = DOMAIN LeaderLog \cup {T}
        /\ LeaderLog'[T] = Log'[n]
        /\ \A t \in DOMAIN LeaderLog : t # T => LeaderLog'[t] = LeaderLog[t]
    BY <1>4 DEF LeaderWrites, WithLeaderLog
  <2>2. StateName'[n] = "LEADER" /\ MinVotes > 1 => Elected(n, CurrentTerm[n])'
    BY <1>4 DEF LeaderWrites
  <2>3. ASSUME NEW t \in DOMAIN LeaderLog'
        PROVE  \E s \in Server : /\ t <= CurrentTerm'[s]
                                 /\ t = CurrentTerm'[s] => StateName'[s] # "CANDIDATE"
                                 /\ MinVotes > 1 => Elected(s, t)'
    <3>1. CASE t = T
      <4>1. MinVotes > 1 => Elected(n, t)'
        BY <1>4, <3>1 DEF LeaderWrites, Elected, Voted
      <4>2. QED
        BY <1>1, <1>4, <3>1, <4>1 DEF LeaderWrites
    <3>2. CASE t \in DOMAIN LeaderLog
      BY <1>2, <1>4, <3>2 DEF LeaderWrites
    <3>3. QED
      BY <2>1, <3>1, <3>2
  <2>4. ASSUME NEW s \in Server, StateName'[s] = "LEADER"
        PROVE  CurrentTerm'[s] \in DOMAIN LeaderLog' /\ LeaderLog'[CurrentTerm'[s]] = Log'[s]
    <3>1. CASE s = n
      BY <2>1, <3>1
    <3>2. CASE s # n
      <4>1. /\ CurrentTerm'[s] = CurrentTerm[s] /\ Log'[s] = Log[s]
            /\ StateName[s] = "LEADER"
        BY <1>4, <2>4, <3>2 DEF LeaderWrites
      <4>2. CurrentTerm'[s] # T
        BY <1>4, <2>4, <3>2 DEF LeaderWrites, ElectionSafety, IsLeader
      <4>3. QED
        BY <2>1, <4>1, <4>2 DEF LeaderLogInv, IsLeader
    <3>3. QED
      BY <3>1, <3>2
  <2>5. QED
    BY <2>3, <2>4 DEF LeaderLogInv, IsLeader
<1>5. QED
  BY <1>3, <1>4

LEMMA LeaderLogCorrect == Spec => []LeaderLogInv
<1>1. Init => LeaderLogInv
  BY DEF Init, LeaderLogInv, IsLeader
<1>2. TypeOK /\ TypeOK' /\ VoteInv /\ VoteInv' /\ ElectionSafety' /\ LeaderLogInv /\ [Next]_vars
         => LeaderLogInv'
  <2> SUFFICES ASSUME TypeOK, TypeOK', VoteInv, VoteInv', ElectionSafety', LeaderLogInv,
                      [Next]_vars
               PROVE  LeaderLogInv'
    OBVIOUS
  <2>1. CASE Next
    BY <2>1, LeadersNext, VotesNext, LeaderLogInvKept
  <2>2. CASE UNCHANGED vars
    BY <2>2 DEF LeaderLogInv, IsLeader, Elected, Voted, vars, stateVars
  <2>3. QED
    BY <2>1, <2>2
<1>3. QED
  BY <1>1, <1>2, TypeCorrect, VoteInvCorrect, ElectionSafe, PTL DEF Spec

\* What a step does to the log of a term: nothing, or it gets longer.
LEMMA LeaderLogGrows ==
  ASSUME TypeOK, LeaderLogInv, NEW t \in DOMAIN LeaderLog,
         KeepsLeaders \/ \E n \in Server : LeaderWrites(n)
  PROVE  /\ t \in DOMAIN LeaderLog'
         /\ SameUpTo(LeaderLog[t], LeaderLog'[t], Len(LeaderLog[t]))
<1>1. LeaderLog[t] \in Seq(Entry)
  BY DEF TypeOK
<1>2. CASE LeaderLog'[t] = LeaderLog[t] /\ t \in DOMAIN LeaderLog'
  BY <1>1, <1>2 DEF SameUpTo
<1>3. ASSUME NEW n \in Server, LeaderWrites(n), t = CurrentTerm'[n]
      PROVE  /\ t \in DOMAIN LeaderLog'
             /\ SameUpTo(LeaderLog[t], LeaderLog'[t], Len(LeaderLog[t]))
  <2>1. LeaderLog'[t] = Log'[n] /\ t \in DOMAIN LeaderLog'
    BY <1>3 DEF LeaderWrites, WithLeaderLog
  <2>2. /\ UNCHANGED <<StateName[n], CurrentTerm[n]>>
        /\ StateName'[n] = "LEADER"
        /\ SameUpTo(Log[n], Log'[n], Len(Log[n]))
    BY <1>3 DEF LeaderWrites
  <2>3. LeaderLog[t] = Log[n]
    BY <1>3, <2>2 DEF LeaderLogInv, IsLeader
  <2>4. QED
    BY <2>1, <2>2, <2>3
<1>4. QED
  BY <1>2, <1>3 DEF KeepsLeaders, LeaderWrites, WithLeaderLog

\* The log of a term's leader only grows and is the log of one server, in a cluster
\* of any size: nobody who leads the term again or beside it can replace it.
THEOREM LogsOfTermsGrow == Spec => OneLogPerTerm
<1>1. TypeOK /\ TypeOK' /\ VoteInv /\ VoteInv' /\ LeaderLogInv /\ [Next]_vars
         => [\A t \in DOMAIN LeaderLog :
               SameUpTo(LeaderLog[t], LeaderLog'[t], Len(LeaderLog[t]))]_vars
  BY LeadersNext, LeaderLogGrows
<1>2. QED
  BY <1>1, TypeCorrect, VoteInvCorrect, LeaderLogCorrect, PTL DEF Spec, OneLogPerTerm

-----------------------------------------------------------------------------
(* What logs and requests consist of                                        *)

\* A log put together of the logs ll of leaders.
FromLeaders(log, ll) ==
    \A i \in 1..Len(log) :
        /\ log[i].Term \in DOMAIN ll
        /\ SameUpTo(log, ll[log[i].Term], i)

\* What an AppendEntries request says is true of the log.
Describes(m, log) ==
    /\ \/ m.PrevLogIndex = 0
       \/ m.PrevLogTerm = 0
       \/ /\ m.PrevLogIndex <= Len(log)
          /\ log[m.PrevLogIndex].Term = m.PrevLogTerm
    /\ \A i \in 1..Len(m.Entries) :
          /\ m.PrevLogIndex + i <= Len(log)
          /\ log[m.PrevLogIndex + i] = m.Entries[i]

IsAppend(m) == m.Type = "AppendEntriesRequest"

AppendsFromLeaders ==
    \A m \in msgs : IsAppend(m) =>
        m.Term \in DOMAIN LeaderLog /\ Describes(m, LeaderLog[m.Term])

LogInv ==
    /\ \A n \in Server : FromLeaders(Log[n], LeaderLog)
    /\ \A t \in DOMAIN LeaderLog : FromLeaders(LeaderLog[t], LeaderLog)
    /\ AppendsFromLeaders

\* The logs of terms only grow (LogsOfTermsGrow).
Grows(ll, grown) ==
    \A t \in DOMAIN ll :
        /\ t \in DOMAIN grown
        /\ SameUpTo(ll[t], grown[t], Len(ll[t]))

-----------------------------------------------------------------------------
(* Logs put together of leaders' logs                                       *)

LEMMA SameBoth ==
  ASSUME NEW a, NEW b, NEW c, NEW k, SameUpTo(a, c, k), SameUpTo(b, c, k)
  PROVE  SameUpTo(a, b, k)
  BY DEF SameUpTo

LEMMA SameLess ==
  ASSUME NEW a, NEW b, NEW k \in Nat, NEW j \in 0..k, SameUpTo(a, b, k),
         Len(a) \in Nat, Len(b) \in Nat
  PROVE  SameUpTo(a, b, j)
  BY DEF SameUpTo

LEMMA MatchAt ==
  ASSUME NEW a, NEW b, NEW ll, FromLeaders(a, ll), FromLeaders(b, ll),
         NEW k \in 1..Len(a), k \in 1..Len(b), a[k].Term = b[k].Term
  PROVE  SameUpTo(a, b, k)
<1>1. SameUpTo(a, ll[a[k].Term], k) /\ SameUpTo(b, ll[a[k].Term], k)
  BY DEF FromLeaders
<1>2. QED
  BY <1>1, SameBoth

LEMMA FromLeadersStable ==
  ASSUME NEW log \in Seq(Entry), NEW ll, NEW grown, FromLeaders(log, ll), Grows(ll, grown),
         \A t \in DOMAIN ll : Len(ll[t]) \in Nat
  PROVE  FromLeaders(log, grown)
<1>1. ASSUME NEW i \in 1..Len(log)
      PROVE  /\ log[i].Term \in DOMAIN grown
             /\ SameUpTo(log, grown[log[i].Term], i)
  <2> DEFINE t == log[i].Term
  <2>1. t \in DOMAIN ll /\ SameUpTo(log, ll[t], i)
    BY DEF FromLeaders
  <2>2. t \in DOMAIN grown /\ SameUpTo(ll[t], grown[t], Len(ll[t]))
    BY <2>1 DEF Grows
  <2>3. i <= Len(ll[t]) /\ Len(ll[t]) <= Len(grown[t])
    BY <2>1, <2>2 DEF SameUpTo
  <2>4. QED
    BY <2>1, <2>2, <2>3 DEF SameUpTo
<1>2. QED
  BY <1>1 DEF FromLeaders

\* AppendedShape for the entries of logs, with the start of the first conflict.
LEMMA EntriesShape ==
  ASSUME NEW log \in Seq(Entry), NEW prev \in 0..Len(log), NEW entries \in Seq(Entry)
  PROVE  \/ Appended(log, prev, entries) = log
         \/ \E c \in 1..Len(entries) :
               /\ prev + c - 1 <= Len(log)
               /\ \A i \in 1..c - 1 : log[prev + i].Term = entries[i].Term
               /\ Len(Appended(log, prev, entries)) = prev + Len(entries)
               /\ \A i \in 1..prev + c - 1 : Appended(log, prev, entries)[i] = log[i]
               /\ \A i \in c..Len(entries) :
                     Appended(log, prev, entries)[prev + i] = entries[i]
<1>1. \A e \in Entry : e.Term \in Nat \ {0}
  BY DEF Entry
<1>2. IsAppended(Entry, log, prev, entries, Appended(log, prev, entries))
  BY <1>1, AppendedShape
<1>3. QED
  BY <1>2 DEF IsAppended

\* The heart of the matter: a log that takes a leader's entries behind an index at
\* which it agrees with the leader is put together of leaders' logs again.
LEMMA AppendedFromLeaders ==
  ASSUME NEW ll, NEW log \in Seq(Entry), FromLeaders(log, ll),
         NEW led \in Seq(Entry), FromLeaders(led, ll),
         NEW prev \in 0..Len(log), NEW entries \in Seq(Entry),
         prev = 0 \/ (prev <= Len(led) /\ led[prev].Term = log[prev].Term),
         \A i \in 1..Len(entries) : prev + i <= Len(led) /\ led[prev + i] = entries[i]
  PROVE  FromLeaders(Appended(log, prev, entries), ll)
<1> DEFINE new == Appended(log, prev, entries)
<1>1. Len(log) \in Nat /\ Len(led) \in Nat /\ Len(entries) \in Nat
  OBVIOUS
<1>2. SameUpTo(log, led, prev)
  <2>1. CASE prev = 0
    BY <1>1, <2>1 DEF SameUpTo
  <2>2. CASE prev # 0
    BY <1>1, <2>2, MatchAt
  <2>3. QED
    BY <2>1, <2>2
<1>3. ASSUME NEW i \in 1..Len(entries), prev + i <= Len(log),
             log[prev + i].Term = entries[i].Term
      PROVE  SameUpTo(log, led, prev + i)
  <2>1. prev + i \in 1..Len(log) /\ prev + i \in 1..Len(led)
    BY <1>1, <1>3
  <2>2. log[prev + i].Term = led[prev + i].Term
    BY <1>3
  <2>3. QED
    BY <2>1, <2>2, MatchAt
<1>4. ASSUME NEW c \in 1..Len(entries),
             prev + c - 1 <= Len(log),
             \A i \in 1..c - 1 : log[prev + i].Term = entries[i].Term,
             Len(new) = prev + Len(entries),
             \A i \in 1..prev + c - 1 : new[i] = log[i],
             \A i \in c..Len(entries) : new[prev + i] = entries[i]
      PROVE  FromLeaders(new, ll)
  <2>1. SameUpTo(log, led, prev + c - 1)
    <3>1. CASE c = 1
      BY <1>2, <3>1
    <3>2. CASE c # 1
      <4>1. c - 1 \in 1..Len(entries) /\ prev + (c - 1) <= Len(log)
        BY <1>1, <1>4, <3>2
      <4>2. log[prev + (c - 1)].Term = entries[c - 1].Term
        BY <1>4, <4>1
      <4>3. SameUpTo(log, led, prev + (c - 1))
        BY <1>3, <4>1, <4>2
      <4>4. prev + (c - 1) = prev + c - 1
        BY <1>1
      <4>5. QED
        BY <4>3, <4>4
    <3>3. QED
      BY <3>1, <3>2
  <2>2. ASSUME NEW i \in 1..Len(new) PROVE i <= Len(led) /\ new[i] = led[i]
    <3>1. CASE i <= prev + c - 1
      BY <1>1, <1>4, <2>1, <3>1 DEF SameUpTo
    <3>2. CASE i > prev + c - 1
      <4>1. i - prev \in c..Len(entries) /\ prev + (i - prev) = i
        BY <1>1, <1>4, <3>2
      <4>2. new[prev + (i - prev)] = entries[i - prev]
        BY <1>4, <4>1
      <4>3. /\ prev + (i - prev) <= Len(led)
            /\ led[prev + (i - prev)] = entries[i - prev]
        BY <4>1
      <4>4. QED
        BY <4>1, <4>2, <4>3
    <3>3. QED
      BY <1>1, <1>4, <3>1, <3>2
  <2>3. ASSUME NEW i \in 1..Len(new)
        PROVE  /\ new[i].Term \in DOMAIN ll
               /\ SameUpTo(new, ll[new[i].Term], i)
    <3>1. i \in 1..Len(led) /\ new[i] = led[i]
      BY <1>1, <1>4, <2>2
    <3>2. /\ led[i].Term \in DOMAIN ll
          /\ SameUpTo(led, ll[led[i].Term], i)
      BY <3>1 DEF FromLeaders
    <3>3. SameUpTo(new, led, i)
      BY <1>1, <1>4, <2>2 DEF SameUpTo
    <3>4. QED
      BY <3>1, <3>2, <3>3 DEF SameUpTo
  <2>4. QED
    BY <2>3 DEF FromLeaders
<1>5. CASE \E c \in 1..Len(entries) :
              /\ prev + c - 1 <= Len(log)
              /\ \A i \in 1..c - 1 : log[prev + i].Term = entries[i].Term
              /\ Len(new) = prev + Len(entries)
              /\ \A i \in 1..prev + c - 1 : new[i] = log[i]
              /\ \A i \in c..Len(entries) : new[prev + i] = entries[i]
  <2> HIDE DEF new
  <2>1. FromLeaders(new, ll)
    BY <1>4, <1>5
  <2>2. QED
    BY <2>1 DEF new
<1>6. QED
  BY <1>5, EntriesShape

LEMMA LongerFromLeaders ==
  ASSUME NEW ll, NEW log \in Seq(Entry), FromLeaders(log, ll), NEW e \in Entry,
         e.Term \in DOMAIN ll, ll[e.Term] = Append(log, e)
  PROVE  FromLeaders(Append(log, e), ll)
<1> DEFINE new == Append(log, e)
<1>1. /\ Len(log) \in Nat /\ Len(new) = Len(log) + 1
      /\ \A i \in 1..Len(log) : new[i] = log[i]
      /\ new[Len(new)] = e
  OBVIOUS
<1> HIDE DEF new
<1>2. ASSUME NEW i \in 1..Len(new)
      PROVE  new[i].Term \in DOMAIN ll /\ SameUpTo(new, ll[new[i].Term], i)
  <2>1. CASE i = Len(new)
    BY <1>1, <2>1 DEF SameUpTo, new
  <2>2. CASE i \in 1..Len(log)
    BY <1>1, <2>2 DEF FromLeaders, SameUpTo
  <2>3. QED
    BY <1>1, <2>1, <2>2
<1>3. QED
  BY <1>2 DEF FromLeaders, new

-----------------------------------------------------------------------------
(* Requests that describe the leader's log                                  *)

LEMMA AppendTypes ==
  ASSUME TypeOK, NEW m \in msgs, IsAppend(m)
  PROVE  /\ m.Src \in Server /\ m.Term \in Nat
         /\ m.PrevLogIndex \in Nat /\ m.PrevLogTerm \in Nat
         /\ m.Entries \in Seq(Entry)
<1>1. m \in TAppendEntriesRequest
  BY MessageTypes DEF TypeOK, IsAppend
<1>2. QED
  BY <1>1 DEF TAppendEntriesRequest

\* What is true of a log stays true when the log gets longer.
LEMMA DescribesLonger ==
  ASSUME NEW m, m.PrevLogIndex \in Nat, NEW a, NEW b, Len(a) \in Nat, Len(b) \in Nat,
         SameUpTo(a, b, Len(a)), Describes(m, a), Len(m.Entries) \in Nat
  PROVE  Describes(m, b)
<1>1. ASSUME m.PrevLogIndex # 0, m.PrevLogTerm # 0
      PROVE  m.PrevLogIndex <= Len(b) /\ b[m.PrevLogIndex].Term = m.PrevLogTerm
  <2>1. m.PrevLogIndex <= Len(a) /\ a[m.PrevLogIndex].Term = m.PrevLogTerm
    BY <1>1 DEF Describes
  <2>2. b[m.PrevLogIndex] = a[m.PrevLogIndex] /\ Len(a) <= Len(b)
    BY <1>1, <2>1 DEF SameUpTo
  <2>3. QED
    BY <2>1, <2>2
<1>2. ASSUME NEW i \in 1..Len(m.Entries)
      PROVE  m.PrevLogIndex + i <= Len(b) /\ b[m.PrevLogIndex + i] = m.Entries[i]
  <2>1. m.PrevLogIndex + i <= Len(a) /\ a[m.PrevLogIndex + i] = m.Entries[i]
    BY DEF Describes
  <2>2. QED
    BY <2>1 DEF SameUpTo
<1>3. QED
  BY <1>1, <1>2 DEF Describes

LEMMA CreatedDescribes ==
  ASSUME TypeOK, NEW n \in Server, NEW p \in Server,
         NEW next \in Nat \ {0}, NEW match \in Nat, NEW batch \in Nat
  PROVE  LET m == CreateAppendEntries(n, p, next, match, batch)
         IN  m.Term = CurrentTerm[n] /\ Describes(m, Log[n])
<1> DEFINE prev == next - 1
           last == IF match + 1 < next THEN prev
                   ELSE MinOf(prev + MaxOf(1, batch), Len(Log[n]))
           m == CreateAppendEntries(n, p, next, match, batch)
<1>1. Log[n] \in Seq(Entry) /\ Len(Log[n]) \in Nat
  BY DEF TypeOK
<1>2. prev \in Nat /\ last \in Nat /\ (last <= prev \/ last <= Len(Log[n]))
  BY <1>1 DEF MinOf, MaxOf
<1>3. /\ m.Term = CurrentTerm[n]
      /\ m.PrevLogIndex = prev
      /\ m.PrevLogTerm = LogTerm(Log[n], prev)
      /\ m.Entries = SubSeq(Log[n], prev + 1, last)
  BY DEF CreateAppendEntries
<1> HIDE DEF m, last, prev
<1>4. \/ m.PrevLogIndex = 0
      \/ m.PrevLogTerm = 0
      \/ prev <= Len(Log[n]) /\ Log[n][prev].Term = m.PrevLogTerm
  BY <1>1, <1>2, <1>3 DEF LogTerm
<1>5. ASSUME NEW i \in 1..Len(m.Entries)
      PROVE  prev + i <= Len(Log[n]) /\ Log[n][prev + i] = m.Entries[i]
  <2>1. CASE last <= prev
    <3>1. Len(m.Entries) = 0
      BY <1>1, <1>2, <1>3, <2>1
    <3>2. QED
      BY <3>1
  <2>2. CASE prev < last /\ last <= Len(Log[n])
    <3>1. /\ Len(m.Entries) = last - prev
          /\ m.Entries[i] = Log[n][prev + 1 + i - 1]
      BY <1>1, <1>2, <1>3, <2>2
    <3>2. prev + 1 + i - 1 = prev + i
      BY <1>2, <3>1
    <3>3. QED
      BY <1>2, <2>2, <3>1, <3>2
  <2>3. QED
    BY <1>1, <1>2, <2>1, <2>2
<1>6. QED
  BY <1>3, <1>4, <1>5 DEF Describes, m

-----------------------------------------------------------------------------
(* What a step does to logs and requests                                    *)

\* A log stays, is put together of leaders' logs, or is a leader's that has
\* appended an entry of its term.
LogStep ==
    \A s \in Server :
        \/ Log'[s] = Log[s]
        \/ FromLeaders(Log'[s], LeaderLog)
        \/ /\ StateName'[s] = "LEADER"
           /\ \E e \in Entry : e.Term = CurrentTerm'[s] /\ Log'[s] = Append(Log[s], e)

\* A request that is sent describes the log of a leader of its term.
SendStep ==
    \A m \in msgs' : IsAppend(m) =>
        \/ m \in msgs
        \/ \E s \in Server : /\ StateName'[s] = "LEADER"
                             /\ m.Term = CurrentTerm'[s]
                             /\ Describes(m, Log'[s])

LEMMA LogsVotes ==
  ASSUME NEW n \in Server, NEW m, OnRequestVoteRequest(n, m) \/ OnRequestVoteResponse(n, m)
  PROVE  LogStep /\ SendStep
<1>1. Log' = Log
  BY DEF OnRequestVoteRequest, OnRequestVoteResponse
<1>2. \A x \in msgs' : x \in msgs \/ ~ IsAppend(x)
  BY DEF OnRequestVoteRequest, OnRequestVoteResponse, Send, VoteResponse, IsAppend
<1>3. QED
  BY <1>1, <1>2 DEF LogStep, SendStep

LEMMA LogsAppendEntriesRequest ==
  ASSUME TypeOK, LogInv, NEW n \in Server, NEW m \in msgs, OnAppendEntriesRequest(n, m)
  PROVE  LogStep /\ SendStep
<1>1. \A x \in msgs' : x \in msgs \/ ~ IsAppend(x)
  BY DEF OnAppendEntriesRequest, RefuseStaleAppend, TakeAppend, Send, AppendResponse,
         IsAppend
<1>2. CASE Log' = Log
  BY <1>1, <1>2 DEF LogStep, SendStep
<1>3. CASE /\ PrevMatches(n, m)
           /\ Log' = [Log EXCEPT ![n] = Appended(Log[n], m.PrevLogIndex, m.Entries)]
  <2> DEFINE led == LeaderLog[m.Term]
  <2>1. IsAppend(m)
    BY DEF OnAppendEntriesRequest, IsAppend
  <2>2. m.PrevLogIndex \in 0..Len(Log[n]) /\ m.Entries \in Seq(Entry)
    BY SMTT(30), <1>3, <2>1, AppendTypes DEF PrevMatches, TypeOK
  <2>3. m.Term \in DOMAIN LeaderLog /\ Describes(m, led) /\ FromLeaders(led, LeaderLog)
    BY <2>1 DEF LogInv, AppendsFromLeaders
  <2>4. led \in Seq(Entry) /\ Log[n] \in Seq(Entry) /\ FromLeaders(Log[n], LeaderLog)
    BY <2>3 DEF LogInv, TypeOK
  <2>5. \/ m.PrevLogIndex = 0
        \/ /\ m.PrevLogIndex <= Len(led)
           /\ led[m.PrevLogIndex].Term = Log[n][m.PrevLogIndex].Term
    <3>1. SUFFICES ASSUME m.PrevLogIndex # 0
                   PROVE  /\ m.PrevLogIndex <= Len(led)
                          /\ led[m.PrevLogIndex].Term = Log[n][m.PrevLogIndex].Term
      OBVIOUS
    <3>2. m.PrevLogIndex \in 1..Len(Log[n])
      BY <2>2, <3>1
    <3>3. Log[n][m.PrevLogIndex] \in Entry
      BY <2>4, <3>2
    <3>4. Log[n][m.PrevLogIndex].Term = m.PrevLogTerm
      BY <1>3, <3>1, <3>2 DEF PrevMatches, LogTerm
    <3>5. m.PrevLogTerm # 0
      BY <3>3, <3>4 DEF Entry
    <3>6. QED
      BY <2>3, <3>1, <3>4, <3>5 DEF Describes
  <2>6. \A i \in 1..Len(m.Entries) :
           m.PrevLogIndex + i <= Len(led) /\ led[m.PrevLogIndex + i] = m.Entries[i]
    BY <2>3 DEF Describes
  <2> HIDE DEF led
  <2>7. FromLeaders(Appended(Log[n], m.PrevLogIndex, m.Entries), LeaderLog)
    BY <2>2, <2>3, <2>4, <2>5, <2>6, AppendedFromLeaders
  <2>8. /\ Log'[n] = Appended(Log[n], m.PrevLogIndex, m.Entries)
        /\ \A s \in Server \ {n} : Log'[s] = Log[s]
    BY <1>3 DEF TypeOK
  <2>9. QED
    BY <1>1, <2>7, <2>8 DEF LogStep, SendStep
<1>4. QED
  BY <1>2, <1>3 DEF OnAppendEntriesRequest, RefuseStaleAppend, TakeAppend, stateVars

LEMMA LogsAppendEntriesResponse ==
  ASSUME NEW n \in Server, NEW m, OnAppendEntriesResponse(n, m)
  PROVE  LogStep /\ SendStep
  BY DEF OnAppendEntriesResponse, LogStep, SendStep

LEMMA LogsCommandRequest ==
  ASSUME TypeOK, NEW n \in Server, NEW c \in Command, OnCommandRequest(n, c)
  PROVE  LogStep /\ SendStep
<1>1. msgs' = msgs /\ CurrentTerm' = CurrentTerm /\ StateName'[n] = "LEADER"
  BY DEF OnCommandRequest
<1>2. CASE c \in Writes
  <2> DEFINE e == [Term |-> CurrentTerm[n], Cmd |-> c]
  <2>1. e \in Entry /\ e.Term = CurrentTerm'[n]
    BY <1>1, <1>2 DEF Entry, TypeOK
  <2>2. /\ Log'[n] = Append(Log[n], e)
        /\ \A s \in Server \ {n} : Log'[s] = Log[s]
    BY <1>2 DEF OnCommandRequest, TypeOK
  <2>3. QED
    BY <1>1, <2>1, <2>2 DEF LogStep, SendStep
<1>3. CASE c \notin Writes
  BY <1>1, <1>3 DEF OnCommandRequest, LogStep, SendStep
<1>4. QED
  BY <1>2, <1>3

LEMMA LogsStartElection ==
  ASSUME NEW n \in Server, NEW due,
         StartElection(n) \/ ResendVotes(n, due) \/ SoloElection(n)
  PROVE  LogStep /\ SendStep
<1>1. Log' = Log
  BY DEF StartElection, ResendVotes, SoloElection, stateVars
<1>2. \A x \in msgs' : x \in msgs \/ ~ IsAppend(x)
  BY DEF StartElection, ResendVotes, SoloElection, SendAll, CreateVote, IsAppend
<1>3. QED
  BY <1>1, <1>2 DEF LogStep, SendStep

LEMMA LogsBecomeLeader ==
  ASSUME TypeOK, NEW n \in Server, BecomeLeader(n)
  PROVE  LogStep /\ SendStep
<1>1. Log' = Log /\ CurrentTerm' = CurrentTerm /\ StateName'[n] = "LEADER"
  BY DEF BecomeLeader, TypeOK, stateVars
<1>2. Len(Log[n]) + 1 \in Nat \ {0}
  BY DEF TypeOK
<1>3. \A p \in Peers(n) :
         LET m == CreateAppendEntries(n, p, Len(Log[n]) + 1, 0, 0)
         IN  m.Term = CurrentTerm[n] /\ Describes(m, Log[n])
  BY <1>2, CreatedDescribes DEF Peers
<1>4. msgs' = msgs \cup {CreateAppendEntries(n, p, Len(Log[n]) + 1, 0, 0) : p \in Peers(n)}
  BY DEF BecomeLeader, SendAll
<1>5. QED
  BY <1>1, <1>3, <1>4 DEF LogStep, SendStep

LEMMA LogsLeaderTimeout ==
  ASSUME TypeOK, NEW n \in Server, NEW due \in SUBSET Peers(n), LeaderTimeout(n, due)
  PROVE  LogStep /\ SendStep
<1> DEFINE Sent(p) == CreateAppendEntries(n, p, NextIndex[n][p], MatchIndex[n][p],
                                          BatchSize[n][p])
<1>1. Log' = Log /\ CurrentTerm' = CurrentTerm /\ StateName'[n] = "LEADER"
  BY DEF LeaderTimeout, stateVars
<1>2. ASSUME NEW p \in due
      PROVE  Sent(p).Term = CurrentTerm[n] /\ Describes(Sent(p), Log[n])
  <2>1. p \in Server
    BY DEF Peers
  <2>2. /\ NextIndex[n] \in [Server -> Nat \ {0}]
        /\ MatchIndex[n] \in [Server -> Nat]
        /\ BatchSize[n] \in [Server -> Nat]
    BY DEF TypeOK
  <2>3. /\ NextIndex[n][p] \in Nat \ {0}
        /\ MatchIndex[n][p] \in Nat
        /\ BatchSize[n][p] \in Nat
    BY <2>1, <2>2
  <2>4. QED
    BY <2>1, <2>3, CreatedDescribes
<1>3. msgs' = msgs \cup {Sent(p) : p \in due}
  BY DEF LeaderTimeout, SendAll
<1>4. QED
  BY <1>1, <1>2, <1>3 DEF LogStep, SendStep

LEMMA LogsNext ==
  ASSUME TypeOK, LogInv, Next
  PROVE  LogStep /\ SendStep
<1>1. ASSUME NEW n \in Server, NEW m \in msgs, Process(n, m) PROVE LogStep /\ SendStep
  BY <1>1, LogsVotes, LogsAppendEntriesRequest, LogsAppendEntriesResponse DEF Process
<1>2. ASSUME NEW n \in Server, NEW c \in Command, OnCommandRequest(n, c)
      PROVE  LogStep /\ SendStep
  BY <1>2, LogsCommandRequest
<1>3. ASSUME NEW n \in Server, ProcessTimeout(n) PROVE LogStep /\ SendStep
  BY <1>3, LogsStartElection, LogsBecomeLeader, LogsLeaderTimeout DEF ProcessTimeout
<1>4. QED
  BY <1>1, <1>2, <1>3 DEF Next

-----------------------------------------------------------------------------
(* The invariant and the theorem                                            *)

LEMMA LogInvKept ==
  ASSUME TypeOK, TypeOK', LeaderLogInv, LeaderLogInv', LogInv, LogStep, SendStep,
         KeepsLeaders \/ \E n \in Server : LeaderWrites(n)
  PROVE  LogInv'
<1>1. Grows(LeaderLog, LeaderLog')
  BY LeaderLogGrows DEF Grows
<1>2. /\ \A t \in DOMAIN LeaderLog : LeaderLog[t] \in Seq(Entry)
      /\ \A t \in DOMAIN LeaderLog' : LeaderLog'[t] \in Seq(Entry)
      /\ \A s \in Server : Log[s] \in Seq(Entry) /\ Log'[s] \in Seq(Entry)
  BY DEF TypeOK
<1>3. \A t \in DOMAIN LeaderLog : Len(LeaderLog[t]) \in Nat
  BY <1>2
<1>4. \A s \in Server : StateName'[s] = "LEADER" =>
         CurrentTerm'[s] \in DOMAIN LeaderLog' /\ LeaderLog'[CurrentTerm'[s]] = Log'[s]
  BY DEF LeaderLogInv, IsLeader
<1>5. ASSUME NEW log \in Seq(Entry), FromLeaders(log, LeaderLog)
      PROVE  FromLeaders(log, LeaderLog')
  BY <1>1, <1>3, <1>5, FromLeadersStable
<1>6. ASSUME NEW s \in Server PROVE FromLeaders(Log'[s], LeaderLog')
  <2>1. CASE Log'[s] = Log[s] \/ FromLeaders(Log'[s], LeaderLog)
    <3>1. FromLeaders(Log'[s], LeaderLog)
      BY <2>1 DEF LogInv
    <3>2. QED
      BY <1>2, <1>5, <3>1
  <2>2. CASE /\ StateName'[s] = "LEADER"
             /\ \E e \in Entry : e.Term = CurrentTerm'[s] /\ Log'[s] = Append(Log[s], e)
    <3>1. PICK e \in Entry : e.Term = CurrentTerm'[s] /\ Log'[s] = Append(Log[s], e)
      BY <2>2
    <3>2. e.Term \in DOMAIN LeaderLog' /\ LeaderLog'[e.Term] = Append(Log[s], e)
      BY <1>4, <2>2, <3>1
    <3>3. FromLeaders(Log[s], LeaderLog')
      BY <1>2, <1>5 DEF LogInv
    <3>4. FromLeaders(Append(Log[s], e), LeaderLog')
      BY <1>2, <3>2, <3>3, LongerFromLeaders
    <3>5. QED
      BY <3>1, <3>4
  <2>3. QED
    BY <2>1, <2>2 DEF LogStep
<1>7. ASSUME NEW t \in DOMAIN LeaderLog' PROVE FromLeaders(LeaderLog'[t], LeaderLog')
  <2>1. CASE t \in DOMAIN LeaderLog /\ LeaderLog'[t] = LeaderLog[t]
    BY <1>2, <1>5, <2>1 DEF LogInv
  <2>2. CASE \E n \in Server : LeaderLog'[t] = Log'[n]
    BY <1>6, <2>2
  <2>3. QED
    BY ZenonT(60), <2>1, <2>2 DEF KeepsLeaders, LeaderWrites, WithLeaderLog
<1>8. ASSUME NEW m \in msgs', IsAppend(m)
      PROVE  m.Term \in DOMAIN LeaderLog' /\ Describes(m, LeaderLog'[m.Term])
  <2>1. CASE m \in msgs
    <3>1. m.Term \in DOMAIN LeaderLog /\ Describes(m, LeaderLog[m.Term])
      BY <1>8, <2>1 DEF LogInv, AppendsFromLeaders
    <3>2. /\ m.Term \in DOMAIN LeaderLog'
          /\ SameUpTo(LeaderLog[m.Term], LeaderLog'[m.Term], Len(LeaderLog[m.Term]))
      BY <1>1, <3>1 DEF Grows
    <3>3. m.PrevLogIndex \in Nat /\ Len(m.Entries) \in Nat
      BY <1>8, <2>1, AppendTypes
    <3>4. Len(LeaderLog[m.Term]) \in Nat /\ Len(LeaderLog'[m.Term]) \in Nat
      BY <1>2, <3>1, <3>2
    <3>5. QED
      BY <3>1, <3>2, <3>3, <3>4, DescribesLonger
  <2>2. CASE \E s \in Server : /\ StateName'[s] = "LEADER"
                               /\ m.Term = CurrentTerm'[s]
                               /\ Describes(m, Log'[s])
    BY <1>4, <2>2
  <2>3. QED
    BY <1>8, <2>1, <2>2 DEF SendStep
<1>9. QED
  BY <1>6, <1>7, <1>8 DEF LogInv, AppendsFromLeaders

LEMMA LogInvCorrect == Spec => []LogInv
<1>1. Init => LogInv
  BY DEF Init, LogInv, AppendsFromLeaders, FromLeaders
<1>2. TypeOK /\ TypeOK' /\ VoteInv /\ VoteInv' /\ LeaderLogInv /\ LeaderLogInv'
         /\ LogInv /\ [Next]_vars
            => LogInv'
  <2> SUFFICES ASSUME TypeOK, TypeOK', VoteInv, VoteInv', LeaderLogInv, LeaderLogInv',
                      LogInv, [Next]_vars
               PROVE  LogInv'
    OBVIOUS
  <2>1. CASE Next
    BY <2>1, LeadersNext, LogsNext, LogInvKept
  <2>2. CASE UNCHANGED vars
    BY <2>2 DEF LogInv, AppendsFromLeaders, vars, stateVars
  <2>3. QED
    BY <2>1, <2>2
<1>3. QED
  BY <1>1, <1>2, TypeCorrect, VoteInvCorrect, LeaderLogCorrect, PTL DEF Spec

\* If two logs, in a cluster of any size, have an entry of the same term at the same
\* index, they are equal up to it: the check of PrevLogTerm and the truncation in
\* OnAppendEntries keep that true whatever requests of old and new leaders arrive,
\* in whatever order.
THEOREM LogsMatch == Spec => []LogMatching
<1>1. TypeOK /\ LogInv => LogMatching
  <2> SUFFICES ASSUME TypeOK, LogInv, NEW a \in Server, NEW b \in Server,
                      NEW i \in 1..Len(Log[a]) \cap 1..Len(Log[b]),
                      Log[a][i].Term = Log[b][i].Term
               PROVE  SameUpTo(Log[a], Log[b], i)
    BY DEF LogMatching
  <2>1. FromLeaders(Log[a], LeaderLog) /\ FromLeaders(Log[b], LeaderLog)
    BY DEF LogInv
  <2>2. QED
    BY <2>1, MatchAt
<1>2. QED
  BY <1>1, TypeCorrect, LogInvCorrect, PTL
=============================================================================
