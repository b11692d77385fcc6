---------------------------- MODULE CommitProofs ----------------------------
(***************************************************************************)
(* Proofs of LeaderCompleteness, MatchIndexSound and NextIndexInRange.     *)
(*                                                                         *)
(* An entry of term t is chosen once a commit quorum holds it: the leader  *)
(* of t, and servers that acknowledged it in t.  A server that holds it    *)
(* can lose it only to a leader whose log differs, and such a leader       *)
(* needs the vote of one of the quorum, which it gets only with a log that *)
(* has the entry: the least term that lost it would have to have it.       *)
(***************************************************************************)
EXTENDS RaftProofs, RaftRefinement

IsAck(m) == m.Type = "AppendEntriesResponse" /\ m.Success

\* Server s was elected in term t, which has a log.
Led(s, t) == t \in DOMAIN LeaderLog /\ (MinVotes > 1 => Elected(s, t))

\* Server s has told the leader of t that it holds its log up to k.
Acked(s, t, k) ==
    \E m \in msgs : IsAck(m) /\ m.Src = s /\ m.Term = t /\ k <= m.MatchIndex

Holds(s, t, k) == Led(s, t) \/ Acked(s, t, k)

\* A leader after t and before u does not have the first k entries of t's log.
Lost(t, k, u) ==
    \E w \in DOMAIN LeaderLog :
        t < w /\ w < u /\ ~ SameUpTo(LeaderLog[t], LeaderLog[w], k)

\* What a voter of term u guarantees of the log it votes for: the entries it holds,
\* unless a leader in between has lost them.
Backs(q, u, log) ==
    \A t \in DOMAIN LeaderLog : \A k \in 1..Len(LeaderLog[t]) :
        t < u /\ Holds(q, t, k) /\ LeaderLog[t][k].Term = t
            => SameUpTo(LeaderLog[t], log, k) \/ Lost(t, k, u)

\* The entry k of term t's log is of that term and a commit quorum holds it.
Chosen(t, k) ==
    /\ t \in DOMAIN LeaderLog
    /\ k \in 1..Len(LeaderLog[t])
    /\ LeaderLog[t][k].Term = t
    /\ \E Q \in SUBSET Server : /\ Cardinality(Q) >= CommitQuorum(Server)
                                /\ \A q \in Q : Holds(q, t, k)

\* The first c entries of the log are among those that a leader of u or before has
\* chosen.
CommittedBy(c, u, log) ==
    \/ c = 0
    \/ \E t \in DOMAIN LeaderLog :
          /\ t <= u
          /\ \E k \in 1..Len(LeaderLog[t]) :
                c <= k /\ Chosen(t, k) /\ SameUpTo(LeaderLog[t], log, c)

-----------------------------------------------------------------------------
(* The invariant                                                            *)

\* No entry is of a later term than the server or the leader that has it.
TermsInv ==
    /\ \A n \in Server : \A i \in 1..Len(Log[n]) : Log[n][i].Term <= CurrentTerm[n]
    /\ \A t \in DOMAIN LeaderLog : \A i \in 1..Len(LeaderLog[t]) : LeaderLog[t][i].Term <= t

\* A request for votes describes the candidate's log as long as it stands, and a vote
\* is given to a server that has reached its term.
RequestsInv ==
    /\ \A m \in msgs : IsRequest(m) =>
          /\ m.Term <= CurrentTerm[m.Src]
          /\ StateName[m.Src] = "CANDIDATE" /\ CurrentTerm[m.Src] = m.Term =>
                /\ m.LastLogIndex = Len(Log[m.Src])
                /\ m.LastLogTerm = LastLogTerm(Log[m.Src])
    /\ \A m \in msgs : IsGrant(m) => m.Term <= CurrentTerm[m.Dst]

AcksInv ==
    \A m \in msgs : IsAck(m) =>
        /\ m.Term \in DOMAIN LeaderLog
        /\ m.MatchIndex <= Len(LeaderLog[m.Term])
        /\ m.Term <= CurrentTerm[m.Src]

\* A server keeps what it holds until a leader that has lost it takes it away.
KeptInv ==
    \A s \in Server : \A t \in DOMAIN LeaderLog : \A k \in 1..Len(LeaderLog[t]) :
        Holds(s, t, k) => SameUpTo(LeaderLog[t], Log[s], k) \/ Lost(t, k, CurrentTerm[s] + 1)

\* The voters of a leader back its log.
ElectedInv ==
    \A u \in DOMAIN LeaderLog : \E Q \in SUBSET Server :
        /\ Cardinality(Q) >= MinVotes
        /\ \A q \in Q : CurrentTerm[q] >= u /\ Backs(q, u, LeaderLog[u])

\* Who has voted for a candidate that may still win its term backs its log.
CandidatesInv ==
    \A c, q \in Server :
        ( /\ StateName[c] = "CANDIDATE"
          /\ CurrentTerm[c] \notin DOMAIN LeaderLog
          /\ Voted(q, CurrentTerm[c], c) )
        => Backs(q, CurrentTerm[c], Log[c])

\* A leader's MatchIndex is what a peer has acknowledged.
MatchInv ==
    \A l \in Server : \A p \in Peers(l) :
        IsLeader(l) => MatchIndex[l][p] = 0 \/ Acked(p, CurrentTerm[l], MatchIndex[l][p])

\* What servers and requests know to be committed is chosen.
CommitsInv ==
    /\ \A n \in Server : CommittedBy(CommitIndex[n], CurrentTerm[n], Log[n])
    /\ \A m \in msgs : IsAppend(m) =>
          /\ m.LeaderCommit <= m.PrevLogIndex + Len(m.Entries)
          /\ CommittedBy(m.LeaderCommit, m.Term, LeaderLog[m.Term])

CommitInv ==
    /\ TermsInv /\ RequestsInv /\ AcksInv /\ KeptInv /\ ElectedInv /\ CandidatesInv
    /\ MatchInv /\ NextIndexInRange /\ CommitsInv

-----------------------------------------------------------------------------
(* Logs that take a leader's entries                                        *)

\* What TakeAppend leaves agrees with the leader's log as far as the request goes and
\* wherever the log did before, and has no entry that neither of them had.
LEMMA TakenAgrees ==
  ASSUME NEW ll, NEW log \in Seq(Entry), FromLeaders(log, ll),
         NEW led \in Seq(Entry), FromLeaders(led, ll),
         NEW prev \in 0..Len(log), NEW entries \in Seq(Entry),
         prev = 0 \/ (prev <= Len(led) /\ led[prev].Term = log[prev].Term),
         \A i \in 1..Len(entries) : prev + i <= Len(led) /\ led[prev + i] = entries[i],
         NEW new, new = Appended(log, prev, entries)
  PROVE  /\ SameUpTo(new, led, prev + Len(entries))
         /\ \A k \in Nat : SameUpTo(log, led, k) => SameUpTo(new, led, k)
         /\ \A i \in 1..Len(new) : \/ i \in 1..Len(log) /\ new[i] = log[i]
                                   \/ i \in 1..Len(led) /\ new[i] = led[i]
<1>1. Len(log) \in Nat /\ Len(led) \in Nat /\ Len(entries) \in Nat
  OBVIOUS
<1>2. SameUpTo(log, led, prev)
  <2>1. CASE prev = 0
    BY <1>1, <2>1 DEF SameUpTo
  <2>2. CASE prev # 0
    BY <1>1, <2>2, MatchAt
  <2>3. QED
    BY <2>1, <2>2
<1>3. ASSUME NEW j \in 0..Len(entries), prev + j <= Len(log),
             \A i \in 1..j : log[prev + i].Term = entries[i].Term
      PROVE  SameUpTo(log, led, prev + j)
  <2>1. CASE j = 0
    BY <1>1, <1>2, <2>1
  <2>2. CASE j # 0
    <3>1. /\ j \in 1..Len(entries) /\ log[prev + j].Term = entries[j].Term
          /\ prev + j \in 1..Len(log)
      BY <1>1, <1>3, <2>2
    <3>2. prev + j \in 1..Len(led) /\ log[prev + j].Term = led[prev + j].Term
      BY <1>1, <3>1
    <3>3. QED
      BY <3>1, <3>2, MatchAt
  <2>3. QED
    BY <2>1, <2>2
<1>4. IsAppended(Entry, log, prev, entries, new)
  <2>1. \A e \in Entry : e.Term \in Nat \ {0}
    BY DEF Entry
  <2>2. QED
    BY <2>1, AppendedShape
<1>5. CASE /\ new = log
           /\ prev + Len(entries) <= Len(log)
           /\ \A i \in 1..Len(entries) : log[prev + i].Term = entries[i].Term
  <2>1. SameUpTo(log, led, prev + Len(entries))
    BY <1>1, <1>3, <1>5
  <2>2. new = log
    BY <1>5
  <2>3. \A i \in 1..Len(new) : i \in 1..Len(log) /\ new[i] = log[i]
    BY <2>2
  <2>4. QED
    BY <2>1, <2>2, <2>3
<1>6. ASSUME NEW c \in 1..Len(entries),
             prev + c - 1 <= Len(log),
             LogTerm(log, prev + c) # entries[c].Term,
             \A i \in 1..c - 1 : log[prev + i].Term = entries[i].Term,
             Len(new) = prev + Len(entries),
             \A i \in 1..prev + c - 1 : new[i] = log[i],
             \A i \in c..Len(entries) : new[prev + i] = entries[i]
      PROVE  /\ SameUpTo(new, led, prev + Len(entries))
             /\ \A k \in Nat : SameUpTo(log, led, k) => k <= prev + Len(entries)
             /\ \A i \in 1..Len(new) : \/ i \in 1..Len(log) /\ new[i] = log[i]
                                       \/ i \in 1..Len(led) /\ new[i] = led[i]
  <2>1. SameUpTo(log, led, prev + c - 1)
    <3>1. c - 1 \in 0..Len(entries) /\ prev + (c - 1) <= Len(log)
          /\ prev + (c - 1) = prev + c - 1
      BY <1>1, <1>6
    <3>2. SameUpTo(log, led, prev + (c - 1))
      BY <1>3, <1>6, <3>1
    <3>3. QED
      BY <3>1, <3>2
  <2>2. \A i \in 1..prev + c - 1 : i \in 1..Len(log) /\ log[i] = led[i]
    BY <1>1, <1>6, <2>1 DEF SameUpTo
  <2>3. ASSUME NEW i \in 1..Len(new), i > prev + c - 1
        PROVE  i \in 1..Len(led) /\ new[i] = led[i]
    <3>1. i - prev \in c..Len(entries) /\ prev + (i - prev) = i
      BY <1>1, <1>6, <2>3
    <3>2. new[prev + (i - prev)] = entries[i - prev]
      BY <1>6, <3>1
    <3>3. prev + (i - prev) <= Len(led) /\ led[prev + (i - prev)] = entries[i - prev]
      BY <3>1
    <3>4. QED
      BY <1>1, <3>1, <3>2, <3>3
  <2>4. prev + Len(entries) <= Len(led)
    BY <1>1
  <2>5. SameUpTo(new, led, prev + Len(entries))
    BY <1>1, <1>6, <2>2, <2>3, <2>4 DEF SameUpTo
  <2>6. \A k \in Nat : SameUpTo(log, led, k) => k <= prev + Len(entries)
    <3> SUFFICES ASSUME NEW k \in Nat, SameUpTo(log, led, k), k > prev + Len(entries)
                 PROVE  FALSE
      BY <1>1
    <3>1. prev + c \in 1..Len(log) /\ log[prev + c] = led[prev + c]
      BY <1>1 DEF SameUpTo
    <3>2. led[prev + c] = entries[c]
      OBVIOUS
    <3>3. QED
      BY <1>6, <3>1, <3>2 DEF LogTerm
  <2>7. QED
    BY <1>1, <1>6, <2>2, <2>3, <2>5, <2>6
<1>7. QED
  <2>1. CASE \E c \in 1..Len(entries) :
                /\ prev + c - 1 <= Len(log)
                /\ LogTerm(log, prev + c) # entries[c].Term
                /\ \A i \in 1..c - 1 : log[prev + i].Term = entries[i].Term
                /\ new \in Seq(Entry)
                /\ Len(new) = prev + Len(entries)
                /\ \A i \in 1..prev + c - 1 : new[i] = log[i]
                /\ \A i \in c..Len(entries) : new[prev + i] = entries[i]
    <3>1. /\ SameUpTo(new, led, prev + Len(entries))
          /\ \A k \in Nat : SameUpTo(log, led, k) => k <= prev + Len(entries)
          /\ \A i \in 1..Len(new) : \/ i \in 1..Len(log) /\ new[i] = log[i]
                                    \/ i \in 1..Len(led) /\ new[i] = led[i]
          /\ new \in Seq(Entry)
      BY <1>6, <2>1
    <3>2. \A k \in Nat : SameUpTo(log, led, k) => SameUpTo(new, led, k)
      BY <1>1, <3>1, SameLess
    <3>3. QED
      BY <3>1, <3>2
  <2>2. QED
    BY <1>4, <1>5, <2>1 DEF IsAppended

-----------------------------------------------------------------------------
(* What a step does to logs, acknowledgements and votes                     *)

\* Server s has taken entries of led.
TakenFrom(s, led) ==
    /\ \A k \in Nat : SameUpTo(Log[s], led, k) => SameUpTo(Log'[s], led, k)
    /\ \A i \in 1..Len(Log'[s]) :
          \/ i \in 1..Len(Log[s]) /\ Log'[s][i] = Log[s][i]
          \/ i \in 1..Len(led) /\ Log'[s][i] = led[i]

LogChange ==
    \A s \in Server :
        \/ Log'[s] = Log[s]
        \/ /\ StateName[s] = "LEADER" /\ UNCHANGED <<StateName[s], CurrentTerm[s]>>
           /\ \E e \in Entry : e.Term = CurrentTerm[s] /\ Log'[s] = Append(Log[s], e)
        \/ /\ StateName'[s] = "FOLLOWER"
           /\ LeaderLog' = LeaderLog
           /\ CurrentTerm'[s] \in DOMAIN LeaderLog
           /\ TakenFrom(s, LeaderLog[CurrentTerm'[s]])

NewAcks ==
    \A m \in msgs' \ msgs : IsAck(m) =>
        /\ LeaderLog' = LeaderLog
        /\ m.Src \in Server
        /\ m.Term = CurrentTerm'[m.Src]
        /\ m.Term \in DOMAIN LeaderLog
        /\ SameUpTo(LeaderLog[m.Term], Log'[m.Src], m.MatchIndex)

NewVotes ==
    \A m \in msgs' \ msgs :
        /\ IsGrant(m) =>
              /\ UNCHANGED <<Log, LeaderLog>>
              /\ m.Src \in Server
              /\ m.Term = CurrentTerm'[m.Src]
              /\ \E r \in msgs : /\ IsRequest(r) /\ r.Src = m.Dst /\ r.Term = m.Term
                                 /\ UpToDate(m.Src, r)
        /\ IsRequest(m) =>
              /\ m.Src \in Server
              /\ StateName'[m.Src] = "CANDIDATE"
              /\ m.Term = CurrentTerm'[m.Src]
              /\ m.LastLogIndex = Len(Log'[m.Src])
              /\ m.LastLogTerm = LastLogTerm(Log'[m.Src])

NewCandidates ==
    \A c \in Server : StateName'[c] = "CANDIDATE" =>
        /\ Log'[c] = Log[c]
        /\ \/ UNCHANGED <<StateName[c], CurrentTerm[c]>>
           \/ CurrentTerm'[c] = CurrentTerm[c] + 1

NewLeaders ==
    \A u \in DOMAIN LeaderLog' \ DOMAIN LeaderLog : \E n \in Server :
        /\ UNCHANGED Log
        /\ LeaderLog'[u] = Log[n]
        /\ CurrentTerm'[n] = u
        /\ \/ StateName[n] = "CANDIDATE" /\ CurrentTerm[n] = u /\ Elected(n, u)
           \/ MinVotes = 1 /\ u = CurrentTerm[n] + 1

CommitStep == LogChange /\ NewAcks /\ NewVotes /\ NewCandidates /\ NewLeaders

LEMMA StepRequestVoteRequest ==
  ASSUME TypeOK, NEW n \in Server, NEW m \in msgs, OnRequestVoteRequest(n, m)
  PROVE  CommitStep
<1> DEFINE r == VoteResponse(n, m.Src, TermOn(n, m), Grants(n, m))
<1>1. m.Src \in Server /\ m.Term \in Nat /\ CurrentTerm[n] \in Nat /\ IsRequest(m)
  BY MessageTypes DEF TypeOK, OnRequestVoteRequest, IsRequest
<1>2. /\ UNCHANGED <<Log, LeaderLog>>
      /\ msgs' = msgs \cup {r}
      /\ CurrentTerm'[n] = TermOn(n, m)
      /\ StateName'[n] = StateNameOn(n, m)
      /\ \A s \in Server \ {n} : UNCHANGED <<CurrentTerm[s], StateName[s]>>
  BY DEF OnRequestVoteRequest, Send, TypeOK
<1>3. /\ r.Type = "RequestVoteResponse" /\ r.Src = n /\ r.Dst = m.Src
      /\ r.Term = TermOn(n, m) /\ r.VoteGranted = Grants(n, m)
  BY DEF VoteResponse
<1>4. Grants(n, m) => TermOn(n, m) = m.Term /\ UpToDate(n, m)
  BY <1>1 DEF Grants, TermOn, MaxOf
<1> HIDE DEF r
<1>5. NewAcks
  BY <1>2, <1>3 DEF NewAcks, IsAck
<1>6. NewVotes
  BY <1>1, <1>2, <1>3, <1>4 DEF NewVotes, IsGrant, IsRequest
<1>7. NewCandidates
  BY <1>1, <1>2 DEF NewCandidates, StateNameOn, TermOn, MaxOf
<1>8. QED
  BY <1>2, <1>5, <1>6, <1>7 DEF CommitStep, LogChange, NewLeaders

LEMMA StepResponse ==
  ASSUME TypeOK, NEW n \in Server, NEW m \in msgs,
         OnRequestVoteResponse(n, m) \/ OnAppendEntriesResponse(n, m)
  PROVE  CommitStep
<1>1. m.Term \in Nat /\ CurrentTerm[n] \in Nat
  BY MessageTypes DEF TypeOK
<1>2. /\ UNCHANGED <<Log, LeaderLog, msgs>>
      /\ CurrentTerm'[n] = TermOn(n, m)
      /\ StateName'[n] = StateNameOn(n, m)
      /\ \A s \in Server \ {n} : UNCHANGED <<CurrentTerm[s], StateName[s]>>
  BY DEF OnRequestVoteResponse, OnAppendEntriesResponse, TypeOK
<1>3. NewCandidates
  BY <1>1, <1>2 DEF NewCandidates, StateNameOn, TermOn, MaxOf
<1>4. QED
  BY <1>2, <1>3 DEF CommitStep, LogChange, NewAcks, NewVotes, NewLeaders

\* A request that matches the log is of a leader, and the server takes its entries.
LEMMA TakesEntries ==
  ASSUME TypeOK, LogInv, NEW n \in Server, NEW m \in msgs, IsAppend(m),
         PrevMatches(n, m),
         Log' = [Log EXCEPT ![n] = Appended(@, m.PrevLogIndex, m.Entries)]
  PROVE  /\ m.Term \in DOMAIN LeaderLog
         /\ TakenFrom(n, LeaderLog[m.Term])
         /\ SameUpTo(LeaderLog[m.Term], Log'[n], m.PrevLogIndex + Len(m.Entries))
<1> DEFINE led == LeaderLog[m.Term]
           prev == m.PrevLogIndex
           entries == m.Entries
<1>1. prev \in 0..Len(Log[n]) /\ entries \in Seq(Entry)
  BY AppendTypes DEF PrevMatches, TypeOK
<1>2. m.Term \in DOMAIN LeaderLog /\ Describes(m, led) /\ FromLeaders(led, LeaderLog)
  BY DEF LogInv, AppendsFromLeaders
<1>3. led \in Seq(Entry) /\ Log[n] \in Seq(Entry) /\ FromLeaders(Log[n], LeaderLog)
  BY <1>2 DEF LogInv, TypeOK
<1>4. \/ prev = 0
      \/ prev <= Len(led) /\ led[prev].Term = Log[n][prev].Term
  <2>1. SUFFICES ASSUME prev # 0
                 PROVE  prev <= Len(led) /\ led[prev].Term = Log[n][prev].Term
    OBVIOUS
  <2>2. prev \in 1..Len(Log[n])
    BY <1>1, <2>1
  <2>3. Log[n][prev] \in Entry
    BY <1>3, <2>2
  <2>4. Log[n][prev].Term = m.PrevLogTerm
    BY <2>1, <2>2 DEF PrevMatches, LogTerm
  <2>5. m.PrevLogTerm # 0
    BY <2>3, <2>4 DEF Entry
  <2>6. QED
    BY <1>2, <2>1, <2>4, <2>5 DEF Describes
<1>5. \A i \in 1..Len(entries) : prev + i <= Len(led) /\ led[prev + i] = entries[i]
  BY <1>2 DEF Describes
<1>6. Log'[n] = Appended(Log[n], prev, entries)
  BY DEF TypeOK
<1> HIDE DEF led, prev, entries
<1>7. /\ SameUpTo(Log'[n], led, prev + Len(entries))
      /\ \A k \in Nat : SameUpTo(Log[n], led, k) => SameUpTo(Log'[n], led, k)
      /\ \A i \in 1..Len(Log'[n]) : \/ i \in 1..Len(Log[n]) /\ Log'[n][i] = Log[n][i]
                                    \/ i \in 1..Len(led) /\ Log'[n][i] = led[i]
  BY SMTT(30), <1>1, <1>2, <1>3, <1>4, <1>5, <1>6, TakenAgrees
<1>8. QED
  BY <1>2, <1>7 DEF TakenFrom, SameUpTo, led, prev, entries

LEMMA StepAppendEntriesRequest ==
  ASSUME TypeOK, LogInv, NEW n \in Server, NEW m \in msgs, OnAppendEntriesRequest(n, m)
  PROVE  CommitStep
<1>1. LeaderLog' = LeaderLog /\ IsAppend(m) /\ m.Term \in Nat
  BY AppendTypes
  DEF OnAppendEntriesRequest, RefuseStaleAppend, TakeAppend, IsAppend
<1>2. CASE RefuseStaleAppend(n, m)
  <2>1. UNCHANGED <<Log, StateName, CurrentTerm>>
    BY <1>2 DEF RefuseStaleAppend, stateVars
  <2>2. \A x \in msgs' \ msgs : ~ IsAck(x) /\ ~ IsGrant(x) /\ ~ IsRequest(x)
    BY <1>2 DEF RefuseStaleAppend, Send, AppendResponse, IsAck, IsGrant, IsRequest
  <2>3. QED
    BY <1>1, <2>1, <2>2
    DEF CommitStep, LogChange, NewAcks, NewVotes, NewCandidates, NewLeaders
<1>3. CASE TakeAppend(n, m)
  <2>1. /\ StateName'[n] = "FOLLOWER"
        /\ CurrentTerm'[n] = m.Term
        /\ \A s \in Server \ {n} : UNCHANGED <<CurrentTerm[s], StateName[s], Log[s]>>
    BY <1>3 DEF TakeAppend, TypeOK
  <2>2. \A x \in msgs' \ msgs : ~ IsGrant(x) /\ ~ IsRequest(x)
    BY <1>3 DEF TakeAppend, Send, AppendResponse, IsGrant, IsRequest
  <2>3. NewVotes /\ NewCandidates /\ NewLeaders
    BY <1>1, <2>1, <2>2 DEF NewVotes, NewCandidates, NewLeaders
  <2>4. CASE /\ PrevMatches(n, m)
             /\ Log' = [Log EXCEPT ![n] = Appended(@, m.PrevLogIndex, m.Entries)]
             /\ Send(AppendResponse(n, m.Src, m.Term, MatchedIndex(n, m), TRUE))
    <3>1. /\ m.Term \in DOMAIN LeaderLog
          /\ TakenFrom(n, LeaderLog[m.Term])
          /\ SameUpTo(LeaderLog[m.Term], Log'[n], m.PrevLogIndex + Len(m.Entries))
      BY <1>1, <2>4, TakesEntries
    <3>2. \A x \in msgs' \ msgs :
             x.Src = n /\ x.Term = m.Term /\ x.MatchIndex = m.PrevLogIndex + Len(m.Entries)
      BY <2>4 DEF Send, AppendResponse, MatchedIndex
    <3>3. NewAcks
      BY <1>1, <2>1, <3>1, <3>2 DEF NewAcks
    <3>4. LogChange
      BY <1>1, <2>1, <3>1 DEF LogChange
    <3>5. QED
      BY <2>3, <3>3, <3>4 DEF CommitStep
  <2>5. CASE Log' = Log /\ Send(AppendResponse(n, m.Src, m.Term, 0, FALSE))
    <3>1. NewAcks
      BY <2>5 DEF NewAcks, Send, AppendResponse, IsAck
    <3>2. QED
      BY <2>3, <2>5, <3>1 DEF CommitStep, LogChange
  <2>6. QED
    BY <1>3, <2>4, <2>5 DEF TakeAppend
<1>4. QED
  BY <1>2, <1>3 DEF OnAppendEntriesRequest

LEMMA StepCommandRequest ==
  ASSUME TypeOK, LeaderLogInv, NEW n \in Server, NEW c \in Command, OnCommandRequest(n, c)
  PROVE  CommitStep
<1>1. /\ UNCHANGED <<StateName, CurrentTerm, msgs>>
      /\ StateName[n] = "LEADER"
      /\ LeaderLog' = WithLeaderLog(CurrentTerm[n], Log'[n])
      /\ \A s \in Server \ {n} : Log'[s] = Log[s]
  BY DEF OnCommandRequest, TypeOK
<1>2. DOMAIN LeaderLog' = DOMAIN LeaderLog
  BY <1>1 DEF WithLeaderLog, LeaderLogInv, IsLeader
<1>3. \/ Log'[n] = Log[n]
      \/ \E e \in Entry : e.Term = CurrentTerm[n] /\ Log'[n] = Append(Log[n], e)
  <2>1. CASE c \in Writes
    <3>1. [Term |-> CurrentTerm[n], Cmd |-> c] \in Entry
      BY <2>1 DEF Entry, TypeOK
    <3>2. Log'[n] = Append(Log[n], [Term |-> CurrentTerm[n], Cmd |-> c])
      BY <2>1 DEF OnCommandRequest, TypeOK
    <3>3. QED
      BY <3>1, <3>2
  <2>2. CASE c \notin Writes
    BY <2>2 DEF OnCommandRequest
  <2>3. QED
    BY <2>1, <2>2
<1>4. LogChange
  BY <1>1, <1>3 DEF LogChange
<1>5. NewCandidates
  BY <1>1 DEF NewCandidates
<1>6. QED
  BY <1>1, <1>2, <1>4, <1>5 DEF CommitStep, NewAcks, NewVotes, NewLeaders

LEMMA StepElection ==
  ASSUME TypeOK, NEW n \in Server, NEW due \in SUBSET Peers(n),
         StartElection(n) \/ ResendVotes(n, due)
  PROVE  CommitStep
<1>1. UNCHANGED <<Log, LeaderLog>>
  BY DEF StartElection, ResendVotes, stateVars
<1>2. /\ StateName'[n] = "CANDIDATE"
      /\ \/ UNCHANGED <<StateName[n], CurrentTerm[n]>>
         \/ CurrentTerm'[n] = CurrentTerm[n] + 1
      /\ \A s \in Server \ {n} : UNCHANGED <<CurrentTerm[s], StateName[s]>>
  BY DEF StartElection, ResendVotes, stateVars, TypeOK
<1>3. \A m \in msgs' \ msgs :
         \E p \in Server : m = CreateVote(n, p, CurrentTerm'[n])
  <2>1. CASE StartElection(n)
    <3>1. CurrentTerm'[n] = CurrentTerm[n] + 1
      BY <2>1 DEF StartElection, TypeOK
    <3>2. msgs' = msgs \cup {CreateVote(n, p, CurrentTerm[n] + 1) : p \in Peers(n)}
      BY <2>1 DEF StartElection, SendAll
    <3>3. QED
      BY <3>1, <3>2 DEF Peers
  <2>2. CASE ResendVotes(n, due)
    <3>1. msgs' = msgs \cup {CreateVote(n, p, CurrentTerm[n]) : p \in due}
      BY <2>2 DEF ResendVotes, SendAll
    <3>2. CurrentTerm'[n] = CurrentTerm[n]
      BY <2>2 DEF ResendVotes, stateVars
    <3>3. QED
      BY <3>1, <3>2 DEF Peers
  <2>3. QED
    BY <2>1, <2>2
<1>4. \A m \in msgs' \ msgs :
         /\ ~ IsAck(m) /\ ~ IsGrant(m)
         /\ m.Src = n /\ m.Term = CurrentTerm'[n]
         /\ m.LastLogIndex = Len(Log'[n]) /\ m.LastLogTerm = LastLogTerm(Log'[n])
  BY <1>1, <1>3 DEF CreateVote, IsAck, IsGrant
<1>5. NewVotes
  BY <1>2, <1>4 DEF NewVotes
<1>6. QED
  BY <1>1, <1>2, <1>4, <1>5 DEF CommitStep, LogChange, NewAcks, NewCandidates, NewLeaders

\* The requests of leaders are no acknowledgements, no votes and ask for none.
LEMMA AppendsOnly ==
  ASSUME NEW n, NEW m, NEW p, NEW next, NEW match, NEW batch,
         m = CreateAppendEntries(n, p, next, match, batch)
  PROVE  ~ IsAck(m) /\ ~ IsGrant(m) /\ ~ IsRequest(m)
  BY DEF CreateAppendEntries, IsAck, IsGrant, IsRequest

LEMMA StepBecomeLeader ==
  ASSUME TypeOK, VoteInv, NEW n \in Server, BecomeLeader(n)
  PROVE  CommitStep
<1>1. /\ UNCHANGED <<Log, CurrentTerm>>
      /\ LeaderLog' = WithLeaderLog(CurrentTerm[n], Log[n])
      /\ StateName[n] = "CANDIDATE" /\ StateName'[n] = "LEADER"
      /\ \A s \in Server \ {n} : UNCHANGED StateName[s]
  BY DEF BecomeLeader, stateVars, TypeOK
<1>2. Elected(n, CurrentTerm[n])
  BY EnoughVotesElect DEF BecomeLeader, VoteInv
<1>3. \A m \in msgs' \ msgs : ~ IsAck(m) /\ ~ IsGrant(m) /\ ~ IsRequest(m)
  BY AppendsOnly DEF BecomeLeader, SendAll
<1>4. NewLeaders
  BY <1>1, <1>2 DEF NewLeaders, WithLeaderLog
<1>5. QED
  BY <1>1, <1>3, <1>4 DEF CommitStep, LogChange, NewAcks, NewVotes, NewCandidates

LEMMA StepLeaderTimeout ==
  ASSUME NEW n \in Server, NEW due \in SUBSET Peers(n), LeaderTimeout(n, due)
  PROVE  CommitStep
<1>1. UNCHANGED <<Log, CurrentTerm, StateName, LeaderLog>>
  BY DEF LeaderTimeout, stateVars
<1>2. \A m \in msgs' \ msgs : ~ IsAck(m) /\ ~ IsGrant(m) /\ ~ IsRequest(m)
  BY AppendsOnly DEF LeaderTimeout, SendAll
<1>3. QED
  BY <1>1, <1>2 DEF CommitStep, LogChange, NewAcks, NewVotes, NewCandidates, NewLeaders

LEMMA StepSoloElection ==
  ASSUME TypeOK, NEW n \in Server, SoloElection(n)
  PROVE  CommitStep
<1>1. /\ UNCHANGED <<Log, msgs>>
      /\ LeaderLog' = WithLeaderLog(CurrentTerm[n] + 1, Log[n])
      /\ CurrentTerm'[n] = CurrentTerm[n] + 1
      /\ StateName'[n] = "LEADER" /\ MinVotes = 1
      /\ \A s \in Server \ {n} : UNCHANGED <<CurrentTerm[s], StateName[s]>>
  BY DEF SoloElection, TypeOK
<1>2. NewLeaders
  BY <1>1 DEF NewLeaders, WithLeaderLog
<1>3. QED
  BY <1>1, <1>2 DEF CommitStep, LogChange, NewAcks, NewVotes, NewCandidates

LEMMA CommitStepNext ==
  ASSUME TypeOK, VoteInv, LeaderLogInv, LogInv, Next
  PROVE  CommitStep
<1>1. ASSUME NEW n \in Server, NEW m \in msgs, Process(n, m) PROVE CommitStep
  BY <1>1, StepRequestVoteRequest, StepResponse, StepAppendEntriesRequest DEF Process
<1>2. ASSUME NEW n \in Server, NEW c \in Command, OnCommandRequest(n, c) PROVE CommitStep
  BY <1>2, StepCommandRequest
<1>3. ASSUME NEW n \in Server, ProcessTimeout(n) PROVE CommitStep
  <2>1. {} \in SUBSET Peers(n)
    OBVIOUS
  <2>2. QED
    BY <1>3, <2>1, StepElection, StepBecomeLeader, StepLeaderTimeout, StepSoloElection
    DEF ProcessTimeout
<1>4. QED
  BY <1>1, <1>2, <1>3 DEF Next

-----------------------------------------------------------------------------
(* What a step keeps                                                        *)

LEMMA SameThrough ==
  ASSUME NEW a, NEW b, NEW c, NEW k, SameUpTo(a, b, k), SameUpTo(b, c, k)
  PROVE  SameUpTo(a, c, k)
  BY DEF SameUpTo

LEMMA SameBack ==
  ASSUME NEW a, NEW b, NEW k, SameUpTo(a, b, k)
  PROVE  SameUpTo(b, a, k)
  BY DEF SameUpTo

\* Logs that agree still do so when they get longer.
LEMMA SameLonger ==
  ASSUME NEW a, NEW b, NEW k, SameUpTo(a, b, k), k \in Nat,
         NEW c, SameUpTo(a, c, Len(a)), NEW d, SameUpTo(b, d, Len(b)),
         Len(a) \in Nat, Len(b) \in Nat, Len(c) \in Nat, Len(d) \in Nat
  PROVE  SameUpTo(c, d, k)
<1>1. k <= Len(a) /\ k <= Len(b) /\ \A i \in 1..k : a[i] = b[i]
  BY DEF SameUpTo
<1>2. Len(a) <= Len(c) /\ \A i \in 1..Len(a) : a[i] = c[i]
  BY DEF SameUpTo
<1>3. Len(b) <= Len(d) /\ \A i \in 1..Len(b) : b[i] = d[i]
  BY DEF SameUpTo
<1>4. k <= Len(c) /\ k <= Len(d)
  BY <1>1, <1>2, <1>3
<1>5. \A i \in 1..k : i \in 1..Len(a) /\ i \in 1..Len(b)
  BY <1>1
<1>6. QED
  BY <1>1, <1>2, <1>3, <1>4, <1>5 DEF SameUpTo

\* A leader appends entries of its term to the log of that term.
TermsGrow ==
    \A t \in DOMAIN LeaderLog :
        /\ t \in DOMAIN LeaderLog'
        /\ \/ LeaderLog'[t] = LeaderLog[t]
           \/ \E e \in Entry : e.Term = t /\ LeaderLog'[t] = Append(LeaderLog[t], e)

\* Everything that is known of a step.
KnownStep ==
    /\ TypeOK /\ TypeOK' /\ VoteInv /\ VoteInv' /\ LeaderLogInv /\ LeaderLogInv'
    /\ LogInv /\ LogInv'
    /\ VoteStep /\ CommitStep /\ TermsGrow
    /\ KeepsLeaders \/ \E n \in Server : LeaderWrites(n)

LEMMA KnownNext ==
  ASSUME TypeOK, TypeOK', VoteInv, VoteInv', LeaderLogInv, LeaderLogInv', LogInv, LogInv',
         Next
  PROVE  KnownStep
<1>1. VoteStep /\ CommitStep
  BY VotesNext, CommitStepNext
<1>2. KeepsLeaders \/ \E n \in Server : LeaderWrites(n)
  BY LeadersNext
<1>3. ASSUME NEW t \in DOMAIN LeaderLog
      PROVE  /\ t \in DOMAIN LeaderLog'
             /\ \/ LeaderLog'[t] = LeaderLog[t]
                \/ \E e \in Entry : e.Term = t /\ LeaderLog'[t] = Append(LeaderLog[t], e)
  <2>1. t \in DOMAIN LeaderLog'
    BY <1>2, LeaderLogGrows
  <2>2. ASSUME NEW n \in Server, LeaderWrites(n), t = CurrentTerm'[n]
        PROVE  \/ LeaderLog'[t] = LeaderLog[t]
               \/ \E e \in Entry : e.Term = t /\ LeaderLog'[t] = Append(LeaderLog[t], e)
    <3>1. LeaderLog'[t] = Log'[n]
      BY <2>2 DEF LeaderWrites, WithLeaderLog
    <3>2. /\ UNCHANGED <<StateName[n], CurrentTerm[n]>>
          /\ StateName'[n] = "LEADER"
      BY <2>2 DEF LeaderWrites
    <3>3. LeaderLog[t] = Log[n]
      BY <2>2, <3>2 DEF LeaderLogInv, IsLeader
    <3>4. QED
      BY <1>1, <2>2, <3>1, <3>2, <3>3 DEF CommitStep, LogChange
  <2>3. QED
    BY <1>2, <2>1, <2>2 DEF KeepsLeaders, LeaderWrites, WithLeaderLog
<1>4. QED
  BY <1>1, <1>2, <1>3 DEF KnownStep, TermsGrow

LEMMA PrefixKept ==
  ASSUME KnownStep, NEW t \in DOMAIN LeaderLog
  PROVE  /\ t \in Nat
         /\ LeaderLog[t] \in Seq(Entry) /\ Len(LeaderLog[t]) \in Nat
         /\ t \in DOMAIN LeaderLog'
         /\ LeaderLog'[t] \in Seq(Entry) /\ Len(LeaderLog'[t]) \in Nat
         /\ SameUpTo(LeaderLog[t], LeaderLog'[t], Len(LeaderLog[t]))
         /\ Len(LeaderLog[t]) <= Len(LeaderLog'[t])
<1>1. /\ t \in DOMAIN LeaderLog'
      /\ SameUpTo(LeaderLog[t], LeaderLog'[t], Len(LeaderLog[t]))
  BY LeaderLogGrows DEF KnownStep
<1>2. t \in Nat /\ LeaderLog[t] \in Seq(Entry) /\ LeaderLog'[t] \in Seq(Entry)
  BY <1>1 DEF KnownStep, TypeOK
<1>3. QED
  BY <1>1, <1>2 DEF SameUpTo

\* What leaders have lost stays lost: their logs grow by entries of their own terms.
LEMMA LostStable ==
  ASSUME KnownStep, TermsInv, NEW t \in DOMAIN LeaderLog, NEW k \in 0..Len(LeaderLog[t]),
         NEW u, Lost(t, k, u)
  PROVE  Lost(t, k, u)'
<1>1. PICK w \in DOMAIN LeaderLog :
         t < w /\ w < u /\ ~ SameUpTo(LeaderLog[t], LeaderLog[w], k)
  BY DEF Lost
<1> DEFINE T == LeaderLog[t]
           W == LeaderLog[w]
           T2 == LeaderLog'[t]
           W2 == LeaderLog'[w]
<1>2. /\ w \in DOMAIN LeaderLog' /\ t \in Nat /\ w \in Nat
      /\ T \in Seq(Entry) /\ W \in Seq(Entry) /\ T2 \in Seq(Entry) /\ W2 \in Seq(Entry)
      /\ Len(T) \in Nat /\ Len(W) \in Nat /\ Len(T2) \in Nat /\ Len(W2) \in Nat
      /\ SameUpTo(T, T2, Len(T)) /\ SameUpTo(W, W2, Len(W))
  BY PrefixKept
<1>3. \A i \in 1..Len(T) : T[i].Term <= t
  BY DEF TermsInv
<1>4. W2 = W \/ \E e \in Entry : e.Term = w /\ W2 = Append(W, e)
  BY DEF KnownStep, TermsGrow
<1>5. k <= Len(T) /\ k \in Nat
  BY <1>2
<1> HIDE DEF T, W, T2, W2
<1>6. ~ SameUpTo(T2, W2, k)
  <2>1. SUFFICES ASSUME SameUpTo(T2, W2, k) PROVE FALSE
    OBVIOUS
  <2>2. k <= Len(W2) /\ \A i \in 1..k : T[i] = W2[i]
    BY <1>2, <1>5, <2>1 DEF SameUpTo
  <2>3. ~ SameUpTo(T, W, k)
    BY <1>1 DEF T, W
  <2>4. k > Len(W)
    BY <1>2, <1>5, <2>2, <2>3 DEF SameUpTo
  <2>5. PICK e \in Entry : e.Term = w /\ W2 = Append(W, e)
    BY <1>2, <1>4, <2>2, <2>4
  <2>6. Len(W2) = Len(W) + 1 /\ W2[Len(W) + 1] = e
    BY <1>2, <2>5
  <2>7. Len(W) + 1 \in 1..k /\ Len(W) + 1 \in 1..Len(T)
    BY <1>2, <1>5, <2>4
  <2>8. T[Len(W) + 1] = e
    BY <2>2, <2>6, <2>7
  <2>9. T[Len(W) + 1].Term <= t
    BY <1>3, <2>7
  <2>10. QED
    BY <1>1, <1>2, <2>5, <2>8, <2>9
<1>7. QED
  BY <1>1, <1>2, <1>6 DEF Lost, T2, W2

\* A server that is elected in t has reached t.
LEMMA LedBefore ==
  ASSUME TypeOK, VoteInv, LeaderLogInv, NEW s \in Server, NEW t, Led(s, t)
  PROVE  t \in Nat /\ t <= CurrentTerm[s]
<1>1. t \in Nat
  BY DEF Led, TypeOK
<1>2. PICK n \in Server : t <= CurrentTerm[n] /\ (MinVotes > 1 => Elected(n, t))
  BY DEF Led, LeaderLogInv
<1>3. n = s
  <2>1. CASE MinVotes > 1
    BY <1>1, <1>2, <2>1, OneElected DEF Led, VoteInv
  <2>2. CASE MinVotes = 1
    BY <2>2, VoteQuorums, ServerAssumption, FS_Singleton DEF Nservers
  <2>3. QED
    BY <2>1, <2>2, VoteQuorums
<1>4. QED
  BY <1>1, <1>2, <1>3

LEMMA HoldsInTerm ==
  ASSUME TypeOK, VoteInv, LeaderLogInv, AcksInv, NEW s \in Server, NEW t, NEW k,
         Holds(s, t, k)
  PROVE  t <= CurrentTerm[s]
<1>1. CASE Led(s, t)
  BY <1>1, LedBefore
<1>2. CASE Acked(s, t, k)
  BY <1>2 DEF Acked, AcksInv
<1>3. QED
  BY <1>1, <1>2 DEF Holds

LEMMA HoldsStable ==
  ASSUME KnownStep, NEW s, NEW t, NEW k, Holds(s, t, k)
  PROVE  Holds(s, t, k)'
<1>1. msgs \subseteq msgs'
  BY DEF KnownStep, VoteStep
<1>2. CASE Acked(s, t, k)
  BY <1>1, <1>2 DEF Acked, Holds
<1>3. CASE Led(s, t)
  <2>1. t \in DOMAIN LeaderLog'
    BY <1>3, PrefixKept DEF Led
  <2>2. MinVotes > 1 => Elected(s, t)'
    BY <1>1, <1>3, ElectedStable DEF Led
  <2>3. QED
    BY <2>1, <2>2 DEF Led, Holds
<1>4. QED
  BY <1>2, <1>3 DEF Holds

\* OneElected, of the state after a step.
LEMMA OneElectedNext ==
  ASSUME VotedOnce', NEW a \in Server, NEW b \in Server, NEW t \in Nat,
         Elected(a, t)', Elected(b, t)'
  PROVE  a = b
<1>1. PICK P \in SUBSET Server :
         Cardinality(P) >= MinVotes /\ \A q \in P : Voted(q, t, a)'
  BY DEF Elected
<1>2. PICK Q \in SUBSET Server :
         Cardinality(Q) >= MinVotes /\ \A q \in Q : Voted(q, t, b)'
  BY DEF Elected
<1>3. Cardinality(P) \in Nat /\ Cardinality(Q) \in Nat
  BY ServerAssumption, FS_Subset, FS_CardinalityType
<1>4. Cardinality(P) + Cardinality(Q) > Nservers
  BY <1>1, <1>2, <1>3, VoteQuorums, ServerCount
<1>5. PICK q \in Server : q \in P /\ q \in Q
  BY <1>4, QuorumsMeet
<1>6. QED
  BY <1>1, <1>2, <1>5 DEF VotedOnce

\* What a server comes to hold, it holds as a member of the term and has in its log.
LEMMA HoldsBefore ==
  ASSUME KnownStep, AcksInv, NEW s \in Server, NEW t \in DOMAIN LeaderLog',
         NEW k \in 1..Len(LeaderLog'[t]), Holds(s, t, k)'
  PROVE  \/ t \in DOMAIN LeaderLog /\ k \in 1..Len(LeaderLog[t]) /\ Holds(s, t, k)
         \/ CurrentTerm'[s] = t /\ SameUpTo(LeaderLog'[t], Log'[s], k)
<1>1. /\ LeaderLog'[t] \in Seq(Entry) /\ Len(LeaderLog'[t]) \in Nat /\ t \in Nat
      /\ VotedOnce'
  BY DEF KnownStep, TypeOK, VoteInv
<1>2. CASE Led(s, t)'
  <2>1. ASSUME NEW n \in Server, MinVotes > 1 => Elected(n, t)' PROVE n = s
    <3>1. CASE MinVotes > 1
      <4>1. Elected(n, t)' /\ Elected(s, t)'
        BY <1>2, <2>1, <3>1 DEF Led
      <4>2. QED
        BY <1>1, <4>1, OneElectedNext
    <3>2. CASE MinVotes = 1
      BY <3>2, VoteQuorums, ServerAssumption, FS_Singleton DEF Nservers
    <3>3. QED
      BY <3>1, <3>2, VoteQuorums
  <2>2. ASSUME t \in DOMAIN LeaderLog, LeaderLog'[t] = LeaderLog[t]
        PROVE  k \in 1..Len(LeaderLog[t]) /\ Holds(s, t, k)
    <3>1. PICK n \in Server : MinVotes > 1 => Elected(n, t)
      BY <2>2 DEF KnownStep, LeaderLogInv
    <3>2. MinVotes > 1 => Elected(n, t)'
      BY <3>1, ElectedStable DEF KnownStep, VoteStep
    <3>3. n = s
      BY <2>1, <3>2
    <3>4. QED
      BY <2>2, <3>1, <3>3 DEF Holds, Led
  <2>3. ASSUME NEW n \in Server, LeaderWrites(n), t = CurrentTerm'[n]
        PROVE  CurrentTerm'[s] = t /\ SameUpTo(LeaderLog'[t], Log'[s], k)
    <3>1. LeaderLog'[t] = Log'[n]
      BY <2>3 DEF LeaderWrites, WithLeaderLog
    <3>2. MinVotes > 1 => Elected(n, t)'
      BY <2>3 DEF LeaderWrites, Elected, Voted
    <3>3. n = s
      BY <2>1, <3>2
    <3>4. SameUpTo(LeaderLog'[t], LeaderLog'[t], k)
      BY <1>1 DEF SameUpTo
    <3>5. QED
      BY <2>3, <3>1, <3>3, <3>4
  <2>4. \/ t \in DOMAIN LeaderLog /\ LeaderLog'[t] = LeaderLog[t]
        \/ \E n \in Server : LeaderWrites(n) /\ t = CurrentTerm'[n]
    BY DEF KnownStep, KeepsLeaders, LeaderWrites, WithLeaderLog
  <2>5. QED
    BY <2>2, <2>3, <2>4
<1>3. CASE Acked(s, t, k)'
  <2>1. PICK m \in msgs' : IsAck(m) /\ m.Src = s /\ m.Term = t /\ k <= m.MatchIndex
    BY <1>3 DEF Acked
  <2>2. m.MatchIndex \in Nat
    <3>1. m \in Message /\ m.Type = "AppendEntriesResponse"
      BY <2>1 DEF KnownStep, TypeOK, IsAck
    <3>2. m \in TAppendEntriesResponse
      BY <3>1, MessageTypes
    <3>3. QED
      BY <3>2 DEF TAppendEntriesResponse
  <2>3. CASE m \in msgs
    <3>1. t \in DOMAIN LeaderLog /\ m.MatchIndex <= Len(LeaderLog[t])
      BY <2>1, <2>3 DEF AcksInv
    <3>2. Len(LeaderLog[t]) \in Nat
      BY <3>1, PrefixKept
    <3>3. QED
      BY <2>1, <2>2, <2>3, <3>1, <3>2 DEF Holds, Acked
  <2>4. CASE m \notin msgs
    <3>1. /\ LeaderLog' = LeaderLog
          /\ t = CurrentTerm'[s]
          /\ SameUpTo(LeaderLog[t], Log'[s], m.MatchIndex)
      BY <2>1, <2>4 DEF KnownStep, CommitStep, NewAcks
    <3>2. Len(Log'[s]) \in Nat
      BY DEF KnownStep, TypeOK
    <3>3. k \in 0..m.MatchIndex
      BY <1>1, <2>1, <2>2
    <3>4. SameUpTo(LeaderLog'[t], Log'[s], k)
      BY <1>1, <2>2, <3>1, <3>2, <3>3, SameLess
    <3>5. QED
      BY <3>1, <3>4
  <2>5. QED
    BY <2>3, <2>4
<1>4. QED
  BY <1>2, <1>3 DEF Holds

-----------------------------------------------------------------------------
(* Terms, requests, acknowledgements                                        *)

LEMMA Facts ==
  ASSUME KnownStep
  PROVE  /\ \A s \in Server :
               /\ CurrentTerm[s] \in Nat /\ CurrentTerm'[s] \in Nat
               /\ CurrentTerm[s] <= CurrentTerm'[s]
               /\ Log[s] \in Seq(Entry) /\ Len(Log[s]) \in Nat
               /\ Log'[s] \in Seq(Entry) /\ Len(Log'[s]) \in Nat
         /\ msgs \subseteq msgs'
  BY SMTT(30) DEF KnownStep, VoteStep, TypeOK

LEMMA TermsKept ==
  ASSUME KnownStep, TermsInv
  PROVE  TermsInv'
<1>1. ASSUME NEW t \in DOMAIN LeaderLog, NEW i \in 1..Len(LeaderLog'[t])
      PROVE  LeaderLog'[t][i].Term <= t
  <2>1. /\ t \in Nat /\ LeaderLog[t] \in Seq(Entry)
        /\ \A j \in 1..Len(LeaderLog[t]) : LeaderLog[t][j].Term <= t
    BY PrefixKept DEF TermsInv
  <2>2. \/ LeaderLog'[t] = LeaderLog[t]
        \/ \E e \in Entry : e.Term = t /\ LeaderLog'[t] = Append(LeaderLog[t], e)
    BY DEF KnownStep, TermsGrow
  <2>3. ASSUME NEW e \in Entry, e.Term = t, LeaderLog'[t] = Append(LeaderLog[t], e)
        PROVE  LeaderLog'[t][i].Term <= t
    <3>1. CASE i \in 1..Len(LeaderLog[t])
      BY <2>1, <2>3, <3>1
    <3>2. CASE i = Len(LeaderLog[t]) + 1
      BY <2>1, <2>3, <3>2
    <3>3. Len(LeaderLog'[t]) = Len(LeaderLog[t]) + 1
      BY <2>1, <2>3
    <3>4. QED
      BY <2>1, <3>1, <3>2, <3>3
  <2>4. QED
    BY <2>1, <2>2, <2>3
<1>2. ASSUME NEW s \in Server, NEW i \in 1..Len(Log'[s])
      PROVE  Log'[s][i].Term <= CurrentTerm'[s]
  <2>1. /\ CurrentTerm[s] \in Nat /\ CurrentTerm'[s] \in Nat
        /\ CurrentTerm[s] <= CurrentTerm'[s]
        /\ Log[s] \in Seq(Entry) /\ Len(Log[s]) \in Nat
    BY Facts
  <2>2. ASSUME i \in 1..Len(Log[s]), Log'[s][i] = Log[s][i]
        PROVE  Log'[s][i].Term <= CurrentTerm'[s]
    <3>1. Log[s][i].Term <= CurrentTerm[s] /\ Log[s][i] \in Entry
      BY <2>1, <2>2 DEF TermsInv
    <3>2. Log[s][i].Term \in Nat
      BY <3>1 DEF Entry
    <3>3. QED
      BY <2>1, <2>2, <3>1, <3>2
  <2>3. ASSUME CurrentTerm'[s] \in DOMAIN LeaderLog,
               i \in 1..Len(LeaderLog[CurrentTerm'[s]]),
               Log'[s][i] = LeaderLog[CurrentTerm'[s]][i]
        PROVE  Log'[s][i].Term <= CurrentTerm'[s]
    BY <2>3 DEF TermsInv
  <2>4. ASSUME CurrentTerm'[s] = CurrentTerm[s], NEW e \in Entry, e.Term = CurrentTerm[s],
               Log'[s] = Append(Log[s], e)
        PROVE  Log'[s][i].Term <= CurrentTerm'[s]
    <3>1. CASE i \in 1..Len(Log[s])
      BY <2>1, <2>2, <2>4, <3>1
    <3>2. CASE i = Len(Log[s]) + 1
      BY <2>1, <2>4, <3>2
    <3>3. Len(Log'[s]) = Len(Log[s]) + 1
      BY <2>1, <2>4
    <3>4. QED
      BY <2>1, <3>1, <3>2, <3>3
  <2>5. CASE Log'[s] = Log[s]
    BY <2>2, <2>5
  <2>6. CASE CurrentTerm'[s] \in DOMAIN LeaderLog /\ TakenFrom(s, LeaderLog[CurrentTerm'[s]])
    BY <2>2, <2>3, <2>6 DEF TakenFrom
  <2>7. QED
    BY <2>4, <2>5, <2>6 DEF KnownStep, CommitStep, LogChange
<1>3. ASSUME NEW t \in DOMAIN LeaderLog' \ DOMAIN LeaderLog, NEW i \in 1..Len(LeaderLog'[t])
      PROVE  LeaderLog'[t][i].Term <= t
  <2>1. PICK n \in Server : Log' = Log /\ LeaderLog'[t] = Log[n] /\ CurrentTerm'[n] = t
    BY DEF KnownStep, CommitStep, NewLeaders
  <2>2. QED
    BY <1>2, <2>1
<1>4. QED
  BY <1>1, <1>2, <1>3 DEF TermsInv

LEMMA RequestsKept ==
  ASSUME KnownStep, RequestsInv
  PROVE  RequestsInv'
<1>1. ASSUME NEW m \in msgs', IsRequest(m)
      PROVE  /\ m.Term <= CurrentTerm'[m.Src]
             /\ StateName'[m.Src] = "CANDIDATE" /\ CurrentTerm'[m.Src] = m.Term =>
                   /\ m.LastLogIndex = Len(Log'[m.Src])
                   /\ m.LastLogTerm = LastLogTerm(Log'[m.Src])
  <2>1. CASE m \in msgs
    <3>1. m.Src \in Server /\ m.Term \in Nat
      BY <2>1, MessageTypes DEF KnownStep, TypeOK
    <3>2. m.Term <= CurrentTerm[m.Src]
      BY <1>1, <2>1 DEF RequestsInv
    <3>3. /\ CurrentTerm[m.Src] \in Nat /\ CurrentTerm'[m.Src] \in Nat
          /\ CurrentTerm[m.Src] <= CurrentTerm'[m.Src]
      BY <3>1, Facts
    <3>4. ASSUME StateName'[m.Src] = "CANDIDATE", CurrentTerm'[m.Src] = m.Term
          PROVE  /\ StateName[m.Src] = "CANDIDATE" /\ CurrentTerm[m.Src] = m.Term
                 /\ Log'[m.Src] = Log[m.Src]
      <4>1. CurrentTerm'[m.Src] # CurrentTerm[m.Src] + 1
        BY <3>1, <3>2, <3>3, <3>4
      <4>2. QED
        BY <3>1, <3>4, <4>1 DEF KnownStep, CommitStep, NewCandidates
    <3>5. QED
      BY <1>1, <2>1, <3>1, <3>2, <3>3, <3>4 DEF RequestsInv
  <2>2. CASE m \notin msgs
    <3>1. /\ m.Src \in Server
          /\ m.Term = CurrentTerm'[m.Src]
          /\ m.LastLogIndex = Len(Log'[m.Src])
          /\ m.LastLogTerm = LastLogTerm(Log'[m.Src])
      BY <1>1, <2>2 DEF KnownStep, CommitStep, NewVotes
    <3>2. CurrentTerm'[m.Src] \in Nat
      BY <3>1, Facts
    <3>3. QED
      BY <3>1, <3>2
  <2>3. QED
    BY <2>1, <2>2
<1>2. ASSUME NEW m \in msgs', IsGrant(m)
      PROVE  m.Term <= CurrentTerm'[m.Dst]
  <2>1. m.Dst \in Server /\ m.Term \in Nat
    BY MessageTypes DEF KnownStep, TypeOK
  <2>2. m.Term <= CurrentTerm[m.Dst]
    <3>1. CASE m \in msgs
      BY <1>2, <3>1 DEF RequestsInv
    <3>2. CASE m \notin msgs
      <4>1. PICK r \in msgs : IsRequest(r) /\ r.Src = m.Dst /\ r.Term = m.Term
        BY <1>2, <3>2 DEF KnownStep, CommitStep, NewVotes
      <4>2. QED
        BY <4>1 DEF RequestsInv
    <3>3. QED
      BY <3>1, <3>2
  <2>3. QED
    BY <2>1, <2>2, Facts
<1>3. QED
  BY <1>1, <1>2 DEF RequestsInv

LEMMA AcksKept ==
  ASSUME KnownStep, AcksInv
  PROVE  AcksInv'
<1> SUFFICES ASSUME NEW m \in msgs', IsAck(m)
             PROVE  /\ m.Term \in DOMAIN LeaderLog'
                    /\ m.MatchIndex <= Len(LeaderLog'[m.Term])
                    /\ m.Term <= CurrentTerm'[m.Src]
  BY DEF AcksInv
<1>1. m.Src \in Server /\ m.Term \in Nat /\ m.MatchIndex \in Nat
  BY MessageTypes DEF KnownStep, TypeOK, IsAck, TAppendEntriesResponse
<1>2. CASE m \in msgs
  <2>1. /\ m.Term \in DOMAIN LeaderLog
        /\ m.MatchIndex <= Len(LeaderLog[m.Term])
        /\ m.Term <= CurrentTerm[m.Src]
    BY <1>2 DEF AcksInv
  <2>2. QED
    BY <1>1, <2>1, PrefixKept, Facts
<1>3. CASE m \notin msgs
  <2>1. /\ LeaderLog' = LeaderLog
        /\ m.Term = CurrentTerm'[m.Src]
        /\ m.Term \in DOMAIN LeaderLog
        /\ SameUpTo(LeaderLog[m.Term], Log'[m.Src], m.MatchIndex)
    BY <1>3 DEF KnownStep, CommitStep, NewAcks
  <2>2. QED
    BY <1>1, <2>1 DEF SameUpTo
<1>4. QED
  BY <1>2, <1>3

-----------------------------------------------------------------------------
(* What servers hold, they keep or a later leader has lost                  *)

\* What a log has of the log of a term of the server's past.
LEMMA LogKeeps ==
  ASSUME KnownStep, TermsInv, NEW s \in Server, NEW t \in DOMAIN LeaderLog,
         NEW k \in 1..Len(LeaderLog[t]), t <= CurrentTerm[s],
         SameUpTo(LeaderLog[t], Log[s], k)
  PROVE  SameUpTo(LeaderLog'[t], Log'[s], k) \/ Lost(t, k, CurrentTerm[s] + 1)'
<1>1. /\ t \in Nat /\ t \in DOMAIN LeaderLog' /\ k \in Nat
      /\ Len(LeaderLog[t]) \in Nat /\ Len(LeaderLog'[t]) \in Nat
      /\ SameUpTo(LeaderLog[t], LeaderLog'[t], Len(LeaderLog[t]))
  BY PrefixKept
<1>2. /\ CurrentTerm[s] \in Nat /\ CurrentTerm'[s] \in Nat
      /\ CurrentTerm[s] <= CurrentTerm'[s]
      /\ Log[s] \in Seq(Entry) /\ Len(Log[s]) \in Nat
      /\ Log'[s] \in Seq(Entry) /\ Len(Log'[s]) \in Nat
  BY Facts
<1>3. CASE SameUpTo(Log[s], Log'[s], Len(Log[s]))
  BY <1>1, <1>2, <1>3, SameLonger
<1>4. CASE \E e \in Entry : Log'[s] = Append(Log[s], e)
  <2>1. SameUpTo(Log[s], Log'[s], Len(Log[s]))
    BY <1>2, <1>4 DEF SameUpTo
  <2>2. QED
    BY <1>3, <2>1
<1>5. CASE /\ LeaderLog' = LeaderLog
           /\ CurrentTerm'[s] \in DOMAIN LeaderLog
           /\ TakenFrom(s, LeaderLog[CurrentTerm'[s]])
  <2> DEFINE u == CurrentTerm'[s]
  <2>1. CASE SameUpTo(LeaderLog[t], LeaderLog[u], k)
    <3>1. SameUpTo(Log[s], LeaderLog[u], k)
      BY <2>1, SameBack, SameThrough
    <3>2. SameUpTo(Log'[s], LeaderLog[u], k)
      BY <1>1, <1>5, <3>1 DEF TakenFrom
    <3>3. SameUpTo(LeaderLog[t], Log'[s], k)
      BY <2>1, <3>2, SameBoth
    <3>4. QED
      BY <1>5, <3>3
  <2>2. CASE ~ SameUpTo(LeaderLog[t], LeaderLog[u], k)
    <3>1. SameUpTo(LeaderLog[t], LeaderLog[t], k)
      BY <1>1 DEF SameUpTo
    <3>2. t < u
      BY <1>1, <1>2, <2>2, <3>1
    <3>3. QED
      BY <1>2, <1>5, <2>2, <3>2 DEF Lost
  <2>3. QED
    BY <2>1, <2>2
<1>6. QED
  <2>1. CASE Log'[s] = Log[s]
    <3>1. SameUpTo(Log[s], Log'[s], Len(Log[s]))
      BY <1>2, <2>1 DEF SameUpTo
    <3>2. QED
      BY <1>3, <3>1
  <2>2. QED
    BY <1>4, <1>5, <2>1 DEF KnownStep, CommitStep, LogChange

LEMMA LostLater ==
  ASSUME NEW t, NEW k, NEW u \in Nat, NEW v \in Nat, u <= v, Lost(t, k, u)',
         DOMAIN LeaderLog' \subseteq Nat
  PROVE  Lost(t, k, v)'
  BY DEF Lost

LEMMA KeptKept ==
  ASSUME KnownStep, TermsInv, AcksInv, KeptInv
  PROVE  KeptInv'
<1> SUFFICES ASSUME NEW s \in Server, NEW t \in DOMAIN LeaderLog',
                    NEW k \in 1..Len(LeaderLog'[t]), Holds(s, t, k)'
             PROVE  \/ SameUpTo(LeaderLog'[t], Log'[s], k)
                    \/ Lost(t, k, CurrentTerm[s] + 1)'
  BY DEF KeptInv, Lost
<1>1. CASE CurrentTerm'[s] = t /\ SameUpTo(LeaderLog'[t], Log'[s], k)
  BY <1>1
<1>2. CASE t \in DOMAIN LeaderLog /\ k \in 1..Len(LeaderLog[t]) /\ Holds(s, t, k)
  <2>1. /\ CurrentTerm[s] \in Nat /\ CurrentTerm'[s] \in Nat
        /\ CurrentTerm[s] <= CurrentTerm'[s]
    BY Facts
  <2>2. t <= CurrentTerm[s]
    BY <1>2, HoldsInTerm DEF KnownStep
  <2>3. CASE SameUpTo(LeaderLog[t], Log[s], k)
    BY <1>2, <2>2, <2>3, LogKeeps
  <2>4. CASE Lost(t, k, CurrentTerm[s] + 1)
    <3> DEFINE u == CurrentTerm[s] + 1
               v == CurrentTerm'[s] + 1
    <3>1. u \in Nat /\ v \in Nat /\ u <= v
      BY <2>1
    <3>2. DOMAIN LeaderLog' \subseteq Nat
      BY DEF KnownStep, TypeOK
    <3>3. k \in 0..Len(LeaderLog[t])
      BY <1>2
    <3> HIDE DEF u, v
    <3>4. ASSUME NEW x, x = u PROVE Lost(t, k, x)'
      BY <1>2, <2>4, <3>3, <3>4, LostStable DEF u
    <3>5. ASSUME NEW x, x = v PROVE Lost(t, k, x)'
      BY <3>1, <3>2, <3>4, <3>5, LostLater
    <3>6. QED
      BY <3>5 DEF v, Lost
  <2>5. QED
    BY <1>2, <2>3, <2>4 DEF KeptInv
<1>3. QED
  BY <1>1, <1>2, HoldsBefore

-----------------------------------------------------------------------------
(* Votes back the logs of candidates and leaders                            *)

\* A vote for a log of a term is kept when the log gets longer.
LEMMA BacksStable ==
  ASSUME KnownStep, TermsInv, AcksInv, NEW q \in Server, NEW u \in Nat,
         u <= CurrentTerm'[q],
         NEW log, NEW longer, Len(log) \in Nat, Len(longer) \in Nat,
         SameUpTo(log, longer, Len(log)), Backs(q, u, log)
  PROVE  Backs(q, u, longer)'
<1> SUFFICES ASSUME NEW t \in DOMAIN LeaderLog', NEW k \in 1..Len(LeaderLog'[t]),
                    t < u, Holds(q, t, k)', LeaderLog'[t][k].Term = t
             PROVE  SameUpTo(LeaderLog'[t], longer, k) \/ Lost(t, k, u)'
  BY DEF Backs
<1>1. CurrentTerm'[q] # t
  BY Facts DEF KnownStep, TypeOK
<1>2. t \in DOMAIN LeaderLog /\ k \in 1..Len(LeaderLog[t]) /\ Holds(q, t, k)
  BY <1>1, HoldsBefore
<1>3. /\ Len(LeaderLog[t]) \in Nat /\ Len(LeaderLog'[t]) \in Nat /\ k \in Nat
      /\ SameUpTo(LeaderLog[t], LeaderLog'[t], Len(LeaderLog[t]))
  BY <1>2, PrefixKept
<1>4. LeaderLog[t][k].Term = t
  BY <1>2, <1>3 DEF SameUpTo
<1>5. CASE SameUpTo(LeaderLog[t], log, k)
  BY <1>3, <1>5, SameLonger
<1>6. CASE Lost(t, k, u)
  <2>1. k \in 0..Len(LeaderLog[t])
    BY <1>2
  <2>2. QED
    BY <1>2, <1>6, <2>1, LostStable
<1>7. QED
  BY <1>2, <1>4, <1>5, <1>6 DEF Backs

\* The comparison in OnRequestVote: a log that is up to date has what the voter holds,
\* or a leader whose entries it has did not.
LEMMA UpToDateBacks ==
  ASSUME TypeOK, LogInv, TermsInv, KeptInv, NEW q \in Server, NEW c \in Server,
         CurrentTerm[c] \notin DOMAIN LeaderLog, CurrentTerm[q] <= CurrentTerm[c],
         NEW r, r.LastLogIndex = Len(Log[c]), r.LastLogTerm = LastLogTerm(Log[c]),
         UpToDate(q, r)
  PROVE  Backs(q, CurrentTerm[c], Log[c])
<1> DEFINE u == CurrentTerm[c]
           a == Log[q]
           b == Log[c]
<1> SUFFICES ASSUME NEW t \in DOMAIN LeaderLog, NEW k \in 1..Len(LeaderLog[t]),
                    t < u, Holds(q, t, k), LeaderLog[t][k].Term = t
             PROVE  SameUpTo(LeaderLog[t], b, k) \/ Lost(t, k, u)
  BY DEF Backs
<1>1. /\ u \in Nat /\ CurrentTerm[q] \in Nat /\ t \in Nat /\ k \in Nat \ {0}
      /\ a \in Seq(Entry) /\ b \in Seq(Entry) /\ Len(a) \in Nat /\ Len(b) \in Nat
      /\ LeaderLog[t] \in Seq(Entry) /\ Len(LeaderLog[t]) \in Nat
  <2>1. u \in Nat /\ CurrentTerm[q] \in Nat /\ t \in Nat
    BY DEF TypeOK
  <2>2. a \in Seq(Entry) /\ b \in Seq(Entry) /\ LeaderLog[t] \in Seq(Entry)
    BY DEF TypeOK
  <2>3. QED
    BY <2>1, <2>2
<1>2. CASE Lost(t, k, CurrentTerm[q] + 1)
  <2>1. PICK w \in DOMAIN LeaderLog :
           /\ t < w /\ w < CurrentTerm[q] + 1
           /\ ~ SameUpTo(LeaderLog[t], LeaderLog[w], k)
    BY <1>2 DEF Lost
  <2>2. w \in Nat
    BY <2>1 DEF TypeOK
  <2>3. w # u
    BY <2>1
  <2>4. w < u
    BY <1>1, <2>1, <2>2, <2>3
  <2>5. QED
    BY <2>1, <2>4 DEF Lost
<1>3. CASE SameUpTo(LeaderLog[t], a, k)
  <2> DEFINE T == a[Len(a)].Term
             U == b[Len(b)].Term
  <2>1. k <= Len(a) /\ \A i \in 1..k : a[i] = LeaderLog[t][i]
    BY <1>3 DEF SameUpTo
  <2>2. Len(a) \in 1..Len(a)
    BY <1>1, <2>1
  <2>3. /\ T \in DOMAIN LeaderLog /\ T \in Nat \ {0}
        /\ SameUpTo(a, LeaderLog[T], Len(a))
        /\ LastLogTerm(a) = T
    <3>1. FromLeaders(a, LeaderLog) /\ a[Len(a)] \in Entry
      BY <1>1, <2>2 DEF LogInv
    <3>2. QED
      BY <2>2, <3>1 DEF FromLeaders, LastLogTerm, LogTerm, Entry
  \* The entry k is of term t, so the last one is of t or later.
  <2>4. t <= T
    <3>1. LeaderLog[T][k] = LeaderLog[t][k] /\ k \in 1..Len(LeaderLog[T])
      BY <1>1, <2>1, <2>3 DEF SameUpTo
    <3>2. LeaderLog[T][k].Term <= T
      BY <2>3, <3>1 DEF TermsInv
    <3>3. QED
      BY <3>1, <3>2
  <2>5. /\ LastLogTerm(b) \in Nat
        /\ LastLogTerm(b) >= T
        /\ LastLogTerm(b) = T => Len(b) >= Len(a)
    <3>1. LastLogTerm(b) \in Nat
      <4>1. b \in Seq(Entry) /\ Len(b) \in Int
        BY <1>1
      <4>2. QED
        BY <4>1, LogTermType DEF LastLogTerm
    <3>2. \/ LastLogTerm(b) > LastLogTerm(a)
          \/ LastLogTerm(b) = LastLogTerm(a) /\ Len(b) >= Len(a)
      BY DEF UpToDate
    <3>3. QED
      BY <2>3, <3>1, <3>2
  <2>6. Len(b) \in 1..Len(b) /\ LastLogTerm(b) = U
    BY <1>1, <2>3, <2>5 DEF LastLogTerm, LogTerm
  <2>7. /\ U \in DOMAIN LeaderLog /\ U \in Nat
        /\ SameUpTo(b, LeaderLog[U], Len(b))
        /\ U <= u
        /\ LeaderLog[U] \in Seq(Entry) /\ Len(LeaderLog[U]) \in Nat
    <3>1. FromLeaders(b, LeaderLog) /\ b[Len(b)] \in Entry
      BY <1>1, <2>6 DEF LogInv
    <3>2. U \in DOMAIN LeaderLog /\ SameUpTo(b, LeaderLog[U], Len(b))
      BY <2>6, <3>1 DEF FromLeaders
    <3>3. U <= u
      BY <2>6 DEF TermsInv
    <3>4. U \in Nat
      BY <3>1 DEF Entry
    <3>5. LeaderLog[U] \in Seq(Entry)
      BY <3>2 DEF TypeOK
    <3>6. QED
      BY <3>2, <3>3, <3>4, <3>5
  <2> HIDE DEF T, U
  <2>8. CASE U = T
    <3>1. SameUpTo(a, b, Len(a))
      BY <1>1, <2>3, <2>5, <2>6, <2>7, <2>8 DEF SameUpTo
    <3>2. SameUpTo(a, b, k)
      BY <1>1, <2>1, <3>1 DEF SameUpTo
    <3>3. QED
      BY <1>3, <3>2, SameThrough
  <2>9. CASE U > T
    <3>1. t < U /\ U < u
      <4>1. U # u
        BY <2>7
      <4>2. QED
        BY <1>1, <2>3, <2>4, <2>7, <2>9, <4>1
    <3>2. CASE ~ SameUpTo(LeaderLog[t], LeaderLog[U], k)
      BY <2>7, <3>1, <3>2 DEF Lost
    <3>3. CASE SameUpTo(LeaderLog[t], LeaderLog[U], k)
      \* Were b shorter, its last entry, of term U, would be in t's log.
      <4>1. Len(b) >= k
        <5>1. SUFFICES ASSUME Len(b) < k PROVE FALSE
          BY <1>1
        <5>2. Len(b) \in 1..k /\ Len(b) \in 1..Len(LeaderLog[t])
          BY <1>1, <2>6, <5>1
        <5>3. b[Len(b)] = LeaderLog[U][Len(b)]
          BY <2>6, <2>7 DEF SameUpTo
        <5>4. LeaderLog[U][Len(b)] = LeaderLog[t][Len(b)]
          BY <3>3, <5>2 DEF SameUpTo
        <5>5. LeaderLog[t][Len(b)].Term <= t
          BY <5>2 DEF TermsInv
        <5>6. U <= t
          BY <5>3, <5>4, <5>5 DEF U
        <5>7. QED
          BY <1>1, <2>7, <3>1, <5>6
      <4>2. SameUpTo(b, LeaderLog[U], k)
        BY <1>1, <2>7, <4>1 DEF SameUpTo
      <4>3. QED
        BY <3>3, <4>2, SameBoth
    <3>4. QED
      BY <3>2, <3>3
  <2>10. QED
    BY <2>3, <2>5, <2>6, <2>7, <2>8, <2>9
<1>4. QED
  BY <1>2, <1>3 DEF KeptInv

\* A server that stands for its next term backs its own log.
LEMMA OwnLogBacked ==
  ASSUME KeptInv, NEW c \in Server, NEW u, u = CurrentTerm[c] + 1
  PROVE  Backs(c, u, Log[c])
  BY DEF KeptInv, Backs

\* The log of a term keeps the backing of its voters, and a new one has it.
LEMMA ElectedKept ==
  ASSUME KnownStep, TermsInv, AcksInv, KeptInv, CandidatesInv, ElectedInv
  PROVE  ElectedInv'
<1>1. ASSUME NEW u \in DOMAIN LeaderLog
      PROVE  \E Q \in SUBSET Server :
                /\ Cardinality(Q) >= MinVotes
                /\ \A q \in Q : CurrentTerm'[q] >= u /\ Backs(q, u, LeaderLog[u])'
  <2>1. PICK Q \in SUBSET Server :
           /\ Cardinality(Q) >= MinVotes
           /\ \A q \in Q : CurrentTerm[q] >= u /\ Backs(q, u, LeaderLog[u])
    BY DEF ElectedInv
  <2>2. PICK longer : longer = LeaderLog'[u]
    OBVIOUS
  <2>3. ASSUME NEW q \in Q PROVE CurrentTerm'[q] >= u /\ Backs(q, u, longer)'
    <3>1. /\ u \in Nat /\ Len(LeaderLog[u]) \in Nat /\ Len(longer) \in Nat
          /\ SameUpTo(LeaderLog[u], longer, Len(LeaderLog[u]))
      BY <2>2, PrefixKept
    <3>2. u <= CurrentTerm'[q] /\ CurrentTerm'[q] >= u
      BY <2>1, <3>1, Facts
    <3>3. QED
      BY <2>1, <3>1, <3>2, BacksStable
  <2>4. \A q \in Q : Backs(q, u, LeaderLog[u])'
    BY <2>2, <2>3 DEF Backs
  <2>5. QED
    BY <2>1, <2>3, <2>4
<1>2. ASSUME NEW u \in DOMAIN LeaderLog' \ DOMAIN LeaderLog
      PROVE  \E Q \in SUBSET Server :
                /\ Cardinality(Q) >= MinVotes
                /\ \A q \in Q : CurrentTerm'[q] >= u /\ Backs(q, u, LeaderLog[u])'
  <2>1. PICK n \in Server :
           /\ UNCHANGED Log
           /\ LeaderLog'[u] = Log[n]
           /\ CurrentTerm'[n] = u
           /\ \/ StateName[n] = "CANDIDATE" /\ CurrentTerm[n] = u /\ Elected(n, u)
              \/ MinVotes = 1 /\ u = CurrentTerm[n] + 1
    BY DEF KnownStep, CommitStep, NewLeaders
  <2>2. u \in Nat /\ Len(Log[n]) \in Nat /\ SameUpTo(Log[n], Log[n], Len(Log[n]))
    BY <2>1, Facts DEF SameUpTo
  <2>3. ASSUME NEW q \in Server, u <= CurrentTerm'[q], Backs(q, u, Log[n])
        PROVE  Backs(q, u, LeaderLog[u])'
    <3>1. PICK log : log = Log[n] /\ log = LeaderLog'[u]
      BY <2>1
    <3>2. Backs(q, u, log)'
      BY <2>2, <2>3, <3>1, BacksStable
    <3>3. QED
      BY <3>1, <3>2 DEF Backs
  <2>4. CASE StateName[n] = "CANDIDATE" /\ CurrentTerm[n] = u /\ Elected(n, u)
    <3>1. PICK Q \in SUBSET Server :
             Cardinality(Q) >= MinVotes /\ \A q \in Q : Voted(q, u, n)
      BY <2>4 DEF Elected
    <3>2. ASSUME NEW q \in Q
          PROVE  u <= CurrentTerm'[q] /\ CurrentTerm'[q] >= u /\ Backs(q, u, Log[n])
      <4>1. u <= CurrentTerm[q]
        BY <2>2, <3>1 DEF KnownStep, VoteInv, VotesRecorded
      <4>2. Backs(q, u, Log[n])
        BY <2>4, <3>1 DEF CandidatesInv
      <4>3. QED
        BY <2>2, <4>1, <4>2, Facts
    <3>3. QED
      BY <2>3, <3>1, <3>2
  <2>5. CASE MinVotes = 1 /\ u = CurrentTerm[n] + 1
    <3>1. Backs(n, u, Log[n])
      BY <2>5, OwnLogBacked
    <3>2. Backs(n, u, LeaderLog[u])'
      BY <2>1, <2>2, <2>3, <3>1
    <3>3. Cardinality({n}) = 1
      BY FS_Singleton
    <3>4. QED
      BY <2>1, <2>2, <2>5, <3>2, <3>3
  <2>6. QED
    BY <2>1, <2>4, <2>5
<1>3. QED
  BY <1>1, <1>2 DEF ElectedInv

LEMMA CandidatesKept ==
  ASSUME KnownStep, TermsInv, RequestsInv, AcksInv, KeptInv, CandidatesInv
  PROVE  CandidatesInv'
<1> SUFFICES ASSUME NEW c \in Server, NEW q \in Server,
                    StateName'[c] = "CANDIDATE",
                    CurrentTerm'[c] \notin DOMAIN LeaderLog',
                    Voted(q, CurrentTerm[c], c)'
             PROVE  Backs(q, CurrentTerm[c], Log[c])'
  BY DEF CandidatesInv
<1>1. PICK u : u = CurrentTerm'[c]
  OBVIOUS
<1>2. /\ u \in Nat /\ u \notin DOMAIN LeaderLog
      /\ Log'[c] = Log[c] /\ Len(Log[c]) \in Nat
      /\ SameUpTo(Log[c], Log[c], Len(Log[c]))
  BY <1>1, Facts, PrefixKept DEF KnownStep, CommitStep, NewCandidates, SameUpTo
<1>3. Voted(q, u, c)'
  BY <1>1 DEF Voted
<1>4. u <= CurrentTerm'[q]
  BY <1>2, <1>3 DEF KnownStep, VoteInv, VotesRecorded
<1>5. ASSUME Backs(q, u, Log[c]) PROVE Backs(q, CurrentTerm[c], Log[c])'
  <2>1. PICK log : log = Log[c] /\ log = Log'[c]
    BY <1>2
  <2>2. Backs(q, u, log)'
    BY <1>2, <1>4, <1>5, <2>1, BacksStable
  <2>3. QED
    BY <1>1, <2>1, <2>2 DEF Backs, Lost
\* A vote given in this step is for a request that describes the candidate's log.
<1>6. ASSUME ~ Voted(q, u, c), NEW m \in msgs', IsGrant(m), m.Src = q, m.Term = u, m.Dst = c
      PROVE  Backs(q, u, Log[c])
  <2>1. m \notin msgs
    BY <1>6 DEF Voted
  <2>2. /\ u = CurrentTerm'[q]
        /\ \E r \in msgs : /\ IsRequest(r) /\ r.Src = c /\ r.Term = u
                           /\ UpToDate(q, r)
    BY <1>6, <2>1 DEF KnownStep, CommitStep, NewVotes
  <2>3. PICK r \in msgs : IsRequest(r) /\ r.Src = c /\ r.Term = u /\ UpToDate(q, r)
    BY <2>2
  <2>4. u <= CurrentTerm[c] /\ CurrentTerm[c] \in Nat
    BY <2>3, Facts DEF RequestsInv
  <2>5. StateName[c] = "CANDIDATE" /\ CurrentTerm[c] = u
    BY <1>1, <2>4 DEF KnownStep, CommitStep, NewCandidates
  <2>6. r.LastLogIndex = Len(Log[c]) /\ r.LastLogTerm = LastLogTerm(Log[c])
    BY <2>3, <2>5 DEF RequestsInv
  <2>7. CurrentTerm[q] <= CurrentTerm[c]
    BY <2>2, <2>5, Facts
  <2>8. QED
    BY <1>2, <2>3, <2>5, <2>6, <2>7, UpToDateBacks DEF KnownStep
<1>7. CASE StateName[c] = "CANDIDATE" /\ CurrentTerm[c] = u
  <2>1. CASE Voted(q, u, c)
    BY <1>2, <1>5, <1>7, <2>1 DEF CandidatesInv
  <2>2. CASE ~ Voted(q, u, c)
    <3>1. q # c
      BY <1>7, <2>2 DEF KnownStep, VoteInv, CandidateVotes
    <3>2. QED
      BY <1>3, <1>5, <1>6, <2>2, <3>1 DEF Voted
  <2>3. QED
    BY <2>1, <2>2
<1>8. CASE u = CurrentTerm[c] + 1
  <2>1. CurrentTerm[c] \in Nat /\ ~ (u <= CurrentTerm[c])
    BY <1>8, Facts
  <2>2. CASE q = c
    BY <1>5, <1>8, <2>2, OwnLogBacked
  <2>3. CASE q # c
    <3>1. ~ Voted(q, u, c)
      BY <2>1, <2>3 DEF Voted, RequestsInv
    <3>2. QED
      BY <1>3, <1>5, <1>6, <2>3, <3>1 DEF Voted
  <2>4. QED
    BY <2>2, <2>3
<1>9. QED
  BY <1>1, <1>7, <1>8 DEF KnownStep, CommitStep, NewCandidates

-----------------------------------------------------------------------------
(* What is chosen is in the log of every later leader                       *)

LEMMA ChosenSafe ==
  ASSUME TypeOK, ElectedInv, NEW t, NEW k, Chosen(t, k), NEW u \in DOMAIN LeaderLog, t <= u
  PROVE  SameUpTo(LeaderLog[t], LeaderLog[u], k)
<1> DEFINE Bad == {w \in DOMAIN LeaderLog : t < w /\ ~ SameUpTo(LeaderLog[t], LeaderLog[w], k)}
<1>1. /\ t \in DOMAIN LeaderLog /\ t \in Nat /\ LeaderLog[t] \in Seq(Entry)
      /\ k \in 1..Len(LeaderLog[t]) /\ LeaderLog[t][k].Term = t
  BY DEF Chosen, TypeOK
<1>2. Bad \subseteq Nat /\ u \in Nat
  BY DEF TypeOK
<1>3. Bad = {}
  <2>1. SUFFICES ASSUME Bad # {} PROVE FALSE
    OBVIOUS
  <2>2. PICK w \in Bad : \A v \in Bad : w <= v
    BY <1>2, <2>1, LeastNat
  <2>3. /\ w \in DOMAIN LeaderLog /\ t < w /\ w \in Nat
        /\ ~ SameUpTo(LeaderLog[t], LeaderLog[w], k)
    BY <1>2, <2>2
  <2>4. PICK P \in SUBSET Server :
           Cardinality(P) >= CommitQuorum(Server) /\ \A q \in P : Holds(q, t, k)
    BY DEF Chosen
  <2>5. PICK Q \in SUBSET Server :
           Cardinality(Q) >= MinVotes /\ \A q \in Q : Backs(q, w, LeaderLog[w])
    BY <2>3 DEF ElectedInv
  <2>6. Cardinality(P) \in Nat /\ Cardinality(Q) \in Nat
    BY ServerAssumption, FS_Subset, FS_CardinalityType
  <2>7. Cardinality(P) + Cardinality(Q) > Nservers
    BY <2>4, <2>5, <2>6, CommitQuorums, VoteQuorums, ServerCount
  <2>8. PICK q \in Server : q \in P /\ q \in Q
    BY <2>7, QuorumsMeet
  <2>9. Lost(t, k, w)
    BY <1>1, <2>3, <2>4, <2>5, <2>8 DEF Backs
  <2>10. PICK v \in DOMAIN LeaderLog :
            t < v /\ v < w /\ ~ SameUpTo(LeaderLog[t], LeaderLog[v], k)
    BY <2>9 DEF Lost
  <2>11. v \in Bad /\ v \in Nat
    BY <1>2, <2>10
  <2>12. QED
    BY <2>2, <2>3, <2>10, <2>11
<1>4. CASE u = t
  BY <1>1, <1>4 DEF SameUpTo
<1>5. CASE u # t
  BY <1>1, <1>2, <1>3, <1>5
<1>6. QED
  BY <1>4, <1>5

LEMMA ChosenStable ==
  ASSUME KnownStep, NEW t, NEW k, Chosen(t, k)
  PROVE  Chosen(t, k)'
<1>1. /\ t \in DOMAIN LeaderLog /\ k \in 1..Len(LeaderLog[t]) /\ LeaderLog[t][k].Term = t
  BY DEF Chosen
<1>2. /\ t \in DOMAIN LeaderLog' /\ k \in 1..Len(LeaderLog'[t])
      /\ LeaderLog'[t][k].Term = t
  BY <1>1, PrefixKept DEF SameUpTo
<1>3. PICK Q \in SUBSET Server :
         Cardinality(Q) >= CommitQuorum(Server) /\ \A q \in Q : Holds(q, t, k)
  BY DEF Chosen
<1>4. \A q \in Q : Holds(q, t, k)'
  BY <1>3, HoldsStable
<1>5. QED
  BY <1>2, <1>3, <1>4 DEF Chosen

\* The log of a leader of the term or a later one has what is committed.
LEMMA CommittedLed ==
  ASSUME TypeOK, ElectedInv, NEW c \in Nat, NEW u \in Nat, NEW log, Len(log) \in Nat,
         CommittedBy(c, u, log), NEW w \in DOMAIN LeaderLog, u <= w
  PROVE  SameUpTo(log, LeaderLog[w], c)
<1>1. LeaderLog[w] \in Seq(Entry) /\ w \in Nat /\ Len(LeaderLog[w]) \in Nat
  BY DEF TypeOK
<1>2. CASE c = 0
  BY <1>1, <1>2 DEF SameUpTo
<1>3. CASE c # 0
  <2>1. PICK t \in DOMAIN LeaderLog :
           /\ t <= u
           /\ \E k \in 1..Len(LeaderLog[t]) :
                 c <= k /\ Chosen(t, k) /\ SameUpTo(LeaderLog[t], log, c)
    BY <1>3 DEF CommittedBy
  <2>2. PICK k \in 1..Len(LeaderLog[t]) :
           c <= k /\ Chosen(t, k) /\ SameUpTo(LeaderLog[t], log, c)
    BY <2>1
  <2>3. t \in Nat /\ LeaderLog[t] \in Seq(Entry) /\ Len(LeaderLog[t]) \in Nat
    BY <2>1 DEF TypeOK
  <2>4. t <= w
    BY <1>1, <2>1, <2>3
  <2>5. SameUpTo(LeaderLog[t], LeaderLog[w], k)
    BY <2>2, <2>4, ChosenSafe
  <2>6. SameUpTo(LeaderLog[t], LeaderLog[w], c)
    BY <1>1, <2>2, <2>3, <2>5, SameLess
  <2>7. QED
    BY <2>2, <2>6, SameBack, SameThrough
<1>4. QED
  BY <1>2, <1>3

\* What is committed stays so, in a log that keeps it and in later terms.
LEMMA CommittedStable ==
  ASSUME KnownStep, NEW c \in Nat, NEW u \in Nat, NEW v \in Nat, u <= v,
         NEW log, NEW new, CommittedBy(c, u, log), SameUpTo(log, new, c)
  PROVE  CommittedBy(c, v, new)'
<1>1. CASE c = 0
  BY <1>1 DEF CommittedBy
<1>2. CASE c # 0
  <2>1. PICK t \in DOMAIN LeaderLog :
           /\ t <= u
           /\ \E k \in 1..Len(LeaderLog[t]) :
                 c <= k /\ Chosen(t, k) /\ SameUpTo(LeaderLog[t], log, c)
    BY <1>2 DEF CommittedBy
  <2>2. PICK k \in 1..Len(LeaderLog[t]) :
           c <= k /\ Chosen(t, k) /\ SameUpTo(LeaderLog[t], log, c)
    BY <2>1
  <2>3. /\ t \in Nat /\ t \in DOMAIN LeaderLog'
        /\ Len(LeaderLog[t]) \in Nat /\ Len(LeaderLog'[t]) \in Nat
        /\ Len(LeaderLog[t]) <= Len(LeaderLog'[t])
        /\ SameUpTo(LeaderLog[t], LeaderLog'[t], Len(LeaderLog[t]))
    BY <2>1, PrefixKept
  <2>4. SameUpTo(LeaderLog'[t], LeaderLog[t], c)
    BY <2>2, <2>3, SameLess, SameBack
  <2>5. SameUpTo(LeaderLog'[t], new, c)
    BY <2>2, <2>4, SameThrough
  <2>6. Chosen(t, k)'
    BY <2>2, ChosenStable
  <2>7. t <= v /\ k \in 1..Len(LeaderLog'[t])
    BY <2>1, <2>2, <2>3
  <2>8. QED
    BY <2>2, <2>3, <2>5, <2>6, <2>7 DEF CommittedBy
<1>3. QED
  BY <1>1, <1>2

\* A server's log keeps what the server knows to be committed.
LEMMA CommittedStays ==
  ASSUME KnownStep, ElectedInv, NEW s \in Server, NEW c \in Nat,
         CommittedBy(c, CurrentTerm[s], Log[s])
  PROVE  SameUpTo(Log[s], Log'[s], c)
<1>1. /\ CurrentTerm[s] \in Nat /\ CurrentTerm'[s] \in Nat
      /\ CurrentTerm[s] <= CurrentTerm'[s]
      /\ Log[s] \in Seq(Entry) /\ Len(Log[s]) \in Nat
      /\ Log'[s] \in Seq(Entry) /\ Len(Log'[s]) \in Nat
  BY Facts
<1>2. c <= Len(Log[s])
  BY <1>1 DEF CommittedBy, SameUpTo
<1>3. CASE Log'[s] = Log[s]
  BY <1>1, <1>2, <1>3 DEF SameUpTo
<1>4. CASE \E e \in Entry : Log'[s] = Append(Log[s], e)
  BY <1>1, <1>2, <1>4 DEF SameUpTo
<1>5. CASE /\ CurrentTerm'[s] \in DOMAIN LeaderLog
           /\ TakenFrom(s, LeaderLog[CurrentTerm'[s]])
  <2>1. SameUpTo(Log[s], LeaderLog[CurrentTerm'[s]], c)
    BY <1>1, <1>5, CommittedLed DEF KnownStep
  <2>2. SameUpTo(Log'[s], LeaderLog[CurrentTerm'[s]], c)
    BY <1>5, <2>1 DEF TakenFrom
  <2>3. QED
    BY <2>1, <2>2, SameBoth
<1>6. QED
  BY <1>3, <1>4, <1>5 DEF KnownStep, CommitStep, LogChange

-----------------------------------------------------------------------------
(* What a step does to NextIndex, MatchIndex and CommitIndex                *)

StaysLeader(n) == StateName[n] = "LEADER" /\ UNCHANGED <<StateName[n], CurrentTerm[n]>>

\* A leader's indices of peer p start at the end of its log, and follow what the
\* peer acknowledges.
PeerChange(n, p) ==
    /\ \/ MatchIndex'[n][p] = 0
       \/ StaysLeader(n) /\ MatchIndex'[n][p] = MatchIndex[n][p]
       \/ StaysLeader(n) /\ \E m \in msgs : /\ IsAck(m) /\ m.Src = p
                                            /\ m.Term = CurrentTerm[n]
                                            /\ MatchIndex'[n][p] = m.MatchIndex
    /\ \/ NextIndex'[n][p] <= Len(Log'[n]) + 1
       \/ StaysLeader(n) /\ NextIndex'[n][p] <= NextIndex[n][p]
       \/ StaysLeader(n) /\ \E m \in msgs : /\ IsAck(m) /\ m.Term = CurrentTerm[n]
                                            /\ NextIndex'[n][p] = m.MatchIndex + 1

PeersChange ==
    \A n \in Server : \A p \in Peers(n) :
        StateName'[n] = "LEADER" => PeerChange(n, p)

\* CommitIndex stays, follows a leader's, or is the middle of a leader's indices.
CommitChange(n) ==
    \/ CommitIndex'[n] = CommitIndex[n]
    \/ \E m \in msgs : /\ IsAppend(m)
                       /\ CommitIndex'[n] = m.LeaderCommit
                       /\ CurrentTerm'[n] = m.Term
                       /\ LeaderLog' = LeaderLog
                       /\ SameUpTo(LeaderLog[m.Term], Log'[n],
                                   m.PrevLogIndex + Len(m.Entries))
    \/ /\ StaysLeader(n)
       /\ LogTerm(Log'[n], CommitIndex'[n]) = CurrentTerm'[n]
       /\ IsMiddle(Indices(n, MatchIndex[n])', CommitIndex'[n])

CommitsChange == \A n \in Server : CommitChange(n)

\* A leader's request tells what it knows to be committed, as far as it describes
\* the log.
AppendsSent ==
    \A m \in msgs' \ msgs : IsAppend(m) => \E n \in Server :
        /\ StateName'[n] = "LEADER"
        /\ UNCHANGED <<CurrentTerm[n], Log[n]>>
        /\ m.Term = CurrentTerm[n]
        /\ m.LeaderCommit \in Nat
        /\ m.LeaderCommit <= CommitIndex[n]
        /\ m.LeaderCommit <= m.PrevLogIndex + Len(m.Entries)

IndexStep == PeersChange /\ CommitsChange /\ AppendsSent

LEMMA IndexQuiet ==
  ASSUME TypeOK, NEW n \in Server,
         UNCHANGED <<CommitIndex, NextIndex, MatchIndex>>,
         \A s \in Server \ {n} : UNCHANGED <<StateName[s], CurrentTerm[s]>>,
         StateName'[n] # "LEADER" \/ UNCHANGED <<StateName[n], CurrentTerm[n]>>,
         \A m \in msgs' \ msgs : ~ IsAppend(m)
  PROVE  IndexStep
<1>1. ASSUME NEW s \in Server, NEW p \in Peers(s), StateName'[s] = "LEADER"
      PROVE  PeerChange(s, p)
  <2>1. StaysLeader(s)
    BY <1>1 DEF StaysLeader
  <2>2. NextIndex[s][p] \in Nat
    <3>1. NextIndex[s] \in [Server -> Nat \ {0}] /\ p \in Server
      BY DEF TypeOK, Peers
    <3>2. QED
      BY <3>1
  <2>3. QED
    BY <2>1, <2>2 DEF PeerChange
<1>2. QED
  BY <1>1 DEF IndexStep, PeersChange, CommitsChange, CommitChange, AppendsSent

LEMMA IndexVotes ==
  ASSUME TypeOK, NEW n \in Server, NEW m \in msgs,
         OnRequestVoteRequest(n, m) \/ OnRequestVoteResponse(n, m)
  PROVE  IndexStep
<1>1. m.Term \in Nat /\ CurrentTerm[n] \in Nat
  BY MessageTypes DEF TypeOK
<1>2. /\ UNCHANGED <<CommitIndex, NextIndex, MatchIndex>>
      /\ CurrentTerm'[n] = TermOn(n, m)
      /\ StateName'[n] = StateNameOn(n, m)
      /\ \A s \in Server \ {n} : UNCHANGED <<StateName[s], CurrentTerm[s]>>
  BY DEF OnRequestVoteRequest, OnRequestVoteResponse, TypeOK, commitVars, peerVars
<1>3. StateName'[n] # "LEADER" \/ UNCHANGED <<StateName[n], CurrentTerm[n]>>
  BY <1>1, <1>2 DEF TermOn, StateNameOn, MaxOf
<1>4. \A x \in msgs' \ msgs : ~ IsAppend(x)
  BY DEF OnRequestVoteRequest, OnRequestVoteResponse, Send, VoteResponse, IsAppend
<1>5. QED
  BY <1>2, <1>3, <1>4, IndexQuiet

LEMMA IndexElection ==
  ASSUME TypeOK, NEW n \in Server, NEW due,
         StartElection(n) \/ ResendVotes(n, due)
  PROVE  IndexStep
<1>1. /\ UNCHANGED CommitIndex
      /\ StateName'[n] = "CANDIDATE"
      /\ \A s \in Server \ {n} :
            UNCHANGED <<StateName[s], CurrentTerm[s], NextIndex[s], MatchIndex[s]>>
  BY DEF StartElection, ResendVotes, stateVars, commitVars, peerVars, TypeOK
<1>2. \A x \in msgs' \ msgs : ~ IsAppend(x)
  BY DEF StartElection, ResendVotes, SendAll, CreateVote, IsAppend
<1>3. ASSUME NEW s \in Server, NEW p \in Peers(s), StateName'[s] = "LEADER"
      PROVE  PeerChange(s, p)
  <2>1. StaysLeader(s) /\ UNCHANGED <<NextIndex[s], MatchIndex[s]>>
    BY <1>1, <1>3 DEF StaysLeader
  <2>2. NextIndex[s][p] \in Nat
    <3>1. NextIndex[s] \in [Server -> Nat \ {0}] /\ p \in Server
      BY DEF TypeOK, Peers
    <3>2. QED
      BY <3>1
  <2>3. QED
    BY <2>1, <2>2 DEF PeerChange
<1>4. QED
  BY <1>1, <1>2, <1>3 DEF IndexStep, PeersChange, CommitsChange, CommitChange, AppendsSent

LEMMA IndexAppendEntriesRequest ==
  ASSUME TypeOK, LogInv, NEW n \in Server, NEW m \in msgs, OnAppendEntriesRequest(n, m)
  PROVE  IndexStep
<1>1. /\ LeaderLog' = LeaderLog /\ UNCHANGED <<NextIndex, MatchIndex>>
      /\ IsAppend(m) /\ m.LeaderCommit \in Nat
  BY MessageTypes DEF OnAppendEntriesRequest, RefuseStaleAppend, TakeAppend, IsAppend,
                      peerVars, TypeOK, TAppendEntriesRequest
<1>2. \A x \in msgs' \ msgs : ~ IsAppend(x)
  BY DEF OnAppendEntriesRequest, RefuseStaleAppend, TakeAppend, Send, AppendResponse,
         IsAppend
<1>3. CASE RefuseStaleAppend(n, m)
  <2>1. UNCHANGED <<CommitIndex, StateName, CurrentTerm>>
    BY <1>3 DEF RefuseStaleAppend, commitVars, stateVars
  <2>2. QED
    BY <1>1, <1>2, <2>1, IndexQuiet
<1>4. CASE TakeAppend(n, m)
  <2>1. /\ StateName'[n] = "FOLLOWER"
        /\ CurrentTerm'[n] = m.Term
        /\ \A s \in Server \ {n} : UNCHANGED <<StateName[s], CurrentTerm[s]>>
    BY <1>4 DEF TakeAppend, TypeOK
  <2>2. CASE CommitIndex' = CommitIndex
    BY <1>1, <1>2, <2>1, <2>2, IndexQuiet
  <2>3. CASE /\ PrevMatches(n, m)
             /\ Log' = [Log EXCEPT ![n] = Appended(@, m.PrevLogIndex, m.Entries)]
             /\ CommitIndex' = [CommitIndex EXCEPT ![n] = MaxOf(@, m.LeaderCommit)]
    <3>1. SameUpTo(LeaderLog[m.Term], Log'[n], m.PrevLogIndex + Len(m.Entries))
      BY <1>1, <2>3, TakesEntries
    <3>2. /\ \A s \in Server \ {n} : CommitIndex'[s] = CommitIndex[s]
          /\ CommitIndex'[n] \in {CommitIndex[n], m.LeaderCommit}
      BY <2>3 DEF MaxOf, TypeOK
    <3>3. CommitsChange
      BY <1>1, <2>1, <3>1, <3>2 DEF CommitsChange, CommitChange
    <3>4. ASSUME NEW s \in Server, NEW p \in Peers(s), StateName'[s] = "LEADER"
          PROVE  PeerChange(s, p)
      <4>1. StaysLeader(s)
        BY <2>1, <3>4 DEF StaysLeader
      <4>2. NextIndex[s][p] \in Nat
        <5>1. NextIndex[s] \in [Server -> Nat \ {0}] /\ p \in Server
          BY DEF TypeOK, Peers
        <5>2. QED
          BY <5>1
      <4>3. QED
        BY <1>1, <4>1, <4>2 DEF PeerChange
    <3>5. QED
      BY <1>2, <3>3, <3>4 DEF IndexStep, PeersChange, AppendsSent
  <2>4. QED
    BY <1>4, <2>2, <2>3 DEF TakeAppend
<1>5. QED
  BY <1>3, <1>4 DEF OnAppendEntriesRequest

\* Where CommitAdvance leaves CommitIndex.
LEMMA CommitAdvances ==
  ASSUME TypeOK, NEW n \in Server, NEW match \in [Server -> Nat], CommitAdvance(n, match)
  PROVE  /\ \A s \in Server \ {n} : CommitIndex'[s] = CommitIndex[s]
         /\ \/ CommitIndex'[n] = CommitIndex[n]
            \/ /\ LogTerm(Log[n], CommitIndex'[n]) = CurrentTerm[n]
               /\ IsMiddle(Indices(n, match), CommitIndex'[n])
<1>1. PICK k \in {Indices(n, match)[p] : p \in Server} :
         /\ IsMiddle(Indices(n, match), k)
         /\ CommitIndex' = IF LogTerm(Log[n], MaxOf(CommitIndex[n], k)) = CurrentTerm[n]
                           THEN [CommitIndex EXCEPT ![n] = MaxOf(CommitIndex[n], k)]
                           ELSE CommitIndex
  BY DEF CommitAdvance
<1>2. MaxOf(CommitIndex[n], k) \in {CommitIndex[n], k}
  BY DEF MaxOf
<1>3. CASE LogTerm(Log[n], MaxOf(CommitIndex[n], k)) = CurrentTerm[n]
  <2>1. CommitIndex' = [CommitIndex EXCEPT ![n] = MaxOf(CommitIndex[n], k)]
    BY <1>1, <1>3
  <2>2. /\ CommitIndex'[n] = MaxOf(CommitIndex[n], k)
        /\ \A s \in Server \ {n} : CommitIndex'[s] = CommitIndex[s]
    BY <2>1 DEF TypeOK
  <2>3. QED
    BY <1>1, <1>2, <1>3, <2>2
<1>4. CASE LogTerm(Log[n], MaxOf(CommitIndex[n], k)) # CurrentTerm[n]
  BY <1>1, <1>4
<1>5. QED
  BY <1>3, <1>4

LEMMA IndexAppendEntriesResponse ==
  ASSUME TypeOK, TypeOK', NEW n \in Server, NEW m \in msgs, OnAppendEntriesResponse(n, m)
  PROVE  IndexStep
<1>1. /\ m.Term \in Nat /\ CurrentTerm[n] \in Nat /\ m.Src \in Server
      /\ m.Type = "AppendEntriesResponse" /\ m.MatchIndex \in Nat
  <2>1. m.Type = "AppendEntriesResponse"
    BY DEF OnAppendEntriesResponse
  <2>2. CurrentTerm[n] \in Nat /\ m \in Message
    BY DEF TypeOK
  <2>3. m \in TAppendEntriesResponse
    BY <2>1, <2>2, MessageTypes
  <2>4. QED
    BY <2>1, <2>2, <2>3 DEF TAppendEntriesResponse
<1>2. /\ UNCHANGED <<Log, msgs>>
      /\ CurrentTerm'[n] = TermOn(n, m)
      /\ StateName'[n] = StateNameOn(n, m)
      /\ \A s \in Server \ {n} : UNCHANGED <<StateName[s], CurrentTerm[s]>>
  BY DEF OnAppendEntriesResponse, TypeOK
<1>3. CASE UNCHANGED <<CommitIndex, NextIndex, MatchIndex>>
  <2>1. StateName'[n] # "LEADER" \/ UNCHANGED <<StateName[n], CurrentTerm[n]>>
    BY <1>1, <1>2 DEF TermOn, StateNameOn, MaxOf
  <2>2. QED
    BY <1>2, <1>3, <2>1, IndexQuiet
<1>4. CASE /\ StateNameOn(n, m) = "LEADER" /\ m.Term = TermOn(n, m)
           /\ AppendSucceeded(n, m) \/ AppendFailed(n, m)
  <2>1. StaysLeader(n) /\ m.Term = CurrentTerm[n]
    BY <1>1, <1>2, <1>4 DEF TermOn, StateNameOn, MaxOf, StaysLeader
  <2>2. \A s \in Server : /\ NextIndex[s] \in [Server -> Nat \ {0}]
                          /\ MatchIndex[s] \in [Server -> Nat]
                          /\ MatchIndex'[s] \in [Server -> Nat]
    BY DEF TypeOK
  <2>3. /\ NextIndex \in [Server -> [Server -> Nat \ {0}]]
        /\ MatchIndex \in [Server -> [Server -> Nat]]
    BY DEF TypeOK
  <2>4. AppendsSent
    BY <1>2 DEF AppendsSent
  <2>5. CASE AppendSucceeded(n, m)
    <3>1. IsAck(m)
      BY <1>1, <2>5 DEF AppendSucceeded, IsAck
    <3>2. /\ MatchIndex' = [MatchIndex EXCEPT ![n][m.Src] = MaxOf(@, m.MatchIndex)]
          /\ NextIndex' = [NextIndex EXCEPT ![n][m.Src] = m.MatchIndex + 1]
      BY <2>5 DEF AppendSucceeded
    <3>3. ASSUME NEW p \in Server
          PROVE  /\ MatchIndex'[n][p] =
                       IF p = m.Src THEN MaxOf(MatchIndex[n][p], m.MatchIndex)
                                    ELSE MatchIndex[n][p]
                 /\ NextIndex'[n][p] = IF p = m.Src THEN m.MatchIndex + 1
                                                    ELSE NextIndex[n][p]
      BY <1>1, <2>3, <3>2
    <3>4. \A s \in Server \ {n} : UNCHANGED <<NextIndex[s], MatchIndex[s]>>
      BY <2>3, <3>2
    <3>5. PeersChange
      <4> SUFFICES ASSUME NEW s \in Server, NEW p \in Peers(s), StateName'[s] = "LEADER"
                   PROVE  PeerChange(s, p)
        BY DEF PeersChange
      <4>1. p \in Server /\ NextIndex[s][p] \in Nat
        BY <2>2 DEF Peers
      <4>2. CASE s # n
        <5>1. StaysLeader(s) /\ UNCHANGED <<NextIndex[s], MatchIndex[s]>>
          BY <1>2, <3>4, <4>2 DEF StaysLeader
        <5>2. QED
          BY <4>1, <5>1 DEF PeerChange
      <4>3. CASE s = n /\ p # m.Src
        <5>1. MatchIndex'[n][p] = MatchIndex[n][p] /\ NextIndex'[n][p] = NextIndex[n][p]
          BY <3>3, <4>1, <4>3
        <5>2. QED
          BY <2>1, <4>1, <4>3, <5>1 DEF PeerChange
      <4>4. CASE s = n /\ p = m.Src
        <5>1. /\ MatchIndex'[n][p] \in {MatchIndex[n][p], m.MatchIndex}
              /\ NextIndex'[n][p] = m.MatchIndex + 1
          BY <3>3, <4>1, <4>4 DEF MaxOf
        <5>2. QED
          BY <2>1, <3>1, <4>4, <5>1 DEF PeerChange
      <4>5. QED
        BY <4>2, <4>3, <4>4
    <3>6. CommitAdvance(n, MatchIndex'[n])
      BY <2>5 DEF AppendSucceeded
    <3>7. /\ \A s \in Server \ {n} : CommitIndex'[s] = CommitIndex[s]
          /\ \/ CommitIndex'[n] = CommitIndex[n]
             \/ /\ LogTerm(Log[n], CommitIndex'[n]) = CurrentTerm[n]
                /\ IsMiddle(Indices(n, MatchIndex'[n]), CommitIndex'[n])
      BY <2>2, <3>6, CommitAdvances
    <3>8. Indices(n, MatchIndex[n])' = Indices(n, MatchIndex'[n])
      BY <1>2 DEF Indices
    <3>9. CommitsChange
      BY <1>2, <2>1, <3>7, <3>8 DEF CommitsChange, CommitChange, StaysLeader
    <3>10. QED
      BY <2>4, <3>5, <3>9 DEF IndexStep
  <2>6. CASE AppendFailed(n, m)
    <3> DEFINE back == MaxOf(BackOff[n][m.Src], 1)
    <3>1. /\ UNCHANGED <<MatchIndex, CommitIndex>>
          /\ NextIndex' = [NextIndex EXCEPT ![n][m.Src] = SteppedBack(@, back)]
      BY <2>6 DEF AppendFailed
    <3>2. back \in Nat
      <4>1. BackOff[n] \in [Server -> Nat]
        BY DEF TypeOK
      <4>2. QED
        BY <1>1, <4>1 DEF MaxOf
    <3> HIDE DEF back
    <3>3. ASSUME NEW s \in Server, NEW p \in Server
          PROVE  NextIndex'[s][p] <= NextIndex[s][p]
      <4>1. NextIndex[s][p] \in Nat \ {0}
        BY <2>2
      <4>2. NextIndex'[s][p] \in {NextIndex[s][p], SteppedBack(NextIndex[s][p], back)}
        BY <1>1, <2>3, <3>1
      <4>3. QED
        BY <3>2, <4>1, <4>2 DEF SteppedBack
    <3>4. PeersChange
      <4> SUFFICES ASSUME NEW s \in Server, NEW p \in Peers(s), StateName'[s] = "LEADER"
                   PROVE  PeerChange(s, p)
        BY DEF PeersChange
      <4>1. StaysLeader(s) /\ p \in Server
        BY <1>2, <2>1 DEF StaysLeader, Peers
      <4>2. QED
        BY <3>1, <3>3, <4>1 DEF PeerChange
    <3>5. QED
      BY <2>4, <3>1, <3>4 DEF IndexStep, CommitsChange, CommitChange
  <2>7. QED
    BY <1>4, <2>5, <2>6
<1>5. QED
  BY <1>3, <1>4 DEF OnAppendEntriesResponse

LEMMA IndexCommandRequest ==
  ASSUME TypeOK, NEW n \in Server, NEW c \in Command, OnCommandRequest(n, c)
  PROVE  IndexStep
<1>1. UNCHANGED <<CommitIndex, NextIndex, MatchIndex, StateName, CurrentTerm, msgs>>
  BY DEF OnCommandRequest, commitVars, peerVars
<1>2. QED
  BY <1>1, IndexQuiet

\* A request whose NextIndex is in the log tells no more than the sender knows to be
\* committed, and no more than the request describes.
LEMMA CreatedCommit ==
  ASSUME TypeOK, NEW n \in Server, NEW p \in Server,
         NEW next \in 1..Len(Log[n]) + 1, NEW match \in Nat, NEW batch \in Nat,
         NEW m, m = CreateAppendEntries(n, p, next, match, batch)
  PROVE  /\ m.Term = CurrentTerm[n]
         /\ m.LeaderCommit \in Nat
         /\ m.LeaderCommit <= CommitIndex[n]
         /\ m.LeaderCommit <= m.PrevLogIndex + Len(m.Entries)
<1> DEFINE prev == next - 1
           last == IF match + 1 < next THEN prev
                   ELSE MinOf(prev + MaxOf(1, batch), Len(Log[n]))
<1>1. Log[n] \in Seq(Entry) /\ Len(Log[n]) \in Nat /\ CommitIndex[n] \in Nat
  BY DEF TypeOK
<1>2. prev \in Nat /\ last \in Nat /\ prev <= last /\ last <= Len(Log[n])
  BY <1>1 DEF MinOf, MaxOf
<1>3. /\ m.Term = CurrentTerm[n]
      /\ m.PrevLogIndex = prev
      /\ m.LeaderCommit = MinOf(CommitIndex[n], last)
      /\ m.Entries = SubSeq(Log[n], prev + 1, last)
  BY DEF CreateAppendEntries
<1> HIDE DEF prev, last
<1>4. Len(m.Entries) = last - prev
  <2>1. CASE prev < last
    BY <1>1, <1>2, <1>3, <2>1
  <2>2. CASE prev = last
    BY <1>1, <1>2, <1>3, <2>2
  <2>3. QED
    BY <1>2, <2>1, <2>2
<1>5. QED
  BY <1>1, <1>2, <1>3, <1>4 DEF MinOf

LEMMA IndexBecomeLeader ==
  ASSUME TypeOK, NEW n \in Server, BecomeLeader(n)
  PROVE  IndexStep
<1>1. /\ UNCHANGED <<CommitIndex, CurrentTerm, Log>>
      /\ StateName'[n] = "LEADER"
      /\ \A s \in Server \ {n} :
            UNCHANGED <<StateName[s], NextIndex[s], MatchIndex[s]>>
  BY DEF BecomeLeader, TypeOK, stateVars
<1>2. Len(Log[n]) \in Nat
  BY DEF TypeOK
<1>3. ASSUME NEW s \in Server, NEW p \in Peers(s), StateName'[s] = "LEADER"
      PROVE  PeerChange(s, p)
  <2>1. NextIndex[s][p] \in Nat
    <3>1. NextIndex[s] \in [Server -> Nat \ {0}] /\ p \in Server
      BY DEF TypeOK, Peers
    <3>2. QED
      BY <3>1
  <2>2. CASE s = n
    <3>1. MatchIndex'[n][p] = 0 /\ NextIndex'[n][p] = Len(Log[n]) + 1
      BY DEF BecomeLeader, TypeOK, Peers
    <3>2. QED
      BY <1>1, <1>2, <2>2, <3>1 DEF PeerChange
  <2>3. CASE s # n
    <3>1. StaysLeader(s)
      BY <1>1, <1>3, <2>3 DEF StaysLeader
    <3>2. QED
      BY <1>1, <2>1, <2>3, <3>1 DEF PeerChange
  <2>4. QED
    BY <2>2, <2>3
<1>4. AppendsSent
  <2> SUFFICES ASSUME NEW m \in msgs' \ msgs
               PROVE  /\ m.Term = CurrentTerm[n]
                      /\ m.LeaderCommit \in Nat
                      /\ m.LeaderCommit <= CommitIndex[n]
                      /\ m.LeaderCommit <= m.PrevLogIndex + Len(m.Entries)
    BY <1>1 DEF AppendsSent
  <2>1. PICK p \in Peers(n) : m = CreateAppendEntries(n, p, Len(Log[n]) + 1, 0, 0)
    BY DEF BecomeLeader, SendAll
  <2>2. p \in Server /\ Len(Log[n]) + 1 \in 1..Len(Log[n]) + 1
    BY <1>2, <2>1 DEF Peers
  <2>3. QED
    BY <2>1, <2>2, CreatedCommit
<1>5. QED
  BY <1>1, <1>3, <1>4 DEF IndexStep, PeersChange, CommitsChange, CommitChange

LEMMA IndexLeaderTimeout ==
  ASSUME TypeOK, NextIndexInRange,
         NEW n \in Server, NEW due \in SUBSET Peers(n), LeaderTimeout(n, due)
  PROVE  IndexStep
<1>1. /\ UNCHANGED <<StateName, CurrentTerm, Log, NextIndex, MatchIndex>>
      /\ StateName[n] = "LEADER"
  BY DEF LeaderTimeout, stateVars, peerVars
<1>2. CommitsChange
  <2>1. CASE Nservers = 1
    <3>1. CommitAdvance(n, MatchIndex[n]) /\ MatchIndex[n] \in [Server -> Nat]
      BY <2>1 DEF LeaderTimeout, CommitOnTick, TypeOK
    <3>2. /\ \A s \in Server \ {n} : CommitIndex'[s] = CommitIndex[s]
          /\ \/ CommitIndex'[n] = CommitIndex[n]
             \/ /\ LogTerm(Log[n], CommitIndex'[n]) = CurrentTerm[n]
                /\ IsMiddle(Indices(n, MatchIndex[n]), CommitIndex'[n])
      BY <3>1, CommitAdvances
    <3>3. Indices(n, MatchIndex[n])' = Indices(n, MatchIndex[n])
      BY <1>1 DEF Indices
    <3>4. QED
      BY <1>1, <3>2, <3>3 DEF CommitsChange, CommitChange, StaysLeader
  <2>2. CASE Nservers # 1
    BY <2>2 DEF LeaderTimeout, CommitOnTick, CommitsChange, CommitChange
  <2>3. QED
    BY <2>1, <2>2
<1>3. ASSUME NEW s \in Server, NEW p \in Peers(s), StateName'[s] = "LEADER"
      PROVE  PeerChange(s, p)
  <2>1. StaysLeader(s)
    BY <1>1, <1>3 DEF StaysLeader
  <2>2. NextIndex[s][p] \in Nat
    <3>1. NextIndex[s] \in [Server -> Nat \ {0}] /\ p \in Server
      BY DEF TypeOK, Peers
    <3>2. QED
      BY <3>1
  <2>3. QED
    BY <1>1, <2>1, <2>2 DEF PeerChange
<1>4. AppendsSent
  <2> SUFFICES ASSUME NEW m \in msgs' \ msgs
               PROVE  /\ m.Term = CurrentTerm[n]
                      /\ m.LeaderCommit \in Nat
                      /\ m.LeaderCommit <= CommitIndex[n]
                      /\ m.LeaderCommit <= m.PrevLogIndex + Len(m.Entries)
    BY <1>1 DEF AppendsSent
  <2>1. PICK p \in due : m = CreateAppendEntries(n, p, NextIndex[n][p], MatchIndex[n][p],
                                                 BatchSize[n][p])
    BY DEF LeaderTimeout, SendAll
  <2>2. p \in Peers(n) /\ p \in Server
    BY <2>1 DEF Peers
  <2>3. NextIndex[n][p] \in 1..Len(Log[n]) + 1
    BY <1>1, <2>2 DEF NextIndexInRange, IsLeader
  <2>4. MatchIndex[n] \in [Server -> Nat] /\ BatchSize[n] \in [Server -> Nat]
    BY DEF TypeOK
  <2>5. MatchIndex[n][p] \in Nat /\ BatchSize[n][p] \in Nat
    BY <2>2, <2>4
  <2>6. QED
    BY <2>1, <2>2, <2>3, <2>5, CreatedCommit
<1>5. QED
  BY <1>2, <1>3, <1>4 DEF IndexStep, PeersChange

\* A server that needs no vote has no peer.
LEMMA IndexSoloElection ==
  ASSUME TypeOK, NEW n \in Server, SoloElection(n)
  PROVE  IndexStep
<1>1. UNCHANGED <<CommitIndex, msgs>>
  BY DEF SoloElection, commitVars
<1>2. Peers(n) = {}
  <2>1. Nservers \in Nat \ {0} /\ MinVotes = 1
    BY ServerCount DEF SoloElection
  <2>2. Nservers = 1
    BY <2>1 DEF MinVotes, Npeers
  <2>3. IsFiniteSet(Server) /\ IsFiniteSet({n}) /\ Cardinality({n}) = 1
    BY ServerAssumption, FS_Singleton
  <2>4. Server = {n}
    BY <2>2, <2>3, FS_Subset DEF Nservers
  <2>5. QED
    BY <2>4 DEF Peers
<1>3. QED
  <2>1. CommitsChange /\ AppendsSent
    BY <1>1 DEF CommitsChange, CommitChange, AppendsSent
  <2>2. \A s \in Server : Peers(s) = {}
    <3>1. Server = {n}
      BY <1>2 DEF Peers
    <3>2. QED
      BY <3>1 DEF Peers
  <2>3. QED
    BY <2>1, <2>2 DEF IndexStep, PeersChange

LEMMA IndexStepNext ==
  ASSUME TypeOK, TypeOK', LogInv, NextIndexInRange, Next
  PROVE  IndexStep
<1>1. PICK n \in Server : \/ \E m \in msgs : Process(n, m)
                          \/ \E c \in Command : OnCommandRequest(n, c)
                          \/ ProcessTimeout(n)
  BY DEF Next
<1>2. CASE \E m \in msgs : Process(n, m)
  <2>1. PICK m \in msgs : \/ OnRequestVoteRequest(n, m)
                          \/ OnRequestVoteResponse(n, m)
                          \/ OnAppendEntriesRequest(n, m)
                          \/ OnAppendEntriesResponse(n, m)
    BY <1>2 DEF Process
  <2>2. CASE OnRequestVoteRequest(n, m) \/ OnRequestVoteResponse(n, m)
    BY <1>1, <2>1, <2>2, IndexVotes
  <2>3. CASE OnAppendEntriesRequest(n, m)
    BY <1>1, <2>1, <2>3, IndexAppendEntriesRequest
  <2>4. CASE OnAppendEntriesResponse(n, m)
    BY <1>1, <2>1, <2>4, IndexAppendEntriesResponse
  <2>5. QED
    BY <2>1, <2>2, <2>3, <2>4
<1>3. CASE \E c \in Command : OnCommandRequest(n, c)
  BY <1>1, <1>3, IndexCommandRequest
<1>4. CASE ProcessTimeout(n)
  <2>1. CASE StartElection(n)
    BY <1>1, <2>1, IndexElection
  <2>2. CASE \E due \in SUBSET Peers(n) : ResendVotes(n, due)
    BY <1>1, <2>2, IndexElection
  <2>3. CASE BecomeLeader(n)
    BY <1>1, <2>3, IndexBecomeLeader
  <2>4. CASE \E due \in SUBSET Peers(n) : LeaderTimeout(n, due)
    BY <1>1, <2>4, IndexLeaderTimeout
  <2>5. CASE SoloElection(n)
    BY <1>1, <2>5, IndexSoloElection
  <2>6. QED
    BY <1>4, <2>1, <2>2, <2>3, <2>4, <2>5 DEF ProcessTimeout
<1>5. QED
  BY <1>1, <1>2, <1>3, <1>4

-----------------------------------------------------------------------------
(* MatchIndex, NextIndex, CommitIndex                                       *)

LEMMA LeaderKeeps ==
  ASSUME KnownStep, NEW n \in Server, StaysLeader(n)
  PROVE  /\ CurrentTerm[n] \in DOMAIN LeaderLog
         /\ LeaderLog[CurrentTerm[n]] = Log[n]
         /\ LeaderLog'[CurrentTerm[n]] = Log'[n]
         /\ Len(Log[n]) <= Len(Log'[n])
<1>1. CurrentTerm[n] \in DOMAIN LeaderLog /\ LeaderLog[CurrentTerm[n]] = Log[n]
  BY DEF KnownStep, LeaderLogInv, IsLeader, StaysLeader
<1>2. LeaderLog'[CurrentTerm[n]] = Log'[n]
  BY DEF KnownStep, LeaderLogInv, IsLeader, StaysLeader
<1>3. QED
  BY <1>1, <1>2, PrefixKept

LEMMA MatchKept ==
  ASSUME KnownStep, PeersChange, MatchInv
  PROVE  MatchInv'
<1> SUFFICES ASSUME NEW l \in Server, NEW p \in Peers(l), StateName'[l] = "LEADER",
                    MatchIndex'[l][p] # 0
             PROVE  Acked(p, CurrentTerm[l], MatchIndex[l][p])'
  BY DEF MatchInv, IsLeader, Peers
<1>1. PeerChange(l, p) /\ msgs \subseteq msgs'
  BY Facts DEF PeersChange
<1>2. CASE StaysLeader(l) /\ MatchIndex'[l][p] = MatchIndex[l][p]
  <2>1. Acked(p, CurrentTerm[l], MatchIndex[l][p])
    BY <1>2 DEF MatchInv, IsLeader, StaysLeader
  <2>2. PICK m \in msgs : /\ IsAck(m) /\ m.Src = p /\ m.Term = CurrentTerm[l]
                          /\ MatchIndex[l][p] <= m.MatchIndex
    BY <2>1 DEF Acked
  <2>3. QED
    BY <1>1, <1>2, <2>2 DEF Acked, StaysLeader, IsAck
<1>3. ASSUME StaysLeader(l),
             NEW m \in msgs, IsAck(m), m.Src = p, m.Term = CurrentTerm[l],
             MatchIndex'[l][p] = m.MatchIndex
      PROVE  Acked(p, CurrentTerm[l], MatchIndex[l][p])'
  <2>1. m.MatchIndex \in Nat
    <3>1. m \in TAppendEntriesResponse
      BY <1>3, MessageTypes DEF KnownStep, TypeOK, IsAck
    <3>2. QED
      BY <3>1 DEF TAppendEntriesResponse
  <2>2. QED
    BY <1>1, <1>3, <2>1 DEF Acked, StaysLeader, IsAck
<1>4. QED
  BY <1>1, <1>2, <1>3 DEF PeerChange

LEMMA NextKept ==
  ASSUME KnownStep, PeersChange, AcksInv, NextIndexInRange
  PROVE  NextIndexInRange'
<1> SUFFICES ASSUME NEW l \in Server, NEW p \in Peers(l), StateName'[l] = "LEADER"
             PROVE  NextIndex'[l][p] \in 1..Len(Log'[l]) + 1
  BY DEF NextIndexInRange, IsLeader, Peers
<1>1. PeerChange(l, p)
  BY DEF PeersChange
<1>2. p \in Server /\ Len(Log[l]) \in Nat /\ Len(Log'[l]) \in Nat
  BY Facts DEF Peers
<1>3. NextIndex'[l][p] \in Nat \ {0}
  <2>1. NextIndex'[l] \in [Server -> Nat \ {0}]
    BY DEF KnownStep, TypeOK
  <2>2. QED
    BY <1>2, <2>1
<1>4. NextIndex'[l][p] <= Len(Log'[l]) + 1
  <2>1. CASE StaysLeader(l) /\ NextIndex'[l][p] <= NextIndex[l][p]
    <3>1. NextIndex[l][p] \in 1..Len(Log[l]) + 1
      BY <2>1 DEF NextIndexInRange, IsLeader, StaysLeader
    <3>2. QED
      BY <1>2, <1>3, <2>1, <3>1, LeaderKeeps
  <2>2. ASSUME StaysLeader(l),
               NEW m \in msgs, IsAck(m), m.Term = CurrentTerm[l],
               NextIndex'[l][p] = m.MatchIndex + 1
        PROVE  NextIndex'[l][p] <= Len(Log'[l]) + 1
    <3>1. m.MatchIndex <= Len(Log[l]) /\ Len(Log[l]) <= Len(Log'[l])
      BY <2>2, LeaderKeeps DEF AcksInv
    <3>2. m \in TAppendEntriesResponse
      BY <2>2, MessageTypes DEF KnownStep, TypeOK, IsAck
    <3>3. m.MatchIndex \in Nat
      BY <3>2 DEF TAppendEntriesResponse
    <3>4. QED
      BY <1>2, <2>2, <3>1, <3>3
  <2>3. QED
    BY <1>1, <2>1, <2>2 DEF PeerChange
<1>5. QED
  BY <1>2, <1>3, <1>4

\* A part of what is committed is committed.
LEMMA CommittedLess ==
  ASSUME TypeOK, NEW c \in Nat, NEW b \in Nat, b <= c, NEW u, NEW log, Len(log) \in Nat,
         CommittedBy(c, u, log)
  PROVE  CommittedBy(b, u, log)
<1>1. CASE c = 0
  BY <1>1 DEF CommittedBy
<1>2. CASE c # 0
  <2>1. PICK t \in DOMAIN LeaderLog :
           /\ t <= u
           /\ \E k \in 1..Len(LeaderLog[t]) :
                 c <= k /\ Chosen(t, k) /\ SameUpTo(LeaderLog[t], log, c)
    BY <1>2 DEF CommittedBy
  <2>2. PICK k \in 1..Len(LeaderLog[t]) :
           c <= k /\ Chosen(t, k) /\ SameUpTo(LeaderLog[t], log, c)
    BY <2>1
  <2>3. Len(LeaderLog[t]) \in Nat
    BY <2>1 DEF TypeOK
  <2>4. b <= k /\ SameUpTo(LeaderLog[t], log, b)
    BY <2>2, <2>3, SameLess
  <2>5. QED
    BY <2>1, <2>2, <2>4 DEF CommittedBy
<1>3. QED
  BY <1>1, <1>2

\* The middle of what a leader and the acknowledgements of its term hold is chosen.
LEMMA MiddleChosen ==
  ASSUME KnownStep, MatchInv', NEW n \in Server, StateName'[n] = "LEADER",
         NEW t, t = CurrentTerm'[n], NEW c \in 1..Len(Log'[n]), Log'[n][c].Term = t,
         IsMiddle(Indices(n, MatchIndex[n])', c)
  PROVE  /\ t \in DOMAIN LeaderLog'
         /\ LeaderLog'[t] = Log'[n]
         /\ Chosen(t, c)'
<1> DEFINE indices == Indices(n, MatchIndex[n])'
           Q == {p \in DOMAIN indices : indices[p] >= c}
<1>1. t \in DOMAIN LeaderLog' /\ LeaderLog'[t] = Log'[n]
  BY DEF KnownStep, LeaderLogInv, IsLeader
<1>2. /\ DOMAIN indices = Server
      /\ \A p \in Server : p # n => indices[p] = MatchIndex'[n][p]
  BY DEF Indices
<1>3. Cardinality(Q) >= CommitQuorum(Server) /\ Q \in SUBSET Server
  BY <1>2 DEF IsMiddle
<1>4. ASSUME NEW q \in Q
      PROVE  Holds(q, t, c)'
  <2>1. q \in Server /\ indices[q] >= c
    BY <1>2
  <2>2. CASE q = n
    <3>1. MinVotes > 1 => Elected(n, CurrentTerm[n])'
      BY DEF KnownStep, VoteInv, LeaderElected, IsLeader
    <3>2. MinVotes > 1 => Elected(q, t)'
      BY <2>2, <3>1
    <3>3. QED
      BY <1>1, <3>2 DEF Holds, Led
  <2>3. CASE q # n
    <3>1. q \in Peers(n)'
      BY <2>1, <2>3 DEF Peers
    <3>2. MatchIndex'[n][q] >= c /\ MatchIndex'[n][q] \in Nat
      <4>1. MatchIndex'[n] \in [Server -> Nat]
        BY DEF KnownStep, TypeOK
      <4>2. QED
        BY <1>2, <2>1, <2>3, <4>1
    <3>3. Acked(q, CurrentTerm[n], MatchIndex[n][q])'
      BY <3>1, <3>2 DEF MatchInv, IsLeader
    <3>4. PICK m \in msgs' : /\ IsAck(m) /\ m.Src = q /\ m.Term = t
                             /\ MatchIndex'[n][q] <= m.MatchIndex
      BY <3>3 DEF Acked, IsAck
    <3>5. m.MatchIndex \in Nat
      <4>1. m \in TAppendEntriesResponse
        BY <3>4, MessageTypes DEF KnownStep, TypeOK, IsAck
      <4>2. QED
        BY <4>1 DEF TAppendEntriesResponse
    <3>6. c <= m.MatchIndex
      BY <3>2, <3>4, <3>5
    <3>7. Acked(q, t, c)'
      BY <3>4, <3>6 DEF Acked, IsAck
    <3>8. QED
      BY <3>7 DEF Holds
  <2>4. QED
    BY <2>2, <2>3
<1> HIDE DEF Q
<1>5. QED
  BY <1>1, <1>3, <1>4 DEF Chosen

LEMMA ServerCommitsKept ==
  ASSUME KnownStep, MatchInv', CommitsChange, ElectedInv, CommitsInv, NEW n \in Server
  PROVE  CommittedBy(CommitIndex[n], CurrentTerm[n], Log[n])'
<1>1. /\ CurrentTerm[n] \in Nat /\ CurrentTerm'[n] \in Nat
      /\ CurrentTerm[n] <= CurrentTerm'[n]
      /\ Log'[n] \in Seq(Entry) /\ Len(Log'[n]) \in Nat
  BY Facts
<1>2. CommitIndex[n] \in Nat /\ CommitIndex'[n] \in Nat
  BY DEF KnownStep, TypeOK
<1>3. CASE CommitIndex'[n] = CommitIndex[n]
  <2>1. CommittedBy(CommitIndex[n], CurrentTerm[n], Log[n])
    BY DEF CommitsInv
  <2>2. SameUpTo(Log[n], Log'[n], CommitIndex[n])
    BY <1>2, <2>1, CommittedStays
  <2>3. QED
    BY <1>1, <1>2, <1>3, <2>1, <2>2, CommittedStable
<1>4. ASSUME NEW m \in msgs, IsAppend(m), CommitIndex'[n] = m.LeaderCommit,
             CurrentTerm'[n] = m.Term,
             SameUpTo(LeaderLog[m.Term], Log'[n], m.PrevLogIndex + Len(m.Entries))
      PROVE  CommittedBy(CommitIndex[n], CurrentTerm[n], Log[n])'
  <2>1. /\ m.LeaderCommit <= m.PrevLogIndex + Len(m.Entries)
        /\ CommittedBy(m.LeaderCommit, m.Term, LeaderLog[m.Term])
    BY <1>4 DEF CommitsInv
  <2>2. /\ m.Term \in DOMAIN LeaderLog
        /\ m.PrevLogIndex \in Nat /\ m.Entries \in Seq(Entry)
    BY <1>4, AppendTypes DEF KnownStep, LogInv, AppendsFromLeaders
  <2>3. Len(LeaderLog[m.Term]) \in Nat /\ m.LeaderCommit \in Nat
    BY <1>2, <1>4, <2>2, PrefixKept
  <2>4. SameUpTo(LeaderLog[m.Term], Log'[n], m.LeaderCommit)
    BY <1>1, <1>4, <2>1, <2>2, <2>3, SameLess
  <2>5. QED
    BY <1>1, <1>4, <2>1, <2>3, <2>4, CommittedStable
<1>5. CASE /\ StaysLeader(n)
           /\ LogTerm(Log'[n], CommitIndex'[n]) = CurrentTerm'[n]
           /\ IsMiddle(Indices(n, MatchIndex[n])', CommitIndex'[n])
  <2>1. CurrentTerm'[n] # 0 /\ StateName'[n] = "LEADER"
    BY <1>5 DEF KnownStep, TypeOK, StaysLeader
  <2>2. /\ CommitIndex'[n] \in 1..Len(Log'[n])
        /\ Log'[n][CommitIndex'[n]].Term = CurrentTerm'[n]
    BY <1>5, <2>1 DEF LogTerm
  <2>3. /\ CurrentTerm'[n] \in DOMAIN LeaderLog'
        /\ LeaderLog'[CurrentTerm'[n]] = Log'[n]
        /\ Chosen(CurrentTerm[n], CommitIndex[n])'
    BY <1>5, <2>1, <2>2, MiddleChosen
  <2>4. SameUpTo(LeaderLog'[CurrentTerm'[n]], Log'[n], CommitIndex'[n])
    BY <1>1, <2>2, <2>3 DEF SameUpTo
  <2>5. QED
    BY <1>1, <1>2, <2>2, <2>3, <2>4 DEF CommittedBy
<1>6. QED
  BY <1>3, <1>4, <1>5 DEF CommitsChange, CommitChange

LEMMA AppendCommitsKept ==
  ASSUME KnownStep, AppendsSent, CommitsInv, NEW m \in msgs', IsAppend(m)
  PROVE  /\ m.LeaderCommit <= m.PrevLogIndex + Len(m.Entries)
         /\ CommittedBy(m.LeaderCommit, m.Term, LeaderLog[m.Term])'
<1>1. CASE m \in msgs
  <2>1. /\ m.LeaderCommit <= m.PrevLogIndex + Len(m.Entries)
        /\ CommittedBy(m.LeaderCommit, m.Term, LeaderLog[m.Term])
    BY <1>1 DEF CommitsInv
  <2>2. m.Term \in DOMAIN LeaderLog /\ m.Term \in Nat
    BY <1>1, AppendTypes DEF KnownStep, LogInv, AppendsFromLeaders
  <2>3. m.LeaderCommit \in Nat
    <3>1. m \in TAppendEntriesRequest
      BY <1>1, MessageTypes DEF KnownStep, TypeOK, IsAppend
    <3>2. QED
      BY <3>1 DEF TAppendEntriesRequest
  <2>4. CASE m.LeaderCommit = 0
    BY <2>1, <2>4 DEF CommittedBy
  <2>5. CASE m.LeaderCommit # 0
    <3>1. /\ Len(LeaderLog[m.Term]) \in Nat /\ Len(LeaderLog'[m.Term]) \in Nat
          /\ SameUpTo(LeaderLog[m.Term], LeaderLog'[m.Term], Len(LeaderLog[m.Term]))
      BY <2>2, PrefixKept
    <3>2. m.LeaderCommit <= Len(LeaderLog[m.Term])
      BY <2>1, <2>5 DEF CommittedBy, SameUpTo
    <3>3. SameUpTo(LeaderLog[m.Term], LeaderLog'[m.Term], m.LeaderCommit)
      BY <2>3, <3>1, <3>2, SameLess
    <3>4. QED
      BY <2>1, <2>2, <2>3, <3>3, CommittedStable
  <2>6. QED
    BY <2>4, <2>5
<1>2. CASE m \notin msgs
  <2>1. PICK n \in Server :
           /\ StateName'[n] = "LEADER"
           /\ UNCHANGED <<CurrentTerm[n], Log[n]>>
           /\ m.Term = CurrentTerm[n]
           /\ m.LeaderCommit \in Nat
           /\ m.LeaderCommit <= CommitIndex[n]
           /\ m.LeaderCommit <= m.PrevLogIndex + Len(m.Entries)
    BY <1>2 DEF AppendsSent
  <2>2. /\ CurrentTerm[n] \in Nat /\ Len(Log[n]) \in Nat /\ CommitIndex[n] \in Nat
    BY <2>1, Facts DEF KnownStep, TypeOK
  <2>3. LeaderLog'[m.Term] = Log[n]
    BY <2>1 DEF KnownStep, LeaderLogInv, IsLeader
  <2>4. CommittedBy(CommitIndex[n], CurrentTerm[n], Log[n])
    BY <2>1 DEF CommitsInv
  <2>5. CommittedBy(m.LeaderCommit, CurrentTerm[n], Log[n])
    BY <2>1, <2>2, <2>4, CommittedLess DEF KnownStep
  <2>6. SameUpTo(Log[n], Log[n], m.LeaderCommit)
    BY <2>2, <2>5 DEF CommittedBy, SameUpTo
  <2>7. CommittedBy(m.LeaderCommit, m.Term, LeaderLog[m.Term])'
    BY <2>1, <2>2, <2>3, <2>5, <2>6, CommittedStable
  <2>8. QED
    BY <2>1, <2>7
<1>3. QED
  BY <1>1, <1>2

LEMMA CommitsKept ==
  ASSUME KnownStep, MatchInv', CommitsChange, AppendsSent, ElectedInv, CommitsInv
  PROVE  CommitsInv'
<1>1. \A n \in Server : CommittedBy(CommitIndex[n], CurrentTerm[n], Log[n])'
  BY ServerCommitsKept
<1>2. \A m \in msgs' : IsAppend(m) =>
          /\ m.LeaderCommit <= m.PrevLogIndex + Len(m.Entries)
          /\ CommittedBy(m.LeaderCommit, m.Term, LeaderLog[m.Term])'
  BY AppendCommitsKept
<1>3. QED
  BY <1>1, <1>2 DEF CommitsInv, IsAppend

-----------------------------------------------------------------------------
(* The theorems                                                             *)

LEMMA CommitInvInit == Init => CommitInv
<1> SUFFICES ASSUME Init PROVE CommitInv
  OBVIOUS
<1>1. /\ StateName = [n \in Server |-> "FOLLOWER"]
      /\ \A n \in Server : Log[n] = <<>> /\ CommitIndex[n] = 0
      /\ msgs = {}
      /\ DOMAIN LeaderLog = {}
  BY DEF Init
<1>2. TermsInv /\ RequestsInv /\ AcksInv /\ KeptInv /\ ElectedInv
  BY <1>1 DEF TermsInv, RequestsInv, AcksInv, KeptInv, ElectedInv
<1>3. CandidatesInv /\ MatchInv /\ NextIndexInRange
  BY <1>1 DEF CandidatesInv, MatchInv, NextIndexInRange, IsLeader
<1>4. CommitsInv
  BY <1>1 DEF CommitsInv, CommittedBy
<1>5. QED
  BY <1>2, <1>3, <1>4 DEF CommitInv

LEMMA CommitInvKept ==
  ASSUME KnownStep, IndexStep, CommitInv
  PROVE  CommitInv'
<1>1. TermsInv' /\ RequestsInv' /\ AcksInv' /\ KeptInv' /\ ElectedInv' /\ CandidatesInv'
  BY TermsKept, RequestsKept, AcksKept, KeptKept, ElectedKept, CandidatesKept DEF CommitInv
<1>2. MatchInv' /\ NextIndexInRange'
  BY MatchKept, NextKept DEF CommitInv, IndexStep
<1>3. CommitsInv'
  BY <1>2, CommitsKept DEF CommitInv, IndexStep
<1>4. QED
  BY <1>1, <1>2, <1>3 DEF CommitInv

LEMMA CommitInvStutters ==
  ASSUME CommitInv, UNCHANGED vars
  PROVE  CommitInv'
<1>1. UNCHANGED <<StateName, CurrentTerm, Log, CommitIndex, NextIndex, MatchIndex, msgs,
                  LeaderLog>>
  BY DEF vars, stateVars, commitVars, peerVars
<1>2. TermsInv' /\ RequestsInv' /\ AcksInv'
  BY <1>1 DEF CommitInv, TermsInv, RequestsInv, AcksInv
<1>3. \A s, t, k : Holds(s, t, k)' = Holds(s, t, k)
  BY <1>1 DEF Holds, Led, Acked, Elected, Voted
<1>4. \A t, k, u : Lost(t, k, u)' = Lost(t, k, u)
  BY <1>1 DEF Lost
<1>5. \A q, u, log : Backs(q, u, log)' = Backs(q, u, log)
  BY <1>1, <1>3, <1>4 DEF Backs
<1>6. \A t, k : Chosen(t, k)' = Chosen(t, k)
  BY <1>1, <1>3 DEF Chosen
<1>7. \A c, u, log : CommittedBy(c, u, log)' = CommittedBy(c, u, log)
  BY <1>1, <1>6 DEF CommittedBy
<1>8. KeptInv'
  BY <1>1, <1>3, <1>4 DEF CommitInv, KeptInv
<1>9. ElectedInv' /\ CandidatesInv'
  BY <1>1, <1>5 DEF CommitInv, ElectedInv, CandidatesInv, Voted
<1>10. MatchInv' /\ NextIndexInRange'
  BY <1>1 DEF CommitInv, MatchInv, NextIndexInRange, IsLeader, Peers, Acked
<1>11. CommitsInv'
  BY <1>1, <1>7 DEF CommitInv, CommitsInv
<1>12. QED
  BY <1>2, <1>8, <1>9, <1>10, <1>11 DEF CommitInv

\* What is chosen stays chosen: CommitInv holds of every reachable state.
LEMMA CommitInvCorrect == Spec => []CommitInv
<1>1. TypeOK /\ TypeOK' /\ VoteInv /\ VoteInv' /\ LeaderLogInv /\ LeaderLogInv'
         /\ LogInv /\ LogInv' /\ CommitInv /\ [Next]_vars
            => CommitInv'
  <2> SUFFICES ASSUME TypeOK, TypeOK', VoteInv, VoteInv', LeaderLogInv, LeaderLogInv',
                      LogInv, LogInv', CommitInv, [Next]_vars
               PROVE  CommitInv'
    OBVIOUS
  <2>1. CASE Next
    <3>1. NextIndexInRange
      BY DEF CommitInv
    <3>2. KnownStep /\ IndexStep
      BY <2>1, <3>1, KnownNext, IndexStepNext
    <3>3. QED
      BY <3>2, CommitInvKept
  <2>2. CASE UNCHANGED vars
    BY <2>2, CommitInvStutters
  <2>3. QED
    BY <2>1, <2>2
<1>2. QED
  BY <1>1, CommitInvInit, TypeCorrect, VoteInvCorrect, LeaderLogCorrect, LogInvCorrect, PTL
  DEF Spec

\* In a cluster of any size, and whatever becomes of the messages, what a server knows
\* to be committed is in the log of every leader of its own or a later term: what
\* CommitAdvance counts, no election of TRaft can lose.
THEOREM LeadersComplete == Spec => []LeaderCompleteness
<1>1. TypeOK /\ LeaderLogInv /\ CommitInv => LeaderCompleteness
  <2> SUFFICES ASSUME TypeOK, LeaderLogInv, CommitInv, NEW l \in Server, NEW n \in Server,
                      IsLeader(l), CurrentTerm[l] >= CurrentTerm[n]
               PROVE  SameUpTo(Log[l], Log[n], CommitIndex[n])
    BY DEF LeaderCompleteness
  <2>1. /\ CommitIndex[n] \in Nat /\ CurrentTerm[n] \in Nat /\ CurrentTerm[l] \in Nat
        /\ Len(Log[n]) \in Nat
    BY DEF TypeOK
  <2>2. CurrentTerm[l] \in DOMAIN LeaderLog /\ LeaderLog[CurrentTerm[l]] = Log[l]
    BY DEF LeaderLogInv
  <2>3. CommittedBy(CommitIndex[n], CurrentTerm[n], Log[n]) /\ ElectedInv
    BY DEF CommitInv, CommitsInv
  <2>4. SameUpTo(Log[n], LeaderLog[CurrentTerm[l]], CommitIndex[n])
    BY <2>1, <2>2, <2>3, CommittedLed
  <2>5. QED
    BY <2>2, <2>4, SameBack
<1>2. QED
  BY <1>1, TypeCorrect, LeaderLogCorrect, CommitInvCorrect, PTL

\* In a cluster of any size, a leader's MatchIndex of a peer in its term is what the
\* peer holds of the leader's log, though OnAppendEntries may get the responses late,
\* twice or out of order.
THEOREM MatchIndexesSound == Spec => []MatchIndexSound
<1>1. TypeOK /\ LeaderLogInv /\ CommitInv => MatchIndexSound
  <2> SUFFICES ASSUME TypeOK, LeaderLogInv, CommitInv, NEW l \in Server, NEW p \in Peers(l),
                      IsLeader(l), CurrentTerm[p] = CurrentTerm[l]
               PROVE  SameUpTo(Log[l], Log[p], MatchIndex[l][p])
    BY DEF MatchIndexSound
  <2>1. /\ p \in Server /\ CurrentTerm[l] \in Nat
        /\ Len(Log[l]) \in Nat /\ Len(Log[p]) \in Nat
    <3>1. p \in Server
      BY DEF Peers
    <3>2. \A s \in Server : CurrentTerm[s] \in Nat /\ Len(Log[s]) \in Nat
      BY DEF TypeOK
    <3>3. QED
      BY <3>1, <3>2
  <2> DEFINE t == CurrentTerm[l]
             k == MatchIndex[l][p]
  <2>2. k \in Nat
    <3>1. MatchIndex[l] \in [Server -> Nat]
      BY DEF TypeOK
    <3>2. QED
      BY <2>1, <3>1
  <2>3. t \in DOMAIN LeaderLog /\ LeaderLog[t] = Log[l]
    BY DEF LeaderLogInv
  <2>4. CASE k = 0
    BY <2>1, <2>4 DEF SameUpTo
  <2>5. CASE k # 0
    <3>1. Acked(p, t, k)
      BY <2>5 DEF CommitInv, MatchInv
    <3>2. PICK m \in msgs : IsAck(m) /\ m.Term = t /\ k <= m.MatchIndex
      BY <3>1 DEF Acked
    <3>3. m.MatchIndex <= Len(LeaderLog[t])
      BY <3>2 DEF CommitInv, AcksInv
    <3>4. m \in TAppendEntriesResponse
      BY <3>2, MessageTypes DEF TypeOK, IsAck
    <3>5. m.MatchIndex \in Nat
      BY <3>4 DEF TAppendEntriesResponse
    <3>6. k \in 1..Len(LeaderLog[t])
      BY <2>1, <2>2, <2>3, <2>5, <3>2, <3>3, <3>5
    <3>7. SameUpTo(LeaderLog[t], Log[p], k) \/ Lost(t, k, CurrentTerm[p] + 1)
      BY <2>1, <2>3, <3>1, <3>6 DEF CommitInv, KeptInv, Holds
    <3>8. ~ Lost(t, k, CurrentTerm[p] + 1)
      BY <2>1 DEF Lost, TypeOK
    <3>9. QED
      BY <2>3, <3>7, <3>8
  <2>6. QED
    BY <2>4, <2>5
<1>2. QED
  BY <1>1, TypeCorrect, LeaderLogCorrect, CommitInvCorrect, PTL

\* NextIndex - 1 and lastIndex - prevIndex of CreateAppendEntries never wrap around,
\* whatever late responses do to NextIndex: a leader's NextIndex is an index of its log
\* or the one after it.
THEOREM NextIndexesInRange == Spec => []NextIndexInRange
<1>1. CommitInv => NextIndexInRange
  BY DEF CommitInv
<1>2. QED
  BY <1>1, CommitInvCorrect, PTL

-----------------------------------------------------------------------------
(***************************************************************************)
(* Proofs of AppliedOnce and ImplementsReplicatedLog.  What a server knows *)
(* to be committed is never cut from its log, and the state machine has    *)
(* the log up to LastAppliedIndex, which no election resets: the rest of   *)
(* the committed entries follow where it stopped.  Two servers' committed  *)
(* entries are prefixes of leaders' logs that agree on what is chosen.     *)
(***************************************************************************)

\* AppliedOnce, and that LastApplied is not ahead of the state machine, which
\* would leave out what lies between.
ApplyInv ==
    /\ RsmLog \in [Server -> Seq(Entry)]
    /\ AppliedOnce
    /\ \A n \in Server : LastApplied[n] <= LastAppliedIndex[n]

\* What a step of server n does to what is committed, applied and answered.
ApplyStep(n) ==
    /\ \A s \in Server \ {n} : UNCHANGED <<Log[s], CommitIndex[s]>>
    /\ CommitIndex[n] <= CommitIndex'[n]
    /\ \/ /\ UNCHANGED <<RsmLog, LastAppliedIndex, replies>>
          /\ \A s \in Server : LastApplied'[s] \in {0, LastApplied[s]}
       \/ /\ Log' = Log
          /\ ProcessCommitted(n, CommitIndex'[n])
          /\ ProcessWaiting(n)

-----------------------------------------------------------------------------
(* Every step is one                                                        *)

LEMMA ApplyQuiet ==
  ASSUME TypeOK, NEW n \in Server,
         \A s \in Server \ {n} : Log'[s] = Log[s],
         UNCHANGED CommitIndex,
         \A s \in Server : LastApplied'[s] \in {0, LastApplied[s]},
         UNCHANGED <<RsmLog, LastAppliedIndex, replies>>
  PROVE  ApplyStep(n)
<1>1. CommitIndex[n] \in Nat
  BY DEF TypeOK
<1>2. QED
  BY <1>1 DEF ApplyStep

LEMMA ApplyMessage ==
  ASSUME TypeOK, NEW n \in Server, NEW m \in msgs, Process(n, m)
  PROVE  ApplyStep(n)
<1>1. /\ \A s \in Server \ {n} : UNCHANGED Log[s]
      /\ UNCHANGED <<LastApplied, RsmLog, LastAppliedIndex, replies>>
  BY ZenonT(60) DEF Process, OnRequestVoteRequest, OnRequestVoteResponse, OnAppendEntriesRequest,
         RefuseStaleAppend, TakeAppend, OnAppendEntriesResponse, TypeOK, stateVars,
         commitVars, clientVars
<1>2. /\ CommitIndex[n] \in Nat /\ MatchIndex[n] \in [Server -> Nat]
      /\ CommitIndex \in [Server -> Nat]
  BY DEF TypeOK
<1>3. CASE UNCHANGED CommitIndex
  BY <1>1, <1>3, ApplyQuiet
<1>4. CASE \E k : CommitIndex' = [CommitIndex EXCEPT ![n] = MaxOf(CommitIndex[n], k)]
                   /\ k \in Nat
  <2>1. PICK k \in Nat : CommitIndex' = [CommitIndex EXCEPT ![n] = MaxOf(CommitIndex[n], k)]
    BY <1>4
  <2>2. /\ \A s \in Server \ {n} : CommitIndex'[s] = CommitIndex[s]
        /\ CommitIndex'[n] = MaxOf(CommitIndex[n], k)
    BY <1>2, <2>1
  <2>3. CommitIndex[n] <= CommitIndex'[n]
    BY <1>2, <2>2 DEF MaxOf
  <2>4. QED
    BY <1>1, <2>2, <2>3 DEF ApplyStep
<1>5. CASE OnRequestVoteRequest(n, m) \/ OnRequestVoteResponse(n, m)
  BY <1>3, <1>5 DEF OnRequestVoteRequest, OnRequestVoteResponse, commitVars
<1>6. CASE OnAppendEntriesRequest(n, m)
  <2>1. CASE RefuseStaleAppend(n, m)
    BY <1>3, <2>1 DEF RefuseStaleAppend, commitVars
  <2>2. CASE TakeAppend(n, m)
    <3>1. m.LeaderCommit \in Nat
      <4>1. m.Type = "AppendEntriesRequest"
        BY <1>6 DEF OnAppendEntriesRequest
      <4>2. m \in TAppendEntriesRequest
        BY <4>1, MessageTypes DEF TypeOK
      <4>3. QED
        BY <4>2 DEF TAppendEntriesRequest
    <3>2. QED
      BY <1>3, <1>4, <2>2, <3>1 DEF TakeAppend
  <2>3. QED
    BY <1>6, <2>1, <2>2 DEF OnAppendEntriesRequest
<1>7. CASE OnAppendEntriesResponse(n, m)
  <2>1. CASE AppendSucceeded(n, m)
    <3>1. MatchIndex'[n] \in [Server -> Nat]
      <4>1. /\ m.Src \in Server /\ m \in Message /\ m.Type = "AppendEntriesResponse"
        BY <1>7, MessageTypes DEF TypeOK, OnAppendEntriesResponse
      <4>2. m.MatchIndex \in Nat
        BY <4>1, MessageTypes DEF TAppendEntriesResponse
      <4>3. MatchIndex' = [MatchIndex EXCEPT ![n][m.Src] =
                              MaxOf(MatchIndex[n][m.Src], m.MatchIndex)]
        BY <2>1 DEF AppendSucceeded
      <4>4. MatchIndex'[n] = [MatchIndex[n] EXCEPT ![m.Src] =
                                 MaxOf(MatchIndex[n][m.Src], m.MatchIndex)]
        BY <4>3 DEF TypeOK
      <4>5. MaxOf(MatchIndex[n][m.Src], m.MatchIndex) \in Nat
        BY <1>2, <4>1, <4>2 DEF MaxOf
      <4>6. QED
        BY <1>2, <4>4, <4>5
    <3>2. CommitAdvance(n, MatchIndex'[n])
      BY <2>1 DEF AppendSucceeded
    <3>3. PICK k \in {Indices(n, MatchIndex'[n])[p] : p \in Server} :
             CommitIndex' = IF LogTerm(Log[n], MaxOf(CommitIndex[n], k)) = CurrentTerm[n]
                            THEN [CommitIndex EXCEPT ![n] = MaxOf(CommitIndex[n], k)]
                            ELSE CommitIndex
      BY <3>2 DEF CommitAdvance
    <3>4. k \in Nat
      <4>1. \A p \in Server : Indices(n, MatchIndex'[n])[p] \in {Len(Log[n]), MatchIndex'[n][p]}
        BY DEF Indices
      <4>2. Len(Log[n]) \in Nat
        BY DEF TypeOK
      <4>3. \A p \in Server : MatchIndex'[n][p] \in Nat
        BY <3>1
      <4>4. QED
        BY <3>3, <4>1, <4>2, <4>3
    <3>5. QED
      BY <1>3, <1>4, <3>3, <3>4
  <2>2. CASE ~ AppendSucceeded(n, m)
    BY <1>3, <1>7, <2>2 DEF OnAppendEntriesResponse, AppendFailed
  <2>3. QED
    BY <2>1, <2>2
<1>8. QED
  BY <1>5, <1>6, <1>7 DEF Process

LEMMA ApplyTick ==
  ASSUME TypeOK, NEW n \in Server, ProcessTimeout(n)
  PROVE  ApplyStep(n)
<1>1. CommitIndex[n] \in Nat /\ CommitIndex \in [Server -> Nat]
  BY DEF TypeOK
<1>2. CASE StartElection(n)
  <2>1. UNCHANGED <<Log, CommitIndex, RsmLog, LastAppliedIndex, replies>>
    BY <1>2 DEF StartElection, clientVars
  <2>2. \A s \in Server : LastApplied'[s] \in {0, LastApplied[s]}
    BY <1>2 DEF StartElection, TypeOK
  <2>3. QED
    BY <2>1, <2>2, ApplyQuiet
<1>3. CASE \E due \in SUBSET Peers(n) : ResendVotes(n, due)
  BY <1>3, ApplyQuiet DEF ResendVotes, stateVars, commitVars, clientVars
<1>4. CASE BecomeLeader(n)
  <2>1. /\ UNCHANGED <<Log, CommitIndex>>
        /\ ProcessCommitted(n, CommitIndex[n]) /\ ProcessWaiting(n)
    BY <1>4 DEF BecomeLeader, stateVars
  <2>2. ProcessCommitted(n, CommitIndex'[n])
    BY <2>1
  <2>3. QED
    BY <1>1, <2>1, <2>2 DEF ApplyStep
<1>5. CASE \E due \in SUBSET Peers(n) : LeaderTimeout(n, due)
  <2>1. /\ UNCHANGED Log
        /\ CommitOnTick(n)
        /\ ProcessCommitted(n, CommitIndex'[n]) /\ ProcessWaiting(n)
    BY <1>5 DEF LeaderTimeout, stateVars
  <2>2. /\ \A s \in Server \ {n} : CommitIndex'[s] = CommitIndex[s]
        /\ CommitIndex[n] <= CommitIndex'[n]
    <3>1. CASE CommitIndex' = CommitIndex
      BY <1>1, <3>1
    <3>2. CASE CommitAdvance(n, MatchIndex[n])
      <4>1. PICK k \in {Indices(n, MatchIndex[n])[p] : p \in Server} :
               CommitIndex' = IF LogTerm(Log[n], MaxOf(CommitIndex[n], k)) = CurrentTerm[n]
                              THEN [CommitIndex EXCEPT ![n] = MaxOf(CommitIndex[n], k)]
                              ELSE CommitIndex
        BY <3>2 DEF CommitAdvance
      <4>2. k \in Nat
        <5>1. \A p \in Server : Indices(n, MatchIndex[n])[p] \in {Len(Log[n]), MatchIndex[n][p]}
          BY DEF Indices
        <5>2. Len(Log[n]) \in Nat
          BY DEF TypeOK
        <5>3. MatchIndex[n] \in [Server -> Nat]
          BY DEF TypeOK
        <5>4. \A p \in Server : MatchIndex[n][p] \in Nat
          BY <5>3
        <5>5. QED
          BY <4>1, <5>1, <5>2, <5>4
      <4>3. CASE CommitIndex' = [CommitIndex EXCEPT ![n] = MaxOf(CommitIndex[n], k)]
        <5>1. /\ \A s \in Server \ {n} : CommitIndex'[s] = CommitIndex[s]
              /\ CommitIndex'[n] = MaxOf(CommitIndex[n], k)
          BY <1>1, <4>3
        <5>2. QED
          BY <1>1, <4>2, <5>1 DEF MaxOf
      <4>4. QED
        BY <3>1, <4>1, <4>3
    <3>3. QED
      BY <2>1, <3>1, <3>2 DEF CommitOnTick
  <2>3. QED
    BY <2>1, <2>2 DEF ApplyStep
<1>6. CASE SoloElection(n)
  BY <1>6, ApplyQuiet DEF SoloElection, commitVars, clientVars
<1>7. QED
  BY <1>2, <1>3, <1>4, <1>5, <1>6 DEF ProcessTimeout

LEMMA ApplyNext ==
  ASSUME TypeOK, Next
  PROVE  \E n \in Server : ApplyStep(n)
<1>1. PICK n \in Server : \/ \E m \in msgs : Process(n, m)
                          \/ \E c \in Command : OnCommandRequest(n, c)
                          \/ ProcessTimeout(n)
  BY DEF Next
<1>2. CASE \E c \in Command : OnCommandRequest(n, c)
  <2>1. \A s \in Server \ {n} : Log'[s] = Log[s]
    BY <1>2 DEF OnCommandRequest, TypeOK
  <2>2. UNCHANGED <<commitVars, RsmLog, LastAppliedIndex, replies>>
    BY <1>2 DEF OnCommandRequest
  <2>3. QED
    BY <2>1, <2>2, ApplyQuiet DEF commitVars
<1>3. QED
  BY <1>1, <1>2, ApplyMessage, ApplyTick

-----------------------------------------------------------------------------
(* What is applied                                                          *)

\* TDummyRsm::Write for the indices from where the state machine stopped to c.
LEMMA AppliedShape ==
  ASSUME NEW S, NEW rsm \in Seq(S), NEW log \in Seq(S), NEW c \in Nat,
         SameUpTo(rsm, log, Len(rsm)), Len(rsm) <= c, c <= Len(log),
         NEW new, new = Applied(rsm, log, Len(rsm), c)
  PROVE  new \in Seq(S) /\ Len(new) = c /\ SameUpTo(new, log, c)
<1> DEFINE a == Len(rsm)
           rest == SubSeq(log, a + 1, c)
<1>1. a \in Nat /\ Len(log) \in Nat
  OBVIOUS
<1>2. /\ rest \in Seq(S) /\ Len(rest) = c - a
      /\ \A i \in 1..c - a : rest[i] = log[a + i]
  <2>1. rest \in Seq(S)
    <3>1. \A i \in a + 1..c : log[i] \in S
      BY <1>1
    <3>2. QED
      BY <1>1, <3>1, SubSeqProperties
  <2>2. Len(rest) = c - a
    BY <1>1, SubSeqProperties
  <2>3. \A i \in 1..c - a : rest[i] = log[a + 1 + i - 1]
    BY <1>1, SubSeqProperties
  <2>4. QED
    BY <1>1, <2>1, <2>2, <2>3
<1>3. new = rsm \o rest
  BY DEF Applied
<1> HIDE DEF rest
<1>4. /\ new \in Seq(S) /\ Len(new) = a + (c - a)
      /\ \A i \in 1..Len(new) : new[i] = IF i <= a THEN rsm[i] ELSE rest[i - a]
  BY <1>1, <1>2, <1>3, ConcatProperties
<1>5. Len(new) = c
  BY <1>1, <1>4
<1>6. ASSUME NEW i \in 1..c
      PROVE  new[i] = log[i]
  <2>1. CASE i <= a
    <3>1. new[i] = rsm[i]
      BY <1>4, <1>5, <2>1
    <3>2. QED
      BY <1>1, <2>1, <3>1 DEF SameUpTo
  <2>2. CASE i > a
    <3>1. new[i] = rest[i - a]
      BY <1>1, <1>4, <1>5, <2>2
    <3>2. i - a \in 1..c - a /\ a + (i - a) = i
      BY <1>1, <2>2
    <3>3. rest[i - a] = log[a + (i - a)]
      BY <1>2, <3>2
    <3>4. QED
      BY <3>1, <3>2, <3>3
  <2>3. QED
    BY <1>1, <2>1, <2>2
<1>7. QED
  BY <1>4, <1>5, <1>6 DEF SameUpTo

LEMMA ApplyKept ==
  ASSUME KnownStep, CommitInv, CommitInv', ApplyInv, NEW n \in Server, ApplyStep(n)
  PROVE  ApplyInv'
<1>1. /\ LastApplied \in [Server -> Nat] /\ LastAppliedIndex \in [Server -> Nat]
      /\ CommitIndex \in [Server -> Nat] /\ CommitIndex' \in [Server -> Nat]
      /\ RsmLog \in [Server -> Seq(Entry)]
      /\ waiting \in [Server -> SUBSET Waiting]
  BY DEF KnownStep, TypeOK, ApplyInv
<1>2. ASSUME NEW s \in Server
      PROVE  /\ Log[s] \in Seq(Entry) /\ Len(Log[s]) \in Nat
             /\ Log'[s] \in Seq(Entry) /\ Len(Log'[s]) \in Nat
             /\ CommitIndex[s] \in Nat /\ CommitIndex'[s] \in Nat
             /\ LastApplied[s] \in Nat /\ LastAppliedIndex[s] \in Nat
             /\ CommitIndex[s] <= CommitIndex'[s]
             /\ LastApplied[s] <= LastAppliedIndex[s]
             /\ LastAppliedIndex[s] <= CommitIndex[s]
             /\ Len(RsmLog[s]) = LastAppliedIndex[s]
             /\ SameUpTo(RsmLog[s], Log[s], LastAppliedIndex[s])
  <2>1. CommitIndex[s] \in Nat /\ CommitIndex'[s] \in Nat
    BY <1>1
  <2>2. CommitIndex[s] <= CommitIndex'[s]
    BY <2>1 DEF ApplyStep
  <2>3. QED
    BY <1>1, <2>1, <2>2, Facts DEF ApplyInv, AppliedOnce
<1>3. ASSUME NEW s \in Server, UNCHANGED <<RsmLog[s], LastAppliedIndex[s]>>,
             LastApplied'[s] \in {0, LastApplied[s]}
      PROVE  /\ RsmLog'[s] \in Seq(Entry)
             /\ LastApplied'[s] <= LastAppliedIndex'[s]
             /\ LastAppliedIndex'[s] <= CommitIndex'[s]
             /\ Len(RsmLog'[s]) = LastAppliedIndex'[s]
             /\ SameUpTo(RsmLog'[s], Log'[s], LastAppliedIndex'[s])
  <2>1. CommittedBy(CommitIndex[s], CurrentTerm[s], Log[s]) /\ ElectedInv
    BY DEF CommitInv, CommitsInv
  <2>2. SameUpTo(Log[s], Log'[s], CommitIndex[s])
    BY <1>2, <2>1, CommittedStays
  <2>3. SameUpTo(Log[s], Log'[s], LastAppliedIndex[s])
    BY <1>2, <2>2, SameLess
  <2>4. SameUpTo(RsmLog[s], Log'[s], LastAppliedIndex[s])
    BY <1>2, <2>3, SameThrough
  <2>5. QED
    BY <1>1, <1>2, <1>3, <2>4
<1>4. CASE /\ UNCHANGED <<RsmLog, LastAppliedIndex, replies>>
           /\ \A s \in Server : LastApplied'[s] \in {0, LastApplied[s]}
  <2>1. RsmLog' \in [Server -> Seq(Entry)] /\ replies' \subseteq Reply
    BY <1>1, <1>4 DEF ApplyInv, AppliedOnce
  <2>2. \A s \in Server : /\ RsmLog'[s] \in Seq(Entry)
                          /\ LastApplied'[s] <= LastAppliedIndex'[s]
                          /\ LastAppliedIndex'[s] <= CommitIndex'[s]
                          /\ Len(RsmLog'[s]) = LastAppliedIndex'[s]
                          /\ SameUpTo(RsmLog'[s], Log'[s], LastAppliedIndex'[s])
                          /\ LastApplied'[s] <= CommitIndex'[s]
    <3> SUFFICES ASSUME NEW s \in Server
                 PROVE  /\ RsmLog'[s] \in Seq(Entry)
                        /\ LastApplied'[s] <= LastAppliedIndex'[s]
                        /\ LastAppliedIndex'[s] <= CommitIndex'[s]
                        /\ Len(RsmLog'[s]) = LastAppliedIndex'[s]
                        /\ SameUpTo(RsmLog'[s], Log'[s], LastAppliedIndex'[s])
                        /\ LastApplied'[s] <= CommitIndex'[s]
      OBVIOUS
    <3>1. UNCHANGED <<RsmLog[s], LastAppliedIndex[s]>> /\ LastApplied'[s] \in {0, LastApplied[s]}
      BY <1>4
    <3>2. QED
      BY <1>2, <1>3, <3>1
  <2>3. QED
    BY <2>1, <2>2 DEF ApplyInv, AppliedOnce
<1>5. CASE /\ Log' = Log
           /\ ProcessCommitted(n, CommitIndex'[n])
           /\ ProcessWaiting(n)
  <2> DEFINE c == CommitIndex'[n]
  <2>1. c \in Nat /\ AppliedUpTo(n) = LastAppliedIndex[n] /\ LastAppliedIndex[n] <= c
    BY <1>2 DEF AppliedUpTo, MaxOf
  <2>2. c <= Len(Log[n])
    <3>1. CommittedBy(CommitIndex[n], CurrentTerm[n], Log[n])'
      BY DEF CommitInv, CommitsInv
    <3>2. c <= Len(Log'[n])
      BY <1>2, <3>1 DEF CommittedBy, SameUpTo
    <3>3. QED
      BY <1>5, <3>2
  <2>3. /\ RsmLog' = [RsmLog EXCEPT ![n] = Applied(@, Log[n], LastAppliedIndex[n], c)]
        /\ LastAppliedIndex' = [LastAppliedIndex EXCEPT ![n] =
                                   IF c > LastAppliedIndex[n] THEN c ELSE @]
        /\ LastApplied' = [LastApplied EXCEPT ![n] = c]
    BY <1>5, <2>1 DEF ProcessCommitted
  <2> HIDE DEF c
  <2>4. /\ RsmLog'[n] = Applied(RsmLog[n], Log[n], Len(RsmLog[n]), c)
        /\ LastAppliedIndex'[n] = c
        /\ LastApplied'[n] = c
        /\ \A s \in Server \ {n} : UNCHANGED <<RsmLog[s], LastAppliedIndex[s], LastApplied[s]>>
    BY <1>1, <1>2, <2>1, <2>3
  <2>5. RsmLog'[n] \in Seq(Entry) /\ Len(RsmLog'[n]) = c /\ SameUpTo(RsmLog'[n], Log[n], c)
    BY <1>1, <1>2, <2>1, <2>2, <2>4, AppliedShape
  <2>6. RsmLog' \in [Server -> Seq(Entry)]
    BY <1>1, <2>3, <2>4, <2>5
  <2>7. replies' \subseteq Reply
    <3>1. replies \subseteq Reply
      BY DEF ApplyInv, AppliedOnce
    <3>2. ASSUME NEW w \in Done(n) PROVE ReplyTo(n, w) \in Reply
      <4>1. w \in Waiting
        BY <1>1 DEF Done
      <4>2. RsmLog'[n] \in Seq(Entry) /\ <<>> \in Seq(Entry)
        BY <2>5
      <4>3. QED
        BY <4>1, <4>2 DEF ReplyTo, Reply, Waiting
    <3>3. QED
      BY <1>5, <3>1, <3>2 DEF ProcessWaiting
  <2>8. \A s \in Server : /\ RsmLog'[s] \in Seq(Entry)
                          /\ LastApplied'[s] <= LastAppliedIndex'[s]
                          /\ LastAppliedIndex'[s] <= CommitIndex'[s]
                          /\ Len(RsmLog'[s]) = LastAppliedIndex'[s]
                          /\ SameUpTo(RsmLog'[s], Log'[s], LastAppliedIndex'[s])
                          /\ LastApplied'[s] <= CommitIndex'[s]
    <3> SUFFICES ASSUME NEW s \in Server
                 PROVE  /\ RsmLog'[s] \in Seq(Entry)
                        /\ LastApplied'[s] <= LastAppliedIndex'[s]
                        /\ LastAppliedIndex'[s] <= CommitIndex'[s]
                        /\ Len(RsmLog'[s]) = LastAppliedIndex'[s]
                        /\ SameUpTo(RsmLog'[s], Log'[s], LastAppliedIndex'[s])
                        /\ LastApplied'[s] <= CommitIndex'[s]
      OBVIOUS
    <3>1. CASE s = n
      BY <1>5, <2>1, <2>4, <2>5, <3>1 DEF c
    <3>2. CASE s # n
      <4>1. /\ UNCHANGED <<RsmLog[s], LastAppliedIndex[s]>>
            /\ LastApplied'[s] \in {0, LastApplied[s]}
        BY <2>4, <3>2
      <4>2. QED
        BY <1>2, <1>3, <2>4, <3>2, <4>1
    <3>3. QED
      BY <3>1, <3>2
  <2>9. QED
    BY <2>6, <2>7, <2>8 DEF ApplyInv, AppliedOnce
<1>6. QED
  BY <1>4, <1>5 DEF ApplyStep

\* What a server knows to be committed is a prefix of what another one knows.
AgreeInv ==
    \A a, b \in Server :
        CommitIndex[a] <= CommitIndex[b] => SameUpTo(Log[a], Log[b], CommitIndex[a])

LEMMA ApplyInvCorrect == Spec => []ApplyInv
<1>1. Init => ApplyInv
  BY DEF Init, ApplyInv, AppliedOnce, SameUpTo
<1>2. TypeOK /\ TypeOK' /\ VoteInv /\ VoteInv' /\ LeaderLogInv /\ LeaderLogInv'
         /\ LogInv /\ LogInv' /\ CommitInv /\ CommitInv' /\ ApplyInv /\ [Next]_vars
            => ApplyInv'
  <2> SUFFICES ASSUME TypeOK, TypeOK', VoteInv, VoteInv', LeaderLogInv, LeaderLogInv',
                      LogInv, LogInv', CommitInv, CommitInv', ApplyInv, [Next]_vars
               PROVE  ApplyInv'
    OBVIOUS
  <2>1. CASE Next
    BY <2>1, KnownNext, ApplyNext, ApplyKept
  <2>2. CASE UNCHANGED vars
    BY <2>2 DEF ApplyInv, AppliedOnce, vars, stateVars, commitVars, clientVars
  <2>3. QED
    BY <2>1, <2>2
<1>3. QED
  BY <1>1, <1>2, TypeCorrect, VoteInvCorrect, LeaderLogCorrect, LogInvCorrect,
     CommitInvCorrect, PTL DEF Spec

\* In a cluster of any size, and however often LastApplied goes back to 0, a server's
\* state machine has applied its log up to LastAppliedIndex, each entry once and in
\* order, and nothing that is not committed.
THEOREM AppliesOnce == Spec => []AppliedOnce
<1>1. ApplyInv => AppliedOnce
  BY DEF ApplyInv
<1>2. QED
  BY <1>1, ApplyInvCorrect, PTL

-----------------------------------------------------------------------------
(* Raft implements ReplicatedLog                                            *)

LEMMA AgreeInvCorrect == Spec => []AgreeInv
<1>1. TypeOK /\ CommitInv => AgreeInv
  <2> SUFFICES ASSUME TypeOK, CommitInv, NEW a \in Server, NEW b \in Server,
                      CommitIndex[a] <= CommitIndex[b]
               PROVE  SameUpTo(Log[a], Log[b], CommitIndex[a])
    BY DEF AgreeInv
  <2> DEFINE c == CommitIndex[a]
             d == CommitIndex[b]
  <2>1. c \in Nat /\ d \in Nat /\ c <= d
    BY DEF TypeOK
  <2>2. Len(Log[a]) \in Nat
    BY DEF TypeOK
  <2>3. Len(Log[b]) \in Nat
    BY DEF TypeOK
  <2>4. /\ CommittedBy(c, CurrentTerm[a], Log[a])
        /\ CommittedBy(d, CurrentTerm[b], Log[b])
        /\ ElectedInv
    BY DEF CommitInv, CommitsInv
  <2> HIDE DEF c, d
  <2>5. CASE c = 0
    BY <2>2, <2>3, <2>5 DEF SameUpTo, c
  <2>6. CASE c # 0
    <3>1. PICK t \in DOMAIN LeaderLog : \E k \in 1..Len(LeaderLog[t]) :
             c <= k /\ Chosen(t, k) /\ SameUpTo(LeaderLog[t], Log[a], c)
      BY <2>4, <2>6 DEF CommittedBy
    <3>2. PICK k \in 1..Len(LeaderLog[t]) :
             c <= k /\ Chosen(t, k) /\ SameUpTo(LeaderLog[t], Log[a], c)
      BY <3>1
    <3>3. d # 0
      BY <2>1, <2>6
    <3>4. PICK u \in DOMAIN LeaderLog : \E j \in 1..Len(LeaderLog[u]) :
             d <= j /\ Chosen(u, j) /\ SameUpTo(LeaderLog[u], Log[b], d)
      BY <2>4, <3>3 DEF CommittedBy
    <3>5. PICK j \in 1..Len(LeaderLog[u]) :
             d <= j /\ Chosen(u, j) /\ SameUpTo(LeaderLog[u], Log[b], d)
      BY <3>4
    <3>6. t \in Nat /\ u \in Nat
      BY <3>1, <3>4 DEF TypeOK
    <3>7. Len(LeaderLog[t]) \in Nat /\ Len(LeaderLog[u]) \in Nat
      <4>1. LeaderLog[t] \in Seq(Entry) /\ LeaderLog[u] \in Seq(Entry)
        BY <3>1, <3>4 DEF TypeOK
      <4>2. QED
        BY <4>1
    <3>8. SameUpTo(LeaderLog[u], Log[b], c)
      BY <2>1, <2>3, <3>5, <3>7, SameLess
    <3>9. SameUpTo(LeaderLog[t], LeaderLog[u], c)
      <4>1. CASE t <= u
        <5>1. SameUpTo(LeaderLog[t], LeaderLog[u], k)
          BY <3>2, <3>4, <4>1, ChosenSafe, <2>4
        <5>2. QED
          BY <2>1, <3>2, <3>7, <5>1, SameLess
      <4>2. CASE u <= t
        <5>1. SameUpTo(LeaderLog[u], LeaderLog[t], j)
          BY <3>1, <3>5, <4>2, ChosenSafe, <2>4
        <5>2. SameUpTo(LeaderLog[u], LeaderLog[t], c)
          BY <2>1, <3>5, <3>7, <5>1, SameLess
        <5>3. QED
          BY <5>2, SameBack
      <4>3. QED
        BY <3>6, <4>1, <4>2
    <3>10. QED
      BY <3>2, <3>8, <3>9, SameBack, SameThrough DEF c
  <2>7. QED
    BY <2>5, <2>6
<1>2. QED
  BY <1>1, TypeCorrect, CommitInvCorrect, PTL

LEMMA PrefixOf ==
  ASSUME NEW S, NEW s \in Seq(S), NEW t \in Seq(S), SameUpTo(s, t, Len(s))
  PROVE  Abstract!IsPrefix(s, t)
<1>1. Len(s) \in Nat /\ Len(s) <= Len(t) /\ \A i \in 1..Len(s) : s[i] = t[i]
  BY DEF SameUpTo
<1>2. (\A i \in 1..Len(s) : s[i] \in S) /\ (\A i \in 1..Len(s) : t[i] \in S)
  BY <1>1
<1>3. /\ SubSeq(s, 1, Len(s)) \in Seq(S) /\ Len(SubSeq(s, 1, Len(s))) = Len(s)
      /\ \A i \in 1..Len(s) : SubSeq(s, 1, Len(s))[i] = s[i]
  <2>1. SubSeq(s, 1, Len(s)) = s
    BY <1>1
  <2>2. QED
    BY <2>1
<1>4. /\ SubSeq(t, 1, Len(s)) \in Seq(S) /\ Len(SubSeq(t, 1, Len(s))) = Len(s)
      /\ \A i \in 1..Len(s) : SubSeq(t, 1, Len(s))[i] = t[1 + i - 1]
  BY <1>1, <1>2, SubSeqProperties
<1>5. \A i \in 1..Len(s) : 1 + i - 1 = i
  BY <1>1
<1>6. SubSeq(s, 1, Len(s)) = SubSeq(t, 1, Len(s))
  BY <1>1, <1>3, <1>4, <1>5, SeqEqual
<1>7. QED
  BY <1>1, <1>6 DEF Abstract!IsPrefix

LEMMA FirstOf ==
  ASSUME NEW S, NEW log \in Seq(S), NEW c \in 0..Len(log)
  PROVE  /\ SubSeq(log, 1, c) \in Seq(S)
         /\ Len(SubSeq(log, 1, c)) = c
         /\ SameUpTo(SubSeq(log, 1, c), log, c)
<1>1. Len(log) \in Nat /\ c \in Nat /\ \A i \in 1..c : log[i] \in S
  OBVIOUS
<1>2. /\ SubSeq(log, 1, c) \in Seq(S) /\ Len(SubSeq(log, 1, c)) = c
      /\ \A i \in 1..c : SubSeq(log, 1, c)[i] = log[1 + i - 1]
  BY <1>1, SubSeqProperties
<1>3. \A i \in 1..c : 1 + i - 1 = i
  BY <1>1
<1>4. QED
  BY <1>1, <1>2, <1>3 DEF SameUpTo

\* The first entries of logs that agree.
LEMMA FirstPrefix ==
  ASSUME NEW S, NEW x \in Seq(S), NEW y \in Seq(S),
         NEW c \in 0..Len(x), NEW d \in 0..Len(y), c <= d, SameUpTo(x, y, c)
  PROVE  Abstract!IsPrefix(SubSeq(x, 1, c), SubSeq(y, 1, d))
<1>1. /\ SubSeq(x, 1, c) \in Seq(S) /\ Len(SubSeq(x, 1, c)) = c
      /\ SubSeq(y, 1, d) \in Seq(S) /\ Len(SubSeq(y, 1, d)) = d
      /\ SameUpTo(SubSeq(x, 1, c), x, c)
      /\ SameUpTo(SubSeq(y, 1, d), y, d)
  BY FirstOf
<1>2. SameUpTo(SubSeq(x, 1, c), SubSeq(y, 1, d), c)
  BY <1>1 DEF SameUpTo
<1>3. QED
  BY <1>1, <1>2, PrefixOf

\* What an answer that a tick gives is about.
LEMMA NewReplies ==
  ASSUME TypeOK, TypeOK', ApplyInv', NEW n \in Server, ApplyStep(n),
         NEW r \in replies' \ replies
  PROVE  /\ r.Server = n
         /\ r.Index \in Nat
         /\ r.Index <= CommitIndex'[n]
         /\ r.Result \in {RsmLog'[n], <<>>}
         /\ r.Cmd \in Reads => r.Result = RsmLog'[n] /\ r.Index <= Len(RsmLog'[n])
<1>1. ProcessWaiting(n)
  BY DEF ApplyStep
<1>2. PICK w \in Done(n) : r = ReplyTo(n, w)
  BY <1>1 DEF ProcessWaiting
<1>3. w \in Waiting /\ w.Index <= LastApplied'[n]
  BY <1>2 DEF Done, TypeOK
<1>4. w.Index \in Nat
  BY <1>3 DEF Waiting
<1>5. /\ LastApplied'[n] <= LastAppliedIndex'[n]
      /\ LastAppliedIndex'[n] <= CommitIndex'[n]
      /\ Len(RsmLog'[n]) = LastAppliedIndex'[n]
      /\ Len(RsmLog'[n]) \in Nat
  <2>1. RsmLog'[n] \in Seq(Entry)
    BY DEF ApplyInv
  <2>2. QED
    BY <2>1 DEF ApplyInv, AppliedOnce
<1>6. /\ r.Server = n /\ r.Index = w.Index /\ r.Cmd = w.Cmd
      /\ r.Result = IF w.Cmd \in Reads THEN RsmLog'[n] ELSE <<>>
  BY <1>2 DEF ReplyTo
<1>7. CommitIndex'[n] \in Nat /\ LastApplied'[n] \in Nat /\ LastAppliedIndex'[n] \in Nat
  BY DEF TypeOK
<1>8. QED
  BY <1>3, <1>4, <1>5, <1>6, <1>7

LEMMA RefinesNext ==
  ASSUME KnownStep, CommitInv, CommitInv', ApplyInv', AgreeInv',
         NEW n \in Server, ApplyStep(n)
  PROVE  Abstract!Next
<1> DEFINE Learned == [s \in Server |-> Committed(s)]
<1>1. ASSUME NEW s \in Server
      PROVE  /\ Log[s] \in Seq(Entry) /\ CommitIndex[s] \in 0..Len(Log[s])
             /\ Log'[s] \in Seq(Entry) /\ CommitIndex'[s] \in 0..Len(Log'[s])
  <2>1. /\ Log[s] \in Seq(Entry) /\ Len(Log[s]) \in Nat
        /\ Log'[s] \in Seq(Entry) /\ Len(Log'[s]) \in Nat
    BY Facts
  <2>2. CommitIndex[s] \in Nat /\ CommitIndex'[s] \in Nat
    BY DEF KnownStep, TypeOK
  <2>3. CommittedBy(CommitIndex[s], CurrentTerm[s], Log[s])
    BY DEF CommitInv, CommitsInv
  <2>4. CommittedBy(CommitIndex[s], CurrentTerm[s], Log[s])'
    BY DEF CommitInv, CommitsInv
  <2>5. CommitIndex[s] <= Len(Log[s])
    BY <2>1, <2>2, <2>3 DEF CommittedBy, SameUpTo
  <2>6. CommitIndex'[s] <= Len(Log'[s])
    BY <2>1, <2>2, <2>4 DEF CommittedBy, SameUpTo
  <2>7. QED
    BY <2>1, <2>2, <2>5, <2>6
<1>2. \A s \in Server \ {n} : Committed(s)' = Committed(s)
  BY DEF ApplyStep, Committed
<1>3. Abstract!IsPrefix(Committed(n), Committed(n)')
  <2>1. CommittedBy(CommitIndex[n], CurrentTerm[n], Log[n]) /\ ElectedInv
    BY DEF CommitInv, CommitsInv
  <2>2. SameUpTo(Log[n], Log'[n], CommitIndex[n])
    <3>1. CommitIndex[n] \in Nat
      BY <1>1
    <3>2. QED
      BY <2>1, <3>1, CommittedStays
  <2>3. CommitIndex[n] <= CommitIndex'[n]
    BY DEF ApplyStep
  <2>4. Abstract!IsPrefix(SubSeq(Log[n], 1, CommitIndex[n]), SubSeq(Log'[n], 1, CommitIndex'[n]))
    BY <1>1, <2>2, <2>3, FirstPrefix
  <2>5. QED
    BY <2>4 DEF Committed
<1>4. ASSUME NEW q \in Server
      PROVE  Abstract!Comparable(Committed(n)', Committed(q))
  <2>1. CASE q = n
    BY <1>3, <2>1 DEF Abstract!Comparable
  <2>2. CASE q # n
    <3> DEFINE a == Log'[n]
               b == Log'[q]
               c == CommitIndex'[n]
               d == CommitIndex'[q]
    <3>1. /\ a \in Seq(Entry) /\ c \in 0..Len(a)
          /\ b \in Seq(Entry) /\ d \in 0..Len(b)
      BY <1>1
    <3>2. /\ c <= d => SameUpTo(a, b, c)
          /\ d <= c => SameUpTo(b, a, d)
      BY DEF AgreeInv
    <3>3. Committed(n)' = SubSeq(a, 1, c) /\ Committed(q) = SubSeq(b, 1, d)
      BY <1>2, <2>2 DEF Committed
    <3> HIDE DEF a, b, c, d
    <3>4. c \in Int /\ d \in Int
      BY <3>1
    <3>5. CASE c <= d
      <4>1. Abstract!IsPrefix(SubSeq(a, 1, c), SubSeq(b, 1, d))
        BY <3>1, <3>2, <3>5, FirstPrefix
      <4>2. QED
        BY <3>3, <4>1 DEF Abstract!Comparable
    <3>6. CASE d <= c
      <4>1. Abstract!IsPrefix(SubSeq(b, 1, d), SubSeq(a, 1, c))
        BY <3>1, <3>2, <3>6, FirstPrefix
      <4>2. QED
        BY <3>3, <4>1 DEF Abstract!Comparable
    <3>7. QED
      BY <3>4, <3>5, <3>6
  <2>3. QED
    BY <2>1, <2>2
<1>5. Learned' = [Learned EXCEPT ![n] = Committed(n)']
  BY <1>2
<1>6. Committed(n)' \in Seq(Entry) /\ Len(Committed(n)') = CommitIndex'[n]
  BY <1>1, FirstOf DEF Committed
<1>7. ASSUME NEW r \in replies' \ replies
      PROVE  LET a == AnswerOf(r)
             IN  /\ a.Replica = n
                 /\ a.Index <= Len(Committed(n)')
                 /\ Abstract!IsPrefix(a.Read, Committed(n)')
                 /\ a.IsRead => a.Index <= Len(a.Read)
  <2>1. /\ r.Server = n
        /\ r.Index <= CommitIndex'[n]
        /\ r.Result \in {RsmLog'[n], <<>>}
        /\ r.Cmd \in Reads => r.Result = RsmLog'[n] /\ r.Index <= Len(RsmLog'[n])
    BY NewReplies DEF KnownStep
  <2>2. /\ RsmLog'[n] \in Seq(Entry)
        /\ SameUpTo(RsmLog'[n], Log'[n], Len(RsmLog'[n]))
        /\ Len(RsmLog'[n]) <= CommitIndex'[n]
    BY DEF ApplyInv, AppliedOnce
  <2>3. SameUpTo(Committed(n)', Log'[n], CommitIndex'[n])
    BY <1>1, FirstOf DEF Committed
  <2>4. SameUpTo(RsmLog'[n], Committed(n)', Len(RsmLog'[n]))
    <3>1. /\ Len(RsmLog'[n]) \in Nat /\ CommitIndex'[n] \in Nat
          /\ Len(RsmLog'[n]) \in 0..CommitIndex'[n]
      BY <1>1, <2>2
    <3>2. SameUpTo(Committed(n)', Log'[n], Len(RsmLog'[n]))
      BY <1>1, <1>6, <2>3, <3>1, SameLess
    <3>3. QED
      BY <2>2, <3>2, SameBoth
  <2>5. Abstract!IsPrefix(RsmLog'[n], Committed(n)')
    BY <1>6, <2>2, <2>4, PrefixOf
  <2>6. Abstract!IsPrefix(<<>>, Committed(n)')
    <3>1. SameUpTo(<<>>, Committed(n)', Len(<<>>)) /\ <<>> \in Seq(Entry)
      BY <1>6 DEF SameUpTo
    <3>2. QED
      BY <1>6, <3>1, PrefixOf
  <2>7. QED
    BY <1>6, <2>1, <2>5, <2>6 DEF AnswerOf
<1>8. /\ \A s \in Server : Learned[s] = Committed(s)
      /\ Learned'[n] = Committed(n)'
  OBVIOUS
<1>9. Abstract!Learn(n, Learned'[n])
  BY <1>3, <1>4, <1>5, <1>8 DEF Abstract!Learn
<1>10. Abstract!Answer(n)
  <2>1. replies \subseteq replies'
    BY DEF ApplyStep, ProcessWaiting
  <2>2. ASSUME NEW a \in {AnswerOf(r) : r \in replies}' \ {AnswerOf(r) : r \in replies}
        PROVE  a.Replica = n /\ Abstract!Answerable(a)
    <3>1. PICK r \in replies' : a = AnswerOf(r)
      BY <2>2 DEF AnswerOf
    <3>2. r \in replies' \ replies
      BY <2>2, <3>1
    <3>3. /\ a.Replica = n
          /\ a.Index <= Len(Committed(n)')
          /\ Abstract!IsPrefix(a.Read, Committed(n)')
          /\ a.IsRead => a.Index <= Len(a.Read)
      BY <1>7, <3>1, <3>2
    <3>4. QED
      BY <1>8, <3>3 DEF Abstract!Answerable
  <2>3. {AnswerOf(r) : r \in replies} \subseteq {AnswerOf(r) : r \in replies}'
    BY <2>1 DEF AnswerOf
  <2>4. QED
    BY <2>2, <2>3 DEF Abstract!Answer
<1>11. QED
  BY <1>6, <1>8, <1>9, <1>10 DEF Abstract!Next

\* Raft implements ReplicatedLog, with any number of servers, commands and terms:
\* committed entries agree across servers, are never cut or changed by a change of
\* leader, and clients are answered from them.
THEOREM RaftImplementsReplicatedLog == Spec => ImplementsReplicatedLog
<1>1. Init => Abstract!Init
  <2> SUFFICES ASSUME Init PROVE Abstract!Init
    OBVIOUS
  <2>1. \A n \in Server : Committed(n) = <<>>
    BY SubSeqEmpty DEF Init, Committed
  <2>2. replies = {}
    BY DEF Init
  <2>3. QED
    BY <2>1, <2>2 DEF Abstract!Init
<1>2. TypeOK /\ TypeOK' /\ VoteInv /\ VoteInv' /\ LeaderLogInv /\ LeaderLogInv'
         /\ LogInv /\ LogInv' /\ CommitInv /\ CommitInv' /\ ApplyInv' /\ AgreeInv'
         /\ [Next]_vars
            => [Abstract!Next]_(Abstract!vars)
  <2> SUFFICES ASSUME TypeOK, TypeOK', VoteInv, VoteInv', LeaderLogInv, LeaderLogInv',
                      LogInv, LogInv', CommitInv, CommitInv', ApplyInv', AgreeInv',
                      [Next]_vars
               PROVE  [Abstract!Next]_(Abstract!vars)
    OBVIOUS
  <2>1. CASE Next
    <3>1. PICK n \in Server : ApplyStep(n)
      BY <2>1, ApplyNext
    <3>2. KnownStep
      BY <2>1, KnownNext
    <3>3. QED
      BY <3>1, <3>2, RefinesNext
  <2>2. CASE UNCHANGED vars
    <3>1. UNCHANGED <<Log, CommitIndex, replies>>
      BY <2>2 DEF vars, stateVars, commitVars, clientVars
    <3>2. UNCHANGED Abstract!vars
      BY <3>1 DEF Abstract!vars, Committed, AnswerOf
    <3>3. QED
      BY <3>2
  <2>3. QED
    BY <2>1, <2>2
<1>3. QED
  BY <1>1, <1>2, TypeCorrect, VoteInvCorrect, LeaderLogCorrect, LogInvCorrect,
     CommitInvCorrect, ApplyInvCorrect, AgreeInvCorrect, PTL
  DEF Spec, ImplementsReplicatedLog, Abstract!Spec
=============================================================================
