--------------------------- MODULE ElectionsProofs ---------------------------
(***************************************************************************)
(* Theorems about Elections, for any timeouts, delays and starts: the      *)
(* timed system is one of the behaviours of Raft, and so safe, no server   *)
(* is left without a timer unless it leads, and a leader that all others   *)
(* follow is never deposed.                                                *)
(***************************************************************************)
EXTENDS Elections, CommitProofs

\* The handler of a message sends Answers and nothing is ever unsent.
LEMMA AnswersSent ==
  ASSUME TypeOK, NEW n \in Server, NEW m \in msgs, Process(n, m)
  PROVE  Answers(n, m) \subseteq msgs' /\ msgs \subseteq msgs'
<1>0. m.Term \in Nat /\ CurrentTerm[n] \in Nat
  BY MessageTypes DEF TypeOK
<1>1. CASE OnRequestVoteRequest(n, m)
  BY <1>1 DEF OnRequestVoteRequest, Answers, Send
<1>2. CASE OnRequestVoteResponse(n, m)
  BY <1>2 DEF OnRequestVoteResponse, Answers
<1>3. CASE OnAppendEntriesRequest(n, m) /\ RefuseStaleAppend(n, m)
  BY <1>3, <1>0 DEF OnAppendEntriesRequest, RefuseStaleAppend, Answers, Send
<1>4. CASE OnAppendEntriesRequest(n, m) /\ TakeAppend(n, m) /\ PrevMatches(n, m)
  <2>1. Answers(n, m) = {AppendResponse(n, m.Src, m.Term, MatchedIndex(n, m), TRUE)}
    <3>1. m.Type = "AppendEntriesRequest" /\ m.Term >= CurrentTerm[n]
      BY <1>4 DEF OnAppendEntriesRequest, TakeAppend
    <3>2. ~(m.Term < CurrentTerm[n])
      BY <3>1, <1>0
    <3>3. QED
      BY <3>1, <3>2, <1>4 DEF Answers
  <2>2. Send(AppendResponse(n, m.Src, m.Term, MatchedIndex(n, m), TRUE))
    BY <1>4 DEF TakeAppend
  <2>3. QED
    BY <2>1, <2>2 DEF Send
<1>5. CASE OnAppendEntriesRequest(n, m) /\ TakeAppend(n, m) /\ ~PrevMatches(n, m)
  <2>1. Answers(n, m) = {AppendResponse(n, m.Src, m.Term, 0, FALSE)}
    <3>1. m.Type = "AppendEntriesRequest" /\ m.Term >= CurrentTerm[n]
      BY <1>5 DEF OnAppendEntriesRequest, TakeAppend
    <3>2. ~(m.Term < CurrentTerm[n])
      BY <3>1, <1>0
    <3>3. QED
      BY <3>1, <3>2, <1>5 DEF Answers
  <2>2. Send(AppendResponse(n, m.Src, m.Term, 0, FALSE))
    BY <1>5 DEF TakeAppend
  <2>3. QED
    BY <2>1, <2>2 DEF Send
<1>6. CASE OnAppendEntriesResponse(n, m)
  BY <1>6 DEF OnAppendEntriesResponse, Answers
<1>7. QED
  BY <1>1, <1>2, <1>3, <1>4, <1>5, <1>6 DEF Process, OnAppendEntriesRequest

LEMMA SentMessages ==
  ASSUME NEW ms, NEW f \in Sent(ms)
  PROVE  f.m \in ms
  BY DEF Sent

\* The flight gains only what is sent and keeps the messages it has.
LEMMA FlightGains ==
  ASSUME FlightSent, NEW ms, ms \subseteq msgs', msgs \subseteq msgs',
         flight' \subseteq flight \cup Sent(ms)
  PROVE  FlightSent'
<1> SUFFICES ASSUME NEW f \in flight'
             PROVE  f.m \in msgs'
  BY DEF FlightSent
<1>1. CASE f \in flight
  BY <1>1 DEF FlightSent
<1>2. CASE f \in Sent(ms)
  BY <1>2, SentMessages
<1>3. QED
  BY <1>1, <1>2

LEMMA FlightStep == TypeOK /\ FlightSent /\ [TimedNext]_timedVars => FlightSent'
<1> SUFFICES ASSUME TypeOK, FlightSent, [TimedNext]_timedVars
             PROVE  FlightSent'
  OBVIOUS
<1>1. ASSUME NEW f \in flight, TimedProcess(f)
      PROVE  FlightSent'
  <2> DEFINE n == f.m.Dst
  <2>1. f.m \in msgs /\ n \in Server
    BY <1>1, MessageTypes DEF FlightSent, TypeOK
  <2>2. Process(n, f.m) /\ flight' = (flight \ {f}) \cup Sent(Answers(n, f.m))
    BY <1>1 DEF TimedProcess
  <2>3. QED
    BY <2>1, <2>2, AnswersSent, FlightGains
<1>2. ASSUME NEW n \in Server, NEW c \in Command, TimedCommand(n, c)
      PROVE  FlightSent'
  BY <1>2 DEF TimedCommand, OnCommandRequest, FlightSent
<1>3. ASSUME NEW n \in Server, TimedStartElection(n)
      PROVE  FlightSent'
  BY <1>3, FlightGains DEF TimedStartElection, StartElection, SendAll
<1>4. ASSUME NEW n \in Server, TimedBecomeLeader(n)
      PROVE  FlightSent'
  BY <1>4, FlightGains DEF TimedBecomeLeader, BecomeLeader, SendAll
<1>5. ASSUME NEW n \in Server, TimedResendVotes(n)
      PROVE  FlightSent'
  BY <1>5, FlightGains DEF TimedResendVotes, ResendVotes, SendAll
<1>6. ASSUME NEW n \in Server, TimedLeaderTimeout(n)
      PROVE  FlightSent'
  BY <1>6, FlightGains DEF TimedLeaderTimeout, LeaderTimeout, SendAll
<1>7. ASSUME NEW n \in Server, TimedSoloElection(n) \/ TimedFollowerTimeout(n) \/ Start(n)
      PROVE  FlightSent'
  BY <1>7 DEF TimedSoloElection, SoloElection, TimedFollowerTimeout, Start, FlightSent, vars
<1>8. CASE Tick
  BY <1>8 DEF Tick, FlightSent, vars
<1>9. CASE UNCHANGED timedVars
  BY <1>9 DEF timedVars, vars, worldVars, FlightSent
<1>10. QED
  BY <1>1, <1>2, <1>3, <1>4, <1>5, <1>6, <1>7, <1>8, <1>9 DEF TimedNext

LEMMA StepIsRaft == TypeOK /\ FlightSent /\ [TimedNext]_timedVars => [Next]_vars
<1> SUFFICES ASSUME TypeOK, FlightSent, [TimedNext]_timedVars
             PROVE  [Next]_vars
  OBVIOUS
<1>1. ASSUME NEW f \in flight, TimedProcess(f)
      PROVE  Next
  <2>1. f.m \in msgs /\ f.m.Dst \in Server
    BY MessageTypes DEF FlightSent, TypeOK
  <2>2. QED
    BY <1>1, <2>1 DEF TimedProcess, Next
<1>2. ASSUME NEW n \in Server, NEW c \in Command, TimedCommand(n, c)
      PROVE  Next
  BY <1>2 DEF TimedCommand, Next
<1>3. ASSUME NEW n \in Server,
             TimedStartElection(n) \/ TimedBecomeLeader(n) \/ TimedSoloElection(n)
      PROVE  Next
  BY <1>3 DEF TimedStartElection, TimedBecomeLeader, TimedSoloElection, Next, ProcessTimeout
<1>4. ASSUME NEW n \in Server, TimedResendVotes(n)
      PROVE  Next
  <2>1. RpcPassed(n) \in SUBSET Peers(n)
    BY DEF RpcPassed
  <2>2. QED
    BY <1>4, <2>1 DEF TimedResendVotes, Next, ProcessTimeout
<1>5. ASSUME NEW n \in Server, TimedLeaderTimeout(n)
      PROVE  Next
  <2>1. AppendDue(n) \in SUBSET Peers(n)
    BY DEF AppendDue
  <2>2. QED
    BY <1>5, <2>1 DEF TimedLeaderTimeout, Next, ProcessTimeout
<1>6. ASSUME \/ \E n \in Server : TimedFollowerTimeout(n) \/ Start(n)
             \/ Tick
             \/ UNCHANGED timedVars
      PROVE  UNCHANGED vars
  BY <1>6 DEF TimedFollowerTimeout, Start, Tick, timedVars
<1>7. QED
  BY <1>1, <1>2, <1>3, <1>4, <1>5, <1>6 DEF TimedNext

LEMMA FlightCorrect == TimedSpec => [](TypeOK /\ FlightSent)
<1>1. TimedInit => TypeOK /\ FlightSent
  BY TypeInit DEF TimedInit, FlightSent
<1>2. QED
  BY <1>1, FlightStep, StepIsRaft, TypeNext, PTL DEF TimedSpec

\* Whatever the timers do, a step of the timed system is a step of Raft or none of it:
\* ProcessTimeout of a server, or a message that is processed while it is in flight.
THEOREM TimedIsRaft == TimedSpec => Spec
<1>1. TimedInit => Init
  BY DEF TimedInit
<1>2. QED
  BY <1>1, FlightCorrect, StepIsRaft, PTL DEF TimedSpec, Spec

\* No two servers lead in one term, also when every server draws the same timeouts and
\* they stand at the same moment.
THEOREM TimedElectionSafe == TimedSpec => []ElectionSafety
  BY TimedIsRaft, ElectionSafe, PTL

-----------------------------------------------------------------------------
TimerTypes ==
    /\ ElectionDue \in [Server -> Nat \cup {Never}]
    /\ draws \in [1..Shared -> Drawable]
    /\ drawn \in [Server -> Nat]

LEMMA DrawableType == \A d \in Drawable : d \in Nat /\ d >= Election
  BY TimesAssumption DEF Drawable

\* A draw leaves a timer that runs; without one nothing changes.
LEMMA RedrawType ==
  ASSUME TimerTypes, NEW n \in Server, NEW k \in Nat, Redraw(n, k)
  PROVE  /\ ElectionDue' \in [Server -> Nat \cup {Never}]
         /\ drawn' \in [Server -> Nat]
         /\ \A s \in Server : s # n => ElectionDue'[s] = ElectionDue[s]
         /\ k = 0 => ElectionDue'[n] = ElectionDue[n]
         /\ k # 0 => ElectionDue'[n] \in Drawable
<1>1. PICK d \in IF k = 0 THEN {ElectionDue[n]} ELSE MakeElection(MinOf(drawn[n], Shared) + k) :
          ElectionDue' = [ElectionDue EXCEPT ![n] = d]
  BY DEF Redraw
<1>2. k # 0 => d \in Drawable
  <2>1. SUFFICES ASSUME k # 0 PROVE d \in Drawable
    OBVIOUS
  <2> DEFINE i == MinOf(drawn[n], Shared) + k
  <2>2. d \in MakeElection(i)
    BY <1>1, <2>1
  <2>3. i \in Nat \ {0}
    BY <2>1, TimesAssumption DEF TimerTypes, MinOf
  <2> HIDE DEF i
  <2>4. CASE i <= Shared
    BY <2>2, <2>3, <2>4, TimesAssumption DEF MakeElection, TimerTypes
  <2>5. CASE ~(i <= Shared)
    BY <2>2, <2>5 DEF MakeElection
  <2>6. QED
    BY <2>4, <2>5
<1>3. drawn' \in [Server -> Nat]
  BY TimesAssumption DEF Redraw, TimerTypes, MinOf
<1>4. QED
  BY <1>1, <1>2, <1>3, DrawableType DEF TimerTypes

RestInv == TimerTypes /\ OnlyLeadersRest

\* The term check and the handlers keep a leader or restart the timer.
LEMMA RestProcess ==
  ASSUME TypeOK, FlightSent, RestInv, NEW f \in flight, TimedProcess(f)
  PROVE  RestInv'
<1> DEFINE m == f.m
           n == f.m.Dst
<1>1. m \in Message /\ n \in Server /\ m.Term \in Nat /\ CurrentTerm[n] \in Nat
  BY MessageTypes DEF FlightSent, TypeOK
<1>2. Process(n, m) /\ Redraw(n, Draws(n, m)) /\ UNCHANGED draws
  BY DEF TimedProcess
<1>3. Draws(n, m) \in Nat
  BY DEF Draws
<1> HIDE DEF m, n
<1>4. TimerTypes'
  BY <1>1, <1>2, <1>3, RedrawType DEF RestInv, TimerTypes
<1>5. ASSUME NEW s \in Server, ElectionDue'[s] = Never
      PROVE  IsLeader(s)'
  <2>1. s # n \/ Draws(n, m) = 0
    BY <1>1, <1>2, <1>3, <1>5, RedrawType, DrawableType, TimesAssumption DEF RestInv
  <2>2. ElectionDue[s] = Never /\ IsLeader(s)
    BY <1>1, <1>2, <1>3, <1>5, <2>1, RedrawType DEF RestInv, OnlyLeadersRest
  <2>3. CASE s # n
    <3>1. StateName'[s] = StateName[s]
      BY <1>1, <1>2, <2>3 DEF Process, OnRequestVoteRequest, OnRequestVoteResponse,
         OnAppendEntriesRequest, OnAppendEntriesResponse, RefuseStaleAppend, TakeAppend, TypeOK
    <3>2. QED
      BY <2>2, <3>1 DEF IsLeader
  <2>4. CASE s = n
    <3>1. m.Type # "AppendEntriesRequest" /\ ~(m.Term > CurrentTerm[n])
      BY <2>1, <2>2, <2>4 DEF Draws, Restarts, RestartsOnTerm
    <3>2. StateName'[n] = StateName[n]
      BY <1>1, <1>2, <3>1 DEF Process, OnRequestVoteRequest, OnRequestVoteResponse,
         OnAppendEntriesRequest, OnAppendEntriesResponse, StateNameOn, TypeOK
    <3>3. QED
      BY <2>2, <2>4, <3>2 DEF IsLeader
  <2>5. QED
    BY <2>3, <2>4
<1>6. QED
  BY <1>4, <1>5 DEF RestInv, OnlyLeadersRest

LEMMA RestStep ==
    TypeOK /\ FlightSent /\ RestInv /\ [TimedNext]_timedVars => RestInv'
<1> SUFFICES ASSUME TypeOK, FlightSent, RestInv, [TimedNext]_timedVars
             PROVE  RestInv'
  OBVIOUS
<1>1. ASSUME NEW f \in flight, TimedProcess(f)
      PROVE  RestInv'
  BY <1>1, RestProcess
<1>2. ASSUME UNCHANGED <<ElectionDue, draws, drawn, StateName>>
      PROVE  RestInv'
  BY <1>2 DEF RestInv, TimerTypes, OnlyLeadersRest, IsLeader
<1>3. ASSUME NEW n \in Server, TimedStartElection(n)
      PROVE  RestInv'
  <2>1. /\ Redraw(n, 1)
        /\ UNCHANGED draws
        /\ StateName' = [StateName EXCEPT ![n] = "CANDIDATE"]
    BY <1>3 DEF TimedStartElection, StartElection, Turn
  <2>2. /\ ElectionDue' \in [Server -> Nat \cup {Never}]
        /\ drawn' \in [Server -> Nat]
        /\ \A s \in Server : s # n => ElectionDue'[s] = ElectionDue[s]
        /\ ElectionDue'[n] # Never
    BY <2>1, RedrawType, DrawableType, TimesAssumption DEF RestInv
  <2>3. QED
    BY <2>1, <2>2 DEF RestInv, TimerTypes, OnlyLeadersRest, IsLeader, TypeOK
<1>4. ASSUME NEW n \in Server, TimedBecomeLeader(n)
      PROVE  RestInv'
  <2>1. /\ UNCHANGED <<draws, drawn>>
        /\ StateName' = [StateName EXCEPT ![n] = "LEADER"]
        /\ ElectionDue' = [ElectionDue EXCEPT ![n] = Never]
    BY <1>4 DEF TimedBecomeLeader, BecomeLeader, Turn
  <2>2. QED
    BY <2>1 DEF RestInv, TimerTypes, OnlyLeadersRest, IsLeader, TypeOK
<1>5. ASSUME \/ \E n \in Server :
                   \/ \E c \in Command : TimedCommand(n, c)
                   \/ TimedResendVotes(n) \/ TimedLeaderTimeout(n)
                   \/ TimedFollowerTimeout(n) \/ Start(n)
             \/ UNCHANGED timedVars
      PROVE  RestInv'
  <2>1. UNCHANGED <<ElectionDue, draws, drawn, StateName>>
    BY <1>5 DEF TimedCommand, TimedResendVotes, TimedLeaderTimeout, TimedFollowerTimeout, Start,
       Turn, OnCommandRequest, ResendVotes, LeaderTimeout, timedVars, timerVars, vars
  <2>2. QED
    BY <1>2, <2>1
<1>6. CASE Tick
  <2>1. /\ ElectionDue' = [s \in Server |-> Less(ElectionDue[s])]
        /\ UNCHANGED <<draws, drawn, StateName>>
    BY <1>6 DEF Tick, vars
  <2>2. \A s \in Server : /\ Less(ElectionDue[s]) \in Nat \cup {Never}
                          /\ Less(ElectionDue[s]) = Never => ElectionDue[s] = Never
    BY TimesAssumption DEF RestInv, TimerTypes, Less
  <2>3. QED
    BY <2>1, <2>2 DEF RestInv, TimerTypes, OnlyLeadersRest, IsLeader
<1>7. ASSUME NEW n \in Server, TimedSoloElection(n)
      PROVE  RestInv'
  <2>1. /\ UNCHANGED draws
        /\ StateName' = [StateName EXCEPT ![n] = "LEADER"]
        /\ ElectionDue' = [ElectionDue EXCEPT ![n] = Never]
        /\ drawn' = [drawn EXCEPT ![n] = MinOf(Shared, drawn[n] + 1)]
    BY <1>7 DEF TimedSoloElection, SoloElection, Turn
  <2>2. drawn' \in [Server -> Nat]
    BY <2>1, TimesAssumption DEF RestInv, TimerTypes, MinOf
  <2>3. QED
    BY <2>1, <2>2 DEF RestInv, TimerTypes, OnlyLeadersRest, IsLeader, TypeOK
<1>8. QED
  BY <1>1, <1>3, <1>4, <1>5, <1>6, <1>7 DEF TimedNext

\* Every server that does not lead has a timer that will let it stand: OnAppendEntries
\* and the term check in Process restart the timer of a leader that is deposed.
THEOREM TimersRun == TimedSpec => []OnlyLeadersRest
<1>1. TimedInit => RestInv
  <2>1. ASSUME TimedInit
        PROVE  TimerTypes
    BY <2>1, DrawableType DEF TimedInit, TimerTypes
  <2>2. ASSUME TimedInit
        PROVE  OnlyLeadersRest
    BY <2>2, TimesAssumption DEF TimedInit, OnlyLeadersRest
  <2>3. QED
    BY <2>1, <2>2 DEF RestInv
<1>2. RestInv => OnlyLeadersRest
  BY DEF RestInv
<1>3. QED
  BY <1>1, <1>2, RestStep, FlightCorrect, PTL DEF TimedSpec

-----------------------------------------------------------------------------
(* Who sends what                                                           *)

\* A message is of the term its sender is in, an AppendEntries of a term that it leads.
SentStep ==
    \A m \in msgs' \ msgs :
        /\ m.Src \in Server
        /\ m.Term = CurrentTerm'[m.Src]
        /\ IsAppend(m) => StateName'[m.Src] = "LEADER"

LEMMA SentProcess ==
  ASSUME TypeOK, NEW n \in Server, NEW m \in msgs, Process(n, m)
  PROVE  SentStep
<1>0. m.Term \in Nat /\ CurrentTerm[n] \in Nat
  BY MessageTypes DEF TypeOK
<1>1. CASE OnRequestVoteRequest(n, m)
  BY <1>1 DEF OnRequestVoteRequest, SentStep, Send, VoteResponse, IsAppend, TypeOK
<1>2. CASE OnRequestVoteResponse(n, m) \/ OnAppendEntriesResponse(n, m)
  BY <1>2 DEF OnRequestVoteResponse, OnAppendEntriesResponse, SentStep
<1>3. CASE OnAppendEntriesRequest(n, m)
  <2>1. CASE RefuseStaleAppend(n, m)
    BY <2>1 DEF RefuseStaleAppend, SentStep, Send, AppendResponse, IsAppend, stateVars
  <2>2. CASE TakeAppend(n, m)
    <3>1. CurrentTerm'[n] = m.Term
      BY <2>2 DEF TakeAppend, TypeOK
    <3>2. \/ Send(AppendResponse(n, m.Src, m.Term, MatchedIndex(n, m), TRUE))
          \/ Send(AppendResponse(n, m.Src, m.Term, 0, FALSE))
      BY <2>2 DEF TakeAppend
    <3>3. QED
      BY <3>1, <3>2 DEF SentStep, Send, AppendResponse, IsAppend
  <2>3. QED
    BY <1>3, <2>1, <2>2 DEF OnAppendEntriesRequest
<1>4. QED
  BY <1>1, <1>2, <1>3 DEF Process

LEMMA SentNext ==
  ASSUME TypeOK, Next
  PROVE  SentStep
<1>1. ASSUME NEW n \in Server, NEW m \in msgs, Process(n, m)
      PROVE  SentStep
  BY <1>1, SentProcess
<1>2. ASSUME NEW n \in Server, NEW c \in Command, OnCommandRequest(n, c)
      PROVE  SentStep
  BY <1>2 DEF OnCommandRequest, SentStep
<1>3. ASSUME NEW n \in Server, StartElection(n)
      PROVE  SentStep
  BY <1>3 DEF StartElection, SentStep, SendAll, CreateVote, IsAppend, TypeOK
<1>4. ASSUME NEW n \in Server, NEW due \in SUBSET Peers(n), ResendVotes(n, due)
      PROVE  SentStep
  BY <1>4 DEF ResendVotes, SentStep, SendAll, CreateVote, IsAppend, stateVars
<1>5. ASSUME NEW n \in Server, BecomeLeader(n)
      PROVE  SentStep
  BY <1>5 DEF BecomeLeader, SentStep, SendAll, CreateAppendEntries, stateVars, TypeOK
<1>6. ASSUME NEW n \in Server, NEW due \in SUBSET Peers(n), LeaderTimeout(n, due)
      PROVE  SentStep
  BY <1>6 DEF LeaderTimeout, SentStep, SendAll, CreateAppendEntries, stateVars
<1>7. ASSUME NEW n \in Server, SoloElection(n)
      PROVE  SentStep
  BY <1>7 DEF SoloElection, SentStep
<1>8. QED
  BY <1>1, <1>2, <1>3, <1>4, <1>5, <1>6, <1>7 DEF Next, ProcessTimeout

\* Messages come from no later term than their sender's, and an AppendEntries from a
\* server that was elected in its term.
SourcesInv ==
    \A m \in msgs :
        /\ m.Term <= CurrentTerm[m.Src]
        /\ IsAppend(m) /\ MinVotes > 1 => Elected(m.Src, m.Term)

LEMMA SourcesKept ==
  ASSUME TypeOK, TypeOK', VoteStep, SentStep, LeaderElected', SourcesInv
  PROVE  SourcesInv'
<1> SUFFICES ASSUME NEW m \in msgs'
             PROVE  /\ m.Term <= CurrentTerm'[m.Src]
                    /\ IsAppend(m) /\ MinVotes > 1 => Elected(m.Src, m.Term)'
  BY DEF SourcesInv, IsAppend
<1>1. m.Src \in Server /\ m.Term \in Nat
  BY MessageTypes DEF TypeOK
<1>2. /\ msgs \subseteq msgs' /\ CurrentTerm[m.Src] <= CurrentTerm'[m.Src]
      /\ CurrentTerm[m.Src] \in Nat /\ CurrentTerm'[m.Src] \in Nat
  BY <1>1 DEF VoteStep, TypeOK
<1>3. CASE m \in msgs
  <2>1. m.Term <= CurrentTerm[m.Src] /\ (IsAppend(m) /\ MinVotes > 1 => Elected(m.Src, m.Term))
    BY <1>3 DEF SourcesInv
  <2>2. Elected(m.Src, m.Term) => Elected(m.Src, m.Term)'
    BY <1>2, ElectedStable
  <2>3. QED
    BY <1>1, <1>2, <2>1, <2>2
<1>4. CASE m \notin msgs
  <2>1. m.Term = CurrentTerm'[m.Src] /\ (IsAppend(m) => StateName'[m.Src] = "LEADER")
    BY <1>4 DEF SentStep
  <2>2. IsAppend(m) /\ MinVotes > 1 => Elected(m.Src, CurrentTerm[m.Src])'
    BY <1>1, <2>1 DEF LeaderElected, IsLeader
  <2>3. QED
    BY <1>1, <1>2, <2>1, <2>2 DEF Elected, Voted
<1>5. QED
  BY <1>3, <1>4

\* What is known of Raft's states and steps, and used below.
RaftInv == TypeOK /\ VoteInv /\ LeaderLogInv /\ AcksInv /\ SourcesInv

LEMMA SourcesCorrect == Spec => []SourcesInv
<1>1. Init => SourcesInv
  BY DEF Init, SourcesInv
<1>2. TypeOK /\ TypeOK' /\ VoteInv /\ VoteInv' /\ SourcesInv /\ [Next]_vars => SourcesInv'
  <2> SUFFICES ASSUME TypeOK, TypeOK', VoteInv, VoteInv', SourcesInv, [Next]_vars
               PROVE  SourcesInv'
    OBVIOUS
  <2>1. CASE Next
    BY <2>1, VotesNext, SentNext, SourcesKept DEF VoteInv
  <2>2. CASE UNCHANGED vars
    BY <2>2 DEF SourcesInv, Elected, Voted, vars, stateVars
  <2>3. QED
    BY <2>1, <2>2
<1>3. QED
  BY <1>1, <1>2, TypeCorrect, VoteInvCorrect, PTL DEF Spec

LEMMA RaftInvCorrect == TimedSpec => [](RaftInv /\ FlightSent)
<1>1. TypeOK /\ VoteInv /\ LeaderLogInv /\ CommitInv /\ SourcesInv => RaftInv
  BY DEF RaftInv, CommitInv
<1>2. TimedSpec => []FlightSent
  BY FlightCorrect, PTL
<1>3. QED
  BY <1>1, <1>2, TimedIsRaft, TypeCorrect, VoteInvCorrect, LeaderLogCorrect, CommitInvCorrect,
     SourcesCorrect, PTL

-----------------------------------------------------------------------------
(* Who follows a leader                                                     *)

LEMMA HeartbeatType == Heartbeat \in Nat
<1>1. \A k \in Nat : k \div 2 \in Nat
  OBVIOUS
<1>2. QED
  BY <1>1, TimesAssumption DEF Heartbeat

\* A step of Raft in which p does not acknowledge: who follows a leader after it has
\* followed the same leader before.
LEMMA FollowedBefore ==
  ASSUME RaftInv, RaftInv', Next, NEW l \in Server, NEW p \in Server,
         IsLeader(l)', Follows(p, l)',
         \A m \in msgs' \ msgs : ~(IsAck(m) /\ m.Src = p)
  PROVE  /\ IsLeader(l) /\ Follows(p, l)
         /\ CurrentTerm'[l] = CurrentTerm[l] /\ CurrentTerm'[p] = CurrentTerm[p]
         /\ StateName[p] = "FOLLOWER" => StateName'[p] = "FOLLOWER"
<1> DEFINE t == CurrentTerm'[l]
<1>1. PICK m \in msgs : IsAck(m) /\ m.Src = p /\ m.Dst = l /\ m.Term = t
  BY DEF Follows, IsAck
<1>2. t \in DOMAIN LeaderLog /\ t <= CurrentTerm[p] /\ CurrentTerm'[p] = t
  BY <1>1 DEF RaftInv, AcksInv, Follows
<1>3. VoteStep /\ (KeepsLeaders \/ \E n \in Server : LeaderWrites(n))
  BY VotesNext, LeadersNext DEF RaftInv
<1>4. CurrentTerm'[p] = CurrentTerm[p]
  <2>1. CurrentTerm[p] <= CurrentTerm'[p] /\ CurrentTerm[p] \in Nat /\ CurrentTerm'[p] \in Nat
    BY <1>3 DEF VoteStep, RaftInv, TypeOK
  <2>2. QED
    BY <1>2, <2>1
<1>5. StateName[l] = "LEADER" /\ CurrentTerm'[l] = CurrentTerm[l]
  BY <1>2, <1>3 DEF KeepsLeaders, LeaderWrites, IsLeader
<1>6. StateName[p] = "FOLLOWER" => StateName'[p] = "FOLLOWER"
  <2>1. StateName'[p] \in {"CANDIDATE", "FOLLOWER", "LEADER"}
    BY DEF RaftInv, TypeOK, EState
  <2>2. ~(CurrentTerm'[p] > CurrentTerm[p])
    BY <1>4 DEF RaftInv, TypeOK
  <2>3. QED
    BY <1>2, <1>3, <1>4, <2>1, <2>2 DEF KeepsLeaders, LeaderWrites
<1>7. QED
  BY <1>1, <1>4, <1>2, <1>5, <1>6 DEF Follows, IsAck, IsLeader

\* The next AppendEntries of l, sent no later than the next heartbeat, is there before
\* p's timer has run out.
Heard(l, p) == HeartbeatDue[l][p] + Delay < ElectionDue[p]
\* An AppendEntries of l will be.
Coming(l, p) ==
    \E f \in flight : /\ IsAppend(f.m) /\ f.m.Src = l /\ f.m.Dst = p
                      /\ f.m.Term = CurrentTerm[l]
                      /\ f.left < ElectionDue[p]

\* A leader runs, and none of its heartbeats is further away than the next.
BeatsInv ==
    /\ turn # Nil => turn \in up
    /\ HeartbeatDue \in [Server -> [Server -> Nat]]
    /\ \A f \in flight : f.left \in Nat
    /\ \A l \in Server : IsLeader(l) =>
          l \in up /\ \A p \in Server : HeartbeatDue[l][p] <= Heartbeat

Reached(l, p) == p \in up /\ StateName[p] = "FOLLOWER" /\ (Heard(l, p) \/ Coming(l, p))

ReachedInv ==
    \A l, p \in Server : p # l /\ IsLeader(l) /\ Follows(p, l) => Reached(l, p)

TimeInv == RestInv /\ BeatsInv /\ ReachedInv

\* Steps of Raft that make no leader.
NoNewLeader == \A l \in Server : IsLeader(l)' => IsLeader(l)

LEMMA ProcessMakesNoLeader ==
  ASSUME TypeOK, NEW n \in Server, NEW m \in msgs, Process(n, m)
  PROVE  NoNewLeader
  BY MessageTypes DEF Process, OnRequestVoteRequest, OnRequestVoteResponse, OnAppendEntriesRequest,
     OnAppendEntriesResponse, RefuseStaleAppend, TakeAppend, StateNameOn, NoNewLeader, IsLeader,
     TypeOK

LEMMA SentLeft ==
  ASSUME NEW ms, NEW f \in Sent(ms)
  PROVE  f.left = Delay /\ f.left \in Nat
  BY TimesAssumption DEF Sent

LEMMA BeatsStep ==
    RaftInv /\ FlightSent /\ BeatsInv /\ [TimedNext]_timedVars => BeatsInv'
<1> SUFFICES ASSUME RaftInv, FlightSent, BeatsInv, [TimedNext]_timedVars
             PROVE  BeatsInv'
  OBVIOUS
<1>0. TypeOK /\ Nil \notin Server
  BY NilAssumption DEF RaftInv
<1>1. ASSUME NEW f \in flight, TimedProcess(f)
      PROVE  BeatsInv'
  <2> DEFINE n == f.m.Dst
  <2>1. f.m \in msgs /\ n \in Server
    BY <1>0, <1>1, MessageTypes DEF FlightSent, TypeOK
  <2>2. NoNewLeader
    BY <1>0, <1>1, <2>1, ProcessMakesNoLeader DEF TimedProcess
  <2>3. /\ n \in up /\ turn' = n /\ UNCHANGED <<HeartbeatDue, up>>
        /\ flight' \subseteq flight \cup Sent(Answers(n, f.m))
    BY <1>1 DEF TimedProcess
  <2>4. \A g \in flight' : g.left \in Nat
    BY <2>3, SentLeft DEF BeatsInv
  <2>5. QED
    BY <2>2, <2>3, <2>4 DEF BeatsInv, NoNewLeader
<1>2. ASSUME NEW n \in Server, NEW c \in Command, TimedCommand(n, c)
      PROVE  BeatsInv'
  BY <1>2 DEF TimedCommand, OnCommandRequest, timerVars, BeatsInv, IsLeader
<1>3. ASSUME NEW n \in Server, Turn(n)
      PROVE  n \in up /\ turn' = Nil /\ UNCHANGED up
  BY <1>0, <1>3 DEF Turn, BeatsInv
<1>4. ASSUME NEW n \in Server, TimedStartElection(n)
      PROVE  BeatsInv'
  <2>1. /\ n \in up /\ turn' = Nil /\ UNCHANGED up
        /\ StateName' = [StateName EXCEPT ![n] = "CANDIDATE"]
        /\ HeartbeatDue' = [HeartbeatDue EXCEPT ![n] = All(n, 0)]
        /\ \A g \in flight' : g.left \in Nat
    BY <1>3, <1>4, SentLeft DEF TimedStartElection, StartElection, BeatsInv
  <2>2. All(n, 0) \in [Server -> Nat]
    BY DEF All
  <2>3. QED
    BY <1>0, <2>1, <2>2 DEF BeatsInv, IsLeader, TypeOK
<1>5. ASSUME NEW n \in Server, TimedBecomeLeader(n)
      PROVE  BeatsInv'
  <2>1. /\ n \in up /\ turn' = Nil /\ UNCHANGED up
        /\ StateName' = [StateName EXCEPT ![n] = "LEADER"]
        /\ HeartbeatDue' = [HeartbeatDue EXCEPT ![n] = All(n, Heartbeat)]
        /\ \A g \in flight' : g.left \in Nat
    BY <1>3, <1>5, SentLeft DEF TimedBecomeLeader, BecomeLeader, BeatsInv
  <2>2. /\ All(n, Heartbeat) \in [Server -> Nat]
        /\ \A p \in Server : All(n, Heartbeat)[p] <= Heartbeat
    BY HeartbeatType DEF All
  <2>3. QED
    BY <1>0, <2>1, <2>2 DEF BeatsInv, IsLeader, TypeOK
<1>6. ASSUME NEW n \in Server, TimedResendVotes(n) \/ TimedFollowerTimeout(n)
      PROVE  BeatsInv'
  BY <1>3, <1>6, SentLeft DEF TimedResendVotes, TimedFollowerTimeout, ResendVotes, vars, BeatsInv,
     IsLeader
<1>7. ASSUME NEW n \in Server, TimedLeaderTimeout(n)
      PROVE  BeatsInv'
  <2> DEFINE reset == [p \in Server |-> IF p \in AppendDue(n) THEN Heartbeat
                                        ELSE HeartbeatDue[n][p]]
  <2>1. /\ n \in up /\ turn' = Nil /\ UNCHANGED <<up, StateName>> /\ IsLeader(n)
        /\ HeartbeatDue' = [HeartbeatDue EXCEPT ![n] = reset]
        /\ \A g \in flight' : g.left \in Nat
    BY <1>3, <1>7, SentLeft DEF TimedLeaderTimeout, LeaderTimeout, Reset, BeatsInv, IsLeader
  <2>2. reset \in [Server -> Nat] /\ \A p \in Server : reset[p] <= Heartbeat
    BY <2>1, HeartbeatType DEF BeatsInv
  <2> HIDE DEF reset
  <2>3. QED
    BY <2>1, <2>2 DEF BeatsInv, IsLeader
<1>8. ASSUME NEW n \in Server, Start(n)
      PROVE  BeatsInv'
  BY <1>8 DEF Start, timerVars, vars, BeatsInv, IsLeader
<1>9. CASE Tick
  <2>1. /\ UNCHANGED <<up, turn, StateName>>
        /\ HeartbeatDue' = [n \in Server |-> [p \in Server |-> Less(HeartbeatDue[n][p])]]
    BY <1>9 DEF Tick, vars
  <2>2. \A n, p \in Server : /\ HeartbeatDue[n][p] \in Nat /\ Less(HeartbeatDue[n][p]) \in Nat
                             /\ Less(HeartbeatDue[n][p]) <= HeartbeatDue[n][p]
    <3>1. \A n, p \in Server : HeartbeatDue[n][p] \in Nat
      BY DEF BeatsInv
    <3>2. \A k \in Nat : Less(k) \in Nat /\ Less(k) <= k
      BY DEF Less
    <3>3. QED
      BY <3>1, <3>2
  <2>3. \A l \in Server : IsLeader(l) =>
          \A p \in Server : Less(HeartbeatDue[l][p]) <= Heartbeat
    BY <2>2, HeartbeatType DEF BeatsInv
  <2>4. \A f \in flight' : f.left \in Nat
    BY <1>9 DEF Tick, BeatsInv
  <2>5. QED
    BY <2>1, <2>2, <2>3, <2>4 DEF BeatsInv, IsLeader
<1>10. CASE UNCHANGED timedVars
  BY <1>10 DEF timedVars, timerVars, worldVars, vars, BeatsInv, IsLeader
<1>11. ASSUME NEW n \in Server, TimedSoloElection(n)
      PROVE  BeatsInv'
  <2>1. /\ n \in up /\ turn' = Nil /\ UNCHANGED <<up, flight>>
        /\ StateName' = [StateName EXCEPT ![n] = "LEADER"]
        /\ HeartbeatDue' = [HeartbeatDue EXCEPT ![n] = All(n, 0)]
    BY <1>3, <1>11 DEF TimedSoloElection, SoloElection
  <2>2. /\ All(n, 0) \in [Server -> Nat]
        /\ \A p \in Server : All(n, 0)[p] <= Heartbeat
    BY HeartbeatType DEF All
  <2>3. QED
    BY <1>0, <2>1, <2>2 DEF BeatsInv, IsLeader, TypeOK
<1>12. QED
  BY <1>1, <1>2, <1>4, <1>5, <1>6, <1>7, <1>8, <1>9, <1>10, <1>11 DEF TimedNext

\* Messages reach a follower in time: less than an election timeout after the last.
InTime == Heartbeat + Delay < Election

\* The handler of an AppendEntries sends the only acknowledgements.
LEMMA ProcessAcks ==
  ASSUME NEW n \in Server, NEW m \in msgs, Process(n, m), NEW k \in msgs' \ msgs
  PROVE  k.Src = n /\ (IsAck(k) => IsAppend(m) /\ TakeAppend(n, m))
<1>1. CASE OnRequestVoteRequest(n, m)
  BY <1>1 DEF OnRequestVoteRequest, Send, VoteResponse, IsAck
<1>2. CASE OnRequestVoteResponse(n, m) \/ OnAppendEntriesResponse(n, m)
  BY <1>2 DEF OnRequestVoteResponse, OnAppendEntriesResponse
<1>3. CASE OnAppendEntriesRequest(n, m) /\ RefuseStaleAppend(n, m)
  BY <1>3 DEF RefuseStaleAppend, Send, AppendResponse, IsAck
<1>4. CASE OnAppendEntriesRequest(n, m) /\ TakeAppend(n, m)
  BY <1>4 DEF OnAppendEntriesRequest, TakeAppend, Send, AppendResponse, IsAppend
<1>5. QED
  BY <1>1, <1>2, <1>3, <1>4 DEF Process, OnAppendEntriesRequest

\* Neither the timer of p nor what is to restart it changes.
LEMMA ReachedKept ==
  ASSUME NEW l \in Server, NEW p \in Server, Reached(l, p),
         up \subseteq up', StateName'[p] = "FOLLOWER",
         CurrentTerm'[l] = CurrentTerm[l], ElectionDue'[p] = ElectionDue[p],
         HeartbeatDue'[l][p] = HeartbeatDue[l][p],
         \A f \in flight : IsAppend(f.m) /\ f.m.Dst = p => f \in flight'
  PROVE  Reached(l, p)'
<1>1. Coming(l, p) => Coming(l, p)'
  BY DEF Coming, IsAppend
<1>2. QED
  BY <1>1 DEF Reached, Heard

\* The timer of p has just been drawn.
LEMMA ReachedDrawn ==
  ASSUME InTime, BeatsInv', NEW l \in Server, NEW p \in Server, IsLeader(l)',
         p \in up', StateName'[p] = "FOLLOWER", ElectionDue'[p] \in Drawable
  PROVE  Reached(l, p)'
<1>1. ElectionDue'[p] \in Nat /\ ElectionDue'[p] >= Election
  BY DrawableType
<1>2. HeartbeatDue'[l][p] \in Nat /\ HeartbeatDue'[l][p] <= Heartbeat
  BY DEF BeatsInv, IsLeader
<1>3. HeartbeatDue'[l][p] + Delay < ElectionDue'[p]
  BY <1>1, <1>2, HeartbeatType, TimesAssumption DEF InTime
<1>4. QED
  BY <1>3 DEF Reached, Heard

\* Steps that leave the timers alone, and in which no server acknowledges.
LEMMA ReachedQuiet ==
  ASSUME RaftInv, RaftInv', [Next]_vars, ReachedInv,
         \A m \in msgs' \ msgs : ~IsAck(m),
         NEW l \in Server, NEW p \in Server, p # l, IsLeader(l)', Follows(p, l)'
  PROVE  /\ IsLeader(l) /\ Follows(p, l) /\ Reached(l, p)
         /\ StateName[p] = "FOLLOWER" /\ StateName'[p] = "FOLLOWER"
         /\ CurrentTerm'[l] = CurrentTerm[l] /\ CurrentTerm'[p] = CurrentTerm[p]
<1>1. CASE Next
  <2>1. /\ IsLeader(l) /\ Follows(p, l)
        /\ CurrentTerm'[l] = CurrentTerm[l] /\ CurrentTerm'[p] = CurrentTerm[p]
        /\ StateName[p] = "FOLLOWER" => StateName'[p] = "FOLLOWER"
    BY <1>1, FollowedBefore
  <2>2. QED
    BY <2>1 DEF ReachedInv, Reached
<1>2. CASE UNCHANGED vars
  BY <1>2 DEF vars, stateVars, ReachedInv, Reached, IsLeader, Follows
<1>3. QED
  BY <1>1, <1>2

LEMMA ReachedProcess ==
  ASSUME InTime, RaftInv, RaftInv', FlightSent, TimeInv, BeatsInv',
         NEW f \in flight, TimedProcess(f)
  PROVE  ReachedInv'
<1> DEFINE m == f.m
           n == f.m.Dst
<1>1. m \in msgs /\ n \in Server
  BY MessageTypes DEF FlightSent, RaftInv, TypeOK
<1>2. /\ Process(n, m) /\ Redraw(n, Draws(n, m)) /\ n \in up
      /\ UNCHANGED <<HeartbeatDue, up>>
      /\ flight' = (flight \ {f}) \cup Sent(Answers(n, m))
  BY DEF TimedProcess
<1>3. Next /\ NoNewLeader
  BY <1>1, <1>2, ProcessMakesNoLeader DEF Next, RaftInv
<1>4. Draws(n, m) \in Nat /\ (IsAppend(m) => Draws(n, m) # 0)
  BY DEF Draws, Restarts, IsAppend
<1>5. \A k \in msgs' \ msgs : k.Src = n /\ (IsAck(k) => IsAppend(m) /\ TakeAppend(n, m))
  BY <1>1, <1>2, ProcessAcks
<1>6. /\ \A s \in Server : s # n => ElectionDue'[s] = ElectionDue[s]
      /\ Draws(n, m) = 0 => ElectionDue'[n] = ElectionDue[n]
      /\ Draws(n, m) # 0 => ElectionDue'[n] \in Drawable
  BY <1>1, <1>2, <1>4, RedrawType DEF TimeInv, RestInv
<1> HIDE DEF m, n
<1> SUFFICES ASSUME NEW l \in Server, NEW p \in Server,
                    p # l, IsLeader(l)', Follows(p, l)'
             PROVE  Reached(l, p)'
  BY DEF ReachedInv
<1>7. CASE p = n /\ IsAppend(m) /\ TakeAppend(n, m)
  <2>1. StateName'[n] = "FOLLOWER"
    BY <1>1, <1>7 DEF TakeAppend, RaftInv, TypeOK
  <2>2. QED
    BY <1>2, <1>4, <1>6, <1>7, <2>1, ReachedDrawn
<1>8. CASE ~(p = n /\ IsAppend(m) /\ TakeAppend(n, m))
  <2>1. \A k \in msgs' \ msgs : ~(IsAck(k) /\ k.Src = p)
    BY <1>5, <1>8
  <2>2. /\ IsLeader(l) /\ Follows(p, l) /\ CurrentTerm'[l] = CurrentTerm[l]
        /\ StateName[p] = "FOLLOWER" => StateName'[p] = "FOLLOWER"
    BY <1>3, <2>1, FollowedBefore
  <2>3. Reached(l, p) /\ StateName'[p] = "FOLLOWER"
    BY <2>2 DEF TimeInv, ReachedInv, Reached
  <2>4. CASE p = n /\ Draws(n, m) # 0
    BY <1>2, <1>6, <2>3, <2>4, ReachedDrawn
  <2>5. CASE ~(p = n /\ Draws(n, m) # 0)
    <3>1. ElectionDue'[p] = ElectionDue[p]
      BY <1>6, <2>5
    <3>2. \A g \in flight : IsAppend(g.m) /\ g.m.Dst = p => g \in flight'
      BY <1>2, <1>4, <2>5 DEF m, n
    <3>3. QED
      BY <1>2, <2>2, <2>3, <3>1, <3>2, ReachedKept
  <2>6. QED
    BY <2>4, <2>5
<1>9. QED
  BY <1>7, <1>8

\* Time passes for the timers and for the messages alike.
LEMMA ReachedTick ==
  ASSUME RaftInv, TimeInv, Tick
  PROVE  ReachedInv'
<1>1. UNCHANGED <<vars, up>>
  BY DEF Tick
<1> SUFFICES ASSUME NEW l \in Server, NEW p \in Server,
                    p # l, IsLeader(l), Follows(p, l)
             PROVE  Reached(l, p)'
  BY <1>1 DEF ReachedInv, IsLeader, Follows, vars, stateVars
<1>2. Reached(l, p)
  BY DEF TimeInv, ReachedInv
<1>3. p \in up /\ StateName[p] = "FOLLOWER" /\ ElectionDue[p] \in Nat
  BY <1>2 DEF Reached, TimeInv, RestInv, TimerTypes, OnlyLeadersRest, IsLeader
<1>4. /\ ElectionDue'[p] = Less(ElectionDue[p])
      /\ HeartbeatDue'[l][p] = Less(HeartbeatDue[l][p])
      /\ HeartbeatDue[l][p] \in Nat
  BY DEF Tick, TimeInv, BeatsInv
<1>5. ElectionDue[p] # 0 => ElectionDue'[p] = ElectionDue[p] - 1
  BY <1>3, <1>4 DEF Less
<1>6. ASSUME Heard(l, p)
      PROVE  Heard(l, p)'
  <2>1. HeartbeatDue[l][p] # 0
    BY DEF Tick, Due, AppendDue, Peers, TimeInv, BeatsInv, IsLeader
  <2>2. HeartbeatDue'[l][p] = HeartbeatDue[l][p] - 1
    BY <1>4, <2>1 DEF Less
  <2>3. HeartbeatDue[l][p] + Delay < ElectionDue[p]
    BY <1>6 DEF Heard
  <2>4. HeartbeatDue'[l][p] + Delay < ElectionDue'[p]
    BY <1>3, <1>4, <1>5, <2>2, <2>3, TimesAssumption
  <2>5. QED
    BY <2>4 DEF Heard
<1>7. ASSUME Coming(l, p)
      PROVE  Coming(l, p)'
  <2>1. PICK f \in flight : /\ IsAppend(f.m) /\ f.m.Src = l /\ f.m.Dst = p
                            /\ f.m.Term = CurrentTerm[l] /\ f.left < ElectionDue[p]
    BY <1>7 DEF Coming
  <2> DEFINE g == [m |-> f.m, left |-> f.left - 1]
  <2>2. f.left \in Nat /\ f.left > 0
    BY <1>3, <2>1 DEF Tick, TimeInv, BeatsInv
  <2>3. g \in flight'
    BY <1>3, <2>1 DEF Tick
  <2>4. g.left < ElectionDue'[p]
    BY <1>3, <1>5, <2>1, <2>2
  <2>5. g.m = f.m /\ CurrentTerm'[l] = CurrentTerm[l]
    BY <1>1 DEF vars, stateVars
  <2> HIDE DEF g
  <2>6. QED
    BY <2>1, <2>3, <2>4, <2>5 DEF Coming, IsAppend
<1>8. QED
  BY <1>1, <1>2, <1>3, <1>6, <1>7 DEF Reached, vars

\* A heartbeat that is due is on its way.
LEMMA ReachedBeat ==
  ASSUME TimeInv, NEW l \in Server, NEW p \in Peers(l), Reached(l, p),
         TimedLeaderTimeout(l), p \in AppendDue(l)
  PROVE  Coming(l, p)'
<1>1. /\ flight \subseteq flight' /\ UNCHANGED <<ElectionDue, CurrentTerm>>
      /\ [m |-> CreateAppendEntries(l, p, NextIndex[l][p], MatchIndex[l][p], BatchSize[l][p]),
          left |-> Delay] \in flight'
  BY DEF TimedLeaderTimeout, LeaderTimeout, Sent, stateVars
<1>2. CASE Coming(l, p)
  BY <1>1, <1>2 DEF Coming, IsAppend
<1>3. CASE Heard(l, p)
  <2> DEFINE a == CreateAppendEntries(l, p, NextIndex[l][p], MatchIndex[l][p], BatchSize[l][p])
             f == [m |-> a, left |-> Delay]
  <2>1. ElectionDue[p] \in Nat /\ HeartbeatDue[l][p] \in Nat
    BY DEF Peers, Reached, TimeInv, RestInv, TimerTypes, OnlyLeadersRest, IsLeader, BeatsInv
  <2>2. Delay < ElectionDue[p]
    BY <1>3, <2>1, TimesAssumption DEF Heard
  <2>3. IsAppend(a) /\ a.Src = l /\ a.Dst = p /\ a.Term = CurrentTerm[l]
    BY DEF CreateAppendEntries, IsAppend
  <2>4. f \in flight' /\ f.m = a /\ f.left = Delay
    BY <1>1
  <2> HIDE DEF a, f
  <2>5. QED
    BY <1>1, <2>2, <2>3, <2>4 DEF Coming, IsAppend
<1>4. QED
  BY <1>2, <1>3 DEF Reached

LEMMA ReachedStep ==
    InTime /\ RaftInv /\ RaftInv' /\ FlightSent /\ TimeInv /\ BeatsInv' /\ [TimedNext]_timedVars
        => ReachedInv'
<1> SUFFICES ASSUME InTime, RaftInv, RaftInv', FlightSent, TimeInv, BeatsInv',
                    [TimedNext]_timedVars
             PROVE  ReachedInv'
  OBVIOUS
<1>1. [Next]_vars
  BY StepIsRaft DEF RaftInv
<1>2. ASSUME \A m \in msgs' \ msgs : ~IsAck(m),
             up \subseteq up', flight \subseteq flight',
             \A p \in Server :
                StateName[p] = "FOLLOWER" /\ UNCHANGED <<StateName[p], CurrentTerm[p]>>
                    => ElectionDue'[p] = ElectionDue[p],
             \A l \in Server :
                IsLeader(l) /\ IsLeader(l)' => HeartbeatDue'[l] = HeartbeatDue[l]
      PROVE  ReachedInv'
  <2>1. ASSUME NEW l \in Server, NEW p \in Server, p # l, IsLeader(l)', Follows(p, l)'
        PROVE  Reached(l, p)'
    BY <1>1, <1>2, <2>1, ReachedQuiet, ReachedKept DEF TimeInv
  <2>2. QED
    BY <2>1 DEF ReachedInv
<1>3. ASSUME NEW f \in flight, TimedProcess(f)
      PROVE  ReachedInv'
  BY <1>3, ReachedProcess
<1>4. ASSUME \/ \E n \in Server : \/ \E c \in Command : TimedCommand(n, c)
                                  \/ TimedFollowerTimeout(n) \/ Start(n)
             \/ UNCHANGED timedVars
      PROVE  ReachedInv'
  <2>1. /\ UNCHANGED <<ElectionDue, HeartbeatDue, flight, msgs>> /\ up \subseteq up'
    BY <1>4 DEF TimedCommand, OnCommandRequest, TimedFollowerTimeout, Start, Turn, timedVars,
       timerVars, worldVars, vars
  <2>2. QED
    BY <1>2, <2>1
<1>5. ASSUME NEW n \in Server, TimedStartElection(n)
      PROVE  ReachedInv'
  <2>1. /\ StateName'[n] = "CANDIDATE" /\ CurrentTerm'[n] = CurrentTerm[n] + 1
        /\ CurrentTerm[n] \in Nat
        /\ UNCHANGED up /\ flight \subseteq flight'
        /\ \A s \in Server : s # n => HeartbeatDue'[s] = HeartbeatDue[s]
    BY <1>5 DEF TimedStartElection, StartElection, Turn, RaftInv, TypeOK, TimeInv, BeatsInv
  <2>2. \A s \in Server : s # n => ElectionDue'[s] = ElectionDue[s]
    BY <1>5, RedrawType DEF TimedStartElection, TimeInv, RestInv
  <2>3. \A m \in msgs' \ msgs : ~IsAck(m)
    BY <1>5 DEF TimedStartElection, StartElection, SendAll, CreateVote, IsAck
  <2>4. QED
    BY <1>2, <2>1, <2>2, <2>3 DEF IsLeader
<1>6. ASSUME NEW n \in Server, TimedBecomeLeader(n)
      PROVE  ReachedInv'
  <2>1. /\ StateName[n] = "CANDIDATE"
        /\ UNCHANGED up /\ flight \subseteq flight'
        /\ \A s \in Server : s # n => /\ HeartbeatDue'[s] = HeartbeatDue[s]
                                      /\ ElectionDue'[s] = ElectionDue[s]
    BY <1>6 DEF TimedBecomeLeader, BecomeLeader, Turn, TimeInv, BeatsInv, RestInv, TimerTypes
  <2>2. \A m \in msgs' \ msgs : ~IsAck(m)
    <3>1. msgs' = msgs \cup {CreateAppendEntries(n, p, Len(Log[n]) + 1, 0, 0) : p \in Peers(n)}
      BY <1>6 DEF TimedBecomeLeader, BecomeLeader, SendAll
    <3>2. QED
      BY <3>1, AppendsOnly
  <2>3. QED
    BY <1>2, <2>1, <2>2 DEF IsLeader
<1>7. ASSUME NEW n \in Server, TimedResendVotes(n)
      PROVE  ReachedInv'
  <2>1. UNCHANGED <<ElectionDue, HeartbeatDue, up>> /\ flight \subseteq flight'
    BY <1>7 DEF TimedResendVotes, Turn
  <2>2. \A m \in msgs' \ msgs : ~IsAck(m)
    BY <1>7 DEF TimedResendVotes, ResendVotes, SendAll, CreateVote, IsAck
  <2>3. QED
    BY <1>2, <2>1, <2>2
<1>8. ASSUME NEW n \in Server, TimedLeaderTimeout(n)
      PROVE  ReachedInv'
  <2>1. /\ UNCHANGED <<ElectionDue, up>> /\ flight \subseteq flight'
        /\ HeartbeatDue' = Reset(HeartbeatDue, n, AppendDue(n), Heartbeat)
    BY <1>8 DEF TimedLeaderTimeout, Turn
  <2>2. \A l, p \in Server : ~(l = n /\ p \in AppendDue(n)) =>
            HeartbeatDue'[l][p] = HeartbeatDue[l][p]
    BY <2>1 DEF Reset, TimeInv, BeatsInv
  <2>3. \A m \in msgs' \ msgs : ~IsAck(m)
    BY <1>8 DEF TimedLeaderTimeout, LeaderTimeout, SendAll, CreateAppendEntries, IsAck
  <2>4. ASSUME NEW l \in Server, NEW p \in Server, p # l, IsLeader(l)', Follows(p, l)'
        PROVE  Reached(l, p)'
    <3>1. /\ Reached(l, p) /\ StateName'[p] = "FOLLOWER" /\ CurrentTerm'[l] = CurrentTerm[l]
      BY <1>1, <2>3, <2>4, ReachedQuiet DEF TimeInv
    <3>2. CASE l = n /\ p \in AppendDue(n)
      <4>1. Coming(l, p)'
        BY <1>8, <3>1, <3>2, ReachedBeat DEF AppendDue
      <4>2. QED
        BY <2>1, <3>1, <4>1 DEF Reached
    <3>3. CASE ~(l = n /\ p \in AppendDue(n))
      BY <2>1, <2>2, <3>1, <3>3, ReachedKept
    <3>4. QED
      BY <3>2, <3>3
  <2>5. QED
    BY <2>4 DEF ReachedInv
<1>9. CASE Tick
  BY <1>9, ReachedTick
<1>10. ASSUME NEW n \in Server, TimedSoloElection(n)
      PROVE  ReachedInv'
  <2>1. /\ StateName[n] = "FOLLOWER" /\ StateName'[n] = "LEADER"
        /\ UNCHANGED <<up, flight, msgs>>
        /\ \A s \in Server : s # n => /\ HeartbeatDue'[s] = HeartbeatDue[s]
                                      /\ ElectionDue'[s] = ElectionDue[s]
    BY <1>10 DEF TimedSoloElection, SoloElection, Turn, RaftInv, TypeOK, TimeInv, BeatsInv,
       RestInv, TimerTypes
  <2>2. QED
    BY <1>2, <2>1 DEF IsLeader
<1>11. QED
  BY <1>3, <1>4, <1>5, <1>6, <1>7, <1>8, <1>9, <1>10 DEF TimedNext

LEMMA FollowersStay == RaftInv /\ TimeInv => FollowersWait
<1> SUFFICES ASSUME RaftInv, TimeInv, NEW l \in Server, NEW p \in Peers(l),
                    IsLeader(l), Follows(p, l)
             PROVE  ElectionDue[p] # 0
  BY DEF FollowersWait, ElectionPassed
<1>1. Reached(l, p)
  BY DEF TimeInv, ReachedInv, Peers
<1>2. CASE Heard(l, p)
  BY <1>2, TimesAssumption DEF Heard, TimeInv, BeatsInv, Peers
<1>3. CASE Coming(l, p)
  BY <1>3 DEF Coming, TimeInv, BeatsInv
<1>4. QED
  BY <1>1, <1>2, <1>3 DEF Reached

\* No AppendEntries of the term that l leads comes from another server.
LEMMA OneSource ==
  ASSUME RaftInv, NEW l \in Server, IsLeader(l), NEW m \in msgs, IsAppend(m),
         m.Term = CurrentTerm[l]
  PROVE  m.Dst # l
<1> SUFFICES ASSUME m.Dst = l
             PROVE  FALSE
  OBVIOUS
<1>1. m.Src \in Server /\ m.Src # l /\ CurrentTerm[l] \in Nat
  BY MessageTypes DEF RaftInv, VoteInv, NotToSelf, TypeOK
<1>2. MinVotes > 1
  <2>1. MinVotes # 1
    <3>1. SUFFICES ASSUME Cardinality(Server) = 1
                   PROVE  FALSE
      BY VoteQuorums DEF Nservers
    <3>2. QED
      BY <1>1, <3>1, ServerAssumption, FS_Singleton
  <2>2. QED
    BY <2>1, VoteQuorums
<1>3. Elected(m.Src, CurrentTerm[l]) /\ Elected(l, CurrentTerm[l])
  BY <1>2 DEF RaftInv, SourcesInv, VoteInv, LeaderElected
<1>4. QED
  BY <1>1, <1>3, OneElected DEF RaftInv, VoteInv

LEMMA SettledStep ==
    RaftInv /\ FlightSent /\ TimeInv /\ [TimedNext]_timedVars
        => \A l \in Server : Settled(l) => Settled(l)'
<1> SUFFICES ASSUME RaftInv, FlightSent, TimeInv, [TimedNext]_timedVars,
                    NEW l \in Server, Settled(l)
             PROVE  Settled(l)'
  OBVIOUS
<1>1. /\ StateName[l] = "LEADER"
      /\ \A s \in Server : s # l => /\ StateName[s] = "FOLLOWER"
                                    /\ CurrentTerm[s] = CurrentTerm[l]
                                    /\ ~ElectionPassed(s)
  BY FollowersStay DEF Settled, Follows, IsLeader, FollowersWait, Peers, TimeInv, ReachedInv,
     Reached
<1>2. msgs \subseteq msgs'
  BY StepIsRaft, VotesNext DEF RaftInv, VoteStep, vars
<1>3. ASSUME StateName'[l] = "LEADER", UNCHANGED CurrentTerm
      PROVE  Settled(l)'
  BY <1>2, <1>3 DEF Settled, Follows, IsLeader
<1>4. ASSUME NEW f \in flight, TimedProcess(f)
      PROVE  Settled(l)'
  <2> DEFINE m == f.m
             n == f.m.Dst
  <2>1. /\ m \in msgs /\ n \in Server /\ m.Src \in Server
        /\ m.Term \in Nat /\ CurrentTerm[n] \in Nat
    BY MessageTypes DEF FlightSent, RaftInv, TypeOK
  <2>2. Process(n, m)
    BY <1>4 DEF TimedProcess
  <2>3. ~(m.Term > CurrentTerm[n])
    <3>1. m.Term <= CurrentTerm[m.Src]
      BY <2>1 DEF RaftInv, SourcesInv
    <3>2. CurrentTerm[m.Src] = CurrentTerm[n]
      BY <1>1, <2>1
    <3>3. QED
      BY <2>1, <3>1, <3>2
  <2>4. StateNameOn(n, m) = StateName[n] /\ TermOn(n, m) = CurrentTerm[n]
    BY <2>1, <2>3 DEF StateNameOn, TermOn, MaxOf
  <2>5. IsAppend(m) /\ TakeAppend(n, m) => m.Term = CurrentTerm[n] /\ n # l
    <3>1. SUFFICES ASSUME IsAppend(m), TakeAppend(n, m)
                   PROVE  m.Term = CurrentTerm[n] /\ n # l
      OBVIOUS
    <3>2. m.Term = CurrentTerm[n]
      BY <2>1, <2>3, <3>1 DEF TakeAppend
    <3>3. QED
      BY <1>1, <2>1, <3>1, <3>2, OneSource DEF IsLeader
  <2> HIDE DEF m, n
  <2>6. StateName'[l] = "LEADER" /\ UNCHANGED CurrentTerm
    <3>1. CASE OnRequestVoteRequest(n, m)
      BY <1>1, <2>1, <2>4, <3>1 DEF OnRequestVoteRequest, RaftInv, TypeOK
    <3>2. CASE OnRequestVoteResponse(n, m)
      BY <1>1, <2>1, <2>4, <3>2 DEF OnRequestVoteResponse, RaftInv, TypeOK
    <3>3. CASE OnAppendEntriesRequest(n, m) /\ RefuseStaleAppend(n, m)
      BY <1>1, <3>3 DEF RefuseStaleAppend, stateVars
    <3>4. CASE OnAppendEntriesRequest(n, m) /\ TakeAppend(n, m)
      <4>1. m.Term = CurrentTerm[n] /\ n # l
        BY <2>5, <3>4 DEF OnAppendEntriesRequest, IsAppend
      <4>2. QED
        BY <1>1, <2>1, <3>4, <4>1 DEF TakeAppend, RaftInv, TypeOK
    <3>5. CASE OnAppendEntriesResponse(n, m)
      BY <1>1, <2>1, <2>4, <3>5 DEF OnAppendEntriesResponse, RaftInv, TypeOK
    <3>6. QED
      BY <2>2, <3>1, <3>2, <3>3, <3>4, <3>5 DEF Process, OnAppendEntriesRequest
  <2>7. QED
    BY <1>3, <2>6
<1>5. ASSUME NEW n \in Server, TimedStartElection(n)
      PROVE  FALSE
  BY <1>1, <1>5 DEF TimedStartElection, StartElection, ElectionPassed
<1>6. ASSUME NEW n \in Server, TimedSoloElection(n)
      PROVE  FALSE
  BY <1>1, <1>6 DEF TimedSoloElection, SoloElection, ElectionPassed
<1>7. ASSUME NEW n \in Server, TimedBecomeLeader(n)
      PROVE  FALSE
  BY <1>1, <1>7 DEF TimedBecomeLeader, BecomeLeader
<1>8. ASSUME \/ \E n \in Server : \/ \E c \in Command : TimedCommand(n, c)
                                  \/ TimedResendVotes(n) \/ TimedLeaderTimeout(n)
                                  \/ TimedFollowerTimeout(n) \/ Start(n)
             \/ Tick
             \/ UNCHANGED timedVars
      PROVE  Settled(l)'
  <2>1. UNCHANGED <<StateName, CurrentTerm>>
    BY <1>8 DEF TimedCommand, OnCommandRequest, TimedResendVotes, ResendVotes, TimedLeaderTimeout,
       LeaderTimeout, TimedFollowerTimeout, Start, Tick, timedVars, vars, stateVars
  <2>2. QED
    BY <1>1, <1>3, <2>1
<1>9. QED
  BY <1>4, <1>5, <1>6, <1>7, <1>8 DEF TimedNext

LEMMA TimeInit == TimedInit => TimeInv
<1> SUFFICES ASSUME TimedInit
             PROVE  TimeInv
  OBVIOUS
<1>1. RestInv
  BY DrawableType, TimesAssumption DEF TimedInit, RestInv, TimerTypes, OnlyLeadersRest
<1>2. \A n \in Server : ~IsLeader(n)
  BY DEF TimedInit, Init, IsLeader
<1>3. BeatsInv /\ ReachedInv
  BY <1>2 DEF TimedInit, BeatsInv, ReachedInv
<1>4. QED
  BY <1>1, <1>3 DEF TimeInv

LEMMA TimeInvCorrect ==
  ASSUME InTime
  PROVE  TimedSpec => [](RaftInv /\ TimeInv)
<1>1. ASSUME RaftInv, RaftInv', FlightSent, TimeInv, [TimedNext]_timedVars
      PROVE  TimeInv'
  BY <1>1, RestStep, BeatsStep, ReachedStep DEF RaftInv, TimeInv
<1>2. QED
  BY <1>1, TimeInit, RaftInvCorrect, PTL DEF TimedSpec

\* A server that has taken an AppendEntries of the leader of its term does not stand while
\* messages take less than the time between two heartbeats and an election timeout: the
\* timer that OnAppendEntries restarts, at whatever it draws, outlasts the leader's
\* HeartbeatDue and the way of what LeaderTimeout then sends.
THEOREM FollowersDoNotStand ==
  ASSUME InTime
  PROVE  TimedSpec => []FollowersWait
<1>1. RaftInv /\ TimeInv => FollowersWait
  BY FollowersStay
<1>2. QED
  BY <1>1, TimeInvCorrect, PTL

\* A leader that all others follow is never deposed, and they go on following it: nobody
\* stands, and what is still on the way is of no later term than theirs.
THEOREM SettledLeadersStay ==
  ASSUME InTime
  PROVE  TimedSpec => SettledStays
<1>1. ASSUME RaftInv, FlightSent, TimeInv, [TimedNext]_timedVars
      PROVE  [\A l \in Server : Settled(l) => Settled(l)']_timedVars
  BY <1>1, SettledStep
<1>2. QED
  BY <1>1, RaftInvCorrect, TimeInvCorrect, PTL DEF TimedSpec, SettledStays
=============================================================================
