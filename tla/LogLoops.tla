------------------------------ MODULE LogLoops ------------------------------
(***************************************************************************)
(* The loops of raft.cpp, one iteration a step, against their closed forms *)
(* in LogOps:                                                              *)
(*   "append"  OnAppendEntries over the payload of a request;              *)
(*   "apply"   ProcessCommitted over the committed indices, each through   *)
(*             the guard of TDummyRsm::Write;                              *)
(*   "commit"  the sort in CommitAdvance.                                  *)
(***************************************************************************)
EXTENDS LogOps, SequencesExt

CONSTANTS Terms, MaxLen, MaxServers

VARIABLES
    loop,     \* which loop runs
    input,    \* what it was given
    i,        \* iterations done
    log,      \* "append": the log; "apply": Log of the TDummyRsm; "commit": Indices
    last      \* "apply": LastAppliedIndex

vars == <<loop, input, i, log, last>>

Logs == UNION {[1..k -> [Term : Terms]] : k \in 0..MaxLen}

InitAppend ==
    /\ loop = "append"
    /\ input \in [log : Logs, prev : 0..MaxLen, entries : Logs]
    /\ input.prev <= Len(input.log)
    /\ log = input.log
    /\ last = 0

\* The follower applied up to `rsm` as a leader before; `applied` is its
\* LastApplied, which an election has set back.
InitApply ==
    /\ loop = "apply"
    /\ input \in [log : Logs, rsm : 0..MaxLen, applied : 0..MaxLen, commit : 0..MaxLen]
    /\ input.applied <= input.rsm
    /\ input.rsm <= input.commit
    /\ input.commit <= Len(input.log)
    /\ log = SubSeq(input.log, 1, input.rsm)
    /\ last = input.rsm

InitCommit ==
    /\ loop = "commit"
    /\ \E n \in 1..MaxServers : input \in [1..n -> 0..MaxLen]
    /\ log = input
    /\ last = 0

Init == i = 0 /\ (InitAppend \/ InitApply \/ InitCommit)

\* while (log.size() > index-1) log.pop_back(); log.push_back(entry)
AppendEntry ==
    /\ loop = "append"
    /\ i < Len(input.entries)
    /\ LET index == input.prev + i + 1
           entry == input.entries[i + 1]
       IN  log' = IF LogTerm(log, index) # entry.Term
                  THEN Append(SubSeq(log, 1, index - 1), entry)
                  ELSE log
    /\ i' = i + 1
    /\ UNCHANGED <<loop, input, last>>

\* Rsm->Write(State->Log[i-1], i)
WriteEntry ==
    /\ loop = "apply"
    /\ input.applied + i < input.commit
    /\ LET index == input.applied + i + 1
       IN  IF last < index
           THEN log' = Append(log, input.log[index]) /\ last' = index
           ELSE UNCHANGED <<log, last>>
    /\ i' = i + 1
    /\ UNCHANGED <<loop, input>>

\* std::sort: its input in another order, that of the numbers.
Rearrangements == [n \in 1..MaxServers |-> {p \in [1..n -> 1..n] : IsInjective(p)}]

SortIndices ==
    /\ loop = "commit"
    /\ i = 0
    /\ \E p \in Rearrangements[Len(log)] :
          /\ log' = [j \in 1..Len(log) |-> log[p[j]]]
          /\ \A j, k \in 1..Len(log) : j < k => log'[j] <= log'[k]
    /\ i' = 1
    /\ UNCHANGED <<loop, input, last>>

Next == AppendEntry \/ WriteEntry \/ SortIndices

Spec == Init /\ [][Next]_vars

-----------------------------------------------------------------------------
\* After any number of iterations over the payload the log is the closed form of
\* what has been handled so far: nothing after a cut is kept, nothing is cut twice.
AppendAsWritten ==
    loop = "append" =>
        log = Appended(input.log, input.prev, SubSeq(input.entries, 1, i))

\* Writing every index from LastApplied + 1 leaves the state machine with exactly
\* the entries it had not applied, once each.
ApplyAsWritten ==
    loop = "apply" /\ input.applied + i = input.commit =>
        /\ log = Applied(SubSeq(input.log, 1, input.rsm), input.log,
                         MaxOf(input.applied, input.rsm), input.commit)
        /\ last = input.commit

\* The element at nservers / 2 of the sorted indices, and no other value, is the
\* one IsMiddle picks, for odd and for even clusters.
CommitAsWritten ==
    loop = "commit" /\ i = 1 =>
        \A k \in 0..MaxLen : IsMiddle(input, k) <=> k = log[Len(log) \div 2 + 1]
=============================================================================
