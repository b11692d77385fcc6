------------------------------- MODULE LogOps -------------------------------
(***************************************************************************)
(* The pure algorithms of src/raft.h and src/raft.cpp on logs and on match *)
(* indices, in closed form.  LogLoops runs the loops as the code writes    *)
(* them and compares.                                                      *)
(***************************************************************************)
EXTENDS Integers, Sequences, FiniteSets

MaxOf(a, b) == IF a >= b THEN a ELSE b
MinOf(a, b) == IF a <= b THEN a ELSE b

\* TState::LogTerm(index): 0 outside the log.
LogTerm(log, i) == IF i \in 1..Len(log) THEN log[i].Term ELSE 0
LastLogTerm(log) == LogTerm(log, Len(log))

(***************************************************************************)
(* The loop of OnAppendEntries over the payload, which starts after index  *)
(* prev.  It keeps the log up to the first entry whose term differs from   *)
(* what the log has at its index, cuts the log there and appends the rest. *)
(***************************************************************************)
Conflicts(log, prev, entries) ==
    {i \in 1..Len(entries) : LogTerm(log, prev + i) # entries[i].Term}

\* What a bug would do: replace the conflicting entry and keep the tail.
AppendedInPlace(log, prev, entries) ==
    [i \in 1..MaxOf(Len(log), prev + Len(entries)) |->
        IF i \in prev + 1 .. prev + Len(entries) THEN entries[i - prev] ELSE log[i]]

Appended(log, prev, entries) ==
    IF Conflicts(log, prev, entries) = {}
    THEN log
    ELSE LET i == CHOOSE i \in Conflicts(log, prev, entries) :
                     \A j \in Conflicts(log, prev, entries) : i <= j
         IN  SubSeq(log, 1, prev + i - 1) \o SubSeq(entries, i, Len(entries))

(***************************************************************************)
(* CommitAdvance takes Indices[nservers / 2] of what the servers hold,     *)
(* sorted.  So many servers hold at least that much: the smaller half of   *)
(* them are below, in an even cluster only half of them are not.           *)
(***************************************************************************)
CommitQuorum(servers) == Cardinality(servers) - Cardinality(servers) \div 2

\* What a bug would do: count the servers below instead of those above.
IsMiddleFromBelow(indices, k) ==
    /\ Cardinality({p \in DOMAIN indices : indices[p] <= k}) >= CommitQuorum(DOMAIN indices)
    /\ Cardinality({p \in DOMAIN indices : indices[p] < k}) < CommitQuorum(DOMAIN indices)

IsMiddle(indices, k) ==
    /\ Cardinality({p \in DOMAIN indices : indices[p] >= k}) >= CommitQuorum(DOMAIN indices)
    /\ Cardinality({p \in DOMAIN indices : indices[p] > k}) < CommitQuorum(DOMAIN indices)

\* TDummyRsm::Write for every index of ProcessCommitted: those after `applied`.
\* What a bug would do: miss the last one.
AppliedButLast(rsm, log, applied, commitIndex) ==
    rsm \o SubSeq(log, applied + 1, commitIndex - 1)

Applied(rsm, log, applied, commitIndex) ==
    rsm \o SubSeq(log, applied + 1, commitIndex)
=============================================================================
