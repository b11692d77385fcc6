---------------------------- MODULE ReplicatedLog ---------------------------
(***************************************************************************)
(* What the replication core promises, without terms, votes or messages:   *)
(* each replica learns a growing prefix of one log, and answers commands   *)
(* from what it has learned.                                               *)
(***************************************************************************)
EXTENDS Sequences, Naturals, SequencesExt

CONSTANTS Replica, Value

VARIABLES
    learned,   \* the prefix of the log each replica has learned
    answered   \* answers given: the replica, the index and what was read

vars == <<learned, answered>>

Init ==
    /\ learned = [r \in Replica |-> <<>>]
    /\ answered = {}

Comparable(s, t) == IsPrefix(s, t) \/ IsPrefix(t, s)

\* Replica r learns more of the log that the others are learning.
Learn(r, s) ==
    /\ IsPrefix(learned[r], s)
    /\ \A q \in Replica : Comparable(s, learned[q])
    /\ learned' = [learned EXCEPT ![r] = s]

\* An answer is about an index that the replica has learned, and what is read
\* goes at least as far.
Answerable(a) ==
    /\ a.Index <= Len(learned'[a.Replica])
    /\ IsPrefix(a.Read, learned'[a.Replica])
    /\ a.IsRead => a.Index <= Len(a.Read)

Answer(r) ==
    /\ answered \subseteq answered'
    /\ \A a \in answered' \ answered : a.Replica = r /\ Answerable(a)

\* One step of a replica may learn and then answer.
Next ==
    \E r \in Replica :
        /\ learned'[r] \in Seq(Value)
        /\ Learn(r, learned'[r])
        /\ Answer(r)

Spec == Init /\ [][Next]_vars

\* Two replicas never learn different logs.
Agreement == \A p, q \in Replica : Comparable(learned[p], learned[q])
=============================================================================
