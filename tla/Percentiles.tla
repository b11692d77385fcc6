----------------------------- MODULE Percentiles -----------------------------
(***************************************************************************)
(* SlidingWindowPercentile of percentiles2.cpp, which is fed the round     *)
(* trip times that the client prints: the last windowSize numbers, once in *)
(* the order they came and once in their own, that of the std::multiset.   *)
(***************************************************************************)
EXTENDS Naturals, Sequences, SequencesExt, FiniteSets

CONSTANTS Numbers, windowSize, Targets

VARIABLES windowQueue, windowSorted

vars == <<windowQueue, windowSorted>>

Init == windowQueue = <<>> /\ windowSorted = <<>>

\* find and erase(it); what a bug would do: erase(oldest), which is all of them.
ErasedByValue(sorted, num) == SelectSeq(sorted, LAMBDA m : m # num)
Erased(sorted, num) ==
    IF \E i \in 1..Len(sorted) : sorted[i] = num
    THEN RemoveAt(sorted, CHOOSE i \in 1..Len(sorted) : sorted[i] = num)
    ELSE sorted

addNumber(num) ==
    LET full == Len(windowQueue) >= windowSize
        queue == IF full THEN Tail(windowQueue) ELSE windowQueue
        sorted == IF full THEN Erased(windowSorted, Head(windowQueue)) ELSE windowSorted
    IN  /\ windowQueue' = Append(queue, num)
        /\ \E before \in 0..Len(sorted) :
              /\ \A i \in 1..before : sorted[i] <= num
              /\ \A i \in before + 1..Len(sorted) : num < sorted[i]
              /\ windowSorted' = InsertAt(sorted, before + 1, num)

\* begin() advanced by index.
getPercentile(target) == windowSorted[(target * Len(windowSorted)) \div 100 + 1]

Next == \E num \in Numbers : addNumber(num)

Spec == Init /\ [][Next]_vars

-----------------------------------------------------------------------------
\* Each percentile that main prints is one of the last windowSize numbers, and its rank
\* among them is right, though the multiset is updated by value and the queue by age.
PercentileOfWindow ==
    \A target \in Targets : windowQueue # <<>> =>
        LET n == Len(windowQueue)
            p == getPercentile(target)
        IN  /\ \E i \in 1..n : windowQueue[i] = p
            /\ 100 * Cardinality({i \in 1..n : windowQueue[i] < p}) <= target * n
            /\ 100 * Cardinality({i \in 1..n : windowQueue[i] <= p}) > target * n
=============================================================================
