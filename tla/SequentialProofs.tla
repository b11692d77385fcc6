-------------------------- MODULE SequentialProofs --------------------------
(***************************************************************************)
(* Theorems about the parts of MCSequential: the loops of raft.cpp against *)
(* their closed forms, for logs of any length and clusters of any size;    *)
(* the main functions, for any list of nodes; the key-value store, for any *)
(* clients and logs; and the percentiles, for windows of any size.         *)
(***************************************************************************)
EXTENDS MCSequential, FiniteSetTheorems, SequenceTheorems, WellFoundedInduction, TLAPS

TEntry == [Term : Terms]

LEMMA LogsAreSequences ==
  ASSUME NEW l \in Loops!Logs
  PROVE  l \in Seq(TEntry) /\ Len(l) \in Nat
<1>1. PICK k \in 0..MaxLen : l \in [1..k -> TEntry]
  BY DEF Loops!Logs, TEntry
<1>2. k \in Nat
  BY SequentialAssumption
<1>3. QED
  BY <1>1, <1>2

LEMMA TermsArePositive == \A e \in TEntry : e.Term \in Nat \ {0}
  BY SequentialAssumption DEF TEntry

-----------------------------------------------------------------------------
(* OnAppendEntries over a payload                                           *)

\* The first n of the entries agree with the log.
Matched(l, prev, entries, n) ==
    \A j \in 1..n : Loops!LogTerm(l, prev + j) = entries[j].Term

\* What the loop has made of the log l after n entries: it is as it was, or it was cut
\* at entry c and has got all entries from there.
LoopAppended(l, prev, entries, n, new) ==
    \/ new = l /\ Matched(l, prev, entries, n)
    \/ \E c \in 1..n :
          /\ Matched(l, prev, entries, c - 1)
          /\ Loops!LogTerm(l, prev + c) # entries[c].Term
          /\ new = SubSeq(l, 1, prev + c - 1) \o SubSeq(entries, c, n)

\* As long as entries agree there is something for them to agree with.
LEMMA MatchedInside ==
  ASSUME NEW l \in Seq(TEntry), NEW prev \in 0..Len(l), NEW entries \in Seq(TEntry),
         NEW n \in 0..Len(entries), Matched(l, prev, entries, n)
  PROVE  prev + n <= Len(l)
<1>1. CASE n = 0
  BY <1>1
<1>2. CASE n # 0
  <2>1. n \in 1..n /\ n \in 1..Len(entries)
    BY <1>2
  <2>2. entries[n].Term # 0
    BY <2>1, TermsArePositive, ElementOfSeq
  <2>3. Loops!LogTerm(l, prev + n) # 0
    BY <2>1, <2>2 DEF Matched
  <2>4. prev + n \in 1..Len(l)
    BY <2>3 DEF Loops!LogTerm
  <2>5. QED
    BY <2>4
<1>3. QED
  BY <1>1, <1>2

\* The closed form with its first conflict at c.
LEMMA AppendedFrom ==
  ASSUME NEW l, NEW prev, NEW entries, Len(entries) \in Nat,
         NEW c \in 1..Len(entries), Matched(l, prev, entries, c - 1),
         Loops!LogTerm(l, prev + c) # entries[c].Term
  PROVE  Loops!Appended(l, prev, entries)
           = SubSeq(l, 1, prev + c - 1) \o SubSeq(entries, c, Len(entries))
<1> DEFINE C == Loops!Conflicts(l, prev, entries)
<1>1. c \in C /\ C \subseteq 1..Len(entries)
  BY DEF Loops!Conflicts
<1>2. \A j \in C : c <= j
  <2> SUFFICES ASSUME NEW j \in C PROVE c <= j
    OBVIOUS
  <2>1. j \in 1..Len(entries) /\ Loops!LogTerm(l, prev + j) # entries[j].Term
    BY DEF Loops!Conflicts
  <2>2. j \notin 1..c - 1
    BY <2>1 DEF Matched
  <2>3. QED
    BY <2>1, <2>2
<1>3. (CHOOSE k \in C : \A j \in C : k <= j) = c
  BY <1>1, <1>2
<1>4. QED
  BY <1>1, <1>3 DEF Loops!Appended

LEMMA AppendedAll ==
  ASSUME NEW l, NEW prev, NEW entries, Matched(l, prev, entries, Len(entries))
  PROVE  Loops!Appended(l, prev, entries) = l
  BY DEF Matched, Loops!Appended, Loops!Conflicts

LEMMA LoopMakesAppended ==
  ASSUME NEW l \in Seq(TEntry), NEW prev \in 0..Len(l), NEW entries \in Seq(TEntry),
         NEW n \in 0..Len(entries), NEW new, LoopAppended(l, prev, entries, n, new)
  PROVE  new = Loops!Appended(l, prev, SubSeq(entries, 1, n))
<1> DEFINE first == SubSeq(entries, 1, n)
<1>1. first \in Seq(TEntry) /\ Len(first) = n /\ \A j \in 1..n : first[j] = entries[j]
  OBVIOUS
<1>2. \A c \in 1..n : SubSeq(first, c, n) = SubSeq(entries, c, n)
  <2> SUFFICES ASSUME NEW c \in 1..n PROVE SubSeq(first, c, n) = SubSeq(entries, c, n)
    OBVIOUS
  <2>1. /\ 1 \in 1..Len(entries) /\ n \in 1..Len(entries)
        /\ c \in 1..n - 1 + 1 /\ n \in 1..n - 1 + 1 /\ 1 + c - 1 = c /\ 1 + n - 1 = n
    OBVIOUS
  <2>2. SubSeq(first, c, n) = SubSeq(entries, 1 + c - 1, 1 + n - 1)
    BY <2>1, SubSeqOfSubSeq
  <2>3. QED
    BY <2>1, <2>2
<1> HIDE DEF first
<1>3. CASE new = l /\ Matched(l, prev, entries, n)
  <2>1. Matched(l, prev, first, Len(first))
    BY <1>1, <1>3 DEF Matched
  <2>2. QED
    BY <1>3, <2>1, AppendedAll DEF first
<1>4. ASSUME NEW c \in 1..n,
             Matched(l, prev, entries, c - 1),
             Loops!LogTerm(l, prev + c) # entries[c].Term,
             new = SubSeq(l, 1, prev + c - 1) \o SubSeq(entries, c, n)
      PROVE  new = Loops!Appended(l, prev, first)
  <2>1. Matched(l, prev, first, c - 1)
    BY <1>1, <1>4 DEF Matched
  <2>2. c \in 1..Len(first) /\ Len(first) \in Nat /\ first[c] = entries[c]
    BY <1>1
  <2>3. Loops!Appended(l, prev, first)
          = SubSeq(l, 1, prev + c - 1) \o SubSeq(first, c, Len(first))
    BY ZenonT(60), <1>4, <2>1, <2>2, AppendedFrom
  <2>4. QED
    BY <1>1, <1>2, <1>4, <2>3
<1>5. QED
  BY <1>3, <1>4 DEF LoopAppended, first

LEMMA EntriesAssociate ==
  \A r, s, t \in Seq(TEntry) : (r \o s) \o t = r \o (s \o t)
  BY ConcatAssociative

\* One iteration.
LEMMA LoopAppendsEntry ==
  ASSUME NEW l \in Seq(TEntry), NEW prev \in 0..Len(l), NEW entries \in Seq(TEntry),
         NEW n \in 0..Len(entries) - 1, NEW new, LoopAppended(l, prev, entries, n, new)
  PROVE  LoopAppended(l, prev, entries, n + 1,
           IF Loops!LogTerm(new, prev + n + 1) # entries[n + 1].Term
           THEN Append(SubSeq(new, 1, (prev + n + 1) - 1), entries[n + 1])
           ELSE new)
<1> DEFINE e == entries[n + 1]
<1>1. n + 1 \in 1..Len(entries) /\ n \in 0..Len(entries)
  OBVIOUS
<1>2. e \in TEntry /\ e.Term # 0
  BY <1>1, ElementOfSeq, TermsArePositive
<1>3. (prev + n + 1) - 1 = prev + n /\ prev + n + 1 = prev + (n + 1) /\ prev + n \in Nat
  OBVIOUS
<1>4. CASE new = l /\ Matched(l, prev, entries, n)
  <2>1. prev + n <= Len(l)
    BY <1>1, <1>4, MatchedInside
  <2>2. CASE Loops!LogTerm(new, prev + n + 1) = e.Term
    <3>1. Matched(l, prev, entries, n + 1)
      <4>1. Loops!LogTerm(l, prev + (n + 1)) = entries[n + 1].Term
        BY <1>3, <1>4, <2>2
      <4>2. \A j \in 1..(n + 1) : j \in 1..n \/ j = n + 1
        OBVIOUS
      <4>3. \A j \in 1..n : Loops!LogTerm(l, prev + j) = entries[j].Term
        BY <1>4 DEF Matched
      <4>4. QED
        BY <4>1, <4>2, <4>3 DEF Matched
    <3>2. QED
      BY <1>4, <2>2, <3>1 DEF LoopAppended
  <2>3. CASE Loops!LogTerm(new, prev + n + 1) # e.Term
    <3>1. SubSeq(l, 1, prev + n) \in Seq(TEntry)
      BY <1>3, <2>1
    <3>2. Append(SubSeq(l, 1, prev + n), e) = SubSeq(l, 1, prev + n) \o <<e>>
      BY <1>2, <3>1, AppendIsConcat
    <3>3. SubSeq(entries, n + 1, n + 1) = <<e>>
      <4>1. n + 1 \in Int /\ \A j \in n + 1 .. n + 1 : entries[j] \in TEntry
        BY <1>1, <1>2
      <4>2. /\ SubSeq(entries, n + 1, n + 1) \in Seq(TEntry)
            /\ Len(SubSeq(entries, n + 1, n + 1)) = 1
            /\ SubSeq(entries, n + 1, n + 1)[1] = e
        BY <4>1, SubSeqProperties
      <4>3. <<e>> \in Seq(TEntry) /\ Len(<<e>>) = 1 /\ <<e>>[1] = e
        BY <1>2
      <4>4. \A j \in 1..1 : j = 1
        OBVIOUS
      <4> HIDE DEF e
      <4>5. QED
        BY <4>2, <4>3, <4>4, SeqEqual
    <3>4. Matched(l, prev, entries, (n + 1) - 1) /\ n + 1 \in 1..n + 1
      BY <1>4
    <3>5. Loops!LogTerm(l, prev + (n + 1)) # entries[n + 1].Term
      BY <1>3, <1>4, <2>3
    <3>6. Append(SubSeq(new, 1, (prev + n + 1) - 1), e)
            = SubSeq(l, 1, prev + (n + 1) - 1) \o SubSeq(entries, n + 1, n + 1)
      BY <1>3, <1>4, <3>2, <3>3
    <3>7. QED
      BY <2>3, <3>4, <3>5, <3>6 DEF LoopAppended
  <2>4. QED
    BY <2>2, <2>3
<1>5. ASSUME NEW c \in 1..n,
             Matched(l, prev, entries, c - 1),
             Loops!LogTerm(l, prev + c) # entries[c].Term,
             new = SubSeq(l, 1, prev + c - 1) \o SubSeq(entries, c, n)
      PROVE  LoopAppended(l, prev, entries, n + 1,
               IF Loops!LogTerm(new, prev + n + 1) # entries[n + 1].Term
               THEN Append(SubSeq(new, 1, (prev + n + 1) - 1), entries[n + 1])
               ELSE new)
  <2> DEFINE head == SubSeq(l, 1, prev + c - 1)
             tail == SubSeq(entries, c, n)
  <2>1. prev + (c - 1) <= Len(l)
    BY <1>5, MatchedInside
  <2>2. head \in Seq(TEntry) /\ Len(head) = prev + c - 1
    BY <2>1
  <2>3. tail \in Seq(TEntry) /\ Len(tail) = n - c + 1
    OBVIOUS
  <2>4. SubSeq(entries, c, n + 1) = tail \o <<e>>
    <3>1. c \in 1..Len(entries) /\ n + 1 \in c..Len(entries) /\ (n + 1) - 1 = n
      OBVIOUS
    <3>2. SubSeq(entries, c, n + 1) = SubSeq(entries, c, (n + 1) - 1) \o <<entries[n + 1]>>
      BY <3>1, SubSeqRecursiveSecond
    <3>3. QED
      BY <3>1, <3>2
  <2> HIDE DEF head, tail, e
  <2>5. new = head \o tail
    BY <1>5 DEF head, tail
  <2>6. new \in Seq(TEntry) /\ Len(new) = prev + n
    <3>1. new \in Seq(TEntry) /\ Len(new) = Len(head) + Len(tail)
      BY <2>2, <2>3, <2>5, ConcatProperties
    <3>2. (prev + c - 1) + (n - c + 1) = prev + n
      OBVIOUS
    <3>3. QED
      BY <2>2, <2>3, <3>1, <3>2
  <2>7. Loops!LogTerm(new, prev + n + 1) = 0
    BY <1>3, <2>6 DEF Loops!LogTerm
  <2>8. SubSeq(new, 1, prev + n) = new
    BY <2>6, SubSeqFull
  <2>9. Append(new, e) = head \o SubSeq(entries, c, n + 1)
    <3>1. Append(new, e) = new \o <<e>>
      BY <1>2, <2>6, AppendIsConcat
    <3>2. <<e>> \in Seq(TEntry)
      BY <1>2
    <3>3. (head \o tail) \o <<e>> = head \o (tail \o <<e>>)
      <4>1. head \in Seq(TEntry) /\ tail \in Seq(TEntry)
        BY <2>2, <2>3
      <4>2. QED
        BY ZenonT(60), <3>2, <4>1, EntriesAssociate
    <3>4. QED
      BY <2>4, <2>5, <3>1, <3>3
  <2>10. c \in 1..n + 1
    OBVIOUS
  <2>11. LoopAppended(l, prev, entries, n + 1, Append(new, e))
    BY <1>5, <2>9, <2>10 DEF LoopAppended, head
  <2>12. QED
    BY <1>2, <1>3, <2>7, <2>8, <2>11 DEF e
<1>6. QED
  BY <1>4, <1>5 DEF LoopAppended

\* Every iteration leaves the closed form of what is handled so far.
LoopAppendInv ==
    loop = "append" =>
        /\ input.log \in Seq(TEntry) /\ input.entries \in Seq(TEntry)
        /\ input.prev \in 0..Len(input.log)
        /\ i \in 0..Len(input.entries)
        /\ LoopAppended(input.log, input.prev, input.entries, i, log)

LEMMA LoopAppendInit == SequentialInit => LoopAppendInv
<1> SUFFICES ASSUME SequentialInit, loop = "append" PROVE LoopAppendInv
  BY DEF LoopAppendInv
<1>1. Loops!InitAppend /\ i = 0
  BY DEF SequentialInit, NoLoops, Loops!Init, Loops!InitApply, Loops!InitCommit
<1>2. /\ input.log \in Loops!Logs /\ input.prev \in 0..MaxLen /\ input.entries \in Loops!Logs
      /\ input.prev <= Len(input.log) /\ log = input.log
  BY <1>1 DEF Loops!InitAppend
<1>3. /\ input.log \in Seq(TEntry) /\ input.entries \in Seq(TEntry)
      /\ Len(input.log) \in Nat /\ Len(input.entries) \in Nat
  BY <1>2, LogsAreSequences
<1>4. input.prev \in 0..Len(input.log) /\ i \in 0..Len(input.entries)
  BY <1>1, <1>2, <1>3, SequentialAssumption
<1>5. LoopAppended(input.log, input.prev, input.entries, i, log)
  BY <1>1, <1>2 DEF LoopAppended, Matched
<1>6. QED
  BY <1>3, <1>4, <1>5 DEF LoopAppendInv

LEMMA LoopAppendStep ==
  LoopAppendInv /\ [SequentialNext]_<<part, vars, loopVars, windowVars, mainVars>>
    => LoopAppendInv'
<1> SUFFICES ASSUME LoopAppendInv,
                    [SequentialNext]_<<part, vars, loopVars, windowVars, mainVars>>
             PROVE  LoopAppendInv'
  OBVIOUS
<1>1. CASE UNCHANGED loopVars
  BY <1>1 DEF LoopAppendInv, loopVars
<1>2. CASE Loops!AppendEntry
  <2>1. /\ loop = "append" /\ i < Len(input.entries) /\ i' = i + 1
        /\ UNCHANGED <<loop, input>>
        /\ log' = IF Loops!LogTerm(log, input.prev + i + 1) # input.entries[i + 1].Term
                  THEN Append(SubSeq(log, 1, (input.prev + i + 1) - 1), input.entries[i + 1])
                  ELSE log
    BY <1>2 DEF Loops!AppendEntry
  <2>2. /\ input.log \in Seq(TEntry) /\ input.entries \in Seq(TEntry)
        /\ input.prev \in 0..Len(input.log)
        /\ i \in 0..Len(input.entries) - 1
        /\ LoopAppended(input.log, input.prev, input.entries, i, log)
    BY <2>1 DEF LoopAppendInv
  <2>3. LoopAppended(input.log, input.prev, input.entries, i + 1, log')
    BY <2>1, <2>2, LoopAppendsEntry
  <2>4. i + 1 \in 0..Len(input.entries)
    BY <2>2
  <2>5. QED
    BY <2>1, <2>2, <2>3, <2>4 DEF LoopAppendInv
<1>3. CASE Loops!WriteEntry \/ Loops!SortIndices
  BY <1>3 DEF Loops!WriteEntry, Loops!SortIndices, LoopAppendInv
<1>4. QED
  BY <1>1, <1>2, <1>3 DEF SequentialNext, Loops!Next

\* For payloads and logs of any length: after any number of entries the loop of
\* OnAppendEntries has left what Raft's step says, with nothing of the old log behind a
\* cut and nothing cut twice.
THEOREM AppendLoopCorrect == SequentialSpec => []AppendAsWritten
<1>1. LoopAppendInv => AppendAsWritten
  BY LoopMakesAppended DEF LoopAppendInv, AppendAsWritten, Loops!AppendAsWritten
<1>2. QED
  BY <1>1, LoopAppendInit, LoopAppendStep, PTL DEF SequentialSpec

-----------------------------------------------------------------------------
(* ProcessCommitted through the guard of TDummyRsm::Write                    *)

LoopApplyInv ==
    loop = "apply" =>
        /\ input.log \in Seq(TEntry)
        /\ input.applied \in Nat /\ input.rsm \in Nat /\ input.commit \in Nat
        /\ input.applied <= input.rsm /\ input.rsm <= input.commit
        /\ input.commit <= Len(input.log)
        /\ i \in Nat /\ input.applied + i <= input.commit
        /\ last = Loops!MaxOf(input.rsm, input.applied + i)
        /\ log = SubSeq(input.log, 1, last)

LEMMA LoopApplyInit == SequentialInit => LoopApplyInv
<1> SUFFICES ASSUME SequentialInit, loop = "apply" PROVE LoopApplyInv
  BY DEF LoopApplyInv
<1>1. Loops!InitApply /\ i = 0
  BY DEF SequentialInit, NoLoops, Loops!Init, Loops!InitAppend, Loops!InitCommit
<1>2. /\ input.log \in Loops!Logs
      /\ input.applied \in 0..MaxLen /\ input.rsm \in 0..MaxLen /\ input.commit \in 0..MaxLen
      /\ input.applied <= input.rsm /\ input.rsm <= input.commit
      /\ input.commit <= Len(input.log)
      /\ log = SubSeq(input.log, 1, input.rsm) /\ last = input.rsm
  BY <1>1 DEF Loops!InitApply
<1>3. input.log \in Seq(TEntry)
  BY <1>2, LogsAreSequences
<1>4. input.applied \in Nat /\ input.rsm \in Nat /\ input.commit \in Nat
  BY <1>2, SequentialAssumption
<1>5. /\ input.applied + i <= input.commit
      /\ Loops!MaxOf(input.rsm, input.applied + i) = input.rsm
  BY <1>1, <1>2, <1>4 DEF Loops!MaxOf
<1>6. QED
  BY <1>1, <1>2, <1>3, <1>4, <1>5 DEF LoopApplyInv

LEMMA LoopApplyStep ==
  LoopApplyInv /\ [SequentialNext]_<<part, vars, loopVars, windowVars, mainVars>>
    => LoopApplyInv'
<1> SUFFICES ASSUME LoopApplyInv,
                    [SequentialNext]_<<part, vars, loopVars, windowVars, mainVars>>
             PROVE  LoopApplyInv'
  OBVIOUS
<1>1. CASE UNCHANGED loopVars
  BY <1>1 DEF LoopApplyInv, loopVars
<1>2. CASE Loops!WriteEntry
  <2> DEFINE index == input.applied + i + 1
  <2>1. /\ loop = "apply" /\ input.applied + i < input.commit /\ i' = i + 1
        /\ UNCHANGED <<loop, input>>
        /\ IF last < index
           THEN log' = Append(log, input.log[index]) /\ last' = index
           ELSE log' = log /\ last' = last
    BY <1>2 DEF Loops!WriteEntry
  <2>2. /\ input.log \in Seq(TEntry)
        /\ input.applied \in Nat /\ input.rsm \in Nat /\ input.commit \in Nat
        /\ input.applied <= input.rsm /\ input.rsm <= input.commit
        /\ input.commit <= Len(input.log) /\ i \in Nat
        /\ last = Loops!MaxOf(input.rsm, input.applied + i)
        /\ log = SubSeq(input.log, 1, last)
    BY <2>1 DEF LoopApplyInv
  <2>3. input.applied + (i + 1) = index /\ index \in Nat /\ index <= input.commit
    BY <2>1, <2>2
  <2>4. CASE last < index
    <3>1. /\ last = index - 1 /\ index \in 1..Len(input.log)
          /\ Loops!MaxOf(input.rsm, index) = index
      <4>1. last >= input.applied + i /\ last >= input.rsm /\ last \in Nat
        BY <2>2 DEF Loops!MaxOf
      <4>2. last = index - 1
        BY <2>2, <2>4, <4>1
      <4>3. index \in 1..Len(input.log)
        BY <2>2, <2>3
      <4>4. input.rsm < index
        BY <2>2, <4>1, <4>2
      <4> HIDE DEF index
      <4>5. Loops!MaxOf(input.rsm, index) = index
        BY <2>2, <2>3, <4>4 DEF Loops!MaxOf
      <4>6. QED
        BY <4>2, <4>3, <4>5
    <3> HIDE DEF index
    <3>2. SubSeq(input.log, 1, index) = SubSeq(input.log, 1, index - 1) \o <<input.log[index]>>
      <4>1. 1 \in 1..Len(input.log) /\ index \in 1..Len(input.log)
        BY <3>1
      <4>2. QED
        BY <2>2, <4>1, SubSeqRecursiveSecond
    <3>3. SubSeq(input.log, 1, index - 1) \in Seq(TEntry) /\ input.log[index] \in TEntry
      BY <2>2, <3>1
    <3>4. log' = SubSeq(input.log, 1, index)
      BY <2>1, <2>2, <2>4, <3>1, <3>2, <3>3, AppendIsConcat
    <3>5. QED
      BY <2>1, <2>2, <2>3, <2>4, <3>1, <3>4 DEF LoopApplyInv
  <2>5. CASE ~ (last < index)
    <3>1. Loops!MaxOf(input.rsm, index) = last
      BY <2>2, <2>3, <2>5 DEF Loops!MaxOf
    <3>2. log' = log /\ last' = last
      BY <2>1, <2>5
    <3>3. i + 1 \in Nat
      BY <2>2
    <3> HIDE DEF index
    <3>4. QED
      BY <2>1, <2>2, <2>3, <3>1, <3>2, <3>3 DEF LoopApplyInv
  <2>6. QED
    BY <2>4, <2>5
<1>3. CASE Loops!AppendEntry \/ Loops!SortIndices
  BY <1>3 DEF Loops!AppendEntry, Loops!SortIndices, LoopApplyInv
<1>4. QED
  BY <1>1, <1>2, <1>3 DEF SequentialNext, Loops!Next

\* For logs of any length, and wherever the server had been when it was elected again:
\* ProcessCommitted leaves the state machine with each entry up to the commit index
\* once.
THEOREM ApplyLoopCorrect == SequentialSpec => []ApplyAsWritten
<1>1. LoopApplyInv => ApplyAsWritten
  <2> SUFFICES ASSUME LoopApplyInv, loop = "apply", input.applied + i = input.commit
               PROVE  /\ log = Loops!Applied(SubSeq(input.log, 1, input.rsm), input.log,
                                 Loops!MaxOf(input.applied, input.rsm), input.commit)
                      /\ last = input.commit
    BY DEF ApplyAsWritten, Loops!ApplyAsWritten
  <2>1. /\ input.log \in Seq(TEntry)
        /\ input.applied \in Nat /\ input.rsm \in Nat /\ input.commit \in Nat
        /\ input.applied <= input.rsm /\ input.rsm <= input.commit
        /\ input.commit <= Len(input.log)
        /\ last = Loops!MaxOf(input.rsm, input.commit) /\ log = SubSeq(input.log, 1, last)
    BY DEF LoopApplyInv
  <2>2. last = input.commit /\ Loops!MaxOf(input.applied, input.rsm) = input.rsm
    BY <2>1 DEF Loops!MaxOf
  <2>3. SubSeq(input.log, 1, input.rsm) \o SubSeq(input.log, input.rsm + 1, input.commit)
          = SubSeq(input.log, 1, input.commit)
    <3>1. /\ 1 \in 1..Len(input.log) + 1
          /\ input.rsm \in 1 - 1 .. Len(input.log)
          /\ input.commit \in input.rsm .. Len(input.log)
      BY <2>1
    <3>2. QED
      BY <2>1, <3>1, ConcatAdjacentSubSeq
  <2>4. QED
    BY <2>1, <2>2, <2>3 DEF Loops!Applied
<1>2. QED
  BY <1>1, LoopApplyInit, LoopApplyStep, PTL DEF SequentialSpec

-----------------------------------------------------------------------------
(* The sort in CommitAdvance                                                 *)

InNumberOrder(s, n) == \A j, k \in 1..n : j < k => s[j] <= s[k]

\* s is `given` in another order, that of the numbers.
SortedFrom(s, given, n) ==
    /\ \E p \in [1..n -> 1..n] : IsInjective(p) /\ s = [j \in 1..n |-> given[p[j]]]
    /\ InNumberOrder(s, n)

Reaching(f, n, k) == {j \in 1..n : f[j] >= k}

LEMMA SameCount == \A S : Loops!Cardinality(S) = Cardinality(S)
  BY DEF Loops!Cardinality, Cardinality

LEMMA UpTo ==
  ASSUME NEW a \in Nat, NEW b \in Nat, a <= b
  PROVE  IsFiniteSet(a + 1 .. b) /\ Cardinality(a + 1 .. b) = b - a
<1>1. a + 1 \in Int /\ b \in Int
  OBVIOUS
<1>2. /\ IsFiniteSet(a + 1 .. b)
      /\ Cardinality(a + 1 .. b) = IF a + 1 > b THEN 0 ELSE b - (a + 1) + 1
  BY <1>1, FS_Interval
<1>3. QED
  BY <1>2

LEMMA CountUpTo ==
  ASSUME NEW n \in Nat
  PROVE  IsFiniteSet(1..n) /\ Cardinality(1..n) = n
<1>1. 0 \in Nat /\ 0 <= n /\ 0 + 1 = 1 /\ n - 0 = n
  OBVIOUS
<1>2. IsFiniteSet(0 + 1 .. n) /\ Cardinality(0 + 1 .. n) = n - 0
  BY <1>1, UpTo
<1>3. QED
  BY <1>1, <1>2

\* Another order has as many numbers from k on.
LEMMA SortKeepsCounts ==
  ASSUME NEW n \in Nat, NEW given \in [1..n -> Nat], NEW s, SortedFrom(s, given, n),
         NEW k \in Nat
  PROVE  Cardinality(Reaching(given, n, k)) = Cardinality(Reaching(s, n, k))
<1> DEFINE A == {j \in 1..n : s[j] >= k}
           B == {q \in 1..n : given[q] >= k}
<1>1. PICK p \in [1..n -> 1..n] : IsInjective(p) /\ s = [j \in 1..n |-> given[p[j]]]
  BY DEF SortedFrom
<1>2. \A j \in 1..n : s[j] = given[p[j]]
  BY <1>1
<1>3. \A a, b \in 1..n : p[a] = p[b] => a = b
  BY <1>1 DEF IsInjective
<1>4. p \in Injection(1..n, 1..n)
  BY <1>1 DEF Injection
<1>5. p \in Surjection(1..n, 1..n)
  BY <1>4, CountUpTo, FS_Injection
<1>6. \A q \in 1..n : \E j \in 1..n : p[j] = q
  BY <1>5 DEF Surjection
<1> DEFINE f == [j \in A |-> p[j]]
<1>7. f \in [A -> B]
  BY <1>1, <1>2
<1>8. f \in Injection(A, B)
  <2>1. \A a, b \in A : f[a] = f[b] => a = b
    BY <1>3
  <2>2. QED
    BY <1>7, <2>1 DEF Injection, IsInjective
<1>9. f \in Surjection(A, B)
  <2>1. \A q \in B : \E j \in A : f[j] = q
    BY <1>2, <1>6
  <2>2. QED
    BY <1>7, <2>1 DEF Surjection
<1>10. IsFiniteSet(A)
  BY CountUpTo, FS_Subset
<1> HIDE DEF A, B, f
<1>11. f \in Bijection(A, B)
  BY <1>8, <1>9 DEF Bijection
<1>12. Cardinality(B) = Cardinality(A)
  BY <1>10, <1>11, FS_Bijection DEF ExistsBijection
<1>13. QED
  BY <1>12 DEF A, B, Reaching

\* The element at n / 2, from 0, is the largest number that enough of them reach.
LEMMA EnoughReach ==
  ASSUME NEW n \in Nat \ {0}, NEW given \in [1..n -> Nat], NEW s, SortedFrom(s, given, n),
         NEW k \in Nat
  PROVE  Cardinality(Reaching(given, n, k)) >= n - n \div 2 <=> s[n \div 2 + 1] >= k
<1> DEFINE A == {j \in 1..n : s[j] >= k}
<1>1. Cardinality(Reaching(given, n, k)) = Cardinality(A)
  <2>1. n \in Nat
    OBVIOUS
  <2>2. Cardinality(Reaching(given, n, k)) = Cardinality(Reaching(s, n, k))
    BY <2>1, SortKeepsCounts
  <2>3. QED
    BY <2>2 DEF Reaching
<1>2. \A j \in 1..n : s[j] \in Nat
  BY DEF SortedFrom
<1>3. PICK m \in Nat : m = n \div 2
  OBVIOUS
<1>4. m < n
  BY <1>3
<1>5. \A j \in 1..n : j < m + 1 \/ j = m + 1 \/ m + 1 < j
  BY <1>3
<1>6. m + 1 \in 1..n
  BY <1>3, <1>4
<1>7. A \subseteq 1..n /\ IsFiniteSet(A) /\ Cardinality(A) \in Nat
  BY CountUpTo, FS_Subset, FS_CardinalityType
<1>8. ASSUME s[m + 1] >= k PROVE Cardinality(A) >= n - m
  <2>1. m .. n \subseteq Nat
    OBVIOUS
  <2>2. m + 1 .. n \subseteq A
    <3> SUFFICES ASSUME NEW j \in m + 1 .. n PROVE j \in A
      OBVIOUS
    <3>1. j \in 1..n /\ (j = m + 1 \/ m + 1 < j)
      BY <1>6
    <3>2. s[m + 1] <= s[j]
      <4>1. CASE j = m + 1
        BY <1>2, <1>6, <4>1
      <4>2. CASE m + 1 < j
        BY <1>6, <3>1, <4>2 DEF SortedFrom, InNumberOrder
      <4>3. QED
        BY <3>1, <4>1, <4>2
    <3>3. s[j] >= k
      BY <1>2, <1>6, <1>8, <3>1, <3>2
    <3>4. QED
      BY <3>1, <3>3
  <2> HIDE DEF A
  <2>3. Cardinality(m + 1 .. n) = n - m
    BY <1>4, UpTo
  <2>4. Cardinality(m + 1 .. n) <= Cardinality(A)
    BY <1>7, <2>2, FS_Subset
  <2>5. QED
    BY <1>7, <2>3, <2>4
<1>9. ASSUME ~ (s[m + 1] >= k) PROVE Cardinality(A) < n - m
  <2>1. m + 1 <= n
    BY <1>4
  <2>2. A \subseteq (m + 1) + 1 .. n
    <3> SUFFICES ASSUME NEW j \in A PROVE j \in (m + 1) + 1 .. n
      OBVIOUS
    <3>1. j \in 1..n /\ s[j] >= k
      OBVIOUS
    <3>2. ~ (j < m + 1) /\ j # m + 1
      <4>1. j < m + 1 => s[j] <= s[m + 1]
        BY <1>6, <3>1 DEF SortedFrom, InNumberOrder
      <4>2. s[j] \in Nat /\ s[m + 1] \in Nat
        BY <1>2, <1>6, <3>1
      <4>3. ~ (s[j] <= s[m + 1])
        BY <1>9, <3>1, <4>2
      <4>4. QED
        BY <1>9, <3>1, <4>1, <4>3
    <3>3. QED
      BY <3>1, <3>2
  <2> HIDE DEF A
  <2>3. /\ IsFiniteSet((m + 1) + 1 .. n)
        /\ Cardinality((m + 1) + 1 .. n) = n - (m + 1)
    <3>1. m + 1 \in Nat /\ n \in Nat
      OBVIOUS
    <3>2. QED
      BY <2>1, <3>1, UpTo
  <2>4. Cardinality(A) <= n - (m + 1)
    BY <2>2, <2>3, FS_Subset
  <2>5. QED
    BY <1>7, <2>4
<1> HIDE DEF A
<1>10. Cardinality(A) >= n - m <=> s[m + 1] >= k
  BY <1>7, <1>8, <1>9
<1>11. QED
  BY <1>1, <1>3, <1>10

\* So it is the one that IsMiddle picks.
LEMMA MiddleOfSorted ==
  ASSUME NEW n \in Nat \ {0}, NEW given \in [1..n -> Nat], NEW s, SortedFrom(s, given, n),
         NEW k \in Nat
  PROVE  Loops!IsMiddle(given, k) <=> k = s[n \div 2 + 1]
<1>1. DOMAIN given = 1..n /\ Cardinality(1..n) = n
  BY CountUpTo
<1>2. {p \in DOMAIN given : given[p] >= k} = Reaching(given, n, k)
  BY <1>1 DEF Reaching
<1>3. {p \in DOMAIN given : given[p] > k} = Reaching(given, n, k + 1)
  BY <1>1 DEF Reaching
<1>4. Loops!CommitQuorum(DOMAIN given) = n - n \div 2
  <2>1. Loops!CommitQuorum(1..n) = n - n \div 2
    BY <1>1, SameCount DEF Loops!CommitQuorum
  <2>2. QED
    BY <1>1, <2>1
<1>5. Cardinality(Reaching(given, n, k)) >= n - n \div 2 <=> s[n \div 2 + 1] >= k
  BY EnoughReach
<1>6. Cardinality(Reaching(given, n, k + 1)) >= n - n \div 2 <=> s[n \div 2 + 1] >= k + 1
  <2>1. k + 1 \in Nat
    OBVIOUS
  <2>2. QED
    BY <2>1, EnoughReach
<1>7. Cardinality(Reaching(given, n, k + 1)) \in Nat /\ n - n \div 2 \in Nat
  <2>1. Reaching(given, n, k + 1) \subseteq 1..n
    BY DEF Reaching
  <2>2. Cardinality(Reaching(given, n, k + 1)) \in Nat
    BY <2>1, CountUpTo, FS_Subset, FS_CardinalityType
  <2>3. QED
    BY <2>2
<1>8. s[n \div 2 + 1] \in Nat
  <2>1. n \div 2 + 1 \in 1..n
    OBVIOUS
  <2>2. QED
    BY <2>1 DEF SortedFrom
<1>9. Loops!IsMiddle(given, k)
        <=> /\ Cardinality(Reaching(given, n, k)) >= n - n \div 2
            /\ Cardinality(Reaching(given, n, k + 1)) < n - n \div 2
  BY <1>2, <1>3, <1>4, SameCount DEF Loops!IsMiddle
<1>10. Cardinality(Reaching(given, n, k + 1)) < n - n \div 2
         <=> ~ (Cardinality(Reaching(given, n, k + 1)) >= n - n \div 2)
  BY <1>7
<1>11. QED
  BY <1>5, <1>6, <1>8, <1>9, <1>10

LoopCommitInv ==
    loop = "commit" =>
        \E n \in Nat \ {0} :
            /\ n \in 1..MaxServers /\ input \in [1..n -> Nat]
            /\ \/ i = 0 /\ log = input
               \/ i = 1 /\ SortedFrom(log, input, n)

LEMMA LoopCommitInit == SequentialInit => LoopCommitInv
<1> SUFFICES ASSUME SequentialInit, loop = "commit" PROVE LoopCommitInv
  BY DEF LoopCommitInv
<1>1. Loops!InitCommit /\ i = 0
  BY DEF SequentialInit, NoLoops, Loops!Init, Loops!InitAppend, Loops!InitApply
<1>2. PICK n \in 1..MaxServers : input \in [1..n -> 0..MaxLen]
  BY <1>1 DEF Loops!InitCommit
<1>3. n \in Nat \ {0} /\ input \in [1..n -> Nat]
  BY <1>2, SequentialAssumption
<1>4. log = input
  BY <1>1 DEF Loops!InitCommit
<1>5. QED
  BY <1>1, <1>2, <1>3, <1>4 DEF LoopCommitInv

LEMMA LoopCommitStep ==
  LoopCommitInv /\ [SequentialNext]_<<part, vars, loopVars, windowVars, mainVars>>
    => LoopCommitInv'
<1> SUFFICES ASSUME LoopCommitInv,
                    [SequentialNext]_<<part, vars, loopVars, windowVars, mainVars>>
             PROVE  LoopCommitInv'
  OBVIOUS
<1>1. CASE UNCHANGED loopVars
  BY <1>1 DEF LoopCommitInv, loopVars
<1>2. CASE Loops!SortIndices
  <2>1. PICK n \in Nat \ {0} :
          n \in 1..MaxServers /\ input \in [1..n -> Nat] /\ log = input
    BY <1>2 DEF LoopCommitInv, Loops!SortIndices
  <2>2. n \in Nat /\ Len(log) = n
    BY <2>1
  <2>3. Loops!Rearrangements[n] = {p \in [1..n -> 1..n] : IsInjective(p)}
    BY <2>1 DEF Loops!Rearrangements, Loops!IsInjective, IsInjective
  <2>4. PICK p \in Loops!Rearrangements[n] :
          /\ log' = [j \in 1..n |-> log[p[j]]]
          /\ \A j, k \in 1..n : j < k => log'[j] <= log'[k]
    BY <1>2, <2>2 DEF Loops!SortIndices
  <2>5. SortedFrom(log', input, n)
    BY <2>1, <2>3, <2>4 DEF SortedFrom, InNumberOrder
  <2>6. i' = 1 /\ UNCHANGED <<loop, input>>
    BY <1>2 DEF Loops!SortIndices
  <2>7. QED
    BY <2>1, <2>5, <2>6 DEF LoopCommitInv
<1>3. CASE Loops!AppendEntry \/ Loops!WriteEntry
  BY <1>3 DEF Loops!AppendEntry, Loops!WriteEntry, LoopCommitInv
<1>4. QED
  BY <1>1, <1>2, <1>3 DEF SequentialNext, Loops!Next

\* For clusters of any size, odd or even: the element of the sorted indices that
\* CommitAdvance takes is the one of Raft's model, which counts servers.
THEOREM CommitSortCorrect == SequentialSpec => []CommitAsWritten
<1>1. LoopCommitInv => CommitAsWritten
  <2> SUFFICES ASSUME LoopCommitInv, loop = "commit", i = 1, NEW k \in 0..MaxLen
               PROVE  Loops!IsMiddle(input, k) <=> k = log[Len(log) \div 2 + 1]
    BY DEF CommitAsWritten, Loops!CommitAsWritten
  <2>1. PICK n \in Nat \ {0} : input \in [1..n -> Nat] /\ SortedFrom(log, input, n)
    BY DEF LoopCommitInv
  <2>2. Len(log) = n
    BY <2>1 DEF SortedFrom
  <2>3. k \in Nat
    BY SequentialAssumption
  <2>4. QED
    BY <2>1, <2>2, <2>3, MiddleOfSorted
<1>2. QED
  BY <1>1, LoopCommitInit, LoopCommitStep, PTL DEF SequentialSpec

-----------------------------------------------------------------------------
(* The main functions                                                        *)

\* A text as long as an id that fits is read to its end.
LEMMA WholeId ==
  ASSUME NEW text \in Texts, Len(text.id) <= Len(text.port)
  PROVE  Main!Id(text) = Main!Value(text.id)
<1>1. text.id \in Seq(0..9) /\ text.port \in Seq(0..9)
  BY SequentialAssumption
<1>2. Main!FirstDigits(text.id, Len(text.port)) = SubSeq(text.id, 1, Len(text.id))
  BY <1>1 DEF Main!FirstDigits
<1>3. SubSeq(text.id, 1, Len(text.id)) = text.id
  BY <1>1, SubSeqFull
<1>4. QED
  BY <1>2, <1>3 DEF Main!Id

\* The ids of the first n hosts.
IdsRead(list, n) == {Main!Id(list[j]) : j \in 1..n}

\* Of the hosts looked at none was empty, and each is a peer or the server itself.
HostsTaken ==
    LET ids == IdsRead(hosts, looked)
    IN  /\ 0 \notin ids
        /\ nodes = ids \ {id}
        /\ myHost = IF id \in ids THEN id ELSE 0

MainInv ==
    part = "main" =>
        /\ options \in Seq(Main!Option) /\ done \in Nat
        /\ hosts \in Seq(Texts)
        /\ looked \in 0..Len(hosts)
        /\ looked # 0 => done = Len(options)
        /\ outcome \in {"starts", "serves", "Host not found"} => HostsTaken
        /\ outcome \in {"serves", "Host not found"} => looked = Len(hosts)
        /\ outcome = "serves" => myHost # 0
        /\ outcome = "Host not found" => myHost = 0

LEMMA MainInit == SequentialInit => MainInv
<1> SUFFICES ASSUME SequentialInit, part = "main" PROVE MainInv
  BY DEF MainInv
<1>1. Main!Init
  BY DEF SequentialInit
<1>2. options \in Seq(Main!Option)
  BY <1>1 DEF Main!Init, Main!BoundedSeq, Main!SeqOf
<1>3. hosts = <<>> /\ looked = 0 /\ nodes = {} /\ myHost = 0 /\ outcome = "starts" /\ done = 0
  BY <1>1 DEF Main!Init
<1>4. IdsRead(hosts, looked) = {}
  BY <1>3 DEF IdsRead
<1>5. HostsTaken
  BY <1>3, <1>4 DEF HostsTaken
<1>6. QED
  BY <1>2, <1>3, <1>5 DEF MainInv

LEMMA MainStep ==
  MainInv /\ [SequentialNext]_<<part, vars, loopVars, windowVars, mainVars>> => MainInv'
<1> SUFFICES ASSUME MainInv, part' = "main",
                    [SequentialNext]_<<part, vars, loopVars, windowVars, mainVars>>
             PROVE  MainInv'
  BY DEF MainInv
<1>1. part = "main"
  BY DEF SequentialNext, Loops!Next, Window!Next
<1>2. CASE UNCHANGED mainVars
  BY <1>1, <1>2 DEF MainInv, mainVars, HostsTaken, IdsRead
<1>3. CASE Main!TakeOption
  <2>1. /\ outcome = "starts" /\ done < Len(options) /\ done' = done + 1
        /\ UNCHANGED <<options, looked, nodes, myHost>>
    BY <1>3 DEF Main!TakeOption, Main!hostVars
  <2>2. looked = 0 /\ HostsTaken /\ options \in Seq(Main!Option) /\ done \in Nat
        /\ hosts \in Seq(Texts)
    BY <1>1, <2>1 DEF MainInv
  <2>3. options[done + 1] \in Main!Option
    BY <2>1, <2>2
  <2>4. options[done + 1].name = "--node" => options[done + 1].value \in Texts
    BY <2>3 DEF Main!Option
  <2>5. hosts' \in Seq(Texts)
    BY <1>3, <2>2, <2>4 DEF Main!TakeOption
  <2>6. outcome' \in {"starts", "usage"}
    BY <1>3, <2>1 DEF Main!TakeOption
  <2>7. IdsRead(hosts, looked) = {} /\ IdsRead(hosts', looked') = {}
    BY <2>1, <2>2 DEF IdsRead
  <2>8. HostsTaken'
    BY <2>1, <2>2, <2>7 DEF HostsTaken
  <2>9. options' \in Seq(Main!Option) /\ done' \in Nat
    BY <2>1, <2>2
  <2>10. looked' = 0 /\ looked' \in 0..Len(hosts')
    BY <2>1, <2>2, <2>5
  <2>11. outcome' \notin {"serves", "Host not found"}
    BY <2>6
  <2>12. QED
    BY <2>5, <2>8, <2>9, <2>10, <2>11 DEF MainInv
<1>4. CASE Main!TakeHost
  <2>1. /\ outcome = "starts" /\ done = Len(options) /\ looked < Len(hosts)
        /\ looked' = looked + 1
        /\ UNCHANGED <<options, done, hosts, id>>
    BY <1>4 DEF Main!TakeHost, Main!Parsed, Main!argVars
  <2>2. /\ HostsTaken /\ options \in Seq(Main!Option) /\ done \in Nat
        /\ hosts \in Seq(Texts) /\ looked \in Nat
    BY <1>1, <2>1 DEF MainInv
  <2>3. PICK h : h = Main!Id(hosts[looked + 1])
    OBVIOUS
  <2>4. CASE h = 0
    <3>1. outcome' = "Empty host"
      BY <1>4, <2>3, <2>4 DEF Main!TakeHost
    <3>2. looked' \in 0..Len(hosts') /\ hosts' \in Seq(Texts)
      BY <2>1, <2>2
    <3>3. outcome' \notin {"starts", "serves", "Host not found"}
      BY <3>1
    <3>4. options' \in Seq(Main!Option) /\ done' \in Nat /\ done' = Len(options')
      BY <2>1, <2>2
    <3>5. QED
      BY <3>2, <3>3, <3>4 DEF MainInv
  <2>5. CASE h # 0
    <3>1. /\ outcome' = "starts"
          /\ myHost' = IF h = id THEN h ELSE myHost
          /\ nodes' = IF h = id THEN nodes ELSE nodes \cup {h}
      BY <1>4, <2>1, <2>3, <2>5 DEF Main!TakeHost, Main!NodesWithout
    <3>2. 1..(looked + 1) = 1..looked \cup {looked + 1}
      BY <2>2
    <3>3. IdsRead(hosts', looked') = IdsRead(hosts, looked) \cup {h}
      BY <2>1, <2>3, <3>2 DEF IdsRead
    <3>4. HostsTaken'
      BY <2>1, <2>2, <2>5, <3>1, <3>3 DEF HostsTaken
    <3>5. QED
      BY <2>1, <2>2, <3>1, <3>4 DEF MainInv
  <2>6. QED
    BY <2>4, <2>5
<1>5. CASE Main!Serve
  <2>1. /\ outcome = "starts" /\ looked = Len(hosts)
        /\ outcome' = IF myHost = 0 THEN "Host not found" ELSE "serves"
        /\ UNCHANGED <<options, done, hosts, id, looked, nodes, myHost>>
    BY <1>5 DEF Main!Serve, Main!Parsed, Main!argVars, Main!hostVars
  <2>2. QED
    BY <1>1, <2>1 DEF MainInv, HostsTaken
<1>6. CASE Main!Connect
  <2>1. outcome' \in {"At least one node must be set", "undefined", "connects"}
    BY <1>6 DEF Main!Connect
  <2>2. UNCHANGED <<options, done, hosts, looked>>
    BY <1>6 DEF Main!Connect, Main!argVars
  <2>3. QED
    BY <1>1, <2>1, <2>2 DEF MainInv
<1>7. QED
  BY <1>1, <1>2, <1>3, <1>4, <1>5, <1>6 DEF SequentialNext, Main!Next

\* An id that is not cut is read as it is listed.
LEMMA HostRead ==
  ASSUME NEW list \in Seq(Texts), NEW h \in DOMAIN list, ~Main!Cut(list[h])
  PROVE  h \in 1..Len(list) /\ Main!Id(list[h]) = Main!Value(list[h].id)
<1>1. DOMAIN list = 1..Len(list) /\ list[h] \in Texts
  OBVIOUS
<1>2. list[h].id \in Seq(0..9) /\ list[h].port \in Seq(0..9)
  BY <1>1, SequentialAssumption
<1>3. Len(list[h].id) <= Len(list[h].port)
  BY <1>2 DEF Main!Cut
<1>4. QED
  BY <1>1, <1>3, WholeId

LEMMA ReadAsListed ==
  ASSUME NEW list \in Seq(Texts),
         \A j \in DOMAIN list : ~Main!Cut(list[j])
  PROVE  IdsRead(list, Len(list)) = {Main!Value(list[j].id) : j \in DOMAIN list}
<1>1. DOMAIN list = 1..Len(list)
  OBVIOUS
<1>2. \A j \in DOMAIN list : Main!Id(list[j]) = Main!Value(list[j].id)
  BY HostRead
<1>3. QED
  BY <1>1, <1>2 DEF IdsRead

\* For any lists of nodes and any command lines: a server that serves has itself and, as
\* peers, all others of its list.
THEOREM ServersOfAListAreOneCluster == SequentialSpec => []OneCluster
<1>1. MainInv => OneCluster
  <2> SUFFICES ASSUME MainInv, part = "main", outcome = "serves", Main!IdsFit
               PROVE  nodes = Main!Listed \ {myHost} /\ myHost = id /\ id \in Main!Listed
    BY DEF OneCluster, Main!OneCluster
  <2>1. hosts \in Seq(Texts) /\ HostsTaken /\ looked = Len(hosts) /\ myHost # 0
    BY DEF MainInv
  <2>2. IdsRead(hosts, looked) = Main!Listed
    BY <2>1, ReadAsListed DEF Main!IdsFit, Main!Listed
  <2>3. QED
    BY <2>1, <2>2 DEF HostsTaken
<1>2. QED
  BY <1>1, MainInit, MainStep, PTL DEF SequentialSpec

\* For any lists: a host that has the server's id and is not found has its id cut.
THEOREM OnlyCutIdsGetLost == SequentialSpec => []OnlyCutIdsAreLost
<1>1. MainInv => OnlyCutIdsAreLost
  <2> SUFFICES ASSUME MainInv, part = "main", outcome = "Host not found",
                      NEW h \in DOMAIN hosts, Main!Value(hosts[h].id) = id, ~Main!Cut(hosts[h])
               PROVE  FALSE
    BY DEF OnlyCutIdsAreLost, Main!OnlyCutIdsAreLost
  <2>1. hosts \in Seq(Texts) /\ HostsTaken /\ looked = Len(hosts) /\ myHost = 0
    BY DEF MainInv
  <2>2. h \in 1..looked /\ Main!Id(hosts[h]) = id
    BY <2>1, HostRead
  <2>3. id \in IdsRead(hosts, looked)
    BY <2>2 DEF IdsRead
  <2>4. QED
    BY <2>1, <2>3 DEF HostsTaken
<1>2. QED
  BY <1>1, MainInit, MainStep, PTL DEF SequentialSpec

-----------------------------------------------------------------------------
(* The key-value store                                                       *)

LEMMA LeastNumber ==
  ASSUME NEW T, T \subseteq Nat, T # {}
  PROVE  \E x \in T : \A y \in T : x <= y
<1>1. PICK x \in T : \A y \in T : ~ (<<y, x>> \in OpToRel(<, Nat))
  BY NatLessThanWellFounded, WFMin
<1>2. \A y \in T : ~ (y < x)
  BY <1>1 DEF OpToRel
<1>3. QED
  BY <1>2

LEMMA GreatestNumber ==
  ASSUME NEW n \in Nat, NEW T, T \subseteq 1..n, T # {}
  PROVE  \E x \in T : \A y \in T : y <= x
<1> DEFINE Bounds == {b \in Nat : \A y \in T : y <= b}
<1>1. n \in Bounds
  OBVIOUS
<1>2. PICK b \in Bounds : \A a \in Bounds : b <= a
  <2>1. Bounds \subseteq Nat /\ Bounds # {}
    BY <1>1
  <2> HIDE DEF Bounds
  <2>2. QED
    BY <2>1, LeastNumber
<1>3. b \in Nat /\ \A y \in T : y \in Nat /\ 1 <= y /\ y <= b
  BY <1>2
<1>4. b \in T
  <2> SUFFICES ASSUME b \notin T PROVE FALSE
    OBVIOUS
  <2>1. b - 1 \in Nat
    <3>1. PICK y \in T : TRUE
      OBVIOUS
    <3>2. b \in Nat /\ 1 <= b
      BY <1>3, <3>1
    <3>3. QED
      BY <3>2
  <2>2. ASSUME NEW y \in T PROVE y <= b - 1
    <3>1. y \in Nat /\ y <= b /\ y # b
      BY <1>3
    <3>2. QED
      BY <1>3, <3>1
  <2>3. b - 1 \in Bounds
    BY <2>1, <2>2
  <2>4. b <= b - 1
    BY <1>2, <2>3
  <2>5. QED
    BY <1>3, <2>4
<1>5. QED
  BY <1>3, <1>4

\* LastEntry and MapAt for the log l.
On(l, k, n) == {j \in 1..n : l[j].key = k}
LastOn(l, k, n) == CHOOSE j \in On(l, k, n) : \A q \in On(l, k, n) : q <= j
LastOf(l, k, n) == IF On(l, k, n) = {} THEN NoValue ELSE l[LastOn(l, k, n)].val
MapOf(l, n, keys) == [k \in {x \in keys : LastOf(l, x, n) # NoValue} |-> LastOf(l, k, n)]

LEMMA LastOnIsGreatest ==
  ASSUME NEW l, NEW k, NEW n \in Nat, On(l, k, n) # {}
  PROVE  /\ LastOn(l, k, n) \in On(l, k, n)
         /\ \A q \in On(l, k, n) : q <= LastOn(l, k, n)
<1>1. On(l, k, n) \subseteq 1..n
  BY DEF On
<1>2. \E j \in On(l, k, n) : \A q \in On(l, k, n) : q <= j
  BY <1>1, GreatestNumber
<1>3. QED
  BY <1>2 DEF LastOn

\* One more entry decides its own key.
LEMMA LastOfNext ==
  ASSUME NEW l, NEW k, NEW n \in Nat
  PROVE  LastOf(l, k, n + 1) = IF l[n + 1].key = k THEN l[n + 1].val ELSE LastOf(l, k, n)
<1>1. n + 1 \in Nat /\ n + 1 \in 1..(n + 1) /\ 1..(n + 1) = 1..n \cup {n + 1}
  OBVIOUS
<1>2. CASE l[n + 1].key = k
  <2>1. n + 1 \in On(l, k, n + 1)
    BY <1>1, <1>2 DEF On
  <2>2. /\ LastOn(l, k, n + 1) \in On(l, k, n + 1)
        /\ n + 1 <= LastOn(l, k, n + 1)
    BY <1>1, <2>1, LastOnIsGreatest
  <2>3. LastOn(l, k, n + 1) \in 1..(n + 1)
    BY <2>2 DEF On
  <2>4. LastOn(l, k, n + 1) = n + 1
    BY <2>2, <2>3
  <2>5. QED
    BY <1>2, <2>1, <2>4 DEF LastOf
<1>3. CASE l[n + 1].key # k
  <2>1. On(l, k, n + 1) = On(l, k, n)
    BY <1>1, <1>3 DEF On
  <2>2. QED
    <3>1. LastOn(l, k, n + 1) = LastOn(l, k, n)
      BY <2>1 DEF LastOn
    <3>2. QED
      BY <1>3, <2>1, <3>1 DEF LastOf
<1>4. QED
  BY <1>2, <1>3

\* What is appended changes nothing before it.
LEMMA LastOfPrefix ==
  ASSUME NEW l \in Seq(Entry), NEW e, NEW k, NEW n \in 0..Len(l)
  PROVE  LastOf(Append(l, e), k, n) = LastOf(l, k, n)
<1>1. \A j \in 1..n : Append(l, e)[j] = l[j]
  OBVIOUS
<1>2. On(Append(l, e), k, n) = On(l, k, n)
  BY <1>1 DEF On
<1>3. LastOn(Append(l, e), k, n) = LastOn(l, k, n)
  BY <1>2 DEF LastOn
<1>4. CASE On(l, k, n) # {}
  <2>1. n \in Nat
    OBVIOUS
  <2>2. LastOn(l, k, n) \in 1..n
    BY <1>4, <2>1, LastOnIsGreatest DEF On
  <2>3. QED
    BY <1>1, <1>2, <1>3, <2>2 DEF LastOf
<1>5. CASE On(l, k, n) = {}
  BY <1>2, <1>5 DEF LastOf
<1>6. QED
  BY <1>4, <1>5

LEMMA MapOfPrefix ==
  ASSUME NEW l \in Seq(Entry), NEW e, NEW n \in 0..Len(l), NEW keys
  PROVE  MapOf(Append(l, e), n, keys) = MapOf(l, n, keys)
<1>1. \A k : LastOf(Append(l, e), k, n) = LastOf(l, k, n)
  BY LastOfPrefix
<1>2. QED
  BY <1>1 DEF MapOf

LEMMA MapOfType ==
  ASSUME NEW l \in Seq(Entry), NEW n \in 0..Len(l), NEW keys \in SUBSET Keys
  PROVE  MapOf(l, n, keys) \in Maps
<1>1. ASSUME NEW k, LastOf(l, k, n) # NoValue PROVE LastOf(l, k, n) \in Values
  <2>1. n \in Nat /\ On(l, k, n) # {}
    BY <1>1 DEF LastOf
  <2>2. LastOn(l, k, n) \in 1..n
    BY <2>1, LastOnIsGreatest DEF On
  <2>3. l[LastOn(l, k, n)] \in Entry
    BY <2>2
  <2>4. QED
    BY <1>1, <2>1, <2>3 DEF LastOf, Entry
<1> DEFINE D == {x \in keys : LastOf(l, x, n) # NoValue}
<1>2. D \in SUBSET Keys
  OBVIOUS
<1>3. MapOf(l, n, keys) \in [D -> Values]
  BY <1>1 DEF MapOf
<1>4. QED
  BY <1>2, <1>3 DEF Maps

\* TKv::Write and TKv::Read on the map of a log.
LEMMA StoredInMap ==
  ASSUME NEW l \in Seq(Entry), NEW n \in Nat, n + 1 <= Len(l)
  PROVE  Stored(MapOf(l, n, Keys), l[n + 1]) = MapOf(l, n + 1, Keys)
<1>1. l[n + 1] \in Entry
  OBVIOUS
<1>2. PICK e \in Entry : e = l[n + 1]
  BY <1>1
<1>3. e.key \in Keys /\ e.val \in Values \cup {NoValue}
  BY DEF Entry
<1>4. \A k : LastOf(l, k, n + 1) = IF e.key = k THEN e.val ELSE LastOf(l, k, n)
  BY <1>2, LastOfNext
<1> DEFINE D == {x \in Keys : LastOf(l, x, n) # NoValue}
           E == {x \in Keys : LastOf(l, x, n + 1) # NoValue}
<1>5. /\ DOMAIN MapOf(l, n, Keys) = D
      /\ \A k \in D : MapOf(l, n, Keys)[k] = LastOf(l, k, n)
  BY DEF MapOf
<1>6. MapOf(l, n + 1, Keys) = [k \in E |-> LastOf(l, k, n + 1)]
  BY DEF MapOf
<1>7. CASE e.val = NoValue
  <2>1. E = D \ {e.key}
    BY <1>3, <1>4, <1>7
  <2>2. Stored(MapOf(l, n, Keys), e) = [k \in D \ {e.key} |-> MapOf(l, n, Keys)[k]]
    BY <1>5, <1>7 DEF Stored
  <2>3. \A k \in D \ {e.key} : MapOf(l, n, Keys)[k] = LastOf(l, k, n + 1)
    BY <1>4, <1>5
  <2> HIDE DEF D, E
  <2>4. QED
    BY <1>2, <1>6, <2>1, <2>2, <2>3
<1>8. CASE e.val # NoValue
  <2>1. E = D \cup {e.key}
    BY <1>3, <1>4, <1>8
  <2>2. Stored(MapOf(l, n, Keys), e) =
          [k \in D \cup {e.key} |-> IF k = e.key THEN e.val ELSE MapOf(l, n, Keys)[k]]
    BY <1>5, <1>8 DEF Stored
  <2>3. \A k \in D \cup {e.key} :
          (IF k = e.key THEN e.val ELSE MapOf(l, n, Keys)[k]) = LastOf(l, k, n + 1)
    BY <1>4, <1>5
  <2> HIDE DEF D, E
  <2>4. QED
    BY <1>2, <1>6, <2>1, <2>2, <2>3
<1>9. QED
  BY <1>7, <1>8

LEMMA ReadFromMap ==
  ASSUME NEW l, NEW n, NEW cmd \in Read
  PROVE  ReadFrom(MapOf(l, n, Keys), cmd) = MapOf(l, n, cmd.keys)
<1>1. cmd.keys \subseteq Keys
  BY DEF Read
<1>2. DOMAIN MapOf(l, n, Keys) = {x \in Keys : LastOf(l, x, n) # NoValue}
  BY DEF MapOf
<1>3. DOMAIN MapOf(l, n, Keys) \cap cmd.keys = {x \in cmd.keys : LastOf(l, x, n) # NoValue}
  BY <1>1, <1>2
<1>4. \A k \in DOMAIN MapOf(l, n, Keys) : MapOf(l, n, Keys)[k] = LastOf(l, k, n)
  BY DEF MapOf
<1>5. \A k \in {x \in cmd.keys : LastOf(l, x, n) # NoValue} :
        MapOf(l, n, Keys)[k] = LastOf(l, k, n)
  BY <1>3, <1>4
<1>6. QED
  BY <1>3, <1>5 DEF ReadFrom, MapOf

\* ProcessCommitted writes the map of the log up to the index, from LastApplied = 0 after
\* an election as from where it was.
LEMMA CommittedIsWritten ==
  ASSUME TypeOK, H = MapOf(Log, LastAppliedIndex, Keys),
         NEW commit \in CommitIndex..Len(Log)
  PROVE  WriteCommitted(commit) = [map |-> MapOf(Log, commit, Keys), last |-> commit]
<1> DEFINE Reached(n) == IF LastApplied + n <= CommitIndex THEN CommitIndex
                         ELSE LastApplied + n
           Rsm(n) == [map |-> MapOf(Log, Reached(n), Keys), last |-> Reached(n)]
           Step(f, n) == IF n = 0 THEN [map |-> H, last |-> LastAppliedIndex]
                         ELSE Write(f[n - 1], LastApplied + n)
<1>1. /\ Log \in Seq(Entry) /\ Len(Log) \in Nat /\ CommitIndex \in Nat /\ commit \in Nat
      /\ LastApplied \in Nat /\ LastApplied <= CommitIndex
      /\ CommitIndex <= commit /\ commit <= Len(Log)
      /\ LastAppliedIndex = CommitIndex
  BY DEF TypeOK
<1>2. PICK N \in Nat : N = commit - LastApplied
  BY <1>1
<1>3. \A n \in 0..N : Reached(n) \in Nat
  BY <1>1
<1>4. Rsm(0) = [map |-> H, last |-> LastAppliedIndex]
  <2>1. Reached(0) = CommitIndex
    BY <1>1
  <2>2. QED
    BY <1>1, <2>1
<1>5. ASSUME NEW n \in 1..N PROVE Rsm(n) = Write(Rsm(n - 1), LastApplied + n)
  <2>1. n - 1 \in 0..N /\ n \in Nat /\ LastApplied + n <= Len(Log)
    BY <1>1, <1>2
  <2>2. CASE LastApplied + n <= CommitIndex
    <3>1. Reached(n) = CommitIndex /\ Reached(n - 1) = CommitIndex
      BY <1>1, <2>1, <2>2
    <3>2. Rsm(n) = Rsm(n - 1) /\ Rsm(n - 1).last = CommitIndex
      BY <3>1
    <3> HIDE DEF Rsm, Reached
    <3>3. ~ (Rsm(n - 1).last < LastApplied + n)
      BY <1>1, <2>1, <2>2, <3>2
    <3>4. QED
      BY <3>2, <3>3 DEF Write
  <2>3. CASE ~ (LastApplied + n <= CommitIndex)
    <3>1. PICK m \in Nat : m = LastApplied + n - 1
      BY <1>1, <2>1
    <3>2. m + 1 = LastApplied + n /\ m + 1 <= Len(Log)
      BY <1>1, <2>1, <3>1
    <3>3. Reached(n) = m + 1 /\ Reached(n - 1) = m
      BY <1>1, <2>1, <2>3, <3>1
    <3>4. /\ Rsm(n) = [map |-> MapOf(Log, m + 1, Keys), last |-> m + 1]
          /\ Rsm(n - 1) = [map |-> MapOf(Log, m, Keys), last |-> m]
      BY <3>3
    <3>5. Stored(MapOf(Log, m, Keys), Log[m + 1]) = MapOf(Log, m + 1, Keys)
      BY <1>1, <3>2, StoredInMap
    <3> HIDE DEF Rsm, Reached
    <3>6. Rsm(n - 1).map = MapOf(Log, m, Keys) /\ Rsm(n - 1).last = m
      BY <3>4
    <3>7. m < m + 1
      OBVIOUS
    <3>8. QED
      BY <3>2, <3>4, <3>5, <3>6, <3>7 DEF Write
  <2>4. QED
    BY <2>2, <2>3
<1> DEFINE G == [n \in 0..N |-> Rsm(n)]
<1>6. G = [n \in 0..N |-> Step(G, n)]
  <2> SUFFICES ASSUME NEW n \in 0..N PROVE Rsm(n) = Step(G, n)
    OBVIOUS
  <2>1. CASE n = 0
    BY <1>4, <2>1
  <2>2. CASE n # 0
    <3>1. n \in 1..N /\ n - 1 \in 0..N
      BY <2>2
    <3>2. G[n - 1] = Rsm(n - 1)
      BY <3>1
    <3>3. Rsm(n) = Write(Rsm(n - 1), LastApplied + n)
      BY <1>5, <3>1
    <3> HIDE DEF G, Rsm
    <3>4. QED
      BY <2>2, <3>2, <3>3
  <2>3. QED
    BY <2>1, <2>2
<1>7. ASSUME NEW f, f = [n \in 0..N |-> Step(f, n)]
      PROVE  \A n \in 0..N : f[n] = Rsm(n)
  <2> DEFINE Wrong == {n \in 0..N : f[n] # Rsm(n)}
  <2>1. \A n \in 0..N : f[n] = Step(f, n)
    BY <1>7
  <2> SUFFICES ASSUME Wrong # {} PROVE FALSE
    OBVIOUS
  <2>2. PICK x \in Wrong : \A y \in Wrong : x <= y
    <3>1. Wrong \subseteq Nat
      OBVIOUS
    <3> HIDE DEF Wrong
    <3>2. QED
      BY <3>1, LeastNumber
  <2>3. x \in 0..N /\ f[x] # Rsm(x) /\ f[x] = Step(f, x)
    BY <2>1
  <2>4. CASE x = 0
    BY <1>4, <2>3, <2>4
  <2>5. CASE x # 0
    <3>1. x \in 1..N /\ x - 1 \in 0..N /\ ~ (x <= x - 1)
      BY <2>3, <2>5
    <3>2. x - 1 \notin Wrong
      BY <2>2, <3>1
    <3>3. f[x - 1] = Rsm(x - 1)
      BY <3>1, <3>2
    <3>4. Rsm(x) = Write(Rsm(x - 1), LastApplied + x)
      BY <1>5, <3>1
    <3> HIDE DEF Rsm, Wrong
    <3>5. f[x] = Write(f[x - 1], LastApplied + x)
      BY <2>3, <2>5
    <3>6. QED
      BY <2>3, <3>3, <3>4, <3>5
  <2>6. QED
    BY <2>4, <2>5
<1> HIDE DEF Step
<1>8. PICK f : f = [n \in 0..N |-> Step(f, n)] /\ WriteCommitted(commit) = f[N]
  <2> DEFINE F == CHOOSE f : f = [n \in 0..N |-> Step(f, n)]
  <2>1. F = [n \in 0..N |-> Step(F, n)]
    <3>1. \E f : f = [n \in 0..N |-> Step(f, n)]
      BY <1>6
    <3> HIDE DEF G
    <3>2. QED
      BY <3>1
  <2>2. WriteCommitted(commit) = F[N]
    BY <1>2 DEF WriteCommitted, Step
  <2> HIDE DEF F
  <2>3. QED
    BY <2>1, <2>2
<1>9. f[N] = Rsm(N)
  <2>1. N \in 0..N
    OBVIOUS
  <2> HIDE DEF Rsm
  <2>2. QED
    BY <1>7, <1>8, <2>1
<1>10. Reached(N) = commit
  BY <1>1, <1>2
<1> HIDE DEF Reached
<1>11. QED
  BY <1>8, <1>9, <1>10

\* What a client holds; a read waits for the index at which its command was taken.
Client == {Idle, Gone} \cup Sent \cup Waits
Answer == [keys : SUBSET Keys, map : Maps, since : Nat]

ReadsWait ==
    \A c \in Clients :
        client[c].state = "waits" /\ ~IsWrite(client[c].cmd) =>
            client[c].Index = client[c].since

\* What an answer shows is the map of an applied part of the log, at least as long as
\* the log when the command was taken.
Shows(a, l, applied) == \E n \in a.since..applied : a.map = MapOf(l, n, a.keys)

KvInv ==
    /\ TypeOK
    /\ H = MapOf(Log, LastAppliedIndex, Keys)
    /\ ReadsWait
    /\ answer \in [Clients -> Answer]
    /\ \A c \in Clients : Shows(answer[c], Log, LastAppliedIndex)

LEMMA MapsOfLog ==
  \A n, keys : MapAt(n, keys) = MapOf(Log, n, keys)
<1>1. \A n, k : LastEntry(k, n) = LastOf(Log, k, n)
  BY DEF LastEntry, LastOf, LastOn, On
<1>2. QED
  BY <1>1 DEF MapAt, MapOf

LEMMA EmptyMap ==
  ASSUME NEW l, NEW keys
  PROVE  MapOf(l, 0, keys) = <<>> /\ <<>> \in Maps
<1>1. \A k : LastOf(l, k, 0) = NoValue
  BY DEF LastOf, On
<1>2. {x \in keys : LastOf(l, x, 0) # NoValue} = {}
  BY <1>1
<1>3. MapOf(l, 0, keys) = [k \in {} |-> LastOf(l, k, 0)]
  BY <1>2 DEF MapOf
<1>4. <<>> \in [{} -> Values]
  OBVIOUS
<1>5. {} \in SUBSET Keys
  OBVIOUS
<1>6. QED
  BY <1>3, <1>4, <1>5 DEF Maps

LEMMA ClientStates ==
  ASSUME NEW x \in Client
  PROVE  /\ x.state = "waits" => x \in Waits
         /\ x.state = "sent" => x \in Sent
  BY DEF Client, Idle, Gone, Sent, Waits

\* An answer stays right as the log grows and as more of it is applied.
LEMMA ShownStays ==
  ASSUME NEW l \in Seq(Entry), NEW applied \in 0..Len(l), NEW a \in Answer,
         Shows(a, l, applied),
         NEW e, NEW l2 \in {l, Append(l, e)}, NEW further \in applied..Len(l)
  PROVE  Shows(a, l2, further)
<1>1. a.since \in Nat
  BY DEF Answer
<1>2. PICK n \in a.since..applied : a.map = MapOf(l, n, a.keys)
  BY DEF Shows
<1>3. n \in 0..Len(l) /\ n \in a.since..further
  BY <1>1
<1>4. MapOf(l2, n, a.keys) = MapOf(l, n, a.keys)
  <2>1. MapOf(Append(l, e), n, a.keys) = MapOf(l, n, a.keys)
    BY <1>3, MapOfPrefix
  <2>2. QED
    BY <2>1
<1>5. QED
  BY <1>2, <1>3, <1>4 DEF Shows

LEMMA KvInit == Init => KvInv
<1> SUFFICES ASSUME Init PROVE KvInv
  OBVIOUS
<1>1. /\ Log = <<>> /\ CommitIndex = 0 /\ LastApplied = 0
      /\ LastAppliedIndex = 0 /\ H = <<>>
      /\ client = [c \in Clients |-> Idle]
      /\ answer = [c \in Clients |-> NoAnswer]
  BY DEF Init
<1>2. TypeOK
  <2>1. H \in Maps
    BY <1>1, EmptyMap
  <2>2. client \in [Clients -> {Idle, Gone} \cup Sent \cup Waits]
    BY <1>1
  <2>3. Log \in Seq(Entry) /\ Len(Log) = 0
    BY <1>1
  <2>4. QED
    BY <1>1, <2>1, <2>2, <2>3 DEF TypeOK
<1>3. H = MapOf(Log, LastAppliedIndex, Keys)
  BY <1>1, EmptyMap
<1>4. ReadsWait
  BY <1>1 DEF ReadsWait, Idle
<1>5. NoAnswer \in Answer
  BY EmptyMap DEF NoAnswer, Answer
<1>6. answer \in [Clients -> Answer]
  BY <1>1, <1>5
<1>7. ASSUME NEW c \in Clients PROVE Shows(answer[c], Log, LastAppliedIndex)
  <2>1. answer[c] = NoAnswer
    BY <1>1
  <2>2. NoAnswer.since = 0 /\ NoAnswer.map = <<>> /\ NoAnswer.keys = {}
    BY DEF NoAnswer
  <2>3. NoAnswer.map = MapOf(Log, 0, NoAnswer.keys)
    BY <2>2, EmptyMap
  <2>4. 0 \in NoAnswer.since..LastAppliedIndex
    BY <1>1, <2>2
  <2>5. QED
    BY <2>1, <2>3, <2>4 DEF Shows
<1>8. QED
  BY <1>2, <1>3, <1>4, <1>6, <1>7 DEF KvInv

LEMMA KvFacts ==
  KvInv => /\ Log \in Seq(Entry) /\ Len(Log) \in Nat /\ CommitIndex \in Nat
           /\ CommitIndex <= Len(Log) /\ LastAppliedIndex = CommitIndex
           /\ client \in [Clients -> Client] /\ answer \in [Clients -> Answer]
  BY DEF KvInv, TypeOK, Client

\* A client takes its next line: it forgets its answer and does not wait yet.
LEMMA KvLine ==
  ASSUME KvInv, NEW c \in Clients, NEW x \in {Gone} \cup Sent,
         client' = [client EXCEPT ![c] = x],
         answer' = [answer EXCEPT ![c] = NoAnswer],
         UNCHANGED serverVars
  PROVE  KvInv'
<1>1. UNCHANGED <<Log, CommitIndex, LastApplied, LastAppliedIndex, H>>
  BY DEF serverVars
<1>2. x.state # "waits"
  BY DEF Gone, Sent
<1>3. client' \in [Clients -> {Idle, Gone} \cup Sent \cup Waits]
  BY KvFacts DEF Client
<1>4. TypeOK'
  BY <1>1, <1>3 DEF KvInv, TypeOK
<1>5. ReadsWait'
  <2> SUFFICES ASSUME NEW d \in Clients, client'[d].state = "waits", ~IsWrite(client'[d].cmd)
               PROVE  client'[d].Index = client'[d].since
    BY DEF ReadsWait
  <2>1. d # c /\ client'[d] = client[d]
    BY <1>2, KvFacts
  <2>2. QED
    BY <2>1 DEF KvInv, ReadsWait
<1>6. NoAnswer \in Answer
  BY EmptyMap DEF NoAnswer, Answer
<1>7. answer' \in [Clients -> Answer]
  BY <1>1, <1>6, KvFacts
<1>8. ASSUME NEW d \in Clients PROVE Shows(answer'[d], Log, LastAppliedIndex)
  <2>1. CASE d = c
    <3>1. answer'[d] = NoAnswer
      BY <1>1, <2>1, KvFacts
    <3>2. NoAnswer.since = 0 /\ NoAnswer.map = <<>> /\ NoAnswer.keys = {}
      BY DEF NoAnswer
    <3>3. NoAnswer.map = MapOf(Log, 0, NoAnswer.keys)
      BY <3>2, EmptyMap
    <3>4. 0 \in NoAnswer.since..LastAppliedIndex
      BY <3>2, KvFacts
    <3>5. QED
      BY <3>1, <3>3, <3>4 DEF Shows
  <2>2. CASE d # c
    BY <1>1, <2>2, KvFacts DEF KvInv
  <2>3. QED
    BY <2>1, <2>2
<1>9. QED
  BY <1>1, <1>4, <1>5, <1>7, <1>8 DEF KvInv

LEMMA KvRequest ==
  ASSUME KvInv, NEW c \in Clients, OnCommandRequest(c)
  PROVE  KvInv'
<1>1. client[c] \in Sent
  BY KvFacts, ClientStates DEF OnCommandRequest
<1>2. PICK cmd \in Entry \cup Read : cmd = client[c].cmd
  BY <1>1 DEF Sent
<1>3. /\ Log' = IF IsWrite(cmd) THEN Append(Log, cmd) ELSE Log
      /\ client' = [client EXCEPT ![c] = [state |-> "waits", cmd |-> cmd,
                      since |-> Len(Log'), Index |-> CurrentIndex(cmd)]]
      /\ UNCHANGED <<CommitIndex, LastApplied, LastAppliedIndex, H, answer>>
  BY <1>2 DEF OnCommandRequest
<1>4. Log' \in {Log, Append(Log, cmd)}
  BY <1>3
<1>5. Log' \in Seq(Entry) /\ Len(Log) <= Len(Log') /\ Len(Log') \in Nat
  <2>1. CASE IsWrite(cmd)
    BY <1>3, <2>1, KvFacts DEF IsWrite
  <2>2. CASE ~IsWrite(cmd)
    BY <1>3, <2>2, KvFacts
  <2>3. QED
    BY <2>1, <2>2
<1>6. CurrentIndex(cmd) \in Nat /\ (~IsWrite(cmd) => CurrentIndex(cmd) = Len(Log'))
  BY <1>3, KvFacts DEF CurrentIndex
<1>7. [state |-> "waits", cmd |-> cmd, since |-> Len(Log'), Index |-> CurrentIndex(cmd)]
        \in Waits
  BY <1>5, <1>6 DEF Waits
<1>8. client' \in [Clients -> {Idle, Gone} \cup Sent \cup Waits]
  BY <1>3, <1>7, KvFacts DEF Client
<1>9. TypeOK'
  <2>1. CommitIndex' \in 0..Len(Log')
    BY <1>3, <1>5, KvFacts
  <2>2. LastApplied' \in {0, CommitIndex'} /\ LastAppliedIndex' = CommitIndex' /\ H' \in Maps
    BY <1>3 DEF KvInv, TypeOK
  <2>3. QED
    BY <1>5, <1>8, <2>1, <2>2 DEF TypeOK
<1>10. H' = MapOf(Log', LastAppliedIndex', Keys)
  <2>1. LastAppliedIndex \in 0..Len(Log) /\ H = MapOf(Log, LastAppliedIndex, Keys)
    BY KvFacts DEF KvInv
  <2>2. MapOf(Append(Log, cmd), LastAppliedIndex, Keys) = MapOf(Log, LastAppliedIndex, Keys)
    BY <2>1, KvFacts, MapOfPrefix
  <2>3. QED
    BY <1>3, <1>4, <2>1, <2>2
<1>11. ReadsWait'
  <2> SUFFICES ASSUME NEW d \in Clients, client'[d].state = "waits", ~IsWrite(client'[d].cmd)
               PROVE  client'[d].Index = client'[d].since
    BY DEF ReadsWait
  <2>1. CASE d = c
    <3>1. client'[d] = [state |-> "waits", cmd |-> cmd, since |-> Len(Log'),
                        Index |-> CurrentIndex(cmd)]
      BY <1>3, <2>1, KvFacts
    <3>2. /\ client'[d].cmd = cmd /\ client'[d].since = Len(Log')
          /\ client'[d].Index = CurrentIndex(cmd)
      BY <3>1
    <3>3. QED
      BY <1>6, <3>2
  <2>2. CASE d # c
    <3>1. client'[d] = client[d]
      BY <1>3, <2>2, KvFacts
    <3>2. QED
      BY <3>1 DEF KvInv, ReadsWait
  <2>3. QED
    BY <2>1, <2>2
<1>12. ASSUME NEW d \in Clients PROVE Shows(answer[d], Log', LastAppliedIndex)
  <2>1. /\ LastAppliedIndex \in 0..Len(Log) /\ LastAppliedIndex \in LastAppliedIndex..Len(Log)
        /\ answer[d] \in Answer /\ Shows(answer[d], Log, LastAppliedIndex)
    BY KvFacts DEF KvInv
  <2>2. QED
    BY <1>4, <2>1, KvFacts, ShownStays
<1>13. QED
  BY <1>3, <1>9, <1>10, <1>11, <1>12, KvFacts DEF KvInv

LEMMA KvTick ==
  ASSUME KvInv, NEW commit \in CommitIndex..Len(Log), Tick(commit)
  PROVE  KvInv'
<1> DEFINE Ready(d) == client[d].state = "waits" /\ client[d].Index <= commit
<1>1. WriteCommitted(commit) = [map |-> MapOf(Log, commit, Keys), last |-> commit]
  BY CommittedIsWritten DEF KvInv
<1>2. /\ CommitIndex' = commit /\ LastApplied' = commit
      /\ H' = MapOf(Log, commit, Keys) /\ LastAppliedIndex' = commit
      /\ Log' = Log
  BY <1>1 DEF Tick
<1>3. /\ client' = [d \in Clients |-> IF Ready(d) THEN Idle ELSE client[d]]
      /\ answer' = [d \in Clients |->
            IF Ready(d) /\ ~IsWrite(client[d].cmd)
            THEN [keys |-> client[d].cmd.keys,
                  map |-> ReadFrom(MapOf(Log, commit, Keys), client[d].cmd),
                  since |-> client[d].since]
            ELSE answer[d]]
  BY <1>1 DEF Tick
<1>4. commit \in 0..Len(Log) /\ commit \in LastAppliedIndex..Len(Log) /\ commit \in Nat
  BY KvFacts
<1>5. client' \in [Clients -> {Idle, Gone} \cup Sent \cup Waits]
  BY <1>3, KvFacts DEF Client
<1>6. H' \in Maps
  BY <1>2, <1>4, KvFacts, MapOfType
<1>7. TypeOK'
  BY <1>2, <1>4, <1>5, <1>6, KvFacts DEF TypeOK
<1>8. ReadsWait'
  <2> SUFFICES ASSUME NEW d \in Clients, client'[d].state = "waits", ~IsWrite(client'[d].cmd)
               PROVE  client'[d].Index = client'[d].since
    BY DEF ReadsWait
  <2>1. client'[d] = client[d]
    BY <1>3 DEF Idle
  <2>2. QED
    BY <2>1 DEF KvInv, ReadsWait
<1>9. ASSUME NEW d \in Clients
      PROVE  answer'[d] \in Answer /\ Shows(answer'[d], Log, commit)
  <2>1. CASE Ready(d) /\ ~IsWrite(client[d].cmd)
    <3>1. client[d] \in Waits
      BY <2>1, KvFacts, ClientStates
    <3>2. PICK cmd \in Read : cmd = client[d].cmd
      BY <2>1, <3>1 DEF Waits, IsWrite
    <3>3. PICK since \in Nat : since = client[d].since /\ since <= commit
      <4>1. client[d].Index = client[d].since /\ client[d].since \in Nat
        BY <2>1, <3>1 DEF KvInv, ReadsWait, Waits
      <4>2. QED
        BY <2>1, <4>1
    <3>4. cmd.keys \in SUBSET Keys
      BY DEF Read
    <3>5. answer'[d] = [keys |-> cmd.keys, map |-> MapOf(Log, commit, cmd.keys), since |-> since]
      BY <1>3, <2>1, <3>2, <3>3, ReadFromMap
    <3>6. MapOf(Log, commit, cmd.keys) \in Maps
      BY <1>4, <3>4, KvFacts, MapOfType
    <3>7. answer'[d] \in Answer
      BY <3>4, <3>5, <3>6 DEF Answer
    <3>8. /\ answer'[d].since = since /\ answer'[d].keys = cmd.keys
          /\ answer'[d].map = MapOf(Log, commit, cmd.keys)
      BY <3>5
    <3>9. commit \in since..commit
      BY <1>4, <3>3
    <3>10. QED
      BY <3>7, <3>8, <3>9 DEF Shows
  <2>2. CASE ~ (Ready(d) /\ ~IsWrite(client[d].cmd))
    <3>1. answer'[d] = answer[d]
      BY <1>3, <2>2
    <3>2. /\ LastAppliedIndex \in 0..Len(Log) /\ answer[d] \in Answer
          /\ Shows(answer[d], Log, LastAppliedIndex)
      BY KvFacts DEF KvInv
    <3>3. Shows(answer[d], Log, commit)
      <4>1. answer[d].since \in Nat
        BY <3>2 DEF Answer
      <4>2. answer[d].since..LastAppliedIndex \subseteq answer[d].since..commit
        BY <1>4, <4>1, KvFacts
      <4>3. QED
        BY <3>2, <4>2 DEF Shows
    <3>4. QED
      BY <3>1, <3>2, <3>3
  <2>3. QED
    BY <2>1, <2>2
<1>10. answer' \in [Clients -> Answer]
  <2>1. answer' = [d \in Clients |-> answer'[d]]
    BY <1>3
  <2>2. QED
    BY <1>9, <2>1
<1>11. QED
  BY <1>2, <1>7, <1>8, <1>9, <1>10 DEF KvInv

LEMMA KvStep == KvInv /\ [Next]_vars => KvInv'
<1> SUFFICES ASSUME KvInv, [Next]_vars PROVE KvInv'
  OBVIOUS
<1>1. CASE UNCHANGED vars
  BY <1>1 DEF KvInv, TypeOK, ReadsWait, vars, serverVars
<1>2. ASSUME NEW c \in Clients, NEW cmd \in Entry \cup Read, Send(c, cmd) PROVE KvInv'
  BY <1>2, KvLine DEF Send, Sent
<1>3. ASSUME NEW c \in Clients, OnCommandRequest(c) PROVE KvInv'
  BY <1>3, KvRequest
<1>4. ASSUME NEW commit \in CommitIndex..Len(Log), Tick(commit) PROVE KvInv'
  BY <1>4, KvTick
<1>5. CASE Elected
  <2>1. /\ LastApplied' = 0
        /\ UNCHANGED <<Log, CommitIndex, LastAppliedIndex, H, client, answer>>
    BY <1>5 DEF Elected
  <2>2. TypeOK'
    BY <2>1 DEF KvInv, TypeOK
  <2>3. QED
    BY <2>1, <2>2 DEF KvInv, ReadsWait
<1>6. ASSUME NEW c \in Clients, SendUnknown(c) PROVE KvInv'
  BY <1>6, KvLine DEF SendUnknown
<1>7. QED
  BY <1>1, <1>2, <1>3, <1>4, <1>5, <1>6 DEF Next

LEMMA KvAlways == SequentialSpec => []KvInv
<1>1. SequentialInit => KvInv
  BY KvInit DEF SequentialInit
<1>2. [SequentialNext]_<<part, vars, loopVars, windowVars, mainVars>> => [Next]_vars
  BY DEF SequentialNext, kvVars
<1>3. QED
  BY <1>1, <1>2, KvStep, PTL DEF SequentialSpec

\* The state of the store and of its clients is of its type: in particular CommitIndex is
\* inside the log and the applied index is the committed one, also after an election.
THEOREM StoreTypeCorrect == SequentialSpec => []TypeOK
<1>1. KvInv => TypeOK
  BY DEF KvInv
<1>2. QED
  BY <1>1, KvAlways, PTL

\* For any logs: the map is that of the applied log, however often an election makes the
\* server apply it again from the start.
THEOREM StoreIsItsLog == SequentialSpec => []MapIsLog
<1>1. KvInv => MapIsLog
  BY MapsOfLog DEF KvInv, MapIsLog
<1>2. QED
  BY <1>1, KvAlways, PTL

\* For any clients: a read shows every write that the server had taken before it.
THEOREM ReadersSeeWhatWasTaken == SequentialSpec => []ReadsWhatWasTaken
<1>1. KvInv => ReadsWhatWasTaken
  BY MapsOfLog DEF KvInv, ReadsWhatWasTaken, Shows
<1>2. QED
  BY <1>1, KvAlways, PTL

-----------------------------------------------------------------------------
(* The percentiles of a sliding window                                       *)

\* How many elements of a sequence are in V.
Places(s, V) == {j \in 1..Len(s) : s[j] \in V}
Count(s, V) == Cardinality(Places(s, V))

LEMMA CountType ==
  ASSUME NEW s, Len(s) \in Nat, NEW V
  PROVE  IsFiniteSet(Places(s, V)) /\ Count(s, V) \in Nat
<1>1. Places(s, V) \subseteq 1..Len(s)
  BY DEF Places
<1>2. IsFiniteSet(1..Len(s))
  BY CountUpTo
<1>3. IsFiniteSet(Places(s, V))
  BY <1>1, <1>2, FS_Subset
<1>4. QED
  BY <1>3, FS_CardinalityType DEF Count

LEMMA CountConcat ==
  ASSUME NEW r \in Seq(Nat), NEW s \in Seq(Nat), NEW V
  PROVE  Count(r \o s, V) = Count(r, V) + Count(s, V)
<1> DEFINE A == Places(r, V)
           B == Places(s, V)
           C == {j \in Len(r) + 1 .. Len(r) + Len(s) : s[j - Len(r)] \in V}
           f == [j \in B |-> Len(r) + j]
<1>1. Len(r) \in Nat /\ Len(s) \in Nat /\ Len(r \o s) = Len(r) + Len(s)
  OBVIOUS
<1>2. \A j \in 1..Len(r) : (r \o s)[j] = r[j]
  OBVIOUS
<1>3. \A j \in Len(r) + 1 .. Len(r) + Len(s) : (r \o s)[j] = s[j - Len(r)]
  OBVIOUS
<1>4. Places(r \o s, V) = A \cup C
  <2>1. 1..Len(r \o s) = (1..Len(r)) \cup (Len(r) + 1 .. Len(r) + Len(s))
    BY <1>1
  <2>2. QED
    BY <1>2, <1>3, <2>1 DEF Places
<1>5. A \cap C = {}
  BY <1>1 DEF Places
<1>6. IsFiniteSet(A) /\ IsFiniteSet(B)
  BY <1>1, CountType
<1>7. f \in Bijection(B, C)
  <2>1. f \in [B -> C]
    <3> SUFFICES ASSUME NEW j \in B PROVE Len(r) + j \in C
      OBVIOUS
    <3>1. j \in 1..Len(s) /\ s[j] \in V
      BY DEF Places
    <3>2. Len(r) + j \in Len(r) + 1 .. Len(r) + Len(s) /\ (Len(r) + j) - Len(r) = j
      BY <1>1, <3>1
    <3>3. QED
      BY <3>1, <3>2
  <2>2. \A a, b \in B : f[a] = f[b] => a = b
    BY <1>1 DEF Places
  <2>3. \A c \in C : \E j \in B : f[j] = c
    <3> SUFFICES ASSUME NEW c \in C PROVE \E j \in B : Len(r) + j = c
      OBVIOUS
    <3>1. c - Len(r) \in B /\ Len(r) + (c - Len(r)) = c
      BY <1>1 DEF Places
    <3>2. QED
      BY <3>1
  <2> HIDE DEF B, C, f
  <2>4. QED
    BY <2>1, <2>2, <2>3 DEF Bijection, Injection, IsInjective, Surjection
<1> HIDE DEF A, B, C, f
<1>8. IsFiniteSet(C) /\ Cardinality(C) = Cardinality(B)
  BY <1>6, <1>7, FS_Bijection DEF ExistsBijection
<1>9. Cardinality(A \cup C) = Cardinality(A) + Cardinality(C)
  <2>1. Cardinality(A \cap C) = 0
    BY <1>5, FS_EmptySet
  <2>2. Cardinality(A) \in Nat /\ Cardinality(C) \in Nat
    BY <1>6, <1>8, FS_CardinalityType
  <2>3. Cardinality(A \cup C) = Cardinality(A) + Cardinality(C) - Cardinality(A \cap C)
    BY <1>6, <1>8, FS_Union
  <2>4. QED
    BY <2>1, <2>2, <2>3
<1>10. QED
  BY <1>4, <1>8, <1>9 DEF Count, A, B

LEMMA CountOne ==
  ASSUME NEW e \in Nat, NEW V
  PROVE  Count(<<e>>, V) = IF e \in V THEN 1 ELSE 0
<1>1. 1..Len(<<e>>) = {1} /\ <<e>>[1] = e
  OBVIOUS
<1>2. Places(<<e>>, V) = IF e \in V THEN {1} ELSE {}
  BY <1>1 DEF Places
<1>3. Cardinality({1}) = 1 /\ Cardinality({}) = 0
  BY FS_Singleton, FS_EmptySet
<1>4. QED
  BY <1>2, <1>3 DEF Count

\* An element more, wherever it stands.
LEMMA CountInside ==
  ASSUME NEW r \in Seq(Nat), NEW e \in Nat, NEW s \in Seq(Nat), NEW V
  PROVE  Count(r \o <<e>> \o s, V) = Count(r \o s, V) + IF e \in V THEN 1 ELSE 0
<1>1. <<e>> \in Seq(Nat) /\ r \o <<e>> \in Seq(Nat)
  OBVIOUS
<1>2. Count(r \o <<e>>, V) = Count(r, V) + Count(<<e>>, V)
  BY <1>1, CountConcat
<1>3. Count(r \o <<e>> \o s, V) = Count(r \o <<e>>, V) + Count(s, V)
  BY <1>1, CountConcat
<1>4. Count(r \o s, V) = Count(r, V) + Count(s, V)
  BY CountConcat
<1>5. Count(r, V) \in Nat /\ Count(s, V) \in Nat
  <2>1. Len(r) \in Nat /\ Len(s) \in Nat
    OBVIOUS
  <2>2. QED
    BY <2>1, CountType
<1>6. QED
  BY <1>2, <1>3, <1>4, <1>5, CountOne

\* What the end and the front of the queue count.
LEMMA CountQueue ==
  ASSUME NEW q \in Seq(Nat), NEW e \in Nat, NEW V
  PROVE  /\ Count(Append(q, e), V) = Count(q, V) + IF e \in V THEN 1 ELSE 0
         /\ q # <<>> => Count(q, V) = Count(Tail(q), V) + IF Head(q) \in V THEN 1 ELSE 0
<1>1. Count(Append(q, e), V) = Count(q, V) + IF e \in V THEN 1 ELSE 0
  <2>1. Append(q, e) = q \o <<e>> /\ <<e>> \in Seq(Nat)
    OBVIOUS
  <2>2. Count(q \o <<e>>, V) = Count(q, V) + Count(<<e>>, V)
    BY <2>1, CountConcat
  <2>3. Count(<<e>>, V) = IF e \in V THEN 1 ELSE 0
    BY CountOne
  <2>4. QED
    BY <2>1, <2>2, <2>3, Zenon
<1>2. ASSUME q # <<>>
      PROVE  Count(q, V) = Count(Tail(q), V) + IF Head(q) \in V THEN 1 ELSE 0
  <2>1. Head(q) \in Nat /\ Tail(q) \in Seq(Nat) /\ <<Head(q)>> \in Seq(Nat)
    BY <1>2
  <2>2. q = <<Head(q)>> \o Tail(q)
    BY <1>2
  <2>3. Count(<<Head(q)>> \o Tail(q), V) = Count(<<Head(q)>>, V) + Count(Tail(q), V)
    BY <2>1, CountConcat
  <2>4. Count(<<Head(q)>>, V) = IF Head(q) \in V THEN 1 ELSE 0
    BY <2>1, CountOne
  <2>5. Count(Tail(q), V) \in Nat
    <3>1. Len(Tail(q)) \in Nat
      BY <2>1
    <3>2. QED
      BY <3>1, CountType
  <2>6. Count(q, V) = (IF Head(q) \in V THEN 1 ELSE 0) + Count(Tail(q), V)
    BY <2>2, <2>3, <2>4, Zenon
  <2>7. QED
    BY <2>5, <2>6
<1>3. QED
  BY <1>1, <1>2

\* find and erase take out one element of that value.
LEMMA EraseNumber ==
  ASSUME NEW s \in Seq(Nat), InNumberOrder(s, Len(s)), NEW h \in Nat, Count(s, {h}) # 0
  PROVE  /\ Window!Erased(s, h) \in Seq(Nat)
         /\ InNumberOrder(Window!Erased(s, h), Len(Window!Erased(s, h)))
         /\ \A V : Count(s, V) = Count(Window!Erased(s, h), V) + IF h \in V THEN 1 ELSE 0
<1>1. \E x \in 1..Len(s) : s[x] = h
  <2>1. Places(s, {h}) # {}
    BY FS_EmptySet DEF Count
  <2>2. QED
    BY <2>1 DEF Places
<1>2. PICK m \in 1..Len(s) : s[m] = h /\ Window!Erased(s, h) = Window!RemoveAt(s, m)
  BY <1>1 DEF Window!Erased
<1>3. PICK n \in Nat : n = Len(s) /\ m \in 1..n /\ m \in Nat
  BY <1>2
<1>4. PICK r \in Seq(Nat), t \in Seq(Nat) : r = SubSeq(s, 1, m - 1) /\ t = SubSeq(s, m + 1, Len(s))
  <2>1. \A a, b \in Nat : 1 <= a /\ b <= Len(s) => SubSeq(s, a, b) \in Seq(Nat)
    OBVIOUS
  <2>2. m - 1 \in Nat /\ m + 1 \in Nat /\ Len(s) \in Nat /\ m - 1 <= Len(s) /\ 1 <= m + 1
    BY <1>3
  <2>3. SubSeq(s, 1, m - 1) \in Seq(Nat) /\ SubSeq(s, m + 1, Len(s)) \in Seq(Nat)
    BY <2>1, <2>2
  <2>4. QED
    BY <2>3
<1>5. /\ Len(r) = m - 1 /\ \A j \in 1..(m - 1) : r[j] = s[j]
      /\ Len(t) = n - m /\ \A j \in 1..(n - m) : t[j] = s[m + j]
  <2>1. /\ m \in Int /\ n \in Int /\ 1 \in Int /\ m - 1 \in Int /\ m + 1 \in Int
        /\ \A j \in 1..(m - 1) : s[j] \in Nat
        /\ \A j \in (m + 1)..n : s[j] \in Nat
    BY <1>3
  <2>2. /\ Len(r) = IF 1 <= m - 1 THEN (m - 1) - 1 + 1 ELSE 0
        /\ \A j \in 1..((m - 1) - 1 + 1) : r[j] = s[1 + j - 1]
    BY <1>4, <2>1, SubSeqProperties
  <2>3. /\ Len(t) = IF m + 1 <= n THEN n - (m + 1) + 1 ELSE 0
        /\ \A j \in 1..(n - (m + 1) + 1) : t[j] = s[(m + 1) + j - 1]
    BY <1>3, <1>4, <2>1, SubSeqProperties
  <2>4. (m - 1) - 1 + 1 = m - 1 /\ n - (m + 1) + 1 = n - m
    BY <1>3
  <2>5. Len(r) = m - 1 /\ Len(t) = n - m
    BY <1>3, <2>2, <2>3
  <2>6. \A j \in 1..(m - 1) : 1 + j - 1 = j
    BY <1>3
  <2>7. \A j \in 1..(n - m) : (m + 1) + j - 1 = m + j
    BY <1>3
  <2>8. QED
    BY <2>2, <2>3, <2>4, <2>5, <2>6, <2>7
<1>6. s = r \o <<h>> \o t
  <2>1. /\ r \o <<h>> \in Seq(Nat) /\ Len(r \o <<h>>) = m /\ (r \o <<h>>)[m] = h
        /\ \A j \in 1..(m - 1) : (r \o <<h>>)[j] = r[j]
    <3>1. Append(r, h) = r \o <<h>>
      OBVIOUS
    <3>2. /\ Append(r, h) \in Seq(Nat) /\ Len(Append(r, h)) = Len(r) + 1
          /\ \A j \in 1..Len(r) : Append(r, h)[j] = r[j]
          /\ Append(r, h)[Len(r) + 1] = h
      BY AppendProperties
    <3>3. Len(r) = m - 1 /\ (m - 1) + 1 = m
      BY <1>3, <1>5
    <3>4. QED
      BY <3>1, <3>2, <3>3
  <2>2. /\ (r \o <<h>>) \o t \in Seq(Nat) /\ Len((r \o <<h>>) \o t) = m + (n - m)
        /\ \A j \in 1..(m + (n - m)) : ((r \o <<h>>) \o t)[j]
               = IF j <= m THEN (r \o <<h>>)[j] ELSE t[j - m]
    <3> DEFINE q == r \o <<h>>
    <3>1. q \in Seq(Nat) /\ Len(q) = m /\ Len(t) = n - m
      BY <1>5, <2>1
    <3> HIDE DEF q
    <3>2. /\ q \o t \in Seq(Nat) /\ Len(q \o t) = Len(q) + Len(t)
          /\ \A j \in 1..(Len(q) + Len(t)) : (q \o t)[j]
                 = IF j <= Len(q) THEN q[j] ELSE t[j - Len(q)]
      BY <3>1, ConcatProperties, Zenon
    <3>3. /\ q \o t \in Seq(Nat) /\ Len(q \o t) = m + (n - m)
          /\ \A j \in 1..(m + (n - m)) : (q \o t)[j] = IF j <= m THEN q[j] ELSE t[j - m]
      BY <3>1, <3>2, Zenon
    <3>4. QED
      BY <3>3 DEF q
  <2>3. m + (n - m) = n
    BY <1>3
  <2>4. ASSUME NEW j \in 1..Len(s) PROVE s[j] = ((r \o <<h>>) \o t)[j]
    <3>1. j \in 1..n
      BY <1>3
    <3>2. CASE j < m
      <4>1. j \in 1..(m - 1) /\ j <= m
        BY <1>3, <3>1, <3>2
      <4>2. QED
        BY <1>5, <2>1, <2>2, <2>3, <3>1, <4>1
    <3>3. CASE j = m
      BY <1>2, <1>3, <2>1, <2>2, <2>3, <3>3
    <3>4. CASE j > m
      <4>1. j - m \in 1..(n - m) /\ m + (j - m) = j /\ ~ (j <= m)
        BY <1>3, <3>1, <3>4
      <4>2. QED
        BY <1>5, <2>2, <2>3, <3>1, <4>1
    <3>5. j < m \/ j = m \/ j > m
      BY <1>3, <3>1
    <3>6. QED
      BY <3>2, <3>3, <3>4, <3>5
  <2>5. Len((r \o <<h>>) \o t) = Len(s)
    BY <1>3, <2>2, <2>3
  <2>6. QED
    BY <2>2, <2>4, <2>5, SeqEqual
<1>7. Window!Erased(s, h) = r \o t
  BY <1>2, <1>4 DEF Window!RemoveAt
<1>8. /\ r \o t \in Seq(Nat) /\ Len(r \o t) = n - 1
      /\ \A j \in 1..(n - 1) : (r \o t)[j] = IF j < m THEN s[j] ELSE s[j + 1]
  <2>1. /\ r \o t \in Seq(Nat) /\ Len(r \o t) = (m - 1) + (n - m)
        /\ \A j \in 1..((m - 1) + (n - m)) : (r \o t)[j]
               = IF j <= m - 1 THEN r[j] ELSE t[j - (m - 1)]
    <3>1. /\ r \o t \in Seq(Nat) /\ Len(r \o t) = Len(r) + Len(t)
          /\ \A j \in 1..(Len(r) + Len(t)) : (r \o t)[j]
                 = IF j <= Len(r) THEN r[j] ELSE t[j - Len(r)]
      BY ConcatProperties, Zenon
    <3>2. QED
      BY <1>5, <3>1, Zenon
  <2>2. (m - 1) + (n - m) = n - 1
    BY <1>3
  <2>3. ASSUME NEW j \in 1..(n - 1) PROVE (r \o t)[j] = IF j < m THEN s[j] ELSE s[j + 1]
    <3>1. CASE j < m
      <4>1. j \in 1..(m - 1) /\ j <= m - 1
        BY <1>3, <3>1
      <4>2. QED
        BY <1>5, <2>1, <2>2, <3>1, <4>1
    <3>2. CASE ~ (j < m)
      <4>1. /\ j - (m - 1) \in 1..(n - m) /\ m + (j - (m - 1)) = j + 1
            /\ ~ (j <= m - 1)
        BY <1>3, <3>2
      <4>2. QED
        BY <1>5, <2>1, <2>2, <3>2, <4>1
    <3>3. QED
      BY <3>1, <3>2
  <2>4. QED
    BY <2>1, <2>2, <2>3
<1>9. InNumberOrder(r \o t, n - 1)
  <2> SUFFICES ASSUME NEW j \in 1..(n - 1), NEW k \in 1..(n - 1), j < k
               PROVE  (r \o t)[j] <= (r \o t)[k]
    BY DEF InNumberOrder
  <2>1. PICK a \in 1..n, b \in 1..n :
          a < b /\ (r \o t)[j] = s[a] /\ (r \o t)[k] = s[b]
    <3>1. CASE k < m
      <4>1. j \in 1..n /\ k \in 1..n /\ j < m
        BY <1>3, <3>1
      <4>2. QED
        BY <1>8, <3>1, <4>1
    <3>2. CASE j < m /\ ~ (k < m)
      <4>1. j \in 1..n /\ k + 1 \in 1..n /\ j < k + 1
        BY <1>3
      <4>2. QED
        BY <1>8, <3>2, <4>1
    <3>3. CASE ~ (j < m)
      <4>1. j + 1 \in 1..n /\ k + 1 \in 1..n /\ j + 1 < k + 1 /\ ~ (k < m)
        BY <1>3, <3>3
      <4>2. QED
        BY <1>8, <3>3, <4>1
    <3>4. QED
      BY <3>1, <3>2, <3>3
  <2>2. s[a] <= s[b]
    BY <1>3, <2>1 DEF InNumberOrder
  <2>3. QED
    BY <2>1, <2>2
<1>10. \A V : Count(s, V) = Count(r \o t, V) + IF h \in V THEN 1 ELSE 0
  BY <1>6, CountInside
<1>11. QED
  BY <1>7, <1>8, <1>9, <1>10

\* insert puts one element more in its place.
LEMMA InsertNumber ==
  ASSUME NEW s \in Seq(Nat), InNumberOrder(s, Len(s)), NEW num \in Nat,
         NEW before \in 0..Len(s),
         \A j \in 1..before : s[j] <= num,
         \A j \in before + 1..Len(s) : num < s[j]
  PROVE  /\ Window!InsertAt(s, before + 1, num) \in Seq(Nat)
         /\ InNumberOrder(Window!InsertAt(s, before + 1, num),
                          Len(Window!InsertAt(s, before + 1, num)))
         /\ \A V : Count(Window!InsertAt(s, before + 1, num), V)
                     = Count(s, V) + IF num \in V THEN 1 ELSE 0
<1>1. PICK n \in Nat : n = Len(s) /\ before \in Nat /\ before <= n
  OBVIOUS
<1>2. PICK r \in Seq(Nat), t \in Seq(Nat) :
        r = SubSeq(s, 1, before) /\ t = SubSeq(s, before + 1, Len(s))
  <2>1. \A a, b \in Nat : 1 <= a /\ b <= Len(s) => SubSeq(s, a, b) \in Seq(Nat)
    OBVIOUS
  <2>2. before + 1 \in Nat /\ Len(s) \in Nat /\ before <= Len(s) /\ 1 <= before + 1
    BY <1>1
  <2>3. SubSeq(s, 1, before) \in Seq(Nat) /\ SubSeq(s, before + 1, Len(s)) \in Seq(Nat)
    BY <1>1, <2>1, <2>2
  <2>4. QED
    BY <2>3
<1>3. s = r \o t
  <2>1. s = SubSeq(s, 1, before) \o SubSeq(s, before + 1, Len(s))
    <3>1. 1 \in 1..Len(s) + 1 /\ before \in 1 - 1..Len(s) /\ Len(s) \in before..Len(s)
      BY <1>1
    <3>2. SubSeq(s, 1, before) \o SubSeq(s, before + 1, Len(s)) = SubSeq(s, 1, Len(s))
      BY <3>1, ConcatAdjacentSubSeq
    <3>3. SubSeq(s, 1, Len(s)) = s
      BY SubSeqFull
    <3>4. QED
      BY <3>2, <3>3
  <2>2. QED
    BY <1>2, <2>1
<1>4. /\ Len(r) = before /\ \A j \in 1..before : r[j] = s[j]
      /\ Len(t) = n - before /\ \A j \in 1..(n - before) : t[j] = s[before + j]
  BY <1>1, <1>2
<1>5. Window!InsertAt(s, before + 1, num) = r \o <<num>> \o t
  <2>1. (before + 1) - 1 = before
    BY <1>1
  <2>2. QED
    BY <1>2, <2>1 DEF Window!InsertAt
<1> DEFINE u == r \o <<num>> \o t
<1>6. u \in Seq(Nat) /\ Len(u) = n + 1
  <2>1. u \in Seq(Nat) /\ Len(u) = Len(r) + 1 + Len(t)
    OBVIOUS
  <2>2. Len(r) = before /\ Len(t) = n - before
    BY <1>4
  <2>3. before + 1 + (n - before) = n + 1
    BY <1>1
  <2> HIDE DEF u
  <2>4. Len(u) = n + 1
    BY <2>1, <2>2, <2>3, Zenon
  <2>5. QED
    BY <2>1, <2>4
<1>7. ASSUME NEW j \in 1..(n + 1)
      PROVE  /\ j < before + 1 => u[j] = s[j]
             /\ j = before + 1 => u[j] = num
             /\ j > before + 1 => u[j] = s[j - 1]
  <2>1. CASE j < before + 1
    BY <1>1, <1>4, <2>1
  <2>2. CASE j = before + 1
    BY SMTT(30), <1>1, <1>4, <2>2
  <2>3. CASE j > before + 1
    <3>1. j - (before + 1) \in 1..(n - before) /\ before + (j - (before + 1)) = j - 1
      BY <1>1, <2>3
    <3>2. u[j] = t[j - (before + 1)]
      BY SMTT(30), <1>1, <1>4, <2>3
    <3>3. t[j - (before + 1)] = s[j - 1]
      BY <1>4, <3>1
    <3>4. ~ (j < before + 1) /\ j # before + 1
      BY <1>1, <2>3
    <3>5. QED
      BY <3>2, <3>3, <3>4
  <2>4. j < before + 1 \/ j = before + 1 \/ j > before + 1
    BY <1>1
  <2>5. QED
    BY <1>1, <2>1, <2>2, <2>3, <2>4
<1> HIDE DEF u
<1>8. InNumberOrder(u, n + 1)
  <2> SUFFICES ASSUME NEW j \in 1..(n + 1), NEW k \in 1..(n + 1), j < k
               PROVE  u[j] <= u[k]
    BY DEF InNumberOrder
  <2>1. \A a, b \in 1..n : a < b => s[a] <= s[b]
    BY <1>1 DEF InNumberOrder
  <2>2. CASE k < before + 1
    <3>1. j \in 1..n /\ k \in 1..n /\ j < before + 1
      BY <1>1, <2>2
    <3>2. QED
      BY <1>7, <2>1, <2>2, <3>1
  <2>3. CASE k = before + 1
    <3>1. j \in 1..before
      BY <1>1, <2>3
    <3>2. u[k] = num /\ u[j] = s[j] /\ s[j] <= num
      BY <1>1, <1>7, <2>3, <3>1
    <3>3. QED
      BY <3>2
  <2>4. CASE k > before + 1
    <3>1. k - 1 \in before + 1..n /\ k - 1 \in 1..n
      BY <1>1, <2>4
    <3>2. u[k] = s[k - 1] /\ num < s[k - 1]
      BY <1>1, <1>7, <2>4, <3>1
    <3>3. CASE j < before + 1
      <4>1. j \in 1..n /\ j < k - 1
        BY <1>1, <2>4, <3>3
      <4>2. u[j] = s[j] /\ s[j] <= s[k - 1]
        BY <1>7, <2>1, <3>1, <3>3, <4>1
      <4>3. QED
        BY <3>2, <4>2
    <3>4. CASE j = before + 1
      <4>1. u[j] = num
        BY <1>7, <3>4
      <4>2. s[k - 1] \in Nat
        BY <1>1, <3>1
      <4>3. QED
        BY <3>2, <4>1, <4>2
    <3>5. CASE j > before + 1
      <4>1. j - 1 \in 1..n /\ j - 1 < k - 1
        BY <1>1, <3>5
      <4>2. u[j] = s[j - 1] /\ s[j - 1] <= s[k - 1]
        BY <1>7, <2>1, <3>1, <3>5, <4>1
      <4>3. QED
        BY <3>2, <4>2
    <3>6. QED
      BY <1>1, <3>3, <3>4, <3>5
  <2>5. QED
    BY <1>1, <2>2, <2>3, <2>4
<1>9. \A V : Count(u, V) = Count(s, V) + IF num \in V THEN 1 ELSE 0
  BY <1>3, CountInside DEF u
<1>10. QED
  BY <1>5, <1>6, <1>8, <1>9 DEF u

\* Both containers hold the same numbers.
WindowInv ==
    /\ windowQueue \in Seq(Nat) /\ windowSorted \in Seq(Nat)
    /\ InNumberOrder(windowSorted, Len(windowSorted))
    /\ \A V : Count(windowQueue, V) = Count(windowSorted, V)

LEMMA WindowStart == Window!Init => WindowInv
<1> SUFFICES ASSUME Window!Init PROVE WindowInv
  OBVIOUS
<1>1. windowQueue = <<>> /\ windowSorted = <<>>
  BY DEF Window!Init
<1>2. \A V : Count(windowQueue, V) = Count(windowSorted, V)
  BY <1>1, Zenon
<1>3. QED
  BY <1>1, <1>2 DEF WindowInv, InNumberOrder

LEMMA WindowAdd ==
  ASSUME WindowInv, NEW num \in Numbers, Window!addNumber(num)
  PROVE  WindowInv'
<1> DEFINE full == Len(windowQueue) >= windowSize
<1>1. /\ windowQueue \in Seq(Nat) /\ windowSorted \in Seq(Nat)
      /\ InNumberOrder(windowSorted, Len(windowSorted))
      /\ \A V : Count(windowQueue, V) = Count(windowSorted, V)
  BY DEF WindowInv
<1>2. num \in Nat
  BY SequentialAssumption
<1>3. PICK queue, sorted :
        /\ queue = IF full THEN Tail(windowQueue) ELSE windowQueue
        /\ sorted = IF full THEN Window!Erased(windowSorted, Head(windowQueue))
                    ELSE windowSorted
        /\ windowQueue' = Append(queue, num)
        /\ \E before \in 0..Len(sorted) :
              /\ \A j \in 1..before : sorted[j] <= num
              /\ \A j \in before + 1..Len(sorted) : num < sorted[j]
              /\ windowSorted' = Window!InsertAt(sorted, before + 1, num)
  BY DEF Window!addNumber
<1>4. /\ queue \in Seq(Nat) /\ sorted \in Seq(Nat)
      /\ InNumberOrder(sorted, Len(sorted))
      /\ \A V : Count(queue, V) = Count(sorted, V)
  <2>1. CASE ~ full
    BY <1>1, <1>3, <2>1
  <2>2. CASE full
    <3>1. windowQueue # <<>>
      <4>1. Len(windowQueue) # 0
        BY <1>1, <2>2, SequentialAssumption
      <4>2. QED
        BY <4>1
    <3>2. PICK h \in Nat : h = Head(windowQueue)
      BY <1>1, <3>1
    <3>3. queue = Tail(windowQueue) /\ queue \in Seq(Nat)
      BY <1>1, <1>3, <2>2, <3>1
    <3>4. sorted = Window!Erased(windowSorted, h)
      BY <1>3, <2>2, <3>2
    <3>5. \A V : Count(windowQueue, V) = Count(queue, V) + IF h \in V THEN 1 ELSE 0
      BY <1>1, <3>1, <3>2, <3>3, CountQueue
    <3>6. \A V : Count(queue, V) \in Nat
      <4>1. Len(queue) \in Nat
        BY <3>3
      <4>2. QED
        BY <4>1, CountType
    <3>7. Count(windowSorted, {h}) # 0
      <4>1. Count(windowQueue, {h}) = Count(queue, {h}) + 1
        BY <3>5
      <4>2. Count(queue, {h}) \in Nat
        BY <3>6
      <4>3. Count(windowQueue, {h}) # 0
        BY <4>1, <4>2
      <4>4. QED
        BY <1>1, <4>3
    <3>8. /\ sorted \in Seq(Nat) /\ InNumberOrder(sorted, Len(sorted))
          /\ \A V : Count(windowSorted, V) = Count(sorted, V) + IF h \in V THEN 1 ELSE 0
      BY <1>1, <3>4, <3>7, EraseNumber
    <3>9. ASSUME NEW V PROVE Count(queue, V) = Count(sorted, V)
      <4>1. Count(sorted, V) \in Nat /\ Count(queue, V) \in Nat
        <5>1. Len(sorted) \in Nat
          BY <3>8
        <5>2. QED
          BY <3>6, <5>1, CountType
      <4>2. Count(queue, V) + (IF h \in V THEN 1 ELSE 0)
              = Count(sorted, V) + (IF h \in V THEN 1 ELSE 0)
        BY <1>1, <3>5, <3>8, Zenon
      <4>3. QED
        BY <4>1, <4>2
    <3>10. QED
      BY <3>3, <3>8, <3>9
  <2>3. QED
    BY <2>1, <2>2
<1> HIDE DEF full
<1>5. PICK before \in 0..Len(sorted) :
        /\ \A j \in 1..before : sorted[j] <= num
        /\ \A j \in before + 1..Len(sorted) : num < sorted[j]
        /\ windowSorted' = Window!InsertAt(sorted, before + 1, num)
  BY <1>3
<1>6. /\ windowSorted' \in Seq(Nat) /\ InNumberOrder(windowSorted', Len(windowSorted'))
      /\ \A V : Count(windowSorted', V) = Count(sorted, V) + IF num \in V THEN 1 ELSE 0
  <2> DEFINE after == Window!InsertAt(sorted, before + 1, num)
  <2>1. /\ after \in Seq(Nat) /\ InNumberOrder(after, Len(after))
        /\ \A V : Count(after, V) = Count(sorted, V) + IF num \in V THEN 1 ELSE 0
    <3>1. sorted \in Seq(Nat) /\ InNumberOrder(sorted, Len(sorted)) /\ num \in Nat
      BY <1>2, <1>4
    <3>2. /\ before \in 0..Len(sorted)
          /\ \A j \in 1..before : sorted[j] <= num
          /\ \A j \in before + 1..Len(sorted) : num < sorted[j]
      BY <1>5
    <3>3. QED
      BY ZenonT(60), <3>1, <3>2, InsertNumber
  <2> HIDE DEF after
  <2>2. windowSorted' = after
    BY <1>5 DEF after
  <2>3. QED
    BY <2>1, <2>2, Zenon
<1>7. /\ windowQueue' \in Seq(Nat)
      /\ \A V : Count(windowQueue', V) = Count(queue, V) + IF num \in V THEN 1 ELSE 0
  <2>1. windowQueue' = Append(queue, num)
    BY <1>3
  <2>2. \A V : Count(Append(queue, num), V) = Count(queue, V) + IF num \in V THEN 1 ELSE 0
    BY <1>2, <1>4, CountQueue
  <2>3. Append(queue, num) \in Seq(Nat)
    BY <1>2, <1>4
  <2>4. QED
    BY <2>1, <2>2, <2>3
<1>8. \A V : Count(windowQueue', V) = Count(windowSorted', V)
  BY <1>4, <1>6, <1>7, Zenon
<1>9. QED
  BY <1>6, <1>7, <1>8 DEF WindowInv

LEMMA WindowStep ==
  WindowInv /\ [SequentialNext]_<<part, vars, loopVars, windowVars, mainVars>> => WindowInv'
<1> SUFFICES ASSUME WindowInv,
                    [SequentialNext]_<<part, vars, loopVars, windowVars, mainVars>>
             PROVE  WindowInv'
  OBVIOUS
<1>1. CASE UNCHANGED windowVars
  BY <1>1 DEF WindowInv, windowVars
<1>2. ASSUME NEW num \in Numbers, Window!addNumber(num) PROVE WindowInv'
  BY <1>2, WindowAdd
<1>3. QED
  BY <1>1, <1>2 DEF SequentialNext, Window!Next

LEMMA SameWindowCount == \A S : Window!Cardinality(S) = Cardinality(S)
  BY DEF Window!Cardinality, Cardinality

\* The element at place k of an ordered sequence has at most k - 1 below it and at
\* least k up to it.
LEMMA RankOfPlace ==
  ASSUME NEW s \in Seq(Nat), InNumberOrder(s, Len(s)), NEW k \in 1..Len(s)
  PROVE  /\ Count(s, {x \in Nat : x < s[k]}) <= k - 1
         /\ Count(s, {x \in Nat : x <= s[k]}) >= k
<1>1. PICK n \in Nat, m \in Nat : n = Len(s) /\ k = m + 1 /\ k \in Nat /\ m <= n
  <2>1. Len(s) \in Nat /\ k - 1 \in Nat /\ k = (k - 1) + 1 /\ k - 1 <= Len(s) /\ k \in Nat
    OBVIOUS
  <2>2. QED
    BY <2>1
<1>2. \A j \in 1..n : s[j] \in Nat
  BY <1>1
<1>3. \A h, j \in 1..n : h < j => s[h] <= s[j]
  BY <1>1 DEF InNumberOrder
<1>4. Count(s, {x \in Nat : x < s[k]}) <= m
  <2>1. Places(s, {x \in Nat : x < s[k]}) \subseteq 1..m
    <3> SUFFICES ASSUME NEW j \in 1..n, s[j] < s[k] PROVE j \in 1..m
      BY <1>1 DEF Places
    <3>1. s[j] \in Nat /\ s[k] \in Nat /\ k \in 1..n
      BY <1>1, <1>2
    <3>2. ~ (k < j) /\ j # k
      BY <1>3, <3>1
    <3>3. QED
      BY <1>1, <3>2
  <2>2. Cardinality(1..m) = m /\ IsFiniteSet(1..m)
    BY CountUpTo
  <2>3. QED
    BY <2>1, <2>2, FS_Subset DEF Count
<1>5. Count(s, {x \in Nat : x <= s[k]}) >= k
  <2>1. 1..k \subseteq Places(s, {x \in Nat : x <= s[k]})
    <3> SUFFICES ASSUME NEW j \in 1..k PROVE j \in 1..n /\ s[j] \in Nat /\ s[j] <= s[k]
      BY <1>1 DEF Places
    <3>1. j \in 1..n /\ k \in 1..n /\ (j < k \/ j = k)
      BY <1>1
    <3>2. s[j] \in Nat /\ s[k] \in Nat
      BY <1>2, <3>1
    <3>3. CASE j < k
      BY <1>3, <3>1, <3>2, <3>3
    <3>4. CASE j = k
      BY <3>1, <3>2, <3>4
    <3>5. QED
      BY <3>1, <3>3, <3>4
  <2>2. Cardinality(1..k) = k
    BY <1>1, CountUpTo
  <2>3. IsFiniteSet(Places(s, {x \in Nat : x <= s[k]}))
    BY CountType
  <2>4. QED
    BY <2>1, <2>2, <2>3, FS_Subset DEF Count
<1>6. k - 1 = m
  BY <1>1
<1>7. QED
  BY <1>4, <1>5, <1>6

\* For windows of any size and any numbers: what is printed as a percentile is a number of
\* the window, and of the right rank among them.
THEOREM PercentilesOfTheWindow == SequentialSpec => []PercentileOfWindow
<1>1. WindowInv => PercentileOfWindow
  <2> SUFFICES ASSUME WindowInv, NEW target \in Targets, windowQueue # <<>>,
                      NEW p, p = Window!getPercentile(target)
               PROVE  /\ \E j \in 1..Len(windowQueue) : windowQueue[j] = p
                      /\ 100 * Cardinality({j \in 1..Len(windowQueue) : windowQueue[j] < p})
                           <= target * Len(windowQueue)
                      /\ 100 * Cardinality({j \in 1..Len(windowQueue) : windowQueue[j] <= p})
                           > target * Len(windowQueue)
    BY SameWindowCount DEF PercentileOfWindow, Window!PercentileOfWindow
  <2>1. /\ windowQueue \in Seq(Nat) /\ windowSorted \in Seq(Nat)
        /\ InNumberOrder(windowSorted, Len(windowSorted))
        /\ \A V : Count(windowQueue, V) = Count(windowSorted, V)
    BY DEF WindowInv
  <2>2. PICK n \in Nat : n = Len(windowQueue) /\ n # 0
    BY <2>1
  <2>3. Len(windowSorted) = n
    <3>1. \A s \in Seq(Nat) : Count(s, Nat) = Len(s)
      <4> SUFFICES ASSUME NEW s \in Seq(Nat) PROVE Count(s, Nat) = Len(s)
        OBVIOUS
      <4>1. Places(s, Nat) = 1..Len(s) /\ Len(s) \in Nat
        BY DEF Places
      <4>2. QED
        BY <4>1, CountUpTo DEF Count
    <3>2. QED
      BY <2>1, <2>2, <3>1
  <2>4. PICK index \in Nat : index = (target * n) \div 100
    BY <2>2, SequentialAssumption
  <2>5. target \in Nat /\ target < 100
    BY SequentialAssumption
  <2>6. /\ 100 * index <= target * n /\ target * n < 100 * (index + 1)
        /\ index < n
    <3>1. PICK a \in Nat : a = target * n
      BY <2>2, <2>5
    <3>2. a < 100 * n
      BY <2>2, <2>5, <3>1
    <3>3. index = a \div 100
      BY <2>4, <3>1
    <3>4. 100 * index <= a /\ a < 100 * (index + 1)
      BY <3>3
    <3>5. index < n
      BY <2>2, <3>2, <3>4
    <3>6. QED
      BY <3>1, <3>4, <3>5
  <2>7. PICK k \in 1..n : k = index + 1 /\ p = windowSorted[k]
    BY <2>3, <2>4, <2>6 DEF Window!getPercentile
  <2>8. p \in Nat
    BY <2>1, <2>3, <2>7
  <2>9. /\ Count(windowSorted, {x \in Nat : x < p}) <= k - 1
        /\ Count(windowSorted, {x \in Nat : x <= p}) >= k
    BY <2>1, <2>3, <2>7, RankOfPlace
  <2>10. /\ Cardinality({j \in 1..Len(windowQueue) : windowQueue[j] < p})
              = Count(windowQueue, {x \in Nat : x < p})
         /\ Cardinality({j \in 1..Len(windowQueue) : windowQueue[j] <= p})
              = Count(windowQueue, {x \in Nat : x <= p})
    <3>1. /\ {j \in 1..Len(windowQueue) : windowQueue[j] < p}
               = Places(windowQueue, {x \in Nat : x < p})
          /\ {j \in 1..Len(windowQueue) : windowQueue[j] <= p}
               = Places(windowQueue, {x \in Nat : x <= p})
      BY <2>1 DEF Places
    <3>2. QED
      BY <3>1, Zenon DEF Count
  <2>11. PICK below \in Nat, upto \in Nat :
           /\ below = Count(windowQueue, {x \in Nat : x < p}) /\ below <= index
           /\ upto = Count(windowQueue, {x \in Nat : x <= p}) /\ upto >= index + 1
    <3>1. Len(windowQueue) \in Nat
      BY <2>2
    <3>2. \A V : Count(windowQueue, V) \in Nat
      BY <3>1, CountType
    <3>3. k - 1 = index
      BY <2>7
    <3>4. QED
      BY <2>1, <2>7, <2>9, <3>2, <3>3
  <2>12. \E j \in 1..Len(windowQueue) : windowQueue[j] = p
    <3>1. Places(windowSorted, {p}) # {} /\ IsFiniteSet(Places(windowSorted, {p}))
      <4>1. k \in Places(windowSorted, {p})
        BY <2>3, <2>7 DEF Places
      <4>2. Len(windowSorted) \in Nat
        BY <2>2, <2>3
      <4>3. QED
        BY <4>1, <4>2, CountType
    <3>2. Count(windowQueue, {p}) # 0
      BY <2>1, <3>1, FS_EmptySet DEF Count
    <3>3. Places(windowQueue, {p}) # {}
      BY <3>2, FS_EmptySet DEF Count
    <3>4. QED
      BY <3>3 DEF Places
  <2>13. 100 * below <= target * n /\ 100 * upto > target * n
    <3>1. PICK a \in Nat : a = target * n
      BY <2>2, <2>5
    <3>2. 100 * index <= a /\ a < 100 * (index + 1)
      BY <2>6, <3>1
    <3>3. 100 * below <= a /\ 100 * upto > a
      BY <2>11, <3>2
    <3>4. QED
      BY <3>1, <3>3
  <2>14. QED
    BY <2>2, <2>10, <2>11, <2>12, <2>13
<1>2. SequentialInit => WindowInv
  BY WindowStart DEF SequentialInit
<1>3. QED
  BY <1>1, <1>2, WindowStep, PTL DEF SequentialSpec
=============================================================================
