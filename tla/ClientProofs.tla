---------------------------- MODULE ClientProofs ----------------------------
(***************************************************************************)
(* Theorems about Client, with and without SSL, for any input and any size *)
(* of the window.                                                          *)
(***************************************************************************)
EXTENDS Client, FiniteSetTheorems, SequenceTheorems, WellFoundedInduction, TLAPS

\* A command whose time is taken and that is not written yet.
Pending == IF pc = "writing" THEN 1 ELSE 0

\* OneTimePerCommand, with what else holds of the window.
WindowInv ==
    /\ IsFiniteSet(waiting)
    /\ Len(requests) + Cardinality(waiting) + Len(responses) + Pending <= Len(times)
    /\ ~Ssl => inflight = Len(times) /\ inflight <= maxInflight
    /\ pc = "reply" => Ssl
    /\ pc \in {"window", "writing"} => line > 0

ClientInv == TypeOK /\ WindowInv

LEMMA WindowTypes ==
  ASSUME ClientInv
  PROVE  /\ Len(requests) \in Nat /\ Len(responses) \in Nat /\ Len(times) \in Nat
         /\ Cardinality(waiting) \in Nat /\ Pending \in Nat
         /\ inflight \in Nat /\ maxInflight \in Nat /\ MaxUint64 \in Nat
         /\ inflight <= MaxUint64 /\ maxInflight <= MaxUint64 /\ maxInflight > 0
         /\ line \in Nat /\ line <= Lines /\ Lines \in Nat /\ MaxLog \in Nat
         /\ logSize \in Nat /\ lastApplied \in Nat
         /\ logSize <= MaxLog /\ lastApplied <= logSize
<1>1. Len(requests) \in Nat /\ Len(responses) \in Nat /\ Len(times) \in Nat
  BY DEF ClientInv, TypeOK
<1>2. Cardinality(waiting) \in Nat
  BY FS_CardinalityType DEF ClientInv, WindowInv
<1>3. /\ inflight \in Nat /\ maxInflight \in Nat /\ MaxUint64 \in Nat
      /\ inflight <= MaxUint64 /\ maxInflight <= MaxUint64 /\ maxInflight > 0
      /\ line \in Nat /\ line <= Lines /\ Lines \in Nat /\ MaxLog \in Nat
  BY ClientAssumption DEF ClientInv, TypeOK
<1>4. /\ logSize \in Nat /\ lastApplied \in Nat
      /\ logSize <= MaxLog /\ lastApplied <= logSize
  BY ClientAssumption DEF ClientInv, TypeOK
<1>5. QED
  BY <1>1, <1>2, <1>3, <1>4 DEF Pending

\* The counts alone.
LEMMA CountTypes ==
  ASSUME ClientInv
  PROVE  /\ Len(requests) \in Nat /\ Len(responses) \in Nat /\ Len(times) \in Nat
         /\ Cardinality(waiting) \in Nat /\ Pending \in Nat
BY WindowTypes

LEMMA WindowInit == Init => ClientInv
<1> SUFFICES ASSUME Init PROVE ClientInv
  OBVIOUS
<1>1. /\ line = 0 /\ pc = "line" /\ inflight = 0 /\ times = <<>> /\ reader = TRUE
      /\ printed = {} /\ requests = <<>> /\ responses = <<>> /\ server = "leads"
      /\ logSize = 0 /\ lastApplied = 0 /\ waiting = {} /\ steady = TRUE
      /\ Ssl \in BOOLEAN /\ given = [l \in Number |-> 0]
  BY DEF Init
<1>2. /\ <<>> \in Seq(Number) /\ <<>> \in Seq(TWaiting) /\ Len(<<>>) = 0
      /\ reader \in BOOLEAN /\ steady \in BOOLEAN
  BY <1>1
<1>3. 0 \in 0..Lines /\ 0 \in 0..MaxUint64 /\ 0 \in 0..MaxLog /\ 0 \in 0..0 /\ 0 <= maxInflight
  BY ClientAssumption
<1>4. given \in [Number -> Index \cup {0}]
  BY <1>1
<1>5. TypeOK
  BY <1>1, <1>2, <1>3, <1>4 DEF TypeOK
<1>6. WindowInv
  BY <1>1, <1>2, <1>3, FS_EmptySet DEF WindowInv, Pending
<1>7. QED
  BY <1>5, <1>6 DEF ClientInv

\* A time is taken.
LEMMA WindowStart ==
  ASSUME ClientInv, NEW l \in Number, Start(l), line' = l, pc # "writing",
         Ssl \/ inflight < maxInflight,
         UNCHANGED <<Ssl, reader, printed, netVars, serverVars>>
  PROVE  ClientInv'
<1>1. /\ pc' = "writing" /\ times' = Append(times, l)
      /\ inflight' = IF Ssl THEN inflight ELSE inflight + 1
      /\ UNCHANGED <<Ssl, reader, printed, requests, responses, server, logSize,
                     lastApplied, waiting, given, steady>>
  BY DEF Start, Stamped, netVars, serverVars
<1>2. times \in Seq(Number) /\ Ssl \in BOOLEAN
  BY DEF ClientInv, TypeOK
<1>3. times' \in Seq(Number) /\ Len(times') = Len(times) + 1
  BY <1>1, <1>2
<1>4. l \in 0..Lines /\ l > 0
  BY ClientAssumption DEF Number
<1>5. inflight' \in 0..MaxUint64
  BY <1>1, WindowTypes
<1>6. TypeOK'
  BY <1>1, <1>3, <1>4, <1>5 DEF ClientInv, TypeOK
<1>7. Len(requests) + Cardinality(waiting) + Len(responses) + 1 <= Len(times) + 1
  BY WindowTypes DEF ClientInv, WindowInv, Pending
<1>8. ~Ssl => inflight' = Len(times) + 1 /\ inflight' <= maxInflight
  BY SMTT(30), <1>1, WindowTypes DEF ClientInv, WindowInv
<1>9. WindowInv'
  BY <1>1, <1>3, <1>4, <1>7, <1>8 DEF ClientInv, WindowInv, Pending
<1>10. QED
  BY <1>6, <1>9 DEF ClientInv

LEMMA WindowInput ==
  ASSUME ClientInv, ReadLine \/ Yielded \/ Write \/ Resume \/ Finish
  PROVE  ClientInv'
<1>1. Ssl \in BOOLEAN /\ line \in 0..Lines
  BY DEF ClientInv, TypeOK
<1>2. CASE ReadLine
  <2>1. /\ pc = "line" /\ line < Lines /\ line' = line + 1
        /\ UNCHANGED <<Ssl, reader, printed, netVars, serverVars>>
    BY <1>2 DEF ReadLine
  <2>2. line + 1 \in Number /\ line + 1 \in 0..Lines /\ line + 1 > 0
    BY <2>1, WindowTypes DEF Number
  <2>3. CASE ~Ssl /\ inflight >= maxInflight
    <3>1. pc' = "window" /\ UNCHANGED <<times, inflight>>
      BY <1>2, <2>3 DEF ReadLine
    <3>2. TypeOK'
      BY <2>1, <2>2, <3>1 DEF ClientInv, TypeOK, netVars, serverVars
    <3>3. WindowInv'
      BY <2>1, <2>2, <3>1 DEF ClientInv, WindowInv, Pending, netVars, serverVars
    <3>4. QED
      BY <3>2, <3>3 DEF ClientInv
  <2>4. CASE ~ (~Ssl /\ inflight >= maxInflight)
    <3>1. Start(line + 1)
      BY <1>2, <2>4 DEF ReadLine
    <3>2. Ssl \/ inflight < maxInflight
      BY <1>1, <2>4, WindowTypes
    <3>3. QED
      BY <2>1, <2>2, <3>1, <3>2, WindowStart
  <2>5. QED
    BY <2>3, <2>4
<1>3. CASE Yielded
  <2>1. /\ pc = "window" /\ inflight < maxInflight /\ Start(line)
        /\ UNCHANGED <<Ssl, line, reader, printed, netVars, serverVars>>
    BY <1>3 DEF Yielded
  <2>2. line \in Number
    BY <2>1, WindowTypes DEF ClientInv, WindowInv, Number
  <2>3. QED
    BY <2>1, <2>2, WindowStart
<1>4. CASE Write
  <2>1. /\ pc = "writing"
        /\ requests' = IF server = "closed" THEN requests ELSE Append(requests, line)
        /\ pc' = "written"
        /\ UNCHANGED <<Ssl, line, inflight, times, reader, printed, responses, server,
                       logSize, lastApplied, waiting, given, steady>>
    BY <1>4 DEF Write, windowVars, serverVars
  <2>2. line \in Number /\ requests \in Seq(Number)
    BY <2>1, WindowTypes DEF ClientInv, WindowInv, TypeOK, Number
  <2>3. /\ requests' \in Seq(Number)
        /\ Len(requests') = Len(requests) \/ Len(requests') = Len(requests) + 1
    BY <2>1, <2>2
  <2>4. TypeOK'
    BY <2>1, <2>3 DEF ClientInv, TypeOK
  <2>5. Len(requests') + Cardinality(waiting) + Len(responses) + 0 <= Len(times)
    <3>1. Len(requests) + Cardinality(waiting) + Len(responses) + 1 <= Len(times)
      BY <2>1 DEF ClientInv, WindowInv, Pending
    <3>2. QED
      BY SMTT(30), <2>3, <3>1, WindowTypes
  <2>6. pc' \notin {"window", "writing"} /\ (pc' = "reply" => Ssl)
    BY <2>1
  <2>7. WindowInv'
    BY <2>1, <2>5, <2>6 DEF ClientInv, WindowInv, Pending
  <2>8. QED
    BY <2>4, <2>7 DEF ClientInv
<1>5. CASE Resume
  <2>1. /\ pc = "written" /\ pc' = IF Ssl THEN "reply" ELSE "line"
        /\ UNCHANGED <<Ssl, line, inflight, times, reader, printed, requests, responses,
                       server, logSize, lastApplied, waiting, given, steady>>
    BY <1>5 DEF Resume, windowVars, netVars, serverVars
  <2>2. TypeOK'
    BY <2>1 DEF ClientInv, TypeOK
  <2>3. pc' \notin {"window", "writing"} /\ (pc' = "reply" => Ssl)
    BY <2>1
  <2>4. WindowInv'
    BY <2>1, <2>3 DEF ClientInv, WindowInv, Pending
  <2>5. QED
    BY <2>2, <2>4 DEF ClientInv
<1>6. CASE Finish
  <2>1. /\ pc' = "done" /\ reader' = FALSE
        /\ UNCHANGED <<Ssl, line, inflight, times, printed, requests, responses, server,
                       logSize, lastApplied, waiting, given, steady>>
    BY <1>6 DEF Finish, netVars, serverVars
  <2>2. TypeOK'
    <3>1. reader' \in BOOLEAN
      BY <2>1
    <3>2. QED
      BY <2>1, <3>1 DEF ClientInv, TypeOK
  <2>3. Len(requests) + Cardinality(waiting) + Len(responses) + 0 <= Len(times)
    BY WindowTypes DEF ClientInv, WindowInv
  <2>4. WindowInv'
    BY <2>1, <2>3 DEF ClientInv, WindowInv, Pending
  <2>5. QED
    BY <2>2, <2>4 DEF ClientInv
<1>7. QED
  BY <1>2, <1>3, <1>4, <1>5, <1>6

\* times.front() is there for every response, and goes with it.
LEMMA WindowPop ==
  ASSUME ClientInv, responses # <<>>, Pop(Head(responses))
  PROVE  /\ times # <<>> /\ Head(times) \in Number /\ Len(times) > 0
         /\ times' \in Seq(Number) /\ Len(times') = Len(times) - 1
         /\ responses' \in Seq(TWaiting) /\ Len(responses') = Len(responses) - 1
         /\ printed' \subseteq Printed
<1>1. times \in Seq(Number) /\ responses \in Seq(TWaiting)
  BY DEF ClientInv, TypeOK
<1>2. Len(responses) > 0
  BY <1>1
<1>3. Len(times) > 0
  BY <1>2, WindowTypes DEF ClientInv, WindowInv
<1>4. times # <<>>
  BY <1>1, <1>3
<1>5. Head(times) \in Number /\ Tail(times) \in Seq(Number) /\ Len(Tail(times)) = Len(times) - 1
  BY <1>1, <1>4
<1>6. /\ Head(responses) \in TWaiting /\ Tail(responses) \in Seq(TWaiting)
      /\ Len(Tail(responses)) = Len(responses) - 1
  BY <1>1
<1>7. [time |-> Head(times), Index |-> Head(responses).Index] \in Printed
  BY <1>5, <1>6 DEF Printed, TWaiting
<1>8. QED
  BY <1>3, <1>4, <1>5, <1>6, <1>7 DEF Pop, ClientInv, TypeOK

LEMMA WindowResponse ==
  ASSUME ClientInv, ReadResponse \/ SslReadResponse \/ ReaderFails
  PROVE  ClientInv'
<1>1. CASE ReadResponse \/ SslReadResponse
  <2>1. /\ responses # <<>> /\ Pop(Head(responses))
        /\ UNCHANGED <<Ssl, line, reader, requests, server, logSize, lastApplied, waiting,
                       given, steady>>
    BY <1>1 DEF ReadResponse, SslReadResponse, inputVars, serverVars
  <2>2. /\ Len(times) > 0
        /\ times' \in Seq(Number) /\ Len(times') = Len(times) - 1
        /\ responses' \in Seq(TWaiting) /\ Len(responses') = Len(responses) - 1
        /\ printed' \subseteq Printed
    BY <2>1, WindowPop
  <2>3. Ssl \in BOOLEAN
    BY DEF ClientInv, TypeOK
  <2>4. /\ \/ pc' = pc
           \/ pc = "reply" /\ pc' = "line"
        /\ inflight' \in 0..MaxUint64
        /\ ~Ssl => inflight' = inflight - 1
    <3>1. CASE ReadResponse
      <4>1. inflight' = IF inflight = 0 THEN MaxUint64 ELSE inflight - 1
        BY <3>1 DEF ReadResponse, Decremented
      <4>2. ~Ssl => inflight > 0
        BY <2>2 DEF ClientInv, WindowInv
      <4>3. inflight' \in 0..MaxUint64 /\ (~Ssl => inflight' = inflight - 1)
        BY <4>1, <4>2, WindowTypes
      <4>4. QED
        BY <3>1, <4>3 DEF ReadResponse, inputVars
    <3>2. CASE SslReadResponse
      <4>1. pc = "reply" /\ pc' = "line" /\ inflight' = inflight
        BY <3>2 DEF SslReadResponse
      <4>2. QED
        BY <4>1 DEF ClientInv, TypeOK, WindowInv
    <3>3. QED
      BY <1>1, <3>1, <3>2
  <2>5. TypeOK'
    BY <2>1, <2>2, <2>4 DEF ClientInv, TypeOK
  <2>6. Pending' = Pending
    BY <2>4 DEF Pending
  <2>7. Len(requests) + Cardinality(waiting) + Len(responses') + Pending <= Len(times')
    <3>1. Len(requests) + Cardinality(waiting) + Len(responses) + Pending <= Len(times)
      BY DEF ClientInv, WindowInv
    <3>2. Len(times') = Len(times) - 1 /\ Len(responses') = Len(responses) - 1
      BY <2>2
    <3>3. QED
      BY <3>1, <3>2, CountTypes
  <2>8. ~Ssl => inflight' = Len(times') /\ inflight' <= maxInflight
    <3>1. ~Ssl => inflight = Len(times) /\ inflight <= maxInflight
      BY DEF ClientInv, WindowInv
    <3>2. Len(times') = Len(times) - 1
      BY <2>2
    <3>3. QED
      BY SMTT(30), <2>4, <3>1, <3>2, WindowTypes
  <2>9. WindowInv'
    BY <2>1, <2>4, <2>6, <2>7, <2>8 DEF ClientInv, WindowInv
  <2>10. QED
    BY <2>5, <2>9 DEF ClientInv
<1>2. CASE ReaderFails
  <2>1. reader' \in BOOLEAN
    BY <1>2 DEF ReaderFails
  <2>2. QED
    BY <1>2, <2>1 DEF ReaderFails, ClientInv, TypeOK, WindowInv, Pending, inputVars, netVars,
       serverVars
<1>3. QED
  BY <1>1, <1>2

LEMMA WindowRequest ==
  ASSUME ClientInv, OnCommandRequest
  PROVE  ClientInv'
<1> DEFINE l == Head(requests)
           index == IF IsRead(l) THEN logSize ELSE logSize + 1
           new == [Index |-> index, line |-> l]
<1>1. /\ requests # <<>> /\ requests' = Tail(requests)
      /\ UNCHANGED <<inputVars, windowVars, responses, server, lastApplied, steady>>
      /\ \/ /\ index <= MaxLog /\ logSize' = index
            /\ waiting' = waiting \cup {new}
            /\ given' = [given EXCEPT ![l] = index]
         \/ UNCHANGED <<logSize, waiting, given>>
  BY DEF OnCommandRequest
<1>2. requests \in Seq(Number)
  BY DEF ClientInv, TypeOK
<1>3. l \in Number /\ requests' \in Seq(Number) /\ Len(requests') = Len(requests) - 1
  BY <1>1, <1>2
<1>4. index \in Nat /\ logSize <= index
  BY WindowTypes
<1> HIDE DEF l, index
<1>5. IsFiniteSet(waiting) /\ waiting \subseteq TWaiting /\ given \in [Number -> Index \cup {0}]
  BY DEF ClientInv, WindowInv, TypeOK
<1>6. CASE UNCHANGED <<logSize, waiting, given>>
  <2>1. TypeOK'
    BY <1>1, <1>3, <1>6 DEF ClientInv, TypeOK, inputVars, windowVars
  <2>2. Len(requests') + Cardinality(waiting) + Len(responses) + Pending <= Len(times)
    <3>1. Len(requests) + Cardinality(waiting) + Len(responses) + Pending <= Len(times)
      BY DEF ClientInv, WindowInv
    <3>2. QED
      BY <1>3, <3>1, CountTypes
  <2>3. WindowInv'
    BY <1>1, <1>6, <2>2 DEF ClientInv, WindowInv, Pending, inputVars, windowVars
  <2>4. QED
    BY <2>1, <2>3 DEF ClientInv
<1>7. CASE /\ index <= MaxLog /\ logSize' = index
           /\ waiting' = waiting \cup {new}
           /\ given' = [given EXCEPT ![l] = index]
  <2>1. index \in Index \cup {0} /\ index \in 0..MaxLog
    BY <1>4, <1>7, WindowTypes DEF Index
  <2>2. waiting' \subseteq TWaiting
    BY <1>3, <1>5, <1>7, <2>1 DEF TWaiting
  <2>3. given' \in [Number -> Index \cup {0}]
    BY <1>5, <1>7, <2>1
  <2>4. lastApplied' \in 0..logSize'
    BY <1>1, <1>4, <1>7, WindowTypes
  <2>5. TypeOK'
    BY <1>1, <1>3, <1>7, <2>1, <2>2, <2>3, <2>4 DEF ClientInv, TypeOK, inputVars, windowVars
  <2> HIDE DEF new
  <2>6. /\ IsFiniteSet(waiting')
        /\ Cardinality(waiting') <= Cardinality(waiting) + 1
        /\ Cardinality(waiting') \in Nat
    BY <1>5, <1>7, FS_AddElement, FS_CardinalityType
  <2>7. Len(requests') + Cardinality(waiting') + Len(responses) + Pending <= Len(times)
    <3>1. Len(requests) + Cardinality(waiting) + Len(responses) + Pending <= Len(times)
      BY DEF ClientInv, WindowInv
    <3>2. QED
      BY <1>3, <2>6, <3>1, CountTypes
  <2>8. WindowInv'
    BY <1>1, <2>6, <2>7 DEF ClientInv, WindowInv, Pending, inputVars, windowVars
  <2>9. QED
    BY <2>5, <2>8 DEF ClientInv
<1>8. QED
  BY <1>1, <1>6, <1>7

\* What the queue gives back is as much as it loses.
LEMMA OrdersShape ==
  ASSUME NEW S, IsFiniteSet(S), NEW s \in Orders(S), NEW T, S \subseteq T
  PROVE  /\ s \in Seq(T) /\ Len(s) = Cardinality(S) /\ Cardinality(S) \in Nat
         /\ s \in [1..Cardinality(S) -> S]
         /\ \A x \in S : \E i \in 1..Cardinality(S) : s[i] = x
         /\ \A i, j \in 1..Cardinality(S) : i < j => s[i].Index <= s[j].Index
<1> DEFINE n == Cardinality(S)
<1>1. n \in Nat
  BY FS_CardinalityType
<1>2. s \in [1..n -> S] /\ InOrder(s) /\ {s[i] : i \in DOMAIN s} = S
  BY DEF Orders
<1> HIDE DEF n
<1>3. DOMAIN s = 1..n
  BY <1>2
<1>4. s \in Seq(T) /\ Len(s) = n
  BY <1>1, <1>2
<1>5. \A x \in S : \E i \in 1..n : s[i] = x
  BY <1>2, <1>3
<1>6. \A i, j \in 1..n : i < j => s[i].Index <= s[j].Index
  BY <1>2, <1>3 DEF InOrder
<1>7. QED
  BY <1>1, <1>2, <1>4, <1>5, <1>6 DEF n

LEMMA WindowWaiting ==
  ASSUME ClientInv, ProcessWaiting
  PROVE  ClientInv'
<1>1. PICK applied \in lastApplied..logSize :
        LET ready == {w \in waiting : w.Index <= applied}
        IN  /\ lastApplied' = applied
            /\ waiting' = waiting \ ready
            /\ \E s \in Orders(ready) : responses' = responses \o s
  BY DEF ProcessWaiting
<1> DEFINE ready == {w \in waiting : w.Index <= applied}
<1>2. /\ IsFiniteSet(waiting) /\ waiting \subseteq TWaiting /\ ready \subseteq waiting
      /\ responses \in Seq(TWaiting)
  BY DEF ClientInv, WindowInv, TypeOK
<1>3. PICK s \in Orders(ready) : responses' = responses \o s
  BY <1>1
<1>4. lastApplied' = applied /\ waiting' = waiting \ ready
  BY <1>1
<1>5. UNCHANGED <<inputVars, windowVars, requests, server, logSize, given, steady>>
  BY DEF ProcessWaiting
<1>6. lastApplied' \in 0..logSize'
  BY <1>1, <1>4, <1>5, WindowTypes
<1> HIDE DEF ready
<1>7. /\ IsFiniteSet(ready) /\ IsFiniteSet(waiting')
      /\ Cardinality(ready) \in Nat /\ Cardinality(waiting') \in Nat
  BY <1>2, <1>4, FS_Subset, FS_CardinalityType
<1>8. Cardinality(waiting) = Cardinality(ready) + Cardinality(waiting')
  <2>1. ready \cup waiting' = waiting /\ ready \cap waiting' = {}
    BY <1>2, <1>4
  <2>2. Cardinality(ready \cup waiting')
          = Cardinality(ready) + Cardinality(waiting') - Cardinality(ready \cap waiting')
    BY <1>7, FS_Union
  <2>3. Cardinality({}) = 0
    BY FS_EmptySet
  <2>4. Cardinality(waiting) = Cardinality(ready) + Cardinality(waiting') - Cardinality({})
    BY <2>1, <2>2, Zenon
  <2>5. QED
    BY <1>7, <2>3, <2>4
<1>9. s \in Seq(TWaiting) /\ Len(s) = Cardinality(ready)
  BY <1>2, <1>3, <1>7, OrdersShape
<1>10. responses' \in Seq(TWaiting) /\ Len(responses') = Len(responses) + Cardinality(ready)
  BY <1>2, <1>3, <1>9, ConcatProperties
<1>11. TypeOK'
  BY <1>2, <1>4, <1>5, <1>6, <1>10 DEF ClientInv, TypeOK, inputVars, windowVars
<1>12. Len(requests) + Cardinality(waiting') + Len(responses') + Pending <= Len(times)
  <2>1. Len(requests) + Cardinality(waiting) + Len(responses) + Pending <= Len(times)
    BY DEF ClientInv, WindowInv
  <2>2. QED
    BY <1>7, <1>8, <1>10, <2>1, CountTypes
<1>13. WindowInv'
  BY <1>5, <1>7, <1>12 DEF ClientInv, WindowInv, Pending, inputVars, windowVars
<1>14. QED
  BY <1>11, <1>13 DEF ClientInv

LEMMA WindowExternal ==
  ASSUME ClientInv, OtherWrite \/ ChangeRole \/ Close
  PROVE  ClientInv'
<1>1. UNCHANGED <<Ssl, line, pc, inflight, times, reader, printed, lastApplied, waiting, given>>
  BY DEF OtherWrite, ChangeRole, Close, inputVars, windowVars
<1>2. steady' \in BOOLEAN /\ server' \in {"leads", "follows", "closed"}
  BY DEF OtherWrite, ChangeRole, Close, ClientInv, TypeOK
<1>3. logSize' \in 0..MaxLog /\ lastApplied \in 0..logSize'
  <2>1. CASE OtherWrite
    <3>1. logSize' = logSize + 1 /\ logSize + Lines < MaxLog
      BY <2>1 DEF OtherWrite
    <3>2. QED
      BY <3>1, WindowTypes
  <2>2. CASE ChangeRole
    <3>1. logSize' \in lastApplied..MaxLog \/ logSize' = logSize
      BY <2>2 DEF ChangeRole
    <3>2. QED
      BY <3>1, WindowTypes
  <2>3. CASE Close
    <3>1. logSize' = logSize
      BY <2>3 DEF Close
    <3>2. QED
      BY <3>1, WindowTypes
  <2>4. QED
    BY <2>1, <2>2, <2>3
<1>4. /\ requests' \in Seq(Number) /\ Len(requests') <= Len(requests) /\ Len(requests') \in Nat
      /\ responses' \in Seq(TWaiting) /\ Len(responses') <= Len(responses)
      /\ Len(responses') \in Nat
  <2>1. requests \in Seq(Number) /\ responses \in Seq(TWaiting)
    BY DEF ClientInv, TypeOK
  <2>2. CASE OtherWrite \/ ChangeRole
    BY <2>1, <2>2 DEF OtherWrite, ChangeRole, netVars
  <2>3. CASE Close
    <3>1. requests' = <<>>
      BY <2>3 DEF Close
    <3>2. PICK k \in 0..Len(responses) : responses' = SubSeq(responses, 1, k)
      BY <2>3 DEF Close
    <3>3. /\ SubSeq(responses, 1, k) \in Seq(TWaiting)
          /\ Len(SubSeq(responses, 1, k)) = k /\ k \in Nat /\ k <= Len(responses)
      BY <2>1, <3>2
    <3>4. <<>> \in Seq(Number) /\ Len(<<>>) = 0
      OBVIOUS
    <3>5. QED
      BY <3>1, <3>2, <3>3, <3>4, WindowTypes
  <2>4. QED
    BY <2>2, <2>3
<1>5. TypeOK'
  BY <1>1, <1>2, <1>3, <1>4 DEF ClientInv, TypeOK
<1>6. Len(requests') + Cardinality(waiting) + Len(responses') + Pending <= Len(times)
  <2>1. Len(requests) + Cardinality(waiting) + Len(responses) + Pending <= Len(times)
    BY DEF ClientInv, WindowInv
  <2>2. QED
    BY <1>4, <2>1, CountTypes
<1>7. WindowInv'
  BY <1>1, <1>6 DEF ClientInv, WindowInv, Pending
<1>8. QED
  BY <1>5, <1>7 DEF ClientInv

LEMMA WindowStep == ClientInv /\ [Next]_vars => ClientInv'
<1> SUFFICES ASSUME ClientInv, [Next]_vars PROVE ClientInv'
  OBVIOUS
<1>1. CASE UNCHANGED vars
  BY <1>1 DEF vars, inputVars, windowVars, netVars, serverVars, ClientInv, TypeOK, WindowInv,
     Pending
<1>2. QED
  BY <1>1, WindowInput, WindowResponse, WindowRequest, WindowWaiting, WindowExternal DEF Next

LEMMA ClientInvCorrect == Spec => []ClientInv
  BY WindowInit, WindowStep, PTL DEF Spec

\* The types of Client's variables, for any input, window and log.
THEOREM ClientTypeCorrect == Spec => []TypeOK
  BY ClientInvCorrect, PTL DEF ClientInv

\* A response always finds the time of a command at the front of the queue, whichever
\* coroutine takes it and whatever the server drops; and without SSL inflight is the
\* length of that queue and within the window.
THEOREM EveryResponseHasItsTime == Spec => []OneTimePerCommand
<1>1. ClientInv => OneTimePerCommand
  <2> SUFFICES ASSUME ClientInv PROVE OneTimePerCommand
    OBVIOUS
  <2>1. Len(requests) + Cardinality(waiting) + Len(responses) + Pending <= Len(times)
    BY DEF ClientInv, WindowInv
  <2>2. Len(requests) + Cardinality(waiting) + Len(responses) <= Len(times)
    BY <2>1, WindowTypes
  <2>3. QED
    BY <2>2 DEF OneTimePerCommand, ClientInv, WindowInv
<1>2. QED
  BY <1>1, ClientInvCorrect, PTL

-----------------------------------------------------------------------------
(***************************************************************************)
(* PairedByIndex.  While one server leads, the times are those of the      *)
(* responses, then of the commands that wait for their index, then of      *)
(* those that are not processed, in the order of the lines; and the        *)
(* indices were given in that order too, although two commands may have    *)
(* the same, so that whatever order the queue gives back is right.         *)
(***************************************************************************)

\* How many commands the server has processed, of those that are under way.
Taken == Len(responses) + Cardinality(waiting)

\* What OnCommandRequest added for the i-th time.
Waiter(i) == [Index |-> given[times[i]], line |-> times[i]]

TimesOrdered ==
    /\ \A i \in 1..Len(times) : times[i] <= line /\ (pc = "window" => times[i] < line)
    /\ \A i, j \in 1..Len(times) : i < j => times[i] < times[j]
    /\ pc = "writing" => times[Len(times)] = line

Aligned ==
    /\ Len(times) = Taken + Len(requests) + Pending
    /\ \A i \in 1..Len(responses) : responses[i].Index = given[times[i]]
    /\ \A i \in Len(responses) + 1 .. Taken : Waiter(i) \in waiting
    /\ \A w \in waiting : \E i \in Len(responses) + 1 .. Taken : w = Waiter(i)
    /\ \A i \in 1..Len(requests) : requests[i] = times[Taken + i]

GivenOrdered ==
    /\ \A i \in 1..Taken : given[times[i]] <= logSize
    /\ \A i, j \in 1..Taken : i < j => given[times[i]] <= given[times[j]]

PrintedPaired ==
    \A p \in printed :
        /\ p.Index = given[p.time]
        /\ p.time <= line /\ (pc = "window" => p.time < line)
        /\ \A i \in 1..Len(times) : p.time < times[i]

PairInv == server = "leads" /\ TimesOrdered /\ Aligned /\ GivenOrdered /\ PrintedPaired

LEMMA PairTypes ==
  ASSUME ClientInv, PairInv
  PROVE  /\ times \in Seq(Number) /\ requests \in Seq(Number) /\ responses \in Seq(TWaiting)
         /\ Taken \in Nat /\ Len(responses) <= Taken /\ Taken <= Len(times)
         /\ Taken + Len(requests) <= Len(times)
         /\ \A i \in 1..Len(times) : times[i] \in Number /\ times[i] \in Nat
         /\ \A l \in Number : given[l] \in Index \cup {0} /\ given[l] \in Nat
         /\ \A i \in 1..Len(times) : given[times[i]] \in Nat
         /\ \A p \in printed : p.time \in Number /\ p.time \in Nat
<1>1. times \in Seq(Number) /\ requests \in Seq(Number) /\ responses \in Seq(TWaiting)
  BY DEF ClientInv, TypeOK
<1>2. Taken \in Nat /\ Len(responses) <= Taken
  BY CountTypes DEF Taken
<1>3. Taken <= Len(times) /\ Taken + Len(requests) <= Len(times)
  <2>1. Len(times) = Taken + Len(requests) + Pending
    BY DEF PairInv, Aligned
  <2> HIDE DEF Taken
  <2>2. QED
    BY <1>2, <2>1, CountTypes
<1>4. \A i \in 1..Len(times) : times[i] \in Number /\ times[i] \in Nat
  <2>1. \A i \in 1..Len(times) : times[i] \in Number
    BY <1>1
  <2>2. \A l \in Number : l \in Nat
    BY DEF Number
  <2>3. QED
    BY <2>1, <2>2
<1>5. \A l \in Number : given[l] \in Index \cup {0} /\ given[l] \in Nat
  BY DEF ClientInv, TypeOK, Index
<1>6. \A p \in printed : p.time \in Number /\ p.time \in Nat
  BY DEF ClientInv, TypeOK, Printed, Number
<1>7. QED
  BY <1>1, <1>2, <1>3, <1>4, <1>5, <1>6

LEMMA PairInit == Init => PairInv
<1> SUFFICES ASSUME Init PROVE PairInv
  OBVIOUS
<1>1. /\ pc = "line" /\ times = <<>> /\ printed = {} /\ requests = <<>> /\ responses = <<>>
      /\ server = "leads" /\ waiting = {}
  BY DEF Init
<1>2. Len(<<>>) = 0 /\ 1..0 = {} /\ 0 + 1 .. 0 = {}
  OBVIOUS
<1>3. Taken = 0
  BY <1>1, <1>2, FS_EmptySet DEF Taken
<1>4. QED
  BY <1>1, <1>2, <1>3 DEF PairInv, TimesOrdered, Aligned, GivenOrdered, PrintedPaired, Pending

\* The time of a new line goes behind the times of all lines before it.
LEMMA PairStart ==
  ASSUME ClientInv, PairInv, NEW l \in Number, Start(l), line' = l, pc # "writing",
         \A i \in 1..Len(times) : times[i] < l,
         \A p \in printed : p.time < l,
         UNCHANGED <<Ssl, reader, printed, netVars, serverVars>>
  PROVE  PairInv'
<1>1. /\ pc' = "writing" /\ times' = Append(times, l) /\ line' = l
      /\ UNCHANGED <<Ssl, reader, printed, requests, responses, server, logSize,
                     lastApplied, waiting, given, steady>>
  BY DEF Start, Stamped, netVars, serverVars
<1>2. /\ Taken \in Nat /\ Taken <= Len(times) /\ Len(responses) <= Taken
      /\ Taken + Len(requests) <= Len(times)
      /\ Len(times) \in Nat /\ Len(requests) \in Nat /\ Len(responses) \in Nat
  BY PairTypes, CountTypes
<1>3. times \in Seq(Number) /\ l \in Nat /\ \A i \in 1..Len(times) : times[i] \in Nat
  BY PairTypes DEF Number
<1>4. /\ Len(times') = Len(times) + 1
      /\ \A i \in 1..Len(times) : times'[i] = times[i]
      /\ times'[Len(times) + 1] = l
  BY <1>1, <1>3
<1>5. /\ Pending = 0 /\ Pending' = 1 /\ Taken' = Taken
      /\ \A i \in 1..Len(times) : Waiter(i)' = Waiter(i)
  BY <1>1, <1>4 DEF Pending, Taken, Waiter
<1>6. \A i \in 1..Len(times') : i \in 1..Len(times) \/ (i = Len(times) + 1 /\ times'[i] = l)
  BY <1>2, <1>4
<1>7. TimesOrdered'
  <2>1. \A i \in 1..Len(times') : times'[i] <= l
    BY <1>2, <1>3, <1>4, <1>6
  <2>2. \A i, j \in 1..Len(times') : i < j => times'[i] < times'[j]
    <3> SUFFICES ASSUME NEW i \in 1..Len(times'), NEW j \in 1..Len(times'), i < j
                 PROVE  times'[i] < times'[j]
      OBVIOUS
    <3>1. i \in 1..Len(times) /\ times'[i] = times[i]
      BY <1>2, <1>4
    <3>2. CASE j \in 1..Len(times)
      BY <1>4, <3>1, <3>2 DEF PairInv, TimesOrdered
    <3>3. CASE j = Len(times) + 1
      BY <1>4, <3>1, <3>3
    <3>4. QED
      BY <1>6, <3>2, <3>3
  <2>3. QED
    BY <1>1, <1>4, <2>1, <2>2 DEF TimesOrdered
<1>8. Aligned'
  <2>1. Len(times') = Taken' + Len(requests') + Pending'
    <3>1. Len(times) = Taken + Len(requests) + Pending
      BY DEF PairInv, Aligned
    <3>2. Len(requests') = Len(requests)
      BY <1>1
    <3>3. QED
      BY <1>2, <1>4, <1>5, <3>1, <3>2
  <2>2. \A i \in 1..Taken : i \in 1..Len(times)
    BY <1>2
  <2>3. \A i \in 1..Len(responses) : responses[i].Index = given[times'[i]]
    <3>1. \A i \in 1..Len(responses) : i \in 1..Taken
      BY <1>2
    <3>2. QED
      BY <1>4, <2>2, <3>1 DEF PairInv, Aligned
  <2>4. \A i \in Len(responses) + 1 .. Taken : i \in 1..Taken
    BY <1>2
  <2>5. \A i \in Len(responses) + 1 .. Taken : Waiter(i)' = Waiter(i)
    BY <1>5, <2>2, <2>4
  <2>6. \A i \in 1..Len(requests) : requests[i] = times'[Taken + i]
    <3>1. \A i \in 1..Len(requests) : Taken + i \in 1..Len(times)
      BY <1>2
    <3>2. QED
      BY <1>4, <3>1 DEF PairInv, Aligned
  <2>7. /\ \A i \in Len(responses) + 1 .. Taken : Waiter(i)' \in waiting
        /\ \A w \in waiting : \E i \in Len(responses) + 1 .. Taken : w = Waiter(i)'
    BY <2>5 DEF PairInv, Aligned
  <2>8. QED
    BY <1>1, <1>5, <2>1, <2>3, <2>6, <2>7 DEF Aligned
<1>9. GivenOrdered'
  <2>1. \A i \in 1..Taken : times'[i] = times[i]
    BY <1>2, <1>4
  <2>2. QED
    BY <1>1, <1>5, <2>1 DEF PairInv, GivenOrdered
<1>10. PrintedPaired'
  <2> SUFFICES ASSUME NEW p \in printed
               PROVE  /\ p.Index = given[p.time] /\ p.time <= l
                      /\ \A i \in 1..Len(times') : p.time < times'[i]
    BY <1>1 DEF PrintedPaired
  <2>1. p.Index = given[p.time] /\ p.time \in Nat /\ p.time < l
    BY PairTypes DEF PairInv, PrintedPaired
  <2>2. \A i \in 1..Len(times') : p.time < times'[i]
    BY <1>4, <1>6, <2>1 DEF PairInv, PrintedPaired
  <2>3. QED
    BY <1>3, <2>1, <2>2
<1>11. QED
  BY <1>1, <1>7, <1>8, <1>9, <1>10 DEF PairInv

LEMMA PairInput ==
  ASSUME ClientInv, PairInv, ReadLine \/ Yielded \/ Write \/ Resume \/ Finish
  PROVE  PairInv'
<1>1. line \in Nat /\ \A i \in 1..Len(times) : times[i] \in Nat
  BY PairTypes, WindowTypes
<1>2. \A p \in printed : p.time \in Nat
  BY PairTypes
<1>3. server = "leads" /\ TimesOrdered /\ Aligned /\ GivenOrdered /\ PrintedPaired
  BY DEF PairInv
<1>4. CASE ReadLine
  <2>1. /\ pc = "line" /\ line < Lines /\ line' = line + 1
        /\ UNCHANGED <<Ssl, reader, printed, netVars, serverVars>>
    BY <1>4 DEF ReadLine
  <2>2. /\ \A i \in 1..Len(times) : times[i] < line + 1
        /\ \A p \in printed : p.time < line + 1
    BY <1>1, <1>2, <1>3 DEF TimesOrdered, PrintedPaired
  <2>3. line + 1 \in Number
    BY <2>1, WindowTypes DEF Number
  <2>4. CASE pc' = "window" /\ UNCHANGED <<times, inflight>>
    <3>1. UNCHANGED <<times, requests, responses, printed, server, logSize, waiting, given>>
      BY <2>1, <2>4 DEF netVars, serverVars
    <3>2. Taken' = Taken /\ Pending' = Pending /\ \A i : Waiter(i)' = Waiter(i)
      BY <2>1, <2>4, <3>1 DEF Taken, Pending, Waiter
    <3>3. TimesOrdered'
      BY <1>1, <1>3, <2>1, <2>2, <2>4, <3>1 DEF TimesOrdered
    <3>4. Aligned' /\ GivenOrdered'
      BY <1>3, <3>1, <3>2 DEF Aligned, GivenOrdered
    <3>5. PrintedPaired'
      BY <1>1, <1>2, <1>3, <2>1, <2>2, <3>1 DEF PrintedPaired
    <3>6. QED
      BY <1>3, <3>1, <3>3, <3>4, <3>5 DEF PairInv
  <2>5. CASE Start(line + 1)
    BY <2>1, <2>2, <2>3, <2>5, PairStart
  <2>6. QED
    BY <1>4, <2>4, <2>5 DEF ReadLine
<1>5. CASE Yielded
  <2>1. /\ pc = "window" /\ Start(line) /\ line' = line
        /\ UNCHANGED <<Ssl, reader, printed, netVars, serverVars>>
    BY <1>5 DEF Yielded
  <2>2. /\ \A i \in 1..Len(times) : times[i] < line
        /\ \A p \in printed : p.time < line
    BY <1>3, <2>1 DEF TimesOrdered, PrintedPaired
  <2>3. line \in Number
    BY <2>1, WindowTypes DEF ClientInv, WindowInv, Number
  <2>4. QED
    BY <2>1, <2>2, <2>3, PairStart
<1>6. CASE Write
  <2>1. /\ pc = "writing" /\ requests' = Append(requests, line)
        /\ pc' = "written"
        /\ UNCHANGED <<line, times, printed, responses, server, logSize, waiting, given>>
    BY <1>3, <1>6 DEF Write, windowVars, serverVars
  <2>2. line \in Number /\ requests \in Seq(Number) /\ Taken \in Nat /\ Len(requests) \in Nat
    BY SMTT(30), <2>1, PairTypes, WindowTypes DEF ClientInv, WindowInv, Number
  <2>3. /\ Len(requests') = Len(requests) + 1
        /\ \A i \in 1..Len(requests) : requests'[i] = requests[i]
        /\ requests'[Len(requests) + 1] = line
    BY <2>1, <2>2
  <2>4. /\ Pending = 1 /\ Pending' = 0 /\ Taken' = Taken
        /\ \A i : Waiter(i)' = Waiter(i)
    BY <2>1 DEF Pending, Taken, Waiter
  <2>5. Len(times) = Taken + Len(requests) + 1 /\ times[Len(times)] = line
    BY <1>3, <2>1, <2>4 DEF Aligned, TimesOrdered
  <2>6. TimesOrdered'
    BY <1>3, <2>1 DEF TimesOrdered
  <2>7. Aligned'
    <3>1. Len(times) = Taken + Len(requests') + 0
      BY <2>2, <2>3, <2>5
    <3>2. \A i \in 1..Len(requests') : requests'[i] = times[Taken + i]
      <4> SUFFICES ASSUME NEW i \in 1..Len(requests') PROVE requests'[i] = times[Taken + i]
        OBVIOUS
      <4>1. CASE i \in 1..Len(requests)
        BY <1>3, <2>3, <4>1 DEF Aligned
      <4>2. CASE i = Len(requests) + 1
        <5>1. Taken + i = Len(times)
          BY <2>2, <2>5, <4>2
        <5>2. QED
          BY <2>3, <2>5, <4>2, <5>1
      <4>3. QED
        BY <2>2, <2>3, <4>1, <4>2
    <3>3. QED
      BY <1>3, <2>1, <2>4, <3>1, <3>2 DEF Aligned
  <2>8. GivenOrdered' /\ PrintedPaired'
    BY <1>3, <2>1, <2>4 DEF GivenOrdered, PrintedPaired
  <2>9. QED
    BY <1>3, <2>1, <2>6, <2>7, <2>8 DEF PairInv
<1>7. CASE Resume
  <2>1. /\ pc = "written" /\ pc' \in {"reply", "line"}
        /\ UNCHANGED <<line, times, printed, requests, responses, server, logSize,
                       waiting, given>>
    BY <1>7 DEF Resume, windowVars, netVars, serverVars
  <2>2. Taken' = Taken /\ Pending' = Pending /\ \A i : Waiter(i)' = Waiter(i)
    BY <2>1 DEF Taken, Pending, Waiter
  <2>3. TimesOrdered' /\ Aligned' /\ GivenOrdered' /\ PrintedPaired'
    BY <1>3, <2>1, <2>2 DEF TimesOrdered, Aligned, GivenOrdered, PrintedPaired
  <2>4. QED
    BY <1>3, <2>1, <2>3 DEF PairInv
<1>8. CASE Finish
  <2>1. /\ pc = "line" /\ pc' = "done"
        /\ UNCHANGED <<line, times, printed, requests, responses, server, logSize,
                       waiting, given>>
    BY <1>3, <1>8 DEF Finish, netVars, serverVars
  <2>2. Taken' = Taken /\ Pending' = Pending /\ \A i : Waiter(i)' = Waiter(i)
    BY <2>1 DEF Taken, Pending, Waiter
  <2>3. TimesOrdered' /\ Aligned' /\ GivenOrdered' /\ PrintedPaired'
    BY <1>3, <2>1, <2>2 DEF TimesOrdered, Aligned, GivenOrdered, PrintedPaired
  <2>4. QED
    BY <1>3, <2>1, <2>3 DEF PairInv
<1>9. QED
  BY <1>4, <1>5, <1>6, <1>7, <1>8

\* A response takes the first time, which is that of its command.
LEMMA PairResponse ==
  ASSUME ClientInv, PairInv, ReadResponse \/ SslReadResponse
  PROVE  PairInv'
<1> DEFINE p0 == [time |-> Head(times), Index |-> Head(responses).Index]
<1>1. /\ responses # <<>> /\ responses' = Tail(responses) /\ times' = Tail(times)
      /\ printed' = printed \cup {p0}
      /\ UNCHANGED <<line, requests, server, logSize, waiting, given>>
      /\ pc' = pc \/ (pc = "reply" /\ pc' = "line")
  BY DEF ReadResponse, SslReadResponse, Pop, inputVars, serverVars
<1>2. server = "leads" /\ TimesOrdered /\ Aligned /\ GivenOrdered /\ PrintedPaired
  BY DEF PairInv
<1>3. /\ Taken \in Nat /\ Taken <= Len(times) /\ Len(responses) <= Taken
      /\ Taken + Len(requests) <= Len(times)
      /\ Len(times) \in Nat /\ Len(requests) \in Nat /\ Len(responses) \in Nat
      /\ line \in Nat
  BY PairTypes, CountTypes, WindowTypes
<1>4. /\ times \in Seq(Number) /\ responses \in Seq(TWaiting)
      /\ \A i \in 1..Len(times) : times[i] \in Nat
      /\ \A p \in printed : p.time \in Nat
  BY PairTypes
<1>5. Len(responses) >= 1 /\ Len(times) >= 1
  BY <1>1, <1>3, <1>4
<1>6. /\ Len(times') = Len(times) - 1
      /\ \A i \in 1..Len(times) - 1 : times'[i] = times[i + 1]
      /\ Head(times) = times[1]
  BY <1>1, <1>3, <1>4, <1>5
<1>7. /\ Len(responses') = Len(responses) - 1
      /\ \A i \in 1..Len(responses) - 1 : responses'[i] = responses[i + 1]
      /\ Head(responses) = responses[1]
  BY <1>1, <1>3, <1>4, <1>5
<1>8. Taken' = Taken - 1
  BY <1>1, <1>3, <1>7, CountTypes DEF Taken
<1>9. Pending' = Pending /\ (pc' \in {"window", "writing"} => pc' = pc)
  BY <1>1 DEF Pending
<1>10. \A i \in 1..Len(times) - 1 : i + 1 \in 1..Len(times) /\ Waiter(i)' = Waiter(i + 1)
  BY <1>1, <1>3, <1>6 DEF Waiter
<1>11. 1 \in 1..Len(times) /\ 1 \in 1..Len(responses)
  BY <1>3, <1>5
<1>12. p0.time = times[1] /\ p0.Index = given[times[1]]
  BY <1>2, <1>6, <1>7, <1>11 DEF Aligned
<1> HIDE DEF p0
<1>13. TimesOrdered'
  <2>1. \A i \in 1..Len(times') : times'[i] <= line /\ (pc' = "window" => times'[i] < line)
    BY <1>2, <1>6, <1>9, <1>10 DEF TimesOrdered
  <2>2. \A i, j \in 1..Len(times') : i < j => times'[i] < times'[j]
    <3> SUFFICES ASSUME NEW i \in 1..Len(times'), NEW j \in 1..Len(times'), i < j
                 PROVE  times'[i] < times'[j]
      OBVIOUS
    <3>1. i + 1 \in 1..Len(times) /\ j + 1 \in 1..Len(times) /\ i + 1 < j + 1
      BY <1>3, <1>6
    <3>2. QED
      BY <1>2, <1>6, <3>1 DEF TimesOrdered
  <2>3. pc' = "writing" => times'[Len(times')] = line
    <3> SUFFICES ASSUME pc' = "writing" PROVE times'[Len(times')] = line
      OBVIOUS
    <3>1. pc = "writing" /\ Pending = 1
      BY <1>9 DEF Pending
    <3>2. Len(times) = Taken + Len(requests) + Pending
      BY <1>2 DEF Aligned
    <3>3. Len(times) - 1 \in 1..Len(times) - 1
      BY <1>3, <1>5, <3>1, <3>2
    <3>4. times'[Len(times) - 1] = times[(Len(times) - 1) + 1] /\ (Len(times) - 1) + 1 = Len(times)
      BY <1>3, <1>6, <3>3
    <3>5. QED
      BY <1>2, <1>6, <3>1, <3>4 DEF TimesOrdered
  <2>4. QED
    BY <1>1, <2>1, <2>2, <2>3 DEF TimesOrdered
<1>14. Aligned'
  <2>1. Len(times') = Taken' + Len(requests') + Pending'
    <3>1. Len(times) = Taken + Len(requests) + Pending
      BY <1>2 DEF Aligned
    <3>2. Len(requests') = Len(requests) /\ Pending \in Nat
      BY <1>1, CountTypes
    <3>3. QED
      BY <1>3, <1>6, <1>8, <1>9, <3>1, <3>2
  <2>2. \A i \in 1..Len(responses') : responses'[i].Index = given[times'[i]]
    <3>1. \A i \in 1..Len(responses') :
             i \in 1..Len(times) - 1 /\ i \in 1..Len(responses) - 1 /\ i + 1 \in 1..Len(responses)
      BY <1>3, <1>7
    <3>2. QED
      BY <1>2, <1>6, <1>7, <3>1 DEF Aligned
  <2>3. \A i \in Len(responses') + 1 .. Taken' :
           i \in 1..Len(times) - 1 /\ i + 1 \in Len(responses) + 1 .. Taken
    BY <1>3, <1>7, <1>8
  <2>4. \A i \in Len(responses') + 1 .. Taken' : Waiter(i)' \in waiting
    BY <1>2, <1>10, <2>3 DEF Aligned
  <2>5. \A w \in waiting : \E i \in Len(responses') + 1 .. Taken' : w = Waiter(i)'
    <3> SUFFICES ASSUME NEW w \in waiting
                 PROVE  \E i \in Len(responses') + 1 .. Taken' : w = Waiter(i)'
      OBVIOUS
    <3>1. PICK i \in Len(responses) + 1 .. Taken : w = Waiter(i)
      BY <1>2 DEF Aligned
    <3>2. /\ i - 1 \in Len(responses') + 1 .. Taken' /\ i - 1 \in 1..Len(times) - 1
          /\ (i - 1) + 1 = i
      BY <1>3, <1>5, <1>7, <1>8, <3>1
    <3>3. Waiter(i - 1)' = Waiter(i)
      BY <1>10, <3>2
    <3>4. QED
      BY <3>1, <3>2, <3>3
  <2>6. \A i \in 1..Len(requests) : requests[i] = times'[Taken' + i]
    <3> SUFFICES ASSUME NEW i \in 1..Len(requests) PROVE requests[i] = times'[Taken' + i]
      OBVIOUS
    <3>1. Taken' + i \in 1..Len(times) - 1 /\ (Taken' + i) + 1 = Taken + i
      BY <1>3, <1>5, <1>8
    <3>2. QED
      BY <1>2, <1>6, <3>1 DEF Aligned
  <2>7. QED
    BY <1>1, <2>1, <2>2, <2>4, <2>5, <2>6 DEF Aligned
<1>15. GivenOrdered'
  <2>1. \A i \in 1..Taken' : i \in 1..Len(times) - 1 /\ i + 1 \in 1..Taken
    BY <1>3, <1>8
  <2>2. \A i \in 1..Taken' : given[times'[i]] = given[times[i + 1]]
    BY <1>6, <2>1
  <2>3. \A i, j \in 1..Taken' : i < j => i + 1 < j + 1
    OBVIOUS
  <2>4. QED
    BY <1>1, <1>2, <2>1, <2>2, <2>3 DEF GivenOrdered
<1>16. PrintedPaired'
  <2> SUFFICES ASSUME NEW p \in printed'
               PROVE  /\ p.Index = given[p.time]
                      /\ p.time <= line /\ (pc' = "window" => p.time < line)
                      /\ \A i \in 1..Len(times') : p.time < times'[i]
    BY <1>1 DEF PrintedPaired
  <2>1. CASE p \in printed
    BY <1>2, <1>6, <1>9, <1>10, <2>1 DEF PrintedPaired
  <2>2. CASE p = p0
    <3>1. p.time <= line /\ (pc' = "window" => p.time < line)
      BY <1>2, <1>9, <1>11, <1>12, <2>2 DEF TimesOrdered
    <3>2. \A i \in 1..Len(times') : i + 1 \in 1..Len(times) /\ 1 < i + 1
      BY <1>3, <1>6
    <3>3. \A i \in 1..Len(times') : p.time < times'[i]
      BY <1>2, <1>6, <1>11, <1>12, <2>2, <3>2 DEF TimesOrdered
    <3>4. QED
      BY <1>12, <2>2, <3>1, <3>3
  <2>3. QED
    BY <1>1, <2>1, <2>2
<1>17. QED
  BY <1>1, <1>2, <1>13, <1>14, <1>15, <1>16 DEF PairInv

\* The next command gets an index that is not below those before it.
LEMMA PairRequest ==
  ASSUME ClientInv, PairInv, OnCommandRequest
  PROVE  PairInv'
<1> DEFINE l == Head(requests)
           index == IF IsRead(l) THEN logSize ELSE logSize + 1
           new == [Index |-> index, line |-> l]
<1>1. server = "leads" /\ TimesOrdered /\ Aligned /\ GivenOrdered /\ PrintedPaired
  BY DEF PairInv
<1>2. /\ requests # <<>> /\ requests' = Tail(requests)
      /\ logSize' = index
      /\ waiting' = waiting \cup {new}
      /\ given' = [given EXCEPT ![l] = index]
      /\ UNCHANGED <<line, pc, times, printed, responses, server>>
  BY <1>1 DEF OnCommandRequest, inputVars, windowVars
<1>3. /\ Taken \in Nat /\ Taken <= Len(times) /\ Len(responses) <= Taken
      /\ Taken + Len(requests) <= Len(times)
      /\ Len(times) \in Nat /\ Len(requests) \in Nat /\ Len(responses) \in Nat
      /\ logSize \in Nat /\ Cardinality(waiting) \in Nat
  BY PairTypes, CountTypes, WindowTypes
<1>4. /\ requests \in Seq(Number)
      /\ \A i \in 1..Len(times) : times[i] \in Number /\ times[i] \in Nat
      /\ \A p \in printed : p.time \in Number /\ p.time \in Nat
      /\ \A i \in 1..Len(times) : given[times[i]] \in Nat
  BY PairTypes
<1>5. given \in [Number -> Index \cup {0}] /\ IsFiniteSet(waiting)
  BY DEF ClientInv, TypeOK, WindowInv
<1>6. /\ Len(requests) >= 1 /\ Len(requests') = Len(requests) - 1
      /\ \A i \in 1..Len(requests) - 1 : requests'[i] = requests[i + 1]
      /\ l = requests[1]
  BY <1>2, <1>3, <1>4
<1>7. /\ Taken + 1 \in 1..Len(times) /\ l = times[Taken + 1]
      /\ l \in Number /\ l \in Nat
  <2>1. Taken + 1 \in 1..Len(times) /\ 1 \in 1..Len(requests)
    BY <1>3, <1>6
  <2>2. requests[1] = times[Taken + 1]
    BY <1>1, <2>1 DEF Aligned
  <2>3. QED
    BY <1>4, <1>6, <2>1, <2>2
<1>8. index \in Nat /\ logSize <= index
  BY <1>3
<1>9. /\ given'[l] = index
      /\ \A k \in Number : k # l => given'[k] = given[k]
  BY <1>2, <1>5, <1>7
<1> HIDE DEF index, l
<1>10. \A i \in 1..Taken : /\ i \in 1..Len(times) /\ times[i] # l
                           /\ given'[times[i]] = given[times[i]]
  <2> SUFFICES ASSUME NEW i \in 1..Taken
               PROVE  /\ i \in 1..Len(times) /\ times[i] # l
                      /\ given'[times[i]] = given[times[i]]
    OBVIOUS
  <2>1. i \in 1..Len(times) /\ i < Taken + 1
    BY <1>3
  <2>2. times[i] < l /\ times[i] \in Nat /\ times[i] \in Number
    BY <1>1, <1>4, <1>7, <2>1 DEF TimesOrdered
  <2>3. times[i] # l
    BY <1>7, <2>2
  <2>4. QED
    BY <1>9, <2>1, <2>2, <2>3
<1>11. new \notin waiting
  <2> SUFFICES ASSUME new \in waiting PROVE FALSE
    OBVIOUS
  <2>1. PICK i \in Len(responses) + 1 .. Taken : new = Waiter(i)
    BY <1>1 DEF Aligned
  <2>2. l = times[i] /\ i \in 1..Taken
    BY <1>3, <2>1 DEF Waiter
  <2>3. QED
    BY <1>10, <2>2
<1>12. PICK k \in Nat : k = Taken + 1
  BY <1>3
<1>13. /\ \A i \in 1..Taken : Waiter(i)' = Waiter(i)
       /\ Waiter(k)' = new
  BY <1>2, <1>7, <1>9, <1>10, <1>12 DEF Waiter
<1> HIDE DEF new
<1>14. Taken' = Taken + 1
  <2>1. Cardinality(waiting') = Cardinality(waiting) + 1
    BY <1>2, <1>5, <1>11, FS_AddElement
  <2>2. QED
    BY <1>2, <1>3, <2>1 DEF Taken
<1>15. Pending' = Pending /\ TimesOrdered'
  BY <1>1, <1>2 DEF Pending, TimesOrdered
<1>16. Aligned'
  <2>1. Len(times') = Taken' + Len(requests') + Pending'
    <3>1. Len(times) = Taken + Len(requests) + Pending /\ Pending \in Nat
      BY <1>1, CountTypes DEF Aligned
    <3>2. Len(times') = Len(times)
      BY <1>2
    <3>3. QED
      BY <1>3, <1>6, <1>14, <1>15, <3>1, <3>2
  <2>2. \A i \in 1..Len(responses) : responses[i].Index = given'[times[i]]
    <3>1. \A i \in 1..Len(responses) : i \in 1..Taken
      BY <1>3
    <3>2. QED
      BY <1>1, <1>10, <3>1 DEF Aligned
  <2>3. \A i \in Len(responses) + 1 .. Taken' :
           (i \in Len(responses) + 1 .. Taken /\ i \in 1..Taken) \/ i = k
    BY <1>3, <1>12, <1>14
  <2>4. \A i \in Len(responses) + 1 .. Taken' : Waiter(i)' \in waiting'
    BY <1>1, <1>2, <1>13, <2>3 DEF Aligned
  <2>5. \A w \in waiting' : \E i \in Len(responses) + 1 .. Taken' : w = Waiter(i)'
    <3> SUFFICES ASSUME NEW w \in waiting'
                 PROVE  \E i \in Len(responses) + 1 .. Taken' : w = Waiter(i)'
      OBVIOUS
    <3>1. CASE w \in waiting
      <4>1. PICK i \in Len(responses) + 1 .. Taken : w = Waiter(i)
        BY <1>1, <3>1 DEF Aligned
      <4>2. i \in Len(responses) + 1 .. Taken' /\ i \in 1..Taken
        BY <1>3, <1>14, <4>1
      <4>3. QED
        BY <1>13, <4>1, <4>2
    <3>2. CASE w = new
      <4>1. k \in Len(responses) + 1 .. Taken'
        BY <1>3, <1>12, <1>14
      <4>2. QED
        BY <1>13, <3>2, <4>1
    <3>3. QED
      BY <1>2, <3>1, <3>2
  <2>6. \A i \in 1..Len(requests') : requests'[i] = times[Taken' + i]
    <3> SUFFICES ASSUME NEW i \in 1..Len(requests') PROVE requests'[i] = times[Taken' + i]
      OBVIOUS
    <3>1. /\ i \in 1..Len(requests) - 1 /\ i + 1 \in 1..Len(requests)
          /\ Taken + (i + 1) = Taken' + i
      BY <1>3, <1>6, <1>14
    <3>2. requests[i + 1] = times[Taken + (i + 1)]
      BY <1>1, <3>1 DEF Aligned
    <3>3. QED
      BY <1>6, <3>1, <3>2
  <2>7. QED
    BY <1>2, <2>1, <2>2, <2>4, <2>5, <2>6 DEF Aligned
<1>17. GivenOrdered'
  <2>1. \A i \in 1..Taken' : i \in 1..Taken \/ i = Taken + 1
    BY <1>3, <1>14
  <2>2. given'[times[Taken + 1]] = index
    BY <1>7, <1>9
  <2>3. \A i \in 1..Taken : given'[times[i]] <= logSize /\ given'[times[i]] \in Nat
    BY <1>1, <1>4, <1>10 DEF GivenOrdered
  <2>4. \A i \in 1..Taken' : given'[times[i]] <= index
    BY <1>3, <1>8, <2>1, <2>2, <2>3
  <2>5. \A i, j \in 1..Taken' : i < j => given'[times[i]] <= given'[times[j]]
    <3> SUFFICES ASSUME NEW i \in 1..Taken', NEW j \in 1..Taken', i < j
                 PROVE  given'[times[i]] <= given'[times[j]]
      OBVIOUS
    <3>1. i \in 1..Taken
      BY <1>3, <1>14
    <3>2. CASE j \in 1..Taken
      BY <1>1, <1>10, <3>1, <3>2 DEF GivenOrdered
    <3>3. CASE j = Taken + 1
      BY <2>2, <2>4, <3>3
    <3>4. QED
      BY <2>1, <3>2, <3>3
  <2>6. QED
    BY <1>2, <2>4, <2>5 DEF GivenOrdered
<1>18. PrintedPaired'
  <2> SUFFICES ASSUME NEW p \in printed PROVE p.Index = given'[p.time]
    BY <1>1, <1>2 DEF PrintedPaired
  <2>1. p.Index = given[p.time] /\ p.time < l
    BY <1>1, <1>7 DEF PrintedPaired
  <2>2. p.time \in Number /\ p.time # l
    BY <1>4, <1>7, <2>1
  <2>3. QED
    BY <1>9, <2>1, <2>2
<1>19. QED
  BY <1>1, <1>2, <1>15, <1>16, <1>17, <1>18 DEF PairInv

-----------------------------------------------------------------------------
(* The order in which the queue gives back what waits                       *)

LEMMA LeastIndex ==
  ASSUME NEW T, T \subseteq Nat, T # {}
  PROVE  \E x \in T : \A y \in T : x <= y
<1>1. PICK x \in T : \A y \in T : ~ (<<y, x>> \in OpToRel(<, Nat))
  BY NatLessThanWellFounded, WFMin
<1>2. \A y \in T : ~ (y < x)
  BY <1>1 DEF OpToRel
<1>3. QED
  BY <1>2

LEMMA UpTo ==
  ASSUME NEW n \in Nat
  PROVE  IsFiniteSet(1..n) /\ Cardinality(1..n) = n
<1>1. 1 \in Int /\ n \in Int
  OBVIOUS
<1>2. IsFiniteSet(1..n) /\ Cardinality(1..n) = IF 1 > n THEN 0 ELSE n - 1 + 1
  BY <1>1, FS_Interval
<1>3. QED
  BY <1>2

\* No function from k numbers to fewer tells them all apart.
LEMMA FewerNumbers ==
  ASSUME NEW k \in Nat, k > 0, NEW p \in [1..k -> 1..k - 1]
  PROVE  \E i, j \in 1..k : i # j /\ p[i] = p[j]
<1> DEFINE A == 1..k
           B == 1..k - 1
<1>1. k \in Nat /\ k - 1 \in Nat
  OBVIOUS
<1>2. IsFiniteSet(A) /\ Cardinality(A) = k
  BY <1>1, UpTo
<1>3. IsFiniteSet(B) /\ Cardinality(B) = k - 1
  BY <1>1, UpTo
<1>4. p \in [A -> B] /\ Cardinality(B) < Cardinality(A)
  BY <1>2, <1>3
<1> HIDE DEF A, B
<1>5. \E i, j \in A : i # j /\ p[i] = p[j]
  BY ZenonT(60), <1>2, <1>3, <1>4, FS_PigeonHole
<1>6. QED
  BY <1>5 DEF A

Ascends(s, n) == \A i, j \in 1..n : i < j => s[i].Index <= s[j].Index
Lists(s, n, S) == \A x \in S : \E i \in 1..n : s[i] = x
Distinct(s, n) == \A i, j \in 1..n : i # j => s[i] # s[j]

\* When s lists all that t lists and both are in order, s is nowhere above t: the
\* first k of t would all be among fewer than k of s.
LEMMA OrderedBelow ==
  ASSUME NEW S, \A x \in S : x.Index \in Nat, NEW n \in Nat,
         NEW s \in [1..n -> S], Lists(s, n, S), Ascends(s, n),
         NEW t \in [1..n -> S], Distinct(t, n), Ascends(t, n),
         NEW k \in 1..n
  PROVE  s[k].Index <= t[k].Index
<1> SUFFICES ASSUME ~ (s[k].Index <= t[k].Index) PROVE FALSE
  OBVIOUS
<1> DEFINE p == [j \in 1..k |-> CHOOSE i \in 1..n : s[i] = t[j]]
<1>0. \A i \in 1..n : s[i].Index \in Nat /\ t[i].Index \in Nat
  OBVIOUS
<1>1. \A j \in 1..k : j \in 1..n
  OBVIOUS
<1>2. \A j \in 1..k : p[j] \in 1..n /\ s[p[j]] = t[j]
  <2> SUFFICES ASSUME NEW j \in 1..k PROVE p[j] \in 1..n /\ s[p[j]] = t[j]
    OBVIOUS
  <2>1. t[j] \in S
    BY <1>1
  <2>2. \E i \in 1..n : s[i] = t[j]
    BY <2>1 DEF Lists
  <2>3. QED
    BY <2>2
<1>3. p \in [1..k -> 1..k - 1]
  <2>1. ASSUME NEW j \in 1..k PROVE p[j] \in 1..k - 1
    <3>1. PICK q \in 1..n : q = p[j] /\ s[q] = t[j]
      BY <1>2
    <3> HIDE DEF p
    <3>2. s[q].Index <= t[k].Index
      <4>1. j = k \/ (j < k /\ j \in 1..n)
        OBVIOUS
      <4>2. CASE j = k
        BY <1>0, <3>1, <4>2
      <4>3. CASE j < k /\ j \in 1..n
        BY <3>1, <4>3 DEF Ascends
      <4>4. QED
        BY <4>1, <4>2, <4>3
    <3>3. q # k
      BY <3>2
    <3>4. ~ (k < q)
      <4>1. k < q => s[k].Index <= s[q].Index
        BY DEF Ascends
      <4>2. s[k].Index \in Nat /\ s[q].Index \in Nat /\ t[k].Index \in Nat
        BY <1>0
      <4>3. QED
        BY <3>2, <4>1, <4>2
    <3>5. QED
      BY <3>1, <3>3, <3>4
  <2>2. QED
    BY <2>1
<1>4. k \in Nat /\ k > 0
  OBVIOUS
<1> HIDE DEF p
<1>5. PICK i, j \in 1..k : i # j /\ p[i] = p[j]
  BY <1>3, <1>4, FewerNumbers
<1>6. t[i] = t[j]
  BY <1>2, <1>5
<1>7. QED
  BY <1>1, <1>5, <1>6 DEF Distinct

\* So two lists of the same commands in order have the same indices.
LEMMA OrderedAlike ==
  ASSUME NEW S, \A x \in S : x.Index \in Nat, IsFiniteSet(S),
         NEW n \in Nat, n = Cardinality(S), NEW s \in Orders(S),
         NEW t \in [1..n -> S], Lists(t, n, S), Distinct(t, n), Ascends(t, n)
  PROVE  \A k \in 1..n : s[k].Index = t[k].Index
<1>1. s \in [1..n -> S] /\ Lists(s, n, S) /\ Ascends(s, n)
  <2>1. S \subseteq S
    OBVIOUS
  <2>2. /\ s \in [1..Cardinality(S) -> S]
        /\ \A x \in S : \E i \in 1..Cardinality(S) : s[i] = x
        /\ \A i, j \in 1..Cardinality(S) : i < j => s[i].Index <= s[j].Index
    BY ZenonT(60), <2>1, OrdersShape
  <2>3. QED
    BY <2>2 DEF Lists, Ascends
<1>2. s \in Surjection(1..n, S)
  BY <1>1 DEF Surjection, Lists
<1>3. s \in Injection(1..n, S)
  <2>1. IsFiniteSet(1..n) /\ Cardinality(1..n) = Cardinality(S)
    BY UpTo
  <2>2. QED
    BY <1>2, <2>1, FS_SurjSameCardinalityImpliesInj
<1>4. Distinct(s, n)
  BY <1>3 DEF Injection, IsInjective, Distinct
<1>5. ASSUME NEW k \in 1..n PROVE s[k].Index = t[k].Index
  <2>1. s[k].Index <= t[k].Index
    BY <1>1, OrderedBelow
  <2>2. t[k].Index <= s[k].Index
    BY <1>1, <1>4, OrderedBelow
  <2>3. s[k].Index \in Nat /\ t[k].Index \in Nat
    BY <1>1
  <2>4. QED
    BY <2>1, <2>2, <2>3
<1>6. QED
  BY <1>5

\* What waits and is committed is the first part of what waits; it is answered with
\* the right indices whatever order the queue gives it back in.
LEMMA PairWaiting ==
  ASSUME ClientInv, PairInv, ProcessWaiting
  PROVE  PairInv'
<1>1. PICK applied \in lastApplied..logSize :
        LET ready == {w \in waiting : w.Index <= applied}
        IN  /\ lastApplied' = applied
            /\ waiting' = waiting \ ready
            /\ \E s \in Orders(ready) : responses' = responses \o s
  BY DEF ProcessWaiting
<1> DEFINE ready == {w \in waiting : w.Index <= applied}
<1>2. server = "leads" /\ TimesOrdered /\ Aligned /\ GivenOrdered /\ PrintedPaired
  BY DEF PairInv
<1>3. PICK s \in Orders(ready) : responses' = responses \o s
  BY <1>1
<1>4. /\ waiting' = waiting \ ready /\ applied \in Nat
      /\ UNCHANGED <<line, pc, times, printed, requests, server, logSize, given>>
  BY <1>1, WindowTypes DEF ProcessWaiting, inputVars, windowVars
<1>5. /\ Taken \in Nat /\ Taken <= Len(times) /\ Len(responses) <= Taken
      /\ Taken + Len(requests) <= Len(times)
      /\ Len(times) \in Nat /\ Len(requests) \in Nat /\ Len(responses) \in Nat
      /\ logSize \in Nat /\ Cardinality(waiting) \in Nat
  BY PairTypes, CountTypes, WindowTypes
<1>6. PICK r \in Nat, w \in Nat : r = Len(responses) /\ w = Taken
  BY <1>5
<1>7. /\ \A i \in 1..w : /\ i \in 1..Len(times) /\ times[i] \in Nat
                         /\ given[times[i]] \in Nat
      /\ r <= w
  BY <1>5, <1>6, PairTypes
<1>8. PICK m \in r + 1 .. w + 1 :
         /\ \A i \in r + 1 .. m - 1 : given[times[i]] <= applied
         /\ \A i \in m .. w : ~ (given[times[i]] <= applied)
  <2> DEFINE T == {i \in r + 1 .. w + 1 : i = w + 1 \/ ~ (given[times[i]] <= applied)}
  <2>1. T \subseteq Nat /\ w + 1 \in T
    BY <1>7
  <2>2. PICK x \in T : \A y \in T : x <= y
    BY <2>1, LeastIndex
  <2>3. x \in r + 1 .. w + 1 /\ (x = w + 1 \/ ~ (given[times[x]] <= applied))
    BY <2>2
  <2>4. ASSUME NEW i \in r + 1 .. x - 1 PROVE given[times[i]] <= applied
    <3>1. i \in r + 1 .. w + 1 /\ i # w + 1 /\ ~ (x <= i)
      BY <2>3
    <3>2. i \notin T
      BY <2>2, <3>1
    <3>3. QED
      BY <3>1, <3>2
  <2>5. ASSUME NEW i \in x .. w PROVE ~ (given[times[i]] <= applied)
    <3>1. i \in 1..w /\ x \in 1..w /\ x # w + 1
      BY <2>3
    <3>2. given[times[x]] <= given[times[i]]
      <4>1. CASE x = i
        BY <1>7, <3>1, <4>1
      <4>2. CASE x < i
        BY <1>2, <1>6, <3>1, <4>2 DEF GivenOrdered
      <4>3. QED
        BY <2>3, <4>1, <4>2
    <3>3. /\ given[times[x]] \in Nat /\ given[times[i]] \in Nat
          /\ ~ (given[times[x]] <= applied)
      BY <1>7, <2>3, <3>1
    <3>4. QED
      BY <1>4, <3>2, <3>3
  <2>6. QED
    BY <2>3, <2>4, <2>5
<1>9. PICK n \in Nat : n = m - 1 - r /\ m = r + n + 1 /\ r + n <= w
  <2>1. m - 1 - r \in Nat /\ m = r + (m - 1 - r) + 1 /\ r + (m - 1 - r) <= w
    BY <1>8
  <2>2. QED
    BY <2>1
\* The list of what is ready in the order of the lines.
<1> DEFINE t == [k \in 1..n |-> Waiter(r + k)]
<1>10. /\ \A k \in 1..n : r + k \in r + 1 .. m - 1 /\ r + k \in r + 1 .. w /\ r + k \in 1..w
       /\ \A i \in m .. w : i \in r + 1 .. w /\ i \in 1..w
       /\ \A i \in r + 1 .. w : i \in m .. w \/ (i - r \in 1..n /\ r + (i - r) = i)
  BY <1>7, <1>8, <1>9
<1>11. /\ \A i \in r + 1 .. w : Waiter(i) \in waiting
       /\ \A x \in waiting : \E i \in r + 1 .. w : x = Waiter(i)
  BY <1>2, <1>6 DEF Aligned
<1>12. \A i : Waiter(i).Index = given[times[i]] /\ Waiter(i).line = times[i]
  BY DEF Waiter
<1>13. \A k \in 1..n : Waiter(r + k) \in ready
  BY <1>8, <1>10, <1>11, <1>12
<1>14. /\ \A i \in m .. w : Waiter(i) \notin ready
       /\ \A i \in m .. w : Waiter(i) \in waiting'
  BY <1>4, <1>8, <1>10, <1>11, <1>12
<1>15. t \in [1..n -> ready] /\ \A k \in 1..n : t[k] = Waiter(r + k)
  BY <1>13
<1>16. Lists(t, n, ready)
  <2> SUFFICES ASSUME NEW x \in ready PROVE \E k \in 1..n : t[k] = x
    BY DEF Lists
  <2>1. PICK i \in r + 1 .. w : x = Waiter(i)
    BY <1>11
  <2>2. i - r \in 1..n /\ r + (i - r) = i
    BY <1>10, <1>14, <2>1
  <2>3. t[i - r] = x
    BY <1>15, <2>1, <2>2
  <2>4. QED
    BY <2>2, <2>3
<1> HIDE DEF t
<1>17. Distinct(t, n)
  <2> SUFFICES ASSUME NEW i \in 1..n, NEW j \in 1..n, i < j PROVE t[i] # t[j]
    BY <1>15 DEF Distinct
  <2>1. r + i \in 1..Len(times) /\ r + j \in 1..Len(times) /\ r + i < r + j
    <3>1. r + i \in 1..w /\ r + j \in 1..w
      BY <1>10
    <3>2. r + i < r + j
      OBVIOUS
    <3>3. QED
      BY <1>7, <3>1, <3>2
  <2>2. times[r + i] < times[r + j] /\ times[r + i] \in Nat
    BY <1>2, <1>7, <1>10, <2>1 DEF TimesOrdered
  <2>3. t[i].line # t[j].line
    BY <1>12, <1>15, <2>2
  <2>4. QED
    BY <2>3
<1>18. Ascends(t, n)
  <2> SUFFICES ASSUME NEW i \in 1..n, NEW j \in 1..n, i < j
               PROVE  t[i].Index <= t[j].Index
    BY DEF Ascends
  <2>1. r + i \in 1..w /\ r + j \in 1..w /\ r + i < r + j
    BY <1>10
  <2>2. given[times[r + i]] <= given[times[r + j]]
    BY <1>2, <1>6, <2>1 DEF GivenOrdered
  <2>3. QED
    BY <1>12, <1>15, <2>2
<1>19. /\ IsFiniteSet(ready) /\ IsFiniteSet(waiting')
       /\ Cardinality(ready) = n
       /\ Cardinality(waiting) = n + Cardinality(waiting') /\ Cardinality(waiting') \in Nat
  <2>1. IsFiniteSet(waiting) /\ ready \subseteq waiting
    BY DEF ClientInv, WindowInv
  <2> HIDE DEF ready
  <2>2. /\ IsFiniteSet(ready) /\ IsFiniteSet(waiting')
        /\ Cardinality(ready) \in Nat /\ Cardinality(waiting') \in Nat
    BY <1>4, <2>1, FS_Subset, FS_CardinalityType
  <2>3. Cardinality(waiting) = Cardinality(ready) + Cardinality(waiting')
    <3>1. ready \cup waiting' = waiting /\ ready \cap waiting' = {}
      BY <1>4, <2>1
    <3>2. Cardinality(ready \cup waiting')
            = Cardinality(ready) + Cardinality(waiting') - Cardinality(ready \cap waiting')
      BY <2>2, FS_Union
    <3>3. Cardinality({}) = 0
      BY FS_EmptySet
    <3>4. Cardinality(waiting) = Cardinality(ready) + Cardinality(waiting') - Cardinality({})
      BY <3>1, <3>2, Zenon
    <3>5. QED
      BY <2>2, <3>3, <3>4
  <2>4. IsFiniteSet(1..n) /\ Cardinality(1..n) = n
    BY UpTo
  <2>5. t \in Bijection(1..n, ready)
    BY <1>15, <1>16, <1>17 DEF Bijection, Injection, IsInjective, Surjection, Lists, Distinct
  <2>6. ExistsBijection(1..n, ready)
    BY <2>5 DEF ExistsBijection
  <2>7. Cardinality(ready) = n
    BY <2>4, <2>6, FS_Bijection
  <2>8. QED
    BY <2>2, <2>3, <2>7
<1>20. /\ s \in Seq(TWaiting) /\ Len(s) = n /\ s \in [1..n -> ready]
       /\ \A k \in 1..n : s[k].Index = t[k].Index
  <2>1. waiting \subseteq TWaiting /\ ready \subseteq waiting
    BY DEF ClientInv, TypeOK
  <2>2. \A x \in ready : x.Index \in Nat
    BY <2>1 DEF TWaiting, Index
  <2>3. ready \subseteq TWaiting
    BY <2>1
  <2> HIDE DEF ready
  <2>4. s \in Seq(TWaiting) /\ Len(s) = n /\ s \in [1..n -> ready]
    BY <1>3, <1>19, <2>3, OrdersShape
  <2>5. \A k \in 1..n : s[k].Index = t[k].Index
    <3>1. n = Cardinality(ready) /\ IsFiniteSet(ready) /\ s \in Orders(ready)
      BY <1>3, <1>19
    <3>2. t \in [1..n -> ready]
      BY <1>15
    <3>3. QED
      BY <1>16, <1>17, <1>18, <2>2, <3>1, <3>2, OrderedAlike
  <2>6. QED
    BY <2>4, <2>5
<1>21. \A k \in 1..n : s[k].Index = given[times[r + k]]
  BY <1>12, <1>15, <1>20
<1> HIDE DEF ready
<1>22. /\ Len(responses') = r + n
       /\ \A i \in 1..r : responses'[i] = responses[i]
       /\ \A k \in 1..n : responses'[r + k] = s[k]
  <2>1. responses \in Seq(TWaiting)
    BY PairTypes
  <2>2. Len(responses \o s) = Len(responses) + Len(s)
    BY <1>20, <2>1
  <2>3. \A i \in 1..r : (responses \o s)[i] = responses[i]
    BY <1>6, <1>20, <2>1
  <2>4. \A k \in 1..n : (responses \o s)[r + k] = s[k]
    <3> SUFFICES ASSUME NEW k \in 1..n PROVE (responses \o s)[r + k] = s[k]
      OBVIOUS
    <3>1. /\ r + k \in 1..Len(responses) + Len(s) /\ ~ (r + k <= Len(responses))
          /\ (r + k) - Len(responses) = k
      BY <1>5, <1>6, <1>20
    <3>2. QED
      BY <1>20, <2>1, <3>1, ConcatProperties
  <2>5. QED
    BY <1>3, <1>6, <1>20, <2>2, <2>3, <2>4
<1>23. Taken' = w /\ Pending' = Pending /\ \A i : Waiter(i)' = Waiter(i)
  <2>1. Taken' = (r + n) + Cardinality(waiting')
    BY <1>22 DEF Taken
  <2>2. w = r + (n + Cardinality(waiting'))
    BY <1>6, <1>19 DEF Taken
  <2>3. Taken' = w
    BY <1>19, <2>1, <2>2
  <2>4. QED
    BY <1>4, <2>3 DEF Pending, Waiter
<1>24. TimesOrdered' /\ PrintedPaired'
  BY <1>2, <1>4 DEF TimesOrdered, PrintedPaired
<1>25. GivenOrdered'
  BY <1>2, <1>4, <1>6, <1>23 DEF GivenOrdered
<1>26. Aligned'
  <2>1. \A i \in 1..r + n : responses'[i].Index = given[times[i]]
    <3> SUFFICES ASSUME NEW i \in 1..r + n PROVE responses'[i].Index = given[times[i]]
      OBVIOUS
    <3>1. CASE i \in 1..r
      BY <1>2, <1>6, <1>22, <3>1 DEF Aligned
    <3>2. CASE i \notin 1..r
      <4>1. i - r \in 1..n /\ r + (i - r) = i
        BY <3>2
      <4>2. responses'[r + (i - r)] = s[i - r] /\ s[i - r].Index = given[times[r + (i - r)]]
        BY <1>21, <1>22, <4>1
      <4>3. QED
        BY <4>1, <4>2
    <3>3. QED
      BY <3>1, <3>2
  <2>2. \A i \in r + n + 1 .. w : i \in m .. w
    BY <1>9
  <2>3. \A i \in r + n + 1 .. w : Waiter(i) \in waiting'
    BY <1>14, <2>2
  <2>4. \A x \in waiting' : \E i \in r + n + 1 .. w : x = Waiter(i)
    <3> SUFFICES ASSUME NEW x \in waiting' PROVE \E i \in r + n + 1 .. w : x = Waiter(i)
      OBVIOUS
    <3>1. x \in waiting /\ x \notin ready
      BY <1>4
    <3>2. PICK i \in r + 1 .. w : x = Waiter(i)
      BY <1>11, <3>1
    <3>3. i \in m .. w
      BY <1>10, <1>13, <3>1, <3>2
    <3>4. i \in r + n + 1 .. w
      BY <1>9, <3>3
    <3>5. QED
      BY <3>2, <3>4
  <2>5. Len(times) = w + Len(requests) + Pending
    BY <1>2, <1>6 DEF Aligned
  <2>6. \A i \in 1..Len(requests) : requests[i] = times[w + i]
    BY <1>2, <1>6 DEF Aligned
  <2>7. QED
    BY <1>4, <1>22, <1>23, <2>1, <2>3, <2>4, <2>5, <2>6 DEF Aligned
<1>27. QED
  BY <1>2, <1>4, <1>24, <1>25, <1>26 DEF PairInv

-----------------------------------------------------------------------------
SteadyInv == ClientInv /\ (steady => PairInv)

LEMMA SteadyStep == SteadyInv /\ [Next]_vars => SteadyInv'
<1> SUFFICES ASSUME SteadyInv, [Next]_vars PROVE SteadyInv'
  OBVIOUS
<1>1. ClientInv /\ ClientInv'
  BY WindowStep DEF SteadyInv
<1> SUFFICES ASSUME steady' PROVE PairInv'
  BY <1>1 DEF SteadyInv
<1>2. CASE UNCHANGED vars
  <2>1. PairInv
    BY <1>2 DEF SteadyInv, vars, serverVars
  <2>2. QED
    BY <1>2, <2>1 DEF PairInv, TimesOrdered, Aligned, GivenOrdered, PrintedPaired, Pending,
       Taken, Waiter, vars, inputVars, windowVars, netVars, serverVars
<1>3. CASE ReadLine \/ Yielded \/ Write \/ Resume \/ Finish
  <2>1. PairInv
    BY <1>3 DEF SteadyInv, ReadLine, Yielded, Write, Resume, Finish, serverVars
  <2>2. QED
    BY <1>1, <1>3, <2>1, PairInput
<1>4. CASE ReadResponse \/ SslReadResponse
  <2>1. PairInv
    BY <1>4 DEF SteadyInv, ReadResponse, SslReadResponse, serverVars
  <2>2. QED
    BY <1>1, <1>4, <2>1, PairResponse
<1>5. CASE ReaderFails
  BY <1>5 DEF SteadyInv, PairInv, ReaderFails, serverVars
<1>6. CASE OnCommandRequest
  <2>1. PairInv
    BY <1>6 DEF SteadyInv, OnCommandRequest
  <2>2. QED
    BY <1>1, <1>6, <2>1, PairRequest
<1>7. CASE ProcessWaiting
  <2>1. PairInv
    BY <1>7 DEF SteadyInv, ProcessWaiting
  <2>2. QED
    BY <1>1, <1>7, <2>1, PairWaiting
<1>8. CASE OtherWrite
  <2>1. /\ logSize' = logSize + 1
        /\ UNCHANGED <<line, pc, times, printed, requests, responses, server, waiting, given,
                       steady>>
    BY <1>8 DEF OtherWrite, inputVars, windowVars, netVars
  <2>2. server = "leads" /\ TimesOrdered /\ Aligned /\ GivenOrdered /\ PrintedPaired
    BY <2>1 DEF SteadyInv, PairInv
  <2>3. TimesOrdered' /\ Aligned' /\ PrintedPaired' /\ Taken' = Taken
    BY <2>1, <2>2 DEF TimesOrdered, Aligned, PrintedPaired, Pending, Taken, Waiter
  <2>4. GivenOrdered'
    <3>1. logSize \in Nat /\ Taken <= Len(times) /\ Taken \in Nat /\ Len(times) \in Nat
          /\ \A i \in 1..Len(times) : given[times[i]] \in Nat
      BY <1>1, <2>1, <2>2, PairTypes, WindowTypes DEF PairInv
    <3>2. \A i \in 1..Taken : given[times[i]] <= logSize + 1
      BY <2>2, <3>1 DEF GivenOrdered
    <3>3. QED
      BY <2>1, <2>2, <2>3, <3>2 DEF GivenOrdered
  <2>5. QED
    BY <2>1, <2>2, <2>3, <2>4 DEF PairInv
<1>9. CASE ChangeRole \/ Close
  BY <1>9 DEF ChangeRole, Close
<1>10. QED
  BY <1>2, <1>3, <1>4, <1>5, <1>6, <1>7, <1>8, <1>9 DEF Next

\* While one server leads, each time is printed with the index of its own command, for
\* any window, any mix of reads and writes, any progress of the log between them, and
\* whatever order the queue of TRaft gives equal indices back in.
THEOREM EveryTimeWithItsCommand == Spec => []PairedByIndex
<1>1. Init => SteadyInv
  BY WindowInit, PairInit DEF SteadyInv
<1>2. SteadyInv => PairedByIndex
  BY DEF SteadyInv, PairInv, PrintedPaired, PairedByIndex
<1>3. QED
  BY <1>1, <1>2, SteadyStep, PTL DEF Spec
=============================================================================
