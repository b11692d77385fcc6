----------------------------- MODULE NodeProofs -----------------------------
(***************************************************************************)
(* Theorems about Node for peers and clients, and queues and numbers of    *)
(* connections of any size.                                                *)
(***************************************************************************)
EXTENDS Node, FiniteSetTheorems, SequenceTheorems, TLAPS

\* The socket is the last connection, or would become the next.
SocketInv ==
    /\ Socket = IF Connected THEN Len(wire) ELSE Len(wire) + 1
    /\ Len(received) = Len(wire)

\* OneWriter without counting.
WriterInv ==
    /\ trying + asleep <= 1
    /\ trying + asleep = 1 => ~ Connected
    /\ \A d, e \in drains : d = e
    /\ \A d \in drains : Connected /\ d.sock = Socket

NodeInv == TypeOK /\ SocketInv /\ WriterInv

LEMMA NodeInit == Init => NodeInv
<1> SUFFICES ASSUME Init PROVE NodeInv
  OBVIOUS
<1>1. trying = 0 /\ asleep = 0 /\ drains = {} /\ Messages = <<>>
      /\ sent = 0 /\ Connected = ~HasAddress /\ Socket = 1
      /\ HasAddress \in BOOLEAN
  BY DEF Init
<1>2. CASE HasAddress
  <2>1. up = {} /\ wire = <<>> /\ received = <<>>
    BY <1>2 DEF Init
  <2>2. <<>> \in Seq(Nat) /\ <<>> \in Seq(Seq(Nat)) /\ Len(<<>>) = 0
    OBVIOUS
  <2>3. Connected = FALSE
    BY <1>1, <1>2
  <2>4. TypeOK
    BY <1>1, <2>1, <2>2, <2>3 DEF TypeOK
  <2>5. SocketInv /\ WriterInv
    BY <1>1, <2>1, <2>2, <2>3 DEF SocketInv, WriterInv
  <2>6. QED
    BY <2>4, <2>5 DEF NodeInv
<1>3. CASE ~HasAddress
  <2>1. up = {1} /\ wire = << <<>> >> /\ received = << <<>> >>
    BY <1>3 DEF Init
  <2>2. <<>> \in Seq(Nat) /\ << <<>> >> \in Seq(Seq(Nat)) /\ Len(<< <<>> >>) = 1
    OBVIOUS
  <2>3. Connected = TRUE
    BY <1>1, <1>3
  <2>4. TypeOK
    BY <1>1, <2>1, <2>2, <2>3 DEF TypeOK
  <2>5. SocketInv /\ WriterInv
    BY <1>1, <2>1, <2>2, <2>3 DEF SocketInv, WriterInv
  <2>6. QED
    BY <2>4, <2>5 DEF NodeInv
<1>4. QED
  BY <1>1, <1>2, <1>3

\* DoConnect is started only if none is suspended, and no write is.
LEMMA ConnectKeeps ==
  ASSUME NodeInv, Connect, UNCHANGED <<HasAddress, netVars>>, sent' \in Nat, Messages' \in Seq(Nat),
         drains' = {}
  PROVE  NodeInv'
<1>2. CASE HasAddress /\ ConnectorDone
  <2>1. /\ Connected' = FALSE
        /\ Socket' = IF Connected THEN Socket + 1 ELSE Socket
        /\ trying' = 1 /\ asleep' = 0
    BY <1>2 DEF Connect, NewSocket, ConnectorDone
  <2>2. Connected' \in BOOLEAN /\ Socket' \in Nat \ {0}
    <3>1. Connected' \in BOOLEAN
      BY <2>1
    <3>2. Socket' \in Nat \ {0}
      BY <2>1 DEF NodeInv, TypeOK
    <3>3. QED
      BY <3>1, <3>2
  <2>3. TypeOK'
    BY <2>1, <2>2 DEF NodeInv, TypeOK, netVars
  <2>4. SocketInv' /\ WriterInv'
    BY <2>1, <2>2 DEF NodeInv, TypeOK, SocketInv, WriterInv, netVars
  <2>5. QED
    BY <2>3, <2>4 DEF NodeInv
<1>3. CASE ~ (HasAddress /\ ConnectorDone)
  BY <1>3 DEF Connect, NodeInv, TypeOK, SocketInv, WriterInv, netVars, connectVars
<1>4. QED
  BY <1>2, <1>3

LEMMA WritingType ==
  ASSUME TypeOK, NEW q \in Seq(Nat)
  PROVE  /\ Writing(q) \subseteq TDrain
         /\ \A d, e \in Writing(q) : d = e
         /\ \A d \in Writing(q) : d.sock = Socket
  BY DEF Writing, TDrain, TypeOK

LEMMA NodeTurn ==
  ASSUME NodeInv, NEW k \in 0..MaxSends, Turn(k)
  PROVE  NodeInv'
<1> DEFINE new == [i \in 1..k |-> sent + i]
           queue == Messages \o new
<1>1. k \in Nat /\ sent \in Nat /\ sent' \in Nat
  BY NodeAssumption DEF Turn, NodeInv, TypeOK
<1>2. new \in Seq(Nat)
  BY <1>1
<1>3. queue \in Seq(Nat)
  BY <1>2 DEF NodeInv, TypeOK
<1>4. Drain(queue) /\ UNCHANGED <<HasAddress, netVars>>
  BY DEF Turn
<1> HIDE DEF queue, new
<1>5. CASE ~Connected /\ Messages' = queue /\ Connect /\ UNCHANGED drains
  <2>1. drains' = {}
    BY <1>5 DEF NodeInv, WriterInv
  <2>2. QED
    BY <1>1, <1>3, <1>4, <1>5, <2>1, ConnectKeeps
<1>6. CASE /\ Connected
           /\ DrainerDone
           /\ drains' = drains \cup Writing(queue)
           /\ Messages' = <<>>
           /\ UNCHANGED connectVars
  <2>1. drains' = Writing(queue) /\ <<>> \in Seq(Nat)
    BY <1>6 DEF DrainerDone
  <2>2. QED
    BY <1>1, <1>3, <1>4, <1>6, <2>1, WritingType
    DEF NodeInv, TypeOK, SocketInv, WriterInv, connectVars, netVars
<1>7. CASE Messages' = queue /\ UNCHANGED <<drains, connectVars>>
  BY <1>1, <1>3, <1>4, <1>7
  DEF NodeInv, TypeOK, SocketInv, WriterInv, connectVars, netVars
<1>8. QED
  BY <1>4, <1>5, <1>6, <1>7 DEF Drain

LEMMA NodeWriteDone ==
  ASSUME NodeInv, NEW d \in drains, WriteDone(d)
  PROVE  NodeInv'
<1>1. /\ drains = {d}
      /\ d.tosend \in Seq(Nat) /\ d.tosend # <<>>
      /\ Connected
  BY DEF NodeInv, TypeOK, WriterInv, TDrain
<1>2. Head(d.tosend) \in Nat /\ Tail(d.tosend) \in Seq(Nat)
  BY <1>1
<1>3. /\ \/ drains' = Writing(Tail(d.tosend)) /\ Messages' = Messages
         \/ drains' = Writing(Messages) /\ Messages' = <<>>
      /\ UNCHANGED <<HasAddress, sent, Connected, Socket, trying, asleep, up, received>>
  BY <1>1 DEF WriteDone, WriteOn, connectVars
<1>4. /\ drains' \subseteq TDrain
      /\ \A e, f \in drains' : e = f
      /\ \A e \in drains' : e.sock = Socket
      /\ Messages' \in Seq(Nat)
  <2>1. CASE drains' = Writing(Tail(d.tosend)) /\ Messages' = Messages
    BY <1>2, <2>1, WritingType DEF NodeInv, TypeOK
  <2>2. CASE drains' = Writing(Messages) /\ Messages' = <<>>
    <3>1. Messages \in Seq(Nat) /\ <<>> \in Seq(Nat)
      BY DEF NodeInv, TypeOK
    <3>2. QED
      BY <2>2, <3>1, WritingType DEF NodeInv
  <2>3. QED
    BY <1>3, <2>1, <2>2
<1>5. wire' \in Seq(Seq(Nat)) /\ Len(wire') = Len(wire)
  <2>1. CASE Socket \notin up
    BY <2>1 DEF WriteDone, NodeInv, TypeOK
  <2>2. CASE Socket \in up
    <3>1. wire' = [wire EXCEPT ![Socket] = Append(wire[Socket], Head(d.tosend))]
      BY <2>2 DEF WriteDone
    <3>2. wire \in Seq(Seq(Nat)) /\ Socket \in 1..Len(wire)
      BY <2>2 DEF NodeInv, TypeOK
    <3>3. Append(wire[Socket], Head(d.tosend)) \in Seq(Nat)
      BY <1>2, <3>2
    <3>4. QED
      BY <3>1, <3>2, <3>3
  <2>3. QED
    BY <2>1, <2>2
<1>6. DOMAIN wire' = DOMAIN wire
  BY <1>5 DEF NodeInv, TypeOK
<1>7. QED
  BY <1>1, <1>3, <1>4, <1>5, <1>6 DEF NodeInv, TypeOK, SocketInv, WriterInv

LEMMA NodeWriteFails ==
  ASSUME NodeInv, NEW d \in drains, WriteFails(d)
  PROVE  NodeInv'
<1>1. drains' = {}
  BY DEF WriteFails, NodeInv, WriterInv
<1>2. QED
  BY <1>1, ConnectKeeps DEF WriteFails, NodeInv, TypeOK

LEMMA NodeConnects ==
  ASSUME NodeInv, ConnectDone \/ ConnectFails \/ Wake
  PROVE  NodeInv'
<1>1. trying \in Nat /\ asleep \in Nat
  BY DEF NodeInv, TypeOK
<1>2. trying + asleep = 1
  BY <1>1 DEF ConnectDone, ConnectFails, Wake, NodeInv, WriterInv
<1>3. ~Connected /\ drains = {} /\ Socket = Len(wire) + 1
  BY <1>2 DEF NodeInv, SocketInv, WriterInv
<1>4. CASE ConnectDone
  <2>1. trying' = 0 /\ asleep' = 0 /\ Connected' = TRUE
    BY <1>1, <1>2, <1>4 DEF ConnectDone
  <2>2. /\ wire' \in Seq(Seq(Nat)) /\ Len(wire') = Len(wire) + 1
        /\ received' \in Seq(Seq(Nat)) /\ Len(received') = Len(received) + 1
    BY <1>4 DEF ConnectDone, NodeInv, TypeOK
  <2>3. up' \subseteq DOMAIN wire'
    BY <1>3, <1>4, <2>2 DEF ConnectDone, NodeInv, TypeOK
  <2>4. UNCHANGED <<HasAddress, Messages, drains, sent, Socket>>
    BY <1>4 DEF ConnectDone, queueVars
  <2>5. TypeOK'
    <3>1. Connected' \in BOOLEAN
      BY <2>1
    <3>2. QED
      BY <2>1, <2>2, <2>3, <2>4, <3>1 DEF NodeInv, TypeOK
  <2>6. SocketInv' /\ WriterInv'
    BY <1>3, <2>1, <2>2, <2>4 DEF NodeInv, SocketInv, WriterInv
  <2>7. QED
    BY <2>5, <2>6 DEF NodeInv
<1>5. CASE ConnectFails
  <2>1. trying' = 0 /\ asleep' = 1
    BY <1>1, <1>2, <1>5 DEF ConnectFails
  <2>2. QED
    BY <1>3, <1>5, <2>1
    DEF ConnectFails, NodeInv, TypeOK, SocketInv, WriterInv, queueVars, netVars
<1>6. CASE Wake
  <2>1. trying' = 1 /\ asleep' = 0
    BY <1>1, <1>2, <1>6 DEF Wake
  <2>2. QED
    BY <1>3, <1>6, <2>1
    DEF Wake, NewSocket, NodeInv, TypeOK, SocketInv, WriterInv, queueVars, netVars
<1>7. QED
  BY <1>4, <1>5, <1>6

LEMMA NodeNet ==
  ASSUME NodeInv, NEW c \in DOMAIN wire, Deliver(c) \/ Break(c)
  PROVE  NodeInv'
<1>1. /\ wire \in Seq(Seq(Nat)) /\ received \in Seq(Seq(Nat))
      /\ c \in 1..Len(wire) /\ c \in 1..Len(received)
      /\ wire[c] \in Seq(Nat) /\ received[c] \in Seq(Nat)
  BY DEF NodeInv, TypeOK, SocketInv
<1>2. CASE Deliver(c)
  <2>1. Append(received[c], Head(wire[c])) \in Seq(Nat) /\ Tail(wire[c]) \in Seq(Nat)
    BY <1>1, <1>2 DEF Deliver
  <2>2. /\ wire' \in Seq(Seq(Nat)) /\ Len(wire') = Len(wire) /\ DOMAIN wire' = DOMAIN wire
        /\ received' \in Seq(Seq(Nat)) /\ Len(received') = Len(received)
    BY SMTT(30), <1>1, <1>2, <2>1 DEF Deliver
  <2>3. QED
    BY <1>2, <2>2
    DEF Deliver, NodeInv, TypeOK, SocketInv, WriterInv, queueVars, connectVars
<1>3. CASE Break(c)
  <2>1. PICK k \in 0..Len(wire[c]) : wire' = [wire EXCEPT ![c] = SubSeq(wire[c], 1, k)]
    BY <1>3 DEF Break
  <2>2. SubSeq(wire[c], 1, k) \in Seq(Nat)
    BY SMTT(30), <1>1, <2>1
  <2>3. wire' \in Seq(Seq(Nat)) /\ Len(wire') = Len(wire) /\ DOMAIN wire' = DOMAIN wire
    BY <1>1, <2>1, <2>2
  <2>4. QED
    BY <1>3, <2>3
    DEF Break, NodeInv, TypeOK, SocketInv, WriterInv, queueVars, connectVars
<1>4. QED
  BY <1>2, <1>3

LEMMA NodeInvCorrect == Spec => []NodeInv
<1>1. NodeInv /\ [Next]_vars => NodeInv'
  <2> SUFFICES ASSUME NodeInv, [Next]_vars PROVE NodeInv'
    OBVIOUS
  <2>1. CASE Next
    BY <2>1, NodeTurn, NodeWriteDone, NodeWriteFails, NodeConnects, NodeNet DEF Next
  <2>2. CASE UNCHANGED vars
    BY <2>2 DEF NodeInv, TypeOK, SocketInv, WriterInv, vars, queueVars, connectVars, netVars
  <2>3. QED
    BY <2>1, <2>2
<1>2. QED
  BY <1>1, NodeInit, PTL DEF Spec

\* However Drain is called while a write, a connect or a sleep is under way, and
\* wherever an error ends one: at most one coroutine has the socket, and it is not
\* replaced under a write.
THEOREM OnlyOneWriter == Spec => []OneWriter
<1>1. NodeInv => OneWriter
  <2> SUFFICES ASSUME NodeInv PROVE OneWriter
    OBVIOUS
  <2>1. trying \in Nat /\ asleep \in Nat
    BY DEF NodeInv, TypeOK
  <2>2. CASE drains = {}
    BY <2>1, <2>2, FS_EmptySet DEF NodeInv, WriterInv, OneWriter
  <2>3. CASE drains # {}
    <3>1. PICK d \in drains : drains = {d}
      BY <2>3 DEF NodeInv, WriterInv
    <3>2. Cardinality(drains) = 1
      BY <3>1, FS_Singleton
    <3>3. trying + asleep = 0
      BY <2>1, <3>1 DEF NodeInv, WriterInv
    <3>4. QED
      BY <2>1, <3>2, <3>3 DEF NodeInv, WriterInv, OneWriter
  <2>4. QED
    BY <2>2, <2>3
<1>2. QED
  BY <1>1, NodeInvCorrect, PTL

\* The types of Node's variables, for any number of messages and connections.
THEOREM NodeTypeCorrect == Spec => []TypeOK
  BY NodeInvCorrect, PTL DEF NodeInv

-----------------------------------------------------------------------------
(* What is sent and what arrives                                            *)

\* What connection c has carried, and what of it is under way.
Carried(c) == received[c] \o wire[c]

\* The number before the first message that waits to be written.
Low == sent - Len(Messages) - Len(Batch)

\* What waits are the last messages handed to Send.
QueueInv ==
    /\ \A i \in 1..Len(Batch) : Batch[i] = Low + i
    /\ \A i \in 1..Len(Messages) : Messages[i] = Low + Len(Batch) + i

\* Connections carry what was handed to Send before, in order, and the one that is up
\* has carried the last message that was written.
CarriedInv ==
    /\ \A c \in DOMAIN wire : /\ Consecutive(Carried(c))
                              /\ \A i \in 1..Len(Carried(c)) : Carried(c)[i] <= Low
    /\ \A c, d \in DOMAIN wire : c < d =>
          \A i \in 1..Len(Carried(c)), j \in 1..Len(Carried(d)) :
              Carried(c)[i] < Carried(d)[j]
    /\ Connected /\ Socket \in up /\ Carried(Socket) # <<>> =>
          Carried(Socket)[Len(Carried(Socket))] = Low

OrderInv == QueueInv /\ CarriedInv

\* The batch of the one DoDrain there may be.
LEMMA OneBatch ==
  ASSUME NEW D, \A d, e \in D : d = e, NEW d \in D
  PROVE  (IF D = {} THEN <<>> ELSE (CHOOSE e \in D : TRUE).tosend) = d.tosend
<1>1. (CHOOSE e \in D : TRUE) \in D
  OBVIOUS
<1>2. (CHOOSE e \in D : TRUE) = d
  BY <1>1
<1>3. D # {}
  OBVIOUS
<1>4. QED
  BY <1>2, <1>3

LEMMA BatchShape ==
  ASSUME NodeInv
  PROVE  /\ Batch \in Seq(Nat)
         /\ drains = {} => Batch = <<>>
         /\ \A d \in drains : Batch = d.tosend
<1>1. CASE drains = {}
  BY <1>1 DEF Batch
<1>2. ASSUME NEW d \in drains
      PROVE  Batch = d.tosend /\ d.tosend \in Seq(Nat)
  <2>1. \A x, y \in drains : x = y
    BY DEF NodeInv, WriterInv
  <2>2. Batch = d.tosend
    BY <2>1, OneBatch DEF Batch
  <2>3. QED
    BY <2>2 DEF NodeInv, TypeOK, TDrain
<1>3. QED
  BY <1>1, <1>2

\* What DoDrain starts to write is the batch.
LEMMA BatchWriting ==
  ASSUME NEW q, drains' = Writing(q)
  PROVE  Batch' = q
<1>1. CASE q = <<>>
  BY <1>1 DEF Writing, Batch
<1>2. CASE q # <<>>
  <2> DEFINE d == [tosend |-> q, sock |-> Socket]
  <2>1. drains' = {d}
    BY <1>2 DEF Writing
  <2>2. Batch' = d.tosend
    BY <2>1, OneBatch DEF Batch
  <2>3. QED
    BY <2>2
<1>3. QED
  BY <1>1, <1>2

LEMMA QueueShape ==
  ASSUME NodeInv
  PROVE  /\ Batch \in Seq(Nat) /\ Len(Batch) \in Nat
         /\ Messages \in Seq(Nat) /\ Len(Messages) \in Nat
         /\ sent \in Nat /\ Low \in Int
<1>1. Batch \in Seq(Nat)
  BY BatchShape
<1>2. Messages \in Seq(Nat) /\ sent \in Nat
  BY DEF NodeInv, TypeOK
<1>3. QED
  BY <1>1, <1>2 DEF Low

LEMMA CarriedShape ==
  ASSUME NodeInv, NEW c \in DOMAIN wire
  PROVE  /\ c \in 1..Len(wire)
         /\ received[c] \in Seq(Nat) /\ wire[c] \in Seq(Nat)
         /\ Carried(c) \in Seq(Nat)
         /\ Len(Carried(c)) = Len(received[c]) + Len(wire[c])
<1>1. c \in 1..Len(wire) /\ c \in 1..Len(received)
  BY DEF NodeInv, TypeOK, SocketInv
<1>2. received[c] \in Seq(Nat) /\ wire[c] \in Seq(Nat)
  BY <1>1 DEF NodeInv, TypeOK
<1>3. QED
  BY <1>1, <1>2 DEF Carried

-----------------------------------------------------------------------------
(* The queue                                                                *)

LEMMA QueueTurn ==
  ASSUME NodeInv, QueueInv, NEW k \in 0..MaxSends, Turn(k)
  PROVE  QueueInv' /\ Low' = Low
<1> DEFINE new == [i \in 1..k |-> sent + i]
           B == Len(Batch)
           M == Len(Messages)
<1>1. Messages \in Seq(Nat) /\ Batch \in Seq(Nat)
  BY QueueShape
<1>2. k \in Nat /\ sent \in Nat /\ B \in Nat /\ M \in Nat /\ Low \in Int
      /\ Low = sent - M - B
  BY NodeAssumption, QueueShape DEF Low
<1>3. new \in Seq(Nat) /\ Len(new) = k /\ \A i \in 1..k : new[i] = sent + i
  BY <1>2
<1>4. \A i \in 1..M : Messages[i] = Low + B + i
  BY DEF QueueInv
<1>5. sent' = sent + k /\ Drain(Messages \o new)
  BY DEF Turn
<1> HIDE DEF new
<1>6. /\ Messages \o new \in Seq(Nat)
      /\ Len(Messages \o new) = M + Len(new)
      /\ \A i \in 1..M + Len(new) :
            (Messages \o new)[i] = IF i <= M THEN Messages[i] ELSE new[i - M]
  BY <1>1, <1>3, ConcatProperties
<1> HIDE DEF B, M
<1>7. Len(Messages \o new) = M + k
  BY <1>3, <1>6
<1>8. ASSUME NEW i \in 1..M + k
      PROVE  (Messages \o new)[i] = Low + B + i
  <2>1. (Messages \o new)[i] = IF i <= M THEN Messages[i] ELSE new[i - M]
    BY <1>3, <1>6
  <2>2. CASE i <= M
    <3>1. i \in 1..M
      BY <1>2, <2>2
    <3>2. QED
      BY <1>4, <2>1, <2>2, <3>1
  <2>3. CASE ~ (i <= M)
    <3>1. i - M \in 1..k /\ sent + (i - M) = Low + B + i
      BY <1>2, <2>3
    <3>2. QED
      BY <1>3, <2>1, <2>3, <3>1
  <2>4. QED
    BY <2>2, <2>3
<1>9. CASE Messages' = Messages \o new /\ UNCHANGED drains
  <2>1. Batch' = Batch
    BY <1>9 DEF Batch
  <2>2. Len(Messages') = M + k /\ Len(Batch') = B
    BY <1>7, <1>9, <2>1 DEF B
  <2>3. Low' = sent' - Len(Messages') - Len(Batch')
    BY DEF Low
  <2>4. Low' = Low
    BY <1>2, <1>5, <2>2, <2>3
  <2>5. \A i \in 1..Len(Messages') : Messages'[i] = Low' + Len(Batch') + i
    BY <1>8, <1>9, <2>2, <2>4
  <2>6. \A i \in 1..Len(Batch') : Batch'[i] = Low' + i
    BY <2>1, <2>4 DEF QueueInv
  <2>7. QED
    BY <2>4, <2>5, <2>6 DEF QueueInv
<1>10. CASE DrainerDone /\ drains' = drains \cup Writing(Messages \o new) /\ Messages' = <<>>
  <2>1. drains = {} /\ drains' = Writing(Messages \o new)
    BY <1>10 DEF DrainerDone
  <2>2. Batch = <<>> /\ Batch' = Messages \o new
    BY <2>1, BatchShape, BatchWriting
  <2>3. B = 0 /\ Len(Messages') = 0 /\ Len(Batch') = M + k
    BY <1>7, <1>10, <2>2 DEF B
  <2>4. Low' = sent' - Len(Messages') - Len(Batch')
    BY DEF Low
  <2>5. Low' = Low
    BY <1>2, <1>5, <2>3, <2>4
  <2>6. ASSUME NEW i \in 1..Len(Batch')
        PROVE  Batch'[i] = Low' + i
    <3>1. Batch'[i] = Low + B + i /\ i \in Int
      BY <1>2, <1>8, <2>2, <2>3
    <3>2. QED
      BY <1>2, <2>3, <2>5, <3>1
  <2>7. \A i \in 1..Len(Messages') : Messages'[i] = Low' + Len(Batch') + i
    BY <2>3
  <2>8. QED
    BY <2>5, <2>6, <2>7 DEF QueueInv
<1>11. QED
  BY <1>5, <1>9, <1>10 DEF Drain

LEMMA QueueWriteDone ==
  ASSUME NodeInv, QueueInv, NEW d \in drains, WriteDone(d)
  PROVE  QueueInv' /\ Low' = Low + 1 /\ Head(d.tosend) = Low + 1
<1> DEFINE B == Len(Batch)
           M == Len(Messages)
<1>1. Messages \in Seq(Nat) /\ Batch \in Seq(Nat)
  BY QueueShape
<1>2. sent \in Nat /\ B \in Nat /\ M \in Nat /\ Low \in Int /\ Low = sent - M - B
  BY QueueShape DEF Low
<1>3. Batch = d.tosend /\ drains = {d} /\ d.tosend # <<>>
  BY BatchShape DEF NodeInv, TypeOK, WriterInv, TDrain
<1>4. sent' = sent
  BY DEF WriteDone
<1>5. B > 0
  BY <1>1, <1>3
<1>6. Head(d.tosend) = Low + 1
  <2>1. Head(Batch) = Batch[1] /\ 1 \in 1..B
    BY <1>1, <1>5
  <2>2. QED
    BY <1>3, <2>1 DEF QueueInv
<1>7. Low' = sent' - Len(Messages') - Len(Batch')
  BY DEF Low
<1>8. CASE B > 1 /\ drains' = Writing(Tail(Batch)) /\ Messages' = Messages
  <2>1. Batch' = Tail(Batch)
    BY <1>8, BatchWriting
  <2>2. Len(Batch') = B - 1 /\ \A i \in 1..B - 1 : Batch'[i] = Batch[i + 1]
    BY <1>1, <1>8, <2>1
  <2>3. Low' = Low + 1
    BY <1>2, <1>4, <1>7, <1>8, <2>2
  <2>4. ASSUME NEW i \in 1..Len(Batch') PROVE Batch'[i] = Low' + i
    <3>1. i + 1 \in 1..B /\ Batch'[i] = Batch[i + 1]
      BY <1>2, <2>2
    <3>2. Batch[i + 1] = Low + (i + 1)
      BY <3>1 DEF QueueInv
    <3>3. QED
      BY <1>2, <2>2, <2>3, <3>1, <3>2
  <2>5. \A i \in 1..Len(Messages') : Messages'[i] = Low' + Len(Batch') + i
    <3>1. \A i \in 1..M : Messages[i] = Low + B + i
      BY DEF QueueInv
    <3>2. Low' + Len(Batch') = Low + B
      BY <1>2, <2>2, <2>3
    <3>3. QED
      BY <1>8, <3>1, <3>2
  <2>6. QED
    BY <1>6, <2>3, <2>4, <2>5 DEF QueueInv
<1>9. CASE B = 1 /\ drains' = Writing(Messages) /\ Messages' = <<>>
  <2>1. Batch' = Messages /\ Len(Messages') = 0
    BY <1>9, BatchWriting
  <2>2. Low' = Low + 1
    BY <1>2, <1>4, <1>7, <1>9, <2>1
  <2>3. \A i \in 1..Len(Batch') : Batch'[i] = Low' + i
    BY <1>2, <1>9, <2>1, <2>2 DEF QueueInv
  <2>4. \A i \in 1..Len(Messages') : Messages'[i] = Low' + Len(Batch') + i
    BY <2>1
  <2>5. QED
    BY <1>6, <2>2, <2>3, <2>4 DEF QueueInv
<1>10. /\ B > 1 => drains' = Writing(Tail(Batch)) /\ Messages' = Messages
       /\ ~ (B > 1) => drains' = Writing(Messages) /\ Messages' = <<>>
  <2>1. WriteOn(d)
    BY DEF WriteDone
  <2>2. QED
    BY <1>3, <2>1 DEF WriteOn
<1> HIDE DEF B
<1>11. B > 1 \/ B = 1
  BY <1>2, <1>5
<1>12. QED
  BY <1>8, <1>9, <1>10, <1>11

LEMMA QueueWriteFails ==
  ASSUME NodeInv, QueueInv, NEW d \in drains, WriteFails(d)
  PROVE  QueueInv' /\ Low <= Low' /\ Low' \in Int
<1>1. drains' = {} /\ UNCHANGED <<Messages, sent>>
  BY DEF WriteFails, NodeInv, WriterInv
<1>2. Batch' = <<>> /\ Len(Batch') = 0
  BY <1>1 DEF Batch
<1>3. /\ sent \in Nat /\ Len(Batch) \in Nat /\ Len(Messages) \in Nat
  BY QueueShape
<1>4. Low' = Low + Len(Batch)
  BY <1>1, <1>2, <1>3 DEF Low
<1>5. Low \in Int
  BY QueueShape
<1>6. QED
  BY <1>1, <1>2, <1>3, <1>4, <1>5 DEF QueueInv

LEMMA QueueQuiet ==
  ASSUME QueueInv, UNCHANGED queueVars
  PROVE  QueueInv' /\ Low' = Low
  BY DEF QueueInv, Low, Batch, queueVars

-----------------------------------------------------------------------------
(* The connections                                                          *)

\* A step that writes nothing: a connection keeps what it has carried or loses its
\* end, and the one that is up afterwards was up before and has lost nothing.
LEMMA CarriedKept ==
  ASSUME NodeInv, NodeInv', CarriedInv, DOMAIN wire' = DOMAIN wire,
         Low \in Int, Low' \in Int, Low <= Low',
         \A c \in DOMAIN wire :
            /\ Len(Carried(c)') <= Len(Carried(c))
            /\ \A i \in 1..Len(Carried(c)') : Carried(c)'[i] = Carried(c)[i],
         Connected' /\ Socket' \in up' =>
            /\ Connected /\ Socket \in up /\ Socket' = Socket /\ Low' = Low
            /\ Len(Carried(Socket)') = Len(Carried(Socket))
  PROVE  CarriedInv'
<1>1. ASSUME NEW c \in DOMAIN wire
      PROVE  /\ Carried(c) \in Seq(Nat) /\ Len(Carried(c)) \in Nat
             /\ Carried(c)' \in Seq(Nat) /\ Len(Carried(c)') \in Nat
             /\ \A i \in 1..Len(Carried(c)') :
                   /\ i \in 1..Len(Carried(c))
                   /\ Carried(c)[i] \in Nat
                   /\ Carried(c)'[i] = Carried(c)[i]
  <2>1. Carried(c) \in Seq(Nat)
    BY CarriedShape
  <2>2. received'[c] \in Seq(Nat) /\ wire'[c] \in Seq(Nat)
    <3>1. c \in 1..Len(wire') /\ c \in 1..Len(received')
      BY DEF NodeInv, TypeOK, SocketInv
    <3>2. wire' \in Seq(Seq(Nat)) /\ received' \in Seq(Seq(Nat))
      BY DEF NodeInv, TypeOK
    <3>3. QED
      BY <3>1, <3>2
  <2>3. Carried(c)' \in Seq(Nat)
    BY <2>2 DEF Carried
  <2>4. Len(Carried(c)) \in Nat /\ Len(Carried(c)') \in Nat
    BY <2>1, <2>3
  <2>5. ASSUME NEW i \in 1..Len(Carried(c)')
        PROVE  i \in 1..Len(Carried(c)) /\ Carried(c)[i] \in Nat
    <3>1. i \in 1..Len(Carried(c))
      BY <2>4
    <3>2. QED
      BY <2>1, <3>1
  <2>6. QED
    BY <2>1, <2>3, <2>4, <2>5
<1>2. ASSUME NEW c \in DOMAIN wire
      PROVE  /\ Consecutive(Carried(c))'
             /\ \A i \in 1..Len(Carried(c)') : Carried(c)'[i] <= Low'
  <2>1. Consecutive(Carried(c)) /\ \A i \in 1..Len(Carried(c)) : Carried(c)[i] <= Low
    BY DEF CarriedInv
  <2>2. ASSUME NEW i \in 1..Len(Carried(c)') - 1
        PROVE  Carried(c)'[i + 1] = Carried(c)'[i] + 1
    <3>1. i \in 1..Len(Carried(c)') /\ i + 1 \in 1..Len(Carried(c)')
      BY <1>1
    <3>2. i \in 1..Len(Carried(c)) - 1
      BY <1>1, <3>1
    <3>3. Carried(c)[i + 1] = Carried(c)[i] + 1
      BY <2>1, <3>2 DEF Consecutive
    <3>4. QED
      BY <1>1, <3>1, <3>3
  <2>3. ASSUME NEW i \in 1..Len(Carried(c)')
        PROVE  Carried(c)'[i] <= Low'
    <3>1. Carried(c)[i] <= Low /\ Carried(c)[i] \in Nat /\ Carried(c)'[i] = Carried(c)[i]
      BY <1>1, <2>1
    <3>2. QED
      BY <3>1
  <2>4. QED
    BY <2>2, <2>3 DEF Consecutive
<1>3. ASSUME NEW c \in DOMAIN wire, NEW d \in DOMAIN wire, c < d,
             NEW i \in 1..Len(Carried(c)'), NEW j \in 1..Len(Carried(d)')
      PROVE  Carried(c)'[i] < Carried(d)'[j]
  <2>1. i \in 1..Len(Carried(c)) /\ Carried(c)'[i] = Carried(c)[i]
    BY <1>1
  <2>2. j \in 1..Len(Carried(d)) /\ Carried(d)'[j] = Carried(d)[j]
    BY <1>1
  <2>3. Carried(c)[i] < Carried(d)[j]
    BY <1>3, <2>1, <2>2 DEF CarriedInv
  <2>4. QED
    BY <2>1, <2>2, <2>3
<1>4. ASSUME Connected', Socket' \in up', Carried(Socket)' # <<>>
      PROVE  Carried(Socket)'[Len(Carried(Socket)')] = Low'
  <2>1. /\ Connected /\ Socket \in up /\ Socket' = Socket /\ Low' = Low
        /\ Len(Carried(Socket)') = Len(Carried(Socket))
    BY <1>4
  <2>2. Socket \in DOMAIN wire
    BY <2>1 DEF NodeInv, TypeOK
  <2> DEFINE n == Len(Carried(Socket))
  <2>3. PICK s \in DOMAIN wire : s = Socket
    BY <2>2
  <2>4. Carried(Socket)' = Carried(s)' /\ Carried(Socket) = Carried(s)
    BY <2>1, <2>3 DEF Carried
  <2>5. n > 0 /\ n \in Nat
    <3>1. Carried(s)' \in Seq(Nat) /\ Carried(s)' # <<>> /\ Len(Carried(s)') = n
      BY <1>1, <1>4, <2>1, <2>4
    <3>2. Len(Carried(s)') > 0 /\ Len(Carried(s)') \in Nat
      BY <3>1
    <3>3. QED
      BY <3>1, <3>2
  <2>6. Carried(Socket)'[n] = Carried(Socket)[n]
    <3>1. n \in 1..Len(Carried(s)')
      BY <2>1, <2>4, <2>5
    <3>2. QED
      BY <1>1, <2>4, <3>1
  <2>7. Carried(Socket) # <<>>
    BY <2>5
  <2>8. QED
    BY <2>1, <2>6, <2>7 DEF CarriedInv
<1>5. QED
  BY <1>2, <1>3, <1>4 DEF CarriedInv

\* What changes nothing that a connection carries.
LEMMA CarriedSame ==
  ASSUME NodeInv, UNCHANGED <<wire, received>>
  PROVE  \A c \in DOMAIN wire : Carried(c)' = Carried(c)
  BY DEF Carried

\* What is appended to what is under way is appended to what the connection carries.
LEMMA ConcatAppend ==
  ASSUME NEW s \in Seq(Nat), NEW t \in Seq(Nat), NEW x \in Nat
  PROVE  s \o Append(t, x) = Append(s \o t, x)
<1>1. <<x>> \in Seq(Nat) /\ s \o t \in Seq(Nat)
  OBVIOUS
<1>2. Append(t, x) = t \o <<x>> /\ Append(s \o t, x) = (s \o t) \o <<x>>
  BY <1>1, AppendIsConcat
<1>3. (s \o t) \o <<x>> = s \o (t \o <<x>>)
  BY <1>1, ConcatAssociative
<1>4. QED
  BY <1>2, <1>3

\* A message that is written on a connection that is up is the next after all that
\* connections have carried.
LEMMA CarriedWritten ==
  ASSUME NodeInv, NodeInv', CarriedInv, Low \in Int, Low' = Low + 1,
         NEW x \in Nat, x = Low + 1,
         Connected, Socket \in up, UNCHANGED <<Connected, Socket, up, received>>,
         wire' = [wire EXCEPT ![Socket] = Append(@, x)]
  PROVE  CarriedInv'
<1>1. Socket = Len(wire) /\ Socket \in DOMAIN wire /\ DOMAIN wire' = DOMAIN wire
      /\ DOMAIN wire = 1..Len(wire)
  BY DEF NodeInv, TypeOK, SocketInv
<1>2. PICK s \in DOMAIN wire : s = Socket
  BY <1>1
<1>3. ASSUME NEW c \in DOMAIN wire, c # s
      PROVE  Carried(c)' = Carried(c)
  <2>1. wire'[c] = wire[c]
    BY <1>2, <1>3
  <2>2. QED
    BY <2>1 DEF Carried
<1>4. Carried(s)' = Append(Carried(s), x)
  <2>1. wire'[s] = Append(wire[s], x)
    BY <1>2
  <2>2. received[s] \in Seq(Nat) /\ wire[s] \in Seq(Nat)
    BY CarriedShape
  <2>3. received[s] \o Append(wire[s], x) = Append(received[s] \o wire[s], x)
    BY <2>2, ConcatAppend
  <2>4. QED
    BY <2>1, <2>3 DEF Carried
<1>5. \A c \in DOMAIN wire : Carried(c) \in Seq(Nat) /\ Len(Carried(c)) \in Nat
                             /\ \A i \in 1..Len(Carried(c)) : Carried(c)[i] \in Nat
  BY CarriedShape
<1> DEFINE n == Len(Carried(s))
<1>6. /\ n \in Nat /\ Len(Carried(s)') = n + 1
      /\ Carried(s)'[n + 1] = x
      /\ \A i \in 1..n : Carried(s)'[i] = Carried(s)[i]
  BY <1>4, <1>5
<1> HIDE DEF n
<1>7. /\ Consecutive(Carried(s)) /\ \A i \in 1..n : Carried(s)[i] <= Low
      /\ n > 0 => Carried(s)[n] = Low
  <2>1. Carried(Socket) = Carried(s) /\ (n > 0 => Carried(s) # <<>>)
    BY <1>2 DEF n
  <2>2. QED
    BY <2>1 DEF CarriedInv, n
<1>8. ASSUME NEW c \in DOMAIN wire
      PROVE  /\ Consecutive(Carried(c))'
             /\ \A i \in 1..Len(Carried(c)') : Carried(c)'[i] <= Low'
  <2>1. CASE c # s
    <3>1. Consecutive(Carried(c)) /\ \A i \in 1..Len(Carried(c)) : Carried(c)[i] <= Low
      BY DEF CarriedInv
    <3>2. ASSUME NEW i \in 1..Len(Carried(c)) PROVE Carried(c)[i] <= Low'
      <4>1. Carried(c)[i] \in Nat /\ Carried(c)[i] <= Low
        BY <1>5, <3>1
      <4>2. QED
        BY <4>1
    <3>3. QED
      BY <1>3, <2>1, <3>1, <3>2 DEF Consecutive
  <2>2. CASE c = s
    <3>1. ASSUME NEW i \in 1..Len(Carried(s)') - 1
          PROVE  Carried(s)'[i + 1] = Carried(s)'[i] + 1
      <4>1. CASE i = n
        BY <1>6, <1>7, <4>1
      <4>2. CASE i # n
        <5>1. i \in 1..n /\ i + 1 \in 1..n /\ i \in 1..Len(Carried(s)) - 1
          BY <1>6, <4>2 DEF n
        <5>2. Carried(s)[i + 1] = Carried(s)[i] + 1
          BY <1>7, <5>1 DEF Consecutive
        <5>3. QED
          BY <1>6, <5>1, <5>2
      <4>3. QED
        BY <4>1, <4>2
    <3>2. ASSUME NEW i \in 1..Len(Carried(s)')
          PROVE  Carried(s)'[i] <= Low'
      <4>1. CASE i = n + 1
        BY <1>6, <4>1
      <4>2. CASE i # n + 1
        <5>1. i \in 1..n /\ i \in 1..Len(Carried(s))
          BY <1>6, <4>2 DEF n
        <5>2. Carried(s)'[i] = Carried(s)[i] /\ Carried(s)[i] <= Low /\ Carried(s)[i] \in Nat
          BY <1>5, <1>6, <1>7, <5>1
        <5>3. QED
          BY <5>2
      <4>3. QED
        BY <4>1, <4>2
    <3>3. QED
      BY <2>2, <3>1, <3>2 DEF Consecutive
  <2>3. QED
    BY <2>1, <2>2
<1>9. ASSUME NEW c \in DOMAIN wire, NEW d \in DOMAIN wire, c < d,
             NEW i \in 1..Len(Carried(c)'), NEW j \in 1..Len(Carried(d)')
      PROVE  Carried(c)'[i] < Carried(d)'[j]
  <2>1. c # s
    BY <1>1, <1>2, <1>9
  <2>2. Carried(c)' = Carried(c) /\ i \in 1..Len(Carried(c))
    BY <1>3, <2>1
  <2>3. \A k \in 1..Len(Carried(d)) : Carried(c)[i] < Carried(d)[k]
    BY <1>9, <2>2 DEF CarriedInv
  <2>4. CASE d # s
    BY <1>3, <2>2, <2>3, <2>4
  <2>5. CASE d = s
    <3>1. CASE j = n + 1
      <4>1. Carried(c)[i] <= Low /\ Carried(c)[i] \in Nat
        BY <1>5, <2>2 DEF CarriedInv
      <4>2. QED
        BY <1>6, <2>2, <2>5, <3>1, <4>1
    <3>2. CASE j # n + 1
      <4>1. j \in 1..n /\ j \in 1..Len(Carried(d))
        BY <1>6, <2>5, <3>2 DEF n
      <4>2. QED
        BY <1>6, <2>2, <2>3, <2>5, <4>1
    <3>3. QED
      BY <3>1, <3>2
  <2>6. QED
    BY <2>4, <2>5
<1>10. Carried(Socket)'[Len(Carried(Socket)')] = Low'
  <2>1. Carried(Socket)' = Carried(s)'
    BY <1>2 DEF Carried
  <2>2. QED
    BY <1>6, <2>1
<1>11. QED
  BY <1>1, <1>8, <1>9, <1>10 DEF CarriedInv

\* A new connection has carried nothing.
LEMMA CarriedConnect ==
  ASSUME NodeInv, NodeInv', CarriedInv, ConnectDone, Low \in Int, Low' = Low
  PROVE  CarriedInv'
<1>1. wire \in Seq(Seq(Nat)) /\ received \in Seq(Seq(Nat)) /\ Len(received) = Len(wire)
      /\ Len(wire) \in Nat
  BY DEF NodeInv, TypeOK, SocketInv
<1>2. PICK n \in Nat : n = Len(wire) + 1
  BY <1>1
<1>3. /\ wire' = Append(wire, <<>>) /\ received' = Append(received, <<>>)
      /\ Socket' = Socket /\ Connected' = TRUE
  BY DEF ConnectDone
<1>4. /\ DOMAIN wire' = 1..n /\ DOMAIN wire = 1..Len(wire)
      /\ wire'[n] = <<>> /\ received'[n] = <<>>
      /\ \A c \in 1..Len(wire) : wire'[c] = wire[c] /\ received'[c] = received[c]
  BY <1>1, <1>3, <1>2
<1>5. \A c \in 1..Len(wire) : Carried(c)' = Carried(c)
  BY <1>4 DEF Carried
<1>6. Carried(n)' = <<>>
  BY <1>4 DEF Carried
<1>7. \A c \in DOMAIN wire' : c \in DOMAIN wire \/ c = n
  BY <1>1, <1>4, <1>2
<1>8. Socket' = n
  <2>1. Len(wire') = n
    BY <1>1, <1>3, <1>2
  <2>2. QED
    BY <1>3, <2>1 DEF NodeInv, SocketInv
<1>9. Carried(Socket)' = <<>>
  BY <1>4, <1>8 DEF Carried
<1>10. Len(<<>>) = 0 /\ Consecutive(<<>>)
  BY DEF Consecutive
<1>11. ASSUME NEW c \in DOMAIN wire'
       PROVE  /\ Consecutive(Carried(c))'
              /\ \A i \in 1..Len(Carried(c)') : Carried(c)'[i] <= Low'
  <2>1. CASE c = n
    <3>1. Carried(c)' = <<>>
      BY <1>6, <2>1
    <3>2. QED
      BY <1>10, <3>1 DEF Consecutive
  <2>2. CASE c \in DOMAIN wire
    <3>1. Carried(c)' = Carried(c)
      BY <1>4, <1>5, <2>2
    <3>2. QED
      BY <2>2, <3>1 DEF CarriedInv, Consecutive
  <2>3. QED
    BY <1>7, <2>1, <2>2
<1>12. ASSUME NEW c \in DOMAIN wire', NEW d \in DOMAIN wire', c < d,
              NEW i \in 1..Len(Carried(c)'), NEW j \in 1..Len(Carried(d)')
       PROVE  Carried(c)'[i] < Carried(d)'[j]
  <2>1. c # n /\ d # n
    <3>1. CASE c = n
      BY <1>6, <1>10, <3>1
    <3>2. CASE d = n
      BY <1>6, <1>10, <3>2
    <3>3. QED
      BY <3>1, <3>2
  <2>2. c \in DOMAIN wire /\ d \in DOMAIN wire
    BY <1>7, <2>1
  <2>3. Carried(c)' = Carried(c) /\ Carried(d)' = Carried(d)
    BY <1>4, <1>5, <2>2
  <2>4. QED
    BY <1>12, <2>2, <2>3 DEF CarriedInv
<1>13. QED
  BY <1>9, <1>11, <1>12 DEF CarriedInv

\* Reading a message moves it from one to the other.
LEMMA ConcatMove ==
  ASSUME NEW s \in Seq(Nat), NEW t \in Seq(Nat), t # <<>>
  PROVE  Append(s, Head(t)) \o Tail(t) = s \o t
<1>1. /\ Head(t) \in Nat /\ <<Head(t)>> \in Seq(Nat) /\ Tail(t) \in Seq(Nat)
      /\ Head(t) = t[1] /\ 1 \in 1..Len(t) /\ Len(t) \in 1..Len(t)
  OBVIOUS
<1>2. <<Head(t)>> \o Tail(t) = t
  BY <1>1, SubSeqRecursiveFirst, SubSeqFull, TailIsSubSeq
<1>3. Append(s, Head(t)) = s \o <<Head(t)>>
  BY <1>1, AppendIsConcat
<1>4. (s \o <<Head(t)>>) \o Tail(t) = s \o (<<Head(t)>> \o Tail(t))
  BY <1>1, ConcatAssociative
<1>5. QED
  BY <1>2, <1>3, <1>4

\* The far end reads, or the connection breaks and the end of what is under way is lost.
LEMMA CarriedNet ==
  ASSUME NodeInv, NodeInv', CarriedInv, NEW c \in DOMAIN wire, Deliver(c) \/ Break(c),
         Low \in Int, Low' = Low
  PROVE  CarriedInv'
<1>1. DOMAIN wire = 1..Len(wire) /\ DOMAIN received = 1..Len(received)
      /\ Len(received) = Len(wire) /\ wire \in Seq(Seq(Nat)) /\ received \in Seq(Seq(Nat))
  BY DEF NodeInv, TypeOK, SocketInv
<1>2. received[c] \in Seq(Nat) /\ wire[c] \in Seq(Nat)
  BY CarriedShape
<1>3. \A b \in DOMAIN wire : Carried(b) \in Seq(Nat) /\ Len(Carried(b)) \in Nat
  BY CarriedShape
<1>4. UNCHANGED <<Connected, Socket>>
  BY DEF Deliver, Break, connectVars
<1>5. CASE Deliver(c)
  <2>1. /\ received' = [received EXCEPT ![c] = Append(received[c], Head(wire[c]))]
        /\ wire' = [wire EXCEPT ![c] = Tail(wire[c])]
        /\ wire[c] # <<>> /\ up' = up
    BY <1>5 DEF Deliver
  <2>2. received'[c] = Append(received[c], Head(wire[c])) /\ wire'[c] = Tail(wire[c])
    BY <1>1, <2>1
  <2>3. Carried(c)' = Carried(c)
    <3>1. Append(received[c], Head(wire[c])) \o Tail(wire[c]) = received[c] \o wire[c]
      BY <1>2, <2>1, ConcatMove
    <3>2. QED
      BY <2>2, <3>1 DEF Carried
  <2>4. ASSUME NEW b \in DOMAIN wire PROVE Carried(b)' = Carried(b)
    <3>1. CASE b # c
      <4>1. received'[b] = received[b] /\ wire'[b] = wire[b]
        BY <1>1, <2>1, <3>1
      <4>2. QED
        BY <4>1 DEF Carried
    <3>2. QED
      BY <2>3, <3>1
  <2>5. Connected' /\ Socket' \in up' => Len(Carried(Socket)') = Len(Carried(Socket))
    <3> SUFFICES ASSUME Socket \in up PROVE Len(Carried(Socket)') = Len(Carried(Socket))
      BY <1>4, <2>1
    <3>1. PICK b \in DOMAIN wire : b = Socket
      BY DEF NodeInv, TypeOK
    <3>2. Carried(Socket)' = Carried(b)' /\ Carried(Socket) = Carried(b)
      BY <1>4, <3>1 DEF Carried
    <3>3. QED
      BY <2>4, <3>2
  <2>6. DOMAIN wire' = DOMAIN wire
    BY <2>1
  <2>7. \A b \in DOMAIN wire : /\ Len(Carried(b)') <= Len(Carried(b))
                               /\ \A i \in 1..Len(Carried(b)') : Carried(b)'[i] = Carried(b)[i]
    BY <1>3, <2>4
  <2>8. Low' \in Int /\ Low <= Low'
    OBVIOUS
  <2>9. QED
    BY <1>4, <2>1, <2>5, <2>6, <2>7, <2>8, CarriedKept
<1>6. CASE Break(c)
  <2>1. PICK k \in 0..Len(wire[c]) : wire' = [wire EXCEPT ![c] = SubSeq(wire[c], 1, k)]
    BY <1>6 DEF Break
  <2>2. up' = up \ {c} /\ received' = received /\ DOMAIN wire' = DOMAIN wire
    BY <1>6, <2>1 DEF Break
  <2> DEFINE r == received[c]
             w == wire[c]
             p == SubSeq(wire[c], 1, k)
  <2>3. /\ k \in Nat /\ k <= Len(w) /\ Len(w) \in Nat /\ Len(r) \in Nat
        /\ p \in Seq(Nat) /\ Len(p) = k /\ \A i \in 1..k : p[i] = w[i]
    BY <1>2, <2>1
  <2>4. Carried(c)' = r \o p /\ Carried(c) = r \o w
    BY <1>1, <2>1, <2>2 DEF Carried
  <2>5. r \in Seq(Nat) /\ w \in Seq(Nat)
    BY <1>2
  <2> HIDE DEF r, w, p
  <2>6. /\ Len(r \o p) = Len(r) + k
        /\ \A i \in 1..Len(r) + k : (r \o p)[i] = IF i <= Len(r) THEN r[i] ELSE p[i - Len(r)]
    BY <2>3, <2>5, ConcatProperties
  <2>7. /\ Len(r \o w) = Len(r) + Len(w)
        /\ \A i \in 1..Len(r) + Len(w) : (r \o w)[i] = IF i <= Len(r) THEN r[i] ELSE w[i - Len(r)]
    BY <2>5, ConcatProperties
  <2>8. /\ Len(Carried(c)') <= Len(Carried(c))
        /\ \A i \in 1..Len(Carried(c)') : Carried(c)'[i] = Carried(c)[i]
    <3>1. Len(r) + k <= Len(r) + Len(w)
      BY <2>3
    <3>2. ASSUME NEW i \in 1..Len(r) + k PROVE (r \o p)[i] = (r \o w)[i]
      <4>1. i \in 1..Len(r) + Len(w)
        BY <2>3
      <4>2. CASE i <= Len(r)
        BY <2>6, <2>7, <4>1, <4>2
      <4>3. CASE ~ (i <= Len(r))
        <5>1. i - Len(r) \in 1..k
          BY <2>3, <4>3
        <5>2. QED
          BY <2>3, <2>6, <2>7, <4>1, <4>3, <5>1
      <4>4. QED
        BY <4>2, <4>3
    <3>3. QED
      BY <2>4, <2>6, <2>7, <3>1, <3>2
  <2>9. ASSUME NEW b \in DOMAIN wire, b # c PROVE Carried(b)' = Carried(b)
    <3>1. wire'[b] = wire[b]
      BY <2>1, <2>9
    <3>2. QED
      BY <2>2, <3>1 DEF Carried
  <2>10. Connected' /\ Socket' \in up' =>
            Socket \in up /\ Len(Carried(Socket)') = Len(Carried(Socket))
    <3> SUFFICES ASSUME Socket \in up, Socket # c
                 PROVE  Len(Carried(Socket)') = Len(Carried(Socket))
      BY <1>4, <2>2
    <3>1. PICK b \in DOMAIN wire : b = Socket
      BY DEF NodeInv, TypeOK
    <3>2. Carried(Socket)' = Carried(b)' /\ Carried(Socket) = Carried(b)
      BY <1>4, <3>1 DEF Carried
    <3>3. QED
      BY <2>9, <3>1, <3>2
  <2>11. \A b \in DOMAIN wire : /\ Len(Carried(b)') <= Len(Carried(b))
                                /\ \A i \in 1..Len(Carried(b)') : Carried(b)'[i] = Carried(b)[i]
    <3> SUFFICES ASSUME NEW b \in DOMAIN wire
                 PROVE  /\ Len(Carried(b)') <= Len(Carried(b))
                        /\ \A i \in 1..Len(Carried(b)') : Carried(b)'[i] = Carried(b)[i]
      OBVIOUS
    <3>1. CASE b = c
      BY <2>8, <3>1
    <3>2. CASE b # c
      BY <1>3, <2>9, <3>2
    <3>3. QED
      BY <3>1, <3>2
  <2>12. Low' \in Int /\ Low <= Low'
    OBVIOUS
  <2>13. QED
    BY <1>4, <2>2, <2>10, <2>11, <2>12, CarriedKept
<1>7. QED
  BY <1>5, <1>6

-----------------------------------------------------------------------------
(* The theorems                                                             *)

LEMMA OrderInit == Init => OrderInv
<1> SUFFICES ASSUME Init PROVE OrderInv
  OBVIOUS
<1>1. Messages = <<>> /\ Batch = <<>> /\ sent = 0
  BY DEF Init, Batch
<1>2. QueueInv
  BY <1>1 DEF QueueInv
<1>3. \A c \in DOMAIN wire : Carried(c) = <<>>
  <2>1. CASE HasAddress
    BY <2>1 DEF Init
  <2>2. CASE ~HasAddress
    <3>1. wire = << <<>> >> /\ received = << <<>> >>
      BY <2>2 DEF Init
    <3>2. DOMAIN wire = {1} /\ wire[1] = <<>> /\ received[1] = <<>>
      BY <3>1
    <3>3. QED
      BY <3>2 DEF Carried
  <2>3. QED
    BY <2>1, <2>2
<1>4. Socket \in up => Socket \in DOMAIN wire
  BY DEF Init
<1>5. Len(<<>>) = 0 /\ Consecutive(<<>>)
  BY DEF Consecutive
<1>6. CarriedInv
  BY <1>3, <1>4, <1>5 DEF CarriedInv
<1>7. QED
  BY <1>2, <1>6 DEF OrderInv

LEMMA OrderStep ==
  ASSUME NodeInv, NodeInv', OrderInv, [Next]_vars
  PROVE  OrderInv'
<1>1. NodeInv /\ QueueInv /\ CarriedInv /\ Low \in Int /\ Low + 1 \in Int /\ Low <= Low
  BY QueueShape DEF OrderInv
<1>2. ASSUME UNCHANGED <<wire, received>>, Low' \in Int, Low <= Low',
             Connected' /\ Socket' \in up' =>
                Connected /\ Socket \in up /\ Socket' = Socket /\ Low' = Low
      PROVE  CarriedInv'
  <2>1. \A c \in DOMAIN wire : Carried(c)' = Carried(c) /\ Len(Carried(c)) \in Nat
    BY <1>2, CarriedSame, CarriedShape
  <2>2. \A c \in DOMAIN wire :
            /\ Len(Carried(c)') <= Len(Carried(c))
            /\ \A i \in 1..Len(Carried(c)') : Carried(c)'[i] = Carried(c)[i]
    BY <2>1
  <2>3. Socket' = Socket => Carried(Socket)' = Carried(Socket)
    BY <1>2 DEF Carried
  <2>4. QED
    BY <1>1, <1>2, <2>2, <2>3, CarriedKept
<1>3. ASSUME NEW k \in 0..MaxSends, Turn(k)
      PROVE  OrderInv'
  <2>1. QueueInv' /\ Low' = Low
    BY <1>1, <1>3, QueueTurn
  <2>2. UNCHANGED <<up, wire, received>>
    BY <1>3 DEF Turn, netVars
  <2>3. Connected' => Connected /\ Socket' = Socket
    BY <1>3 DEF Turn, Drain, Connect, connectVars
  <2>4. QED
    BY <1>1, <1>2, <2>1, <2>2, <2>3 DEF OrderInv
<1>4. ASSUME NEW d \in drains, WriteDone(d)
      PROVE  OrderInv'
  <2>1. QueueInv' /\ Low' = Low + 1 /\ Head(d.tosend) = Low + 1
    BY <1>1, <1>4, QueueWriteDone
  <2>2. UNCHANGED <<Connected, Socket, up, received>>
    BY <1>4 DEF WriteDone, connectVars
  <2>3. CASE Socket \in up
    <3>1. Connected /\ Head(d.tosend) \in Nat
      BY <1>1 DEF NodeInv, TypeOK, WriterInv, TDrain
    <3>2. wire' = [wire EXCEPT ![Socket] = Append(@, Head(d.tosend))]
      BY <1>4, <2>3 DEF WriteDone
    <3>3. CarriedInv'
      BY <1>1, <2>1, <2>2, <2>3, <3>1, <3>2, CarriedWritten
    <3>4. QED
      BY <2>1, <3>3 DEF OrderInv
  <2>4. CASE Socket \notin up
    <3>1. wire' = wire
      BY <1>4, <2>4 DEF WriteDone
    <3>2. Low' \in Int /\ Low <= Low'
      BY <1>1, <2>1
    <3>3. CarriedInv'
      BY <1>2, <2>2, <2>4, <3>1, <3>2
    <3>4. QED
      BY <2>1, <3>3 DEF OrderInv
  <2>5. QED
    BY <2>3, <2>4
<1>5. ASSUME NEW d \in drains, WriteFails(d)
      PROVE  OrderInv'
  <2>1. QueueInv' /\ Low <= Low' /\ Low' \in Int
    BY <1>1, <1>5, QueueWriteFails
  <2>2. UNCHANGED <<up, wire, received>>
    BY <1>5 DEF WriteFails, netVars
  <2>3. ~ (Connected' /\ Socket' \in up')
    BY <1>5, <2>2 DEF WriteFails, Connect, connectVars
  <2>4. QED
    BY <1>2, <2>1, <2>2, <2>3 DEF OrderInv
<1>6. CASE ConnectDone
  <2>1. QueueInv' /\ Low' = Low
    BY <1>1, <1>6, QueueQuiet DEF ConnectDone
  <2>2. QED
    BY <1>1, <1>6, <2>1, CarriedConnect DEF OrderInv
<1>7. CASE ConnectFails \/ Wake
  <2>1. QueueInv' /\ Low' = Low
    BY <1>1, <1>7, QueueQuiet DEF ConnectFails, Wake
  <2>2. trying \in Nat /\ asleep \in Nat
    BY <1>1 DEF NodeInv, TypeOK
  <2>3. trying + asleep = 1
    BY <1>1, <1>7, <2>2 DEF ConnectFails, Wake, NodeInv, WriterInv
  <2>4. ~ Connected' /\ UNCHANGED <<wire, received>>
    BY <1>1, <1>7, <2>3 DEF ConnectFails, Wake, NodeInv, WriterInv, netVars
  <2>5. QED
    BY <1>1, <1>2, <2>1, <2>4 DEF OrderInv
<1>8. ASSUME NEW c \in DOMAIN wire, Deliver(c) \/ Break(c)
      PROVE  OrderInv'
  <2>1. QueueInv' /\ Low' = Low
    BY <1>1, <1>8, QueueQuiet DEF Deliver, Break
  <2>2. QED
    BY <1>1, <1>8, <2>1, CarriedNet DEF OrderInv
<1>9. CASE UNCHANGED vars
  <2>1. QueueInv' /\ Low' = Low
    BY <1>1, <1>9, QueueQuiet DEF vars
  <2>2. QED
    BY <1>1, <1>2, <1>9, <2>1 DEF OrderInv, vars, connectVars, netVars
<1>10. QED
  BY <1>3, <1>4, <1>5, <1>6, <1>7, <1>8, <1>9 DEF Next

LEMMA OrderInvCorrect == Spec => [](NodeInv /\ OrderInv)
<1>1. Init => NodeInv /\ OrderInv
  BY NodeInit, OrderInit
<1>2. NodeInv /\ NodeInv' /\ OrderInv /\ [Next]_vars => OrderInv'
  BY OrderStep
<1>3. Spec => []NodeInv
  BY NodeInvCorrect
<1>4. QED
  BY <1>1, <1>2, <1>3, PTL DEF Spec

\* However writes, connects and sleeps end and connections break, each connection
\* carries messages in the order in which they were handed to Send, without a gap or a
\* repetition, and a later connection carries only later ones.
THEOREM EachConnectionInOrder == Spec => []NoGaps
<1>1. NodeInv /\ OrderInv => NoGaps
  <2> SUFFICES ASSUME NodeInv, OrderInv PROVE NoGaps
    OBVIOUS
  <2>1. \A c \in DOMAIN wire : DOMAIN Carried(c) = 1..Len(Carried(c))
    BY CarriedShape
  <2>2. QED
    BY <2>1 DEF OrderInv, CarriedInv, NoGaps, Carried
<1>2. QED
  BY <1>1, OrderInvCorrect, PTL

\* While a connection is up, nothing that was handed to Send since its first message is
\* lost or out of order: not at a partial write, not while the queue grows under one.
THEOREM NothingIsLost == Spec => []NothingLostWhileUp
<1>1. NodeInv /\ OrderInv => NothingLostWhileUp
  <2> SUFFICES ASSUME NodeInv, OrderInv, Connected, Socket \in up
               PROVE  LET s == received[Socket] \o wire[Socket] \o Batch \o Messages
                      IN  Consecutive(s) /\ (s # <<>> => s[Len(s)] = sent)
    BY DEF NothingLostWhileUp
  <2> DEFINE C == Carried(Socket)
             K == Len(C)
             B == Len(Batch)
             M == Len(Messages)
             q == C \o Batch
             s == q \o Messages
  <2>1. /\ C \in Seq(Nat) /\ Batch \in Seq(Nat) /\ Messages \in Seq(Nat)
        /\ K \in Nat /\ B \in Nat /\ M \in Nat /\ sent \in Nat
        /\ Low \in Int /\ sent = Low + B + M
    <3>1. Socket \in DOMAIN wire
      BY DEF NodeInv, TypeOK
    <3>2. C \in Seq(Nat)
      BY <3>1, CarriedShape
    <3>3. /\ Batch \in Seq(Nat) /\ B \in Nat /\ Messages \in Seq(Nat) /\ M \in Nat
          /\ sent \in Nat /\ Low \in Int
      BY QueueShape
    <3>4. sent = Low + B + M
      BY <3>3 DEF Low
    <3>5. QED
      BY <3>2, <3>3, <3>4
  <2>2. /\ Consecutive(C) /\ (C # <<>> => C[K] = Low)
        /\ \A i \in 1..B : Batch[i] = Low + i
        /\ \A i \in 1..M : Messages[i] = Low + B + i
    <3>1. Socket \in DOMAIN wire
      BY DEF NodeInv, TypeOK
    <3>2. QED
      BY <3>1 DEF OrderInv, QueueInv, CarriedInv
  <2>3. C # <<>> <=> K > 0
    BY <2>1
  <2> HIDE DEF C
  <2>4. /\ q \in Seq(Nat) /\ Len(q) = K + B
        /\ \A i \in 1..K + B : q[i] = IF i <= K THEN C[i] ELSE Batch[i - K]
    BY <2>1, ConcatProperties
  <2> HIDE DEF q
  <2>5. /\ s \in Seq(Nat) /\ Len(s) = Len(q) + M
        /\ \A i \in 1..Len(q) + M : s[i] = IF i <= Len(q) THEN q[i] ELSE Messages[i - Len(q)]
    BY <2>1, <2>4, ConcatProperties
  <2> HIDE DEF s, K, B, M
  <2>6. Len(s) = K + B + M
    BY <2>1, <2>4, <2>5
  <2>7. ASSUME NEW i \in 1..Len(s), i <= K
        PROVE  s[i] = C[i]
    <3>1. i \in 1..K + B /\ i <= Len(q) /\ i \in 1..Len(q) + M
      BY <2>1, <2>4, <2>6, <2>7
    <3>2. s[i] = q[i]
      BY <2>5, <3>1
    <3>3. QED
      BY <2>4, <2>7, <3>1, <3>2
  <2>8. ASSUME NEW i \in 1..Len(s), i >= K
        PROVE  s[i] = Low + (i - K)
    <3>1. CASE i = K
      <4>1. s[i] = C[K] /\ K > 0
        BY <2>1, <2>7, <3>1
      <4>2. QED
        BY <2>1, <2>2, <2>3, <3>1, <4>1
    <3>2. CASE i > K /\ i <= K + B
      <4>1. ~ (i <= K) /\ i \in 1..K + B /\ i <= Len(q) /\ i \in 1..Len(q) + M /\ i - K \in 1..B
        BY <2>1, <2>4, <2>6, <3>2
      <4>2. s[i] = q[i] /\ q[i] = Batch[i - K]
        BY <2>4, <2>5, <4>1
      <4>3. QED
        BY <2>2, <4>1, <4>2
    <3>3. CASE i > K + B
      <4>1. ~ (i <= Len(q)) /\ i \in 1..Len(q) + M /\ i - Len(q) \in 1..M
        BY <2>1, <2>4, <2>6, <3>3
      <4>2. s[i] = Messages[i - Len(q)]
        BY <2>5, <4>1
      <4>3. Messages[i - Len(q)] = Low + B + (i - Len(q))
        BY <2>2, <4>1
      <4>4. Low + B + (i - Len(q)) = Low + (i - K)
        BY <2>1, <2>4, <3>3
      <4>5. QED
        BY <4>2, <4>3, <4>4
    <3>4. i = K \/ (i > K /\ i <= K + B) \/ i > K + B
      BY <2>1, <2>8
    <3>5. QED
      BY <3>1, <3>2, <3>3, <3>4
  <2>9. ASSUME NEW i \in 1..Len(s) - 1
        PROVE  s[i + 1] = s[i] + 1
    <3>1. i \in 1..Len(s) /\ i + 1 \in 1..Len(s) /\ i \in Int
      BY <2>1, <2>6
    <3>2. CASE i >= K
      <4>1. s[i] = Low + (i - K)
        BY <2>8, <3>1, <3>2
      <4>2. i + 1 >= K
        BY <2>1, <3>1, <3>2
      <4>3. s[i + 1] = Low + ((i + 1) - K)
        BY <2>8, <3>1, <4>2
      <4>4. QED
        BY <2>1, <3>1, <4>1, <4>3
    <3>3. CASE i < K
      <4>1. i + 1 <= K /\ i <= K /\ i \in 1..K - 1
        BY <2>1, <3>1, <3>3
      <4>2. s[i] = C[i] /\ s[i + 1] = C[i + 1]
        BY <2>7, <3>1, <4>1
      <4>3. C[i + 1] = C[i] + 1
        BY <2>2, <4>1 DEF Consecutive, K
      <4>4. QED
        BY <4>2, <4>3
    <3>4. i >= K \/ i < K
      BY <2>1, <3>1
    <3>5. QED
      BY <3>2, <3>3, <3>4
  <2>10. s # <<>> => s[Len(s)] = sent
    <3>1. SUFFICES ASSUME s # <<>> PROVE s[Len(s)] = sent
      OBVIOUS
    <3>2. Len(s) \in 1..Len(s) /\ Len(s) >= K
      <4>1. Len(s) > 0
        BY <2>5, <3>1
      <4>2. QED
        BY <2>1, <2>6, <4>1
    <3>3. s[Len(s)] = Low + (Len(s) - K)
      BY <2>8, <3>2
    <3>4. QED
      BY <2>1, <2>6, <3>3
  <2>11. s = received[Socket] \o wire[Socket] \o Batch \o Messages
    BY DEF s, q, C, Carried
  <2>12. Consecutive(s)
    BY <2>9 DEF Consecutive
  <2>13. QED
    BY <2>10, <2>11, <2>12
<1>2. QED
  BY <1>1, OrderInvCorrect, PTL
=============================================================================
