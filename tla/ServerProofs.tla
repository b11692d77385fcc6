---------------------------- MODULE ServerProofs ----------------------------
(***************************************************************************)
(* Theorems about Server, for any clients and any number of commands.      *)
(***************************************************************************)
EXTENDS Server, FiniteSetTheorems, SequenceTheorems, WellFoundedInduction, TLAPS

\* Nobody waits for a client before it is accepted, and nothing is queued for it: the
\* TNode does not exist.
BeforeAccept ==
    \A c \in Client : conn[c] \in {"none", "calling"} =>
        /\ ~Held(c, Nodes, waiting)
        /\ Messages[c] = <<>>

Shape ==
    /\ conn \in [Client -> Connection]
    /\ Nodes \subseteq Client
    /\ DOMAIN Messages = Client
    /\ DOMAIN tosend = Client

QueueInv == Shape /\ BeforeAccept /\ NoIdleQueue

\* DrainNodes at the end of a turn: whoever it was for, no queue of a node is left
\* without a drainer, and a client that is not accepted yet has no queue.
LEMMA AnswerDrains ==
  ASSUME QueueInv, UNCHANGED <<conn, Nodes>>,
         NEW turnOf, NEW role, NEW commit, NEW commands,
         \A c \in Client : conn[c] \in {"none", "calling"} => ~Held(c, Nodes, commands),
         Answer(turnOf, role, commit, commands)
  PROVE  QueueInv'
<1> DEFINE applied == IF role THEN commit ELSE 0
           queue == [c \in Client |-> Messages[c] \o RepliesTo(c, Done(commands, applied))]
           left == Left(commands, applied)
<1>1. /\ waiting' = left
      /\ Messages' = [c \in Client |->
            IF c \in Drained(Nodes, turnOf) \/ ~Held(c, Nodes, left) THEN <<>> ELSE queue[c]]
      /\ tosend' = [c \in Client |->
            IF c \in Drained(Nodes, turnOf) THEN queue[c]
            ELSE IF Held(c, Nodes, left) THEN tosend[c] ELSE <<>>]
  BY DEF Answer
<1>2. \A c \in Client : Held(c, Nodes, left) => Held(c, Nodes, commands)
  BY DEF Held, Left
<1> HIDE DEF queue, left
<1>3. Shape'
  BY <1>1 DEF QueueInv, Shape
<1>4. BeforeAccept'
  <2> SUFFICES ASSUME NEW c \in Client, conn[c] \in {"none", "calling"}
               PROVE  ~Held(c, Nodes, left) /\ Messages'[c] = <<>>
    BY <1>1 DEF BeforeAccept, Held
  <2>1. ~Held(c, Nodes, left)
    BY <1>2
  <2>2. QED
    BY <1>1, <2>1
<1>5. NoIdleQueue'
  <2> SUFFICES ASSUME NEW c \in Nodes, Messages'[c] # <<>>
               PROVE  tosend'[c] # <<>>
    BY DEF NoIdleQueue
  <2>1. c \in Client /\ Held(c, Nodes, left)
    BY DEF QueueInv, Shape, Held
  <2>2. c \notin Drained(Nodes, turnOf)
    BY <1>1, <2>1
  <2>3. tosend[c] # <<>>
    BY <2>2 DEF Drained
  <2>4. QED
    BY <1>1, <2>1, <2>2, <2>3
<1>6. QED
  BY <1>3, <1>4, <1>5 DEF QueueInv

LEMMA QueueStep == QueueInv /\ [Next]_vars => QueueInv'
<1> SUFFICES ASSUME QueueInv, [Next]_vars
             PROVE  QueueInv'
  OBVIOUS
<1>1. ASSUME NEW c \in Client, Call(c) \/ Close(c)
      PROVE  QueueInv'
  <2>1. /\ UNCHANGED <<Nodes, Messages, tosend, waiting>>
        /\ conn[c] \in {"none", "open"}
        /\ \E k \in Connection : /\ conn' = [conn EXCEPT ![c] = k]
                                 /\ k \notin {"none", "open"}
                                 /\ k = "calling" => conn[c] = "none"
    BY <1>1 DEF Call, Close, nodeVars, raftVars, Connection
  <2>2. QED
    BY <2>1 DEF QueueInv, Shape, BeforeAccept, NoIdleQueue, Held
<1>2. ASSUME UNCHANGED <<conn, Nodes, Messages, tosend, waiting>>
      PROVE  QueueInv'
  BY <1>2 DEF QueueInv, Shape, BeforeAccept, NoIdleQueue, Held
<1>3. ASSUME NEW c \in Client, Accept(c)
      PROVE  QueueInv'
  <2>1. /\ conn[c] = "calling"
        /\ conn' = [conn EXCEPT ![c] = "open"]
        /\ Nodes' = Nodes \cup {c}
        /\ UNCHANGED <<Messages, tosend, waiting>>
    BY <1>3 DEF Accept, raftVars
  <2>2. Messages[c] = <<>>
    BY <2>1 DEF QueueInv, BeforeAccept
  <2>3. QED
    BY <2>1, <2>2 DEF QueueInv, Shape, BeforeAccept, NoIdleQueue, Held, Connection
<1>4. ASSUME NEW c \in Client, NEW write \in BOOLEAN, Request(c, write)
      PROVE  QueueInv'
  <2>1. PICK commands :
           /\ Answer({c}, leads, CommitIndex, commands)
           /\ \A x \in commands : x \in waiting \/ x.ReplyTo = c
    BY <1>4 DEF Request
  <2>2. UNCHANGED <<conn, Nodes>> /\ c \in Nodes
    BY <1>4 DEF Request
  <2>3. \A d \in Client : conn[d] \in {"none", "calling"} => ~Held(d, Nodes, commands)
    BY <2>1, <2>2 DEF QueueInv, BeforeAccept, Held
  <2>4. QED
    BY <2>1, <2>2, <2>3, AnswerDrains
<1>5. ASSUME NEW role, NEW commit, Answer({}, role, commit, waiting), UNCHANGED <<conn, Nodes>>
      PROVE  QueueInv'
  BY <1>5, AnswerDrains DEF QueueInv, BeforeAccept
<1>6. ASSUME NEW c \in Client, ConnectionClosed(c)
      PROVE  QueueInv'
  BY <1>6 DEF ConnectionClosed, Erased, QueueInv, Shape, BeforeAccept, NoIdleQueue, Held,
     clientVars, raftVars
<1>7. ASSUME NEW c \in Client, WriteDone(c)
      PROVE  QueueInv'
  BY <1>7 DEF WriteDone, Onward, QueueInv, Shape, BeforeAccept, NoIdleQueue, Held, raftVars
<1>8. ASSUME NEW c \in Client, WriteFails(c)
      PROVE  QueueInv'
  BY <1>8 DEF WriteFails, QueueInv, Shape, BeforeAccept, NoIdleQueue, Held, clientVars, raftVars
<1>9. ASSUME \/ Idle \/ PeerCommits
             \/ \E size \in Nat : PeerChangesRole(size)
      PROVE  QueueInv'
  BY <1>9, <1>5 DEF Idle, PeerCommits, PeerChangesRole, clientVars
<1>10. ASSUME (\E c \in Client : Ask(c)) \/ UNCHANGED vars
       PROVE  QueueInv'
  BY <1>10, <1>2 DEF Ask, vars, clientVars, nodeVars, raftVars
<1>11. QED
  BY <1>1, <1>3, <1>4, <1>6, <1>7, <1>8, <1>9, <1>10 DEF Next

\* No reply is stranded: at any moment an open connection with replies in its queue has
\* a drainer that will write them, for any clients and however their turns interleave.
THEOREM RepliesDrain == Spec => []NoIdleQueue
<1>1. Init => QueueInv
  BY DEF Init, QueueInv, Shape, BeforeAccept, NoIdleQueue, Held, Connection
<1>2. QueueInv => NoIdleQueue
  BY DEF QueueInv
<1>3. QED
  BY <1>1, <1>2, QueueStep, PTL DEF Spec

-----------------------------------------------------------------------------
(* The order in which the commands that wait are popped                     *)

LEMMA LeastNat ==
  ASSUME NEW T, T \subseteq Nat, T # {}
  PROVE  \E x \in T : \A y \in T : x <= y
<1>1. PICK x \in T : \A y \in T : ~ (<<y, x>> \in OpToRel(<, Nat))
  BY NatLessThanWellFounded, WFMin
<1>2. \A y \in T : ~ (y < x)
  BY <1>1 DEF OpToRel
<1>3. QED
  BY <1>2

HasLast(w) == \E m \in w : \A x \in w : x.Index <= m.Index

\* One of finitely many commands has the largest index.
LEMMA LargestIndex ==
  ASSUME NEW w, IsFiniteSet(w), w # {}, \A x \in w : x.Index \in Nat
  PROVE  HasLast(w)
<1> DEFINE bad == {u \in SUBSET w : u # {} /\ ~ HasLast(u)}
           sizes == {Cardinality(u) : u \in bad}
<1>1. \A u \in SUBSET w : IsFiniteSet(u) /\ Cardinality(u) \in Nat
  BY FS_Subset, FS_CardinalityType
<1>2. SUFFICES ASSUME bad # {} PROVE FALSE
  OBVIOUS
<1>3. PICK u \in bad : \A v \in bad : Cardinality(u) <= Cardinality(v)
  <2>1. sizes \subseteq Nat /\ sizes # {}
    BY <1>1, <1>2
  <2>2. PICK n \in sizes : \A k \in sizes : n <= k
    BY <2>1, LeastNat
  <2>3. QED
    BY <2>2
<1>4. PICK x \in u : TRUE
  BY <1>3
<1> DEFINE v == u \ {x}
<1>5. /\ v \in SUBSET w /\ IsFiniteSet(u)
      /\ Cardinality(v) \in Nat /\ Cardinality(u) \in Nat
      /\ Cardinality(v) = Cardinality(u) - 1
  BY <1>1, <1>3, <1>4, FS_RemoveElement
<1>6. v \notin bad
  BY <1>3, <1>5
<1>7. CASE v = {}
  <2>1. u = {x} /\ x.Index \in Nat
    BY <1>3, <1>4, <1>7
  <2>2. QED
    BY <1>3, <2>1 DEF HasLast
<1>8. CASE HasLast(v)
  <2>1. PICK m \in v : \A y \in v : y.Index <= m.Index
    BY <1>8 DEF HasLast
  <2>2. \A y \in u : y.Index \in Nat /\ (y \in v \/ y = x)
    BY <1>3
  <2>3. CASE x.Index <= m.Index
    BY <1>3, <2>1, <2>2, <2>3 DEF HasLast
  <2>4. CASE ~ (x.Index <= m.Index)
    <3>1. \A y \in v : y.Index <= x.Index
      BY <1>4, <2>1, <2>2, <2>4
    <3>2. \A y \in u : y.Index <= x.Index
      BY <1>4, <2>2, <3>1
    <3>3. QED
      BY <1>3, <1>4, <3>2 DEF HasLast
  <2>5. QED
    BY <2>3, <2>4
<1>9. QED
  BY <1>5, <1>6, <1>7, <1>8

IsInOrder(s, w) ==
    /\ s \in [1..Cardinality(w) -> w]
    /\ \A i, j \in 1..Cardinality(w) : i < j => s[i] # s[j] /\ s[i].Index <= s[j].Index

\* Finitely many commands can be put in order.
LEMMA OrderExists ==
  ASSUME NEW w, IsFiniteSet(w), \A x \in w : x.Index \in Nat
  PROVE  \E s : IsInOrder(s, w)
<1> DEFINE bad == {u \in SUBSET w : ~ \E s : IsInOrder(s, u)}
           sizes == {Cardinality(u) : u \in bad}
<1>1. \A u \in SUBSET w : IsFiniteSet(u) /\ Cardinality(u) \in Nat
  BY FS_Subset, FS_CardinalityType
<1>2. SUFFICES ASSUME bad # {} PROVE FALSE
  OBVIOUS
<1>3. PICK u \in bad : \A v \in bad : Cardinality(u) <= Cardinality(v)
  <2>1. sizes \subseteq Nat /\ sizes # {}
    BY <1>1, <1>2
  <2>2. PICK n \in sizes : \A k \in sizes : n <= k
    BY <2>1, LeastNat
  <2>3. QED
    BY <2>2
<1>4. u # {}
  <2> SUFFICES ASSUME u = {} PROVE FALSE
    OBVIOUS
  <2>1. Cardinality(u) = 0
    BY FS_EmptySet
  <2>2. [i \in 1..0 |-> 0] \in [1..0 -> u]
    OBVIOUS
  <2>3. IsInOrder([i \in 1..0 |-> 0], u)
    BY <2>1, <2>2 DEF IsInOrder
  <2>4. QED
    BY <1>3, <2>3
<1>5. IsFiniteSet(u) /\ \A x \in u : x.Index \in Nat
  BY <1>1, <1>3
<1>6. PICK m \in u : \A x \in u : x.Index <= m.Index
  BY <1>4, <1>5, LargestIndex DEF HasLast
<1> DEFINE v == u \ {m}
           n == Cardinality(u)
<1>7. v \in SUBSET w /\ Cardinality(v) = n - 1 /\ n \in Nat /\ n - 1 \in Nat
  <2>1. v \in SUBSET w
    BY <1>3
  <2>2. Cardinality(v) = n - 1
    BY <1>5, <1>6, FS_RemoveElement
  <2>3. QED
    BY <1>1, <1>3, <2>1, <2>2
<1>8. v \notin bad
  BY <1>3, <1>7
<1>9. PICK s : IsInOrder(s, v)
  BY <1>7, <1>8
<1> DEFINE t == [i \in 1..n |-> IF i = n THEN m ELSE s[i]]
<1> HIDE DEF n, v
<1>10. /\ s \in [1..n - 1 -> v]
       /\ \A i, j \in 1..n - 1 : i < j => s[i] # s[j] /\ s[i].Index <= s[j].Index
  BY <1>7, <1>9 DEF IsInOrder
<1>11. v \subseteq u /\ m \notin v
  BY DEF v
<1>12. \A i \in 1..n : i = n \/ i \in 1..n - 1
  BY <1>7
<1>13. t \in [1..n -> u]
  BY <1>6, <1>10, <1>11, <1>12
<1>14. ASSUME NEW i \in 1..n, NEW j \in 1..n, i < j
       PROVE  t[i] # t[j] /\ t[i].Index <= t[j].Index
  <2>1. i \in 1..n - 1 /\ i # n
    BY <1>7, <1>14
  <2>2. t[i] = s[i] /\ s[i] \in v
    BY <1>10, <2>1
  <2>3. CASE j = n
    BY <1>6, <1>11, <2>2, <2>3
  <2>4. CASE j # n
    BY <1>10, <1>12, <1>14, <2>1, <2>2, <2>4
  <2>5. QED
    BY <2>3, <2>4
<1>15. IsInOrder(t, u)
  BY <1>13, <1>14 DEF IsInOrder, n
<1>16. QED
  BY <1>3, <1>15

\* The queue gives back every command, and none twice.
LEMMA InOrderShape ==
  ASSUME NEW w, IsFiniteSet(w), \A x \in w : x.Index \in Nat
  PROVE  /\ Cardinality(w) \in Nat
         /\ InOrder(w) \in [1..Cardinality(w) -> w]
         /\ \A i, j \in 1..Cardinality(w) : i # j => InOrder(w)[i] # InOrder(w)[j]
         /\ \A x \in w : \E i \in 1..Cardinality(w) : InOrder(w)[i] = x
<1> DEFINE n == Cardinality(w)
           s == InOrder(w)
<1>1. n \in Nat
  BY FS_CardinalityType
<1>2. IsInOrder(s, w)
  <2>1. PICK t : IsInOrder(t, w)
    BY OrderExists
  <2>2. QED
    BY <2>1 DEF InOrder, IsInOrder
<1> HIDE DEF s
<1>3. s \in [1..n -> w] /\ \A i, j \in 1..n : i < j => s[i] # s[j]
  BY <1>2 DEF IsInOrder
<1> HIDE DEF n
<1>4. \A i, j \in 1..n : i # j => s[i] # s[j]
  <2> SUFFICES ASSUME NEW i \in 1..n, NEW j \in 1..n, i # j PROVE s[i] # s[j]
    OBVIOUS
  <2>1. i < j \/ j < i
    BY <1>1
  <2>2. QED
    BY <1>3, <2>1
<1>5. s \in Injection(1..n, w)
  BY <1>3, <1>4 DEF Injection, IsInjective
<1>6. Cardinality(1..n) = n
  BY <1>1, FS_Interval
<1>7. s \in Surjection(1..n, w)
  BY <1>5, <1>6, FS_Injection DEF n
<1>8. \A x \in w : \E i \in 1..n : s[i] = x
  BY <1>7 DEF Surjection
<1>9. QED
  BY <1>1, <1>3, <1>4, <1>8 DEF n, s

-----------------------------------------------------------------------------
(* Commands and their replies                                               *)

TReply == [Index : Nat, Num : Nat]
TWait == [Index : Nat, ReplyTo : Client, Num : Nat]

\* What c was sent and what is on the way to it, in order.
Replies(c) == received[c] \o tosend[c] \o Messages[c]
WaitsFor(c) == {x \in waiting : x.ReplyTo = c}

AllNums(s) == {s[i].Num : i \in DOMAIN s}
Once(s) == \A i, j \in DOMAIN s : i # j => s[i].Num # s[j].Num

ReplyTypes ==
    /\ received \in [Client -> Seq(TReply)]
    /\ tosend \in [Client -> Seq(TReply)]
    /\ Messages \in [Client -> Seq(TReply)]
    /\ inbox \in [Client -> Seq(Nat)]
    /\ asked \in [Client -> Nat]
    /\ taken \in [Client -> SUBSET Nat]
    /\ waiting \subseteq TWait
    /\ IsFiniteSet(waiting)
    /\ logSize \in Nat
    /\ CommitIndex \in Nat

Untouched ==
    \A c \in Client : conn[c] \in {"none", "calling"} =>
        inbox[c] = <<>> /\ received[c] = <<>> /\ tosend[c] = <<>> /\ taken[c] = {}

\* What is still to be read was written after all that was taken.
InboxInv ==
    \A c \in Client : conn[c] = "open" =>
        /\ c \in Nodes
        /\ \A n \in taken[c] : n <= asked[c]
        /\ \A i \in 1..Len(inbox[c]) : /\ inbox[c][i] <= asked[c]
                                       /\ \A n \in taken[c] : n < inbox[c][i]
        /\ \A i, j \in 1..Len(inbox[c]) : i < j => inbox[c][i] < inbox[c][j]

\* Of the commands that were taken from c, those in w wait and the replies to the
\* others are in s.
Accounted(took, w, s) ==
    /\ \A x, y \in w : x.Num = y.Num => x = y
    /\ Once(s)
    /\ AllNums(s) \cap {x.Num : x \in w} = {}
    /\ AllNums(s) \cup {x.Num : x \in w} = took

AnswerInv == \A c \in Client : conn[c] = "open" => Accounted(taken[c], WaitsFor(c), Replies(c))

RepliesInv == ReplyTypes /\ Untouched /\ InboxInv /\ AnswerInv

\* The replies to the commands in w.
LEMMA RepliesToShape ==
  ASSUME NEW w, w \subseteq TWait, IsFiniteSet(w), NEW c
  PROVE  LET r == RepliesTo(c, w)
             mine == {x \in w : x.ReplyTo = c}
         IN  /\ r \in Seq(TReply)
             /\ AllNums(r) = {x.Num : x \in mine}
             /\ (\A x, y \in mine : x.Num = y.Num => x = y) => Once(r)
<1> DEFINE mine == {x \in w : x.ReplyTo = c}
           n == Cardinality(mine)
           s == InOrder(mine)
           r == [i \in DOMAIN s |-> [Index |-> s[i].Index, Num |-> s[i].Num]]
<1>1. IsFiniteSet(mine)
  BY FS_Subset
<1>2. \A x \in mine : x.Index \in Nat /\ x.Num \in Nat
  BY DEF TWait
<1> HIDE DEF mine
<1>3. /\ n \in Nat
      /\ s \in [1..n -> mine]
      /\ \A i, j \in 1..n : i # j => s[i] # s[j]
      /\ \A x \in mine : \E i \in 1..n : s[i] = x
  BY <1>1, <1>2, InOrderShape
<1> HIDE DEF s, n
<1>4. DOMAIN s = 1..n
  BY <1>3
<1>5. /\ DOMAIN r = 1..n
      /\ \A i \in 1..n : /\ s[i] \in mine
                         /\ r[i] = [Index |-> s[i].Index, Num |-> s[i].Num]
                         /\ r[i].Num = s[i].Num
                         /\ r[i] \in TReply
  BY <1>2, <1>3, <1>4 DEF TReply
<1>6. r \in Seq(TReply)
  BY <1>3, <1>4, <1>5
<1> HIDE DEF r
<1>7. AllNums(r) = {x.Num : x \in mine}
  BY <1>3, <1>5 DEF AllNums
<1>8. (\A x, y \in mine : x.Num = y.Num => x = y) => Once(r)
  BY <1>3, <1>5 DEF Once
<1>9. r = RepliesTo(c, w)
  BY DEF r, s, mine, RepliesTo
<1>10. QED
  BY <1>6, <1>7, <1>8, <1>9 DEF mine

\* Replies that follow others.
LEMMA NumsAppended ==
  ASSUME NEW s \in Seq(TReply), NEW t \in Seq(TReply)
  PROVE  /\ AllNums(s \o t) = AllNums(s) \cup AllNums(t)
         /\ Once(s) /\ Once(t) /\ AllNums(s) \cap AllNums(t) = {} => Once(s \o t)
<1> DEFINE m == Len(s)
           n == Len(t)
           u == s \o t
<1>1. m \in Nat /\ n \in Nat /\ DOMAIN s = 1..m /\ DOMAIN t = 1..n
  OBVIOUS
<1>2. /\ u \in Seq(TReply) /\ Len(u) = m + n
      /\ \A i \in 1..m + n : u[i] = IF i <= m THEN s[i] ELSE t[i - m]
  BY ConcatProperties
<1> HIDE DEF u
<1>3. DOMAIN u = 1..m + n
  BY <1>2
<1> HIDE DEF m, n
<1>4. \A i \in 1..m : i \in 1..m + n /\ u[i] = s[i]
  BY <1>1, <1>2
<1>5. \A i \in 1..n : m + i \in 1..m + n /\ u[m + i] = t[i]
  <2> SUFFICES ASSUME NEW i \in 1..n PROVE m + i \in 1..m + n /\ u[m + i] = t[i]
    OBVIOUS
  <2>1. m + i \in 1..m + n /\ ~ (m + i <= m) /\ (m + i) - m = i
    BY <1>1
  <2>2. QED
    BY <1>2, <2>1
<1>6. \A k \in 1..m + n : \/ k \in 1..m /\ u[k] = s[k]
                          \/ k - m \in 1..n /\ u[k] = t[k - m]
  BY <1>1, <1>2
<1>7. AllNums(u) = AllNums(s) \cup AllNums(t)
  <2>1. AllNums(u) \subseteq AllNums(s) \cup AllNums(t)
    BY <1>1, <1>3, <1>6 DEF AllNums
  <2>2. AllNums(s) \subseteq AllNums(u)
    BY <1>1, <1>3, <1>4 DEF AllNums
  <2>3. AllNums(t) \subseteq AllNums(u)
    <3> SUFFICES ASSUME NEW i \in 1..n PROVE \E k \in 1..m + n : u[k].Num = t[i].Num
      BY <1>1, <1>3 DEF AllNums
    <3>1. QED
      BY <1>5
  <2>4. QED
    BY <2>1, <2>2, <2>3
<1>8. ASSUME Once(s), Once(t), AllNums(s) \cap AllNums(t) = {}
      PROVE  Once(u)
  <2> SUFFICES ASSUME NEW k \in 1..m + n, NEW l \in 1..m + n, k # l
               PROVE  u[k].Num # u[l].Num
    BY <1>3 DEF Once
  <2>1. CASE k \in 1..m /\ u[k] = s[k] /\ l \in 1..m /\ u[l] = s[l]
    BY <1>1, <1>8, <2>1 DEF Once
  <2>2. CASE k - m \in 1..n /\ u[k] = t[k - m] /\ l - m \in 1..n /\ u[l] = t[l - m]
    <3>1. k - m # l - m
      BY <1>1
    <3>2. QED
      BY <1>1, <1>8, <2>2, <3>1 DEF Once
  <2>3. CASE k \in 1..m /\ u[k] = s[k] /\ l - m \in 1..n /\ u[l] = t[l - m]
    BY <1>1, <1>8, <2>3 DEF AllNums
  <2>4. CASE k - m \in 1..n /\ u[k] = t[k - m] /\ l \in 1..m /\ u[l] = s[l]
    BY <1>1, <1>8, <2>4 DEF AllNums
  <2>5. QED
    BY <1>6, <2>1, <2>2, <2>3, <2>4
<1>9. QED
  BY <1>7, <1>8 DEF u

\* Commands that are popped become replies behind those there are.
LEMMA PoppedAccounted ==
  ASSUME NEW took, NEW c, NEW w, w \subseteq TWait, IsFiniteSet(w), NEW d, d \subseteq w,
         NEW s \in Seq(TReply), Accounted(took, {x \in w : x.ReplyTo = c}, s)
  PROVE  Accounted(took, {x \in w \ d : x.ReplyTo = c}, s \o RepliesTo(c, d))
<1> DEFINE all == {x \in w : x.ReplyTo = c}
           popped == {x \in d : x.ReplyTo = c}
           left == {x \in w \ d : x.ReplyTo = c}
           r == RepliesTo(c, d)
<1>1. IsFiniteSet(d) /\ d \subseteq TWait
  BY FS_Subset
<1>2. /\ r \in Seq(TReply)
      /\ AllNums(r) = {x.Num : x \in popped}
      /\ (\A x, y \in popped : x.Num = y.Num => x = y) => Once(r)
  BY <1>1, RepliesToShape
<1>3. popped \cup left = all /\ popped \cap left = {}
  OBVIOUS
<1>4. /\ \A x, y \in all : x.Num = y.Num => x = y
      /\ Once(s)
      /\ AllNums(s) \cap {x.Num : x \in all} = {}
      /\ AllNums(s) \cup {x.Num : x \in all} = took
  BY DEF Accounted
<1> HIDE DEF all, popped, left, r
<1>5. /\ AllNums(s \o r) = AllNums(s) \cup AllNums(r)
      /\ Once(s) /\ Once(r) /\ AllNums(s) \cap AllNums(r) = {} => Once(s \o r)
  BY <1>2, NumsAppended
<1>6. {x.Num : x \in all} = {x.Num : x \in popped} \cup {x.Num : x \in left}
  BY <1>3
<1>7. {x.Num : x \in popped} \cap {x.Num : x \in left} = {}
  BY <1>3, <1>4
<1>8. \A x, y \in left : x.Num = y.Num => x = y
  BY <1>3, <1>4
<1>9. Once(r)
  BY <1>2, <1>3, <1>4
<1>10. Once(s \o r)
  BY <1>2, <1>4, <1>5, <1>6, <1>9
<1>11. AllNums(s \o r) \cap {x.Num : x \in left} = {}
  BY <1>2, <1>4, <1>5, <1>6, <1>7
<1>12. AllNums(s \o r) \cup {x.Num : x \in left} = took
  BY <1>2, <1>4, <1>5, <1>6
<1>13. Accounted(took, left, s \o r)
  BY <1>8, <1>10, <1>11, <1>12 DEF Accounted
<1>14. QED
  BY <1>13 DEF left, r

LEMMA RepliesAssociate ==
  ASSUME NEW p \in Seq(TReply), NEW m \in Seq(TReply), NEW r \in Seq(TReply)
  PROVE  (p \o m) \o r = p \o (m \o r)
  BY ConcatAssociative

\* The end of a turn: what ProcessWaiting pops is behind what each connection was sent
\* before, in its queue or with its drainer.
LEMMA AnswerAccounts ==
  ASSUME ReplyTypes, NEW turnOf, NEW role, NEW commit, NEW commands,
         commands \subseteq TWait, IsFiniteSet(commands),
         Answer(turnOf, role, commit, commands), UNCHANGED received
  PROVE  /\ tosend' \in [Client -> Seq(TReply)]
         /\ Messages' \in [Client -> Seq(TReply)]
         /\ waiting' \subseteq commands
         /\ \A c \in Client : \A took :
               /\ c \in Nodes
               /\ Accounted(took, {x \in commands : x.ReplyTo = c}, Replies(c))
               => Accounted(took, WaitsFor(c)', Replies(c)')
<1> DEFINE applied == IF role THEN commit ELSE 0
           done == Done(commands, applied)
           queue == [c \in Client |-> Messages[c] \o RepliesTo(c, done)]
           left == Left(commands, applied)
           drained == Drained(Nodes, turnOf)
<1>1. /\ waiting' = left
      /\ Messages' = [c \in Client |->
            IF c \in drained \/ ~Held(c, Nodes, left) THEN <<>> ELSE queue[c]]
      /\ tosend' = [c \in Client |->
            IF c \in drained THEN queue[c]
            ELSE IF Held(c, Nodes, left) THEN tosend[c] ELSE <<>>]
  BY DEF Answer
<1>2. done \subseteq commands /\ left = commands \ done
  BY DEF Done, Left
<1> HIDE DEF done, left
<1>3. IsFiniteSet(done) /\ done \subseteq TWait
  BY <1>2, FS_Subset
<1>4. \A c \in Client : RepliesTo(c, done) \in Seq(TReply)
  BY <1>3, RepliesToShape
<1>5. \A c \in Client : queue[c] = Messages[c] \o RepliesTo(c, done) /\ queue[c] \in Seq(TReply)
  BY <1>4 DEF ReplyTypes
<1> HIDE DEF queue, drained
<1>6. <<>> \in Seq(TReply)
  OBVIOUS
<1>7. \A c \in Client : tosend[c] \in Seq(TReply)
  BY DEF ReplyTypes
<1>8. tosend' \in [Client -> Seq(TReply)] /\ Messages' \in [Client -> Seq(TReply)]
  BY <1>1, <1>5, <1>6, <1>7
<1>9. waiting' \subseteq commands
  BY <1>1, <1>2
<1>10. ASSUME NEW c \in Client, NEW took, c \in Nodes,
              Accounted(took, {x \in commands : x.ReplyTo = c}, Replies(c))
       PROVE  Accounted(took, WaitsFor(c)', Replies(c)')
  <2> DEFINE r == RepliesTo(c, done)
  <2>1. /\ received[c] \in Seq(TReply) /\ tosend[c] \in Seq(TReply)
        /\ Messages[c] \in Seq(TReply) /\ r \in Seq(TReply)
    BY <1>4 DEF ReplyTypes
  <2> HIDE DEF r
  <2>2. Held(c, Nodes, left)
    BY <1>10 DEF Held
  <2>3. Replies(c)' = received[c] \o tosend'[c] \o Messages'[c]
    BY DEF Replies
  <2>4. received[c] \o tosend[c] \in Seq(TReply) /\ Replies(c) \in Seq(TReply)
    BY <2>1 DEF Replies
  <2>5. Replies(c) \o r = received[c] \o tosend[c] \o (Messages[c] \o r)
    <3> DEFINE p == received[c] \o tosend[c]
    <3>1. Replies(c) = p \o Messages[c]
      BY DEF Replies
    <3>2. p \in Seq(TReply) /\ Messages[c] \in Seq(TReply) /\ r \in Seq(TReply)
      BY <2>1, <2>4
    <3> HIDE DEF p
    <3>3. (p \o Messages[c]) \o r = p \o (Messages[c] \o r)
      BY <3>2, RepliesAssociate
    <3>4. QED
      BY <3>1, <3>3 DEF p
  <2>6. Replies(c)' = Replies(c) \o r
    <3>1. CASE c \in drained
      <4>1. tosend'[c] = Messages[c] \o r /\ Messages'[c] = <<>> /\ tosend[c] = <<>>
        BY <1>1, <1>5, <3>1 DEF Drained, r, drained
      <4>2. received[c] \o <<>> = received[c]
        BY <2>1, ConcatEmptySeq
      <4>3. Messages[c] \o r \in Seq(TReply) /\ received[c] \o (Messages[c] \o r) \in Seq(TReply)
        BY <2>1
      <4>4. received[c] \o (Messages[c] \o r) \o <<>> = received[c] \o (Messages[c] \o r)
        BY <4>3, ConcatEmptySeq
      <4>5. QED
        BY <2>3, <2>5, <4>1, <4>2, <4>4
    <3>2. CASE c \notin drained
      <4>1. tosend'[c] = tosend[c] /\ Messages'[c] = Messages[c] \o r
        BY <1>1, <1>5, <2>2, <3>2 DEF r
      <4>2. QED
        BY <2>3, <2>5, <4>1
    <3>3. QED
      BY <3>1, <3>2
  <2>7. WaitsFor(c)' = {x \in commands \ done : x.ReplyTo = c}
    BY <1>1, <1>2 DEF WaitsFor
  <2>8. Accounted(took, {x \in commands \ done : x.ReplyTo = c}, Replies(c) \o r)
    BY <1>2, <1>10, <2>4, PoppedAccounted DEF r
  <2>9. QED
    BY <2>6, <2>7, <2>8
<1>11. QED
  BY <1>8, <1>9, <1>10

\* A command is taken from a connection: it is new, whatever of it is already answered.
LEMMA RepliesRequest ==
  ASSUME QueueInv, RepliesInv, NEW d \in Client, NEW write \in BOOLEAN, Request(d, write)
  PROVE  RepliesInv'
<1> DEFINE num == Head(inbox[d])
           new == [Index |-> logSize', ReplyTo |-> d, Num |-> num]
           commands == IF leads THEN waiting \cup {new} ELSE waiting
<1>1. /\ d \in Nodes /\ inbox[d] # <<>>
      /\ inbox' = [inbox EXCEPT ![d] = Tail(inbox[d])]
      /\ logSize' = IF leads /\ write THEN logSize + 1 ELSE logSize
      /\ Answer({d}, leads, CommitIndex, commands)
      /\ taken' = IF leads THEN [taken EXCEPT ![d] = taken[d] \cup {num}] ELSE taken
      /\ UNCHANGED <<conn, asked, received, Nodes, CommitIndex>>
  BY DEF Request
<1>2. /\ inbox[d] \in Seq(Nat) /\ num \in Nat /\ num = inbox[d][1]
      /\ Tail(inbox[d]) \in Seq(Nat)
      /\ 1 \in 1..Len(inbox[d]) /\ Len(inbox[d]) \in Nat
      /\ Len(Tail(inbox[d])) = Len(inbox[d]) - 1
      /\ \A i \in 1..Len(inbox[d]) - 1 : Tail(inbox[d])[i] = inbox[d][i + 1]
  <2>1. inbox[d] \in Seq(Nat) /\ inbox[d] # <<>>
    BY <1>1 DEF RepliesInv, ReplyTypes
  <2>2. QED
    BY <2>1
<1>3. logSize' \in Nat
  BY <1>1 DEF RepliesInv, ReplyTypes
<1>4. new \in TWait
  BY <1>2, <1>3 DEF TWait
<1>5. commands \subseteq TWait /\ IsFiniteSet(commands)
  <2>1. waiting \subseteq TWait /\ IsFiniteSet(waiting)
    BY DEF RepliesInv, ReplyTypes
  <2>2. IsFiniteSet(waiting \cup {new})
    BY <2>1, FS_AddElement
  <2>3. QED
    BY <1>4, <2>1, <2>2
<1> HIDE DEF num
<1>6. /\ tosend' \in [Client -> Seq(TReply)]
      /\ Messages' \in [Client -> Seq(TReply)]
      /\ waiting' \subseteq commands
      /\ \A c \in Client : \A took :
            /\ c \in Nodes
            /\ Accounted(took, {x \in commands : x.ReplyTo = c}, Replies(c))
            => Accounted(took, WaitsFor(c)', Replies(c)')
  <2> HIDE DEF commands
  <2>1. ReplyTypes /\ UNCHANGED received
    BY <1>1 DEF RepliesInv
  <2>2. QED
    BY <1>1, <1>5, <2>1, AnswerAccounts
<1>7. inbox' \in [Client -> Seq(Nat)] /\ taken' \in [Client -> SUBSET Nat]
  <2>1. inbox \in [Client -> Seq(Nat)] /\ taken \in [Client -> SUBSET Nat]
    BY DEF RepliesInv, ReplyTypes
  <2>2. QED
    BY <1>1, <1>2, <2>1
<1>8. ReplyTypes'
  <2>1. waiting' \subseteq TWait /\ IsFiniteSet(waiting')
    BY <1>5, <1>6, FS_Subset
  <2>2. QED
    BY <1>1, <1>3, <1>6, <1>7, <2>1 DEF RepliesInv, ReplyTypes
<1>9. conn[d] \notin {"none", "calling"}
  BY <1>1 DEF QueueInv, BeforeAccept, Held
<1>10. ASSUME NEW c \in Client, conn[c] \in {"none", "calling"}
       PROVE  inbox'[c] = <<>> /\ tosend'[c] = <<>> /\ taken'[c] = {} /\ received'[c] = <<>>
  <2>1. c # d /\ inbox[c] = <<>> /\ received[c] = <<>> /\ taken[c] = {} /\ tosend[c] = <<>>
    BY <1>9, <1>10 DEF RepliesInv, Untouched
  <2>2. inbox'[c] = inbox[c] /\ taken'[c] = taken[c]
    BY <1>1, <2>1 DEF RepliesInv, ReplyTypes
  <2>3. c \notin Drained(Nodes, {d})
    BY <1>10 DEF QueueInv, BeforeAccept, Held, Drained
  <2>4. tosend'[c] = <<>>
    BY <1>1, <2>1, <2>3 DEF Answer
  <2>5. QED
    BY <1>1, <2>1, <2>2, <2>4
<1>11. Untouched'
  BY <1>1, <1>10 DEF Untouched
<1>12. ASSUME conn[d] = "open"
       PROVE  /\ \A n \in taken[d] : n < num
              /\ num <= asked[d]
              /\ \A i \in 1..Len(inbox[d]) - 1 :
                    num < inbox[d][i + 1] /\ i + 1 \in 1..Len(inbox[d])
  <2>1. /\ \A i \in 1..Len(inbox[d]) : /\ inbox[d][i] <= asked[d]
                                       /\ \A n \in taken[d] : n < inbox[d][i]
        /\ \A i, j \in 1..Len(inbox[d]) : i < j => inbox[d][i] < inbox[d][j]
    BY <1>12 DEF RepliesInv, InboxInv
  <2>2. \A i \in 1..Len(inbox[d]) - 1 : i + 1 \in 1..Len(inbox[d]) /\ 1 < i + 1
    BY <1>2
  <2>3. QED
    BY <1>2, <2>1, <2>2
<1>13. ASSUME NEW c \in Client, conn[c] = "open"
       PROVE  /\ c \in Nodes
              /\ \A n \in taken'[c] : n <= asked[c]
              /\ \A i \in 1..Len(inbox'[c]) : /\ inbox'[c][i] <= asked[c]
                                              /\ \A n \in taken'[c] : n < inbox'[c][i]
              /\ \A i, j \in 1..Len(inbox'[c]) : i < j => inbox'[c][i] < inbox'[c][j]
  <2>1. /\ c \in Nodes
        /\ \A n \in taken[c] : n <= asked[c]
        /\ \A i \in 1..Len(inbox[c]) : /\ inbox[c][i] <= asked[c]
                                       /\ \A n \in taken[c] : n < inbox[c][i]
        /\ \A i, j \in 1..Len(inbox[c]) : i < j => inbox[c][i] < inbox[c][j]
    BY <1>13 DEF RepliesInv, InboxInv
  <2>2. CASE c # d
    <3>1. inbox'[c] = inbox[c] /\ taken'[c] = taken[c]
      BY <1>1, <2>2 DEF RepliesInv, ReplyTypes
    <3>2. QED
      BY <2>1, <3>1
  <2>3. CASE c = d
    <3>1. inbox'[d] = Tail(inbox[d]) /\ taken'[d] \subseteq taken[d] \cup {num}
      BY <1>1 DEF RepliesInv, ReplyTypes
    <3>2. \A i \in 1..Len(inbox'[d]) : /\ inbox'[d][i] = inbox[d][i + 1]
                                       /\ i + 1 \in 1..Len(inbox[d])
                                       /\ num < inbox[d][i + 1]
      BY <1>2, <1>12, <1>13, <2>3, <3>1
    <3>3. \A i \in 1..Len(inbox'[d]) : /\ inbox'[d][i] <= asked[d]
                                       /\ \A n \in taken'[d] : n < inbox'[d][i]
      BY <2>1, <2>3, <3>1, <3>2
    <3>4. ASSUME NEW i \in 1..Len(inbox'[d]), NEW j \in 1..Len(inbox'[d]), i < j
          PROVE  inbox'[d][i] < inbox'[d][j]
      <4>1. i + 1 < j + 1
        BY <1>2, <3>1, <3>4
      <4>2. QED
        BY <2>1, <2>3, <3>2, <4>1
    <3>5. \A n \in taken'[d] : n <= asked[d]
      BY <1>12, <1>13, <2>1, <2>3, <3>1
    <3>6. QED
      BY <2>1, <2>3, <3>3, <3>4, <3>5
  <2>4. QED
    BY <2>2, <2>3
<1>14. InboxInv'
  BY <1>1, <1>13 DEF InboxInv
<1>15. ASSUME NEW c \in Client, conn[c] = "open"
       PROVE  Accounted(taken'[c], {x \in commands : x.ReplyTo = c}, Replies(c))
  <2>1. Accounted(taken[c], WaitsFor(c), Replies(c))
    BY <1>15 DEF RepliesInv, AnswerInv
  <2>2. CASE ~ leads \/ c # d
    <3>1. taken'[c] = taken[c]
      BY <1>1, <2>2 DEF RepliesInv, ReplyTypes
    <3>2. {x \in commands : x.ReplyTo = c} = WaitsFor(c)
      BY <2>2 DEF WaitsFor
    <3>3. QED
      BY <2>1, <3>1, <3>2
  <2>3. CASE leads /\ c = d
    <3>1. taken'[c] = taken[c] \cup {num}
      BY <1>1, <2>3 DEF RepliesInv, ReplyTypes
    <3>2. {x \in commands : x.ReplyTo = c} = WaitsFor(c) \cup {new}
      BY <2>3 DEF WaitsFor
    <3>3. num \notin taken[c]
      BY <1>2, <1>12, <1>15, <2>3
    <3>4. new.Num = num
      OBVIOUS
    <3> HIDE DEF new
    <3>5. {x.Num : x \in WaitsFor(c) \cup {new}} = {x.Num : x \in WaitsFor(c)} \cup {num}
      BY <3>4
    <3>6. /\ \A x, y \in WaitsFor(c) : x.Num = y.Num => x = y
          /\ Once(Replies(c))
          /\ AllNums(Replies(c)) \cap {x.Num : x \in WaitsFor(c)} = {}
          /\ AllNums(Replies(c)) \cup {x.Num : x \in WaitsFor(c)} = taken[c]
      BY <2>1 DEF Accounted
    <3>7. \A x \in WaitsFor(c) : x.Num # num
      BY <3>3, <3>6
    <3>8. \A x, y \in WaitsFor(c) \cup {new} : x.Num = y.Num => x = y
      BY <3>4, <3>6, <3>7
    <3>9. Accounted(taken'[c], WaitsFor(c) \cup {new}, Replies(c))
      BY <3>1, <3>3, <3>5, <3>6, <3>8 DEF Accounted
    <3>10. QED
      BY <3>2, <3>9
  <2>4. QED
    BY <2>2, <2>3
<1>16. AnswerInv'
  <2> HIDE DEF commands
  <2>1. ASSUME NEW c \in Client, conn[c] = "open"
        PROVE  Accounted(taken'[c], WaitsFor(c)', Replies(c)')
    BY <1>6, <1>13, <1>15, <2>1
  <2>2. QED
    BY <1>1, <2>1 DEF AnswerInv
<1>17. QED
  BY <1>8, <1>11, <1>14, <1>16 DEF RepliesInv

\* The other turns, in which nothing is read from a client.
LEMMA RepliesTurn ==
  ASSUME QueueInv, RepliesInv, NEW role, NEW commit, Answer({}, role, commit, waiting),
         UNCHANGED <<clientVars, Nodes, taken>>, logSize' \in Nat, CommitIndex' \in Nat
  PROVE  RepliesInv'
<1>1. ReplyTypes /\ waiting \subseteq TWait /\ IsFiniteSet(waiting)
      /\ UNCHANGED <<conn, inbox, asked, received>>
  BY DEF RepliesInv, ReplyTypes, clientVars
<1>2. /\ tosend' \in [Client -> Seq(TReply)]
      /\ Messages' \in [Client -> Seq(TReply)]
      /\ waiting' \subseteq waiting
      /\ \A c \in Client : \A took :
            /\ c \in Nodes
            /\ Accounted(took, {x \in waiting : x.ReplyTo = c}, Replies(c))
            => Accounted(took, WaitsFor(c)', Replies(c)')
  BY <1>1, AnswerAccounts
<1>3. ReplyTypes'
  BY <1>1, <1>2, FS_Subset DEF ReplyTypes
<1>4. ASSUME NEW c \in Client, conn[c] \in {"none", "calling"}
      PROVE  tosend'[c] = <<>>
  <2>1. tosend[c] = <<>> /\ c \notin Drained(Nodes, {})
    BY <1>4 DEF RepliesInv, Untouched, QueueInv, BeforeAccept, Held, Drained
  <2>2. QED
    BY <2>1 DEF Answer
<1>5. Untouched'
  BY <1>1, <1>4 DEF RepliesInv, Untouched
<1>6. InboxInv'
  BY <1>1 DEF RepliesInv, InboxInv
<1>7. AnswerInv'
  <2> SUFFICES ASSUME NEW c \in Client, conn[c] = "open"
               PROVE  Accounted(taken[c], WaitsFor(c)', Replies(c)')
    BY <1>1 DEF AnswerInv
  <2>1. c \in Nodes /\ Accounted(taken[c], {x \in waiting : x.ReplyTo = c}, Replies(c))
    BY DEF RepliesInv, InboxInv, AnswerInv, WaitsFor
  <2>2. QED
    BY <1>2, <2>1
<1>8. QED
  BY <1>3, <1>5, <1>6, <1>7 DEF RepliesInv

\* What the clients do.
LEMMA RepliesClients ==
  ASSUME QueueInv, RepliesInv, NEW d \in Client, Call(d) \/ Ask(d) \/ Close(d) \/ Accept(d)
  PROVE  RepliesInv'
<1>1. UNCHANGED <<received, Messages, tosend, logSize, CommitIndex, waiting, taken>>
  BY DEF Call, Ask, Close, Accept, nodeVars, raftVars
<1>2. \A c \in Client : Replies(c)' = Replies(c) /\ WaitsFor(c)' = WaitsFor(c)
  BY <1>1 DEF Replies, WaitsFor
<1>3. ReplyTypes
  BY DEF RepliesInv
<1>4. CASE Call(d) \/ Close(d)
  <2>1. /\ UNCHANGED <<asked, Nodes>>
        /\ \/ conn[d] = "none" /\ inbox' = inbox
           \/ conn'[d] = "closed" /\ \A c \in Client : c # d => inbox'[c] = inbox[c]
        /\ conn'[d] # "open"
        /\ \A c \in Client : c # d => conn'[c] = conn[c]
        /\ inbox' \in [Client -> Seq(Nat)]
    <3>1. conn \in [Client -> Connection] /\ inbox \in [Client -> Seq(Nat)] /\ <<>> \in Seq(Nat)
      BY <1>3 DEF QueueInv, Shape, ReplyTypes
    <3>2. CASE Call(d)
      BY <3>1, <3>2 DEF Call, nodeVars
    <3>3. CASE Close(d)
      <4>1. inbox' = inbox \/ inbox' = [inbox EXCEPT ![d] = <<>>]
        BY <3>3 DEF Close
      <4>2. /\ inbox' \in [Client -> Seq(Nat)]
            /\ \A c \in Client : c # d => inbox'[c] = inbox[c]
        BY <3>1, <4>1
      <4>3. QED
        BY <3>1, <3>3, <4>2 DEF Close, nodeVars
    <3>4. QED
      BY <1>4, <3>2, <3>3
  <2>2. ReplyTypes'
    BY <1>1, <1>3, <2>1 DEF ReplyTypes
  <2>3. Untouched'
    BY <1>1, <2>1 DEF RepliesInv, Untouched
  <2>4. InboxInv'
    BY <1>1, <2>1 DEF RepliesInv, InboxInv
  <2>5. AnswerInv'
    BY <1>1, <1>2, <2>1 DEF RepliesInv, AnswerInv
  <2>6. QED
    BY <2>2, <2>3, <2>4, <2>5 DEF RepliesInv
<1>5. CASE Ask(d)
  <2> DEFINE n == Len(inbox[d])
             num == asked[d] + 1
  <2>1. /\ conn[d] = "open" /\ UNCHANGED <<conn, Nodes>>
        /\ inbox' = [inbox EXCEPT ![d] = Append(inbox[d], num)]
        /\ asked' = [asked EXCEPT ![d] = num]
    BY <1>5 DEF Ask, nodeVars
  <2>2. inbox[d] \in Seq(Nat) /\ n \in Nat /\ num \in Nat /\ asked[d] \in Nat
    BY <1>3 DEF ReplyTypes
  <2>3. /\ Append(inbox[d], num) \in Seq(Nat)
        /\ Len(Append(inbox[d], num)) = n + 1
        /\ Append(inbox[d], num)[n + 1] = num
        /\ \A i \in 1..n : Append(inbox[d], num)[i] = inbox[d][i] /\ inbox[d][i] \in Nat
    BY <2>2
  <2>4. ReplyTypes'
    <3>1. inbox' \in [Client -> Seq(Nat)] /\ asked' \in [Client -> Nat]
      BY <1>3, <2>1, <2>2, <2>3 DEF ReplyTypes
    <3>2. QED
      BY <1>1, <1>3, <3>1 DEF ReplyTypes
  <2>5. \A c \in Client : c # d => inbox'[c] = inbox[c] /\ asked'[c] = asked[c]
    BY <1>3, <2>1 DEF ReplyTypes
  <2>6. Untouched'
    BY <1>1, <2>1, <2>5 DEF RepliesInv, Untouched
  <2>7. inbox'[d] = Append(inbox[d], num) /\ asked'[d] = num
    BY <1>3, <2>1 DEF ReplyTypes
  <2>8. taken[d] \subseteq Nat
    BY <1>3 DEF ReplyTypes
  <2> HIDE DEF n, num
  <2>9. /\ d \in Nodes /\ \A k \in taken[d] : k <= asked[d]
        /\ \A i \in 1..n : inbox[d][i] <= asked[d] /\ \A k \in taken[d] : k < inbox[d][i]
        /\ \A i, j \in 1..n : i < j => inbox[d][i] < inbox[d][j]
    BY <2>1 DEF RepliesInv, InboxInv, n
  <2>10. asked[d] < num
    BY <2>2 DEF num
  <2>11. \A i \in 1..n + 1 : i \in 1..n \/ i = n + 1
    BY <2>2
  <2>12. \A k \in taken[d] : k <= num /\ k < num
    BY <2>2, <2>8, <2>9, <2>10
  <2>13. \A i \in 1..n : inbox[d][i] < num /\ inbox[d][i] <= num
    BY <2>2, <2>3, <2>9, <2>10
  <2>14. \A i \in 1..n + 1 : inbox'[d][i] <= num /\ \A k \in taken[d] : k < inbox'[d][i]
    <3> SUFFICES ASSUME NEW i \in 1..n + 1
                 PROVE  inbox'[d][i] <= num /\ \A k \in taken[d] : k < inbox'[d][i]
      OBVIOUS
    <3>1. CASE i \in 1..n
      BY <2>3, <2>7, <2>9, <2>13, <3>1
    <3>2. CASE i = n + 1
      <4>1. inbox'[d][i] = num
        BY <2>3, <2>7, <3>2
      <4>2. QED
        BY <2>2, <2>12, <4>1
    <3>3. QED
      BY <2>11, <3>1, <3>2
  <2>15. ASSUME NEW i \in 1..n + 1, NEW j \in 1..n + 1, i < j
         PROVE  inbox'[d][i] < inbox'[d][j]
    <3>1. i \in 1..n
      BY <2>2, <2>15
    <3>2. CASE j = n + 1
      BY <2>3, <2>7, <2>13, <3>1, <3>2
    <3>3. CASE j \in 1..n
      BY <2>3, <2>7, <2>9, <2>15, <3>1, <3>3
    <3>4. QED
      BY <2>11, <3>2, <3>3
  <2>16. ASSUME NEW c \in Client, conn[c] = "open"
         PROVE  /\ c \in Nodes
                /\ \A k \in taken[c] : k <= asked'[c]
                /\ \A i \in 1..Len(inbox'[c]) : /\ inbox'[c][i] <= asked'[c]
                                                /\ \A k \in taken[c] : k < inbox'[c][i]
                /\ \A i, j \in 1..Len(inbox'[c]) : i < j => inbox'[c][i] < inbox'[c][j]
    <3>1. CASE c = d
      BY <2>3, <2>7, <2>9, <2>12, <2>14, <2>15, <3>1
    <3>2. CASE c # d
      <4>1. inbox'[c] = inbox[c] /\ asked'[c] = asked[c]
        BY <2>5, <3>2
      <4>2. QED
        BY <2>16, <4>1 DEF RepliesInv, InboxInv
    <3>3. QED
      BY <3>1, <3>2
  <2>17. InboxInv'
    BY <1>1, <2>1, <2>16 DEF InboxInv
  <2>18. AnswerInv'
    BY <1>1, <1>2, <2>1 DEF RepliesInv, AnswerInv
  <2>19. QED
    BY <2>4, <2>6, <2>17, <2>18 DEF RepliesInv
<1>6. CASE Accept(d)
  <2>1. /\ conn[d] = "calling" /\ UNCHANGED <<inbox, asked>>
        /\ conn' = [conn EXCEPT ![d] = "open"]
        /\ Nodes' = Nodes \cup {d}
    BY <1>6 DEF Accept
  <2>2. \A c \in Client : c # d => conn'[c] = conn[c]
    BY <2>1
  <2>3. /\ inbox[d] = <<>> /\ received[d] = <<>> /\ tosend[d] = <<>> /\ taken[d] = {}
        /\ Messages[d] = <<>> /\ WaitsFor(d) = {}
    BY <2>1 DEF RepliesInv, Untouched, QueueInv, BeforeAccept, Held, WaitsFor
  <2>4. ReplyTypes'
    BY <1>1, <1>3, <2>1 DEF ReplyTypes
  <2>5. conn'[d] = "open"
    BY <2>1 DEF QueueInv, Shape
  <2>6. Untouched'
    BY <1>1, <2>1, <2>2, <2>5 DEF RepliesInv, Untouched
  <2>7. Len(<<>>) = 0
    OBVIOUS
  <2>8. InboxInv'
    BY <1>1, <2>1, <2>2, <2>3, <2>7 DEF RepliesInv, InboxInv
  <2>9. Accounted(taken[d], WaitsFor(d), Replies(d))
    <3>1. Replies(d) = <<>>
      BY <2>3 DEF Replies
    <3>2. DOMAIN Replies(d) = {}
      BY <3>1
    <3>3. AllNums(Replies(d)) = {} /\ Once(Replies(d))
      BY <3>2 DEF AllNums, Once
    <3>4. QED
      BY <2>3, <3>3 DEF Accounted
  <2>10. AnswerInv'
    BY <1>1, <1>2, <2>2, <2>9 DEF RepliesInv, AnswerInv
  <2>11. QED
    BY <2>4, <2>6, <2>8, <2>10 DEF RepliesInv
<1>7. QED
  BY <1>4, <1>5, <1>6

\* The first of the rest may as well be the last before.
LEMMA HeadMoves ==
  ASSUME NEW r \in Seq(TReply), NEW t \in Seq(TReply), t # <<>>
  PROVE  Append(r, Head(t)) \o Tail(t) = r \o t
<1>1. /\ Head(t) \in TReply /\ <<Head(t)>> \in Seq(TReply) /\ Tail(t) \in Seq(TReply)
      /\ Head(t) = t[1] /\ 1 \in 1..Len(t) /\ Len(t) \in 1..Len(t)
  OBVIOUS
<1>2. <<Head(t)>> \o Tail(t) = t
  BY <1>1, SubSeqRecursiveFirst, SubSeqFull, TailIsSubSeq
<1>3. Append(r, Head(t)) = r \o <<Head(t)>>
  BY <1>1, AppendIsConcat
<1>4. (r \o <<Head(t)>>) \o Tail(t) = r \o (<<Head(t)>> \o Tail(t))
  BY <1>1, RepliesAssociate
<1>5. QED
  BY <1>2, <1>3, <1>4

\* The end of a connection, and its drainer.
LEMMA RepliesNodes ==
  ASSUME QueueInv, RepliesInv, NEW d \in Client,
         ConnectionClosed(d) \/ WriteDone(d) \/ WriteFails(d)
  PROVE  RepliesInv'
<1>1. ReplyTypes
  BY DEF RepliesInv
<1>2. UNCHANGED <<conn, inbox, asked, logSize, CommitIndex, waiting, taken>>
  BY DEF ConnectionClosed, WriteDone, WriteFails, clientVars, raftVars
<1>3. \A c \in Client : WaitsFor(c)' = WaitsFor(c)
  BY <1>2 DEF WaitsFor
<1>4. ASSUME NEW c \in Client, c # d
      PROVE  /\ Replies(c)' = Replies(c)
             /\ received'[c] = received[c] /\ tosend'[c] = tosend[c]
             /\ Messages'[c] = Messages[c]
  <2>1. received'[c] = received[c] /\ tosend'[c] = tosend[c] /\ Messages'[c] = Messages[c]
    BY <1>1, <1>4 DEF ConnectionClosed, WriteDone, WriteFails, clientVars, ReplyTypes
  <2>2. QED
    BY <2>1 DEF Replies
<1>5. CASE ConnectionClosed(d) \/ WriteFails(d)
  <2>1. /\ conn[d] = "closed" /\ received' = received
        /\ \A c \in Client : c # d => (c \in Nodes <=> c \in Nodes')
    BY <1>5 DEF ConnectionClosed, WriteFails, Erased, clientVars
  <2>2. ReplyTypes'
    <3>1. tosend' \in [Client -> Seq(TReply)] /\ Messages' \in [Client -> Seq(TReply)]
      <4>1. <<>> \in Seq(TReply) /\ tosend[d] \in Seq(TReply) /\ Messages[d] \in Seq(TReply)
        BY <1>1 DEF ReplyTypes
      <4>2. PICK t \in Seq(TReply), m \in Seq(TReply) :
               /\ tosend' = [tosend EXCEPT ![d] = t]
               /\ Messages' = [Messages EXCEPT ![d] = m] \/ Messages' = Messages
        BY <1>5, <4>1 DEF ConnectionClosed, WriteFails
      <4>3. QED
        BY <1>1, <4>2 DEF ReplyTypes
    <3>2. QED
      BY <1>1, <1>2, <2>1, <3>1 DEF ReplyTypes
  <2>3. Untouched'
    BY <1>2, <1>4, <2>1 DEF RepliesInv, Untouched
  <2>4. InboxInv'
    BY <1>2, <2>1 DEF RepliesInv, InboxInv
  <2>5. AnswerInv'
    BY <1>2, <1>3, <1>4, <2>1 DEF RepliesInv, AnswerInv
  <2>6. QED
    BY <2>2, <2>3, <2>4, <2>5 DEF RepliesInv
<1>6. CASE WriteDone(d)
  <2> DEFINE r == received[d]
             t == tosend[d]
             m == Messages[d]
  <2>1. r \in Seq(TReply) /\ t \in Seq(TReply) /\ m \in Seq(TReply) /\ t # <<>>
    BY <1>1, <1>6 DEF WriteDone, ReplyTypes
  <2>2. /\ Nodes' = Nodes
        /\ received' = IF conn[d] = "open"
                       THEN [received EXCEPT ![d] = Append(r, Head(t))] ELSE received
        /\ tosend' = [tosend EXCEPT ![d] = IF Tail(t) # <<>> THEN Tail(t) ELSE m]
        /\ Messages' = [Messages EXCEPT ![d] = IF Tail(t) # <<>> THEN m ELSE <<>>]
    BY <1>6 DEF WriteDone, Onward
  <2>3. Head(t) \in TReply /\ Tail(t) \in Seq(TReply)
    BY <2>1
  <2>4. Append(r, Head(t)) \in Seq(TReply)
    BY <2>1, <2>3
  <2>5. ReplyTypes'
    <3>1. received' \in [Client -> Seq(TReply)]
      BY <1>1, <2>2, <2>4 DEF ReplyTypes
    <3>2. tosend' \in [Client -> Seq(TReply)] /\ Messages' \in [Client -> Seq(TReply)]
      BY <1>1, <2>1, <2>2, <2>3 DEF ReplyTypes
    <3>3. QED
      BY <1>1, <1>2, <3>1, <3>2 DEF ReplyTypes
  <2>6. conn[d] \notin {"none", "calling"}
    BY <2>1 DEF RepliesInv, Untouched
  <2>7. Untouched'
    BY <1>2, <1>4, <2>6 DEF RepliesInv, Untouched
  <2>8. InboxInv'
    BY <1>2, <2>2 DEF RepliesInv, InboxInv
  <2>9. ASSUME conn[d] = "open"
        PROVE  Replies(d)' = Replies(d)
    <3>1. received'[d] = Append(r, Head(t))
      BY <1>1, <2>2, <2>9 DEF ReplyTypes
    <3>2. /\ tosend'[d] = IF Tail(t) # <<>> THEN Tail(t) ELSE m
          /\ Messages'[d] = IF Tail(t) # <<>> THEN m ELSE <<>>
      BY <1>1, <2>2 DEF ReplyTypes
    <3>3. Replies(d)' = received'[d] \o tosend'[d] \o Messages'[d] /\ Replies(d) = r \o t \o m
      BY DEF Replies
    <3> DEFINE a == Append(r, Head(t))
               rest == Tail(t)
    <3>4. a \o rest = r \o t
      BY <2>1, HeadMoves
    <3>5. a \in Seq(TReply)
      BY <2>4
    <3> HIDE DEF r, t, m, a, rest
    <3>6. CASE rest # <<>>
      BY <3>1, <3>2, <3>3, <3>4, <3>6 DEF a, rest
    <3>7. CASE rest = <<>>
      <4>1. a = r \o t
        BY <3>4, <3>5, <3>7, ConcatEmptySeq
      <4>2. a \o m \in Seq(TReply)
        BY <2>1, <3>5
      <4>3. a \o m \o <<>> = a \o m
        BY <4>2, ConcatEmptySeq
      <4>4. QED
        BY <3>1, <3>2, <3>3, <3>7, <4>1, <4>3 DEF a, rest
    <3>8. QED
      BY <3>6, <3>7
  <2>10. AnswerInv'
    BY <1>2, <1>3, <1>4, <2>9 DEF RepliesInv, AnswerInv
  <2>11. QED
    BY <2>5, <2>7, <2>8, <2>10 DEF RepliesInv
<1>7. QED
  BY <1>5, <1>6

LEMMA RepliesStep == QueueInv /\ RepliesInv /\ [Next]_vars => RepliesInv'
<1> SUFFICES ASSUME QueueInv, RepliesInv, [Next]_vars
             PROVE  RepliesInv'
  OBVIOUS
<1>1. logSize \in Nat /\ CommitIndex \in Nat
  BY DEF RepliesInv, ReplyTypes
<1>2. CASE Idle
  <2>1. logSize' \in Nat /\ CommitIndex' \in Nat
    BY <1>1, <1>2 DEF Idle
  <2>2. QED
    BY <1>2, <2>1, RepliesTurn DEF Idle
<1>3. CASE PeerCommits
  <2>1. logSize' \in Nat /\ CommitIndex' \in Nat
    BY <1>1, <1>3 DEF PeerCommits
  <2>2. QED
    BY <1>3, <2>1, RepliesTurn DEF PeerCommits
<1>4. ASSUME NEW size \in Nat, PeerChangesRole(size)
      PROVE  RepliesInv'
  <2>1. logSize' \in Nat /\ CommitIndex' \in Nat
    BY <1>1, <1>4 DEF PeerChangesRole
  <2>2. QED
    BY <1>4, <2>1, RepliesTurn DEF PeerChangesRole
<1>5. CASE UNCHANGED vars
  BY <1>5 DEF vars, clientVars, nodeVars, raftVars, RepliesInv, ReplyTypes, Untouched,
     InboxInv, AnswerInv, Replies, WaitsFor
<1>6. QED
  BY <1>2, <1>3, <1>4, <1>5, RepliesRequest, RepliesClients, RepliesNodes DEF Next

\* Of every command that a leader took from an open connection exactly one of two is
\* true: it waits, or there is one reply to it; for any clients, however replies are
\* batched and the role and the log change meanwhile.
THEOREM EveryCommandAnsweredOnce == Spec => []AnsweredOnce
<1>1. Init => QueueInv /\ RepliesInv
  <2> SUFFICES ASSUME Init PROVE QueueInv /\ RepliesInv
    OBVIOUS
  <2>1. QueueInv
    BY DEF Init, QueueInv, Shape, BeforeAccept, NoIdleQueue, Held, Connection
  <2>2. IsFiniteSet({}) /\ <<>> \in Seq(TReply) /\ <<>> \in Seq(Nat)
    BY FS_EmptySet
  <2>3. ReplyTypes
    BY <2>2 DEF Init, ReplyTypes
  <2>4. Untouched /\ InboxInv /\ AnswerInv
    BY DEF Init, Untouched, InboxInv, AnswerInv
  <2>5. QED
    BY <2>1, <2>3, <2>4 DEF RepliesInv
<1>2. QueueInv /\ [Next]_vars => QueueInv'
  BY QueueStep
<1>3. QueueInv /\ RepliesInv /\ [Next]_vars => RepliesInv'
  BY RepliesStep
<1>4. RepliesInv => AnsweredOnce
  <2> SUFFICES ASSUME RepliesInv, NEW c \in Client, conn[c] = "open"
               PROVE  LET s == ReplyNums(c)
                      IN  /\ \A i, j \in DOMAIN s : i # j => s[i] # s[j]
                          /\ {s[i] : i \in DOMAIN s} \cap WaitingNums(c) = {}
                          /\ {s[i] : i \in DOMAIN s} \cup WaitingNums(c) = taken[c]
    BY DEF AnsweredOnce
  <2>1. Accounted(taken[c], WaitsFor(c), Replies(c))
    BY DEF RepliesInv, AnswerInv
  <2> DEFINE s == ReplyNums(c)
             t == Replies(c)
  <2>2. DOMAIN s = DOMAIN t /\ \A i \in DOMAIN t : s[i] = t[i].Num
    BY DEF ReplyNums, Nums, Replies
  <2>3. WaitingNums(c) = {x.Num : x \in WaitsFor(c)}
    BY DEF WaitingNums, WaitsFor
  <2> HIDE DEF s, t
  <2>4. {s[i] : i \in DOMAIN s} = AllNums(t)
    BY <2>2 DEF AllNums
  <2>5. \A i, j \in DOMAIN s : i # j => s[i] # s[j]
    BY <2>1, <2>2 DEF Accounted, Once, t
  <2>6. QED
    BY <2>1, <2>3, <2>4, <2>5 DEF Accounted, s, t
<1>5. QED
  BY <1>1, <1>2, <1>3, <1>4, PTL DEF Spec
=============================================================================
