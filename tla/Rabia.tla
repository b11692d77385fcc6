-------------------------------- MODULE Rabia --------------------------------
(***************************************************************************)
(* TRabia of rabia.cpp as far as it is written (the constructor, Run,      *)
(* HandleClientCommand and Bcast), and the orders and comparisons of       *)
(* messages.h that its protocol will rest on.                              *)
(***************************************************************************)
EXTENDS Integers, FiniteSets, FiniteSetTheorems, TLAPS

CONSTANTS
    Key, Value,
    Id,         \* of this server
    Peer        \* the keys of the constructor's `nodes`

VARIABLES
    Nodes,      \* the keys of TRabia::Nodes
    cmdSeq,
    sent        \* history: what was handed to INode::Send

vars == <<Nodes, cmdSeq, sent>>

Operation == {"SET", "GET", "DEL"}
Command == [client_seq : Nat, operation : Operation, key : Key, value : Value]
TSCommand == [idx : Nat, node_id : Nat, command : Command]
RSTSCommand == [round : Nat, state : {"CMD", "BOT"}, tsCommand : TSCommand]

TCmdReq == [Type : {"CMD_REQ"}, command : Command]
OtherMessage ==
    [Type : {"PROTOCAL", "REPLICATE", "PROPOSAL", "STATE", "VOTE", "DECIDED", "RESPONSE"}]

-----------------------------------------------------------------------------
\* The operator== of Command, TSCommand and RSTSCommand.
SameCommand(a, b) ==
    a.operation = b.operation /\ a.key = b.key /\ a.value = b.value
Equal(a, b) == a.idx = b.idx /\ a.node_id = b.node_id
SameState(a, b) ==
    a.round = b.round /\ a.state = b.state /\ Equal(a.tsCommand, b.tsCommand)

\* What CommandHash, TSCommandHash and RSTSCommandHash are computed from.
Hashed(a) == <<a.client_seq, a.operation, a.key, a.value>>
HashedStamp(a) == <<a.idx, a.node_id, Hashed(a.command)>>
HashedState(a) == <<a.round, a.state, HashedStamp(a.tsCommand)>>

\* TSCommand::operator<.
Less(a, b) == a.idx > b.idx \/ (a.idx = b.idx /\ a.node_id > b.node_id)

\* The elements that std::priority_queue may have on top: none is above them.
Top(queue) == {c \in queue : \A d \in queue : ~Less(c, d)}

\* The constructor's QuorumSize for n peers.
QuorumSizeOf(n) == (n + 2 + (n % 2)) \div 2

-----------------------------------------------------------------------------
\* The constructor does not fill Nodes from `nodes`.
Init ==
    /\ Nodes = {}
    /\ cmdSeq = 1
    /\ sent = {}

\* The constant of the static type that Run switches on: `msg` is a TMessage, so
\* msg.MessageType is not its Type.
MessageType(msg) == "PROTOCAL"

\* Bcast of a TReplicate.
HandleClientCommand(cmd) ==
    /\ sent' = sent \cup
          {[Type |-> "REPLICATE", Dst |-> dst,
            tsCommand |-> [idx |-> cmdSeq, node_id |-> Id, command |-> cmd]] : dst \in Nodes}
    /\ UNCHANGED <<Nodes, cmdSeq>>

Run(msg) ==
    IF MessageType(msg) = "CMD_REQ"
    THEN HandleClientCommand(msg.command)
    ELSE UNCHANGED vars

Next == \E msg \in TCmdReq \cup OtherMessage : Run(msg)

Spec == Init /\ [][Next]_vars

-----------------------------------------------------------------------------
\* TSCommand's operator< with its operator== orders all timestamps: of two commands
\* either one comes first or both have the same timestamp, whatever the commands are.
THEOREM TimestampOrder ==
  ASSUME NEW a \in TSCommand, NEW b \in TSCommand, NEW c \in TSCommand
  PROVE  /\ ~Less(a, a)
         /\ Less(a, b) /\ Less(b, c) => Less(a, c)
         /\ Less(a, b) => ~Less(b, a) /\ ~Equal(a, b)
         /\ Less(a, b) \/ Less(b, a) \/ Equal(a, b)
         /\ Equal(a, b) => (Less(a, c) <=> Less(b, c)) /\ (Less(c, a) <=> Less(c, b))
<1>1. /\ a.idx \in Nat /\ b.idx \in Nat /\ c.idx \in Nat
      /\ a.node_id \in Nat /\ b.node_id \in Nat /\ c.node_id \in Nat
  BY DEF TSCommand
<1>2. QED
  BY <1>1 DEF Less, Equal

\* operator< is the wrong way round on purpose: std::priority_queue keeps the greatest
\* on top, so proposeQueue gives the earliest index, and of one index the lowest
\* server; servers whose queues hold the same timestamps propose the same one.
THEOREM EarliestOnTop ==
  ASSUME NEW queue \in SUBSET TSCommand, NEW c \in Top(queue)
  PROVE  /\ \A d \in queue : c.idx < d.idx \/ (c.idx = d.idx /\ c.node_id <= d.node_id)
         /\ \A other \in SUBSET TSCommand : \A d \in Top(other) :
               /\ \E e \in other : Equal(c, e)
               /\ \E e \in queue : Equal(d, e)
               => Equal(c, d)
<1>1. \A d \in TSCommand : d.idx \in Nat /\ d.node_id \in Nat
  BY DEF TSCommand
<1>2. ASSUME NEW d \in queue
      PROVE  c.idx < d.idx \/ (c.idx = d.idx /\ c.node_id <= d.node_id)
  <2>1. c \in TSCommand /\ d \in TSCommand /\ ~Less(c, d)
    BY DEF Top
  <2>2. QED
    BY <1>1, <2>1 DEF Less
<1>3. ASSUME NEW other \in SUBSET TSCommand, NEW d \in Top(other),
             NEW e \in other, Equal(c, e), NEW f \in queue, Equal(d, f)
      PROVE  Equal(c, d)
  <2>1. c \in TSCommand /\ d \in TSCommand /\ e \in TSCommand /\ f \in TSCommand
    BY DEF Top
  <2>2. ~Less(c, f) /\ ~Less(d, e)
    BY DEF Top
  <2>3. QED
    BY <1>1, <1>3, <2>1, <2>2 DEF Less, Equal
<1>4. QED
  BY <1>2, <1>3

\* QuorumSize is all servers but the largest minority, for odd and for even clusters:
\* with that many down the others are still a quorum.
THEOREM QuorumIsAllButMinority ==
  ASSUME NEW n \in Nat
  PROVE  /\ QuorumSizeOf(n) \in 1..n + 1
         /\ QuorumSizeOf(n) = n + 1 - n \div 2
         /\ 2 * QuorumSizeOf(n) > n + 1
<1>1. QuorumSizeOf(n) = n + 1 - n \div 2
  BY DEF QuorumSizeOf
<1>2. n \div 2 \in 0..n /\ 2 * (n \div 2) <= n
  OBVIOUS
<1>3. QED
  BY <1>1, <1>2

\* Two sets of QuorumSize servers of one cluster share a server, so two quorums of
\* states or of votes cannot be for different commands.
THEOREM QuorumsShareServer ==
  ASSUME IsFiniteSet(Peer), Id \notin Peer,
         NEW P \in SUBSET (Peer \cup {Id}), NEW Q \in SUBSET (Peer \cup {Id}),
         Cardinality(P) >= QuorumSizeOf(Cardinality(Peer)),
         Cardinality(Q) >= QuorumSizeOf(Cardinality(Peer))
  PROVE  P \cap Q # {}
<1>1. Cardinality(Peer) \in Nat
  BY FS_CardinalityType
<1>2. IsFiniteSet(Peer \cup {Id}) /\ Cardinality(Peer \cup {Id}) = Cardinality(Peer) + 1
  BY FS_AddElement
<1>3. Cardinality(P) \in Nat /\ Cardinality(Q) \in Nat
  BY <1>2, FS_Subset, FS_CardinalityType
<1>4. Cardinality(P) + Cardinality(Q) > Cardinality(Peer) + 1
  <2> DEFINE n == Cardinality(Peer)
             size == QuorumSizeOf(n)
  <2>1. 2 * size > n + 1 /\ size \in 1..n + 1
    <3> HIDE DEF n
    <3>1. n \in Nat
      BY <1>1 DEF n
    <3>2. QED
      BY <3>1, QuorumIsAllButMinority
  <2> HIDE DEF n, size
  <2>2. Cardinality(P) >= size /\ Cardinality(Q) >= size
    BY DEF n, size
  <2>3. n \in Nat
    BY <1>1 DEF n
  <2>4. Cardinality(P) + Cardinality(Q) > n + 1
    BY <1>3, <2>1, <2>2, <2>3
  <2>5. QED
    BY <2>4 DEF n
<1>5. QED
  BY <1>2, <1>4, FS_MajoritiesIntersect

\* None of the hashes fits its operator==: it also depends on the number that the client
\* gave the command, which no operator== looks at.  So a hash table of any of the three
\* would keep, and count, the same proposal or state more than once.
THEOREM HashTellsSameApart ==
  ASSUME NEW a \in RSTSCommand
  PROVE  \E b \in RSTSCommand :
            /\ SameState(a, b) /\ HashedState(a) # HashedState(b)
            /\ Equal(a.tsCommand, b.tsCommand)
            /\ HashedStamp(a.tsCommand) # HashedStamp(b.tsCommand)
            /\ SameCommand(a.tsCommand.command, b.tsCommand.command)
            /\ Hashed(a.tsCommand.command) # Hashed(b.tsCommand.command)
<1> DEFINE c == a.tsCommand.command
           d == [client_seq |-> c.client_seq + 1, operation |-> c.operation,
                 key |-> c.key, value |-> c.value]
           t == [idx |-> a.tsCommand.idx, node_id |-> a.tsCommand.node_id, command |-> d]
           b == [round |-> a.round, state |-> a.state, tsCommand |-> t]
<1>1. a.tsCommand \in TSCommand /\ c \in Command /\ c.client_seq \in Nat
  BY DEF RSTSCommand, TSCommand, Command
<1>2. d \in Command /\ SameCommand(c, d) /\ Hashed(c) # Hashed(d)
  BY <1>1 DEF Command, SameCommand, Hashed
<1>3. /\ t \in TSCommand
      /\ Equal(a.tsCommand, t) /\ HashedStamp(a.tsCommand) # HashedStamp(t)
  <2> HIDE DEF d
  <2>1. t \in TSCommand /\ Equal(a.tsCommand, t)
    BY <1>1, <1>2 DEF TSCommand, Equal
  <2>2. HashedStamp(a.tsCommand) # HashedStamp(t)
    BY <1>2 DEF HashedStamp
  <2>3. QED
    BY <2>1, <2>2
<1>4. /\ b \in RSTSCommand
      /\ SameState(a, b) /\ HashedState(a) # HashedState(b)
  <2> HIDE DEF t
  <2>1. b \in RSTSCommand /\ SameState(a, b)
    BY <1>3 DEF RSTSCommand, SameState
  <2>2. HashedState(a) # HashedState(b)
    BY <1>3 DEF HashedState
  <2>3. QED
    BY <2>1, <2>2
<1>5. b.tsCommand = t /\ t.command = d
  OBVIOUS
<1> HIDE DEF b, d, t
<1>6. QED
  BY <1>2, <1>3, <1>4, <1>5

\* As the protocol stands no message makes TRabia do anything: Run handles no case, and
\* Bcast would have nobody to send to.
THEOREM NothingHappens == Spec => [](Nodes = {} /\ cmdSeq = 1 /\ sent = {})
<1> DEFINE Inv == Nodes = {} /\ cmdSeq = 1 /\ sent = {}
<1>1. Init => Inv
  BY DEF Init
<1>2. Inv /\ [Next]_vars => Inv'
  BY DEF Next, Run, MessageType, vars
<1>3. QED
  BY <1>1, <1>2, PTL DEF Spec
=============================================================================
