-------------------------------- MODULE Node --------------------------------
(***************************************************************************)
(* TNode of src/server.h and src/server.cpp: the outgoing queue of a       *)
(* server to one peer, or to one client that has connected, and the two    *)
(* coroutines that serve it, DoDrain and DoConnect.                        *)
(*                                                                         *)
(* All coroutines run on one thread; each action below is what runs from   *)
(* one suspension (a write, a connect, a sleep) to the next.  Messages are *)
(* numbered in the order in which they are handed to Send.  The network    *)
(* and the far end are external: a connection may break at any time, which *)
(* a writer may notice late; what was read of it by then has arrived.      *)
(***************************************************************************)
EXTENDS Integers, Sequences, FiniteSets

CONSTANT
    MaxSends      \* bound: messages for this node in one turn of the event loop

ASSUME NodeAssumption == MaxSends \in Nat

VARIABLES
    HasAddress,   \* a peer, which is connected to, or else a client, which was accepted
    Messages,     \* the queue
    Connected,
    Socket,       \* number of the connection that the socket is, or would become
    drains,       \* DoDrain coroutines that are suspended in a write
    trying,       \* number of DoConnect coroutines suspended in Socket.Connect
    asleep,       \* and of those that sleep before they try again
    sent,         \* number of messages handed to Send
    up,           \* external: connections that are not broken
    wire,         \* external: for each connection what is written and not yet read
    received      \* external: for each connection what the far end has read

queueVars == <<Messages, drains, sent>>
connectVars == <<Connected, Socket, trying, asleep>>
netVars == <<up, wire, received>>
vars == <<HasAddress, queueVars, connectVars, netVars>>

-----------------------------------------------------------------------------
\* A suspended DoDrain: the rest of `tosend`, whose first message is being written,
\* and the socket on which that write was started.
TDrain == [tosend : Seq(Nat) \ {<<>>}, sock : Nat]

Init ==
    /\ Messages = <<>>
    /\ drains = {}
    /\ trying = 0
    /\ asleep = 0
    /\ sent = 0
    /\ HasAddress \in BOOLEAN
    /\ Connected = ~HasAddress
    /\ Socket = 1
    /\ IF HasAddress
       THEN up = {} /\ wire = <<>> /\ received = <<>>
       ELSE up = {1} /\ wire = << <<>> >> /\ received = << <<>> >>

\* `!Drainer || Drainer.done()`, and the same for Connector.  A handle is replaced
\* only when its coroutine is done, so what is suspended is what the handle holds.
\* What a bug would do: not look.
DrainerForgotten == TRUE
DrainerDone == drains = {}
\* What a bug would do: take a connector that sleeps for one that is done.
ConnectorNotTrying == trying = 0
ConnectorDone == trying = 0 /\ asleep = 0

\* SocketFactory: a socket that was never connected is as good as a new one.
NewSocket == IF Connected THEN Socket + 1 ELSE Socket

-----------------------------------------------------------------------------
\* What a bug would do: take the handle of a connector that is done for a running one.
ConnectOnce ==
    /\ Connected' = FALSE
    /\ Socket' = NewSocket
    /\ trying' = IF HasAddress /\ ConnectorDone /\ wire = <<>> THEN trying + 1 ELSE trying
    /\ UNCHANGED asleep

\* TNode::Connect and the part of DoConnect up to Socket.Connect.
Connect ==
    IF HasAddress /\ ConnectorDone
    THEN /\ Connected' = FALSE
         /\ Socket' = NewSocket
         /\ trying' = trying + 1
         /\ UNCHANGED asleep
    ELSE UNCHANGED connectVars

\* DoConnect after Socket.Connect.
ConnectDone ==
    /\ trying > 0
    /\ trying' = trying - 1
    /\ Connected' = TRUE
    /\ up' = up \cup {Socket}
    /\ wire' = Append(wire, <<>>)
    /\ received' = Append(received, <<>>)
    /\ UNCHANGED <<HasAddress, queueVars, Socket, asleep>>

\* An exception from SocketFactory or Socket.Connect: Sleep for a second ...
ConnectFails ==
    /\ trying > 0
    /\ trying' = trying - 1
    /\ asleep' = asleep + 1
    /\ UNCHANGED <<HasAddress, queueVars, Connected, Socket, netVars>>

\* ... and try again.
Wake ==
    /\ asleep > 0
    /\ asleep' = asleep - 1
    /\ trying' = trying + 1
    /\ Socket' = NewSocket
    /\ UNCHANGED <<HasAddress, queueVars, Connected, netVars>>

-----------------------------------------------------------------------------
\* What a bug would do: `do ... while`.
WritingUnchecked(messages) == {[tosend |-> messages, sock |-> Socket]}

\* A DoDrain that starts to write the messages, if there are any.
Writing(messages) ==
    IF messages = <<>> THEN {} ELSE {[tosend |-> messages, sock |-> Socket]}

\* TNode::Drain on the given queue.
Drain(queue) ==
    \/ /\ ~Connected
       /\ Messages' = queue
       /\ Connect
       /\ UNCHANGED drains
    \/ /\ Connected
       /\ DrainerDone
       /\ drains' = drains \cup Writing(queue)
       /\ Messages' = <<>>
       /\ UNCHANGED connectVars
    \/ /\ Connected
       /\ ~DrainerDone
       /\ Messages' = queue
       /\ UNCHANGED <<drains, connectVars>>

\* One turn of the event loop: TRaft sends this node k messages from Process and
\* ProcessTimeout, and DrainNodes follows before anything else runs.  Idle does it
\* every 100 ms, InboundConnection after every message.
Turn(k) ==
    /\ sent' = sent + k
    /\ Drain(Messages \o [i \in 1..k |-> sent + i])
    /\ UNCHANGED <<HasAddress, netVars>>

\* What is left to write after a message of d, and what a bug would do: clear the
\* queue only then, when it may have grown.
ClearsLate(d) ==
    IF Len(d.tosend) > 1
    THEN drains' = (drains \ {d}) \cup Writing(Tail(d.tosend)) /\ UNCHANGED Messages
    ELSE drains' = drains \ {d} /\ Messages' = <<>>

\* The next message of the batch, or all that has been queued meanwhile, or the end.
WriteOn(d) ==
    IF Len(d.tosend) > 1
    THEN drains' = (drains \ {d}) \cup Writing(Tail(d.tosend)) /\ UNCHANGED Messages
    ELSE drains' = (drains \ {d}) \cup Writing(Messages) /\ Messages' = <<>>

\* A write has gone through: into the connection, or into one that is broken.
WriteDone(d) ==
    /\ wire' = IF Socket \in up
               THEN [wire EXCEPT ![Socket] = Append(@, Head(d.tosend))]
               ELSE wire
    /\ WriteOn(d)
    /\ UNCHANGED <<HasAddress, sent, connectVars, up, received>>

\* A write on a broken connection throws: the rest of `tosend` is gone, and DoDrain
\* ends with Connect.  What has been queued meanwhile stays queued.
WriteFails(d) ==
    /\ Socket \notin up
    /\ drains' = drains \ {d}
    /\ Connect
    /\ UNCHANGED <<HasAddress, Messages, sent, netVars>>

-----------------------------------------------------------------------------
\* External: the far end reads a message, or a connection breaks and loses the end
\* of what is under way.
Deliver(c) ==
    /\ wire[c] # <<>>
    /\ received' = [received EXCEPT ![c] = Append(@, Head(wire[c]))]
    /\ wire' = [wire EXCEPT ![c] = Tail(@)]
    /\ UNCHANGED <<HasAddress, queueVars, connectVars, up>>

Break(c) ==
    /\ c \in up
    /\ up' = up \ {c}
    /\ \E k \in 0..Len(wire[c]) : wire' = [wire EXCEPT ![c] = SubSeq(@, 1, k)]
    /\ UNCHANGED <<HasAddress, queueVars, connectVars, received>>

Next ==
    \/ \E k \in 0..MaxSends : Turn(k)
    \/ \E d \in drains : WriteDone(d) \/ WriteFails(d)
    \/ ConnectDone
    \/ ConnectFails
    \/ Wake
    \/ \E c \in DOMAIN wire : Deliver(c) \/ Break(c)

Spec == Init /\ [][Next]_vars

(***************************************************************************)
(* Idle comes back every 100 ms, and the poller resumes a coroutine whose  *)
(* write or sleep is over.  Of the far end it is assumed that it reads,    *)
(* and that a connection attempt succeeds if there is one again and again. *)
(***************************************************************************)
Fairness ==
    /\ WF_vars(Turn(0))
    /\ WF_vars(\E d \in drains : WriteDone(d) \/ WriteFails(d))
    /\ WF_vars(Wake)
    /\ SF_vars(ConnectDone)
    /\ WF_vars(\E c \in DOMAIN wire : Deliver(c))

FairSpec == Spec /\ Fairness

-----------------------------------------------------------------------------
TypeOK ==
    /\ HasAddress \in BOOLEAN
    /\ Messages \in Seq(Nat)
    /\ Connected \in BOOLEAN
    /\ Socket \in Nat \ {0}
    /\ drains \subseteq TDrain
    /\ trying \in Nat
    /\ asleep \in Nat
    /\ sent \in Nat
    /\ up \subseteq DOMAIN wire
    /\ wire \in Seq(Seq(Nat))
    /\ received \in Seq(Seq(Nat))

\* At most one coroutine writes to the socket and at most one connects it, never
\* both, and the socket under a write is not replaced: the two loops check only
\* Connected and each its own handle.
OneWriter ==
    /\ Cardinality(drains) + trying + asleep <= 1
    /\ \A d \in drains : Connected /\ d.sock = Socket

\* The numbers in s follow each other.
Consecutive(s) == \A i \in 1..Len(s) - 1 : s[i + 1] = s[i] + 1

Batch == IF drains = {} THEN <<>> ELSE (CHOOSE d \in drains : TRUE).tosend

\* What a connection carries has no gap, no repetition and is in order, and later
\* connections carry later messages: gaps are only where the node reconnects.
NoGaps ==
    /\ \A c \in DOMAIN wire : Consecutive(received[c] \o wire[c])
    /\ \A c, d \in DOMAIN wire : c < d =>
          \A i \in DOMAIN (received[c] \o wire[c]), j \in DOMAIN (received[d] \o wire[d]) :
              (received[c] \o wire[c])[i] < (received[d] \o wire[d])[j]

\* While a connection is up nothing is lost: from the first message written on it,
\* every message handed to Send has been read, is under way, in the batch or
\* queued, in this order.
NothingLostWhileUp ==
    Connected /\ Socket \in up =>
        LET s == received[Socket] \o wire[Socket] \o Batch \o Messages
        IN  Consecutive(s) /\ (s # <<>> => s[Len(s)] = sent)

InSeq(m, s) == \E i \in 1..Len(s) : s[i] = m
OnTheWay(m) ==
    InSeq(m, Messages) \/ InSeq(m, Batch) \/ \E c \in DOMAIN wire : InSeq(m, wire[c])

\* A message does not stay queued for ever: it arrives, or it is lost with a
\* connection, whatever was queued while the node was connecting or writing.
Settles(m) == OnTheWay(m) ~> ~OnTheWay(m)
=============================================================================
