------------------------------- MODULE Server -------------------------------
(***************************************************************************)
(* TRabiaServer of server.cpp: one thread on which Idle, InboundServe and  *)
(* an InboundConnection for every client take turns.  An action is what    *)
(* runs from one suspension to the next.  Every turn that gave TRaft a     *)
(* message or a tick ends with ProcessTimeout and DrainNodes (Answer), so  *)
(* one client's message may answer another's command.                      *)
(*                                                                         *)
(* Of TRaft it has what ProcessWaiting depends on: the role, the size of   *)
(* the log, CommitIndex, and the commands in `waiting`, each with the      *)
(* TNode to reply to.  A node is destroyed when neither Nodes nor          *)
(* `waiting` holds it; its socket goes with it, so a DoDrain suspended in  *)
(* a write on it is never resumed.                                         *)
(***************************************************************************)
EXTENDS Naturals, Sequences, FiniteSets

CONSTANTS
    Client,     \* the connections that clients make
    Readers     \* those of them that read what they are sent

ASSUME ClientAssumption == Readers \subseteq Client

VARIABLES
    conn,       \* external: what each client has done to its connection
    inbox,      \* external: for each client the commands written and not yet read
    asked,      \* external: for each client the number of commands it has written
    received,   \* external: for each client the replies it was sent
    Nodes,      \* the clients whose node is in TRabiaServer::Nodes
    Messages,   \* for each node the replies queued by Send
    tosend,     \* for each node what the suspended DoDrain has still to write
    leads,      \* TRaft: StateName is LEADER
    logSize,    \* TRaft: State->Log.size()
    CommitIndex,
    waiting,    \* TRaft: commands that wait for an index to be applied
    taken       \* history: for each client the commands that TRaft took as a leader

clientVars == <<conn, inbox, asked, received>>
nodeVars == <<Nodes, Messages, tosend>>
raftVars == <<leads, logSize, CommitIndex, waiting, taken>>
vars == <<clientVars, nodeVars, raftVars>>

Connection == {"none", "calling", "open", "closed"}

Init ==
    /\ conn = [c \in Client |-> "none"]
    /\ inbox = [c \in Client |-> <<>>]
    /\ asked = [c \in Client |-> 0]
    /\ received = [c \in Client |-> <<>>]
    /\ Nodes = {}
    /\ Messages = [c \in Client |-> <<>>]
    /\ tosend = [c \in Client |-> <<>>]
    /\ leads = TRUE
    /\ logSize = 0
    /\ CommitIndex = 0
    /\ waiting = {}
    /\ taken = [c \in Client |-> {}]

-----------------------------------------------------------------------------
(***************************************************************************)
(* External: clients connect, write, and close, with or without what they  *)
(* have written being read.                                                *)
(***************************************************************************)
Call(c) ==
    /\ conn[c] = "none"
    /\ conn' = [conn EXCEPT ![c] = "calling"]
    /\ UNCHANGED <<inbox, asked, received, nodeVars, raftVars>>

Ask(c) ==
    /\ conn[c] = "open"
    /\ inbox' = [inbox EXCEPT ![c] = Append(@, asked[c] + 1)]
    /\ asked' = [asked EXCEPT ![c] = @ + 1]
    /\ UNCHANGED <<conn, received, nodeVars, raftVars>>

Close(c) ==
    /\ conn[c] = "open"
    /\ conn' = [conn EXCEPT ![c] = "closed"]
    /\ \/ UNCHANGED inbox
       \/ inbox' = [inbox EXCEPT ![c] = <<>>]
    /\ UNCHANGED <<asked, received, nodeVars, raftVars>>

-----------------------------------------------------------------------------
\* Who keeps the TNode of c: the set Nodes, or a command that waits.
Held(c, nodes, commands) == c \in nodes \/ \E x \in commands : x.ReplyTo = c

\* What ProcessWaiting pops of w once `applied` is applied, and what a bug would
\* do: look at it and leave it there.
Done(w, applied) == {x \in w : x.Index <= applied}
LeftUnpopped(w, applied) == w
Left(w, applied) == w \ Done(w, applied)

\* The commands of w in the order of the priority_queue, which is by index; those
\* of one index (of two reigns) come in either order, here in a fixed one.
InOrder(w) ==
    CHOOSE s \in [1..Cardinality(w) -> w] :
        \A i, j \in 1..Cardinality(w) : i < j => s[i] # s[j] /\ s[i].Index <= s[j].Index

RepliesTo(c, w) ==
    LET s == InOrder({x \in w : x.ReplyTo = c})
    IN  [i \in DOMAIN s |-> [Index |-> s[i].Index, Num |-> s[i].Num]]

\* DrainNodes: the nodes on which a DoDrain starts, and what a bug would do: drain
\* only the node whose message it was.
DrainedAlone(nodes, turnOf) == {c \in nodes \cap turnOf : tosend[c] = <<>>}
Drained(nodes, turnOf) == {c \in nodes : tosend[c] = <<>>}

(***************************************************************************)
(* ProcessTimeout, for a leader with ProcessCommitted and ProcessWaiting,  *)
(* then DrainNodes over `nodes`: the end of every turn, once TRaft has the *)
(* given role, commit index and commands.  A node that nobody holds any    *)
(* more is destroyed, with its queue and its drainer.                      *)
(***************************************************************************)
Answer(turnOf, role, commit, commands) ==
    LET applied == IF role THEN commit ELSE 0
        queue == [c \in Client |-> Messages[c] \o RepliesTo(c, Done(commands, applied))]
        drained == Drained(Nodes, turnOf)
    IN  /\ waiting' = Left(commands, applied)
        /\ Messages' = [c \in Client |->
              IF c \in drained \/ ~Held(c, Nodes, Left(commands, applied)) THEN <<>> ELSE queue[c]]
        /\ tosend' = [c \in Client |->
              IF c \in drained THEN queue[c]
              ELSE IF Held(c, Nodes, Left(commands, applied)) THEN tosend[c] ELSE <<>>]

\* Idle, every 100 ms.
Idle ==
    /\ Answer({}, leads, CommitIndex, waiting)
    /\ UNCHANGED <<clientVars, Nodes, leads, logSize, CommitIndex, taken>>

\* InboundConnection, a command: a leader lets it wait, for the entry that it appends
\* if the command is a write and for the log as it is if it is not; others drop it.
Request(c, write) ==
    /\ c \in Nodes
    /\ inbox[c] # <<>>
    /\ inbox' = [inbox EXCEPT ![c] = Tail(@)]
    /\ logSize' = IF leads /\ write THEN logSize + 1 ELSE logSize
    /\ Answer({c}, leads, CommitIndex,
              IF leads THEN waiting \cup {[Index |-> logSize', ReplyTo |-> c,
                                           Num |-> Head(inbox[c])]}
              ELSE waiting)
    /\ taken' = IF leads THEN [taken EXCEPT ![c] = @ \cup {Head(inbox[c])}] ELSE taken
    /\ UNCHANGED <<conn, asked, received, Nodes, leads, CommitIndex>>

(***************************************************************************)
(* InboundConnection, a message of a peer: its response to a leader may    *)
(* advance CommitIndex, or its request or vote may change the role and, on *)
(* a follower, what is behind CommitIndex in the log.                      *)
(***************************************************************************)
PeerCommits ==
    /\ CommitIndex' \in CommitIndex + 1 .. logSize
    /\ Answer({}, leads, CommitIndex', waiting)
    /\ UNCHANGED <<clientVars, Nodes, leads, logSize, taken>>

PeerChangesRole(size) ==
    /\ size >= CommitIndex
    /\ logSize' = size
    /\ leads' = ~leads
    /\ Answer({}, leads', CommitIndex, waiting)
    /\ UNCHANGED <<clientVars, Nodes, CommitIndex, taken>>

-----------------------------------------------------------------------------
\* InboundServe: Accept, and InboundConnection up to its first Read.
Accept(c) ==
    /\ conn[c] = "calling"
    /\ conn' = [conn EXCEPT ![c] = "open"]
    /\ Nodes' = Nodes \cup {c}
    /\ UNCHANGED <<inbox, asked, received, Messages, tosend, raftVars>>

\* Nodes without c once its Read has thrown, and what a bug would do: return at once.
NotErased(c) == Nodes
Erased(c) == Nodes \ {c}

\* The end of InboundConnection.
ConnectionClosed(c) ==
    /\ c \in Nodes
    /\ conn[c] = "closed"
    /\ inbox[c] = <<>>
    /\ Nodes' = Erased(c)
    /\ Messages' = [Messages EXCEPT ![c] = IF Held(c, Nodes', waiting) THEN @ ELSE <<>>]
    /\ tosend' = [tosend EXCEPT ![c] = IF Held(c, Nodes', waiting) THEN @ ELSE <<>>]
    /\ UNCHANGED <<clientVars, raftVars>>

\* DoDrain after a write: the next reply of the batch, or what was queued meanwhile.
\* What a bug would do: end with the batch.
OnwardOnce(c) == Tail(tosend[c])
Onward(c) == IF Tail(tosend[c]) # <<>> THEN Tail(tosend[c]) ELSE Messages[c]

WriteDone(c) ==
    /\ tosend[c] # <<>>
    /\ received' = IF conn[c] = "open"
                   THEN [received EXCEPT ![c] = Append(@, Head(tosend[c]))]
                   ELSE received
    /\ tosend' = [tosend EXCEPT ![c] = Onward(c)]
    /\ Messages' = [Messages EXCEPT ![c] = IF Tail(tosend[c]) # <<>> THEN @ ELSE <<>>]
    /\ UNCHANGED <<conn, inbox, asked, Nodes, raftVars>>

\* A write on a closed connection throws; Connect finds no address.
WriteFails(c) ==
    /\ tosend[c] # <<>>
    /\ conn[c] = "closed"
    /\ tosend' = [tosend EXCEPT ![c] = <<>>]
    /\ UNCHANGED <<clientVars, Nodes, Messages, raftVars>>

Next ==
    \/ \E c \in Client :
          \/ Call(c) \/ Ask(c) \/ Close(c)
          \/ Accept(c) \/ ConnectionClosed(c)
          \/ \E write \in BOOLEAN : Request(c, write)
          \/ WriteDone(c) \/ WriteFails(c)
    \/ Idle
    \/ PeerCommits
    \/ \E size \in Nat : PeerChangesRole(size)

Spec == Init /\ [][Next]_vars

(***************************************************************************)
(* The poller resumes Idle when its sleep is over, and every coroutine     *)
(* whose socket has something for it: a connection to accept, a command or *)
(* the end of the stream to read, room for a write.  A client that does    *)
(* not read leaves no room.  Of the peers it is assumed that they respond. *)
(***************************************************************************)
Fairness ==
    /\ WF_vars(Idle)
    /\ WF_vars(PeerCommits)
    /\ \A c \in Client :
          /\ WF_vars(Accept(c))
          /\ WF_vars(\E write \in BOOLEAN : Request(c, write))
          /\ WF_vars(ConnectionClosed(c))
          /\ WF_vars(WriteFails(c))
    /\ \A c \in Readers : WF_vars(WriteDone(c))

-----------------------------------------------------------------------------
\* A reply is not left in its queue until the next tick: whenever the server waits,
\* an open connection with queued replies has a drainer under way, also when the
\* replies were caused by the message of another client or of a peer.
NoIdleQueue ==
    \A c \in Nodes : conn[c] = "open" /\ Messages[c] # <<>> => tosend[c] # <<>>

Nums(s) == [i \in DOMAIN s |-> s[i].Num]
ReplyNums(c) == Nums(received[c] \o tosend[c] \o Messages[c])
WaitingNums(c) == {x.Num : x \in {y \in waiting : y.ReplyTo = c}}

\* Each command that a leader took from an open connection waits, or its reply is on
\* the way to the connection it came from or there, and it is answered once:
\* whatever other clients do, and though `waiting` outlives the reign.
AnsweredOnce ==
    \A c \in Client : conn[c] = "open" =>
        LET s == ReplyNums(c)
        IN  /\ \A i, j \in DOMAIN s : i # j => s[i] # s[j]
            /\ {s[i] : i \in DOMAIN s} \cap WaitingNums(c) = {}
            /\ {s[i] : i \in DOMAIN s} \cup WaitingNums(c) = taken[c]

\* A client that reads is answered as long as the server leads, whatever the others
\* do: stop reading, close with commands under way, or connect while it waits.
Served(c, k) ==
    [](leads) => (asked[c] >= k ~> Len(received[c]) >= k \/ conn[c] = "closed")

\* The node of a client that is gone does not stay for ever: `waiting` lets go of it
\* when its commands are applied, and nobody else holds it.
Released(c) ==
    [](leads) => (conn[c] = "closed" ~> ~Held(c, Nodes, waiting))
=============================================================================
