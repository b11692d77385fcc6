--------------------------------- MODULE Kv ---------------------------------
(***************************************************************************)
(* TKv of kv.cpp: the key-value store as the state machine of a server     *)
(* that leads, and the clients of kv.cpp, each of which waits for its      *)
(* reply before it reads the next line.                                    *)
(*                                                                         *)
(* Of TRaft there is what touches the state machine: OnCommandRequest,     *)
(* ProcessCommitted and ProcessWaiting.  How far the log is committed is   *)
(* external, and so is that the server may be elected once more.           *)
(***************************************************************************)
EXTENDS Integers, Sequences

CONSTANTS
    Clients, Keys, Values,
    NoValue,      \* ValSize = 0: the entry deletes its key
    MaxLog        \* bound: no write is sent when the log is as long

ASSUME KvAssumption == NoValue \notin Values /\ MaxLog \in Nat

VARIABLES
    Log,
    CommitIndex,
    LastApplied,
    LastAppliedIndex,
    H,
    client,       \* what each client waits for
    answer        \* history: the reply to each client, until it sends again

serverVars == <<Log, CommitIndex, LastApplied, LastAppliedIndex, H>>
vars == <<serverVars, client, answer>>

-----------------------------------------------------------------------------
\* The maps that H can be.
Maps == UNION {[D -> Values] : D \in SUBSET Keys}

\* TKvLogEntry, and TReadKv: one key, or with KeySize = 0 all of them.
Entry == [key : Keys, val : Values \cup {NoValue}]
Read == [keys : {{k} : k \in Keys} \cup {Keys}]

\* `since` is history: the length of the log when the server had taken the command.
Idle == [state |-> "idle"]
Gone == [state |-> "gone"]
Sent == [state : {"sent"}, cmd : Entry \cup Read]
Waits == [state : {"waits"}, cmd : Entry \cup Read, since : Nat, Index : Nat]

IsWrite(cmd) == cmd \in Entry

NoAnswer == [keys |-> {}, map |-> <<>>, since |-> 0]

Init ==
    /\ Log = <<>> /\ CommitIndex = 0 /\ LastApplied = 0
    /\ LastAppliedIndex = 0 /\ H = <<>>
    /\ client = [c \in Clients |-> Idle]
    /\ answer = [c \in Clients |-> NoAnswer]

-----------------------------------------------------------------------------
\* What a bug would do: store the empty value.
StoredEmpty(map, e) ==
    [k \in DOMAIN map \cup {e.key} |-> IF k = e.key THEN e.val ELSE map[k]]

\* H[k] = v or H.erase(k).
Stored(map, e) ==
    IF e.val = NoValue
    THEN [k \in DOMAIN map \ {e.key} |-> map[k]]
    ELSE [k \in DOMAIN map \cup {e.key} |-> IF k = e.key THEN e.val ELSE map[k]]

\* TKv::Write of the entry at the index to the pair of H and LastAppliedIndex.
Write(rsm, index) ==
    IF rsm.last < index
    THEN [map |-> Stored(rsm.map, Log[index]), last |-> index]
    ELSE rsm

\* ProcessCommitted: the entries after LastApplied, one after the other.
WriteCommitted(commit) ==
    LET rsm[n \in 0..commit - LastApplied] ==
            IF n = 0 THEN [map |-> H, last |-> LastAppliedIndex]
            ELSE Write(rsm[n - 1], LastApplied + n)
    IN  rsm[commit - LastApplied]

\* TKv::Read.
ReadFrom(map, cmd) == [k \in DOMAIN map \cap cmd.keys |-> map[k]]

-----------------------------------------------------------------------------
\* The client of kv.cpp sends a set, del, get or list and waits.
Send(c, cmd) ==
    /\ client[c] = Idle
    /\ client' = [client EXCEPT ![c] = [state |-> "sent", cmd |-> cmd]]
    /\ answer' = [answer EXCEPT ![c] = NoAnswer]
    /\ UNCHANGED serverVars

\* A line that is no command: the client says so and writes `req` all the same, an empty
\* holder.  Its null is read as a message, which ends the process and its connection.
SendUnknown(c) ==
    /\ client[c] = Idle
    /\ client' = [client EXCEPT ![c] = Gone]
    /\ answer' = [answer EXCEPT ![c] = NoAnswer]
    /\ UNCHANGED serverVars

\* What a bug would do: answer a read at once, of what may not be applied.
AppliedIndex(cmd) == IF IsWrite(cmd) THEN Len(Log) + 1 ELSE 0
CurrentIndex(cmd) == IF IsWrite(cmd) THEN Len(Log) + 1 ELSE Len(Log)

\* OnCommandRequest with TKv::Prepare, which copies key and value and leaves the
\* term of the entry unset.
OnCommandRequest(c) ==
    /\ client[c].state = "sent"
    /\ LET cmd == client[c].cmd
       IN  /\ Log' = IF IsWrite(cmd) THEN Append(Log, cmd) ELSE Log
           /\ client' = [client EXCEPT ![c] =
                 [state |-> "waits", cmd |-> cmd, since |-> Len(Log'),
                  Index |-> CurrentIndex(cmd)]]
    /\ UNCHANGED <<CommitIndex, LastApplied, LastAppliedIndex, H, answer>>

\* ProcessCommitted and ProcessWaiting in one tick, on an index committed by then.
Tick(commit) ==
    LET rsm == WriteCommitted(commit)
        ready == {c \in Clients : client[c].state = "waits" /\ client[c].Index <= commit}
    IN  /\ CommitIndex' = commit
        /\ LastApplied' = commit
        /\ H' = rsm.map
        /\ LastAppliedIndex' = rsm.last
        /\ client' = [c \in Clients |-> IF c \in ready THEN Idle ELSE client[c]]
        /\ answer' = [c \in Clients |->
              IF c \in ready /\ ~IsWrite(client[c].cmd)
              THEN [keys |-> client[c].cmd.keys, map |-> ReadFrom(rsm.map, client[c].cmd),
                    since |-> client[c].since]
              ELSE answer[c]]
        /\ UNCHANGED Log

\* Elected once more with the same log: a new TVolatileState.
Elected ==
    /\ LastApplied # 0
    /\ LastApplied' = 0
    /\ UNCHANGED <<Log, CommitIndex, LastAppliedIndex, H, client, answer>>

Next ==
    \/ \E c \in Clients, cmd \in Entry \cup Read :
          (IsWrite(cmd) => Len(Log) < MaxLog) /\ Send(c, cmd)
    \/ \E c \in Clients : SendUnknown(c) \/ OnCommandRequest(c)
    \/ \E commit \in CommitIndex..Len(Log) : Tick(commit)
    \/ Elected

Spec == Init /\ [][Next]_vars

-----------------------------------------------------------------------------
TypeOK ==
    /\ Log \in Seq(Entry)
    /\ CommitIndex \in 0..Len(Log)
    /\ LastApplied \in {0, CommitIndex}
    /\ LastAppliedIndex = CommitIndex
    /\ H \in Maps
    /\ client \in [Clients -> {Idle, Gone} \cup Sent \cup Waits]

\* The key's last entry up to the index tells its value.
LastEntry(k, index) ==
    LET on == {i \in 1..index : Log[i].key = k}
    IN  IF on = {} THEN NoValue ELSE Log[CHOOSE i \in on : \A j \in on : j <= i].val

MapAt(index, keys) ==
    [k \in {x \in keys : LastEntry(x, index) # NoValue} |-> LastEntry(k, index)]

\* The map is what the applied log says, however often the log is applied again
\* from the start.
MapIsLog == H = MapAt(LastAppliedIndex, Keys)

\* A get or a list sees every write that the server took before it, whether or not
\* that was acknowledged, and so all that any client has been shown.
ReadsWhatWasTaken ==
    \A c \in Clients : \E index \in answer[c].since..LastAppliedIndex :
        answer[c].map = MapAt(index, answer[c].keys)
=============================================================================
