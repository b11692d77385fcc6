------------------------------- MODULE Client -------------------------------
(***************************************************************************)
(* The console client of client.cpp, with or without SSL: the coroutine    *)
(* that sends the lines of its input, and ClientReader, which takes the    *)
(* responses.  At the other end is one server: what OnCommandRequest and   *)
(* ProcessWaiting of TRaft do with the commands of this client.  How far   *)
(* the log is committed, other clients, the role of the server and the     *)
(* connection are external.                                                *)
(*                                                                         *)
(* Lines have numbers; a time is the number of the line at which it was    *)
(* taken.                                                                  *)
(***************************************************************************)
EXTENDS Integers, Sequences, FiniteSets

CONSTANTS
    maxInflight,
    MaxUint64,    \* the largest uint64_t
    Lines,        \* number of lines of the input
    Reads,        \* those that begin with an underscore, which SslClient does not look at
    MaxLog        \* bound: entries in the log of the server, of which others leave room for Lines

ASSUME ClientAssumption ==
    /\ MaxUint64 \in Nat /\ maxInflight \in 1..MaxUint64
    /\ Lines \in Nat /\ Reads \subseteq 1..Lines /\ MaxLog \in Nat

VARIABLES
    Ssl,          \* SslClient rather than Client; never changes
    line,         \* number of lines read
    pc,           \* what Client waits for
    inflight,
    times,
    reader,       \* ClientReader is running
    requests,     \* commands that are written and not yet processed
    responses,    \* responses that are sent and not yet read
    server,       \* the role of the server, or that the connection is closed
    logSize,
    lastApplied,
    waiting,      \* commands that wait for their index, and whose they are
    given,        \* history: the index that each command got
    printed,      \* history: the time and the index of each response
    steady        \* history: the server has led all the time

inputVars == <<Ssl, line, pc>>
windowVars == <<inflight, times, reader, printed>>
netVars == <<requests, responses>>
serverVars == <<server, logSize, lastApplied, waiting, given, steady>>
vars == <<inputVars, windowVars, netVars, serverVars>>

Number == 1..Lines
Index == 1..MaxLog
TWaiting == [Index : Index \cup {0}, line : Number]
Printed == [time : Number, Index : Index \cup {0}]

Init ==
    /\ Ssl \in BOOLEAN
    /\ line = 0 /\ pc = "line"
    /\ inflight = 0 /\ times = <<>> /\ reader = TRUE /\ printed = {}
    /\ requests = <<>> /\ responses = <<>>
    /\ server = "leads" /\ logSize = 0 /\ lastApplied = 0 /\ waiting = {}
    /\ given = [l \in Number |-> 0] /\ steady = TRUE

-----------------------------------------------------------------------------
\* Client clears Flags for a line that begins with an underscore.  SslClient sets no Flags
\* for any line, which external TCommandRequest then has without EWrite, as kv.cpp needs
\* it for its get and list: with SSL every command is a read.
IsRead(l) == Ssl \/ l \in Reads

\* What a bug would do: take no time for a read.
StampedWrites(l) == IF IsRead(l) THEN times ELSE Append(times, l)
Stamped(l) == Append(times, l)

\* From the end of the window loop to the first write.
Start(l) ==
    /\ pc' = "writing"
    /\ times' = Stamped(l)
    /\ inflight' = IF Ssl THEN inflight ELSE inflight + 1

\* A line, and a look at the window, which SslClient does not have.
ReadLine ==
    /\ pc = "line" /\ line < Lines
    /\ line' = line + 1
    /\ IF ~Ssl /\ inflight >= maxInflight
       THEN pc' = "window" /\ UNCHANGED <<times, inflight>>
       ELSE Start(line + 1)
    /\ UNCHANGED <<Ssl, reader, printed, netVars, serverVars>>

\* Back from poller.Yield when the window is open again.
Yielded ==
    /\ pc = "window" /\ inflight < maxInflight
    /\ Start(line)
    /\ UNCHANGED <<Ssl, line, reader, printed, netVars, serverVars>>

\* The last write of a command has gone through, if only into a closed connection; the
\* server may answer from now on.
Write ==
    /\ pc = "writing"
    /\ requests' = IF server = "closed" THEN requests ELSE Append(requests, line)
    /\ pc' = "written"
    /\ UNCHANGED <<Ssl, line, windowVars, responses, serverVars>>

\* The coroutine that wrote is resumed.
Resume ==
    /\ pc = "written"
    /\ pc' = IF Ssl THEN "reply" ELSE "line"
    /\ UNCHANGED <<Ssl, line, windowVars, netVars, serverVars>>

\* reader.destroy() and co_return, after the last line or an exception.
Finish ==
    /\ \/ pc = "line" /\ line = Lines
       \/ pc \in {"writing", "written", "reply"} /\ server = "closed"
    /\ pc' = "done"
    /\ reader' = FALSE
    /\ UNCHANGED <<Ssl, line, inflight, times, printed, netVars, serverVars>>

-----------------------------------------------------------------------------
\* What bugs would do: leave reads out, or have a signed counter.
DecrementedForWrites(r) == IF IsRead(r.line) THEN inflight ELSE inflight - 1
DecrementedSigned(r) == inflight - 1
Decremented(r) == IF inflight = 0 THEN MaxUint64 ELSE inflight - 1

\* A response is paired with the oldest time.  times.front() of an empty queue is
\* undefined, which OneTimePerCommand excludes.
Pop(r) ==
    /\ responses' = Tail(responses)
    /\ times' = Tail(times)
    /\ printed' = printed \cup {[time |-> Head(times), Index |-> r.Index]}

ReadResponse ==
    /\ reader /\ responses # <<>>
    /\ Pop(Head(responses))
    /\ inflight' = Decremented(Head(responses))
    /\ UNCHANGED <<inputVars, reader, requests, serverVars>>

\* SslClient reads from the socket from which ClientReader reads: one of them wins.
SslReadResponse ==
    /\ pc = "reply" /\ responses # <<>>
    /\ Pop(Head(responses))
    /\ pc' = "line"
    /\ UNCHANGED <<Ssl, line, inflight, reader, requests, serverVars>>

\* Only ClientReader ends then, Client goes on.
ReaderFails ==
    /\ reader /\ server = "closed" /\ responses = <<>>
    /\ reader' = FALSE
    /\ UNCHANGED <<inputVars, inflight, times, printed, netVars, serverVars>>

-----------------------------------------------------------------------------
\* TRaft::Process of a command: only a leader does something.
OnCommandRequest ==
    LET l == Head(requests)
        index == IF IsRead(l) THEN logSize ELSE logSize + 1
    IN  /\ requests # <<>> /\ server # "closed"
        /\ requests' = Tail(requests)
        /\ IF server = "leads"
           THEN /\ index <= MaxLog
                /\ logSize' = index
                /\ waiting' = waiting \cup {[Index |-> index, line |-> l]}
                /\ given' = [given EXCEPT ![l] = index]
           ELSE UNCHANGED <<logSize, waiting, given>>
        /\ UNCHANGED <<inputVars, windowVars, responses, server, lastApplied, steady>>

\* What a bug would do: the order of std::priority_queue, largest first.
InHeapOrder(s) == \A i, j \in DOMAIN s : i < j => s[i].Index >= s[j].Index

\* operator< of TWaiting; nothing orders commands of the same index.
InOrder(s) == \A i, j \in DOMAIN s : i < j => s[i].Index <= s[j].Index

\* The sequences in which the queue may give back the elements of S.
Orders(S) ==
    {s \in [1..Cardinality(S) -> S] : InOrder(s) /\ {s[i] : i \in DOMAIN s} = S}

\* LeaderTimeout: ProcessCommitted up to some index, then ProcessWaiting.
ProcessWaiting ==
    \E applied \in lastApplied..logSize :
        LET ready == {w \in waiting : w.Index <= applied}
        IN  /\ server = "leads"
            /\ lastApplied' = applied
            /\ waiting' = waiting \ ready
            /\ \E s \in Orders(ready) : responses' = responses \o s
            /\ UNCHANGED <<inputVars, windowVars, requests, server, logSize, given, steady>>

\* External: another client writes; the server loses its role and may win it again
\* with another log behind what is applied; the connection ends and loses what is
\* under way.
OtherWrite ==
    /\ server = "leads" /\ logSize + Lines < MaxLog
    /\ logSize' = logSize + 1
    /\ UNCHANGED <<inputVars, windowVars, netVars, server, lastApplied, waiting, given, steady>>

ChangeRole ==
    /\ server # "closed"
    /\ server' = IF server = "leads" THEN "follows" ELSE "leads"
    /\ logSize' \in IF server = "follows" THEN lastApplied..MaxLog ELSE {logSize}
    /\ steady' = FALSE
    /\ UNCHANGED <<inputVars, windowVars, netVars, lastApplied, waiting, given>>

Close ==
    /\ server # "closed"
    /\ server' = "closed"
    /\ requests' = <<>>
    /\ \E k \in 0..Len(responses) : responses' = SubSeq(responses, 1, k)
    /\ steady' = FALSE
    /\ UNCHANGED <<inputVars, windowVars, logSize, lastApplied, waiting, given>>

Next ==
    \/ ReadLine \/ Yielded \/ Write \/ Resume \/ Finish
    \/ ReadResponse \/ SslReadResponse \/ ReaderFails
    \/ OnCommandRequest \/ ProcessWaiting
    \/ OtherWrite \/ ChangeRole \/ Close

Spec == Init /\ [][Next]_vars

(***************************************************************************)
(* The poller resumes both coroutines, and a server that leads takes       *)
(* commands and, in Idle, commits and answers.                             *)
(***************************************************************************)
Fairness ==
    /\ WF_vars(ReadLine \/ Yielded \/ Write \/ Resume \/ Finish)
    /\ WF_vars(ReadResponse)
    /\ WF_vars(OnCommandRequest)
    /\ WF_vars(ProcessWaiting)

FairSpec == Spec /\ Fairness

-----------------------------------------------------------------------------
TypeOK ==
    /\ Ssl \in BOOLEAN /\ reader \in BOOLEAN /\ steady \in BOOLEAN
    /\ line \in 0..Lines
    /\ pc \in {"line", "window", "writing", "written", "reply", "done"}
    /\ inflight \in 0..MaxUint64
    /\ times \in Seq(Number) /\ requests \in Seq(Number)
    /\ responses \in Seq(TWaiting)
    /\ server \in {"leads", "follows", "closed"}
    /\ logSize \in 0..MaxLog /\ lastApplied \in 0..logSize
    /\ waiting \subseteq TWaiting
    /\ given \in [Number -> Index \cup {0}]
    /\ printed \subseteq Printed

\* Each command under way has its time in the queue, whichever coroutine takes the
\* responses and whatever the server drops, so that times.front() is never read
\* from an empty queue; and the window is what the queue holds.
OneTimePerCommand ==
    /\ Len(requests) + Cardinality(waiting) + Len(responses) <= Len(times)
    /\ ~Ssl => inflight = Len(times) /\ inflight <= maxInflight

\* While one server leads, a time is printed with the index of its own command,
\* though reads wait for an index together with a write and answers come in batches.
PairedByIndex ==
    steady => \A p \in printed : given[p.time] = p.Index

\* The whole input goes through the window while one server leads.
AllLinesSent == (~Ssl /\ []steady) => <>(pc = "done")
=============================================================================
