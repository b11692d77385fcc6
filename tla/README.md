# Verification of rabia-cpp

The repository is on its way from miniraft-cpp, a Raft implementation on C++20
coroutines, to Rabia. The consensus code that exists is Raft's (`src/src/raft.h`,
`src/src/raft.cpp`); `src/src/rabia.*` is a stub, and `src/src/messages.h` already
declares Rabia's messages instead of the ones that `raft.cpp`, `kv.cpp`, `client.cpp` and
the tests use. This project models

* the Raft core as `raft.cpp` is written, once without time and once with its timers;
* the server around it: the event loop with its inbound connections, and the outgoing
  connections (`TNode`);
* framing, the console client, the key-value store, the main programs, the percentiles tool,
* and what there is of Rabia.

TLC checks all of it but Rabia on small instances. Every safety property that TLC finds to hold is
also proved with TLAPS, for all instances, but for the two that depend on the times of the run
(`LedInTime`, `LeaderStays`): of Raft one leader per term, matching logs, complete leaders, true indices, applying
once, that it implements one replicated log, and that a leader which all follow stays; of `TNode`, the event loop, the client, the store,
the loops, the main programs and the percentiles all that their runs check; of Rabia the order of
proposals and its quorums. Liveness is model-checked. Two runs show where the code does not do what its
comments and tests say (section 5).

The tree does not compile at this commit: the messages of Raft, `TMessageHolder` and `TTimeout`
are not declared in it, and the writer slices its messages. What is not declared is modelled from
how `raft.cpp` and the tests use it, and marked external in PROJECT.json.

## 1. The system

| component | state | operations | talks to |
|---|---|---|---|
| `TRaft` (raft.h, raft.cpp) | `State` (CurrentTerm, VotedFor, Log), `VolatileState` (CommitIndex, LastApplied, NextIndex, MatchIndex, Votes, BatchSize, BackOff and the timers ElectionDue, HeartbeatDue, RpcDue), `StateName`, `waiting` | `Process` (one message), `ProcessTimeout` (one tick) | peers and clients through `INode::Send`, its state machine through `IRsm` |
| `TDummyRsm` (raft.h, raft.cpp) | `Log`, `LastAppliedIndex` | `Prepare`, `Write`, `Read` | called by `TRaft` |
| `TRabiaServer` (server.h, server.cpp) | `Nodes`, one coroutine per inbound connection, `Idle` | `InboundConnection`: read, `Process`, `ProcessTimeout`, `DrainNodes`; `Idle`: `ProcessTimeout` and `DrainNodes` every 100 ms | owns the event loop: everything runs on one thread |
| `TNode` (server.h, server.cpp) | `Messages`, `Connected`, `Socket`, the coroutines `Drainer` and `Connector` | `Send` queues, `Drain` starts `DoDrain` or `Connect` | a peer's listening socket, or a client's connection |
| `TMessageReader`, `TMessageWriter` (server.h, server.cpp, messages.h) | none | `Read` four bytes of type, then the structure; `Write` the structure | a socket; used by `TNode`, `TRabiaServer`, the clients |
| client (client.cpp) | `inflight`, `times`, window of 128 | read a line, send, await replies | one server |
| `TKv` (kv.cpp) | map `H`, `LastAppliedIndex` | `Prepare`, `Write`, `Read` | another `IRsm` |
| `TRabia` (rabia.h, rabia.cpp, messages.h) | `Nodes`, `cmdSeq`, `proposeQueue`, maps for the stages of the protocol | the constructor, `Run`, `HandleClientCommand`, `Bcast` | nobody: `Nodes` is never filled |
| main programs (server.cpp, kv.cpp, client.cpp) | hosts, id | parse the arguments, make the nodes | start the above |
| `percentiles2.cpp` | `windowQueue`, `windowSorted` | `addNumber`, `getPercentile` | standard input |
| `timesource.h` | | `Now`, `Max` | read by `TRaft` |
| tests; `src/CMakeFiles` (generated compiler probes) | | | |

What is hard here:

* **Interleaving of servers.** A server handles one message or tick at a time, but between
  the servers anything may happen in any order: two candidates for one term, a deposed
  leader that still sends, a response to a request of an earlier reign.
* **Messages.** A `TNode` drops the rest of a batch on a write error and reconnects, so
  messages are lost; requests are repeated on timers, and each reconnect is a new
  stream, so an old one may be read after a newer one.
* **One tick does much.** `ProcessTimeout` runs from the expiry of the timer through the
  counting of votes to heartbeats, commit, apply and replies.
* **One thread, many coroutines.** Every message of one client may answer another one's command;
  a node may be destroyed while its drainer is suspended in a write on it.
* **Time.** Whether there is ever a leader, and whether it stays, depends on three timers and on
  draws that are the same on every server.
* **State that survives a change of role.** `VolatileState` is replaced at every election
  (LastApplied goes back to 0), while `CommitIndex` and `waiting` live on.
* **Boundaries.** Unsigned index arithmetic, even clusters, a cluster of one.

Nothing is persisted: a restarted server is a new one with an empty log, which Raft does
not tolerate and the code does not try to. Crash and recovery are therefore not modelled;
a server that stops for ever is (it takes no further step).

What makes each component correct:

* `TRaft`: one leader per term; logs that match; committed entries are never lost or
  changed; a leader's knowledge of its followers is true; entries are applied once, in
  order; replies report what was committed; commands are answered in the end.
* `TNode`: messages of one connection leave in order, one drainer and one connector at a
  time, never both; what is queued is sent once the peer is up.
* `TRaft`'s timers: a leader in time, which stays the leader while messages arrive in time.
* `TRabiaServer`: no queued reply waits for the next tick, commands are answered once, a client
  that does not read holds up nobody else, nodes of clients that left are given up.
* Framing: what is written is what is read.
* Client: at most 128 commands outstanding; each reply is paired with its command.
* `TKv`: the map is the fold of the applied log.
* Main programs: servers started from one list form one cluster, and each finds itself on it.
* `TRabia`: servers with the same proposals propose the same one; quorums meet.

## 2. The modules

| module | what it is |
|---|---|
| `LogOps` | the pure algorithms of raft.h and raft.cpp in closed form: `LogTerm`, the loop of `OnAppendEntries` (`Appended`), the middle index of `CommitAdvance` (`IsMiddle`), the loop of `ProcessCommitted` (`Applied`) |
| `LogLoops` | those loops one iteration a step, as the code writes them, compared with `LogOps` |
| `Raft` | `TRaft` on a set of servers, each with its `TDummyRsm` |
| `ReplicatedLog` | the abstract specification: replicas learn a growing prefix of one log and answer from it |
| `RaftRefinement` | the refinement mapping: a replica has learned its log up to CommitIndex |
| `MCRaft` | bounds, a view and symmetry for TLC, for clusters of two or more |
| `Elections`, `MCElections` | `Raft` with the timers of the code and a network with a bound on delays; every step is one of `Raft` or leaves its variables alone. `MCElections` also has the run of a single server |
| `RaftProofs` | theorems and proofs about `LogOps` and `Raft`: types, one leader per term, the logs of terms, matching logs |
| `CommitProofs` | on top of it: complete leaders, indices, applying, and the refinement of `ReplicatedLog` |
| `ElectionsProofs` | that `Elections` implements `Raft`, and what follows; that who follows a leader does not stand, and a leader that all follow is never deposed |
| `Node`, `MCNode` | `TNode`: the queue of one peer or client, its drainer and its connector; bounds for TLC |
| `NodeProofs` | theorems and proofs about `Node` |
| `Server`, `MCServer` | `TRabiaServer`: the event loop with its clients' connections, nodes and drainers, over what replies depend on in `TRaft` |
| `ServerProofs` | theorems and proofs about `Server` |
| `Framing` | `TMessageReader` and `TMessageWriter` on a stream of bytes |
| `Client` | `Client`, `SslClient` and `ClientReader` of client.cpp against the `waiting` of one server |
| `ClientProofs` | theorems and proofs about `Client` |
| `Kv` | `TKv` and the clients of kv.cpp under the log of a server that leads |
| `Programs` | the three `main` functions and `THost` |
| `Percentiles` | `SlidingWindowPercentile` |
| `MCSequential` | `Kv`, `LogLoops`, `Percentiles` and `Programs` for TLC: one run for the parts that nothing else runs beside; a variable says which of them a behaviour is of |
| `SequentialProofs` | theorems and proofs about those four |
| `Rabia` | `TRabia` as it stands, the orders, comparisons and hashes of messages.h, with theorems about them |

The composition: `Elections` extends `Raft` and implements it, `Raft` implements `ReplicatedLog`
through `RaftRefinement`, and `Raft`'s loops are those of `LogLoops`. Around `TRaft` the modules are
about different boundaries and do not share state: `Raft` has any number of servers over a network
that is worse than `Node`; `Node` has the messages that one server hands to one node, whose
address it knows or not; `Server` has all coroutines of one server and, of `TRaft`, what decides
when a client is answered; `Client` and `Kv` have one server and what `OnCommandRequest`,
`ProcessCommitted` and `ProcessWaiting` do with a client's commands.

### Raft and the code

The variables have the names of the fields. `msgs` is the set of all messages ever sent
between servers, `replies` the replies ever sent to clients, and `LeaderLog` a history
variable that no guard reads: the log of each term's leader.

| action | code (raft.cpp) |
|---|---|
| `OnRequestVoteRequest`, `OnRequestVoteResponse` | `Process` 358-383, then `OnRequestVote` 148-183 |
| `OnAppendEntriesRequest` = `RefuseStaleAppend` or `TakeAppend` | `Process`, `OnAppendEntries` 185-241 |
| `OnAppendEntriesResponse` = `AppendSucceeded` or `AppendFailed`, with `CommitAdvance` | `Process`, `OnAppendEntries` 243-269, 72-89 |
| `OnCommandRequest` | `OnCommandRequest` 271-281, with `TDummyRsm::Prepare` 52-59 |
| `StartElection` | `ProcessTimeout` 443-456, then `CandidateTimeout` 413-420 |
| `ResendVotes` | `CandidateTimeout` 413-420 |
| `BecomeLeader` | `ProcessTimeout` 458-480, then all of `LeaderTimeout` 422-440 |
| `LeaderTimeout` | 422-440 with `ProcessCommitted` 385-391, `ProcessWaiting` 393-405 |
| `SoloElection` | the same tick in a cluster of one: follower, candidate, leader and heartbeat at once |

`Process` first raises the term; the operators `TermOn`, `VotedForOn` and `StateNameOn` are
the values after that, and each handler is written on them. Handlers of a role that ignores
a message still take the term from it.

Abstractions, each one an over-approximation of the code unless it says otherwise:

* *Time.* ElectionDue, HeartbeatDue and RpcDue have no variables in `Raft`: a timer that has been
  armed may have expired at any tick, so a tick sends to any subset of the peers and a
  follower or candidate may start an election at any tick. `Elections` has them, and
  `TimedIsRaft` proves that every step with timers, of one server or of many, is one without.
* *The network.* Any message ever sent may be delivered at any time, again and again, or
  never. This is weaker than what `TNode` and a TCP stream guarantee.
* *Data.* A command is a value; a read returns the whole applied log rather than the one
  entry the client names.
* *External code.* `TMessageHolder` is not in this commit. `OnCommandRequest` uses `command`
  after `std::move(command)` (lines 274 and 279); the model assumes that the holder still
  reads the same message. `TDummyRsm` leaves `LastAppliedIndex` without an initializer; the
  server makes it with `std::make_shared<TDummyRsm>()`, which zeroes it.
* *Clients.* server.cpp always passes `replyTo`, so every command waits for its reply.
* `uint64_t` is `Nat`; `TypeOK` and `NextIndexInRange` say that the subtractions stay in it.
  `SetCommitIndex` (line 126) takes an `int`, by which a follower's new CommitIndex is narrowed and widened
  again: `TakeAppend` takes only requests that leave it at most `MaxInt` = 2^31 - 1, where that
  changes nothing. This is a bound, not an over-approximation; logs beyond it are not modelled.

### Node and the code

All coroutines of a server run on one thread, so an action is what runs from one suspension to
the next. `drains` are the `DoDrain` coroutines that are suspended in a write, each with what is
left of `tosend` and the socket it writes to; `trying` and `asleep` count the `DoConnect`
coroutines that are suspended in `Socket.Connect` and in `Sleep`. That there is at most one is
not built in: it is what `OneWriter` says and `OnlyOneWriter` proves. `up`, `wire` and `received`
are the network.

| action | code (server.cpp) |
|---|---|
| `Turn(k)` | k calls of `Send` 89-91 from `TRaft`, then `DrainNodes` 182-186 with `Drain` 94-105, without a suspension between |
| `WriteDone`, with `WriteOn` | `DoDrain` 110-115 after a `co_await`: the next message, the next batch, or the end |
| `WriteFails` | 116-120: the batch is dropped and `Connect` called |
| `Connect` (in `Drain` and `WriteFails`) | `Connect` 124-131 and `DoConnect` 136-141 |
| `ConnectDone`, `ConnectFails`, `Wake` | `DoConnect` 142-143, 144-148, and back to 140 |

`HasAddress` is chosen initially. A node of a client (FALSE) is made connected and is never connected again; a write
on its broken connection fails at every tick. Messages are numbered in the order of `Send`.
The network may cut a connection at any time and lose what has not been read; a writer may go
on writing into it for a while, as into a socket buffer. That `InboundConnection`
erases the node of a client (line 171) is in `Server`.

### Elections and the code

A due time is kept as the time that is left until it; 0 is passed. `TTimeout` is not in this commit; in
miniraft-cpp, where the code comes from, Election is 5 and Rpc 10 seconds. The unit of the run stands
for 5/6 of a second, so that they are 6 and 12 and the heartbeat, half of Election, is exactly 3. `turn` is the server between `Process` and the
`ProcessTimeout` that `TRabiaServer` always calls next.

| action | code (raft.cpp) |
|---|---|
| `TimedProcess` | `Raft`'s `Process`, with `RestartsOnTerm` 358-368, `RestartsOnVote` 177-179, `Restarts` 185-241 (also for an AppendEntries of an earlier term), `RpcDueOn` 236-269 and 148-183 |
| `TimedCommand` | `OnCommandRequest` 271-281, which sets no timer |
| `TimedStartElection` | 443-456 and 413-420, with `MakeElection` 494-497 |
| `TimedBecomeLeader` | 458-480 and 422-440: no election timer, a heartbeat to everyone |
| `TimedSoloElection` | 442-492 in one tick without peers: the candidate's draw, then no election timer |
| `TimedResendVotes`, `TimedLeaderTimeout`, `TimedFollowerTimeout` | 413-420, 422-440, 407-411 (which finds nothing to do: 443 has looked at the same due time) |
| `Start`, `Tick` | somebody starts a server; time passes |

Every server seeds its generator with 31337 (raft.h line 174), so the k-th draw of one server is the k-th
draw of every other: `draws` chooses the first `Shared` once for all of them, later ones are
free. With equal draws it is the difference between the starts that decides: servers started
within a message's delay of one another stay in lockstep, vote for themselves and start over
together. That is why the run starts them `Gaps` apart, more than `Delay`.

### Server and the code

| action | code (server.cpp) |
|---|---|
| `Idle` | `Idle` 235-251, from one sleep to the next |
| `Accept` | `InboundServe`, and `InboundConnection` up to its first `Read` |
| `Request` | `InboundConnection` 154-173, a command: `TRaft::Process`, `ProcessTimeout`, `DrainNodes` |
| `PeerCommits`, `PeerChangesRole` | the same for a message of a peer, by its effect: it moves CommitIndex of a leader, or the role, and with the role the log behind CommitIndex |
| `ConnectionClosed` | the end of `InboundConnection`, line 171 |
| `WriteDone`, `WriteFails` | `DoDrain` 107-121 after a `co_await` |

`Answer` is what ends every turn: `ProcessCommitted` and `ProcessWaiting` of a leader, then
`DrainNodes` over `Nodes`. A `TNode` is held by `Nodes` and by each command in `waiting`; when
neither is left it is destroyed with its socket, and the poller drops a drainer that is suspended
on it. A client that has left while its commands wait is no longer in `Nodes`, so its replies are
queued on a node that nobody drains, and go with it.

### Framing, main programs, percentiles, Rabia

* `Framing`: `Write` (`Len` bytes from a `TMessage` taken by value: of a longer structure only the first
  16 bytes are the writer's, the rest is what lies behind the copy, and the reader may take it for
  any type), `ReadType` (server.cpp 10-26: fewer than four
  bytes at once are taken for the end of the stream, a type without a case leaves the coroutine
  without a value) and `ReadStruct` (`TStructReader::Read`, whose result `Read` returns as a `TMessage`,
  so that nothing behind the first 16 bytes is kept: `got` is a type and an offset). The sizes are those of the
  structures of messages.h on a 64-bit build.
* `Programs`: `TakeOption` is the loop over argv, `TakeHost` the loop over the hosts of a server, `Serve`
  and `Connect` the ends of it. `Id` is THost's, which reads as many characters as the port has, so
  ids longer than the port are cut: port 80 with id 100 is read as 10. `OneCluster` is about lists without such
  an id (`IdsFit`); `OnlyCutIdsAreLost` is about all lists and says that a server of the list stops with
  "Host not found" only if its id is cut. The list of the run has such a host.
* `Percentiles`: the multiset is the sequence that an iterator goes through. `addNumber` erases the
  oldest number from it by iterator, and from the queue by age, and inserts the new one behind
  those that are not greater; `getPercentile` takes the element at `size * target / 100`.
* `Rabia`: the constructor does not fill `Nodes`, `Run` switches on the static `MessageType` of
  `TMessage` and so on none of its cases, `Bcast` has nobody to send to, `cmdSeq` is never
  incremented, and the maps for the stages are never used. `NothingHappens` says so; the other
  theorems are about what the protocol will rest on.

### Client and the code

`pc` says what the sending coroutine waits for: a line, the window, the writes of a command ("writing",
and "written" once the last of them has gone through), with SSL the response, or nothing. `Ssl` is
chosen initially. `ReadLine`, `Yielded`, `Write`, `Resume`, `Finish` are the parts of `Client` (client.cpp 56-89) and `SslClient` (110-129); `ReadResponse` and
`ReaderFails` are `ClientReader` 19-34; `SslReadResponse` is 119-123, which reads from
the same socket as `ClientReader`: either may get a response. `Write` is the end of the
last write of a command, with which the server has it (nobody else writes to the socket, so it stands for the two
or three that the code makes); the coroutine goes on with `Resume`, and the response may come before that.
`Client` makes lines with an underscore reads; `SslClient` sets no `Flags` at all, so with SSL every
command is a read (`IsRead`). `inflight` wraps around at `MaxUint64` as `uint64_t` does.
The server is `OnCommandRequest` and `ProcessWaiting` of raft.cpp for this client; it may lose its
role and drop commands (`ChangeRole`), and win it again with another log.

### Kv and the code

`Write` and `Stored` are `TKv::Write` (kv.cpp 53-65), `ReadFrom` is `TKv::Read` (a list is a read
of all keys), and an entry is what `Prepare` copies: key and value, without a term. `Tick` is
`ProcessCommitted` (`WriteCommitted` is its loop, as a function of the number of writes done) then
`ProcessWaiting`; `Elected` is the new `TVolatileState` of an election,
after which the whole log is given to `Write` again. A client waits for each reply (90-139). On a line that is no
command (`SendUnknown`, 128-132) it prints an error and writes `req` all the same, an empty holder:
that is a null pointer read as a message, after which the client is gone.

## 3. The runs

| run | question | size (about) |
|---|---|---|
| `three_rivals` | two of three servers compete for terms 2 and 3 and take writes: one leader per term? is MatchIndex true, NextIndex in range, has each term one growing log? | 180 000 states |
| `three_logs` | leadership 1, 2, 1 with one write each, so that logs diverge at one index and are extended: do logs match? | 270 000 |
| `three_turns` | leadership 1, 2, 1, 2 up to term 5 (the classical case of an entry of an old term on a majority): do leaders have all that is committed, is `ReplicatedLog` implemented? | 100 000 |
| `two_servers` | an even cluster, three leaderships, three writes and a read, batches and back-off of 2: types, NextIndex, applying once, `ReplicatedLog` | 165 000 |
| `solo` | one server with its timers: is every command answered? (liveness) Is `ReplicatedLog` implemented? | 570 |
| `elections` | three servers with the code's timers: is there a leader in time, and does it stay? | 185 000 |
| `server` | the event loop with two clients, one of which does not read, and changes of role: no idle reply, one answer per command, readers served, nodes released (safety and liveness) | 170 000 |
| `peer` | the node of a peer over three connections, or of a client with its only one: one writer at a time? gaps, losses while connected, messages that stay? (safety and liveness) | 4 100 |
| `client` | window, times and reader, with and without SSL: does each response find its own time, or one of the same index? Does all input go through? | 300 000 |
| `sequential` | the store under two clients and a log that is applied again; the loops against their closed forms; the percentiles of a window; the command lines | 228 000 |
| `stale_ack` | does a write's reply name its own entry, as raft.h line 19 says? **No**, see section 5 | |
| `framing` | is what is read what was written, as test_read_write.cpp lines 63-66 say? **No**, see section 5 | |

### Bounds and why they are enough

The bounds are all in the MC modules and the configurations. For `Raft`:

* `Candidates(t)`: who may start the election of term t. The properties are about what two or
  three leaders in turn do to each other; `TurnsTo4` and `TakeTurns` let exactly those
  turns happen, with every interleaving of what each of them still has under way.
* `Quota(t)`, `Writes`: how many writes the leader of a term takes. Logs diverge with one
  write per term; three are enough for two logs that differ at one index and have an entry of
  one term at the next. `Reads` are in the runs with one and two servers.
* Writes are handed over in the order of their numbers; nothing else tells them apart.
* `MaxRefusals`: requests bound to be refused are handled while at most so many refusals have
  been sent. A refusal of a vote or of an old term carries only a term. Where it is 0, such
  requests stay unanswered, which the network may do to them in any case. The answer to a
  mismatch of PrevLogIndex is not bounded.
* `MaxBatch`, `MaxBackOff`: 1 or 2 instead of 1024 and 32768, so that the limit is reached.

For `Elections`: Election 6 and Rpc 12, which are upstream's 5 and 10 seconds, a draw adds nothing, half
or as much again (`Jitter`: the ends and the middle of what `MakeElection` can draw), a message takes no longer than
`Delay` = 1, servers are started 2 apart in any order, the first two draws are common to all (`Shared`).
`Deadline` = 11 after the last start is what the worst case takes; with 10 TLC finds nobody leading. One command is taken, when
nothing is under way; it is replicated, committed and answered. `solo` is `Elections` with one server, which draws and is elected and takes five commands; as nobody compares
times with it, Election is 4. `Ahead` is the view of `elections`: peer variables
only while they are read, and `flight` and who follows a leader instead of all that was ever sent. For `Server`: three
commands of two clients (one does not read), a log of up to three and two changes of role, so that
a server loses the leadership with commands waiting and gets it back; one client can call, ask and
close while the other waits. For `Framing`: streams of up to two messages of all eight types, which
arrive two bytes at a time. For `Programs`: up to four options, four nodes with ids of one and two
digits, one of them with an id longer than its port; for `Percentiles`, windows of four of three numbers, so that numbers repeat; for
`LogLoops`, logs of up to four entries and clusters of up to five servers; `SortIndices` is what
std::sort promises, another order of the same indices that is that of the numbers.

For `Node`: `MaxSent` messages, at most `MaxSends` of them in a turn, and `MaxSockets`
connections, the last of which stays up (without that, nothing would have to arrive). Six messages,
two a turn, are enough for a batch under way, a queue behind it and a loss between two
connections. For `Client`: a window of 2 and 4 lines, so that the window closes
twice; `MaxLog` leaves room for writes of other clients. For `Kv`: 3 writes by 2 clients to 2 keys,
enough to overwrite and to delete one key beside another; clients, keys and values are symmetric.

`LiveView` is the view under which states are compared. A message is left out of it when it
cannot change anything any more (`Dead`): its term is over, its vote is decided, or its
effect and its answer are there already. The peer variables of a server that does not lead
are left out, as they are replaced before they are read. `Next` of `Raft` is not changed by
any of this; `MCNext` only chooses among its steps.

That the bounds are not too small is tested by mutants: for every property of a run,
PROJECT.json names a definition and a wrong form of it (a dropped guard, an off-by-one, the
wrong quorum) under which TLC finds the property violated in that run. The wrong
forms stand in the modules beside the right ones, under a comment "what a bug would do".

`CHECK_DEADLOCK` is off where the bounds make the system come to an end. It is on in `elections` and `solo`,
where time must always be able to pass, which also says that `Due` is complete: a timer that has
passed lets some action of `ProcessTimeout` happen. It is also on in `peer`, where `Turn` is always
possible.

### Fairness

`solo` assumes weak fairness of the ticks of each server
(`TickingSpec` of `MCElections`): `TRabiaServer::Idle` calls `ProcessTimeout` every 100 ms in a loop that never
ends. Nothing is assumed about clients.

`server` (`Fairness` of `Server`) assumes weak fairness of `Idle`, and of every coroutine whose socket
has something for it, because the poller resumes it; of writes only to clients that read. Of the
peers it assumes that they respond (`PeerCommits`). `EveryReaderServed` and `EveryNodeReleased` speak of
behaviours in which the server leads all the time: no other server answers for it.

`elections` needs no fairness: that time may not pass over a due timer, a message that
must have come, or a server that must be started, is in the guard of `Tick`, and its
properties are bounds on time. That messages arrive within `Delay` is an assumption; no
consensus elects without one.

`peer` (`Fairness` of `Node`) assumes weak fairness of `Turn(0)` (`Idle` calls `DrainNodes` every
100 ms), of a suspended write and a sleep (the poller resumes them, with a result or an error), and
of the reading end; and strong fairness of `ConnectDone`, an assumption about the far end:
connecting is tried again and again, and one attempt succeeds.

`client` assumes weak fairness of both coroutines and of the server's processing and answering.
`AllLinesSent` speaks only of runs in which the server leads all the time: a server that does
not lead drops commands without an answer and the window stays closed.

The other runs check safety, with no fairness.

### The properties

* `LedInTime`: of three servers that all draw the same timeouts one is elected, because they were
  not started together.
* `LeaderStays` (action property): no draw is so short that a follower stands against a leader whose
  heartbeats arrive: the least timeout is twice the heartbeat.
* `FollowersWait`: who has taken an AppendEntries of the leader of its term never finds its election
  timer run out: a heartbeat, its message and the turns of both servers fit between two draws.
* `SettledStays` (action property): a leader that all others follow goes on leading, and they go on
  following it, whatever is still on the way from terms before.
* `NoIdleQueue`: a turn on one connection queues replies on others; each of them has a drainer when
  the turn is over, started by `DrainNodes` or already in a write and bound to look again.
* `AnsweredOnce`: of every command that a leader took, either it still waits or exactly one reply is
  on its way, whatever becomes of the role, the log and the other clients.
* `EveryReaderServed` (liveness): a client that does not read stops its own drainer only.
* `EveryNodeReleased` (liveness): `waiting` does not keep nodes of clients that left for ever.
* `PercentileOfWindow`: multiset and queue keep describing the same numbers.
* `OneCluster`: servers started from one list, no id of which is cut, agree on who there is, which
  MinVotes depends on.
* `OnlyCutIdsAreLost`: a server of the list that does not find itself on it has an id that THost cuts;
  nothing else, no order of options or hosts and no repeated host, makes it stop.
* `ReadsAsWritten`: see section 5.
* `ElectionSafety`, `LogMatching`, `LeaderCompleteness`: Raft's own, stated over what
  the code keeps.
* `MatchIndexSound`: a leader's MatchIndex of a peer in its term is a promise that
  `CommitAdvance` relies on; responses may be late and repeated, and NextIndex is set back by
  them.
* `NextIndexInRange`: `CreateAppendEntries` subtracts in `uint64_t`.
* `AppliedOnce`: LastApplied returns to 0 at every election; the guard in `TDummyRsm::Write`
  alone keeps entries from being applied twice.
* `OneLogPerTerm` (action property): the log of a term's leader only grows.
* `ImplementsReplicatedLog` (refinement): committed prefixes agree, grow and are what clients
  are answered from, through every change of leader.
* `EveryCommandAnswered` (liveness, one server).
* `OneWriter`: `Drain` is called by every coroutine of the server, `Connect` by `Drain` and by a
  failing drainer; only `Connected` and the two handles keep them from one socket.
* `NoGaps`, `NothingLostWhileUp`: messages that are handed over during a write are taken up in
  order; losses are only where the node reconnects, and a connection that is up has lost nothing
  since its first message.
* `EveryMessageSettles` (liveness): nothing stays queued for ever; it arrives or is lost with a
  connection.
* `OneTimePerCommand`: the queue of times is never read empty and is what the window counts,
  whatever is dropped and whichever coroutine reads.
* `PairedByIndex`: the client pairs times and responses by order, the server orders by index;
  while one server leads, they never disagree on the index, though a write and reads behind it
  share one and may be answered in any order.
* `AllLinesSent` (liveness): the window opens again.
* `MapIsLog`: applying the log again after an election does not take the map back.
* `ReadsWhatWasTaken`: a read sees every write that the server took before it.
* `AppendAsWritten`, `ApplyAsWritten`, `CommitAsWritten`: loops against closed forms.

## 4. What is proved

For every value of the constants, so for clusters of any size, logs and terms of any
length, and any number of messages:

* `TypeCorrect`: `Spec => []TypeOK`. `TypeOK` is inductive; one lemma per action. It rests
  on `AppendedType`, which rests on `AppendedShape` (the closed form of the loop of
  `OnAppendEntries`), and on `SteppedBack` staying above 0.
* `ElectionSafe`: `Spec => []ElectionSafety`. ElectionSafety is not inductive. The
  invariant `VoteInv` adds what the messages and the vote of each server say:
  * `NotToSelf`: no message is sent to its sender;
  * `VotesRecorded`: a grant was sent by a server whose term is at least its term, and
    in that term VotedFor is the one it was granted to; a request for votes was
    sent by a server that voted for itself in its term;
  * `VotedOnce`: for each term a server has voted for at most one;
  * `CandidateVotes`: a candidate's Votes are servers that voted for it in its term;
  * `LeaderElected`: a leader's term has MinVotes voters for it.

  Two sets of MinVotes servers meet (`VoteQuorums`, `QuorumsMeet`), the common server voted
  once (`VotedOnce`), so the leaders are one. That each step keeps the invariant is shown in
  two halves: `VoteStep` says what a step may do to terms, votes and grants, `RoleStep` what
  it may do to roles; each action is shown to be such a step (most are `QuietStep`s), and
  `VoteStepKeepsVotes` and `RoleStepKeepsRoles` do the rest once.
* `LogsOfTermsGrow`: `Spec => OneLogPerTerm`. The invariant `LeaderLogInv` relates the
  history to the servers: the log of a term is that of a server which was elected in it and
  will not stand for it again, and while that server leads, LeaderLog follows its log. A
  step either writes no leader's log (`KeepsLeaders`) or is one of the leader itself
  (`LeaderWrites`): the first of its term, because `OneElected` leaves nobody else who could
  have led it, or one that lengthens what it had.
* `LogsMatch`: `Spec => []LogMatching`. LogMatching says nothing of requests in flight, nor
  of logs that no server has any more. `LogInv` does: every log, that of each
  term's leader included, is put together of leaders' logs (`FromLeaders`: an entry and all
  that precedes it are what the leader of the entry's term had there), and each AppendEntries
  request describes the log of the leader of its term (`Describes`). `AppendedFromLeaders` is
  the step that matters: a follower that finds PrevLogTerm at PrevLogIndex agrees with the
  leader up to there, it goes on agreeing as long as the terms of the payload do, and from
  the first conflict on the log is the leader's. Old requests stay true because logs of terms
  only grow. A request whose NextIndex has run past the log carries PrevLogTerm 0, which no
  entry has.
* `AppendedShape`: what the payload loop of `OnAppendEntries` leaves of a log: everything up
  to PrevLogIndex, the payload behind it, and the old tail only when nothing conflicts.
* `VoteQuorums`, `CommitQuorums`: MinVotes and the quorum of `CommitAdvance` overlap for odd
  and even clusters; this is why MinVotes is rounded up at line 136.

* `LeadersComplete` (`CommitProofs`): `Spec => []LeaderCompleteness`. What is committed is not told by any
  one server, so the invariant `CommitInv` speaks of what servers *hold*: a server holds the first k
  entries of term t's log if it was elected in t or has acknowledged them to t's leader (`Holds`),
  and an entry of t is *chosen* when a commit quorum holds it. Its parts:
  * `KeptInv`: who holds entries has them in its log, unless a leader after t was without
    them and has taken them away (`Lost`);
  * `CandidatesInv`, `ElectedInv`: who voted for a candidate or leader *backs* its log: what the
    voter held at the time is in it, or was lost to a leader in between. This is where
    `UpToDate` of `OnRequestVote` is used, with `RequestsInv` (a request describes the candidate's log
    as long as it stands) and `FromLeaders` of `LogInv` (a last entry of one term settles all before
    it);
  * `AcksInv`, `MatchInv`: acknowledgements are of logs that are as long, and MatchIndex is what
    was acknowledged in the leader's own term;
  * `CommitsInv`: what a server or a request calls committed is covered by a chosen entry
    (`CommittedBy`); `CommitAdvance` counts only entries of its own term, which is what makes them
    chosen.

  A quorum that holds and one that votes share a server (`CommitQuorums`), which backs the new leader.
  That nothing chosen is ever lost is then shown for the earliest leader that would lack it: no
  leader in between had lost it, so its voter's promise is a plain one. As for votes, what a step may
  do is said once (`LogChange`, `NewAcks`, `NewVotes`, `NewCandidates`, `NewLeaders`, `PeersChange`,
  `CommitsChange`), each action is shown to do no more, and each part is kept by any such step.
* `MatchIndexesSound`, `NextIndexesInRange`: `Spec => []MatchIndexSound`, `Spec => []NextIndexInRange`, from
  the same invariant: a peer that has acknowledged to a leader still in its term has lost nothing to a
  later one, and NextIndex starts at the end of the log and moves with acknowledgements.
* `AppliesOnce`: `Spec => []AppliedOnce`. It adds that LastApplied is never ahead of the state machine
  (`ApplyInv`), and uses that committed entries of different servers agree (`AgreeInv`), so that a
  follower's log may be cut only behind what it has applied.
* `RaftImplementsReplicatedLog`: `Spec => ImplementsReplicatedLog`. Initial states map to initial states;
  a step that moves no CommitIndex and answers nobody is a stutter; a follower's or a leader's new
  CommitIndex is a `Learn` of the abstract log, which exists because committed prefixes agree (`AgreeInv`) and stay; the replies
  of `ProcessWaiting` are read off what has been learned, because `ProcessCommitted` has just applied it.

* `TimedIsRaft` (`ElectionsProofs`): `TimedSpec => Spec`. The timers only restrict what `Raft` may do;
  the fact it needs is `FlightSent` (what is on the way has been sent). With it every safety
  theorem about `Raft` holds under the timers; `TimedElectionSafe` states it for ElectionSafety.
* `TimersRun`: `TimedSpec => []OnlyLeadersRest`: a server whose election timer is off leads; whoever
  is deposed has drawn a new one.
* `FollowersDoNotStand`, `SettledLeadersStay`: `TimedSpec => []FollowersWait` and
  `TimedSpec => SettledStays`, for any number of servers, starts, draws and timeouts with
  `Heartbeat + Delay < Election` (`InTime`): a message takes less than an election timeout without a
  heartbeat, half a timeout in the code. Both rest on `TimeInv`. Its part `ReachedInv` says of who
  follows a leader that it is up, a follower, and *reached*: either the leader's HeartbeatDue
  and a message's way are over before its timer (`Heard`), or an AppendEntries of the leader's term
  is on its way and is there before (`Coming`). `OnAppendEntries` makes it `Heard`, since the least draw
  is Election and HeartbeatDue is never more than Heartbeat (`BeatsInv`); `LeaderTimeout` turns
  `Heard` into `Coming`; and `Tick` takes one from every time alike, because it waits for what
  is due. Who has acknowledged to a leader still of its term has done so to one that leads now (`AcksInv`,
  `FollowedBefore`), so nothing else can start following. For `SettledStays`, messages are of no later
  term than their senders' (`SourcesInv`), so when all are in one term no message raises it, and the
  AppendEntries of that term all come from the leader (`OneElected`).
  `LeaderStays` is more: it is about leaders that some server does not follow yet, and `InTime` is not
  enough for it. With Delay 2 and Gaps {1} instead of 1 and {2}, which meet `InTime` (3 + 2 < 6), TLC finds a leader deposed: its rival
  for the same term stood first, was not elected, and its timer runs out before the leader's
  first AppendEntries has come. A server that refuses the leader its vote may do the same, as
  the later term alone does not restart a timer that is running (lines 361-367).
* `RepliesDrain` (`ServerProofs`): `Spec => []NoIdleQueue` for any number of clients, commands and
  changes of role. NoIdleQueue alone is not inductive: `Accept` puts a client into `Nodes` and opens it,
  so its queue must have been empty before. The invariant `QueueInv` adds that (`BeforeAccept`: nobody
  waits for a client that is not accepted, and nothing is queued for it), and `AnswerDrains` says once
  for all turns what `DrainNodes` does.
* `EarliestOnTop` (`Rabia`, on `TimestampOrder`): the top of proposeQueue has the lowest timestamp;
  servers that know each other's top proposals have the same one on top.
* `QuorumIsAllButMinority`, `QuorumsShareServer`: the constructor's QuorumSize for odd and even clusters.
* `HashTellsSameApart`: the hashes of messages.h depend on `client_seq`, which no `operator==` looks at:
  commands, proposals and states that are equal may hash differently.

* `OnlyOneWriter`, `NodeTypeCorrect` (`NodeProofs`): `Spec => []OneWriter` and `Spec => []TypeOK`
  for peers and clients, any number of messages, breaks and reconnects. The inductive invariant
  `NodeInv` adds to the types `SocketInv` (the socket is the last connection made, or the next,
  according to `Connected`) and `WriterInv`: while `DoConnect` is suspended, in a connect or a sleep,
  `Connected` is false, and while `DoDrain` is, it is true and the socket is the one it started on.
  So `Drain` on a connected node finds no connector and the `Connect` of a failing drainer finds no
  other drainer. `ConnectKeeps` says so once for both callers.
* `EachConnectionInOrder`, `NothingIsLost`: `Spec => []NoGaps` and `Spec => []NothingLostWhileUp`. The
  invariant `OrderInv` locates every message: the queue and the drainer's batch are the last numbers that
  `Send` was given (`QueueInv`), what a connection has carried is a run of numbers before those, and the
  connection that is up has carried the last one that was written (`CarriedInv`).

* `EveryCommandAnsweredOnce` (`ServerProofs`): `Spec => []AnsweredOnce`. `RepliesInv` accounts for each
  command taken: it is in `waiting`, or its reply is in one of three places, queued, in the drainer's
  hands or received, and nowhere twice (`Accounted`). Commands still to be read are later than all
  that were taken (`InboxInv`), so a new one is none of these. Turns sort `waiting` by index; that the
  sort neither drops nor repeats is shown for any finite set of commands.

* `ClientTypeCorrect`, `EveryResponseHasItsTime` (`ClientProofs`): `Spec => []TypeOK` and
  `Spec => []OneTimePerCommand` from `WindowInv`: the commands under way, wherever they are, are no more than
  the times, and without SSL `inflight` is their number.
* `EveryTimeWithItsCommand`: `Spec => []PairedByIndex`. `PairInv`, which holds as long as one server leads, says
  that responses, waiting commands and requests stand in the order of the times (`Aligned`) and that
  indices were given in that order (`GivenOrdered`). The queue by index may answer commands of one index
  in any order, so responses do not carry their own times; `OrderedAlike` says that two
  orders of one set by index carry the same indices at the same places. It needs a pigeonhole
  (`FewerNumbers`), as nothing is assumed of the sort but its result.

* `AppendLoopCorrect`, `ApplyLoopCorrect`, `CommitSortCorrect` (`SequentialProofs`): the loops of raft.cpp are
  the closed forms of `LogOps` on which all theorems about Raft rest. The loop over a payload has
  kept the log so far, or has cut it at one entry and taken all from there (`LoopAppended`); an
  entry of positive term never equals a place behind the end. `EnoughReach` counts servers in the
  sorted indices: as many reach k before sorting as after, so the middle one reaches k exactly
  when enough do.
* `ServersOfAListAreOneCluster`: the loop over hosts has made peers of all hosts read so
  far but itself (`HostsTaken`), and an id that fits is read to its end (`WholeId`).
* `OnlyCutIdsGetLost`: for any list, cut ids included; a host that is read to its end and has the
  server's id is taken as `myHost` when its turn comes (`HostRead`), so a server that is not found has none.
* `StoreTypeCorrect`, `StoreIsItsLog`, `ReadersSeeWhatWasTaken`: `KvInv` adds to the properties that a read waits for
  the index at which it was taken and that each answer is the map of some applied log at least as
  long. `CommittedIsWritten` is the loop of `ProcessCommitted` from LastApplied, which may be 0
  after an election: entries the store has are skipped, the others add up to the map of the log
  (`StoredInMap`).
* `PercentilesOfTheWindow`: queue and multiset have as many numbers of every set (`WindowInv`), because
  erase takes out one number of the value that leaves the queue (`EraseNumber`) and insert keeps the
  order (`InsertNumber`); so places in the multiset are ranks in the window (`RankOfPlace`).

The assumptions are those of `Raft` (`ServerAssumption`, ...): a finite, non-empty set of
servers, Nil not one of them, reads and writes apart, positive limits; `TimesAssumption`: times are
numbers, a draw adds at most Election, Never is no number (the two theorems about followers have
`InTime` as a hypothesis besides, which the times of the run meet: 3 + 1 < 6); `ClientAssumption` of `Server`: readers
are clients; `ClientAssumption` of `Client`: lines, MaxUint64 and MaxLog are numbers, the window is
at least 1 and at most MaxUint64, reads are among the lines; `NodeAssumption`: `MaxSends` is a
number; `KvAssumption`: NoValue is no value; `SequentialAssumption`: terms are positive (as
CurrentTerm is from the first election on), lengths and the numbers of a window natural,
windowSize is not 0 and a percentile less than 100 (line 51 of percentiles2.cpp has 50 to 99),
ports and ids are sequences of digits. TLC evaluates all of them.

Model-checked only:

* liveness, which TLAPS does not handle: EveryCommandAnswered, EveryMessageSettles, AllLinesSent,
  EveryReaderServed, EveryNodeReleased;
* LedInTime and LeaderStays: they are about the times of the run, and false of others (messages that
  take longer than the servers were started apart). What holds of LeaderStays for all times is
  proved as `SettledLeadersStay`.

Bounds of a run that are in a module's guards (`MaxLog` of `Kv`, ...) are constants of which the
theorems assume only that they are numbers.

## 5. Findings

`stale_ack`: a deposed leader that leads again acknowledges a lost write. `waiting` is
filled at raft.cpp line 279 and is never cleared, and `ProcessWaiting` (line 395) compares
indices only. Server 1 leads term 2 and appends a write at index 1; server 2 wins term 3
and commits another write at index 1, which replaces the first in server 1's log; server 1
wins term 4, applies index 1 and answers the first client "Index 1". The comment at raft.h
line 19 describes the reply as the index at which the command's own entry was applied.

`framing`: what `Read` returns is not what was written. `Read` takes the four bytes of the type off the
stream (server.cpp line 26) and then reads the whole structure, whose first field is the type
again, from behind them; `Write` wrote the type once. With one message on the stream `Read` waits for four
bytes that never come; with a second one behind it, it returns a structure that begins four
bytes late. test_read_write.cpp lines 63-66 require type and content of what was written.
The comments in messages.h that give 64 bytes for `TStateMsg` and `TVote` do not fit either: the
structures have 72.

## 6. Not modelled

* *Crash and restart.* Nothing is persisted and nothing recovers; a server that stops for ever
  is covered, as one that takes no further step.
* *Progress without further writes* (raft.cpp line 469). A new leader appends nothing of its own term,
  so entries of earlier terms wait for the next write. The code does not promise otherwise, so
  there is nothing to refute; `EveryReaderServed` assumes the progress that fails here.
* *A stale leader that restarts timers* (raft.cpp line 187). `Elections` has the restart, but a run that
  makes use of it needs lost messages, several terms and time at once, which is beyond TLC's
  reach. Safety under it is proved (`TimedElectionSafe`).
* *The window of a client whose connection ended*, and responses that are outstanding at the end of
  its input: `Client` has both behaviours, and no property, as nothing says what should happen.
* *The fields of a read.* A read returns what is applied rather than the entry that the client names.
* *Rabia's protocol.* There is none in the code yet: the messages RVTSCommand, TProposal, TStateMsg,
  TVote and TDecided are declared and the maps for the stages exist, and nothing uses them.
* *I/O*: coroio's sockets and poller, SSL, the parsing and printing of lines, `DebugPrint`.
* *Tests*, which were read for what they expect of the handlers, and the *generated files* of
  `src/CMakeFiles` (about half of the lines that the repository counts as C and C++): they are CMake's
  probes of the compiler and no part of the program.

What would come next: of `Elections` what `Gaps`, `Jitter` and `Delay` must be for LeaderStays and for
a bound like LedInTime's; of `Client` and `Server` that what the model of the server inside
`Client` does is what `Raft` does; and a module for Rabia's rounds, once `Run` handles their messages.
