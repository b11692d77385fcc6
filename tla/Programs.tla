------------------------------ MODULE Programs ------------------------------
(***************************************************************************)
(* What the main functions of server.cpp, kv.cpp and client.cpp make of    *)
(* their arguments, and the THost of a --node.  The arguments are a list   *)
(* of options with their values; a node's value has the form that usage    *)
(* asks for, address:port:id, and is kept as the digits of port and id.    *)
(***************************************************************************)
EXTENDS Naturals, Sequences, SequencesExt, FiniteSets

CONSTANTS
    Texts,      \* values of --node: [port : digits, id : digits]
    Ids,        \* values of --id
    MaxOptions  \* bound on the length of the command line

VARIABLES
    program,    \* which main runs
    options,    \* the command line
    done,       \* options handled
    hosts, id, server,
    looked,     \* hosts handled
    myHost,     \* Id of myHost, 0 for none
    nodes,      \* the keys of nodes
    outcome

argVars == <<hosts, id, server>>
hostVars == <<myHost, nodes>>
vars == <<program, options, done, argVars, looked, hostVars, outcome>>

Option ==
    [name : {"--node"}, value : Texts] \cup [name : {"--id"}, value : Ids]
      \cup [name : {"--server", "--help"}]

Init ==
    /\ program \in {"server", "kv", "client"}
    /\ options \in BoundedSeq(Option, MaxOptions)
    /\ done = 0 /\ hosts = <<>> /\ id = 0 /\ server = FALSE
    /\ looked = 0 /\ myHost = 0 /\ nodes = {}
    /\ outcome = "starts"

-----------------------------------------------------------------------------
Value(digits) == FoldLeft(LAMBDA n, d : 10 * n + d, 0, digits)

FirstDigits(digits, n) == SubSeq(digits, 1, IF n < Len(digits) THEN n ELSE Len(digits))

\* THost: Id is read from as many characters as the port has.  What a bug would do:
\* from one fewer, taking the end of the range for its last character.
IdUpToLast(text) == Value(FirstDigits(text.id, Len(text.port) - 1))
Id(text) == Value(FirstDigits(text.id, Len(text.port)))

Knows(name) ==
    CASE name = "--id" -> program # "client"
      [] name = "--server" -> program = "kv"
      [] OTHER -> TRUE

\* The loop over argv: an option that the program does not know is skipped (as is a last
\* one that lacks its value), and so is --ssl, which leaves all of this as it is.
TakeOption ==
    /\ outcome = "starts"
    /\ done < Len(options)
    /\ LET option == options[done + 1]
           is(name) == option.name = name /\ Knows(name)
       IN  /\ hosts' = IF is("--node") THEN Append(hosts, option.value) ELSE hosts
           /\ id' = IF is("--id") THEN option.value ELSE id
           /\ server' = (server \/ is("--server"))
           /\ outcome' = IF is("--help") THEN "usage" ELSE outcome
    /\ done' = done + 1
    /\ UNCHANGED <<program, options, looked, hostVars>>

Serves == program = "server" \/ (program = "kv" /\ server)

Parsed == outcome = "starts" /\ done = Len(options)

\* The keys of nodes with host h looked at; what a bug would do: be a peer of its own.
NodesWithSelf(h) == nodes \cup {h}
NodesWithout(h) == IF h = id THEN nodes ELSE nodes \cup {h}

\* The loop over hosts of a server.
TakeHost ==
    /\ Parsed /\ Serves
    /\ looked < Len(hosts)
    /\ LET h == Id(hosts[looked + 1])
       IN  IF h = 0
           THEN outcome' = "Empty host" /\ UNCHANGED hostVars
           ELSE /\ myHost' = IF h = id THEN h ELSE myHost
                /\ nodes' = NodesWithout(h)
                /\ UNCHANGED outcome
    /\ looked' = looked + 1
    /\ UNCHANGED <<program, options, done, argVars>>

\* TRaft and TRabiaServer are made from myHost and nodes.
Serve ==
    /\ Parsed /\ Serves
    /\ looked = Len(hosts)
    /\ outcome' = IF myHost = 0 THEN "Host not found" ELSE "serves"
    /\ UNCHANGED <<program, options, done, argVars, looked, hostVars>>

\* client.cpp asks for a host; kv.cpp uses hosts[0] without looking.
Connect ==
    /\ Parsed /\ ~Serves
    /\ outcome' =
         CASE program = "client" /\ (hosts = <<>> \/ Id(hosts[1]) = 0) ->
                "At least one node must be set"
           [] program = "kv" /\ hosts = <<>> -> "undefined"
           [] OTHER -> "connects"
    /\ UNCHANGED <<program, options, done, argVars, looked, hostVars>>

Next == TakeOption \/ TakeHost \/ Serve \/ Connect

Spec == Init /\ [][Next]_vars

-----------------------------------------------------------------------------
\* The ids as they are written, and those that THost does not read to their end.
Listed == {Value(hosts[i].id) : i \in DOMAIN hosts}
Cut(text) == Len(text.id) > Len(text.port)
IdsFit == \A i \in DOMAIN hosts : ~Cut(hosts[i])

\* If no id of the list is cut, servers started from one list make one cluster: each has
\* itself and as peers all others, once each, so that all of them compute the same MinVotes.
OneCluster ==
    outcome = "serves" /\ IdsFit =>
        /\ nodes = Listed \ {myHost}
        /\ myHost = id /\ id \in Listed

\* A server that is on the list stops with "Host not found" for one reason only: every
\* host that has its id has more digits in it than in its port, and was read as another.
OnlyCutIdsAreLost ==
    outcome = "Host not found" =>
        \A i \in DOMAIN hosts : Value(hosts[i].id) = id => Cut(hosts[i])
=============================================================================
