---------------------------- MODULE MCSequential ----------------------------
(***************************************************************************)
(* The parts of the program that nothing else runs beside, in one model    *)
(* for TLC: `part` tells which one a behaviour is of, the others stay as   *)
(* they are.  The key-value store is taken with EXTENDS.                   *)
(***************************************************************************)
EXTENDS Kv, TLC

CONSTANTS
    Terms, MaxLen, MaxServers,      \* LogLoops
    Numbers, windowSize, Targets,   \* Percentiles
    Texts, Ids, MaxOptions          \* Programs

ASSUME SequentialAssumption ==
    /\ Terms \subseteq Nat \ {0} /\ MaxLen \in Nat /\ MaxServers \in Nat
    /\ Numbers \subseteq Nat /\ windowSize \in Nat \ {0} /\ Targets \subseteq 0..99
    /\ Texts \subseteq [port : Seq(0..9), id : Seq(0..9)]

VARIABLES
    part,
    loop, input, i, log, last,
    windowQueue, windowSorted,
    program, options, done, hosts, id, server, looked, myHost, nodes, outcome

\* Four nodes for the command lines, two with an id of two digits, which is longer than
\* its port in one of them.
FourTexts ==
    { [port |-> <<8, 1>>, id |-> <<1>>],
      [port |-> <<8, 1>>, id |-> <<2>>],
      [port |-> <<8, 1>>, id |-> <<1, 2>>],
      [port |-> <<8>>, id |-> <<1, 2>>] }

Loops == INSTANCE LogLoops
Window == INSTANCE Percentiles
Main == INSTANCE Programs

kvVars == vars
loopVars == <<loop, input, i, log, last>>
windowVars == <<windowQueue, windowSorted>>
mainVars == <<program, options, done, hosts, id, server, looked, myHost, nodes, outcome>>

NoLoops == loop = "none" /\ input = <<>> /\ i = 0 /\ log = <<>> /\ last = 0
NoMain ==
    /\ program = "none" /\ options = <<>> /\ outcome = "starts"
    /\ done = 0 /\ hosts = <<>> /\ id = 0 /\ server = FALSE
    /\ looked = 0 /\ myHost = 0 /\ nodes = {}

SequentialInit ==
    /\ Init
    /\ Window!Init
    /\ \/ part \in {"kv", "window"} /\ NoLoops /\ NoMain
       \/ part = "loops" /\ Loops!Init /\ NoMain
       \/ part = "main" /\ NoLoops /\ Main!Init

SequentialNext ==
    \/ part = "kv" /\ Next /\ UNCHANGED <<part, loopVars, windowVars, mainVars>>
    \/ part = "loops" /\ Loops!Next /\ UNCHANGED <<part, kvVars, windowVars, mainVars>>
    \/ part = "window" /\ Window!Next /\ UNCHANGED <<part, kvVars, loopVars, mainVars>>
    \/ part = "main" /\ Main!Next /\ UNCHANGED <<part, kvVars, loopVars, windowVars>>

SequentialSpec == SequentialInit /\ [][SequentialNext]_<<part, vars, loopVars, windowVars, mainVars>>

Symmetry == Permutations(Clients) \cup Permutations(Keys) \cup Permutations(Values)

-----------------------------------------------------------------------------
\* After any number of iterations over the payload of a request the log of
\* OnAppendEntries is the closed form that Raft uses (LogLoops).
AppendAsWritten == Loops!AppendAsWritten

\* ProcessCommitted leaves the state machine with exactly the entries it had not
\* applied, once each, as Raft has it (LogLoops).
ApplyAsWritten == Loops!ApplyAsWritten

\* The element of the sorted indices that CommitAdvance takes is the one that IsMiddle
\* picks, for odd and for even clusters (LogLoops).
CommitAsWritten == Loops!CommitAsWritten

\* A percentile is one of the last windowSize numbers and its rank is right (Percentiles).
PercentileOfWindow == Window!PercentileOfWindow

\* Servers that are started from one list, no id of which is cut, make one cluster (Programs).
OneCluster == part = "main" => Main!OneCluster

\* A server that is on the list and does not find itself has its id cut there (Programs).
OnlyCutIdsAreLost == part = "main" => Main!OnlyCutIdsAreLost
=============================================================================
