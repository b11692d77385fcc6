------------------------------- MODULE Framing -------------------------------
(***************************************************************************)
(* TMessageReader and TMessageWriter: how the bytes of a stream become     *)
(* messages again.  A stream is known by the types of the messages in it,  *)
(* a position by its offset in bytes; what the reader finds at an offset   *)
(* where no message starts may be anything.                                *)
(***************************************************************************)
EXTENDS Naturals, Sequences, SequencesExt

CONSTANTS
    MaxMessages,  \* bound on the messages written
    Chunk         \* bytes arrive in multiples of so many

VARIABLES
    written,   \* the types of the messages written
    arrived,   \* external: bytes that have arrived
    pos,       \* bytes that the reader has taken
    reading,   \* <<>>, or the type that Read has taken the next structure for
    got,       \* what Read has returned, a TMessage: a type, and the offset of its first field
    end        \* "open", or how reading has ended

vars == <<written, arrived, pos, reading, got, end>>

\* sizeof the structure of each EMessageType.  (The comments in messages.h say 64
\* for 4 and 5, TStateMsg and TVote.)
Types == 0..7
Size == [t \in Types |-> <<16, 48, 56, 64, 72, 72, 56, 32>>[t + 1]]

\* Where the k-th message starts, its Type being its first field.
StartOf(k) == FoldLeft(LAMBDA n, t : n + Size[t], 0, SubSeq(written, 1, k - 1))
Total == StartOf(Len(written) + 1)

Init ==
    /\ written = <<>> /\ arrived = 0
    /\ pos = 0 /\ reading = <<>> /\ got = <<>> /\ end = "open"

\* TMessageWriter::Write: Len bytes, the size of the whole structure, from a TMessage
\* taken by value.  Only the first Size[0] of them are the writer's; what follows is
\* whatever lies behind the copy, and like all that is not the start of a message it
\* may look like anything to the reader.
Write(t) ==
    /\ Len(written) < MaxMessages
    /\ written' = Append(written, t)
    /\ UNCHANGED <<arrived, pos, reading, got, end>>

Arrive ==
    /\ arrived' \in {n \in arrived + 1 .. Total : n % Chunk = 0}
    /\ UNCHANGED <<written, pos, reading, got, end>>

\* The types that four bytes from the offset on may look like; 8 stands for all that
\* the switch does not know.
TypesAt(offset) ==
    LET here == {k \in DOMAIN written : StartOf(k) = offset}
    IN  IF here = {} THEN 0..8 ELSE {written[k] : k \in here}

\* Read, up to the switch: ReadSome returns what is there of four bytes, and fewer are
\* taken for the end of the connection.  A type without a case runs into the end of a
\* coroutine that returns nothing.
ReadType ==
    /\ end = "open" /\ reading = <<>> /\ pos < arrived
    /\ IF arrived - pos < 4
       THEN end' = "Connection closed" /\ UNCHANGED <<pos, reading>>
       ELSE \E t \in TypesAt(pos) :
               /\ pos' = pos + 4
               /\ IF t \in Types THEN reading' = <<t>> /\ UNCHANGED end
                                 ELSE end' = "undefined" /\ UNCHANGED reading
    /\ UNCHANGED <<written, arrived, got>>

\* TStructReader::Read of the structure, when all of it is there.  Read returns it as a
\* TMessage again: of the bytes behind the first Size[0] nothing is kept.
ReadStruct ==
    /\ end = "open" /\ reading # <<>>
    /\ pos + Size[reading[1]] <= arrived
    /\ got' = Append(got, [Type |-> reading[1], from |-> pos])
    /\ pos' = pos + Size[reading[1]]
    /\ reading' = <<>>
    /\ UNCHANGED <<written, arrived, end>>

Next == (\E t \in Types : Write(t)) \/ Arrive \/ ReadType \/ ReadStruct

Spec == Init /\ [][Next]_vars

-----------------------------------------------------------------------------
\* test_read_write.cpp, lines 63 to 66: what Read returns is what was written, with its
\* type and from its first field on.
ReadsAsWritten ==
    \A k \in DOMAIN got :
        k <= Len(written) /\ got[k] = [Type |-> written[k], from |-> StartOf(k)]
=============================================================================
