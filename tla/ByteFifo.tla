------------------------------ MODULE ByteFifo ------------------------------
(***************************************************************************)
(* What every connector promises of its reading side: the bytes taken out  *)
(* of it are, in order and without a gap, the first bytes that were read   *)
(* from the connection.  A call hands them to its caller, or, when they    *)
(* end in a message that the connector itself understands, returns an      *)
(* exception in their place.  A caller may put back the last bytes it got  *)
(* (PrependBuffer) and read them again.                                    *)
(***************************************************************************)
EXTENDS Naturals, Sequences, SequencesExt

CONSTANT Messages   \* the last bytes of the messages

VARIABLES input,    \* bytes read from the connection
          output,   \* bytes taken out
          raised    \* the positions in output that no caller got

fifoVars == <<input, output, raised>>

Init == input = <<>> /\ output = <<>> /\ raised = {}

\* The reader takes some more bytes from the connection.
Arrive == IsStrictPrefix(input, input') /\ UNCHANGED <<output, raised>>

\* The bytes that follow those taken before leave.
Leave ==
  IsStrictPrefix(output, output') /\ IsPrefix(output', input)
    /\ UNCHANGED input

\* A caller gets them.
Deliver == Leave /\ UNCHANGED raised

\* An exception is raised in their place.
Raise ==
  /\ Leave /\ Last(output') \in Messages
  /\ raised' = raised \cup (Len(output) + 1)..Len(output')

\* A caller returns bytes it got.
PutBack ==
  /\ IsStrictPrefix(output', output) /\ raised \subseteq 1..Len(output')
  /\ UNCHANGED <<input, raised>>

Next == Arrive \/ Deliver \/ Raise \/ PutBack

Spec == Init /\ [][Next]_fifoVars
=============================================================================
