------------------------------ MODULE MCStreams ------------------------------
(***************************************************************************)
(* Model checking the reading sides of the connectors in one run: the      *)
(* StreamReader of each kind of connector, the SshPipeline and the reader  *)
(* of Rfc2217.  They share nothing; part says which of them runs and never *)
(* changes.                                                                *)
(***************************************************************************)
EXTENDS Naturals

CONSTANTS StreamLen, Prompts, Messages, Cap, Size, MaxCalls, MaxPrepends,
          TmpCap, OutCap, Addresses, MaxPhrases

\* Lengths and bounds are numbers, and every channel has a buffer.
ASSUME MCStreamsAssumption ==
  /\ StreamLen \in Nat /\ Size \in Nat
  /\ Cap \in Nat \ {0} /\ TmpCap \in Nat \ {0} /\ OutCap \in Nat \ {0}

VARIABLES part,
          wire, ended, input, hand, cancelled,           \* of both modules
          silent, reader, conMsgChecker, ch, closed, pc, kind, buf, inLen,
          ctxDone, extra, taken, raised, dropped, traced, res, calls,
          prepends,                                      \* StreamReader
          rd, tmp, tmpClosed, buffer, agg, out, outClosed, output,
          conn, dialed, stream, mode, telnetCommand, given, expected,
          sentOptions, said                              \* Rfc2217

Telnet   == INSTANCE StreamReader WITH Connector <- "telnet"
Ssh      == INSTANCE StreamReader WITH Connector <- "ssh"
Console  == INSTANCE StreamReader WITH Connector <- "console"
Pipeline == INSTANCE SshPipeline
Rfc      == INSTANCE Rfc2217

onlyReader == <<silent, reader, conMsgChecker, ch, closed, pc, kind, buf,
                inLen, ctxDone, extra, taken, raised, dropped, traced, res,
                calls, prepends>>
onlyPipeline == <<rd, tmp, tmpClosed, buffer, agg, out, outClosed, output>>
onlyRfc == <<conn, dialed, stream, mode, telnetCommand, given, expected,
             sentOptions, said>>
both == <<wire, ended, input, hand, cancelled>>
vars == <<part, both, onlyReader, onlyPipeline, onlyRfc>>

Init ==
  /\ part \in {"telnet", "ssh", "console", "pipeline", "rfc2217"}
  /\ Telnet!Init /\ Pipeline!Init /\ Rfc!RfcInit

Running(p) == part = p /\ UNCHANGED part
InReader(p, A) == Running(p) /\ A /\ UNCHANGED <<onlyPipeline, onlyRfc>>
InPipeline(A) ==
  Running("pipeline") /\ A /\ UNCHANGED <<onlyReader, onlyRfc>>
InRfc(A) ==
  Running("rfc2217") /\ A /\ UNCHANGED <<both, onlyReader, onlyPipeline>>

Goroutine ==
  \/ InReader("telnet", Telnet!Goroutine) \/ InReader("ssh", Ssh!Goroutine)
  \/ InReader("console", Console!Goroutine)

GenericReadX ==
  \/ InReader("telnet", Telnet!GenericReadX)
  \/ InReader("ssh", Ssh!GenericReadX)
  \/ InReader("console", Console!GenericReadX)

Next ==
  \/ InReader("telnet", Telnet!Next) \/ InReader("ssh", Ssh!Next)
  \/ InReader("console", Console!Next)
  \/ InPipeline(Pipeline!Next) \/ InRfc(Rfc!RfcNext)

\* The fairness of both modules, each for its own parts.
Spec ==
  /\ Init /\ [][Next]_vars
  /\ WF_vars(Goroutine) /\ WF_vars(GenericReadX)
  /\ WF_vars(InReader("console", Console!ReaderStopped))
  /\ WF_vars(InPipeline(Pipeline!ReaderStep))
  /\ WF_vars(InPipeline(Pipeline!AggTake \/ Pipeline!AggLeaves))
  /\ SF_vars(InPipeline(Pipeline!AggTimer))
  /\ WF_vars(InPipeline(Pipeline!AggFlush))
  /\ WF_vars(InPipeline(Pipeline!AggLast))
  /\ WF_vars(InPipeline(Pipeline!Consume))

---------------------------------------------------------------------------
(* The properties of the two modules.                                      *)

TypeOK ==
  CASE part = "telnet" -> Telnet!TypeOK [] part = "ssh" -> Ssh!TypeOK
    [] part = "console" -> Console!TypeOK
    [] part = "pipeline" -> Pipeline!TypeOK [] OTHER -> TRUE

\* No read loses, duplicates or reorders bytes, however it ends, but for what
\* a closed stream leaves at its end, and but for what the console connector
\* replaces by an exception: messages of the console server with the text
\* before them, never a prompt.  The trace reports every byte once.
\* Nobody sends on a closed channel, neither the reader nor chanAgg, and the
\* RFC 2217 reader takes out of the stream what it must and no more.
ReadsExact ==
  /\ TypeOK
  /\ part # "pipeline" => Telnet!NothingLost /\ Telnet!TracedOnce
  /\ Ssh!DropsOnlyAtEnd
  /\ Console!OnlyMessagesRaised /\ (raised # {} => part = "console")
  /\ Console!NoSendOnClosed /\ Pipeline!NoSendOnClosed
  /\ Rfc!Rfc2217Exact

\* The two goroutines of the pipeline keep the order of the stream, and its
\* end never overtakes data.
PipelineExact ==
  (part = "pipeline" => Pipeline!KeepsOrder) /\ Pipeline!ClosedIsComplete

\* The first prompt ends a ReadTo.
StopsAtFirstPrompt == Telnet!StopsAtFirstPrompt

\* Every call returns, once its context ends or the peer falls silent; the
\* stop of the reader does unless the goroutine is stuck in its send; and a
\* byte reaches the channel although chanAgg holds chunks back.
ReadsEnd ==
  /\ Telnet!CallsEnd /\ Console!StopEndsUnlessFull
  /\ part = "pipeline" => Pipeline!BytesArrive

\* Callers of the reads, and readers of the pipeline, get what ByteFifo
\* promises.
ImplementsFifo ==
  /\ Ssh!Fifo!Init /\ Pipeline!Fifo!Init
  /\ [][part # "pipeline" =>
          Ssh!Fifo!Next \/ UNCHANGED <<input, taken, raised>>]_vars
  /\ [][part = "pipeline" =>
          Pipeline!Fifo!Next \/ UNCHANGED <<input, output>>]_vars
=============================================================================
