---------------------------- MODULE SshPipeline ----------------------------
(***************************************************************************)
(* What stands between the stdout of an ssh session and GenericReadX:      *)
(* chanReader reads stdout into a queue, chanAgg joins the chunks of the   *)
(* queue for up to a timer's length and sends larger chunks to the         *)
(* channel; the channel is closed when the stream has ended and all of it  *)
(* has been passed on.  Close ends the session and cancels chanAgg.        *)
(***************************************************************************)
EXTENDS Naturals, Sequences, SequencesExt

CONSTANTS StreamLen,   \* bytes the device may send
          TmpCap,      \* capacity of the inner queue (4096 chunks)
          OutCap       \* capacity of the channel (100 chunks)

VARIABLES wire, ended,        \* bytes sent by the device; stdout is at its end
          input, hand, rd,    \* chanReader: bytes read, chunk in hand, state
          tmp, tmpClosed,     \* tmpBuffer
          buffer, agg,        \* chanAgg: its buffer and its state
          out, outClosed,     \* stdoutBuffer
          output,             \* bytes taken out of the channel
          cancelled           \* chanReaderCancel was called

readerVars == <<input, hand, rd>>
aggVars == <<buffer, agg>>
vars == <<wire, ended, readerVars, tmp, tmpClosed, aggVars, out, outClosed,
          output, cancelled>>

Interval(a, b) == [i \in 1..(b - a + 1) |-> a + i - 1]

Init ==
  /\ wire = 0 /\ ended = FALSE /\ input = <<>> /\ hand = <<>> /\ rd = "read"
  /\ tmp = <<>> /\ tmpClosed = FALSE /\ buffer = <<>> /\ agg = "select"
  /\ out = <<>> /\ outClosed = FALSE /\ output = <<>> /\ cancelled = FALSE

\* The device.
DeviceSends ==
  /\ ~ended /\ wire < StreamLen /\ wire' = wire + 1
  /\ UNCHANGED <<ended, readerVars, tmp, tmpClosed, aggVars, out, outClosed,
                 output, cancelled>>

DeviceEnds ==
  /\ ~ended /\ ended' = TRUE
  /\ UNCHANGED <<wire, readerVars, tmp, tmpClosed, aggVars, out, outClosed,
                 output, cancelled>>

\* Streamer.Close: session and connection are closed, chanAgg is cancelled.
Close ==
  /\ ~cancelled /\ cancelled' = TRUE /\ ended' = TRUE
  /\ UNCHANGED <<wire, readerVars, tmp, tmpClosed, aggVars, out, outClosed,
                 output>>

---------------------------------------------------------------------------
(* chanReader.                                                             *)

Read ==
  /\ rd = "read" /\ Len(input) < wire
  /\ \E n \in (Len(input) + 1)..wire :
       hand' = Interval(Len(input) + 1, n) /\ input' = input \o hand'
  /\ rd' = "send"
  /\ UNCHANGED <<wire, ended, tmp, tmpClosed, aggVars, out, outClosed,
                 output, cancelled>>

SendTmp ==
  /\ rd = "send" /\ Len(tmp) < TmpCap
  /\ tmp' = Append(tmp, hand) /\ hand' = <<>> /\ rd' = "read"
  /\ UNCHANGED <<wire, ended, input, tmpClosed, aggVars, out, outClosed,
                 output, cancelled>>

\* Read fails: close(tmpBuffer), then wait for chanAgg.
ReadFails ==
  /\ rd = "read" /\ ended /\ Len(input) = wire
  /\ tmpClosed' = TRUE /\ rd' = "wait"
  /\ UNCHANGED <<wire, ended, input, hand, tmp, aggVars, out, outClosed,
                 output, cancelled>>

\* chanReader returns its error and newSSHSession closes stdoutBuffer.
CloseOut ==
  /\ rd = "wait" /\ agg = "done"
  /\ rd' = "done" /\ outClosed' = TRUE
  /\ UNCHANGED <<wire, ended, input, hand, tmp, tmpClosed, aggVars, out,
                 output, cancelled>>

---------------------------------------------------------------------------
(* chanAgg.                                                                *)

AggTake ==
  /\ agg = "select" /\ tmp # <<>>
  /\ buffer' = buffer \o Head(tmp) /\ tmp' = Tail(tmp)
  /\ UNCHANGED <<wire, ended, readerVars, tmpClosed, agg, out, outClosed,
                 output, cancelled>>

\* The timer fires with something to send; the send may block.
AggTimer ==
  /\ agg = "select" /\ buffer # <<>> /\ agg' = "flush"
  /\ UNCHANGED <<wire, ended, readerVars, tmp, tmpClosed, buffer, out,
                 outClosed, output, cancelled>>

AggFlush ==
  /\ agg = "flush" /\ Len(out) < OutCap
  /\ out' = Append(out, buffer) /\ buffer' = <<>> /\ agg' = "select"
  /\ UNCHANGED <<wire, ended, readerVars, tmp, tmpClosed, outClosed, output,
                 cancelled>>

\* The context is done, or the queue is closed and empty: leave the loop.
AggLeaves ==
  /\ agg = "select" /\ (cancelled \/ (tmp = <<>> /\ tmpClosed))
  /\ agg' = "last"
  /\ UNCHANGED <<wire, ended, readerVars, tmp, tmpClosed, buffer, out,
                 outClosed, output, cancelled>>

\* Mutant of AggLast: the last buffer is forgotten.
AggLastForgets ==
  /\ agg = "last" /\ buffer' = <<>> /\ agg' = "done"
  /\ UNCHANGED <<wire, ended, readerVars, tmp, tmpClosed, out, outClosed,
                 output, cancelled>>

\* What is left in the buffer goes out before chanAgg returns.
AggLast ==
  /\ agg = "last"
  /\ IF buffer = <<>> THEN UNCHANGED out
     ELSE Len(out) < OutCap /\ out' = Append(out, buffer)
  /\ buffer' = <<>> /\ agg' = "done"
  /\ UNCHANGED <<wire, ended, readerVars, tmp, tmpClosed, outClosed, output,
                 cancelled>>

---------------------------------------------------------------------------

\* GenericReadX takes a chunk.
Consume ==
  /\ out # <<>>
  /\ output' = output \o Head(out) /\ out' = Tail(out)
  /\ UNCHANGED <<wire, ended, readerVars, tmp, tmpClosed, aggVars, outClosed,
                 cancelled>>

ReaderStep == Read \/ SendTmp \/ ReadFails \/ CloseOut

Goroutines ==
  \/ ReaderStep
  \/ AggTake \/ AggTimer \/ AggFlush \/ AggLeaves \/ AggLast

Next == DeviceSends \/ DeviceEnds \/ Close \/ Goroutines \/ Consume

Spec == Init /\ [][Next]_vars

\* Both goroutines run.  The timer is reset from the time of the last write,
\* so chunks that keep coming cannot put it off for ever.
GoroutinesRun ==
  /\ WF_vars(ReaderStep)
  /\ WF_vars(AggTake \/ AggLeaves) /\ SF_vars(AggTimer)
  /\ WF_vars(AggFlush) /\ WF_vars(AggLast)

FairSpec == Spec /\ GoroutinesRun

---------------------------------------------------------------------------

Flat(q) == FlattenSeq(q)

\* Types, and the bounds of both queues.
TypeOK ==
  /\ wire \in 0..StreamLen /\ rd \in {"read", "send", "wait", "done"}
  /\ agg \in {"select", "flush", "last", "done"}
  /\ Len(tmp) <= TmpCap /\ Len(out) <= OutCap
  /\ \A s \in {input, hand, buffer, output, Flat(tmp), Flat(out)} :
       s \in Seq(1..StreamLen)
  /\ {ended, tmpClosed, outClosed, cancelled} \subseteq BOOLEAN

\* Two goroutines and two queues keep the order of the stream, and the bytes
\* that are not yet handed out are somewhere on the way.
KeepsOrder ==
  output \o Flat(out) \o buffer \o Flat(tmp) \o hand
    = Interval(1, Len(input))

\* The channel is closed after all the device sent is in it, unless the
\* session was closed by its user: the end of the stream never overtakes data.
ClosedIsComplete ==
  outClosed /\ ~cancelled => output \o Flat(out) = Interval(1, wire)

\* chanAgg never sends on the channel after chanReader closed it.
NoSendOnClosed == outClosed => agg = "done"

\* A byte that was sent reaches the channel even if nothing follows it, as
\* long as somebody reads and the session is not closed.
BytesArrive ==
  \A k \in 1..StreamLen :
    (wire >= k) ~> (Len(output) + Len(Flat(out)) >= k \/ cancelled)

\* "will be closed after closing stdout" (ssh.go:114): after Close the
\* goroutine ends.
EndsAfterClose == cancelled ~> (rd = "done")

Fifo == INSTANCE ByteFifo WITH raised <- {}, Messages <- {}
ImplementsFifo == Fifo!Spec
=============================================================================
