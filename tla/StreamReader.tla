---------------------------- MODULE StreamReader ----------------------------
(***************************************************************************)
(* The reading side of a connector: a goroutine reads the connection and   *)
(* sends chunks over a bounded channel; GenericReadX collects them until   *)
(* an expression matches, enough bytes are there, the context is done or a *)
(* timer fires, and leaves the rest in the connector's extra buffer.       *)
(*                                                                         *)
(* Connector selects the goroutine and the calls:                          *)
(*   "telnet"   stdoutReader, ReadTo (telnet.go, rfc2217.go);              *)
(*   "ssh"      a reader that closes the channel at the end of the stream, *)
(*              ReadTo and Read (the pipeline inside it is SshPipeline);   *)
(*   "console"  NetReader, which can be stopped, with ReadTo, Read,        *)
(*              ReadSome and XRead.                                        *)
(* A byte is its position in the stream; Prompts are the positions where   *)
(* the caller's expression matches, Messages those where a message of the  *)
(* console server ends (regExErrors).  After the last position the peer    *)
(* may go on with text in which nothing matches, for as long as it likes.  *)
(***************************************************************************)
EXTENDS Naturals, Sequences, FiniteSets, SequencesExt

CONSTANTS Connector,
          StreamLen,   \* bytes the peer may send
          Prompts,     \* the positions at which the expression matches
          Messages,    \* the positions at which regExErrors matches
          Cap,         \* capacity of the channel
          Size,        \* the size that sized reads ask for
          MaxCalls, MaxPrepends   \* bounds

VARIABLES wire,      \* bytes the peer has sent
          silent,    \* the peer says no more
          ended,     \* the peer has closed the connection
          input,     \* bytes the goroutine has read
          hand,      \* chunk read and not yet sent over the channel
          reader,    \* the goroutine: "read", "send" or "done"
          cancelled, \* readerCancel was called (console)
          conMsgChecker,   \* the console port is attached (console)
          ch, closed,\* the channel
          extra,     \* stdoutBufferExtra, bufferExtra
          pc,        \* GenericReadX, or the stop of the reader
          kind, buf, inLen, \* the call, its buffer, the length of inBuffer
          ctxDone,   \* the context of the call is done
          taken,     \* bytes that calls took out of the stream
          raised,    \* where, in taken, the bytes went into an exception; the
                     \* others were handed to the callers
          dropped,   \* bytes lost with the end of the stream
          traced,    \* bytes reported to the trace
          res, calls, prepends

peerVars   == <<wire, silent, ended>>
readerVars == <<input, hand, reader>>
consoleVars == <<cancelled, conMsgChecker>>
chanVars   == <<ch, closed>>
callVars   == <<pc, kind, buf, inLen, ctxDone>>
outVars    == <<extra, taken, raised, dropped, traced, res>>
countVars  == <<calls, prepends>>
vars == <<peerVars, readerVars, consoleVars, chanVars, callVars, outVars,
          countVars>>

Calls == CASE Connector = "telnet"  -> {"ReadTo"}
           [] Connector = "ssh"     -> {"ReadTo", "Read"}
           [] Connector = "console" -> {"ReadTo", "Read", "ReadSome", "XRead"}

Results == {"none", "expr", "message", "exception", "size", "eof", "duration",
            "timeout", "panic"}

\* The options of GenericReadX each call sets.
HasExpr(k)     == k \in {"ReadTo", "XRead"}
HasMax(k)      == k \in {"Read", "ReadSome", "XRead"}
HasMin(k)      == k = "ReadSome"
HasDuration(k) == k = "XRead"

Interval(a, b) == [i \in 1..(b - a + 1) |-> a + i - 1]

\* Where an expression matches in a buffer: the ends of its matches.
Matches(b, S) == {i \in 1..Len(b) : b[i] \in S}
\* Mutant of FirstMatch: a greedy match runs to the last one.
LastMatch(b, S) ==
  CHOOSE i \in Matches(b, S) : \A j \in Matches(b, S) : i >= j

FirstMatch(b, S) ==
  CHOOSE i \in Matches(b, S) : \A j \in Matches(b, S) : i <= j

Init ==
  /\ wire = 0 /\ silent = FALSE /\ ended = FALSE
  /\ input = <<>> /\ hand = <<>> /\ reader = "read"
  /\ cancelled = FALSE /\ conMsgChecker = FALSE
  /\ ch = <<>> /\ closed = FALSE /\ extra = <<>>
  /\ pc = "idle" /\ kind = "ReadTo" /\ buf = <<>> /\ inLen = 0
  /\ ctxDone = FALSE
  /\ taken = <<>> /\ raised = {} /\ dropped = <<>> /\ traced = <<>>
  /\ res = "none"
  /\ calls = 0 /\ prepends = 0

---------------------------------------------------------------------------
(* The peer.                                                               *)

PeerSends ==
  /\ ~ended /\ ~silent /\ wire < StreamLen /\ wire' = wire + 1
  /\ UNCHANGED <<silent, ended, readerVars, consoleVars, chanVars, callVars,
                 outVars, countVars>>

PeerCloses ==
  /\ ~ended /\ ended' = TRUE
  /\ UNCHANGED <<wire, silent, readerVars, consoleVars, chanVars, callVars,
                 outVars, countVars>>

\* The peer has said all it had to say, its connection still open.
PeerFallsSilent ==
  /\ ~ended /\ ~silent /\ silent' = TRUE
  /\ UNCHANGED <<wire, ended, readerVars, consoleVars, chanVars, callVars,
                 outVars, countVars>>

---------------------------------------------------------------------------
(* The goroutine: stdoutReader, NetReader, chanReader.                     *)

\* conn.Read returns some of the bytes that have arrived.
ReadChunk ==
  /\ reader = "read" /\ Len(input) < wire
  /\ \E n \in (Len(input) + 1)..wire :
       /\ hand' = Interval(Len(input) + 1, n)
       /\ input' = input \o hand'
  /\ reader' = "send"
  /\ UNCHANGED <<peerVars, consoleVars, chanVars, callVars, outVars,
                 countVars>>

\* buff <- chunk: blocks while the channel is full, whatever the context.
SendChunk ==
  /\ reader = "send" /\ Len(ch) < Cap
  /\ ch' = Append(ch, hand) /\ hand' = <<>> /\ reader' = "read"
  /\ UNCHANGED <<peerVars, input, consoleVars, closed, callVars, outVars,
                 countVars>>

\* conn.Read fails at the end of the stream.  Only the ssh goroutine closes
\* the channel.
ReadFails ==
  /\ reader = "read" /\ ended /\ Len(input) = wire
  /\ reader' = "done" /\ closed' = (Connector = "ssh")
  /\ UNCHANGED <<peerVars, input, hand, consoleVars, ch, callVars, outVars,
                 countVars>>

\* Mutant of ReadDeadline: the context is looked at after an error only.
ReadDeadlineIgnored ==
  /\ Connector = "console" /\ reader = "read" /\ cancelled /\ ended
  /\ reader' = "done"
  /\ UNCHANGED <<peerVars, input, hand, consoleVars, chanVars, callVars,
                 outVars, countVars>>

\* NetReader looks at its context only when a read meets its deadline.
ReadDeadline ==
  /\ Connector = "console" /\ reader = "read" /\ cancelled
  /\ reader' = "done"
  /\ UNCHANGED <<peerVars, input, hand, consoleVars, chanVars, callVars,
                 outVars, countVars>>

---------------------------------------------------------------------------
(* GenericReadX.                                                           *)

Begin ==
  /\ pc = "idle" /\ calls < MaxCalls
  /\ kind' \in Calls /\ buf' = extra /\ inLen' = Len(extra)
  /\ pc' = "top" /\ ctxDone' = FALSE /\ calls' = calls + 1 /\ res' = "none"
  /\ UNCHANGED <<peerVars, readerVars, consoleVars, chanVars, extra, taken,
                 raised, dropped, traced, prepends>>

ContextEnds ==
  /\ pc \notin {"idle", "stop", "stopped"} /\ ~ctxDone /\ ctxDone' = TRUE
  /\ UNCHANGED <<peerVars, readerVars, consoleVars, chanVars, pc, kind, buf,
                 inLen, outVars, countVars>>

\* The call returns: n bytes of the buffer leave the stream, to the caller or
\* into an exception, lost ones go nowhere, the rest is kept; the bytes past
\* inBuffer are traced.
Finish(r, n, rest, lost) ==
  /\ pc' = "idle" /\ res' = r
  /\ taken' = taken \o SubSeq(buf, 1, n)
  /\ extra' = rest /\ dropped' = lost \o dropped
  /\ traced' = traced \o SubSeq(buf, inLen + 1, Len(buf))
  /\ buf' = <<>> /\ inLen' = 0
  /\ UNCHANGED <<kind, ctxDone, consoleVars, peerVars, readerVars, countVars>>

Rest(n) == SubSeq(buf, n + 1, Len(buf))
AtLeast(n) == Len(buf) >= n

\* The size conditions, looked at before the expression.
SizeReached ==
  HasMax(kind) /\ (AtLeast(Size) \/ (HasMin(kind) /\ AtLeast(1)))

\* The top of the loop with a context that is not done.
ReturnSize ==
  /\ pc = "top" /\ ~ctxDone /\ SizeReached
  /\ LET n == IF AtLeast(Size) THEN Size ELSE Len(buf)
     IN Finish("size", n, Rest(n), <<>>)
  /\ UNCHANGED <<chanVars, raised>>

\* console.ReadTo puts regExErrors behind the expression of the caller, in a
\* list of which the first that matches wins.
HasMessage(k) == Connector = "console" /\ k = "ReadTo"

ExprMatches == HasExpr(kind) /\ Matches(buf, Prompts) # {}
MessageMatches == HasMessage(kind) /\ Matches(buf, Messages) # {}

ReturnExpr ==
  /\ pc = "top" /\ ~ctxDone /\ ~SizeReached /\ ExprMatches
  /\ LET n == FirstMatch(buf, Prompts) IN Finish("expr", n, Rest(n), <<>>)
  /\ UNCHANGED <<chanVars, raised>>

\* Mutant of ReturnMessage: regExErrors is the first of the list.
MessageFirst ==
  /\ pc = "top" /\ ~ctxDone /\ ~SizeReached /\ MessageMatches
  /\ LET n == FirstMatch(buf, Messages)
     IN /\ Finish("exception", n, Rest(n), <<>>)
        /\ raised' = raised \cup (Len(taken) + 1)..(Len(taken) + n)
  /\ conMsgChecker /\ UNCHANGED chanVars

\* A message of the console server: until the port is attached the caller
\* gets it as a match of its own, later as a ConsoleException; the bytes
\* before it are in the text of that error only.
ReturnMessage ==
  /\ pc = "top" /\ ~ctxDone /\ ~SizeReached
  /\ MessageMatches /\ ~ExprMatches
  /\ LET n == FirstMatch(buf, Messages)
     IN \/ /\ ~conMsgChecker /\ UNCHANGED raised
           /\ Finish("message", n, Rest(n), <<>>)
        \/ /\ conMsgChecker
           /\ raised' = raised \cup (Len(taken) + 1)..(Len(taken) + n)
           /\ Finish("exception", n, Rest(n), <<>>)
  /\ UNCHANGED chanVars

StartWait ==
  /\ pc = "top" /\ ~ctxDone /\ ~SizeReached /\ ~ExprMatches /\ ~MessageMatches
  /\ pc' = "wait"
  /\ UNCHANGED <<peerVars, readerVars, consoleVars, chanVars, kind, buf, inLen,
                 ctxDone, outVars, countVars>>

\* The peer goes on with text in which nothing matches.  Each chunk of it
\* starts readTimeout anew.  (A call with a size has its bytes after a few.)
TextArrives ==
  /\ pc = "wait" /\ ~HasMax(kind) /\ ch = <<>> /\ ~closed
  /\ ~ended /\ ~silent /\ Len(input) = StreamLen
  /\ pc' = "top"
  /\ UNCHANGED <<peerVars, readerVars, consoleVars, chanVars, kind, buf, inLen,
                 ctxDone, outVars, countVars>>

\* Mutant of GiveUp: the wait ends with the context alone.
GiveUpOnContext ==
  /\ pc \in {"top", "wait"} /\ ctxDone
  /\ pc' = "flush"
  /\ UNCHANGED <<peerVars, readerVars, consoleVars, chanVars, kind, buf, inLen,
                 ctxDone, outVars, countVars>>

\* The context is done, at the top of the loop or in the select, or nothing
\* came for readTimeout: collect what is queued and give it back as the rest.
GiveUp ==
  /\ \/ pc \in {"top", "wait"} /\ ctxDone
     \/ pc = "wait"
  /\ pc' = "flush"
  /\ UNCHANGED <<peerVars, readerVars, consoleVars, chanVars, kind, buf, inLen,
                 ctxDone, outVars, countVars>>

\* A chunk arrives (select), is drained after another one, or is flushed.
TakeChunk ==
  /\ pc \in {"wait", "drain", "flush"} /\ ch # <<>>
  /\ buf' = buf \o Head(ch) /\ ch' = Tail(ch)
  /\ pc' = IF pc = "wait" THEN "drain" ELSE pc
  /\ UNCHANGED <<peerVars, readerVars, consoleVars, closed, kind, inLen,
                 ctxDone, outVars, countVars>>

DrainEnds ==
  /\ pc = "drain" /\ ch = <<>> /\ pc' = "top"
  /\ UNCHANGED <<peerVars, readerVars, consoleVars, chanVars, kind, buf, inLen,
                 ctxDone, outVars, countVars>>

FlushEndsKeepsIn ==
  /\ pc = "flush" /\ ch = <<>>
  /\ Finish("timeout", 0, SubSeq(buf, 1, inLen), <<>>)
  /\ UNCHANGED <<chanVars, raised>>

\* The error of a cancelled or starved call; console.Read dereferences the
\* result, which is nil (console.go:1000).
FlushEnds ==
  /\ pc = "flush" /\ ch = <<>>
  /\ Finish(IF Connector = "console" /\ kind = "Read" THEN "panic"
            ELSE "timeout", 0, buf, <<>>)
  /\ UNCHANGED <<chanVars, raised>>

\* The channel is closed and empty.  ssh.Read returns the bytes, ReadTo
\* reports the end of the stream and the connector no longer has them.
ReturnEOF ==
  /\ pc = "wait" /\ ch = <<>> /\ closed
  /\ IF kind = "ReadTo" THEN Finish("eof", 0, <<>>, buf)
     ELSE Finish("eof", Len(buf), <<>>, <<>>)
  /\ UNCHANGED <<chanVars, raised>>

\* XRead: the duration is over, the bytes go to the caller.
ReturnDuration ==
  /\ pc = "wait" /\ HasDuration(kind)
  /\ Finish("duration", Len(buf), <<>>, <<>>)
  /\ UNCHANGED <<chanVars, raised>>

\* Mutant of PrependBuffer: the bytes are appended.
AppendBuffer ==
  /\ pc = "idle" /\ prepends < MaxPrepends /\ taken # <<>> /\ dropped = <<>>
  /\ \E n \in 1..Len(taken) :
       /\ \A i \in n..Len(taken) : i \notin raised
       /\ extra' = extra \o SubSeq(taken, n, Len(taken))
       /\ taken' = SubSeq(taken, 1, n - 1)
  /\ prepends' = prepends + 1
  /\ UNCHANGED <<peerVars, readerVars, consoleVars, chanVars, callVars, raised,
                 dropped, traced, res, calls>>

\* PrependBuffer of the last bytes the caller got, after the last exception.
PrependBuffer ==
  /\ pc = "idle" /\ prepends < MaxPrepends /\ taken # <<>> /\ dropped = <<>>
  /\ \E n \in 1..Len(taken) :
       /\ \A i \in n..Len(taken) : i \notin raised
       /\ extra' = SubSeq(taken, n, Len(taken)) \o extra
       /\ taken' = SubSeq(taken, 1, n - 1)
  /\ prepends' = prepends + 1
  /\ UNCHANGED <<peerVars, readerVars, consoleVars, chanVars, callVars, raised,
                 dropped, traced, res, calls>>

---------------------------------------------------------------------------
(* The console connector: connectConsolePort and stopBufferReader.         *)

\* The last answer of the console server is there.
PortAttached ==
  /\ Connector = "console" /\ pc = "idle" /\ ~conMsgChecker
  /\ conMsgChecker' = TRUE
  /\ UNCHANGED <<peerVars, readerVars, cancelled, chanVars, callVars, outVars,
                 countVars>>

\* The deadline is moved to now, the context cancelled.
StopReader ==
  /\ Connector = "console" /\ pc = "idle"
  /\ cancelled' = TRUE /\ pc' = "stop"
  /\ UNCHANGED <<peerVars, readerVars, conMsgChecker, chanVars, kind, buf,
                 inLen, ctxDone, outVars, countVars>>

\* readerWg.Wait() returns, then the channel is closed.
ReaderStopped ==
  /\ pc = "stop" /\ reader = "done"
  /\ closed' = TRUE /\ pc' = "stopped"
  /\ UNCHANGED <<peerVars, readerVars, consoleVars, ch, kind, buf, inLen,
                 ctxDone, outVars, countVars>>

GenericReadX ==
  \/ ReturnSize \/ ReturnExpr \/ ReturnMessage \/ StartWait \/ GiveUp
  \/ TakeChunk \/ TextArrives \/ DrainEnds \/ FlushEnds \/ ReturnEOF
  \/ ReturnDuration

Goroutine == ReadChunk \/ SendChunk \/ ReadFails \/ ReadDeadline

Next ==
  \/ PeerSends \/ PeerCloses \/ PeerFallsSilent \/ Goroutine
  \/ Begin \/ ContextEnds \/ GenericReadX \/ PrependBuffer
  \/ PortAttached \/ StopReader \/ ReaderStopped

Spec == Init /\ [][Next]_vars

\* The goroutine runs, the timers of a call fire and its loops advance.
FairSpec ==
  /\ Spec /\ WF_vars(Goroutine) /\ WF_vars(GenericReadX)
  /\ WF_vars(ReaderStopped)

---------------------------------------------------------------------------

Flat == FlattenSeq(ch)

\* Types, and the bounds of the channel and of the counters.
TypeOK ==
  /\ wire \in 0..StreamLen /\ silent \in BOOLEAN /\ ended \in BOOLEAN
  /\ cancelled \in BOOLEAN /\ conMsgChecker \in BOOLEAN
  /\ reader \in {"read", "send", "done"} /\ closed \in BOOLEAN
  /\ Len(ch) <= Cap /\ ctxDone \in BOOLEAN
  /\ pc \in {"idle", "top", "wait", "drain", "flush", "stop", "stopped"}
  /\ kind \in Calls \cup {"ReadTo"} /\ res \in Results
  /\ \A s \in {input, hand, extra, buf, taken, dropped, traced, Flat} :
       s \in Seq(1..StreamLen)

\* GenericReadX and the goroutine together lose, duplicate and reorder
\* nothing: what calls took out of the stream, what the call or the connector
\* holds, what is queued and what the goroutine has in hand are the bytes
\* read, in order.  This includes the returns by context, timeout, duration
\* and exception.
NothingLost ==
  taken \o (IF pc \in {"idle", "stop", "stopped"} THEN extra ELSE buf)
        \o dropped \o Flat \o hand = Interval(1, Len(input))

\* What was taken and not handed to a caller is a message of the console
\* server with the text before it, up to the end of the message, and no
\* prompt of the caller is lost with it; it happens on an attached port only,
\* and what an exception took is not read again.
OnlyMessagesRaised ==
  /\ raised # {} => conMsgChecker
  /\ raised \subseteq 1..Len(taken)
  /\ \A i \in raised :
       /\ taken[i] \notin Prompts
       /\ \E m \in i..Len(taken) :
            taken[m] \in Messages /\ i..m \subseteq raised

\* The trace reports every byte once, although PrependBuffer and the rest of
\* earlier calls make GenericReadX see bytes again.
TracedOnce ==
  traced \o SubSeq(buf, inLen + 1, Len(buf)) \o Flat \o hand
    = Interval(1, Len(input))

\* Bytes are dropped only by ReadTo at the end of a closed stream, when
\* nothing is left to come.
DropsOnlyAtEnd ==
  dropped # <<>> => closed /\ Flat \o hand = <<>> /\ Len(input) = wire

\* Nobody sends on a closed channel (it would panic): the reader is gone
\* before the channel is closed.
NoSendOnClosed == closed => reader = "done"

\* A ReadTo that succeeds hands out the bytes up to the first prompt after
\* those handed out before, however the prompts fall into chunks and calls.
\* The console's may end at a message while the port is not attached, but
\* not behind a prompt.
StopsAtFirstPrompt ==
  [][(res' \in {"expr", "message"} /\ res = "none" /\ kind = "ReadTo") =>
       /\ Len(taken') > Len(taken)
       /\ Last(taken') \in (IF res' = "expr" THEN Prompts ELSE Messages)
       /\ \A i \in (Len(taken) + 1)..(Len(taken') - 1) :
            taken[i]' \notin Prompts
    ]_vars

\* Every call returns when the peer falls silent or is gone, by the read
\* timeout, and when its context ends while the peer goes on talking.  (A
\* ReadTo without a deadline lasts as long as a peer talks without a prompt.)
CallsEnd ==
  (pc = "top" /\ (silent \/ ended \/ ctxDone)) ~> (pc = "idle")

\* stopBufferReader returns unless the goroutine is stuck in its send to a
\* full channel, which nobody reads any more.
StopEndsUnlessFull ==
  (pc = "stop") ~> (pc = "stopped" \/ (reader = "send" /\ Len(ch) = Cap))

\* A failed read is reported: "Returns error if nothing was read during
\* readTimeout or ctx was Done" (streamer.go:292).
FailureIsReported == res # "panic"

\* What calls take is what ByteFifo promises.
Fifo == INSTANCE ByteFifo WITH output <- taken
ImplementsFifo == Fifo!Spec
=============================================================================
