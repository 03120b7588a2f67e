---------------------------- MODULE StreamsProofs ----------------------------
(***************************************************************************)
(* The theorems about the reading sides of the connectors.                 *)
(***************************************************************************)
EXTENDS MCStreams, SequencesExt, DataLemmas

---------------------------------------------------------------------------
(* The inductive invariant.                                                *)

Bytes(a, b) == [i \in 1..(b - a + 1) |-> a + i - 1]
Stream == Seq(1..StreamLen)
Readers == {"telnet", "ssh", "console"}

(* What the goroutine of either module has read, and what it holds. *)
HasRead ==
  /\ wire \in 0..StreamLen /\ ended \in BOOLEAN /\ cancelled \in BOOLEAN
  /\ input = Bytes(1, Len(input)) /\ input \in Stream /\ Len(input) <= wire
  /\ hand \in Stream

(* The types of StreamReader. *)
ReaderTypes ==
  /\ reader \in {"read", "send", "done"}
  /\ ch \in Seq(Stream) /\ Len(ch) <= Cap /\ closed \in BOOLEAN
  /\ pc \in {"idle", "top", "wait", "drain", "flush", "stop", "stopped"}
  /\ kind \in Console!Calls /\ ctxDone \in BOOLEAN /\ res \in Console!Results
  /\ buf \in Stream /\ inLen \in 0..Len(buf)
  /\ extra \in Stream /\ taken \in Stream /\ dropped \in Stream
  /\ traced \in Stream
  /\ silent \in BOOLEAN /\ conMsgChecker \in BOOLEAN

(* Each connector makes its own calls, and the console's has a port. *)
CallsOfPart ==
  /\ part = "telnet" => kind \in Telnet!Calls
  /\ part = "ssh" => kind \in Ssh!Calls
  /\ part = "rfc2217" => kind = "ReadTo"
  /\ part # "console" => conMsgChecker = FALSE

(* What an exception took: pieces that end in a message and hold no prompt. *)
RaisedInv ==
  /\ raised # {} => conMsgChecker
  /\ raised \subseteq 1..Len(taken)
  /\ \A i \in raised :
       /\ taken[i] \notin Prompts
       /\ \E m \in i..Len(taken) :
            taken[m] \in Messages /\ i..m \subseteq raised

Resting == pc \in {"idle", "stop", "stopped"}
Held == IF Resting THEN extra ELSE buf
Fresh == SubSeq(buf, inLen + 1, Len(buf))

(* What is on this side of the channel, for the callers and for the trace;
   the channel and the goroutine have the rest of what was read. *)
CallSide == (taken \o Held) \o dropped
TraceSide == traced \o Fresh
Behind ==
  /\ (CallSide \o FlattenSeq(ch)) \o hand = Bytes(1, Len(input))
  /\ (TraceSide \o FlattenSeq(ch)) \o hand = Bytes(1, Len(input))

(* Where the bytes are, how the channel is closed, when bytes are dropped. *)
ReaderInv ==
  /\ HasRead /\ ReaderTypes
  /\ reader # "send" => hand = <<>>
  /\ Resting => buf = <<>> /\ inLen = 0
  /\ Behind
  /\ closed => /\ reader = "done"
               /\ pc = "stopped" \/ (ended /\ Len(input) = wire)
  /\ dropped # <<>> => closed /\ ch = <<>> /\ ended /\ Len(input) = wire

ReaderRests ==
  /\ reader = "read" /\ ch = <<>> /\ closed = FALSE /\ pc = "idle"
  /\ buf = <<>> /\ inLen = 0 /\ extra = <<>> /\ taken = <<>>
  /\ dropped = <<>> /\ res = "none"

(* The same of the pipeline: two queues, and a channel that is closed when
   both goroutines are through. *)
PipelineTypes ==
  /\ rd \in {"read", "send", "wait", "done"}
  /\ tmp \in Seq(Stream) /\ Len(tmp) <= TmpCap /\ tmpClosed \in BOOLEAN
  /\ buffer \in Stream /\ agg \in {"select", "flush", "last", "done"}
  /\ out \in Seq(Stream) /\ Len(out) <= OutCap /\ outClosed \in BOOLEAN
  /\ output \in Stream

(* How far the goroutines are, and what each has left behind. *)
PipelineFlags ==
  /\ rd # "send" => hand = <<>>
  /\ tmpClosed <=> rd \in {"wait", "done"}
  /\ tmpClosed => ended /\ Len(input) = wire
  /\ agg \in {"last", "done"} => cancelled \/ (tmp = <<>> /\ tmpClosed)
  /\ agg = "done" => buffer = <<>>
  /\ rd = "done" => agg = "done"
  /\ outClosed => rd = "done"

PipelineInv ==
  /\ HasRead /\ PipelineTypes
  /\ (((output \o FlattenSeq(out)) \o buffer) \o FlattenSeq(tmp)) \o hand
       = Bytes(1, Len(input))
  /\ PipelineFlags

PipelineRests ==
  /\ rd = "read" /\ tmp = <<>> /\ tmpClosed = FALSE /\ buffer = <<>>
  /\ agg = "select" /\ out = <<>> /\ outClosed = FALSE /\ output = <<>>

PartsInv ==
  /\ part \in Readers \cup {"pipeline", "rfc2217"}
  /\ CallsOfPart
  /\ part # "pipeline" => ReaderInv /\ PipelineRests
  /\ part = "pipeline" => PipelineInv /\ ReaderRests

---------------------------------------------------------------------------
(* The bytes of the stream.                                                *)

LEMMA BytesType ==
  ASSUME NEW a \in Nat \ {0}, NEW b \in Nat, a <= b + 1, b <= StreamLen
  PROVE  /\ Bytes(a, b) \in Stream /\ Len(Bytes(a, b)) = b - a + 1
         /\ \A i \in 1..(b - a + 1) : Bytes(a, b)[i] = a + i - 1
<1> DEFINE n == b - a + 1
<1>1. n \in Nat /\ StreamLen \in Nat
  BY MCStreamsAssumption
<1>2. \A i \in 1..n : a + i - 1 \in 1..StreamLen
  BY <1>1
<1>3. Bytes(a, b) = [i \in 1..n |-> a + i - 1]
  BY DEF Bytes
<1> HIDE DEF n
<1>4. Bytes(a, b) \in [1..n -> 1..StreamLen]
  BY <1>2, <1>3
<1>5. Bytes(a, b) \in Stream /\ Len(Bytes(a, b)) = n
  BY <1>1, <1>4, LenProperties DEF Stream
<1> QED BY <1>3, <1>5 DEF n

(* A piece of the stream continues what was read before. *)
LEMMA BytesJoin ==
  ASSUME NEW m \in Nat, NEW n \in Nat, m <= n, n <= StreamLen
  PROVE  Bytes(1, m) \o Bytes(m + 1, n) = Bytes(1, n)
<1> DEFINE a == Bytes(1, m)
           b == Bytes(m + 1, n)
           c == Bytes(1, n)
<1>1. StreamLen \in Nat
  BY MCStreamsAssumption
<1>2. /\ a \in Stream /\ Len(a) = m /\ \A i \in 1..m : a[i] = i
  <2>1. 1 \in Nat \ {0} /\ 1 <= m + 1 /\ m <= StreamLen /\ m - 1 + 1 = m
    BY <1>1
  <2>2. /\ a \in Stream /\ Len(a) = m - 1 + 1
        /\ \A i \in 1..(m - 1 + 1) : a[i] = 1 + i - 1
    BY <2>1, BytesType
  <2> QED BY <2>1, <2>2
<1>3. /\ b \in Stream /\ Len(b) = n - m
      /\ \A i \in 1..(n - m) : b[i] = m + i
  <2>1. m + 1 \in Nat \ {0} /\ m + 1 <= n + 1 /\ n - (m + 1) + 1 = n - m
    OBVIOUS
  <2>2. /\ b \in Stream /\ Len(b) = n - (m + 1) + 1
        /\ \A i \in 1..(n - (m + 1) + 1) : b[i] = (m + 1) + i - 1
    BY <2>1, BytesType
  <2> QED BY <2>1, <2>2
<1>4. /\ c \in Stream /\ Len(c) = n /\ \A i \in 1..n : c[i] = i
  <2>1. 1 \in Nat \ {0} /\ 1 <= n + 1 /\ n - 1 + 1 = n
    OBVIOUS
  <2>2. /\ c \in Stream /\ Len(c) = n - 1 + 1
        /\ \A i \in 1..(n - 1 + 1) : c[i] = 1 + i - 1
    BY <2>1, BytesType
  <2> QED BY <2>1, <2>2
<1> HIDE DEF a, b, c
<1>5. /\ a \o b \in Stream /\ Len(a \o b) = Len(a) + Len(b)
      /\ \A j \in 1..Len(a) : (a \o b)[j] = a[j]
      /\ \A j \in (Len(a) + 1)..(Len(a) + Len(b)) :
           (a \o b)[j] = b[j - Len(a)]
  <2>1. a \in Seq(1..StreamLen) /\ b \in Seq(1..StreamLen)
    BY <1>2, <1>3 DEF Stream
  <2> QED BY ONLY <2>1, Joined, Zenon DEF Stream
<1>6. Len(a \o b) = n
  BY <1>2, <1>3, <1>5
<1>7. ASSUME NEW i \in 1..n PROVE (a \o b)[i] = i
  <2>1. CASE i <= m
    <3>1. i \in 1..m
      BY <2>1
    <3> QED BY <3>1, <1>2, <1>5
  <2>2. CASE i > m
    <3>1. i \in (m + 1)..(m + (n - m))
      BY <2>2
    <3>2. i - m \in 1..(n - m)
      BY <2>2
    <3>3. m + (i - m) = i
      OBVIOUS
    <3> QED BY <3>1, <3>2, <3>3, <1>2, <1>3, <1>5
  <2>3. i <= m \/ i > m
    OBVIOUS
  <2> QED BY <2>1, <2>2, <2>3, Zenon
<1>8. a \o b = c
  BY <1>4, <1>5, <1>6, <1>7, SeqEqual DEF Stream
<1> QED BY <1>8 DEF a, b, c

(* The modules have their own names for the same things. *)
LEMMA Names ==
  /\ Telnet!Flat = FlattenSeq(ch) /\ Ssh!Flat = FlattenSeq(ch)
  /\ Console!Flat = FlattenSeq(ch)
  /\ Pipeline!Flat(out) = FlattenSeq(out)
  /\ Pipeline!Flat(tmp) = FlattenSeq(tmp)
  /\ \A a, b : /\ Telnet!Interval(a, b) = Bytes(a, b)
               /\ Console!Interval(a, b) = Bytes(a, b)
               /\ Pipeline!Interval(a, b) = Bytes(a, b)
BY DEF Telnet!Flat, Telnet!FlattenSeq, Ssh!Flat, Ssh!FlattenSeq,
   Console!Flat, Console!FlattenSeq, Pipeline!Flat, Pipeline!FlattenSeq,
   FlattenSeq, Telnet!Interval, Console!Interval, Pipeline!Interval, Bytes

---------------------------------------------------------------------------
(* The steps of the three connectors.  Console has them all, but for the   *)
(* way in which the others end a read that fails, and wait where the       *)
(* console's has a message.                                                *)

ConnectorStep ==
  Console!Next \/ Ssh!ReadFails \/ Ssh!FlushEnds \/ Ssh!StartWait

(* What the telnet connector does, one of the others does too. *)
LEMMA TelnetSteps ==
  ASSUME Telnet!Next
  PROVE  ConnectorStep
<1> USE DEF Telnet!consoleVars, Console!consoleVars, Telnet!HasMessage,
      Telnet!ExprMatches, Console!ExprMatches, Telnet!MessageMatches,
      Telnet!peerVars, Console!peerVars, Telnet!readerVars,
      Console!readerVars, Telnet!chanVars, Console!chanVars, Telnet!callVars,
      Console!callVars, Telnet!outVars, Console!outVars, Telnet!countVars,
      Console!countVars, Telnet!Finish, Console!Finish, Telnet!Rest,
      Console!Rest, Telnet!AtLeast, Console!AtLeast, Telnet!SizeReached,
      Console!SizeReached, Telnet!HasExpr, Console!HasExpr, Telnet!HasMax,
      Console!HasMax, Telnet!HasMin, Console!HasMin, Telnet!HasDuration,
      Console!HasDuration, Telnet!Matches, Console!Matches, Telnet!FirstMatch,
      Console!FirstMatch, Telnet!Interval, Console!Interval, Telnet!Calls,
      Console!Calls, Ssh!consoleVars, Ssh!ExprMatches, Ssh!MessageMatches,
      Ssh!HasMessage, Ssh!SizeReached, Ssh!HasMax, Ssh!HasMin, Ssh!AtLeast,
      Ssh!HasExpr, Ssh!Matches, Ssh!peerVars, Ssh!readerVars,
      Ssh!chanVars, Ssh!callVars,
      Ssh!outVars, Ssh!countVars, Ssh!Finish
<1>1. Telnet!PeerSends => Console!PeerSends
  BY DEF Telnet!PeerSends, Console!PeerSends
<1>2. Telnet!PeerCloses => Console!PeerCloses
  BY DEF Telnet!PeerCloses, Console!PeerCloses
<1>3. Telnet!ReadChunk => Console!ReadChunk
  BY DEF Telnet!ReadChunk, Console!ReadChunk
<1>4. Telnet!SendChunk => Console!SendChunk
  BY DEF Telnet!SendChunk, Console!SendChunk
<1>5. Telnet!ReadFails => Console!ReadFails
  BY DEF Telnet!ReadFails, Console!ReadFails
<1>6. Telnet!ReadDeadline => Console!ReadDeadline
  BY DEF Telnet!ReadDeadline, Console!ReadDeadline
<1>7. Telnet!Begin => Console!Begin
  BY DEF Telnet!Begin, Console!Begin
<1>8. Telnet!ContextEnds => Console!ContextEnds
  BY DEF Telnet!ContextEnds, Console!ContextEnds
<1>9. Telnet!ReturnSize => Console!ReturnSize
  BY DEF Telnet!ReturnSize, Console!ReturnSize
<1>10. Telnet!ReturnExpr => Console!ReturnExpr
  BY DEF Telnet!ReturnExpr, Console!ReturnExpr
<1>11. Telnet!StartWait => Ssh!StartWait
  BY DEF Telnet!StartWait, Ssh!StartWait
<1>12. Telnet!GiveUp => Console!GiveUp
  BY DEF Telnet!GiveUp, Console!GiveUp
<1>13. Telnet!TakeChunk => Console!TakeChunk
  BY DEF Telnet!TakeChunk, Console!TakeChunk
<1>14. Telnet!DrainEnds => Console!DrainEnds
  BY DEF Telnet!DrainEnds, Console!DrainEnds
<1>15. Telnet!FlushEnds => Ssh!FlushEnds
  BY DEF Telnet!FlushEnds, Ssh!FlushEnds
<1>16. Telnet!ReturnEOF => Console!ReturnEOF
  BY DEF Telnet!ReturnEOF, Console!ReturnEOF
<1>17. Telnet!ReturnDuration => Console!ReturnDuration
  BY DEF Telnet!ReturnDuration, Console!ReturnDuration
<1>18. Telnet!PrependBuffer => Console!PrependBuffer
  BY DEF Telnet!PrependBuffer, Console!PrependBuffer
<1>19. Telnet!StopReader => Console!StopReader
  BY DEF Telnet!StopReader, Console!StopReader
<1>20. Telnet!ReaderStopped => Console!ReaderStopped
  BY DEF Telnet!ReaderStopped, Console!ReaderStopped
<1>21. Telnet!PeerFallsSilent => Console!PeerFallsSilent
  BY DEF Telnet!PeerFallsSilent, Console!PeerFallsSilent
<1>22. Telnet!TextArrives => Console!TextArrives
  BY DEF Telnet!TextArrives, Console!TextArrives
<1>23. Telnet!ReturnMessage => FALSE
  BY DEF Telnet!ReturnMessage
<1>24. Telnet!PortAttached => FALSE
  BY DEF Telnet!PortAttached
<1> QED
  BY <1>1, <1>2, <1>3, <1>4, <1>5, <1>6, <1>7, <1>8, <1>9, <1>10,
     <1>11, <1>12, <1>13, <1>14, <1>15, <1>16, <1>17, <1>18, <1>19, <1>20,
     <1>21, <1>22, <1>23, <1>24, Zenon
  DEF Telnet!Next, Telnet!Goroutine, Telnet!GenericReadX, Console!Next,
      Console!Goroutine, Console!GenericReadX, ConnectorStep

(* The calls it makes are its own. *)
LEMMA TelnetCallsOnly ==
  ASSUME Telnet!Next
  PROVE  /\ kind' = kind \/ kind' \in Telnet!Calls
         /\ conMsgChecker' = conMsgChecker
BY DEF Telnet!Next, Telnet!Goroutine, Telnet!GenericReadX, Telnet!PeerSends,
   Telnet!PeerFallsSilent, Telnet!TextArrives, Telnet!ReturnMessage,
   Telnet!HasMessage, Telnet!MessageMatches, Telnet!PortAttached,
   Telnet!consoleVars,
   Telnet!PeerCloses, Telnet!ReadChunk, Telnet!SendChunk, Telnet!ReadFails,
   Telnet!ReadDeadline, Telnet!Begin, Telnet!ContextEnds, Telnet!ReturnSize,
   Telnet!ReturnExpr, Telnet!StartWait, Telnet!GiveUp, Telnet!TakeChunk,
   Telnet!DrainEnds, Telnet!FlushEnds, Telnet!ReturnEOF, Telnet!ReturnDuration,
   Telnet!PrependBuffer, Telnet!StopReader, Telnet!ReaderStopped,
   Telnet!peerVars, Telnet!readerVars, Telnet!chanVars, Telnet!callVars,
   Telnet!outVars, Telnet!countVars, Telnet!Finish

(* What the ssh connector does, one of the others does too. *)
LEMMA SshSteps ==
  ASSUME Ssh!Next
  PROVE  ConnectorStep
<1> USE DEF Ssh!consoleVars, Console!consoleVars, Ssh!HasMessage,
      Ssh!ExprMatches, Console!ExprMatches, Ssh!MessageMatches,
      Ssh!peerVars, Console!peerVars, Ssh!readerVars, Console!readerVars,
      Ssh!chanVars, Console!chanVars, Ssh!callVars, Console!callVars,
      Ssh!outVars, Console!outVars, Ssh!countVars, Console!countVars,
      Ssh!Finish, Console!Finish, Ssh!Rest, Console!Rest, Ssh!AtLeast,
      Console!AtLeast, Ssh!SizeReached, Console!SizeReached, Ssh!HasExpr,
      Console!HasExpr, Ssh!HasMax, Console!HasMax, Ssh!HasMin, Console!HasMin,
      Ssh!HasDuration, Console!HasDuration, Ssh!Matches, Console!Matches,
      Ssh!FirstMatch, Console!FirstMatch, Ssh!Interval, Console!Interval,
      Ssh!Calls, Console!Calls
<1>1. Ssh!PeerSends => Console!PeerSends
  BY DEF Ssh!PeerSends, Console!PeerSends
<1>2. Ssh!PeerCloses => Console!PeerCloses
  BY DEF Ssh!PeerCloses, Console!PeerCloses
<1>3. Ssh!ReadChunk => Console!ReadChunk
  BY DEF Ssh!ReadChunk, Console!ReadChunk
<1>4. Ssh!SendChunk => Console!SendChunk
  BY DEF Ssh!SendChunk, Console!SendChunk
<1>5. Ssh!ReadDeadline => Console!ReadDeadline
  BY DEF Ssh!ReadDeadline, Console!ReadDeadline
<1>6. Ssh!Begin => Console!Begin
  BY DEF Ssh!Begin, Console!Begin
<1>7. Ssh!ContextEnds => Console!ContextEnds
  BY DEF Ssh!ContextEnds, Console!ContextEnds
<1>8. Ssh!ReturnSize => Console!ReturnSize
  BY DEF Ssh!ReturnSize, Console!ReturnSize
<1>9. Ssh!ReturnExpr => Console!ReturnExpr
  BY DEF Ssh!ReturnExpr, Console!ReturnExpr
<1>11. Ssh!GiveUp => Console!GiveUp
  BY DEF Ssh!GiveUp, Console!GiveUp
<1>12. Ssh!TakeChunk => Console!TakeChunk
  BY DEF Ssh!TakeChunk, Console!TakeChunk
<1>13. Ssh!DrainEnds => Console!DrainEnds
  BY DEF Ssh!DrainEnds, Console!DrainEnds
<1>14. Ssh!ReturnEOF => Console!ReturnEOF
  BY DEF Ssh!ReturnEOF, Console!ReturnEOF
<1>15. Ssh!ReturnDuration => Console!ReturnDuration
  BY DEF Ssh!ReturnDuration, Console!ReturnDuration
<1>16. Ssh!PrependBuffer => Console!PrependBuffer
  BY DEF Ssh!PrependBuffer, Console!PrependBuffer
<1>17. Ssh!StopReader => Console!StopReader
  BY DEF Ssh!StopReader, Console!StopReader
<1>18. Ssh!ReaderStopped => Console!ReaderStopped
  BY DEF Ssh!ReaderStopped, Console!ReaderStopped
<1>19. Ssh!PeerFallsSilent => Console!PeerFallsSilent
  BY DEF Ssh!PeerFallsSilent, Console!PeerFallsSilent
<1>20. Ssh!TextArrives => Console!TextArrives
  BY DEF Ssh!TextArrives, Console!TextArrives
<1>21. Ssh!ReturnMessage => FALSE
  BY DEF Ssh!ReturnMessage
<1>22. Ssh!PortAttached => FALSE
  BY DEF Ssh!PortAttached
<1> QED
  BY <1>1, <1>2, <1>3, <1>4, <1>5, <1>6, <1>7, <1>8, <1>9,
     <1>11, <1>12, <1>13, <1>14, <1>15, <1>16, <1>17, <1>18, <1>19, <1>20,
     <1>21, <1>22, Zenon
  DEF Ssh!Next, Ssh!Goroutine, Ssh!GenericReadX, Console!Next,
      Console!Goroutine, Console!GenericReadX, ConnectorStep

(* The calls it makes are its own. *)
LEMMA SshCallsOnly ==
  ASSUME Ssh!Next
  PROVE  /\ kind' = kind \/ kind' \in Ssh!Calls
         /\ conMsgChecker' = conMsgChecker
BY DEF Ssh!Next, Ssh!Goroutine, Ssh!GenericReadX, Ssh!PeerSends,
   Ssh!PeerFallsSilent, Ssh!TextArrives, Ssh!ReturnMessage,
   Ssh!HasMessage, Ssh!MessageMatches, Ssh!PortAttached,
   Ssh!consoleVars,
   Ssh!PeerCloses, Ssh!ReadChunk, Ssh!SendChunk, Ssh!ReadFails,
   Ssh!ReadDeadline, Ssh!Begin, Ssh!ContextEnds, Ssh!ReturnSize,
   Ssh!ReturnExpr, Ssh!StartWait, Ssh!GiveUp,
   Ssh!TakeChunk, Ssh!DrainEnds, Ssh!FlushEnds, Ssh!ReturnEOF,
   Ssh!ReturnDuration, Ssh!PrependBuffer, Ssh!StopReader, Ssh!ReaderStopped,
   Ssh!peerVars, Ssh!readerVars, Ssh!chanVars, Ssh!callVars, Ssh!outVars,
   Ssh!countVars, Ssh!Finish

---------------------------------------------------------------------------
(* Chunks on their way: q is the channel, h the chunk in hand, front what  *)
(* was taken out of the channel.                                           *)

LEMMA ChunkRead ==
  ASSUME NEW front \in Stream, NEW q \in Seq(Stream),
         NEW m \in Nat, NEW n \in Nat, m <= n, n <= StreamLen,
         (front \o FlattenSeq(q)) \o <<>> = Bytes(1, m)
  PROVE  (front \o FlattenSeq(q)) \o Bytes(m + 1, n) = Bytes(1, n)
<1> DEFINE f == front \o FlattenSeq(q)
<1>1. FlattenSeq(q) \in Stream
  BY FlattenType DEF Stream
<1>2. f \in Stream
  BY <1>1, ConcatProperties DEF Stream
<1> HIDE DEF f
<1>3. f \o <<>> = f
  BY <1>2, ConcatEmptySeq DEF Stream
<1> QED BY <1>3, BytesJoin DEF f

LEMMA ChunkSent ==
  ASSUME NEW front \in Stream, NEW q \in Seq(Stream), NEW h \in Stream
  PROVE  (front \o FlattenSeq(Append(q, h))) \o <<>>
           = (front \o FlattenSeq(q)) \o h
<1> DEFINE f == FlattenSeq(q)
<1>1. f \in Stream /\ FlattenSeq(Append(q, h)) = f \o h
  BY FlattenAppend DEF Stream
<1> HIDE DEF f
<1>2. (front \o (f \o h)) \o <<>> = (front \o f) \o h
  <2>1. /\ front \in Seq(1..StreamLen) /\ f \in Seq(1..StreamLen)
        /\ h \in Seq(1..StreamLen)
    BY <1>1 DEF Stream
  <2>2. /\ (front \o f) \o h = front \o (f \o h)
        /\ (front \o f) \o h \in Seq(1..StreamLen)
    BY ONLY <2>1
  <2> QED BY <2>2, ConcatEmptySeq, Zenon
<1> QED BY <1>1, <1>2 DEF f

LEMMA ChunkTaken ==
  ASSUME NEW front \in Stream, NEW q \in Seq(Stream), q # <<>>,
         NEW h \in Stream
  PROVE  /\ Head(q) \in Stream /\ Tail(q) \in Seq(Stream)
         /\ Len(Tail(q)) = Len(q) - 1
         /\ front \o Head(q) \in Stream
         /\ ((front \o Head(q)) \o FlattenSeq(Tail(q))) \o h
              = (front \o FlattenSeq(q)) \o h
<1> DEFINE a == Head(q)
           b == FlattenSeq(Tail(q))
<1>1. /\ a \in Stream /\ b \in Stream /\ Tail(q) \in Seq(Stream)
      /\ FlattenSeq(q) = a \o b
  BY FlattenTail DEF Stream
<1>2. Len(Tail(q)) = Len(q) - 1
  BY HeadTailProperties
<1> HIDE DEF a, b
<1>3. front \o a \in Stream
  BY <1>1, ConcatProperties DEF Stream
<1>4. (front \o a) \o b = front \o (a \o b)
  BY ONLY front \in Stream, <1>1, SMTT(30) DEF Stream
<1> QED BY <1>1, <1>2, <1>3, <1>4 DEF a, b

---------------------------------------------------------------------------
(* What the goroutine of a connector and its peer do to the stream.        *)

LEMMA SideTypes ==
  ASSUME HasRead, ReaderTypes
  PROVE  /\ Held \in Stream /\ Fresh \in Stream
         /\ CallSide \in Stream /\ TraceSide \in Stream
<1>1. Held \in Stream
  BY DEF ReaderTypes, Held
<1>2. Fresh \in Stream
  BY CutJoined, EmptySeq DEF ReaderTypes, Fresh, Stream
<1>3. taken \in Stream /\ dropped \in Stream /\ traced \in Stream
  BY DEF ReaderTypes
<1>4. taken \o Held \in Stream
  BY <1>1, <1>3, ConcatProperties DEF Stream
<1>5. CallSide \in Stream
  BY <1>3, <1>4, ConcatProperties DEF CallSide, Stream
<1>6. TraceSide \in Stream
  BY <1>2, <1>3, ConcatProperties DEF TraceSide, Stream
<1> QED BY <1>1, <1>2, <1>5, <1>6

callSide == <<pc, kind, buf, inLen, ctxDone, extra, taken, raised, dropped,
              traced, res, conMsgChecker>>

LEMMA SidesKept ==
  ASSUME UNCHANGED callSide
  PROVE  /\ CallSide' = CallSide /\ TraceSide' = TraceSide
         /\ Resting' = Resting
BY DEF callSide, CallSide, TraceSide, Held, Fresh, Resting

(* A chunk is read: the stream as read grows by it. *)
LEMMA ReadGrows ==
  ASSUME HasRead, NEW n \in (Len(input) + 1)..wire,
         hand' = Bytes(Len(input) + 1, n), input' = input \o hand',
         UNCHANGED <<wire, ended, cancelled>>
  PROVE  /\ HasRead' /\ Len(input) \in Nat /\ n \in Nat
         /\ Len(input) <= n /\ n <= StreamLen
         /\ Len(input') = n /\ input' = Bytes(1, n)
<1> DEFINE m == Len(input)
<1>1. /\ m \in Nat /\ n \in Nat /\ m + 1 <= n /\ n <= wire
      /\ wire \in 0..StreamLen /\ StreamLen \in Nat /\ n <= StreamLen
      /\ m + 1 \in Nat \ {0} /\ m + 1 <= n + 1 /\ m <= n
      /\ input = Bytes(1, m)
  BY LenProperties, MCStreamsAssumption DEF HasRead, Stream
<1> HIDE DEF m
<1>2. hand' \in Stream
  BY <1>1, BytesType DEF m
<1>3. input' = Bytes(1, n)
  BY <1>1, BytesJoin DEF m
<1>4. Bytes(1, n) \in Stream /\ Len(Bytes(1, n)) = n
  <2>1. 1 \in Nat \ {0} /\ 1 <= n + 1 /\ n - 1 + 1 = n
    BY <1>1
  <2> QED BY <2>1, <1>1, BytesType
<1>5. HasRead'
  BY <1>1, <1>2, <1>3, <1>4 DEF HasRead
<1> QED BY <1>1, <1>3, <1>4, <1>5 DEF m

LEMMA PeerSendsKeeps ==
  ASSUME ReaderInv, Console!PeerSends
  PROVE  ReaderInv'
<1> USE DEF Console!PeerSends, Console!readerVars, Console!chanVars,
      Console!consoleVars,
      Console!callVars, Console!outVars, Console!countVars
<1>1. HasRead'
  BY MCStreamsAssumption, LenProperties DEF ReaderInv, HasRead, Stream
<1>2. ReaderTypes'
  BY DEF ReaderInv, ReaderTypes
<1>3. UNCHANGED callSide
  BY DEF callSide
<1>4. Behind'
  BY <1>3, SidesKept DEF ReaderInv, Behind
<1> QED BY <1>1, <1>2, <1>3, <1>4, SidesKept DEF ReaderInv, callSide

LEMMA PeerClosesKeeps ==
  ASSUME ReaderInv, Console!PeerCloses
  PROVE  ReaderInv'
<1> USE DEF Console!PeerCloses, Console!readerVars, Console!chanVars,
      Console!consoleVars,
      Console!callVars, Console!outVars, Console!countVars
<1>1. HasRead'
  BY DEF ReaderInv, HasRead
<1>2. ReaderTypes'
  BY DEF ReaderInv, ReaderTypes
<1>3. UNCHANGED callSide
  BY DEF callSide
<1>4. Behind'
  BY <1>3, SidesKept DEF ReaderInv, Behind
<1> QED BY <1>1, <1>2, <1>3, <1>4, SidesKept DEF ReaderInv, callSide

LEMMA PeerFallsSilentKeeps ==
  ASSUME ReaderInv, Console!PeerFallsSilent
  PROVE  ReaderInv'
<1> USE DEF Console!PeerFallsSilent, Console!readerVars, Console!chanVars,
      Console!consoleVars,
      Console!callVars, Console!outVars, Console!countVars
<1>1. HasRead'
  BY DEF ReaderInv, HasRead
<1>2. ReaderTypes'
  BY DEF ReaderInv, ReaderTypes
<1>3. UNCHANGED callSide
  BY DEF callSide
<1>4. Behind'
  BY <1>3, SidesKept DEF ReaderInv, Behind
<1> QED BY <1>1, <1>2, <1>3, <1>4, SidesKept DEF ReaderInv, callSide

LEMMA ReadChunkKeeps ==
  ASSUME ReaderInv, Console!ReadChunk
  PROVE  ReaderInv'
<1> USE DEF Console!ReadChunk, Console!peerVars, Console!chanVars,
      Console!consoleVars,
      Console!callVars, Console!outVars, Console!countVars
<1>1. PICK n \in (Len(input) + 1)..wire :
        hand' = Bytes(Len(input) + 1, n) /\ input' = input \o hand'
  BY Names
<1>2. HasRead
  BY DEF ReaderInv
<1>3. /\ HasRead' /\ Len(input) \in Nat /\ n \in Nat
      /\ Len(input) <= n /\ n <= StreamLen
      /\ Len(input') = n /\ input' = Bytes(1, n)
  BY <1>1, <1>2, ReadGrows
<1>4. ReaderTypes'
  BY DEF ReaderInv, ReaderTypes
<1>5. UNCHANGED callSide
  BY DEF callSide
<1>6. Behind'
  <2>1. /\ CallSide \in Stream /\ TraceSide \in Stream
        /\ ch \in Seq(Stream) /\ hand = <<>>
    BY SideTypes DEF ReaderInv, ReaderTypes
  <2>2. /\ (CallSide \o FlattenSeq(ch)) \o <<>> = Bytes(1, Len(input))
        /\ (TraceSide \o FlattenSeq(ch)) \o <<>> = Bytes(1, Len(input))
    BY <2>1 DEF ReaderInv, Behind
  <2>3. /\ (CallSide \o FlattenSeq(ch)) \o hand' = Bytes(1, n)
        /\ (TraceSide \o FlattenSeq(ch)) \o hand' = Bytes(1, n)
    BY <2>1, <2>2, <1>1, <1>3, ChunkRead
  <2> QED BY <2>3, <1>3, <1>5, SidesKept DEF Behind
<1> QED BY <1>3, <1>4, <1>5, <1>6, SidesKept DEF ReaderInv, callSide

LEMMA SendChunkKeeps ==
  ASSUME ReaderInv, Console!SendChunk
  PROVE  ReaderInv'
<1> USE DEF Console!SendChunk, Console!peerVars, Console!consoleVars,
      Console!callVars, Console!outVars, Console!countVars
<1>1. /\ CallSide \in Stream /\ TraceSide \in Stream
      /\ ch \in Seq(Stream) /\ hand \in Stream
  BY SideTypes DEF ReaderInv, ReaderTypes, HasRead
<1>2. ch' \in Seq(Stream) /\ Len(ch') = Len(ch) + 1 /\ Len(ch) \in Nat
  BY <1>1, AppendProperties, LenProperties
<1>3. HasRead'
  BY EmptySeq DEF ReaderInv, HasRead, Stream
<1>4. ReaderTypes'
  BY <1>2, MCStreamsAssumption DEF ReaderInv, ReaderTypes
<1>5. UNCHANGED callSide
  BY DEF callSide
<1>6. Behind'
  <2>1. /\ ch' = Append(ch, hand) /\ hand' = <<>> /\ input' = input
        /\ CallSide' = CallSide /\ TraceSide' = TraceSide
    BY <1>5, SidesKept
  <2>2. /\ (CallSide \o FlattenSeq(Append(ch, hand))) \o <<>>
             = (CallSide \o FlattenSeq(ch)) \o hand
        /\ (TraceSide \o FlattenSeq(Append(ch, hand))) \o <<>>
             = (TraceSide \o FlattenSeq(ch)) \o hand
    BY ONLY <1>1, ChunkSent, Zenon
  <2>3. Behind
    BY DEF ReaderInv
  <2> QED BY ONLY <2>1, <2>2, <2>3, Zenon DEF Behind
<1> QED BY <1>3, <1>4, <1>5, <1>6, SidesKept DEF ReaderInv, callSide

(* The goroutine ends, and closes the channel if it is the ssh one. *)
LEMMA ReaderEndsKeeps ==
  ASSUME ReaderInv,
         Console!ReadFails \/ Ssh!ReadFails \/ Console!ReadDeadline
  PROVE  ReaderInv'
<1> USE DEF Console!ReadFails, Ssh!ReadFails, Console!ReadDeadline,
      Console!peerVars, Console!callVars, Console!outVars, Console!countVars,
      Ssh!peerVars, Ssh!callVars, Ssh!outVars, Ssh!countVars,
      Console!chanVars, Console!consoleVars, Ssh!consoleVars
<1>1. HasRead'
  BY DEF ReaderInv, HasRead
<1>2. ReaderTypes'
  BY DEF ReaderInv, ReaderTypes
<1>3. UNCHANGED callSide
  BY DEF callSide
<1>4. Behind'
  BY <1>3, SidesKept DEF ReaderInv, Behind
<1>5. closed = FALSE /\ UNCHANGED <<ch, wire, ended, input, hand>>
      /\ reader' = "done" /\ reader # "send"
  BY DEF ReaderInv, ReaderTypes
<1>6. closed' => ended /\ Len(input) = wire
  BY <1>5
<1> QED BY <1>1, <1>2, <1>3, <1>4, <1>5, <1>6, SidesKept
     DEF ReaderInv, callSide

---------------------------------------------------------------------------
(* What a call does.                                                       *)

otherSide == <<wire, silent, ended, cancelled, conMsgChecker, input, hand,
               reader>>

(* A step that leaves the goroutine and the channel alone, and neither
   takes nor loses a byte of what a side has. *)
LEMMA CallKeeps ==
  ASSUME ReaderInv, UNCHANGED <<otherSide, ch, closed>>, ReaderTypes',
         CallSide' = CallSide, TraceSide' = TraceSide,
         pc # "stopped",
         Resting' => buf' = <<>> /\ inLen' = 0,
         dropped' # <<>> =>
           closed /\ ch = <<>> /\ ended /\ Len(input) = wire
  PROVE  ReaderInv'
<1>1. HasRead'
  BY DEF ReaderInv, HasRead, otherSide
<1>2. Behind'
  BY DEF ReaderInv, Behind, otherSide
<1> QED BY <1>1, <1>2 DEF ReaderInv, otherSide

(* A call returns: the first n bytes go to the caller, what is kept and what
   is lost follow them in the buffer. *)
LEMMA FinishKeeps ==
  ASSUME ReaderInv, ~Resting, UNCHANGED <<ch, closed>>,
         NEW r \in Console!Results, NEW n \in 0..Len(buf),
         NEW rest \in Stream, NEW lost \in Stream,
         (SubSeq(buf, 1, n) \o rest) \o lost = buf,
         lost # <<>> => closed /\ ch = <<>> /\ ended /\ Len(input) = wire,
         Console!Finish(r, n, rest, lost)
  PROVE  ReaderInv' /\ taken' = taken \o SubSeq(buf, 1, n)
<1>1. /\ pc' = "idle" /\ res' = r
      /\ taken' = taken \o SubSeq(buf, 1, n)
      /\ extra' = rest /\ dropped' = lost \o dropped
      /\ traced' = traced \o SubSeq(buf, inLen + 1, Len(buf))
      /\ buf' = <<>> /\ inLen' = 0 /\ UNCHANGED <<kind, ctxDone>>
      /\ UNCHANGED otherSide
  BY DEF Console!Finish, Console!peerVars, Console!readerVars,
         Console!consoleVars, Console!countVars, otherSide
<1>2. /\ buf \in Stream /\ taken \in Stream /\ dropped \in Stream
      /\ traced \in Stream /\ Fresh \in Stream
      /\ Held = buf /\ Fresh = SubSeq(buf, inLen + 1, Len(buf))
  BY SideTypes DEF ReaderInv, ReaderTypes, Held, Fresh
<1> DEFINE a == SubSeq(buf, 1, n)
<1>3. a \in Stream
  <2>1. n \in Int /\ n <= Len(buf) /\ 1 \in Nat \ {0}
    BY <1>2, LenProperties DEF Stream
  <2> QED BY <2>1, <1>2, Cut DEF Stream
<1> HIDE DEF a
<1>4. /\ taken \o a \in Stream /\ lost \o dropped \in Stream
      /\ traced \o Fresh \in Stream
  BY <1>2, <1>3, ConcatProperties DEF Stream
<1>5. ReaderTypes'
  <2>1. taken' \in Stream /\ dropped' \in Stream /\ traced' \in Stream
        /\ extra' \in Stream
    BY <1>1, <1>2, <1>4 DEF a
  <2>2. buf' \in Stream /\ inLen' \in 0..Len(buf')
    BY <1>1, EmptySeq DEF Stream
  <2> QED BY <2>1, <2>2, <1>1 DEF ReaderInv, ReaderTypes, otherSide
<1>6. CallSide' = CallSide
  <2>1. CallSide' = ((taken \o a) \o rest) \o (lost \o dropped)
    BY <1>1 DEF CallSide, Held, Resting, a
  <2>2. CallSide = (taken \o ((a \o rest) \o lost)) \o dropped
    BY <1>2 DEF CallSide, a
  <2>3. ((taken \o a) \o rest) \o (lost \o dropped)
          = (taken \o ((a \o rest) \o lost)) \o dropped
    <3> DEFINE x == a \o rest
    <3>1. /\ taken \in Seq(1..StreamLen) /\ dropped \in Seq(1..StreamLen)
          /\ a \in Seq(1..StreamLen)
          /\ rest \in Seq(1..StreamLen) /\ lost \in Seq(1..StreamLen)
      BY <1>2, <1>3 DEF Stream
    <3>2. x \in Seq(1..StreamLen) /\ (taken \o a) \o rest = taken \o x
      BY ONLY <3>1
    <3> HIDE DEF x
    <3>3. /\ taken \o x \in Seq(1..StreamLen)
          /\ (taken \o x) \o lost = taken \o (x \o lost)
      BY ONLY <3>1, <3>2, SMTT(30)
    <3> DEFINE y == taken \o x
    <3>4. y \in Seq(1..StreamLen)
      BY <3>3
    <3> HIDE DEF y
    <3>5. y \o (lost \o dropped) = (y \o lost) \o dropped
      BY ONLY <3>1, <3>4, SMTT(30)
    <3> QED BY <3>2, <3>3, <3>5, Zenon DEF x, y
  <2> QED BY <2>1, <2>2, <2>3, Zenon
<1>7. TraceSide' = TraceSide
  <2>1. Fresh' = <<>>
    BY <1>1 DEF Fresh
  <2>2. TraceSide' = (traced \o Fresh) \o <<>>
    BY <2>1, <1>1, <1>2 DEF TraceSide
  <2> QED BY <2>2, <1>4, ConcatEmptySeq DEF TraceSide, Stream
<1>8. pc # "stopped"
  BY DEF Resting
<1>9. dropped' # <<>> =>
        closed /\ ch = <<>> /\ ended /\ Len(input) = wire
  <2>1. CASE lost = <<>>
    <3>1. dropped' = dropped
      BY <2>1, <1>1, <1>2, ConcatEmptySeq DEF Stream
    <3> QED BY <3>1 DEF ReaderInv
  <2> QED BY <2>1
<1>10. ReaderInv'
  BY <1>1, <1>5, <1>6, <1>7, <1>8, <1>9, CallKeeps
<1> QED BY <1>1, <1>10

(* The parts of a buffer before and after a position. *)
LEMMA Split ==
  ASSUME NEW b \in Stream, NEW n \in 0..Len(b)
  PROVE  /\ SubSeq(b, n + 1, Len(b)) \in Stream
         /\ SubSeq(b, 1, n) \in Stream
         /\ (SubSeq(b, 1, n) \o SubSeq(b, n + 1, Len(b))) \o <<>> = b
<1>1. /\ SubSeq(b, n + 1, Len(b)) \in Stream /\ SubSeq(b, 1, n) \in Stream
      /\ SubSeq(b, 1, n) \o SubSeq(b, n + 1, Len(b)) = b
  BY CutInTwo DEF Stream
<1>2. b \o <<>> = b
  BY ConcatEmptySeq DEF Stream
<1> QED BY <1>1, <1>2

(* The position of a match, the first one. *)
LEMMA FirstMatchFound ==
  ASSUME NEW b \in Stream, NEW S, Console!Matches(b, S) # {}
  PROVE  /\ Console!FirstMatch(b, S) \in 1..Len(b)
         /\ b[Console!FirstMatch(b, S)] \in S
         /\ \A i \in 1..Len(b) :
              i < Console!FirstMatch(b, S) => b[i] \notin S
<1> DEFINE M == Console!Matches(b, S)
<1>1. /\ M \subseteq Nat /\ Len(b) \in Nat
      /\ \A i : i \in M <=> i \in 1..Len(b) /\ b[i] \in S
  BY LenProperties DEF Console!Matches, Stream
<1> HIDE DEF M
<1>2. \E i \in M : \A j \in M : i <= j
  BY <1>1, LeastExists DEF M
<1>3. /\ Console!FirstMatch(b, S) \in M
      /\ \A j \in M : Console!FirstMatch(b, S) <= j
  BY <1>2 DEF Console!FirstMatch, M
<1>4. \A i \in 1..Len(b) : i < Console!FirstMatch(b, S) => i \notin M
  BY <1>1, <1>3
<1> QED BY <1>1, <1>3, <1>4

(* A return hands out the first bytes of the buffer, *)
Delivers ==
  /\ ~Resting /\ UNCHANGED <<input, raised>>
  /\ \E n \in 0..Len(buf) : taken' = taken \o SubSeq(buf, 1, n)

(* or raises an exception in their place. *)
Raises ==
  /\ ~Resting /\ UNCHANGED input /\ conMsgChecker
  /\ \E n \in 1..Len(buf) :
       /\ taken' = taken \o SubSeq(buf, 1, n)
       /\ raised' = raised \cup (Len(taken) + 1)..(Len(taken) + n)
       /\ buf[n] \in Messages
       /\ \A i \in 1..n : buf[i] \notin Prompts

(* The bytes up to a match are what a success hands out. *)
HandedUpTo(n, S) ==
  /\ n \in 1..Len(buf) /\ taken' = taken \o SubSeq(buf, 1, n)
  /\ buf[n] \in S /\ \A i \in 1..Len(buf) : i < n => buf[i] \notin Prompts

Successes == {"expr", "message"}

LEMMA BeginKeeps ==
  ASSUME ReaderInv, Console!Begin
  PROVE  ReaderInv'
<1> USE DEF Console!Begin, Console!peerVars, Console!readerVars,
      Console!consoleVars, Console!chanVars
<1>1. /\ Resting /\ ~Resting' /\ buf = <<>> /\ inLen = 0
      /\ buf' = extra /\ inLen' = Len(extra) /\ extra \in Stream
      /\ Len(extra) \in Nat
  BY LenProperties DEF Resting, ReaderInv, ReaderTypes, Stream
<1>2. ReaderTypes'
  <2>1. buf' \in Stream /\ inLen' \in 0..Len(buf')
    BY <1>1
  <2> QED BY <2>1
       DEF ReaderInv, ReaderTypes, Console!Results
<1>3. CallSide' = CallSide
  BY <1>1 DEF CallSide, Held
<1>4. TraceSide' = TraceSide
  <2>1. Fresh = <<>>
    BY <1>1 DEF Fresh
  <2>2. Fresh' = <<>>
    <3>1. Len(extra) + 1 \in Int /\ Len(extra) \in Int
          /\ Len(extra) < Len(extra) + 1
      BY <1>1
    <3> QED BY <1>1, <3>1, SubSeqEmpty DEF Fresh
  <2> QED BY <2>1, <2>2 DEF TraceSide
<1> QED BY <1>1, <1>2, <1>3, <1>4, CallKeeps DEF otherSide, ReaderInv

(* The steps between the takes of a call. *)
LEMMA WaitingKeeps ==
  ASSUME ReaderInv,
         \/ Console!ContextEnds \/ Console!StartWait \/ Ssh!StartWait
         \/ Console!GiveUp \/ Console!TextArrives \/ Console!DrainEnds
  PROVE  ReaderInv' /\ UNCHANGED <<input, taken, raised, res>>
<1>1. /\ UNCHANGED <<otherSide, ch, closed, kind, buf, inLen>>
      /\ UNCHANGED <<extra, taken, raised, dropped, traced, res>>
      /\ pc \notin {"stop", "stopped", "idle"}
      /\ pc' = pc \/ pc' \in {"wait", "flush", "top"}
      /\ ctxDone' \in BOOLEAN
  BY DEF ReaderInv, ReaderTypes, otherSide, Console!ContextEnds,
         Console!StartWait, Console!GiveUp, Console!TextArrives,
         Console!DrainEnds, Console!peerVars, Console!readerVars,
         Console!consoleVars, Console!chanVars, Console!outVars,
         Console!countVars, Ssh!StartWait, Ssh!peerVars, Ssh!readerVars,
         Ssh!consoleVars, Ssh!chanVars, Ssh!outVars, Ssh!countVars
<1>2. ReaderTypes'
  BY <1>1 DEF ReaderInv, ReaderTypes, otherSide
<1>3. ~Resting /\ ~Resting'
  BY <1>1 DEF Resting
<1>4. CallSide' = CallSide /\ TraceSide' = TraceSide
  BY <1>1, <1>3 DEF CallSide, TraceSide, Held, Fresh
<1>5. ReaderInv'
  BY <1>1, <1>2, <1>3, <1>4, CallKeeps DEF ReaderInv
<1> QED BY <1>1, <1>5 DEF otherSide

(* n bytes are taken out, the rest is kept. *)
LEMMA CutKeeps ==
  ASSUME ReaderInv, pc = "top", UNCHANGED <<ch, closed>>,
         NEW r \in Console!Results, NEW n \in 0..Len(buf),
         Console!Finish(r, n, Console!Rest(n), <<>>)
  PROVE  /\ ReaderInv' /\ ~Resting /\ UNCHANGED input /\ res' = r
         /\ taken' = taken \o SubSeq(buf, 1, n)
<1>1. buf \in Stream /\ Len(buf) \in Nat
  BY LenProperties DEF ReaderInv, ReaderTypes, Stream
<1>2. ~Resting
  BY DEF Resting
<1>3. PICK rest : rest = SubSeq(buf, n + 1, Len(buf))
  OBVIOUS
<1>4. Console!Finish(r, n, rest, <<>>)
  BY <1>3 DEF Console!Rest
<1>5. /\ rest \in Stream /\ <<>> \in Stream
      /\ (SubSeq(buf, 1, n) \o rest) \o <<>> = buf
  BY <1>1, <1>3, Split, EmptySeq DEF Stream
<1>6. ReaderInv' /\ taken' = taken \o SubSeq(buf, 1, n)
  BY <1>1, <1>2, <1>4, <1>5, FinishKeeps
<1>7. UNCHANGED input /\ res' = r
  BY <1>4 DEF Console!Finish, Console!readerVars
<1> QED BY <1>2, <1>6, <1>7

LEMMA ReturnSizeKeeps ==
  ASSUME ReaderInv, Console!ReturnSize
  PROVE  ReaderInv' /\ Delivers /\ res' = "size"
<1> USE DEF Console!ReturnSize
<1>1. PICK n : n = IF Console!AtLeast(Size) THEN Size ELSE Len(buf)
  OBVIOUS
<1>2. buf \in Stream /\ Len(buf) \in Nat /\ n \in 0..Len(buf)
  BY <1>1, LenProperties, MCStreamsAssumption
     DEF ReaderInv, ReaderTypes, Stream, Console!AtLeast
<1>3. pc = "top" /\ UNCHANGED <<ch, closed, raised>>
      /\ "size" \in Console!Results
  BY DEF Console!chanVars, Console!Results
<1>4. Console!Finish("size", n, Console!Rest(n), <<>>)
  BY <1>1
<1> HIDE DEF Console!ReturnSize
<1> QED BY <1>2, <1>3, <1>4, CutKeeps DEF Delivers

LEMMA ReturnExprKeeps ==
  ASSUME ReaderInv, Console!ReturnExpr
  PROVE  /\ ReaderInv' /\ Delivers /\ res' = "expr"
         /\ \E n : HandedUpTo(n, Prompts)
<1> USE DEF Console!ReturnExpr
<1>1. PICK n : n = Console!FirstMatch(buf, Prompts)
  OBVIOUS
<1>2. /\ buf \in Stream /\ pc = "top" /\ UNCHANGED <<ch, closed, raised>>
      /\ "expr" \in Console!Results /\ Console!Matches(buf, Prompts) # {}
      /\ Console!Finish("expr", n, Console!Rest(n), <<>>)
  BY <1>1 DEF ReaderInv, ReaderTypes, Console!chanVars, Console!Results,
     Console!ExprMatches
<1> HIDE DEF Console!ReturnExpr
<1>3. /\ n \in 1..Len(buf) /\ buf[n] \in Prompts
      /\ \A i \in 1..Len(buf) : i < n => buf[i] \notin Prompts
  BY <1>1, <1>2, FirstMatchFound
<1>4. n \in 0..Len(buf)
  BY <1>3
<1>5. /\ ReaderInv' /\ ~Resting /\ UNCHANGED input /\ res' = "expr"
      /\ taken' = taken \o SubSeq(buf, 1, n)
  BY <1>2, <1>4, CutKeeps
<1>6. HandedUpTo(n, Prompts)
  BY <1>3, <1>5 DEF HandedUpTo
<1> QED BY <1>2, <1>4, <1>5, <1>6 DEF Delivers

LEMMA ReturnMessageKeeps ==
  ASSUME ReaderInv, Console!ReturnMessage
  PROVE  /\ ReaderInv'
         /\ \/ Delivers /\ res' = "message" /\ \E n : HandedUpTo(n, Messages)
            \/ Raises /\ res' = "exception"
<1> USE DEF Console!ReturnMessage
<1>1. PICK n : n = Console!FirstMatch(buf, Messages)
  OBVIOUS
<1>2. /\ buf \in Stream /\ pc = "top" /\ UNCHANGED <<ch, closed>>
      /\ {"message", "exception"} \subseteq Console!Results
      /\ Console!Matches(buf, Messages) # {}
  BY DEF ReaderInv, ReaderTypes, Console!chanVars, Console!Results,
     Console!MessageMatches
<1>3. \/ /\ UNCHANGED raised
         /\ Console!Finish("message", n, Console!Rest(n), <<>>)
      \/ /\ conMsgChecker
         /\ raised' = raised \cup (Len(taken) + 1)..(Len(taken) + n)
         /\ Console!Finish("exception", n, Console!Rest(n), <<>>)
  BY <1>1
<1>4. \A i \in 1..Len(buf) : buf[i] \notin Prompts
  BY DEF Console!ExprMatches, Console!MessageMatches, Console!HasMessage,
     Console!HasExpr, Console!Matches
<1> HIDE DEF Console!ReturnMessage
<1>5. n \in 1..Len(buf) /\ buf[n] \in Messages
  BY <1>1, <1>2, FirstMatchFound
<1>6. n \in 0..Len(buf) /\ 1..n \subseteq 1..Len(buf)
  <2>1. Len(buf) \in Nat
    BY <1>2, LenProperties DEF Stream
  <2> QED BY <2>1, <1>5
<1>7. CASE /\ UNCHANGED raised
           /\ Console!Finish("message", n, Console!Rest(n), <<>>)
  <2>1. /\ ReaderInv' /\ ~Resting /\ UNCHANGED input /\ res' = "message"
        /\ taken' = taken \o SubSeq(buf, 1, n)
    BY <1>2, <1>6, <1>7, CutKeeps
  <2>2. HandedUpTo(n, Messages)
    BY <2>1, <1>4, <1>5 DEF HandedUpTo
  <2> QED BY <2>1, <2>2, <1>6, <1>7 DEF Delivers
<1>8. CASE /\ conMsgChecker
           /\ raised' = raised \cup (Len(taken) + 1)..(Len(taken) + n)
           /\ Console!Finish("exception", n, Console!Rest(n), <<>>)
  <2>1. /\ ReaderInv' /\ ~Resting /\ UNCHANGED input /\ res' = "exception"
        /\ taken' = taken \o SubSeq(buf, 1, n)
    BY <1>2, <1>6, <1>8, CutKeeps
  <2>2. \A i \in 1..n : buf[i] \notin Prompts
    BY <1>4, <1>6
  <2> QED BY <2>1, <2>2, <1>5, <1>8 DEF Raises
<1> QED BY <1>3, <1>7, <1>8

(* The call takes nothing out of the buffer and keeps it all. *)
LEMMA FlushEndsKeeps ==
  ASSUME ReaderInv, Console!FlushEnds \/ Ssh!FlushEnds
  PROVE  ReaderInv' /\ Delivers /\ res' \notin Successes
<1>1. /\ ~Resting /\ UNCHANGED <<ch, closed, raised>>
      /\ \E r \in {"panic", "timeout"} : Console!Finish(r, 0, buf, <<>>)
  BY DEF Console!FlushEnds, Ssh!FlushEnds, Resting, Console!chanVars,
         Ssh!chanVars, Console!Finish, Ssh!Finish, Console!peerVars,
         Ssh!peerVars, Console!readerVars, Ssh!readerVars,
         Console!consoleVars, Ssh!consoleVars, Console!countVars,
         Ssh!countVars
<1>2. PICK r \in {"panic", "timeout"} : Console!Finish(r, 0, buf, <<>>)
  BY <1>1
<1>3. PICK rest : rest = buf
  OBVIOUS
<1>4. Console!Finish(r, 0, rest, <<>>) /\ r \in Console!Results
  BY <1>2, <1>3 DEF Console!Results
<1>5. /\ rest \in Stream /\ <<>> \in Stream /\ Len(buf) \in Nat
      /\ 0 \in 0..Len(buf)
      /\ SubSeq(buf, 1, 0) = <<>>
  BY <1>3, EmptySeq, LenProperties DEF ReaderInv, ReaderTypes, Stream
<1>6. (<<>> \o rest) \o <<>> = rest
  BY <1>5, ConcatEmptySeq DEF Stream
<1>7. (SubSeq(buf, 1, 0) \o rest) \o <<>> = buf
  BY <1>3, <1>5, <1>6
<1>8. ReaderInv' /\ taken' = taken \o SubSeq(buf, 1, 0)
  BY <1>1, <1>4, <1>5, <1>7, FinishKeeps
<1>9. UNCHANGED input /\ res' = r
  BY <1>4 DEF Console!Finish, Console!readerVars
<1> QED BY <1>1, <1>5, <1>8, <1>9 DEF Delivers, Successes

(* The buffer goes to the caller. *)
LEMMA ReturnAllKeeps ==
  ASSUME ReaderInv, pc = "wait", UNCHANGED <<ch, closed, raised>>,
         NEW r \in Console!Results, r \notin Successes,
         Console!Finish(r, Len(buf), <<>>, <<>>)
  PROVE  ReaderInv' /\ Delivers /\ res' \notin Successes
<1>1. PICK n : n = Len(buf)
  OBVIOUS
<1>2. /\ buf \in Stream /\ Len(buf) \in Nat /\ n \in 0..Len(buf)
      /\ <<>> \in Stream /\ ~Resting
  BY <1>1, LenProperties, EmptySeq
     DEF ReaderInv, ReaderTypes, Stream, Resting
<1>3. SubSeq(buf, 1, n) = buf
  BY <1>1, <1>2, SubSeqFull DEF Stream
<1>4. (buf \o <<>>) \o <<>> = buf
  BY <1>2, ConcatEmptySeq DEF Stream
<1>5. Console!Finish(r, n, <<>>, <<>>)
  BY <1>1
<1>6. ReaderInv' /\ taken' = taken \o SubSeq(buf, 1, n)
  BY <1>2, <1>3, <1>4, <1>5, FinishKeeps
<1>7. UNCHANGED input /\ res' = r
  BY <1>5 DEF Console!Finish, Console!readerVars
<1> QED BY <1>2, <1>6, <1>7 DEF Delivers

LEMMA ReturnDurationKeeps ==
  ASSUME ReaderInv, Console!ReturnDuration
  PROVE  ReaderInv' /\ Delivers /\ res' \notin Successes
BY ReturnAllKeeps
   DEF Console!ReturnDuration, Console!chanVars, Console!Results, Successes

(* The bytes are lost, or go to the caller of Read. *)
LEMMA ReturnEOFKeeps ==
  ASSUME ReaderInv, Console!ReturnEOF
  PROVE  ReaderInv' /\ Delivers /\ res' \notin Successes
<1> USE DEF Console!ReturnEOF
<1>1. /\ pc = "wait" /\ ch = <<>> /\ closed
      /\ UNCHANGED <<ch, closed, raised>>
      /\ "eof" \in Console!Results /\ "eof" \notin Successes /\ ~Resting
      /\ ended /\ Len(input) = wire
  BY DEF Console!chanVars, Console!Results, Successes, Resting, ReaderInv
<1>2. CASE kind = "ReadTo"
  <2>1. PICK lost : lost = buf
    OBVIOUS
  <2>2. Console!Finish("eof", 0, <<>>, lost)
    BY <1>2, <2>1
  <2>3. /\ lost \in Stream /\ <<>> \in Stream /\ Len(buf) \in Nat
        /\ 0 \in 0..Len(buf)
        /\ SubSeq(buf, 1, 0) = <<>>
    BY <2>1, EmptySeq, LenProperties DEF ReaderInv, ReaderTypes, Stream
  <2>4. (<<>> \o <<>>) \o lost = lost
    BY <2>3, ConcatEmptySeq DEF Stream
  <2>5. (SubSeq(buf, 1, 0) \o <<>>) \o lost = buf
    BY <2>1, <2>3, <2>4
  <2>6. ReaderInv' /\ taken' = taken \o SubSeq(buf, 1, 0)
    BY <1>1, <2>2, <2>3, <2>5, FinishKeeps
  <2>7. UNCHANGED input /\ res' = "eof"
    BY <2>2 DEF Console!Finish, Console!readerVars
  <2> QED BY <1>1, <2>3, <2>6, <2>7 DEF Delivers
<1>3. CASE kind # "ReadTo"
  BY <1>1, <1>3, ReturnAllKeeps
<1> QED BY <1>2, <1>3

LEMMA TakeChunkKeeps ==
  ASSUME ReaderInv, Console!TakeChunk
  PROVE  ReaderInv' /\ UNCHANGED <<input, taken, raised, res>>
<1> USE DEF Console!TakeChunk, Console!peerVars, Console!readerVars,
      Console!consoleVars,
      Console!outVars, Console!countVars
<1> DEFINE h == Head(ch)
<1>1. /\ ch # <<>> /\ ch \in Seq(Stream) /\ buf \in Stream
      /\ hand \in Stream /\ traced \in Stream /\ Fresh \in Stream
      /\ CallSide \in Stream /\ TraceSide \in Stream /\ Len(ch) \in Nat
      /\ inLen \in 0..Len(buf) /\ Len(buf) \in Nat /\ Len(ch) <= Cap
  BY SideTypes, LenProperties DEF ReaderInv, ReaderTypes, HasRead, Stream
<1>2. /\ ~Resting /\ ~Resting' /\ buf' = buf \o h /\ ch' = Tail(ch)
      /\ UNCHANGED <<taken, dropped, traced, inLen, input, hand>>
  BY DEF Resting
<1>3. /\ h \in Stream /\ Tail(ch) \in Seq(Stream)
      /\ Len(Tail(ch)) = Len(ch) - 1
      /\ ((CallSide \o h) \o FlattenSeq(Tail(ch))) \o hand
           = (CallSide \o FlattenSeq(ch)) \o hand
      /\ ((TraceSide \o h) \o FlattenSeq(Tail(ch))) \o hand
           = (TraceSide \o FlattenSeq(ch)) \o hand
  BY <1>1, ChunkTaken, ZenonT(40)
<1> HIDE DEF h
<1>4. /\ buf \o h \in Stream /\ Len(buf \o h) = Len(buf) + Len(h)
      /\ Len(h) \in Nat
  BY <1>1, <1>3, Joined DEF Stream
<1>5. ReaderTypes'
  <2>1. ch' \in Seq(Stream) /\ buf' \in Stream
    BY <1>2, <1>3, <1>4
  <2>2. Len(ch') = Len(ch) - 1 /\ Len(buf') = Len(buf) + Len(h)
        /\ inLen' = inLen
    BY <1>2, <1>3, <1>4
  <2>3. Len(ch) \in Nat /\ Len(ch) <= Cap /\ Cap \in Nat
        /\ inLen \in 0..Len(buf) /\ Len(buf) \in Nat /\ Len(h) \in Nat
    BY <1>1, <1>4, MCStreamsAssumption
  <2>4. Len(ch') <= Cap /\ inLen' \in 0..Len(buf')
    BY ONLY <2>2, <2>3
  <2> QED BY <2>1, <2>4 DEF ReaderInv, ReaderTypes
<1>6. dropped = <<>>
  BY <1>1 DEF ReaderInv
<1>7. CallSide' = CallSide \o h
  <2>1. taken \in Stream /\ buf \in Stream /\ taken \o buf \in Stream
        /\ taken \o (buf \o h) \in Stream
    <3>1. taken \in Stream /\ buf \in Stream
      BY DEF ReaderInv, ReaderTypes
    <3> QED BY <3>1, <1>4, ConcatProperties DEF Stream
  <2>2. /\ CallSide = (taken \o buf) \o <<>>
        /\ CallSide' = (taken \o (buf \o h)) \o <<>>
    BY <1>2, <1>6 DEF CallSide, Held
  <2>3. CallSide = taken \o buf /\ CallSide' = taken \o (buf \o h)
    BY <2>1, <2>2, ConcatEmptySeq DEF Stream
  <2>4. taken \in Stream /\ buf \in Stream /\ h \in Stream
    BY <2>1, <1>1, <1>3
  <2>5. taken \o (buf \o h) = (taken \o buf) \o h
    BY ONLY <2>4 DEF Stream
  <2> QED BY <2>3, <2>5
<1>8. TraceSide' = TraceSide \o h
  <2>1. Fresh' = Fresh \o h
    <3>1. SubSeq(buf \o h, inLen + 1, Len(buf \o h))
            = SubSeq(buf, inLen + 1, Len(buf)) \o h
      <4>1. /\ buf \in Seq(1..StreamLen) /\ h \in Seq(1..StreamLen)
            /\ inLen \in 0..Len(buf)
        BY <1>1, <1>3 DEF Stream
      <4> QED BY ONLY <4>1, CutJoined, Zenon
    <3> QED BY <3>1, <1>2 DEF Fresh
  <2>2. TraceSide' = traced \o (Fresh \o h) /\ TraceSide = traced \o Fresh
    BY <2>1, <1>2 DEF TraceSide
  <2>3. traced \in Stream /\ Fresh \in Stream /\ h \in Stream
    BY <1>1, <1>3
  <2>4. traced \o (Fresh \o h) = (traced \o Fresh) \o h
    BY ONLY <2>3 DEF Stream
  <2> QED BY <2>2, <2>4
<1>9. Behind'
  BY <1>2, <1>3, <1>7, <1>8 DEF ReaderInv, Behind
<1>10. HasRead'
  BY DEF ReaderInv, HasRead
<1>11. pc # "stopped" /\ UNCHANGED <<closed, reader, ended, wire>>
  OBVIOUS
<1> QED BY <1>2, <1>5, <1>6, <1>9, <1>10, <1>11 DEF ReaderInv

(* The last bytes handed out. *)
LEMMA LastBytes ==
  ASSUME NEW g \in Stream, NEW n \in 1..Len(g)
  PROVE  /\ SubSeq(g, 1, n - 1) \in Stream /\ SubSeq(g, n, Len(g)) \in Stream
         /\ SubSeq(g, 1, n - 1) \o SubSeq(g, n, Len(g)) = g
         /\ Len(SubSeq(g, 1, n - 1)) = n - 1
         /\ \A i \in 1..(n - 1) : SubSeq(g, 1, n - 1)[i] = g[i]
<1>1. Len(g) \in Nat
  BY LenProperties DEF Stream
<1> DEFINE k == n - 1
<1>2. k \in 0..Len(g) /\ k + 1 = n
  BY <1>1
<1> HIDE DEF k
<1>3. /\ g = SubSeq(g, 1, k) \o SubSeq(g, k + 1, Len(g))
      /\ SubSeq(g, 1, k) \in Stream /\ SubSeq(g, k + 1, Len(g)) \in Stream
      /\ Len(SubSeq(g, 1, k)) = k
      /\ \A i \in 1..k : SubSeq(g, 1, k)[i] = g[i]
  BY <1>2, CutInTwo DEF Stream
<1> QED BY <1>2, <1>3 DEF k

LEMMA PrependBufferKeeps ==
  ASSUME ReaderInv, Console!PrependBuffer
  PROVE  /\ ReaderInv' /\ UNCHANGED <<input, raised, res>>
         /\ \E n \in 1..Len(taken) :
              /\ taken' = SubSeq(taken, 1, n - 1)
              /\ \A i \in n..Len(taken) : i \notin raised
<1> USE DEF Console!PrependBuffer, Console!peerVars, Console!readerVars,
      Console!consoleVars,
      Console!chanVars, Console!callVars
<1>1. PICK n \in 1..Len(taken) :
        /\ \A i \in n..Len(taken) : i \notin raised
        /\ extra' = SubSeq(taken, n, Len(taken)) \o extra
        /\ taken' = SubSeq(taken, 1, n - 1)
  OBVIOUS
<1> DEFINE a == SubSeq(taken, 1, n - 1)
           b == SubSeq(taken, n, Len(taken))
<1>2. taken \in Stream /\ extra \in Stream /\ dropped = <<>>
  BY DEF ReaderInv, ReaderTypes
<1>3. a \in Stream /\ b \in Stream /\ a \o b = taken
  BY <1>2, LastBytes
<1> HIDE DEF a, b
<1>4. /\ Resting /\ Resting' /\ extra' = b \o extra /\ taken' = a
      /\ UNCHANGED <<otherSide, ch, closed, dropped, traced, buf, inLen>>
      /\ pc # "stopped"
  BY <1>1 DEF Resting, otherSide, a, b
<1>5. b \o extra \in Stream
  BY <1>2, <1>3, ConcatProperties DEF Stream
<1>6. ReaderTypes'
  BY <1>3, <1>4, <1>5 DEF ReaderInv, ReaderTypes, otherSide
<1>7. CallSide' = CallSide
  <2>1. CallSide' = (a \o (b \o extra)) \o dropped
        /\ CallSide = (taken \o extra) \o dropped
    BY <1>4 DEF CallSide, Held
  <2>2. a \in Stream /\ b \in Stream /\ extra \in Stream
    BY <1>2, <1>3
  <2>3. a \o (b \o extra) = (a \o b) \o extra
    BY ONLY <2>2, SMTT(30) DEF Stream
  <2> QED BY <2>1, <2>3, <1>3
<1>8. TraceSide' = TraceSide
  BY <1>4 DEF TraceSide, Fresh
<1>9. ReaderInv'
  BY <1>2, <1>4, <1>6, <1>7, <1>8, CallKeeps DEF ReaderInv
<1> QED BY <1>1, <1>9

(* connectConsolePort and stopBufferReader. *)
LEMMA StoppingKeeps ==
  ASSUME ReaderInv,
         \/ Console!PortAttached \/ Console!StopReader
         \/ Console!ReaderStopped
  PROVE  ReaderInv' /\ UNCHANGED <<input, taken, raised, res>>
<1> USE DEF Console!PortAttached, Console!StopReader, Console!ReaderStopped,
      Console!peerVars, Console!readerVars, Console!consoleVars,
      Console!chanVars, Console!callVars, Console!outVars, Console!countVars
<1>1. /\ Resting /\ Resting' /\ cancelled' \in BOOLEAN
      /\ conMsgChecker' \in BOOLEAN
      /\ UNCHANGED <<wire, silent, ended, input, hand, reader, ch, buf, inLen,
                     extra, taken, raised, dropped, traced, kind, ctxDone,
                     res>>
      /\ closed' = closed \/ (closed' /\ pc' = "stopped" /\ reader = "done")
      /\ pc' \in {"idle", "stop", "stopped"} /\ pc # "stopped"
  BY DEF Resting, ReaderInv, HasRead, ReaderTypes
<1>2. HasRead'
  BY <1>1 DEF ReaderInv, HasRead
<1>3. closed' \in BOOLEAN
  BY <1>1 DEF ReaderInv, ReaderTypes
<1>4. ReaderTypes'
  BY <1>1, <1>3 DEF ReaderInv, ReaderTypes
<1>5. Behind'
  BY <1>1 DEF ReaderInv, Behind, CallSide, TraceSide, Held, Fresh
<1>6. dropped # <<>> => closed
  BY DEF ReaderInv
<1> QED BY <1>1, <1>2, <1>4, <1>5, <1>6 DEF ReaderInv

---------------------------------------------------------------------------
(* What callers see of a step of a connector.                              *)

ReaderProgress ==
  \/ UNCHANGED <<input, taken, raised>>
  \/ /\ \E n \in (Len(input) + 1)..wire :
          hand' = Bytes(Len(input) + 1, n) /\ input' = input \o hand'
     /\ UNCHANGED <<taken, raised>>
  \/ Delivers
  \/ Raises
  \/ /\ UNCHANGED <<input, raised>>
     /\ \E n \in 1..Len(taken) : /\ taken' = SubSeq(taken, 1, n - 1)
                                 /\ \A i \in n..Len(taken) : i \notin raised

LEMMA ConnectorKeeps ==
  ASSUME ReaderInv, ConnectorStep
  PROVE  ReaderInv' /\ ReaderProgress
<1> USE DEF ReaderProgress
<1>1. ASSUME \/ Console!PeerSends \/ Console!PeerCloses
             \/ Console!PeerFallsSilent
      PROVE  ReaderInv' /\ ReaderProgress
  BY <1>1, PeerSendsKeeps, PeerClosesKeeps, PeerFallsSilentKeeps
     DEF Console!PeerSends, Console!PeerCloses, Console!PeerFallsSilent,
         Console!readerVars, Console!outVars
<1>2. ASSUME Console!ReadChunk PROVE ReaderInv' /\ ReaderProgress
  <2>1. /\ \E n \in (Len(input) + 1)..wire :
             hand' = Bytes(Len(input) + 1, n) /\ input' = input \o hand'
        /\ UNCHANGED <<taken, raised>>
    BY <1>2, Names DEF Console!ReadChunk, Console!outVars
  <2> QED BY <1>2, <2>1, ReadChunkKeeps
<1>3. ASSUME Console!SendChunk PROVE ReaderInv' /\ ReaderProgress
  BY <1>3, SendChunkKeeps DEF Console!SendChunk, Console!outVars
<1>4. ASSUME Console!ReadFails \/ Ssh!ReadFails \/ Console!ReadDeadline
      PROVE  ReaderInv' /\ ReaderProgress
  BY <1>4, ReaderEndsKeeps
     DEF Console!ReadFails, Ssh!ReadFails, Console!ReadDeadline,
         Console!outVars, Ssh!outVars
<1>5. ASSUME Console!Begin PROVE ReaderInv' /\ ReaderProgress
  BY <1>5, BeginKeeps DEF Console!Begin, Console!readerVars
<1>6. ASSUME \/ Console!ContextEnds \/ Console!StartWait \/ Ssh!StartWait
             \/ Console!GiveUp \/ Console!TextArrives \/ Console!DrainEnds
      PROVE  ReaderInv' /\ ReaderProgress
  BY <1>6, WaitingKeeps
<1>7. ASSUME \/ Console!ReturnSize \/ Console!ReturnExpr
             \/ Console!FlushEnds \/ Ssh!FlushEnds
             \/ Console!ReturnEOF \/ Console!ReturnDuration
      PROVE  ReaderInv' /\ Delivers
  BY <1>7, ReturnSizeKeeps, ReturnExprKeeps, FlushEndsKeeps, ReturnEOFKeeps,
     ReturnDurationKeeps
<1>8. ASSUME Console!ReturnMessage PROVE ReaderInv' /\ (Delivers \/ Raises)
  BY <1>8, ReturnMessageKeeps
<1>9. ASSUME Console!TakeChunk PROVE ReaderInv' /\ ReaderProgress
  BY <1>9, TakeChunkKeeps
<1>10. ASSUME Console!PrependBuffer PROVE ReaderInv' /\ ReaderProgress
  BY <1>10, PrependBufferKeeps
<1>11. ASSUME \/ Console!PortAttached \/ Console!StopReader
              \/ Console!ReaderStopped
       PROVE  ReaderInv' /\ ReaderProgress
  BY <1>11, StoppingKeeps
<1> QED
  BY <1>1, <1>2, <1>3, <1>4, <1>5, <1>6, <1>7, <1>8, <1>9, <1>10, <1>11,
     Zenon
     DEF ConnectorStep, Console!Next, Console!Goroutine,
         Console!GenericReadX

(* A port that is attached stays so. *)
LEMMA StaysAttached ==
  ASSUME ConnectorStep, conMsgChecker
  PROVE  conMsgChecker'
BY DEF ConnectorStep, Console!Next, Console!Goroutine, Console!GenericReadX,
   Console!PeerSends, Console!PeerCloses, Console!PeerFallsSilent,
   Console!ReadChunk, Console!SendChunk, Console!ReadFails, Ssh!ReadFails,
   Console!ReadDeadline, Console!Begin, Console!ContextEnds,
   Console!ReturnSize, Console!ReturnExpr, Console!ReturnMessage,
   Console!StartWait, Ssh!StartWait, Console!GiveUp, Console!TakeChunk,
   Console!TextArrives, Console!DrainEnds, Console!FlushEnds, Ssh!FlushEnds,
   Console!ReturnEOF, Console!ReturnDuration, Console!PrependBuffer,
   Console!PortAttached, Console!StopReader, Console!ReaderStopped,
   Console!consoleVars, Ssh!consoleVars, Console!Finish, Ssh!Finish

(* What is taken continues what was taken before. *)
LEMMA Taken ==
  ASSUME ReaderInv, NEW n \in 0..Len(buf),
         taken' = taken \o SubSeq(buf, 1, n)
  PROVE  /\ Len(taken) \in Nat /\ n \in Nat /\ Len(buf) \in Nat
         /\ n <= Len(buf) /\ Len(taken') = Len(taken) + n
         /\ \A i \in 1..Len(taken) : taken'[i] = taken[i]
         /\ \A i \in (Len(taken) + 1)..(Len(taken) + n) :
              taken'[i] = buf[i - Len(taken)]
<1> DEFINE a == SubSeq(buf, 1, n)
           l == Len(taken)
<1>1. /\ buf \in Stream /\ taken \in Stream /\ Len(buf) \in Nat
      /\ l \in Nat /\ n \in Nat /\ n <= Len(buf)
  BY LenProperties DEF ReaderInv, ReaderTypes, Stream
<1>2. a \in Stream /\ Len(a) = n /\ \A i \in 1..n : a[i] = buf[i]
  BY <1>1, CutInTwo DEF Stream
<1>3. taken' = taken \o a
  OBVIOUS
<1> HIDE DEF a
<1>4. /\ Len(taken \o a) = Len(taken) + Len(a)
      /\ \A j \in 1..Len(taken) : (taken \o a)[j] = taken[j]
      /\ \A j \in (Len(taken) + 1)..(Len(taken) + Len(a)) :
           (taken \o a)[j] = a[j - Len(taken)]
  <2>1. taken \in Seq(1..StreamLen) /\ a \in Seq(1..StreamLen)
    BY <1>1, <1>2 DEF Stream
  <2> QED BY ONLY <2>1, Joined
<1>5. /\ Len(taken') = l + n
      /\ \A j \in 1..l : taken'[j] = taken[j]
      /\ \A j \in (l + 1)..(l + n) : taken'[j] = a[j - l]
  BY <1>2, <1>3, <1>4
<1> HIDE DEF l
<1>6. ASSUME NEW i \in (l + 1)..(l + n) PROVE taken'[i] = buf[i - l]
  <2>1. i - l \in 1..n
    BY ONLY <1>1, <1>6
  <2> QED BY <2>1, <1>2, <1>5
<1> QED BY <1>1, <1>5, <1>6 DEF l

(* What exceptions took stays with them. *)
LEMMA RaisedKeeps ==
  ASSUME ReaderInv, RaisedInv, ReaderProgress, conMsgChecker => conMsgChecker'
  PROVE  RaisedInv'
<1>1. ASSUME UNCHANGED raised, Len(taken') \in Nat, Len(taken) \in Nat,
             \A i \in raised : i <= Len(taken') /\ taken'[i] = taken[i]
      PROVE  RaisedInv'
  <2>1. /\ raised # {} => conMsgChecker'
        /\ raised \subseteq 1..Len(taken)
    BY DEF RaisedInv
  <2>2. raised \subseteq 1..Len(taken')
    BY ONLY <1>1, <2>1
  <2>3. ASSUME NEW i \in raised
        PROVE  /\ taken'[i] \notin Prompts
               /\ \E m \in i..Len(taken') :
                    taken'[m] \in Messages /\ i..m \subseteq raised
    <3>1. PICK m \in i..Len(taken) :
            taken[m] \in Messages /\ i..m \subseteq raised
      BY DEF RaisedInv
    <3>2. i \in Nat /\ m \in Nat /\ m \in i..m
      BY ONLY <1>1, <2>1, <2>3, <3>1
    <3>3. m \in raised
      BY ONLY <3>1, <3>2
    <3>4. m \in i..Len(taken') /\ taken'[m] \in Messages
      BY ONLY <1>1, <3>1, <3>2, <3>3
    <3>5. taken'[i] \notin Prompts
      BY <1>1, <2>3 DEF RaisedInv
    <3> QED BY <3>1, <3>4, <3>5
  <2> QED BY <1>1, <2>1, <2>2, <2>3, Zenon DEF RaisedInv
<1>2. CASE UNCHANGED <<taken, raised>>
  BY <1>2 DEF RaisedInv
<1>3. CASE Delivers
  <2>1. PICK n \in 0..Len(buf) : taken' = taken \o SubSeq(buf, 1, n)
    BY <1>3 DEF Delivers
  <2>2. /\ Len(taken) \in Nat /\ n \in Nat /\ Len(taken') = Len(taken) + n
        /\ \A i \in 1..Len(taken) : taken'[i] = taken[i]
    BY <2>1, Taken
  <2>3. raised \subseteq 1..Len(taken)
    BY DEF RaisedInv
  <2>4. \A i \in raised : i <= Len(taken') /\ taken'[i] = taken[i]
    BY ONLY <2>2, <2>3
  <2>5. Len(taken') \in Nat
    BY ONLY <2>2
  <2> QED BY <2>2, <2>4, <2>5, <1>1, <1>3 DEF Delivers
<1>4. CASE Raises
  <2>1. PICK n \in 1..Len(buf) :
          /\ taken' = taken \o SubSeq(buf, 1, n)
          /\ raised' = raised \cup (Len(taken) + 1)..(Len(taken) + n)
          /\ buf[n] \in Messages
          /\ \A i \in 1..n : buf[i] \notin Prompts
    BY <1>4 DEF Raises
  <2> DEFINE l == Len(taken)
  <2>2. n \in 0..Len(buf)
    OBVIOUS
  <2>3. /\ l \in Nat /\ n \in Nat /\ Len(taken') = l + n /\ n > 0
        /\ \A i \in 1..l : taken'[i] = taken[i]
        /\ \A i \in (l + 1)..(l + n) : taken'[i] = buf[i - l]
    BY <2>1, <2>2, Taken
  <2>4. /\ raised' = raised \cup (l + 1)..(l + n) /\ raised \subseteq 1..l
        /\ conMsgChecker'
    BY <2>1, <1>4 DEF RaisedInv, Raises
  <2>5. \A i \in raised :
          /\ taken[i] \notin Prompts
          /\ \E m \in i..l : taken[m] \in Messages /\ i..m \subseteq raised
    BY DEF RaisedInv
  <2> HIDE DEF l
  <2>6. ASSUME NEW i \in raised
        PROVE  /\ taken'[i] \notin Prompts
               /\ \E m \in i..Len(taken') :
                    taken'[m] \in Messages /\ i..m \subseteq raised'
    <3>1. PICK m \in i..l : taken[m] \in Messages /\ i..m \subseteq raised
      BY <2>5
    <3>2. m \in 1..l /\ m \in i..Len(taken') /\ i \in 1..l
      BY <2>3, <2>4
    <3> QED BY <3>1, <3>2, <2>3, <2>4, <2>5
  <2>7. ASSUME NEW i \in (l + 1)..(l + n)
        PROVE  /\ taken'[i] \notin Prompts
               /\ \E m \in i..Len(taken') :
                    taken'[m] \in Messages /\ i..m \subseteq raised'
    <3>1. /\ i - l \in 1..n /\ l + n \in i..(l + n) /\ (l + n) - l = n
          /\ l + n \in (l + 1)..(l + n)
          /\ i..(l + n) \subseteq (l + 1)..(l + n)
      BY ONLY <2>3, <2>7
    <3>2. taken'[i] \notin Prompts /\ taken'[l + n] \in Messages
      BY <2>1, <2>3, <3>1
    <3>3. i..(l + n) \subseteq raised' /\ l + n \in i..Len(taken')
      BY <2>3, <2>4, <3>1
    <3> QED BY <3>2, <3>3
  <2>8. raised' \subseteq 1..Len(taken')
    <3>1. l \in Nat /\ n \in Nat /\ Len(taken') = l + n
      BY <2>3
    <3>2. raised' = raised \cup (l + 1)..(l + n) /\ raised \subseteq 1..l
      BY <2>4
    <3>3. 1..l \subseteq 1..(l + n) /\ (l + 1)..(l + n) \subseteq 1..(l + n)
      BY ONLY <3>1
    <3> QED BY ONLY <3>1, <3>2, <3>3
  <2> QED BY <2>4, <2>6, <2>7, <2>8 DEF RaisedInv
<1>5. CASE /\ UNCHANGED raised
           /\ \E n \in 1..Len(taken) :
                /\ taken' = SubSeq(taken, 1, n - 1)
                /\ \A i \in n..Len(taken) : i \notin raised
  <2>1. PICK n \in 1..Len(taken) :
          /\ taken' = SubSeq(taken, 1, n - 1)
          /\ \A i \in n..Len(taken) : i \notin raised
    BY <1>5
  <2>2. taken \in Stream /\ Len(taken) \in Nat
    BY LenProperties DEF ReaderInv, ReaderTypes, Stream
  <2>3. /\ Len(taken') = n - 1
        /\ \A i \in 1..(n - 1) : taken'[i] = taken[i]
    BY <2>1, <2>2, LastBytes
  <2>4. \A i \in raised : i \in 1..(n - 1)
    BY <2>1, <2>2 DEF RaisedInv
  <2>5. \A i \in raised : i <= Len(taken') /\ taken'[i] = taken[i]
    BY <2>2, <2>3, <2>4
  <2>6. Len(taken') \in Nat
    BY <2>2, <2>3
  <2> QED BY <2>2, <2>5, <2>6, <1>1, <1>5
<1> QED BY <1>2, <1>3, <1>4, <1>5 DEF ReaderProgress

(* The prefixes of ByteFifo are the same. *)
LEMMA FifoNames ==
  \A a, b : /\ Ssh!Fifo!IsPrefix(a, b) = IsPrefix(a, b)
            /\ Ssh!Fifo!IsStrictPrefix(a, b) = IsStrictPrefix(a, b)
            /\ Pipeline!Fifo!IsPrefix(a, b) = IsPrefix(a, b)
            /\ Pipeline!Fifo!IsStrictPrefix(a, b) = IsStrictPrefix(a, b)
            /\ Ssh!Fifo!Last(a) = a[Len(a)]
BY DEF Ssh!Fifo!Last, Ssh!Fifo!IsPrefix, Ssh!Fifo!IsStrictPrefix,
   Pipeline!Fifo!IsPrefix, Pipeline!Fifo!IsStrictPrefix, IsPrefix,
   IsStrictPrefix

(* What was taken is a prefix of what was read. *)
TakenInOrder == IsPrefix(taken, input)

LEMMA TakenIsPrefix ==
  ASSUME ReaderInv
  PROVE  TakenInOrder
<1> DEFINE F == FlattenSeq(ch)
<1>1. /\ taken \in Stream /\ Held \in Stream /\ dropped \in Stream
      /\ hand \in Stream /\ input = Bytes(1, Len(input))
  BY SideTypes DEF ReaderInv, ReaderTypes, HasRead
<1>2. F \in Stream
  BY FlattenType DEF ReaderInv, ReaderTypes, Stream
<1>3. (((taken \o Held) \o dropped) \o F) \o hand = input
  BY <1>1 DEF ReaderInv, Behind, CallSide
<1> HIDE DEF F
<1>4. IsPrefix(taken, (((taken \o Held) \o dropped) \o F) \o hand)
  BY <1>1, <1>2, FirstOfFive DEF Stream
<1> QED BY <1>3, <1>4 DEF TakenInOrder

(* What is read continues what was read before. *)
LEMMA InputGrows ==
  ASSUME HasRead, hand' \in Stream, NEW n \in (Len(input) + 1)..wire,
         hand' = Bytes(Len(input) + 1, n), input' = input \o hand'
  PROVE  IsStrictPrefix(input, input')
<1>1. input \in Stream
  BY DEF HasRead
<1>2. hand' # <<>>
  <2>1. Len(input) \in Nat /\ n \in Nat /\ n >= Len(input) + 1
        /\ wire \in 0..StreamLen /\ StreamLen \in Nat /\ n <= wire
    BY <1>1, LenProperties, MCStreamsAssumption DEF HasRead, Stream
  <2>2. /\ Len(input) + 1 \in Nat \ {0} /\ n <= StreamLen
        /\ Len(input) + 1 <= n + 1
        /\ n - (Len(input) + 1) + 1 # 0
    BY <2>1
  <2>3. Len(hand') = n - (Len(input) + 1) + 1
    BY <2>1, <2>2, BytesType
  <2> QED BY <2>2, <2>3, EmptySeq
<1> QED BY <1>1, <1>2, PrefixOfJoin DEF Stream

(* Each step of a connector is one of ByteFifo, or none. *)
LEMMA ReaderIsFifo ==
  ASSUME ReaderInv, RaisedInv, ReaderInv', TakenInOrder', ReaderProgress
  PROVE  Ssh!Fifo!Next \/ UNCHANGED <<input, taken, raised>>
<1> USE DEF Ssh!Fifo!Next
<1>1. taken \in Stream /\ buf \in Stream /\ input \in Stream
  BY DEF ReaderInv, ReaderTypes, HasRead
<1>2. CASE UNCHANGED <<input, taken, raised>>
  BY <1>2
<1>3. ASSUME NEW n \in (Len(input) + 1)..wire,
             hand' = Bytes(Len(input) + 1, n), input' = input \o hand',
             UNCHANGED <<taken, raised>>
      PROVE  Ssh!Fifo!Next
  <2>1. HasRead /\ hand' \in Stream
    BY DEF ReaderInv, HasRead
  <2>3. IsStrictPrefix(input, input')
    BY <1>3, <2>1, InputGrows
  <2> QED BY <1>3, <2>3, FifoNames DEF Ssh!Fifo!Arrive
<1>4. ASSUME UNCHANGED input, NEW n \in 0..Len(buf),
             taken' = taken \o SubSeq(buf, 1, n)
      PROVE  taken' = taken \/ Ssh!Fifo!Leave
  <2> DEFINE a == SubSeq(buf, 1, n)
  <2>1. a \in Stream
    BY <1>1, Split
  <2> HIDE DEF a
  <2>2. CASE a = <<>>
    BY <1>1, <1>4, <2>2, ConcatEmptySeq DEF a, Stream
  <2>3. CASE a # <<>>
    <3>1. IsStrictPrefix(taken, taken')
      BY <1>1, <1>4, <2>1, <2>3, PrefixOfJoin DEF a, Stream
    <3>2. IsPrefix(taken', input')
      BY DEF TakenInOrder
    <3> QED BY <3>1, <3>2, <1>4, FifoNames DEF Ssh!Fifo!Leave
  <2> QED BY <2>2, <2>3
<1>5. CASE Delivers
  <2>1. taken' = taken \/ Ssh!Fifo!Leave
    BY <1>4, <1>5 DEF Delivers
  <2> QED BY <2>1, <1>5 DEF Delivers, Ssh!Fifo!Deliver
<1>6. CASE Raises
  <2>1. PICK n \in 1..Len(buf) :
          /\ taken' = taken \o SubSeq(buf, 1, n)
          /\ raised' = raised \cup (Len(taken) + 1)..(Len(taken) + n)
          /\ buf[n] \in Messages
    BY <1>6 DEF Raises
  <2>2. n \in 0..Len(buf) /\ UNCHANGED input
    BY <1>6 DEF Raises
  <2> DEFINE l == Len(taken)
  <2>3. /\ l \in Nat /\ n \in Nat /\ n > 0 /\ Len(taken') = l + n
        /\ \A i \in (l + 1)..(l + n) : taken'[i] = buf[i - l]
    BY <2>1, <2>2, Taken
  <2>4. raised' = raised \cup (l + 1)..(l + n)
    BY <2>1
  <2>5. taken' # taken
    BY <2>3
  <2> HIDE DEF l
  <2>6. l + n \in (l + 1)..(l + n) /\ (l + n) - l = n
    BY ONLY <2>3
  <2>7. taken'[Len(taken')] \in Messages
    BY <2>1, <2>3, <2>6
  <2>8. Ssh!Fifo!Leave
    BY <2>1, <2>2, <2>5, <1>4
  <2>9. raised' = raised \cup (Len(taken) + 1)..Len(taken')
    BY <2>3, <2>4 DEF l
  <2> QED BY <2>7, <2>8, <2>9, FifoNames DEF Ssh!Fifo!Raise
<1>7. ASSUME UNCHANGED <<input, raised>>, NEW n \in 1..Len(taken),
             taken' = SubSeq(taken, 1, n - 1),
             \A i \in n..Len(taken) : i \notin raised
      PROVE  Ssh!Fifo!Next
  <2> DEFINE b == SubSeq(taken, n, Len(taken))
  <2>1. /\ taken' \in Stream /\ b \in Stream /\ taken' \o b = taken
        /\ Len(taken') = n - 1 /\ Len(taken) \in Nat
    BY <1>1, <1>7, LastBytes, LenProperties DEF Stream
  <2> HIDE DEF b
  <2>2. b # <<>>
    <3>1. b = <<>> => taken' = taken
      BY <2>1, ConcatEmptySeq DEF Stream
    <3> QED BY <3>1, <2>1, <1>7
  <2>3. IsStrictPrefix(taken', taken)
    BY <2>1, <2>2, PrefixOfJoin DEF Stream
  <2>4. raised \subseteq 1..Len(taken')
    BY <2>1, <1>7 DEF RaisedInv
  <2> QED BY <2>3, <2>4, <1>7, FifoNames DEF Ssh!Fifo!PutBack
<1> QED BY <1>2, <1>3, <1>5, <1>6, <1>7 DEF ReaderProgress

(* Only the first match of a call that was given an expression ends it with
   success, and hands out the bytes up to that match. *)
LEMMA OnlyMatchSucceeds ==
  ASSUME ReaderInv, ConnectorStep, res' \in Successes, res \notin Successes
  PROVE  \E n : HandedUpTo(n, IF res' = "expr" THEN Prompts ELSE Messages)
<1>1. Console!ReturnExpr \/ Console!ReturnMessage
  <2>1. \/ Console!PeerSends \/ Console!PeerCloses \/ Console!PeerFallsSilent
        \/ Console!ReadChunk \/ Console!SendChunk \/ Console!ReadFails
        \/ Ssh!ReadFails \/ Console!ReadDeadline
        => res' = res
    BY DEF Console!PeerSends, Console!PeerCloses, Console!PeerFallsSilent,
       Console!ReadChunk, Console!SendChunk, Console!ReadFails,
       Ssh!ReadFails, Console!ReadDeadline, Console!outVars, Ssh!outVars
  <2>2. Console!Begin => res' \notin Successes
    BY DEF Console!Begin, Successes
  <2>3. "size" \notin Successes
    BY DEF Successes
  <2> QED
    BY <2>1, <2>2, <2>3, WaitingKeeps, ReturnSizeKeeps, FlushEndsKeeps,
       ReturnEOFKeeps, ReturnDurationKeeps, TakeChunkKeeps,
       PrependBufferKeeps, StoppingKeeps
       DEF ConnectorStep, Console!Next, Console!Goroutine,
           Console!GenericReadX
<1>2. CASE Console!ReturnExpr
  BY <1>2, ReturnExprKeeps
<1>3. CASE Console!ReturnMessage
  <2>1. res' = "message" /\ \E n : HandedUpTo(n, Messages)
    BY <1>3, ReturnMessageKeeps DEF Successes
  <2> QED BY <2>1
<1> QED BY <1>1, <1>2, <1>3

LEMMA FirstPromptEnds ==
  ASSUME ReaderInv, NEW S, NEW n, HandedUpTo(n, S)
  PROVE  /\ Len(taken') > Len(taken) /\ taken'[Len(taken')] \in S
         /\ \A i \in (Len(taken) + 1)..(Len(taken') - 1) :
              taken'[i] \notin Prompts
<1> DEFINE l == Len(taken)
<1>1. /\ n \in 1..Len(buf) /\ buf[n] \in S
      /\ taken' = taken \o SubSeq(buf, 1, n)
      /\ \A i \in 1..Len(buf) : i < n => buf[i] \notin Prompts
  BY DEF HandedUpTo
<1>2. n \in 0..Len(buf)
  BY <1>1
<1>3. /\ l \in Nat /\ n \in Nat /\ Len(buf) \in Nat /\ n <= Len(buf)
      /\ Len(taken') = l + n
      /\ \A i \in (l + 1)..(l + n) : taken'[i] = buf[i - l]
  BY <1>1, <1>2, Taken
<1>4. n > 0
  BY <1>1, <1>3
<1> HIDE DEF l
<1>5. Len(taken') > l /\ l + n \in (l + 1)..(l + n) /\ (l + n) - l = n
  BY ONLY <1>3, <1>4
<1>6. taken'[Len(taken')] \in S
  BY <1>1, <1>3, <1>5
<1>7. ASSUME NEW i \in (l + 1)..((l + n) - 1) PROVE taken'[i] \notin Prompts
  <2>1. /\ i \in (l + 1)..(l + n) /\ i - l < n /\ i - l \in 1..Len(buf)
    BY ONLY <1>3, <1>7
  <2> QED BY <2>1, <1>1, <1>3
<1> QED BY <1>3, <1>5, <1>6, <1>7 DEF l

---------------------------------------------------------------------------
(* The pipeline of the ssh connector.                                      *)

(* What chanAgg and the reader of the channel have, or let through. *)
AggSide == (output \o FlattenSeq(out)) \o buffer

LEMMA AggTypes ==
  ASSUME PipelineInv
  PROVE  /\ output \in Stream /\ buffer \in Stream /\ hand \in Stream
         /\ tmp \in Seq(Stream) /\ out \in Seq(Stream) /\ input \in Stream
         /\ FlattenSeq(out) \in Stream /\ FlattenSeq(tmp) \in Stream
         /\ output \o FlattenSeq(out) \in Stream /\ AggSide \in Stream
         /\ (AggSide \o FlattenSeq(tmp)) \o hand = Bytes(1, Len(input))
<1>1. /\ output \in Stream /\ buffer \in Stream /\ hand \in Stream
      /\ tmp \in Seq(Stream) /\ out \in Seq(Stream) /\ input \in Stream
  BY DEF PipelineInv, PipelineTypes, HasRead
<1>2. FlattenSeq(out) \in Stream /\ FlattenSeq(tmp) \in Stream
  BY <1>1, FlattenType DEF Stream
<1>3. output \o FlattenSeq(out) \in Stream
  BY <1>1, <1>2, ConcatProperties DEF Stream
<1>4. AggSide \in Stream
  BY <1>1, <1>3, ConcatProperties DEF AggSide, Stream
<1>5. (AggSide \o FlattenSeq(tmp)) \o hand = Bytes(1, Len(input))
  BY DEF PipelineInv, PipelineFlags, AggSide
<1> QED BY <1>1, <1>2, <1>3, <1>4, <1>5

LEMMA DeviceKeeps ==
  ASSUME PipelineInv,
         Pipeline!DeviceSends \/ Pipeline!DeviceEnds \/ Pipeline!Close
  PROVE  PipelineInv' /\ UNCHANGED <<input, output>>
<1> USE DEF Pipeline!DeviceSends, Pipeline!DeviceEnds, Pipeline!Close,
      Pipeline!readerVars, Pipeline!aggVars
<1>1. /\ wire \in 0..StreamLen /\ Len(input) \in Nat /\ Len(input) <= wire
      /\ ended \in BOOLEAN /\ cancelled \in BOOLEAN /\ StreamLen \in Nat
  BY MCStreamsAssumption, LenProperties DEF PipelineInv, HasRead, Stream
<1>a. /\ UNCHANGED <<input, hand, rd, tmp, tmpClosed, buffer, agg, out,
                     outClosed, output>>
      /\ \/ /\ ~ended /\ wire < StreamLen /\ wire' = wire + 1
            /\ UNCHANGED <<ended, cancelled>>
         \/ ended' = TRUE /\ UNCHANGED <<wire, cancelled>>
         \/ cancelled' = TRUE /\ ended' = TRUE /\ wire' = wire
  OBVIOUS
<1>b. /\ ended' \in BOOLEAN /\ (ended => ended' /\ wire' = wire)
      /\ cancelled' \in BOOLEAN /\ (cancelled => cancelled')
  BY <1>1, <1>a
<1>c. wire' \in 0..StreamLen /\ Len(input) <= wire'
  <2>1. wire' = wire \/ (wire < StreamLen /\ wire' = wire + 1)
    BY <1>a
  <2> DEFINE l == Len(input)
  <2>2. wire \in 0..StreamLen /\ l \in Nat /\ l <= wire /\ StreamLen \in Nat
    BY <1>1
  <2> HIDE DEF l
  <2>3. wire' \in 0..StreamLen /\ l <= wire'
    BY ONLY <2>1, <2>2
  <2> QED BY <2>3 DEF l
<1>2. HasRead'
  BY <1>a, <1>b, <1>c DEF PipelineInv, HasRead
<1>3. PipelineTypes'
  BY <1>a, <1>b, <1>c DEF PipelineInv, PipelineTypes
<1> QED BY <1>a, <1>b, <1>c, <1>2, <1>3 DEF PipelineInv, PipelineFlags

LEMMA PipelineReadKeeps ==
  ASSUME PipelineInv, Pipeline!Read
  PROVE  /\ PipelineInv' /\ UNCHANGED output
         /\ \E n \in (Len(input) + 1)..wire :
              hand' = Bytes(Len(input) + 1, n) /\ input' = input \o hand'
<1> USE DEF Pipeline!Read, Pipeline!aggVars
<1>1. PICK n \in (Len(input) + 1)..wire :
        hand' = Bytes(Len(input) + 1, n) /\ input' = input \o hand'
  BY Names
<1>2. HasRead /\ hand = <<>>
  BY DEF PipelineInv, PipelineFlags
<1>3. /\ HasRead' /\ Len(input) \in Nat /\ n \in Nat
      /\ Len(input) <= n /\ n <= StreamLen
      /\ Len(input') = n /\ input' = Bytes(1, n)
  BY <1>1, <1>2, ReadGrows
<1>4. /\ UNCHANGED <<wire, ended, cancelled, tmp, tmpClosed, buffer, agg,
                     out, outClosed, output>>
      /\ rd = "read" /\ rd' = "send"
  OBVIOUS
<1>5. PipelineTypes'
  BY <1>4 DEF PipelineInv, PipelineTypes
<1>6. (AggSide \o FlattenSeq(tmp)) \o hand' = Bytes(1, n)
  <2>1. /\ AggSide \in Stream /\ tmp \in Seq(Stream)
        /\ (AggSide \o FlattenSeq(tmp)) \o <<>> = Bytes(1, Len(input))
    BY <1>2, AggTypes
  <2> QED BY <2>1, <1>1, <1>3, ChunkRead
<1>7. ((((output \o FlattenSeq(out)) \o buffer) \o FlattenSeq(tmp)) \o hand)'
        = Bytes(1, Len(input'))
  BY <1>3, <1>4, <1>6 DEF AggSide
<1>8. PipelineFlags'
  <2>1. tmpClosed = FALSE
    BY <1>4 DEF PipelineInv, PipelineFlags, PipelineTypes
  <2> QED BY <2>1, <1>4 DEF PipelineInv, PipelineFlags
<1>9. PipelineInv'
  BY ONLY <1>3, <1>5, <1>7, <1>8, Zenon DEF PipelineInv, PipelineFlags
<1> QED BY <1>1, <1>3, <1>4, <1>9

LEMMA SendTmpKeeps ==
  ASSUME PipelineInv, Pipeline!SendTmp
  PROVE  PipelineInv' /\ UNCHANGED <<input, output>>
<1> USE DEF Pipeline!SendTmp, Pipeline!aggVars
<1>1. /\ UNCHANGED <<wire, ended, cancelled, input, tmpClosed, buffer, agg,
                     out, outClosed, output>>
      /\ rd = "send" /\ rd' = "read" /\ hand' = <<>>
      /\ tmp' = Append(tmp, hand) /\ Len(tmp) < TmpCap
  OBVIOUS
<1>2. /\ tmp \in Seq(Stream) /\ hand \in Stream /\ AggSide \in Stream
      /\ (AggSide \o FlattenSeq(tmp)) \o hand = Bytes(1, Len(input))
  BY AggTypes
<1>3. tmp' \in Seq(Stream) /\ Len(tmp') = Len(tmp) + 1 /\ Len(tmp) \in Nat
  BY <1>1, <1>2, AppendProperties, LenProperties
<1>4. HasRead'
  BY <1>1, EmptySeq DEF PipelineInv, HasRead, Stream
<1>5. PipelineTypes'
  BY <1>1, <1>3, MCStreamsAssumption DEF PipelineInv, PipelineTypes
<1>6. (AggSide \o FlattenSeq(tmp')) \o hand' = Bytes(1, Len(input))
  <2>1. (AggSide \o FlattenSeq(Append(tmp, hand))) \o <<>>
          = (AggSide \o FlattenSeq(tmp)) \o hand
    BY ONLY <1>2, ChunkSent, Zenon
  <2>2. tmp' = Append(tmp, hand) /\ hand' = <<>>
    BY ONLY <1>1
  <2> QED BY ONLY <1>2, <2>1, <2>2, Zenon
<1>7. ((((output \o FlattenSeq(out)) \o buffer) \o FlattenSeq(tmp)) \o hand)'
        = Bytes(1, Len(input'))
  BY <1>1, <1>6 DEF AggSide
<1>8. tmpClosed = FALSE
  BY <1>1 DEF PipelineInv, PipelineFlags, PipelineTypes
<1> QED BY <1>1, <1>4, <1>5, <1>7, <1>8 DEF PipelineInv, PipelineFlags

(* Neither of the goroutines moves bytes. *)
LEMMA PipelineEndsKeep ==
  ASSUME PipelineInv,
         \/ Pipeline!ReadFails \/ Pipeline!CloseOut
         \/ Pipeline!AggTimer \/ Pipeline!AggLeaves
  PROVE  PipelineInv' /\ UNCHANGED <<input, output>>
<1>1. /\ UNCHANGED <<wire, ended, cancelled, input, hand, tmp, buffer, out,
                     output>>
      /\ \/ /\ rd = "read" /\ rd' = "wait" /\ tmpClosed' = TRUE
            /\ ended /\ Len(input) = wire /\ UNCHANGED <<agg, outClosed>>
         \/ /\ rd = "wait" /\ rd' = "done" /\ agg = "done"
            /\ outClosed' = TRUE /\ UNCHANGED <<agg, tmpClosed>>
         \/ /\ agg = "select" /\ agg' = "flush"
            /\ UNCHANGED <<rd, tmpClosed, outClosed>>
         \/ /\ agg = "select" /\ agg' = "last"
            /\ cancelled \/ (tmp = <<>> /\ tmpClosed)
            /\ UNCHANGED <<rd, tmpClosed, outClosed>>
  BY DEF Pipeline!ReadFails, Pipeline!CloseOut, Pipeline!AggTimer,
         Pipeline!AggLeaves, Pipeline!readerVars, Pipeline!aggVars
<1>2. HasRead'
  BY <1>1 DEF PipelineInv, HasRead
<1>3. PipelineTypes'
  BY <1>1 DEF PipelineInv, PipelineTypes
<1>4. ((((output \o FlattenSeq(out)) \o buffer) \o FlattenSeq(tmp)) \o hand)'
        = Bytes(1, Len(input'))
  BY <1>1 DEF PipelineInv, PipelineFlags
<1> QED BY <1>1, <1>2, <1>3, <1>4 DEF PipelineInv, PipelineFlags, PipelineTypes

LEMMA AggTakeKeeps ==
  ASSUME PipelineInv, Pipeline!AggTake
  PROVE  PipelineInv' /\ UNCHANGED <<input, output>>
<1> USE DEF Pipeline!AggTake, Pipeline!readerVars
<1> DEFINE h == Head(tmp)
           o == output \o FlattenSeq(out)
<1>1. /\ UNCHANGED <<wire, ended, cancelled, input, hand, rd, tmpClosed, agg,
                     out, outClosed, output>>
      /\ agg = "select" /\ tmp # <<>>
      /\ buffer' = buffer \o h /\ tmp' = Tail(tmp)
  OBVIOUS
<1>2. /\ tmp \in Seq(Stream) /\ hand \in Stream /\ AggSide \in Stream
      /\ buffer \in Stream /\ o \in Stream
      /\ (AggSide \o FlattenSeq(tmp)) \o hand = Bytes(1, Len(input))
      /\ AggSide = o \o buffer
  BY AggTypes DEF AggSide
<1>3. /\ h \in Stream /\ Tail(tmp) \in Seq(Stream)
      /\ Len(Tail(tmp)) = Len(tmp) - 1 /\ Len(tmp) \in Nat
      /\ ((AggSide \o h) \o FlattenSeq(Tail(tmp))) \o hand
           = Bytes(1, Len(input))
  BY <1>1, <1>2, ChunkTaken, LenProperties
<1> HIDE DEF h, o
<1>4. buffer \o h \in Stream
  BY <1>2, <1>3, ConcatProperties DEF Stream
<1>5. AggSide \o h = o \o (buffer \o h)
  <2>1. o \in Stream /\ buffer \in Stream /\ h \in Stream
    BY <1>2, <1>3
  <2>2. (o \o buffer) \o h = o \o (buffer \o h)
    BY ONLY <2>1 DEF Stream
  <2> QED BY <2>2, <1>2
<1>6. HasRead'
  BY <1>1 DEF PipelineInv, HasRead
<1>7. PipelineTypes'
  <2>1. Len(tmp') <= TmpCap
    BY <1>1, <1>3, MCStreamsAssumption DEF PipelineInv, PipelineTypes
  <2> QED BY <2>1, <1>1, <1>3, <1>4
     DEF PipelineInv, PipelineFlags, PipelineTypes
<1>8. ((((output \o FlattenSeq(out)) \o buffer) \o FlattenSeq(tmp)) \o hand)'
        = Bytes(1, Len(input'))
  BY <1>1, <1>3, <1>5 DEF o
<1>9. tmpClosed => rd \in {"wait", "done"} /\ ended /\ Len(input) = wire
  BY DEF PipelineInv, PipelineFlags
<1> HIDE DEF Pipeline!AggTake, Pipeline!readerVars
<1> QED BY <1>1, <1>6, <1>7, <1>8 DEF PipelineInv, PipelineFlags

(* The buffer goes over the channel: while chanAgg runs, or at its end. *)
LEMMA AggSendsKeeps ==
  ASSUME PipelineInv, Pipeline!AggFlush \/ Pipeline!AggLast
  PROVE  PipelineInv' /\ UNCHANGED <<input, output>>
<1> USE DEF Pipeline!AggFlush, Pipeline!AggLast, Pipeline!readerVars
<1>1. /\ UNCHANGED <<wire, ended, cancelled, input, hand, rd, tmp, tmpClosed,
                     outClosed, output>>
      /\ buffer' = <<>>
      /\ \/ agg = "flush" /\ agg' = "select"
         \/ agg = "last" /\ agg' = "done"
      /\ \/ buffer = <<>> /\ out' = out
         \/ Len(out) < OutCap /\ out' = Append(out, buffer)
  OBVIOUS
<1>2. /\ out \in Seq(Stream) /\ buffer \in Stream /\ output \in Stream
      /\ FlattenSeq(tmp) \in Stream /\ Len(out) \in Nat
  BY AggTypes, LenProperties
<1>3. HasRead'
  BY <1>1 DEF PipelineInv, HasRead
<1>4. PipelineTypes'
  <2>1. out' \in Seq(Stream) /\ Len(out') <= OutCap
    <3>1. CASE out' = out
      BY <3>1 DEF PipelineInv, PipelineTypes
    <3>2. CASE Len(out) < OutCap /\ out' = Append(out, buffer)
      BY <3>2, <1>2, AppendProperties, MCStreamsAssumption
    <3> QED BY <3>1, <3>2, <1>1
  <2>2. buffer' \in Stream
    BY <1>1, EmptySeq DEF Stream
  <2> QED BY <2>1, <2>2, <1>1 DEF PipelineInv, PipelineFlags, PipelineTypes
<1>5. AggSide' = AggSide
  <2>1. CASE buffer = <<>> /\ out' = out
    BY <2>1, <1>1 DEF AggSide
  <2>2. CASE out' = Append(out, buffer)
    <3>1. (output \o FlattenSeq(out')) \o <<>>
            = (output \o FlattenSeq(out)) \o buffer
      BY <2>2, <1>2, ChunkSent
    <3> QED BY <3>1, <1>1 DEF AggSide
  <2> QED BY <2>1, <2>2, <1>1
<1>6. ((((output \o FlattenSeq(out)) \o buffer) \o FlattenSeq(tmp)) \o hand)'
        = Bytes(1, Len(input'))
  <2>1. (AggSide' \o FlattenSeq(tmp')) \o hand' = Bytes(1, Len(input'))
    BY <1>1, <1>5, AggTypes
  <2> QED BY <2>1 DEF AggSide
<1> QED BY <1>1, <1>3, <1>4, <1>6 DEF PipelineInv, PipelineFlags

LEMMA ConsumeKeeps ==
  ASSUME PipelineInv, Pipeline!Consume
  PROVE  /\ PipelineInv' /\ UNCHANGED input
         /\ out # <<>> /\ Head(out) \in Stream /\ output' = output \o Head(out)
<1> USE DEF Pipeline!Consume, Pipeline!readerVars, Pipeline!aggVars
<1>1. /\ UNCHANGED <<wire, ended, cancelled, input, hand, rd, tmp, tmpClosed,
                     buffer, agg, outClosed>>
      /\ out # <<>> /\ output' = output \o Head(out) /\ out' = Tail(out)
  OBVIOUS
<1>2. /\ out \in Seq(Stream) /\ buffer \in Stream /\ output \in Stream
      /\ Len(out) \in Nat
  BY AggTypes, LenProperties
<1>3. /\ Head(out) \in Stream /\ Tail(out) \in Seq(Stream)
      /\ Len(Tail(out)) = Len(out) - 1
      /\ output \o Head(out) \in Stream
      /\ ((output \o Head(out)) \o FlattenSeq(Tail(out))) \o buffer
           = (output \o FlattenSeq(out)) \o buffer
  BY <1>1, <1>2, ChunkTaken
<1>4. HasRead'
  BY <1>1 DEF PipelineInv, HasRead
<1>5. PipelineTypes'
  <2>1. Len(out') <= OutCap
    BY <1>1, <1>2, <1>3, MCStreamsAssumption DEF PipelineInv, PipelineTypes
  <2> QED BY <2>1, <1>1, <1>3 DEF PipelineInv, PipelineFlags, PipelineTypes
<1>6. AggSide' = AggSide
  BY <1>1, <1>3 DEF AggSide
<1>7. ((((output \o FlattenSeq(out)) \o buffer) \o FlattenSeq(tmp)) \o hand)'
        = Bytes(1, Len(input'))
  <2>1. (AggSide' \o FlattenSeq(tmp')) \o hand' = Bytes(1, Len(input'))
    BY <1>1, <1>6, AggTypes
  <2> QED BY <2>1 DEF AggSide
<1>8. PipelineFlags'
  BY <1>1 DEF PipelineInv, PipelineFlags
<1>9. PipelineInv'
  BY ONLY <1>4, <1>5, <1>7, <1>8, Zenon DEF PipelineInv, PipelineFlags
<1> QED BY <1>1, <1>3, <1>9

(* How a step of the pipeline moves input and output. *)
PipelineProgress ==
  \/ UNCHANGED <<input, output>>
  \/ /\ UNCHANGED output
     /\ \E n \in (Len(input) + 1)..wire :
          hand' = Bytes(Len(input) + 1, n) /\ input' = input \o hand'
  \/ /\ UNCHANGED input /\ out # <<>> /\ Head(out) \in Stream
     /\ output' = output \o Head(out)

LEMMA PipelineKeeps ==
  ASSUME PipelineInv, Pipeline!Next
  PROVE  PipelineInv' /\ PipelineProgress
<1>1. ASSUME Pipeline!DeviceSends \/ Pipeline!DeviceEnds \/ Pipeline!Close
      PROVE  PipelineInv' /\ PipelineProgress
  BY <1>1, DeviceKeeps DEF PipelineProgress
<1>2. ASSUME Pipeline!Read PROVE PipelineInv' /\ PipelineProgress
  BY <1>2, PipelineReadKeeps DEF PipelineProgress
<1>3. ASSUME Pipeline!SendTmp PROVE PipelineInv' /\ PipelineProgress
  BY <1>3, SendTmpKeeps DEF PipelineProgress
<1>4. ASSUME \/ Pipeline!ReadFails \/ Pipeline!CloseOut
             \/ Pipeline!AggTimer \/ Pipeline!AggLeaves
      PROVE  PipelineInv' /\ PipelineProgress
  BY <1>4, PipelineEndsKeep DEF PipelineProgress
<1>5. ASSUME Pipeline!AggTake PROVE PipelineInv' /\ PipelineProgress
  BY <1>5, AggTakeKeeps DEF PipelineProgress
<1>6. ASSUME Pipeline!AggFlush \/ Pipeline!AggLast
      PROVE  PipelineInv' /\ PipelineProgress
  BY <1>6, AggSendsKeeps DEF PipelineProgress
<1>7. ASSUME Pipeline!Consume PROVE PipelineInv' /\ PipelineProgress
  BY <1>7, ConsumeKeeps DEF PipelineProgress
<1> QED
  BY <1>1, <1>2, <1>3, <1>4, <1>5, <1>6, <1>7, Zenon
     DEF Pipeline!Next, Pipeline!Goroutines, Pipeline!ReaderStep

OutputInOrder == IsPrefix(output, input)

LEMMA OutputIsPrefix ==
  ASSUME PipelineInv
  PROVE  OutputInOrder
<1> DEFINE F == FlattenSeq(out)
           G == FlattenSeq(tmp)
<1>1. /\ output \in Stream /\ F \in Stream /\ buffer \in Stream
      /\ G \in Stream /\ hand \in Stream
  BY AggTypes
<1>2. (((output \o F) \o buffer) \o G) \o hand = input
  BY DEF PipelineInv, HasRead
<1> HIDE DEF F, G
<1>3. IsPrefix(output, (((output \o F) \o buffer) \o G) \o hand)
  BY <1>1, FirstOfFive DEF Stream
<1> QED BY <1>2, <1>3 DEF OutputInOrder

(* Each step of the pipeline is one of ByteFifo, or none. *)
LEMMA PipelineIsFifo ==
  ASSUME PipelineInv, PipelineInv', OutputInOrder', PipelineProgress
  PROVE  Pipeline!Fifo!Next \/ UNCHANGED <<input, output>>
<1> USE DEF Pipeline!Fifo!Next
<1>1. CASE UNCHANGED <<input, output>>
  BY <1>1
<1>2. ASSUME NEW n \in (Len(input) + 1)..wire,
             hand' = Bytes(Len(input) + 1, n), input' = input \o hand',
             UNCHANGED output
      PROVE  Pipeline!Fifo!Next
  <2>1. HasRead /\ hand' \in Stream
    BY DEF PipelineInv, HasRead
  <2>2. IsStrictPrefix(input, input')
    BY <1>2, <2>1, InputGrows
  <2> QED BY <1>2, <2>2, FifoNames DEF Pipeline!Fifo!Arrive
<1>3. ASSUME UNCHANGED input, Head(out) \in Stream,
             output' = output \o Head(out)
      PROVE  Pipeline!Fifo!Next \/ UNCHANGED <<input, output>>
  <2> DEFINE a == Head(out)
  <2>1. output \in Stream /\ a \in Stream
    BY <1>3, AggTypes
  <2> HIDE DEF a
  <2>2. CASE a = <<>>
    <3>1. output' = output
      BY <1>3, <2>1, <2>2, ConcatEmptySeq DEF a, Stream
    <3> QED BY <3>1, <1>3
  <2>3. CASE a # <<>>
    <3>1. IsStrictPrefix(output, output')
      BY <1>3, <2>1, <2>3, PrefixOfJoin DEF a, Stream
    <3>2. IsPrefix(output', input')
      BY DEF OutputInOrder
    <3> QED BY <3>1, <3>2, <1>3, FifoNames
            DEF Pipeline!Fifo!Deliver, Pipeline!Fifo!Leave
  <2> QED BY <2>2, <2>3
<1> QED BY <1>1, <1>2, <1>3 DEF PipelineProgress

---------------------------------------------------------------------------
(* The stream of the RFC 2217 connector.                                   *)

Words == {"d", "IAC", "SB", "COM", "s", "SE", "NOP", "DO", "DONT", "WILL",
          "WONT", "ECHO", "SGA", "BINARY"}
Refusals == {<<"DONT", "BINARY">>, <<"WONT", "BINARY">>}

Answer(c, o) ==
  IF o = "BINARY" /\ c \in {"DO", "WILL"}
  THEN <<<<IF c = "DO" THEN "DONT" ELSE "WONT", "BINARY">>>> ELSE <<>>

(* What is left of the phrase the reader is in: its bytes, what they show
   and what they make the reader refuse. *)
Left(b, s, r) ==
  \/ /\ mode = "normal" /\ r = <<>>
     /\ \/ b = <<>> /\ s = <<>>
        \/ b = <<"d">> /\ s = <<"d">>
        \/ b = <<"IAC", "IAC">> /\ s = <<"IAC">>
        \/ b = <<"IAC", "SB", "COM", "s", "IAC", "SE">> /\ s = <<"COM", "s">>
        \/ b = <<"COM", "s", "IAC", "SE">> /\ s = <<"COM", "s">>
        \/ b = <<"s", "IAC", "SE">> /\ s = <<"s">>
        \/ b = <<"IAC", "SE">> /\ s = <<>>
        \/ b = <<"IAC", "NOP">> /\ s = <<>>
  \/ /\ mode = "iac" /\ r = <<>>
     /\ \/ b = <<"IAC">> /\ s = <<"IAC">>
        \/ b = <<"SB", "COM", "s", "IAC", "SE">> /\ s = <<"COM", "s">>
        \/ b = <<"SE">> /\ s = <<>>
        \/ b = <<"NOP">> /\ s = <<>>
  \/ \E c \in Rfc!Commands, o \in {"ECHO", "SGA", "COM", "BINARY"} :
       /\ s = <<>> /\ r = Answer(c, o)
       /\ \/ mode = "normal" /\ b = <<"IAC", c, o>>
          \/ mode = "iac" /\ b = <<c, o>>
          \/ mode = "negotiate" /\ telnetCommand = c /\ b = <<o>>

Options == {"ECHO", "SGA", "COM", "BINARY"}

LEMMA OptionTypes ==
  ASSUME NEW c \in Rfc!Commands, NEW o \in Options
  PROVE  /\ <<"IAC", c, o>> \in Seq(Words) /\ <<c, o>> \in Seq(Words)
         /\ <<o>> \in Seq(Words) /\ Answer(c, o) \in Seq(Refusals)
BY DEF Rfc!Commands, Options, Words, Answer, Refusals

LEMMA LeftTypes ==
  ASSUME NEW b, NEW s, NEW r, Left(b, s, r)
  PROVE  b \in Seq(Words) /\ s \in Seq(Words) /\ r \in Seq(Refusals)
<1>2. <<>> \in Seq(Words) /\ <<>> \in Seq(Refusals)
  BY EmptySeq
<1>3. /\ <<"d">> \in Seq(Words) /\ <<"IAC", "IAC">> \in Seq(Words)
      /\ <<"IAC", "SB", "COM", "s", "IAC", "SE">> \in Seq(Words)
      /\ <<"COM", "s", "IAC", "SE">> \in Seq(Words)
      /\ <<"s", "IAC", "SE">> \in Seq(Words)
      /\ <<"IAC", "SE">> \in Seq(Words) /\ <<"IAC", "NOP">> \in Seq(Words)
      /\ <<"IAC">> \in Seq(Words) /\ <<"SE">> \in Seq(Words)
      /\ <<"SB", "COM", "s", "IAC", "SE">> \in Seq(Words)
      /\ <<"NOP">> \in Seq(Words) /\ <<"COM", "s">> \in Seq(Words)
      /\ <<"s">> \in Seq(Words)
  BY DEF Words
<1> QED BY <1>2, <1>3, OptionTypes DEF Left, Options

(* Of the options that are expected, each is still REQUESTED, so nothing is
   answered; the others are refused. *)
LEMMA Negotiated ==
  ASSUME expected = Rfc!Requested, NEW c \in Rfc!Commands,
         NEW o \in Options, Rfc!negotiateOption(c, o),
         sentOptions \in Seq(Refusals)
  PROVE  expected' = expected /\ sentOptions' = sentOptions \o Answer(c, o)
<1> DEFINE concerned == {k \in DOMAIN expected : expected[k].option = o}
           each == [k \in DOMAIN expected |->
                      IF k \in concerned
                      THEN Rfc!process(expected[k], c).sends ELSE <<>>]
           answers == FlattenSeq(each)
<1>1. /\ sentOptions' = sentOptions \o
            (IF concerned # {} THEN answers
             ELSE CASE c = "WILL" -> <<<<"WONT", o>>>>
                    [] c = "DO" -> <<<<"DONT", o>>>>
                    [] OTHER -> <<>>)
      /\ expected' = expected
  BY DEF Rfc!negotiateOption, Rfc!FlattenSeq, FlattenSeq
<1>2. /\ DOMAIN expected = 1..5
      /\ \A k \in 1..5 : expected[k].state = "REQUESTED"
      /\ \A k \in 1..5 : expected[k].option # "BINARY"
      /\ expected[1].option = "ECHO" /\ expected[2].option = "SGA"
      /\ expected[4].option = "COM"
  BY DEF Rfc!Requested, Rfc!Option
<1>3. concerned = {} <=> o = "BINARY"
  BY <1>2 DEF Options
<1>4. \A k \in 1..5 : Rfc!process(expected[k], c).sends = <<>>
  BY <1>2 DEF Rfc!process
<1>5. answers = <<>>
  <2>1. each \in Seq(Seq({}))
    <3>1. \A k \in 1..5 : each[k] = <<>>
      BY <1>2, <1>4
    <3>2. <<>> \in Seq({})
      BY EmptySeq
    <3>3. each \in [1..5 -> Seq({})]
      BY <1>2, <3>1, <3>2
    <3> QED BY <3>3, SeqDef
  <2> HIDE DEF each
  <2>2. answers \in Seq({})
    BY <2>1, FlattenType
  <2> HIDE DEF answers
  <2>3. Len(answers) \in Nat /\ \A k \in 1..Len(answers) : answers[k] \in {}
    BY <2>2, LenProperties, ElementOfSeq
  <2>4. Len(answers) = 0
    BY <2>3
  <2> QED BY <2>2, <2>4, EmptySeq
<1> HIDE DEF answers, concerned
<1>6. sentOptions \o <<>> = sentOptions
  BY ConcatEmptySeq
<1>7. CASE o = "BINARY"
  <2>1. concerned = {}
    BY <1>3, <1>7
  <2>2. (CASE c = "WILL" -> <<<<"WONT", o>>>> [] c = "DO" -> <<<<"DONT", o>>>>
           [] OTHER -> <<>>) = Answer(c, o)
    BY <1>7 DEF Answer, Rfc!Commands
  <2> QED BY <1>1, <2>1, <2>2
<1>8. CASE o # "BINARY"
  <2>1. concerned # {} /\ Answer(c, o) = <<>>
    BY <1>3, <1>8 DEF Answer
  <2> QED BY <1>1, <1>5, <2>1
<1> QED BY <1>7, <1>8, SMTT(30)

(* What the reader does with a byte. *)
LeftNext(b, s, r) == Left(b, s, r)'

LEMMA ByteOfPhrase ==
  ASSUME NEW b, NEW s, NEW r, Left(b, s, r), b # <<>>,
         Rfc!reader, Head(stream) = Head(b), expected = Rfc!Requested,
         sentOptions \in Seq(Refusals)
  PROVE  \E s1, r1 :
           /\ LeftNext(Tail(b), s1, r1)
           /\ \/ given' = given /\ s1 = s
              \/ given' = Append(given, Head(s)) /\ s1 = Tail(s) /\ s # <<>>
           /\ \/ sentOptions' = sentOptions /\ r1 = r
              \/ sentOptions' = sentOptions \o r /\ r1 = <<>>
           /\ expected' = expected
<1>1. CASE mode = "normal"
  <2>1. /\ mode' = IF Head(b) = "IAC" THEN "iac" ELSE "normal"
        /\ given' = IF Head(b) = "IAC" THEN given ELSE Append(given, Head(b))
        /\ UNCHANGED <<telnetCommand, expected, sentOptions>>
    BY <1>1 DEF Rfc!reader
  <2>2. /\ b = <<"d">> /\ s = <<"d">> /\ r = <<>>
        => /\ Left(Tail(b), Tail(s), r)' /\ Head(b) = Head(s)
           /\ Head(b) # "IAC" /\ s # <<>>
    BY <2>1 DEF Left
  <2>3. /\ b = <<"IAC", "IAC">> /\ s = <<"IAC">> /\ r = <<>>
        => Left(Tail(b), s, r)' /\ Head(b) = "IAC"
    BY <2>1 DEF Left
  <2>4. /\ b = <<"IAC", "SB", "COM", "s", "IAC", "SE">>
        /\ s = <<"COM", "s">> /\ r = <<>>
        => Left(Tail(b), s, r)' /\ Head(b) = "IAC"
    BY <2>1 DEF Left
  <2>5. /\ b = <<"COM", "s", "IAC", "SE">> /\ s = <<"COM", "s">> /\ r = <<>>
        => /\ Left(Tail(b), Tail(s), r)' /\ Head(b) = Head(s)
           /\ Head(b) # "IAC" /\ s # <<>>
    BY <2>1 DEF Left
  <2>6. /\ b = <<"s", "IAC", "SE">> /\ s = <<"s">> /\ r = <<>>
        => /\ Left(Tail(b), Tail(s), r)' /\ Head(b) = Head(s)
           /\ Head(b) # "IAC" /\ s # <<>>
    BY <2>1 DEF Left
  <2>7. b = <<"IAC", "SE">> /\ s = <<>> /\ r = <<>>
        => Left(Tail(b), s, r)' /\ Head(b) = "IAC"
    BY <2>1 DEF Left
  <2>9. b = <<"IAC", "NOP">> /\ s = <<>> /\ r = <<>>
        => Left(Tail(b), s, r)' /\ Head(b) = "IAC"
    BY <2>1 DEF Left
  <2>8. ASSUME NEW c \in Rfc!Commands, NEW o \in Options,
               b = <<"IAC", c, o>>, s = <<>>, r = Answer(c, o)
        PROVE Left(Tail(b), s, r)' /\ Head(b) = "IAC"
    BY <2>1, <2>8 DEF Left, Options
  <2> QED
    BY <2>1, <2>2, <2>3, <2>4, <2>5, <2>6, <2>7, <2>8, <2>9, <1>1
       DEF LeftNext, Left, Options
<1>2. CASE mode = "iac"
  <2>1. /\ Head(b) \in Rfc!Commands =>
             /\ mode' = "negotiate" /\ telnetCommand' = Head(b)
             /\ UNCHANGED <<given, expected, sentOptions>>
        /\ Head(b) \notin Rfc!Commands =>
             /\ mode' = "normal"
             /\ given' = IF Head(b) = "IAC" THEN Append(given, Head(b))
                         ELSE given
             /\ UNCHANGED <<telnetCommand, expected, sentOptions>>
    BY <1>2 DEF Rfc!reader
  <2>2. b = <<"IAC">> /\ s = <<"IAC">> /\ r = <<>>
        => /\ Left(Tail(b), Tail(s), r)' /\ Head(b) = "IAC" /\ Head(s) = "IAC"
           /\ Head(b) \notin Rfc!Commands /\ s # <<>>
    BY <2>1 DEF Left, Rfc!Commands
  <2>3. b = <<"SB", "COM", "s", "IAC", "SE">> /\ s = <<"COM", "s">> /\ r = <<>>
        => /\ Left(Tail(b), s, r)' /\ Head(b) # "IAC"
           /\ Head(b) \notin Rfc!Commands
    BY <2>1 DEF Left, Rfc!Commands
  <2>6. b = <<"SE">> /\ s = <<>> /\ r = <<>>
        => /\ Left(Tail(b), s, r)' /\ Head(b) # "IAC"
           /\ Head(b) \notin Rfc!Commands
    BY <2>1 DEF Left, Rfc!Commands
  <2>4. b = <<"NOP">> /\ s = <<>> /\ r = <<>>
        => /\ Left(Tail(b), s, r)' /\ Head(b) # "IAC"
           /\ Head(b) \notin Rfc!Commands
    BY <2>1 DEF Left, Rfc!Commands
  <2>5. ASSUME NEW c \in Rfc!Commands, NEW o \in Options,
               b = <<c, o>>, s = <<>>, r = Answer(c, o)
        PROVE  Left(Tail(b), s, r)' /\ Head(b) \in Rfc!Commands
    BY <2>1, <2>5 DEF Left, Options
  <2> QED BY <2>1, <2>2, <2>3, <2>4, <2>5, <2>6, <1>2
          DEF LeftNext, Left, Options
<1>3. CASE mode = "negotiate"
  <2>1. PICK c \in Rfc!Commands, o \in Options :
          s = <<>> /\ r = Answer(c, o) /\ telnetCommand = c /\ b = <<o>>
    BY <1>3 DEF Left, Options
  <2>2. Head(b) = o /\ Tail(b) = <<>>
    BY <2>1
  <2>3. mode' = "normal" /\ Rfc!negotiateOption(c, o) /\ given' = given
    BY <1>3, <2>1, <2>2 DEF Rfc!reader
  <2>4. expected' = expected /\ sentOptions' = sentOptions \o r
    BY <2>1, <2>3, Negotiated
  <2>5. Left(Tail(b), s, <<>>)'
    BY <2>1, <2>2, <2>3 DEF Left
  <2> QED BY <2>3, <2>4, <2>5 DEF LeftNext
<1> QED BY <1>1, <1>2, <1>3 DEF Left

(* What the phrases of the access server are. *)
bytesOf == [p \in Rfc!Phrases |-> p.bytes]
showsOf == [p \in Rfc!Phrases |-> Rfc!Shows(p)]
refusedOf == [p \in Rfc!Phrases |-> Rfc!Refused(p)]

LEMMA PhraseBegins ==
  ASSUME NEW p \in Rfc!Phrases
  PROVE  /\ p.bytes # <<>>
         /\ mode = "normal" => Left(p.bytes, Rfc!Shows(p), Rfc!Refused(p))
         /\ bytesOf[p] = p.bytes /\ showsOf[p] = Rfc!Shows(p)
         /\ refusedOf[p] = Rfc!Refused(p)
         /\ p.bytes \in Seq(Words) /\ Rfc!Shows(p) \in Seq(Words)
         /\ Rfc!Refused(p) \in Seq(Refusals)
<1> DEFINE b == p.bytes
           s == Rfc!Shows(p)
           r == Rfc!Refused(p)
           Good == /\ b # <<>>
                   /\ mode = "normal" => Left(b, s, r)
                   /\ b \in Seq(Words) /\ s \in Seq(Words)
                   /\ r \in Seq(Refusals)
<1>1. ASSUME p = [kind |-> "data", bytes |-> <<"d">>] PROVE Good
  <2>1. /\ b = <<"d">>
        /\ s = <<"d">> /\ r = <<>>
    BY <1>1 DEF Rfc!Shows, Rfc!Refused
  <2> HIDE DEF b, s, r
  <2>2. b # <<>> /\ (mode = "normal" => Left(b, s, r))
    BY <2>1 DEF Left
  <2>3. b \in Seq(Words) /\ s \in Seq(Words) /\ r \in Seq(Refusals)
    BY <2>1, EmptySeq DEF Words
  <2> QED BY <2>2, <2>3
<1>2. ASSUME p = [kind |-> "ff", bytes |-> <<"IAC", "IAC">>] PROVE Good
  <2>1. /\ b = <<"IAC", "IAC">>
        /\ s = <<"IAC">> /\ r = <<>>
    BY <1>2 DEF Rfc!Shows, Rfc!Refused
  <2> HIDE DEF b, s, r
  <2>2. b # <<>> /\ (mode = "normal" => Left(b, s, r))
    BY <2>1 DEF Left
  <2>3. b \in Seq(Words) /\ s \in Seq(Words) /\ r \in Seq(Refusals)
    BY <2>1, EmptySeq DEF Words
  <2> QED BY <2>2, <2>3
<1>3. ASSUME p = [kind |-> "sub",
                bytes |-> <<"IAC", "SB", "COM", "s", "IAC", "SE">>] PROVE Good
  <2>1. /\ b = <<"IAC", "SB", "COM", "s", "IAC", "SE">>
        /\ s = <<"COM", "s">> /\ r = <<>>
    BY <1>3 DEF Rfc!Shows, Rfc!Refused
  <2> HIDE DEF b, s, r
  <2>2. b # <<>> /\ (mode = "normal" => Left(b, s, r))
    BY <2>1 DEF Left
  <2>3. b \in Seq(Words) /\ s \in Seq(Words) /\ r \in Seq(Refusals)
    BY <2>1, EmptySeq DEF Words
  <2> QED BY <2>2, <2>3
<1>4. ASSUME p = [kind |-> "command", bytes |-> <<"IAC", "NOP">>]
      PROVE  Good
  <2>1. /\ b = <<"IAC", "NOP">>
        /\ s = <<>> /\ r = <<>>
    BY <1>4 DEF Rfc!Shows, Rfc!Refused
  <2> HIDE DEF b, s, r
  <2>2. b # <<>> /\ (mode = "normal" => Left(b, s, r))
    BY <2>1 DEF Left
  <2>3. b \in Seq(Words) /\ s \in Seq(Words) /\ r \in Seq(Refusals)
    BY <2>1, EmptySeq DEF Words
  <2> QED BY <2>2, <2>3
<1>5. ASSUME NEW c \in Rfc!Commands, NEW o \in Options,
             p = [kind |-> "option", bytes |-> <<"IAC", c, o>>]
      PROVE  Good
  <2>1. /\ b = <<"IAC", c, o>> /\ b # <<>> /\ s = <<>>
        /\ r = Answer(c, o)
    BY <1>5 DEF Rfc!Shows, Rfc!Refused, Answer
  <2> HIDE DEF b, s, r
  <2>2. mode = "normal" => Left(b, s, r)
    BY <2>1 DEF Left, Options
  <2>3. b \in Seq(Words) /\ s \in Seq(Words) /\ r \in Seq(Refusals)
    BY <2>1, OptionTypes, EmptySeq
  <2> QED BY <2>1, <2>2, <2>3
<1>6. Good
  <2> HIDE DEF Good, b, s, r
  <2>1. \/ p = [kind |-> "data", bytes |-> <<"d">>]
        \/ p = [kind |-> "ff", bytes |-> <<"IAC", "IAC">>]
        \/ p = [kind |-> "sub",
                bytes |-> <<"IAC", "SB", "COM", "s", "IAC", "SE">>]
        \/ p = [kind |-> "command", bytes |-> <<"IAC", "NOP">>]
        \/ \E c \in Rfc!Commands, o \in Options :
             p = [kind |-> "option", bytes |-> <<"IAC", c, o>>]
    BY DEF Rfc!Phrases, Options
  <2> QED BY <2>1, <1>1, <1>2, <1>3, <1>4, <1>5, Zenon
<1>7. bytesOf[p] = b /\ showsOf[p] = s /\ refusedOf[p] = r
  BY DEF bytesOf, showsOf, refusedOf
<1> HIDE DEF b, s, r
<1> QED BY <1>6, <1>7 DEF b, s, r

(* The bytes that were not read are the rest of a phrase and whole phrases;
   what was given and refused, with what these come to, is what all the
   phrases come to. *)
Unread(b, s, r, pend) ==
  /\ Left(b, s, r) /\ pend \in Seq(Rfc!Phrases)
  /\ stream = b \o Through(bytesOf, pend)
  /\ (given \o s) \o Through(showsOf, pend) = Through(showsOf, said)
  /\ (sentOptions \o r) \o Through(refusedOf, pend) = Through(refusedOf, said)

RfcInv ==
  /\ given \in Seq(Words) /\ sentOptions \in Seq(Refusals)
  /\ said \in Seq(Rfc!Phrases)
  /\ conn = "open" => expected = Rfc!Requested
  /\ \E b, s, r, pend : Unread(b, s, r, pend)

LEMMA ThroughTypes ==
  /\ Tells(bytesOf, Rfc!Phrases, Words)
  /\ Tells(showsOf, Rfc!Phrases, Words)
  /\ Tells(refusedOf, Rfc!Phrases, Refusals)
BY PhraseBegins DEF Tells, bytesOf, showsOf, refusedOf

LEMMA UnreadTypes ==
  ASSUME NEW pend \in Seq(Rfc!Phrases)
  PROVE  /\ Through(bytesOf, pend) \in Seq(Words)
         /\ Through(showsOf, pend) \in Seq(Words)
         /\ Through(refusedOf, pend) \in Seq(Refusals)
<1>1. [kind |-> "data", bytes |-> <<"d">>] \in Rfc!Phrases
  BY DEF Rfc!Phrases
<1>2. ASSUME NEW S, NEW F, Tells(F, Rfc!Phrases, S)
      PROVE  Through(F, pend) \in Seq(S)
  BY <1>1, <1>2, ThroughAppend
<1> QED BY <1>2, ThroughTypes

(* The first of the phrases that are unread. *)
LEMMA NextPhrase ==
  ASSUME NEW pend \in Seq(Rfc!Phrases), pend # <<>>
  PROVE  /\ Head(pend) \in Rfc!Phrases /\ Tail(pend) \in Seq(Rfc!Phrases)
         /\ Through(bytesOf, Tail(pend)) \in Seq(Words)
         /\ Through(showsOf, Tail(pend)) \in Seq(Words)
         /\ Through(refusedOf, Tail(pend)) \in Seq(Refusals)
         /\ Through(bytesOf, pend)
              = bytesOf[Head(pend)] \o Through(bytesOf, Tail(pend))
         /\ Through(showsOf, pend)
              = showsOf[Head(pend)] \o Through(showsOf, Tail(pend))
         /\ Through(refusedOf, pend)
              = refusedOf[Head(pend)] \o Through(refusedOf, Tail(pend))
<1>1. ASSUME NEW S, NEW F, Tells(F, Rfc!Phrases, S)
      PROVE  /\ Head(pend) \in Rfc!Phrases /\ Tail(pend) \in Seq(Rfc!Phrases)
             /\ Through(F, Tail(pend)) \in Seq(S)
             /\ Through(F, pend) = F[Head(pend)] \o Through(F, Tail(pend))
  BY <1>1, ThroughTail
<1> QED BY <1>1, ThroughTypes

(* The reader is at a phrase whose first byte is the next of the stream. *)
LEMMA AtAByte ==
  ASSUME RfcInv, stream # <<>>
  PROVE  \E b, s, r, pend : Unread(b, s, r, pend) /\ b # <<>>
<1>1. PICK b, s, r, pend : Unread(b, s, r, pend)
  BY DEF RfcInv
<1>2. CASE b # <<>>
  BY <1>1, <1>2
<1>3. CASE b = <<>>
  <2>1. s = <<>> /\ r = <<>> /\ mode = "normal"
    BY <1>1, <1>3 DEF Unread, Left
  <2>2. pend # <<>> /\ pend \in Seq(Rfc!Phrases)
    <3>1. pend = <<>> => stream = <<>> \o <<>>
      BY <1>1, <1>3, ThroughNone DEF Unread
    <3> QED BY <1>1, <3>1 DEF Unread
  <2> DEFINE p == Head(pend)
             q == Tail(pend)
             TB == Through(bytesOf, q)
             TS == Through(showsOf, q)
             TR == Through(refusedOf, q)
  <2>3. /\ p \in Rfc!Phrases /\ q \in Seq(Rfc!Phrases)
        /\ Through(bytesOf, pend) = bytesOf[p] \o TB
        /\ Through(showsOf, pend) = showsOf[p] \o TS
        /\ Through(refusedOf, pend) = refusedOf[p] \o TR
        /\ TB \in Seq(Words) /\ TS \in Seq(Words)
        /\ TR \in Seq(Refusals)
    BY <2>2, NextPhrase
  <2> HIDE DEF p, q, TB, TS, TR
  <2>4. /\ p.bytes # <<>> /\ Left(p.bytes, Rfc!Shows(p), Rfc!Refused(p))
        /\ bytesOf[p] = p.bytes /\ p.bytes \in Seq(Words)
        /\ showsOf[p] = Rfc!Shows(p) /\ Rfc!Shows(p) \in Seq(Words)
        /\ refusedOf[p] = Rfc!Refused(p) /\ Rfc!Refused(p) \in Seq(Refusals)
    BY <2>1, <2>3, PhraseBegins
  <2> DEFINE b1 == p.bytes
             s1 == Rfc!Shows(p)
             r1 == Rfc!Refused(p)
  <2>5. stream = b1 \o TB
    <3>1. /\ b1 \o TB \in Seq(Words)
      BY <2>3, <2>4, ConcatProperties
    <3> QED BY <3>1, <1>1, <1>3, <2>3, <2>4, ConcatEmptySeq DEF Unread
  <2>6. (given \o s1) \o TS = Through(showsOf, said)
    <3>1. /\ given \in Seq(Words) /\ s1 \in Seq(Words)
          /\ TS \in Seq(Words)
      BY <2>3, <2>4 DEF RfcInv
    <3>2. given \o (s1 \o TS) = Through(showsOf, said)
      BY <1>1, <2>1, <2>3, <2>4, <3>1, ConcatEmptySeq DEF Unread
    <3> HIDE DEF s1
    <3>4. (given \o s1) \o TS = given \o (s1 \o TS)
      BY ONLY <3>1
    <3> QED BY <3>2, <3>4
  <2>7. (sentOptions \o r1) \o TR = Through(refusedOf, said)
    <3>1. /\ sentOptions \in Seq(Refusals) /\ r1 \in Seq(Refusals)
          /\ TR \in Seq(Refusals)
      BY <2>3, <2>4 DEF RfcInv
    <3>2. sentOptions \o (r1 \o TR) = Through(refusedOf, said)
      BY <1>1, <2>1, <2>3, <2>4, <3>1, ConcatEmptySeq DEF Unread
    <3> HIDE DEF r1
    <3>4. (sentOptions \o r1) \o TR = sentOptions \o (r1 \o TR)
      BY ONLY <3>1
    <3> QED BY <3>2, <3>4
  <2>8. Unread(b1, s1, r1, q)
    BY <2>3, <2>4, <2>5, <2>6, <2>7 DEF Unread, TB, TS, TR
  <2> QED BY <2>4, <2>8
<1> QED BY <1>2, <1>3

LEMMA ReaderReads ==
  ASSUME RfcInv, Rfc!reader
  PROVE  RfcInv'
<1>1. PICK b, s, r, pend : Unread(b, s, r, pend) /\ b # <<>>
  <2>1. stream # <<>>
    BY DEF Rfc!reader
  <2> QED BY <2>1, AtAByte
<1> DEFINE TB == Through(bytesOf, pend)
           TS == Through(showsOf, pend)
           TR == Through(refusedOf, pend)
<1>2. /\ b \in Seq(Words) /\ s \in Seq(Words) /\ r \in Seq(Refusals)
      /\ TB \in Seq(Words) /\ TS \in Seq(Words) /\ TR \in Seq(Refusals)
      /\ pend \in Seq(Rfc!Phrases)
  <2>1. b \in Seq(Words) /\ s \in Seq(Words) /\ r \in Seq(Refusals)
    BY <1>1, LeftTypes DEF Unread
  <2>2. pend \in Seq(Rfc!Phrases)
    BY <1>1 DEF Unread
  <2> QED BY <2>1, <2>2, UnreadTypes
<1>3. /\ stream = b \o TB /\ (given \o s) \o TS = Through(showsOf, said)
      /\ (sentOptions \o r) \o TR = Through(refusedOf, said)
      /\ Left(b, s, r)
  BY <1>1 DEF Unread
<1> HIDE DEF TB, TS, TR
<1>4. Head(stream) = Head(b) /\ stream' = Tail(b) \o TB
  <2>1. Head(b \o TB) = Head(b) /\ Tail(b \o TB) = Tail(b) \o TB
    BY <1>1, <1>2, HeadOfJoin
  <2> QED BY <2>1, <1>3 DEF Rfc!reader
<1>5. /\ given \in Seq(Words) /\ sentOptions \in Seq(Refusals)
      /\ said \in Seq(Rfc!Phrases) /\ expected = Rfc!Requested
      /\ UNCHANGED <<conn, said>>
  BY DEF RfcInv, Rfc!reader
<1>6. PICK s1, r1 :
        /\ LeftNext(Tail(b), s1, r1)
        /\ \/ given' = given /\ s1 = s
           \/ given' = Append(given, Head(s)) /\ s1 = Tail(s) /\ s # <<>>
        /\ \/ sentOptions' = sentOptions /\ r1 = r
           \/ sentOptions' = sentOptions \o r /\ r1 = <<>>
        /\ expected' = expected
  <2>1. /\ Left(b, s, r) /\ b # <<>> /\ Rfc!reader
        /\ Head(stream) = Head(b) /\ expected = Rfc!Requested
        /\ sentOptions \in Seq(Refusals)
    BY <1>1, <1>3, <1>4, <1>5
  <2> QED BY ONLY <2>1, ByteOfPhrase
<1>7. given' \in Seq(Words) /\ given' \o s1 = given \o s
  <2>1. CASE given' = given /\ s1 = s
    BY <2>1, <1>5
  <2>2. CASE given' = Append(given, Head(s)) /\ s1 = Tail(s) /\ s # <<>>
    <3>1. /\ Append(given, Head(s)) \in Seq(Words)
          /\ Append(given, Head(s)) \o Tail(s) = given \o s
      BY <1>2, <1>5, <2>2, MoveHead
    <3> QED BY <3>1, <2>2
  <2> QED BY <1>6, <2>1, <2>2
<1>8. sentOptions' \in Seq(Refusals) /\ sentOptions' \o r1 = sentOptions \o r
  <2>1. sentOptions \o r \in Seq(Refusals)
    BY <1>2, <1>5, ConcatProperties
  <2> QED BY <2>1, <1>2, <1>5, <1>6, ConcatEmptySeq
<1>9. Unread(Tail(b), s1, r1, pend)'
  BY <1>2, <1>3, <1>4, <1>5, <1>6, <1>7, <1>8
     DEF LeftNext, Unread, TB, TS, TR
<1> QED BY <1>5, <1>6, <1>7, <1>8, <1>9 DEF RfcInv

LEMMA PhraseAdded ==
  ASSUME NEW S, NEW F, Tells(F, Rfc!Phrases, S),
         NEW w \in Seq(Rfc!Phrases), NEW p \in Rfc!Phrases
  PROVE  /\ Through(F, w) \in Seq(S)
         /\ Through(F, Append(w, p)) = Through(F, w) \o F[p]
BY ThroughAppend

LEMMA AccessServerSays ==
  ASSUME RfcInv, Rfc!Says
  PROVE  RfcInv'
<1>1. PICK b, s, r, pend : Unread(b, s, r, pend)
  BY DEF RfcInv
<1>2. PICK p \in Rfc!Phrases : said' = Append(said, p)
                               /\ stream' = stream \o p.bytes
  BY DEF Rfc!Says
<1>3. /\ UNCHANGED <<conn, mode, telnetCommand, given, expected, sentOptions>>
      /\ given \in Seq(Words) /\ sentOptions \in Seq(Refusals)
      /\ said \in Seq(Rfc!Phrases) /\ pend \in Seq(Rfc!Phrases)
      /\ b \in Seq(Words) /\ s \in Seq(Words) /\ r \in Seq(Refusals)
  BY <1>1, LeftTypes DEF RfcInv, Rfc!Says, Unread
<1> DEFINE q == Append(pend, p)
<1>4. q \in Seq(Rfc!Phrases) /\ said' \in Seq(Rfc!Phrases)
  BY <1>2, <1>3, AppendProperties
<1>5. ASSUME NEW S, NEW F, Tells(F, Rfc!Phrases, S), NEW x \in Seq(S),
             x \o Through(F, pend) = Through(F, said)
      PROVE  x \o Through(F, q) = Through(F, said')
  <2> DEFINE t == Through(F, pend)
             y == F[p]
  <2>1. /\ t \in Seq(S) /\ Through(F, q) = t \o y
        /\ Through(F, said') = Through(F, said) \o y /\ y \in Seq(S)
    <3>1. t \in Seq(S) /\ Through(F, q) = t \o y
      BY <1>3, <1>5, PhraseAdded
    <3>2. Through(F, Append(said, p)) = Through(F, said) \o y
      BY <1>3, <1>5, PhraseAdded
    <3>3. y \in Seq(S)
      BY <1>5 DEF Tells
    <3> QED BY <3>1, <3>2, <3>3, <1>2
  <2>2. x \o t = Through(F, said)
    BY <1>5
  <2> HIDE DEF t, y
  <2>3. (x \o t) \o y = x \o (t \o y)
    BY ONLY <1>5, <2>1
  <2> QED BY <2>1, <2>2, <2>3
<1>6. (given \o s) \o Through(showsOf, q) = Through(showsOf, said')
  <2>1. given \o s \in Seq(Words)
    BY <1>3, ConcatProperties
  <2> QED BY <2>1, <1>1, <1>5, ThroughTypes DEF Unread
<1>7. (sentOptions \o r) \o Through(refusedOf, q) = Through(refusedOf, said')
  <2>1. sentOptions \o r \in Seq(Refusals)
    BY <1>3, ConcatProperties
  <2> QED BY <2>1, <1>1, <1>5, ThroughTypes DEF Unread
<1>8. stream' = b \o Through(bytesOf, q)
  <2> DEFINE t == Through(bytesOf, pend)
             y == p.bytes
  <2>1. t \in Seq(Words) /\ Through(bytesOf, q) = t \o y /\ y \in Seq(Words)
    <3>1. y = bytesOf[p] /\ y \in Seq(Words)
      BY PhraseBegins
    <3>2. Tells(bytesOf, Rfc!Phrases, Words)
      BY ThroughTypes
    <3>3. t \in Seq(Words) /\ Through(bytesOf, q) = t \o bytesOf[p]
      BY <3>2, <1>3, PhraseAdded
    <3> QED BY <3>1, <3>3
  <2>2. stream' = (b \o t) \o y
    BY <1>1, <1>2 DEF Unread
  <2> HIDE DEF t, y
  <2>4. b \in Seq(Words) /\ t \in Seq(Words) /\ y \in Seq(Words)
    BY <1>3, <2>1
  <2>3. (b \o t) \o y = b \o (t \o y)
    BY ONLY <2>4
  <2> QED BY <2>1, <2>2, <2>3
<1>9. Left(b, s, r)'
  BY <1>1, <1>3 DEF Unread, Left
<1>10. Unread(b, s, r, q)'
  BY <1>3, <1>4, <1>6, <1>7, <1>8, <1>9 DEF Unread
<1> QED BY <1>3, <1>4, <1>10 DEF RfcInv

LEMMA RfcKeeps ==
  ASSUME RfcInv, Rfc!RfcNext \/ UNCHANGED onlyRfc
  PROVE  RfcInv'
<1>1. PICK b, s, r, pend : Unread(b, s, r, pend)
  BY DEF RfcInv
<1>2. CASE Rfc!reader
  BY <1>2, ReaderReads
<1>3. CASE Rfc!Says
  BY <1>3, AccessServerSays
<1>4. CASE Rfc!Dial \/ Rfc!Close \/ UNCHANGED onlyRfc
  <2>1. /\ UNCHANGED <<stream, mode, telnetCommand, given, sentOptions, said>>
        /\ conn' = "open" => expected' = Rfc!Requested
    BY <1>4 DEF Rfc!Dial, Rfc!Close, onlyRfc, RfcInv
  <2>2. Left(b, s, r)'
    BY <1>1, <2>1 DEF Unread, Left
  <2>3. Unread(b, s, r, pend)'
    BY <1>1, <2>1, <2>2 DEF Unread
  <2> QED BY <2>1, <2>3 DEF RfcInv
<1> QED BY <1>2, <1>3, <1>4 DEF Rfc!RfcNext

LEMMA RfcIsExact ==
  ASSUME RfcInv
  PROVE  Rfc!Rfc2217Exact
<1>1. PICK b, s, r, pend : Unread(b, s, r, pend)
  BY DEF RfcInv
<1> DEFINE TB == Through(bytesOf, pend)
           TS == Through(showsOf, pend)
           TR == Through(refusedOf, pend)
<1>2. /\ given \in Seq(Words) /\ sentOptions \in Seq(Refusals)
      /\ said \in Seq(Rfc!Phrases) /\ pend \in Seq(Rfc!Phrases)
      /\ b \in Seq(Words) /\ s \in Seq(Words) /\ r \in Seq(Refusals)
  BY <1>1, LeftTypes DEF RfcInv, Unread
<1>3. TB \in Seq(Words) /\ TS \in Seq(Words) /\ TR \in Seq(Refusals)
  BY <1>2, UnreadTypes
<1>4. /\ Rfc!All(Rfc!Shows) = Through(showsOf, said)
      /\ Rfc!All(Rfc!Refused) = Through(refusedOf, said)
  <2>1. \A k \in DOMAIN said : said[k] \in Rfc!Phrases
    BY <1>2, ElementOfSeq
  <2>2. [k \in DOMAIN said |-> Rfc!Shows(said[k])]
          = [k \in DOMAIN said |-> showsOf[said[k]]]
    BY <2>1 DEF showsOf
  <2>3. [k \in DOMAIN said |-> Rfc!Refused(said[k])]
          = [k \in DOMAIN said |-> refusedOf[said[k]]]
    BY <2>1 DEF refusedOf
  <2>4. \A w : Rfc!FlattenSeq(w) = FlattenSeq(w)
    BY DEF Rfc!FlattenSeq, FlattenSeq
  <2>5. /\ Rfc!All(Rfc!Shows)
             = Rfc!FlattenSeq([k \in DOMAIN said |-> Rfc!Shows(said[k])])
        /\ Rfc!All(Rfc!Refused)
             = Rfc!FlattenSeq([k \in DOMAIN said |-> Rfc!Refused(said[k])])
    BY DEF Rfc!All
  <2> QED BY <2>2, <2>3, <2>4, <2>5 DEF Through
<1>5. /\ (given \o s) \o TS = Through(showsOf, said)
      /\ (sentOptions \o r) \o TR = Through(refusedOf, said)
      /\ stream = b \o TB
  BY <1>1 DEF Unread
<1>6. IsPrefix(given, Through(showsOf, said))
  <2>1. (given \o s) \o TS = given \o (s \o TS) /\ s \o TS \in Seq(Words)
    <3> HIDE DEF TS
    <3>1. given \in Seq(Words) /\ s \in Seq(Words) /\ TS \in Seq(Words)
      BY <1>2, <1>3
    <3> QED BY ONLY <3>1
  <2> QED BY <2>1, <1>2, <1>5, PrefixOfJoin
<1>7. IsPrefix(sentOptions, Through(refusedOf, said))
  <2>1. /\ (sentOptions \o r) \o TR = sentOptions \o (r \o TR)
        /\ r \o TR \in Seq(Refusals)
    <3> HIDE DEF TR
    <3>1. /\ sentOptions \in Seq(Refusals) /\ r \in Seq(Refusals)
          /\ TR \in Seq(Refusals)
      BY <1>2, <1>3
    <3> QED BY ONLY <3>1
  <2> QED BY <2>1, <1>2, <1>5, PrefixOfJoin
<1>8. ASSUME stream = <<>>
      PROVE  /\ given = Through(showsOf, said)
             /\ sentOptions = Through(refusedOf, said)
  <2>1. b = <<>> /\ TB = <<>>
    <3>1. Len(b) \in Nat /\ Len(TB) \in Nat /\ Len(b \o TB) = Len(b) + Len(TB)
      BY <1>2, <1>3, Joined
    <3>2. Len(b) = 0 /\ Len(TB) = 0
      BY <3>1, <1>5, <1>8, EmptySeq
    <3> QED BY <3>2, <1>2, <1>3, EmptySeq
  <2>2. s = <<>> /\ r = <<>>
    BY <1>1, <2>1 DEF Unread, Left
  <2>3. pend = <<>>
    <3>1. SUFFICES ASSUME pend # <<>> PROVE FALSE
      OBVIOUS
    <3>2. /\ Head(pend) \in Rfc!Phrases
          /\ Through(bytesOf, Tail(pend)) \in Seq(Words)
          /\ TB = bytesOf[Head(pend)] \o Through(bytesOf, Tail(pend))
      BY <1>2, <3>1, NextPhrase
    <3>3. bytesOf[Head(pend)] # <<>> /\ bytesOf[Head(pend)] \in Seq(Words)
      BY <3>2, PhraseBegins
    <3> DEFINE x == bytesOf[Head(pend)]
               y == Through(bytesOf, Tail(pend))
    <3>4. x \in Seq(Words) /\ y \in Seq(Words) /\ x # <<>> /\ x \o y = <<>>
      BY <2>1, <3>2, <3>3
    <3> HIDE DEF x, y
    <3>5. Len(x) \in Nat /\ Len(y) \in Nat /\ Len(x \o y) = Len(x) + Len(y)
          /\ Len(x) # 0
      BY <3>4, Joined, EmptySeq
    <3> QED BY <3>4, <3>5, EmptySeq
  <2>4. TS = <<>> /\ TR = <<>>
    BY <2>3, ThroughNone
  <2> QED BY <1>2, <1>5, <2>2, <2>4, ConcatEmptySeq
<1> QED
  BY <1>4, <1>6, <1>7, <1>8
     DEF Rfc!Rfc2217Exact, Rfc!DataExact, Rfc!NegotiationEnds,
         Rfc!IsPrefix, IsPrefix

---------------------------------------------------------------------------
(* The parts together.                                                     *)

IInv == PartsInv /\ RaisedInv /\ RfcInv

LEMMA InitInv ==
  ASSUME Init
  PROVE  IInv
<1> USE DEF Init, Telnet!Init, Pipeline!Init, Rfc!RfcInit
<1>a. Len(<<>>) <= Cap /\ Len(<<>>) <= TmpCap /\ Len(<<>>) <= OutCap
      /\ 0 \in 0..Len(<<>>)
  <2>1. Len(<<>>) = 0
    OBVIOUS
  <2>2. 0 <= Cap /\ 0 <= TmpCap /\ 0 <= OutCap /\ 0 \in 0..0
    BY MCStreamsAssumption
  <2> QED BY <2>1, <2>2
<1>1. <<>> \in Stream /\ <<>> \in Seq(Stream) /\ FlattenSeq(<<>>) = <<>>
      /\ Len(<<>>) = 0 /\ StreamLen \in Nat
  BY EmptySeq, FlattenEmpty, MCStreamsAssumption DEF Stream
<1>2. Bytes(1, 0) = <<>>
  <2>1. 1 \in Nat \ {0} /\ 0 \in Nat /\ 1 <= 0 + 1 /\ 0 <= StreamLen
        /\ 0 - 1 + 1 = 0
    BY <1>1
  <2>2. Bytes(1, 0) \in Stream /\ Len(Bytes(1, 0)) = 0
    BY <2>1, BytesType
  <2> QED BY <2>2, EmptySeq DEF Stream
<1>3. <<>> \o <<>> = <<>>
  BY <1>1, ConcatEmptySeq DEF Stream
<1>4. HasRead
  <2>1. /\ input = <<>> /\ hand = <<>> /\ wire = 0
        /\ ended = FALSE /\ cancelled = FALSE
    OBVIOUS
  <2> HIDE DEF Init
  <2>2. 0 \in 0..StreamLen /\ 0 <= 0
    BY <1>1
  <2> QED BY <1>1, <1>2, <2>1, <2>2 DEF HasRead
<1>5. ReaderRests /\ PipelineRests /\ CallsOfPart
  <2>1. ReaderRests /\ PipelineRests
    BY DEF ReaderRests, PipelineRests
  <2>2. kind \in Telnet!Calls /\ kind \in Ssh!Calls /\ kind = "ReadTo"
    BY DEF Telnet!Calls, Ssh!Calls
  <2>3. conMsgChecker = FALSE
    OBVIOUS
  <2> HIDE DEF Init
  <2> QED BY <2>1, <2>2, <2>3 DEF CallsOfPart
<1>6. ReaderInv
  <2>1. ReaderTypes
    <3>1. kind \in Console!Calls /\ res \in Console!Results
      BY DEF Console!Calls, Console!Results
    <3>2. /\ ch \in Seq(Stream) /\ Len(ch) <= Cap /\ inLen \in 0..Len(buf)
          /\ {buf, extra, taken, dropped, traced} \subseteq Stream
      BY <1>1, <1>a
    <3>3. /\ reader = "read" /\ closed = FALSE /\ pc = "idle"
          /\ ctxDone = FALSE /\ silent = FALSE /\ conMsgChecker = FALSE
      OBVIOUS
    <3> HIDE DEF Init
    <3> QED BY <3>1, <3>2, <3>3 DEF ReaderTypes
  <2>2. Held = <<>> /\ Fresh = <<>> /\ Resting
    <3>1. SubSeq(<<>>, 0 + 1, Len(<<>>)) = <<>>
      BY <1>1
    <3> QED BY <3>1, <1>1 DEF Held, Fresh, Resting
  <2>3. Behind
    BY <1>1, <1>2, <1>3, <2>2 DEF Behind, CallSide, TraceSide
  <2> QED BY <1>4, <2>1, <2>2, <2>3 DEF ReaderInv
<1>7. PipelineInv
  <2>1. PipelineTypes
    <3>1. /\ tmp \in Seq(Stream) /\ Len(tmp) <= TmpCap
          /\ out \in Seq(Stream) /\ Len(out) <= OutCap
          /\ buffer \in Stream /\ output \in Stream
      BY <1>1, <1>a
    <3>2. /\ rd = "read" /\ tmpClosed = FALSE /\ agg = "select"
          /\ outClosed = FALSE
      OBVIOUS
    <3> HIDE DEF Init
    <3> QED BY <3>1, <3>2 DEF PipelineTypes
  <2> QED BY <1>1, <1>2, <1>3, <1>4, <2>1 DEF PipelineInv, PipelineFlags
<1>8. PartsInv
  BY <1>5, <1>6, <1>7 DEF PartsInv, Readers
<1>9. RfcInv
  <2>1. Unread(<<>>, <<>>, <<>>, <<>>)
    <3>1. /\ Through(bytesOf, <<>>) = <<>> /\ Through(showsOf, <<>>) = <<>>
          /\ Through(refusedOf, <<>>) = <<>>
      BY ThroughNone
    <3>2. Left(<<>>, <<>>, <<>>)
      BY DEF Left
    <3> QED BY <3>1, <3>2, <1>3, EmptySeq DEF Unread
  <2> QED BY <2>1, EmptySeq DEF RfcInv
<1>10. RaisedInv
  BY DEF RaisedInv
<1> QED BY <1>8, <1>9, <1>10 DEF IInv

(* What a step does to the variables of the connectors and of the pipeline. *)
LEMMA StepOfPart ==
  ASSUME IInv, [Next]_vars
  PROVE  /\ part' = part
         /\ \/ /\ part \in Readers /\ ConnectorStep /\ CallsOfPart'
               /\ UNCHANGED onlyPipeline /\ UNCHANGED onlyRfc
            \/ /\ part = "pipeline" /\ Pipeline!Next
               /\ UNCHANGED onlyReader /\ UNCHANGED onlyRfc
            \/ /\ part = "rfc2217" /\ Rfc!RfcNext
               /\ UNCHANGED <<both, onlyReader, onlyPipeline>>
            \/ UNCHANGED <<both, onlyReader, onlyPipeline, onlyRfc>>
<1>1. CASE InReader("telnet", Telnet!Next)
  <2>1. /\ part = "telnet" /\ part' = part /\ Telnet!Next
        /\ UNCHANGED onlyPipeline /\ UNCHANGED onlyRfc
    BY <1>1 DEF InReader, Running
  <2>2. CallsOfPart'
    BY <2>1, TelnetCallsOnly DEF IInv, PartsInv, CallsOfPart
  <2> QED BY <2>1, <2>2, TelnetSteps DEF Readers
<1>2. CASE InReader("ssh", Ssh!Next)
  <2>1. /\ part = "ssh" /\ part' = part /\ Ssh!Next
        /\ UNCHANGED onlyPipeline /\ UNCHANGED onlyRfc
    BY <1>2 DEF InReader, Running
  <2>2. CallsOfPart'
    BY <2>1, SshCallsOnly DEF IInv, PartsInv, CallsOfPart
  <2> QED BY <2>1, <2>2, SshSteps DEF Readers
<1>3. CASE InReader("console", Console!Next)
  <2>1. /\ part = "console" /\ part' = part /\ Console!Next
        /\ UNCHANGED onlyPipeline /\ UNCHANGED onlyRfc
    BY <1>3 DEF InReader, Running
  <2>2. CallsOfPart'
    BY <2>1 DEF CallsOfPart
  <2> QED BY <2>1, <2>2 DEF Readers, ConnectorStep
<1>4. CASE InPipeline(Pipeline!Next)
  BY <1>4 DEF InPipeline, Running
<1>5. CASE InRfc(Rfc!RfcNext)
  BY <1>5 DEF InRfc, Running
<1>6. CASE UNCHANGED vars
  BY <1>6 DEF vars
<1> QED BY <1>1, <1>2, <1>3, <1>4, <1>5, <1>6, Zenon DEF Next

(* Where nothing happens, the invariants stay. *)
LEMMA ReaderStutters ==
  ASSUME UNCHANGED <<both, onlyReader>>
  PROVE  /\ ReaderInv => ReaderInv'
         /\ ReaderRests => ReaderRests'
         /\ CallsOfPart /\ part' = part => CallsOfPart'
         /\ RaisedInv => RaisedInv'
<1>1. /\ UNCHANGED <<wire, ended, input, hand, cancelled, reader, ch, closed>>
      /\ UNCHANGED <<pc, kind, buf, inLen, ctxDone, extra, taken, dropped>>
      /\ UNCHANGED <<traced, res, silent, conMsgChecker, raised>>
  BY DEF both, onlyReader
<1>2. HasRead' = HasRead /\ ReaderTypes' = ReaderTypes
  BY <1>1 DEF HasRead, ReaderTypes
<1>3. Resting' = Resting /\ Behind' = Behind
  BY <1>1 DEF Resting, Behind, CallSide, TraceSide, Held, Fresh, Resting
<1>4. ReaderInv => ReaderInv'
  BY <1>1, <1>2, <1>3 DEF ReaderInv
<1> QED BY <1>1, <1>4 DEF ReaderRests, CallsOfPart, RaisedInv

LEMMA NextInv ==
  ASSUME IInv, [Next]_vars
  PROVE  /\ IInv'
         /\ part' = part
         /\ part # "pipeline" => ReaderProgress
         /\ part = "pipeline" =>
              PipelineProgress /\ UNCHANGED <<taken, raised, res>>
<1>1. CASE /\ part \in Readers /\ ConnectorStep /\ CallsOfPart'
           /\ UNCHANGED onlyPipeline /\ UNCHANGED onlyRfc
  <2>1. ReaderInv' /\ ReaderProgress
    BY <1>1, ConnectorKeeps DEF IInv, PartsInv, Readers
  <2>2. PipelineRests'
    BY <1>1 DEF IInv, PartsInv, Readers, PipelineRests, onlyPipeline
  <2>3. RfcInv'
    BY <1>1, RfcKeeps DEF IInv
  <2>4. RaisedInv'
    <3>1. ReaderInv /\ RaisedInv
      BY <1>1 DEF IInv, PartsInv, Readers
    <3> QED BY <3>1, <2>1, <1>1, StaysAttached, RaisedKeeps
  <2> QED
    BY <1>1, <2>1, <2>2, <2>3, <2>4, StepOfPart DEF IInv, PartsInv, Readers
<1>2. CASE /\ part = "pipeline" /\ Pipeline!Next
           /\ UNCHANGED onlyReader /\ UNCHANGED onlyRfc
  <2>1. PipelineInv' /\ PipelineProgress
    BY <1>2, PipelineKeeps DEF IInv, PartsInv
  <2>2. ReaderRests' /\ UNCHANGED <<taken, raised, res>>
    BY <1>2 DEF IInv, PartsInv, ReaderRests, onlyReader
  <2>3. RfcInv'
    BY <1>2, RfcKeeps DEF IInv
  <2>4. part' = part
    BY StepOfPart
  <2>5. RaisedInv' /\ CallsOfPart'
    BY <1>2, <2>4 DEF IInv, PartsInv, onlyReader, RaisedInv, CallsOfPart
  <2> QED BY <1>2, <2>1, <2>2, <2>3, <2>4, <2>5 DEF IInv, PartsInv
<1>3. CASE /\ Rfc!RfcNext \/ UNCHANGED onlyRfc
           /\ UNCHANGED <<both, onlyReader, onlyPipeline>>
  <2>1. RfcInv'
    BY <1>3, RfcKeeps DEF IInv
  <2>2. PipelineRests => PipelineRests'
    BY <1>3 DEF PipelineRests, onlyPipeline
  <2>3. PipelineInv => PipelineInv'
    BY <1>3
       DEF PipelineInv, PipelineFlags, HasRead, PipelineTypes, both,
           onlyPipeline
  <2>4. ReaderProgress /\ PipelineProgress /\ UNCHANGED <<taken, raised, res>>
    BY <1>3 DEF ReaderProgress, PipelineProgress, both, onlyReader,
            onlyPipeline
  <2>5. part' = part
    BY StepOfPart
  <2>6. PartsInv' /\ RaisedInv'
    BY <1>3, <2>2, <2>3, <2>5, ReaderStutters DEF IInv, PartsInv
  <2> QED BY <2>1, <2>4, <2>5, <2>6 DEF IInv
<1> QED BY <1>1, <1>2, <1>3, StepOfPart

LEMMA Inductive == Spec => []IInv
<1>2. IInv /\ [Next]_vars => IInv'
  BY NextInv
<1> QED BY <1>2, InitInv, PTL DEF Spec

---------------------------------------------------------------------------
(* What the invariant says of the runs' properties.                        *)

LEMMA TypesOfParts ==
  ASSUME IInv
  PROVE  TypeOK
<1>1. ASSUME ReaderInv
      PROVE  Console!TypeOK
  <2>1. FlattenSeq(ch) \in Stream
    BY <1>1, FlattenType DEF ReaderInv, ReaderTypes, Stream
  <2> QED BY <1>1, <2>1, Names
          DEF ReaderInv, ReaderTypes, HasRead, Stream, Console!TypeOK
<1>2. ASSUME Console!TypeOK, kind \in Telnet!Calls
      PROVE  Telnet!TypeOK
  BY <1>2, Names
     DEF Console!TypeOK, Telnet!TypeOK, Console!Results, Telnet!Results
<1>3. ASSUME Console!TypeOK, kind \in Ssh!Calls
      PROVE  Ssh!TypeOK
  BY <1>3, Names
     DEF Console!TypeOK, Ssh!TypeOK, Console!Results, Ssh!Results
<1>4. ASSUME PipelineInv
      PROVE  Pipeline!TypeOK
  <2>1. FlattenSeq(out) \in Stream /\ FlattenSeq(tmp) \in Stream
    BY <1>4, AggTypes
  <2> QED BY <1>4, <2>1, Names
          DEF PipelineInv, PipelineFlags, PipelineTypes, HasRead, Stream,
              Pipeline!TypeOK
<1>5. CASE part = "telnet"
  BY <1>1, <1>2, <1>5 DEF IInv, PartsInv, CallsOfPart, TypeOK
<1>6. CASE part = "ssh"
  BY <1>1, <1>3, <1>6 DEF IInv, PartsInv, CallsOfPart, TypeOK
<1>7. CASE part = "console"
  BY <1>1, <1>7 DEF IInv, PartsInv, TypeOK
<1>8. CASE part = "pipeline"
  BY <1>4, <1>8 DEF IInv, PartsInv, TypeOK
<1>9. CASE part = "rfc2217"
  BY <1>9 DEF TypeOK
<1> QED BY <1>5, <1>6, <1>7, <1>8, <1>9 DEF IInv, PartsInv, Readers

LEMMA ReadsAreExact ==
  ASSUME IInv
  PROVE  ReadsExact
<1>1. ASSUME ReaderInv
      PROVE  Telnet!NothingLost /\ Telnet!TracedOnce
  BY <1>1, Names
     DEF ReaderInv, Behind, CallSide, TraceSide, Held, Fresh, Resting,
         Telnet!NothingLost, Telnet!TracedOnce
<1>2. ASSUME ReaderInv
      PROVE  Ssh!DropsOnlyAtEnd /\ Console!NoSendOnClosed
  <2>1. ASSUME dropped # <<>>
        PROVE  closed /\ ch = <<>> /\ hand = <<>> /\ Len(input) = wire
    BY <1>2, <2>1 DEF ReaderInv
  <2>2. <<>> \o <<>> = <<>>
    BY EmptySeq, ConcatEmptySeq
  <2>3. Ssh!DropsOnlyAtEnd
    BY <2>1, <2>2, Names, FlattenEmpty DEF Ssh!DropsOnlyAtEnd
  <2>4. Console!NoSendOnClosed
    BY <1>2 DEF ReaderInv, Console!NoSendOnClosed
  <2> QED BY <2>3, <2>4
<1>3. Ssh!DropsOnlyAtEnd /\ Console!NoSendOnClosed
  BY <1>2 DEF IInv, PartsInv, ReaderRests, Ssh!DropsOnlyAtEnd,
     Console!NoSendOnClosed
<1>4. Pipeline!NoSendOnClosed
  BY DEF IInv, PartsInv, PipelineInv, PipelineFlags, PipelineRests,
     Pipeline!NoSendOnClosed
<1>5. Rfc!Rfc2217Exact
  BY RfcIsExact DEF IInv
<1>6. part # "pipeline" => Telnet!NothingLost /\ Telnet!TracedOnce
  BY <1>1 DEF IInv, PartsInv
<1>7. Console!OnlyMessagesRaised /\ (raised # {} => part = "console")
  BY DEF IInv, PartsInv, RaisedInv, CallsOfPart, Console!OnlyMessagesRaised
<1> QED BY <1>3, <1>4, <1>5, <1>6, <1>7, TypesOfParts DEF ReadsExact

LEMMA PipelineIsExact ==
  ASSUME IInv
  PROVE  PipelineExact
<1>1. ASSUME PipelineInv
      PROVE  Pipeline!KeepsOrder
  BY <1>1, Names DEF PipelineInv, PipelineFlags, Pipeline!KeepsOrder
<1>2. ASSUME PipelineInv, outClosed, ~cancelled
      PROVE  output \o FlattenSeq(out) = Bytes(1, wire)
  <2>1. /\ buffer = <<>> /\ tmp = <<>> /\ hand = <<>> /\ Len(input) = wire
        /\ (((output \o FlattenSeq(out)) \o buffer) \o FlattenSeq(tmp)) \o hand
             = Bytes(1, Len(input))
    BY <1>2 DEF PipelineInv, PipelineFlags
  <2>2. output \o FlattenSeq(out) \in Stream
    BY <1>2, AggTypes
  <2> DEFINE a == output \o FlattenSeq(out)
  <2> HIDE DEF a
  <2>3. ((a \o <<>>) \o <<>>) \o <<>> = Bytes(1, wire)
    BY <2>1, FlattenEmpty DEF a
  <2>4. a \o <<>> = a
    BY <2>2, ConcatEmptySeq DEF a, Stream
  <2> QED BY <2>3, <2>4 DEF a
<1>3. Pipeline!ClosedIsComplete
  BY <1>2, Names
     DEF IInv, PartsInv, PipelineRests, Pipeline!ClosedIsComplete
<1> QED BY <1>1, <1>3 DEF IInv, PartsInv, PipelineExact

LEMMA PromptStep ==
  ASSUME IInv, [Next]_vars, res' \in Successes, res = "none"
  PROVE  /\ Len(taken') > Len(taken)
         /\ Telnet!Last(taken') \in
              (IF res' = "expr" THEN Prompts ELSE Messages)
         /\ \A i \in (Len(taken) + 1)..(Len(taken') - 1) :
              taken'[i] \notin Prompts
<1> DEFINE S == IF res' = "expr" THEN Prompts ELSE Messages
<1>1. ReaderInv /\ ConnectorStep /\ res \notin Successes
  <2>1. UNCHANGED res \/ (part \in Readers /\ ConnectorStep)
    BY StepOfPart DEF onlyReader
  <2> QED BY <2>1 DEF IInv, PartsInv, Readers, Successes
<1>2. PICK n : HandedUpTo(n, S)
  BY <1>1, OnlyMatchSucceeds
<1>3. Telnet!Last(taken') = taken'[Len(taken')]
  BY DEF Telnet!Last
<1> HIDE DEF S
<1>4. /\ Len(taken') > Len(taken) /\ taken'[Len(taken')] \in S
      /\ \A i \in (Len(taken) + 1)..(Len(taken') - 1) :
           taken'[i] \notin Prompts
  BY <1>1, <1>2, FirstPromptEnds
<1> QED BY <1>3, <1>4 DEF S

LEMMA FifoSteps ==
  ASSUME IInv, [Next]_vars
  PROVE  /\ part # "pipeline" =>
              Ssh!Fifo!Next \/ UNCHANGED <<input, taken, raised>>
         /\ part = "pipeline" =>
              Pipeline!Fifo!Next \/ UNCHANGED <<input, output>>
<1>1. /\ IInv' /\ part' = part
      /\ part # "pipeline" => ReaderProgress
      /\ part = "pipeline" => PipelineProgress
  BY NextInv
<1>2. CASE part # "pipeline"
  <2>1. ReaderInv /\ RaisedInv /\ ReaderInv' /\ ReaderProgress
    BY <1>1, <1>2 DEF IInv, PartsInv
  <2>2. TakenInOrder'
    BY <2>1, TakenIsPrefix, PTL
  <2> QED BY <1>2, <2>1, <2>2, ReaderIsFifo
<1>3. CASE part = "pipeline"
  <2>1. PipelineInv /\ PipelineInv' /\ PipelineProgress
    BY <1>1, <1>3 DEF IInv, PartsInv
  <2>2. OutputInOrder'
    BY <2>1, OutputIsPrefix, PTL
  <2> QED BY <1>3, <2>1, <2>2, PipelineIsFifo
<1> QED BY <1>2, <1>3

---------------------------------------------------------------------------
(* The theorems.                                                           *)

\* ReadsExact: whatever the connector, however the bytes arrive, and however
\* a read ends, what calls took, what is kept for the callers and what is on
\* its way are the bytes that were read, once and in order; only ReadTo of an
\* attached console keeps some of what it took from its caller, messages of
\* the console server with the text before them and never a prompt; the trace
\* has each byte once; and the RFC 2217 reader takes negotiations out of the
\* stream and nothing else (GenericReadX, stdoutReader, NetReader,
\* console.ReadTo, reader of rfc2217.go).
THEOREM ReadsAlwaysExact == Spec => []ReadsExact
<1>1. IInv => ReadsExact
  BY ReadsAreExact
<1> QED BY <1>1, Inductive, PTL

\* PipelineExact: chanReader and chanAgg, with their two queues of any
\* length, keep the order of the stream and close the channel behind its last
\* byte.
THEOREM PipelineAlwaysExact == Spec => []PipelineExact
<1>1. IInv => PipelineExact
  BY PipelineIsExact
<1> QED BY <1>1, Inductive, PTL

\* StopsAtFirstPrompt: a ReadTo that succeeds hands out the bytes up to the
\* first prompt after those handed out before (GenericReadX), or up to a
\* message of the console server with no prompt before it (console.ReadTo).
THEOREM FirstPromptEndsRead == Spec => StopsAtFirstPrompt
<1>1. IInv /\ [Next]_vars =>
        [(res' \in {"expr", "message"} /\ res = "none" /\ kind = "ReadTo") =>
           /\ Len(taken') > Len(taken)
           /\ Telnet!Last(taken') \in
                (IF res' = "expr" THEN Prompts ELSE Messages)
           /\ \A i \in (Len(taken) + 1)..(Len(taken') - 1) :
                taken[i]' \notin Prompts]_(Telnet!vars)
  BY PromptStep DEF Successes
<1> QED BY <1>1, Inductive, PTL
        DEF Spec, StopsAtFirstPrompt, Telnet!StopsAtFirstPrompt

\* ImplementsFifo: each read of a connector, and each step of the goroutines
\* behind it, is a step of ByteFifo: bytes arrive, are handed out from the
\* front, give way to an exception there (console.ReadTo), or the last of
\* them are put back.
THEOREM ReadsImplementFifo == Spec => ImplementsFifo
<1>1. Init => Ssh!Fifo!Init /\ Pipeline!Fifo!Init
  BY DEF Init, Telnet!Init, Pipeline!Init, Ssh!Fifo!Init, Pipeline!Fifo!Init
<1>2. IInv /\ [Next]_vars =>
        [part # "pipeline" =>
           Ssh!Fifo!Next \/ UNCHANGED <<input, taken, raised>>]_vars
  BY FifoSteps
<1>3. IInv /\ [Next]_vars =>
        [part = "pipeline" =>
           Pipeline!Fifo!Next \/ UNCHANGED <<input, output>>]_vars
  BY FifoSteps
<1> QED BY <1>1, <1>2, <1>3, Inductive, PTL DEF Spec, ImplementsFifo

=============================================================================
