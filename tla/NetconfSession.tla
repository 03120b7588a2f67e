--------------------------- MODULE NetconfSession ---------------------------
(***************************************************************************)
(* A NETCONF device: Connect (the exchange of hellos) and Execute over     *)
(* end-of-message framing (1.0) or chunked framing (1.1).  The connector   *)
(* keeps what a failed read had taken, and a reply is not matched with the *)
(* message id of its request: after a timeout the stream decides what the  *)
(* next call gets.  A token stands for a run of bytes; the payload of a    *)
(* reply may hold bytes that look like chunk headers.                      *)
(***************************************************************************)
EXTENDS Naturals, Sequences, FiniteSets

CONSTANTS Payloads,     \* what a device may reply: sequences of kinds
          MaxRequests,
          EomWindow,    \* the last tokens in which "]]>]]>" is looked for
          HeaderWindow, \* the first tokens in which a header is looked for
          MaxBuffer     \* maxBufferSize

\* A reply is one element; of its text, some may look like a header or be
\* forbidden in XML, but none is a tag or the end marker.
Text == {"text", "bad", "fakeSize", "fakeEnd"}
ProperPayloads ==
  \A p \in Payloads :
    /\ p \in Seq(Text \cup {"open", "close"}) /\ Len(p) > 1
    /\ p[1] = "open" /\ p[Len(p)] = "close"
    /\ \A i \in 2..(Len(p) - 1) : p[i] \in Text

ASSUME NetconfAssumption == ProperPayloads /\ HeaderWindow \in Nat

VARIABLES server,       \* what the server's hello announces: 10, 11 or bad
          ver,          \* NetconfDevice.netconfVer, 0 before Connect
          pipe, nbuf,   \* tokens on their way, tokens the connector holds
          npc, need,    \* where the caller is; size of the chunk to read
          acc,          \* the buffer of readChunked
          msgId,        \* NetconfDevice.messageID
          rpcs,         \* requests the device has not answered
          out,          \* what the device has not yet sent of its answer
          sent,         \* payload of every reply so far (history)
          replies,      \* what Execute returned: request and tokens
          failed        \* a call has failed

netconfVars == <<server, ver, pipe, nbuf, npc, need, acc, msgId, rpcs, out,
                 sent, replies, failed>>

\* What it is, of which reply, at which place, and the size a header gives.
Token(k, r, i, n) == [k |-> k, r |-> r, i |-> i, n |-> n]
IsHeader(t) == t.k \in {"size", "end", "fakeSize", "fakeEnd"}
MinOf(S) == CHOOSE i \in S : \A j \in S : i <= j
From(s, i) == SubSeq(s, i, Len(s))
Upto(s, i) == SubSeq(s, 1, i)

NetconfInit ==
  /\ server \in {10, 11, 0} /\ ver = 0 /\ npc = "hello" /\ need = 0
  /\ pipe = <<Token("hello", 0, 0, server), Token("eom", 0, 0, 0)>>
  /\ nbuf = <<>> /\ acc = <<>>
  /\ msgId = 0 /\ rpcs = <<>> /\ out = <<>> /\ sent = <<>>
  /\ replies = <<>> /\ failed = FALSE

---------------------------------------------------------------------------
(* The two expressions the connector reads to.                             *)

EomMatches == {i \in 1..Len(nbuf) : nbuf[i].k = "eom"
                                     /\ i > Len(nbuf) - EomWindow}
HeaderMatches == {i \in 1..Len(nbuf) : IsHeader(nbuf[i]) /\ i <= HeaderWindow}

CanRead ==
  CASE npc \in {"hello", "eom"} -> EomMatches # {}
    [] npc = "size" -> HeaderMatches # {}
    [] npc = "data" -> Len(nbuf) >= need
    [] OTHER -> FALSE

Reading == npc \in {"hello", "eom", "size", "data"}

\* Bytes arrive in any portions while a read waits.
Deliver ==
  /\ Reading /\ ~CanRead
  /\ \E n \in 1..Len(pipe) :
       nbuf' = nbuf \o Upto(pipe, n) /\ pipe' = From(pipe, n + 1)
  /\ UNCHANGED <<server, ver, npc, need, acc, msgId, rpcs, out, sent,
                 replies, failed>>

\* Read timeout, end of the context or of the connection.  A device whose
\* Connect failed is closed by its user.
ReadGivesUp ==
  /\ Reading /\ ~CanRead
  /\ npc' = IF npc = "hello" THEN "closed" ELSE "idle"
  /\ failed' = TRUE
  /\ UNCHANGED <<server, ver, pipe, nbuf, need, acc, msgId, rpcs, out, sent,
                 replies>>

---------------------------------------------------------------------------
(* Connect.                                                                *)

\* The hello ends the first read; a 1.1 server is spoken to in chunks.
ReadHello ==
  /\ npc = "hello" /\ EomMatches # {}
  /\ LET i == MinOf(EomMatches) IN
       /\ nbuf' = From(nbuf, i + 1)
       /\ IF nbuf[1].n = 0
          THEN npc' = "closed" /\ failed' = TRUE /\ UNCHANGED ver
          ELSE npc' = "idle" /\ ver' = nbuf[1].n /\ UNCHANGED failed
  /\ UNCHANGED <<server, pipe, need, acc, msgId, rpcs, out, sent, replies>>

---------------------------------------------------------------------------
(* The device: it answers its requests one after the other.                *)

\* A 1.0 reply ends with the marker; a 1.1 reply goes out chunk by chunk.
AnswerRequest ==
  /\ rpcs # <<>> /\ out = <<>> /\ rpcs' = Tail(rpcs)
  /\ \E kinds \in Payloads :
       LET p == [i \in 1..Len(kinds) |-> Token(kinds[i], Head(rpcs), i, 3)]
       IN /\ sent' = Append(sent, p)
          /\ IF server = 11 THEN out' = p /\ UNCHANGED pipe
             ELSE /\ pipe' = pipe \o Append(p, Token("eom", Head(rpcs),
                                                    Len(p) + 1, 0))
                  /\ UNCHANGED out
  /\ UNCHANGED <<server, ver, nbuf, npc, need, acc, msgId, replies, failed>>

\* The first n tokens of s as a chunk behind its header; behind the last
\* chunk, the end of the message.
Framed(s, n) ==
  LET size == Token("size", s[1].r, s[1].i, n)
      end == Token("end", s[1].r, s[1].i + n, 0)
      chunk == Upto(s, n)
  IN <<size>> \o (IF n = Len(s) THEN Append(chunk, end) ELSE chunk)

SendChunk ==
  /\ \E n \in 1..Len(out) :
       /\ pipe' = pipe \o Framed(out, n)
       /\ out' = From(out, n + 1)
  /\ UNCHANGED <<server, ver, nbuf, npc, need, acc, msgId, rpcs, sent, replies,
                 failed>>

---------------------------------------------------------------------------
(* ExecuteCtx.                                                             *)

\* formatCmd, then the request is written in the framing of the session.
Execute ==
  /\ npc = "idle" /\ msgId < MaxRequests
  /\ msgId' = msgId + 1 /\ rpcs' = Append(rpcs, msgId + 1)
  /\ npc' = IF ver = 10 THEN "eom" ELSE "size"
  /\ acc' = <<>>
  /\ UNCHANGED <<server, ver, pipe, nbuf, need, out, sent, replies, failed>>

IsTag(t) == t.k \in {"open", "close", "eom"}

\* Where the first element of s starts and ends, 0 when s does not parse: a
\* closing tag before any opening one, an opening tag inside, a bare "]]>".
Tags(s) == {i \in 1..Len(s) : IsTag(s[i])}
Root(s) == s[MinOf(Tags(s))]
RootEnd(s) ==
  LET first == MinOf(Tags(s))
      rest == {i \in Tags(s) : i > first}
  IN IF Tags(s) = {} \/ rest = {} THEN 0
     ELSE IF s[first].k = "open" /\ s[MinOf(rest)].k = "close"
     THEN MinOf(rest) ELSE 0

\* xml.Unmarshal, and once more without the characters XML forbids when one
\* of them stopped the first try: nothing is left of their run.
Clean(s) ==
  [i \in 1..Len(s) |-> IF s[i].k = "bad" THEN Token("empty", s[i].r, s[i].i, 0)
                      ELSE s[i]]
Parsed(s) ==
  IF \E i \in 1..RootEnd(s) : s[i].k = "bad" THEN Clean(s) ELSE s

Finish(s) ==
  /\ npc' = "idle"
  /\ IF RootEnd(s) = 0 THEN failed' = TRUE /\ UNCHANGED replies
     ELSE /\ replies' = Append(replies, [to |-> msgId, body |-> Parsed(s)])
          /\ UNCHANGED failed

\* cmd10.
ReadEom ==
  /\ npc = "eom" /\ EomMatches # {}
  /\ LET i == MinOf(EomMatches) IN
       nbuf' = From(nbuf, i + 1) /\ Finish(Upto(nbuf, i - 1))
  /\ UNCHANGED <<server, ver, pipe, need, acc, msgId, rpcs, out, sent>>

\* The header of the next chunk, or the end of the message.
ReadSize ==
  /\ npc = "size" /\ HeaderMatches # {}
  /\ LET i == MinOf(HeaderMatches) IN
       /\ nbuf' = From(nbuf, i + 1)
       /\ IF nbuf[i].k \in {"end", "fakeEnd"}
          THEN Finish(acc \o Upto(nbuf, i - 1)) /\ UNCHANGED need
          ELSE /\ npc' = "data" /\ need' = nbuf[i].n
               /\ UNCHANGED <<replies, failed>>
  /\ UNCHANGED <<server, ver, pipe, acc, msgId, rpcs, out, sent>>

\* What only looks like a header may hold more digits than an int does.
SizeOverflows ==
  /\ npc = "size" /\ HeaderMatches # {}
  /\ LET i == MinOf(HeaderMatches) IN
       nbuf[i].k = "fakeSize" /\ nbuf' = From(nbuf, i + 1)
  /\ npc' = "idle" /\ failed' = TRUE
  /\ UNCHANGED <<server, ver, pipe, need, acc, msgId, rpcs, out, sent,
                 replies>>

\* Mutant of ReadData: the chunk is what comes before the next header.
ReadDataToHeader ==
  /\ npc = "data" /\ Len(nbuf) >= need /\ HeaderMatches # {}
  /\ npc' = "size" /\ acc' = acc \o Upto(nbuf, MinOf(HeaderMatches) - 1)
  /\ nbuf' = From(nbuf, MinOf(HeaderMatches))
  /\ UNCHANGED <<server, ver, pipe, need, msgId, rpcs, out, sent, replies,
                 failed>>

\* A chunk by its length, whatever it holds.
ReadData ==
  /\ npc = "data" /\ Len(nbuf) >= need
  /\ nbuf' = From(nbuf, need + 1)
  /\ IF Len(acc) > MaxBuffer
     THEN npc' = "idle" /\ failed' = TRUE /\ UNCHANGED acc
     ELSE npc' = "size" /\ acc' = acc \o Upto(nbuf, need) /\ UNCHANGED failed
  /\ UNCHANGED <<server, ver, pipe, need, msgId, rpcs, out, sent, replies>>

NetconfNext ==
  \/ Deliver \/ ReadGivesUp \/ ReadHello \/ AnswerRequest \/ SendChunk
  \/ Execute \/ ReadEom \/ ReadSize \/ SizeOverflows \/ ReadData

NetconfSpec == NetconfInit /\ [][NetconfNext]_netconfVars

---------------------------------------------------------------------------

\* Until a call fails each reply is the payload of its own request, without
\* the characters XML forbids, however it was cut into chunks, cut by the
\* transport, and whatever headers its bytes imitate.
ReplyExact ==
  ~failed =>
    /\ Len(replies) <= Len(sent)
    /\ \A i \in 1..Len(replies) :
         replies[i].to = i /\ replies[i].body = Clean(sent[i])

\* Also when earlier calls failed and left their replies in the stream:
\* replies come in the order of their requests, none twice, none to a later
\* request than the caller's, and none is put together from two replies.
RepliesInOrder ==
  \A i \in 1..Len(replies) :
    LET body == replies[i].body root == Root(body) IN
    /\ root.r <= replies[i].to /\ body[RootEnd(body)].r = root.r
    /\ \A j \in 1..(i - 1) : Root(replies[j].body).r < root.r

\* NetconfDevice: a reply is what the device sent, until a call has failed,
\* and replies always come in the order of the requests.
NetconfWorks == ReplyExact /\ RepliesInOrder
=============================================================================
