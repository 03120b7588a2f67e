------------------------------ MODULE PairCheck ------------------------------
(***************************************************************************)
(* gconsolecheck, one pair of console ports (runner.go, codec.go).  Two    *)
(* sessions are opened in parallel, then each scenario writes known data   *)
(* into one port or both and expects it, exactly and with nothing after    *)
(* it, at the other.  The conserver protocol is in between: a byte 0x05    *)
(* is written as a quote command that the server acknowledges, a 0xff is   *)
(* doubled both ways, and the acknowledgements must be taken out of the    *)
(* stream wherever a read happens to cut it.                               *)
(***************************************************************************)
EXTENDS Naturals, SequencesExt

CONSTANTS Selections, \* the command lines: sequences of scenario names
          ChunkSize,  \* transportChunkSize, in bytes of the model
          MaxRounds,  \* bound: chunks of a soak before its deadline
          Faulty      \* bound: whose connection may be noisy or dropped

Sides == {"L", "R"}
Other(s) == IF s = "L" THEN "R" ELSE "L"

VARIABLES pc,        \* "connect", "run", "chunk", "quiet", "passed", "failed"
          plan,      \* the steps that are left, over all scenarios
          ses,       \* the two conserverDataSessions
          task,      \* the goroutines of the current step
          cur,       \* [side -> the data that side writes in this chunk]
          got,       \* [side -> what its ReadData has collected]
          err,       \* the first error of the step: what, and why
          ended,     \* opCtx is done
          toPort, inbox,   \* the two directions of each connection
          wiring,    \* how the serial ports are cabled
          fault,     \* "none", "lost" or "extra" (a byte), "dropped" (a
                     \* connection)
          stopped,   \* a deadline passed or the program was interrupted
          hasty      \* the read timeout is below the quiet window

vars == <<pc, plan, ses, task, cur, got, err, ended, toPort, inbox, wiring,
          fault, stopped, hasty>>

---------------------------------------------------------------------------
(* codec.go.  Bytes: "A" is 0x05, "C" is 0xff; "[" and "]" are the start   *)
(* and the rest of the text "[quote \005]": data may hold the start.       *)

encodeConserverData(data) ==
  [i \in DOMAIN data |-> CASE data[i] = "A" -> "quoted"
                           [] data[i] = "C" -> "doubled"
                           [] OTHER -> data[i]]

Count(b, data) == Len(SelectSeq(data, LAMBDA x : x = b))

\* A mutation: what was kept as a possible start of a quote is dropped with
\* the last acknowledgement.
RECURSIVE filterDropsRest(_, _)
filterDropsRest(quotes, buf) ==
  LET at == {i \in 1..(Len(buf) - 1) : buf[i] = "[" /\ buf[i + 1] = "]"}
      keep == IF buf # <<>> /\ Last(buf) = "[" THEN 1 ELSE 0
      i == CHOOSE j \in at : \A k \in at : j <= k
  IN IF quotes = 0 THEN [out |-> buf, quotes |-> 0, buf |-> <<>>]
     ELSE IF at # {}
     THEN LET rest == filterDropsRest(quotes - 1,
                                      SubSeq(buf, i + 2, Len(buf)))
          IN [rest EXCEPT !.out = SubSeq(buf, 1, i - 1)]
     ELSE [out |-> SubSeq(buf, 1, Len(buf) - keep), quotes |-> quotes,
           buf |-> SubSeq(buf, Len(buf) - keep + 1, Len(buf))]

RECURSIVE filterQuoteResponses(_, _)
filterQuoteResponses(quotes, buf) ==
  LET at == {i \in 1..(Len(buf) - 1) : buf[i] = "[" /\ buf[i + 1] = "]"}
      keep == IF buf # <<>> /\ Last(buf) = "[" THEN 1 ELSE 0
      cut(n) == SubSeq(buf, n, Len(buf))
  IN IF quotes = 0 THEN [out |-> buf, quotes |-> 0, buf |-> <<>>]
     ELSE IF at # {}
     THEN LET i == CHOOSE j \in at : \A k \in at : j <= k
              rest == filterQuoteResponses(quotes - 1, cut(i + 2))
          IN [rest EXCEPT !.out = SubSeq(buf, 1, i - 1) \o @]
     ELSE [out |-> SubSeq(buf, 1, Len(buf) - keep), quotes |-> quotes,
           buf |-> cut(Len(buf) - keep + 1)]

\* Decode: a doubled command byte is one byte; any other command is refused.
Decode(pending, data) ==
  FoldLeft(LAMBDA d, b :
            IF d.pending
            THEN [out |-> Append(d.out, b), pending |-> FALSE,
                  ok |-> d.ok /\ b = "C"]
            ELSE IF b = "C" THEN [d EXCEPT !.pending = TRUE]
            ELSE [d EXCEPT !.out = Append(@, b)],
          [out |-> <<>>, pending |-> pending, ok |-> TRUE], data)

\* Session s after it has taken data from its stream, and what it decoded.
decodeIncoming(s, data) ==
  LET f == filterQuoteResponses(ses[s].quotes, ses[s].buf \o data)
      d == Decode(ses[s].pending, f.out)
  IN [ok |-> d.ok, out |-> d.out,
      ses |-> [ses[s] EXCEPT !.quotes = f.quotes, !.buf = f.buf,
                             !.pending = d.pending]]

---------------------------------------------------------------------------
(* The scenarios, as chunks and quiet windows.                             *)

Quiet == [L |-> <<>>, R |-> <<>>]
Part(data, i) ==
  SubSeq(data, (i - 1) * ChunkSize + 1,
         IF i * ChunkSize < Len(data) THEN i * ChunkSize ELSE Len(data))
exchange(l, r) ==
  LET size == IF Len(l) > Len(r) THEN Len(l) ELSE Len(r)
  IN [i \in 1..((size + ChunkSize - 1) \div ChunkSize) |->
        [L |-> Part(l, i), R |-> Part(r, i)]]

testOneWay ==
  exchange(<<"l", "A", "[">>, <<>>) \o <<Quiet>>
    \o exchange(<<>>, <<"r", "C">>) \o <<Quiet>>
testAllBytes ==
  exchange(<<"[", "A", "C">>, <<"C", "A", "[">>) \o <<Quiet>>
testDiscovery == <<[L |-> <<"l">>, R |-> <<"r">>], Quiet>>
testRandomSoak(rounds) ==
  FlattenSeq([i \in 1..rounds |->
                exchange(<<"l", "A">>, <<"r", "[">>) \o <<Quiet>>])

runScenario(name, rounds) ==
  CASE name = "test_one_way" -> testOneWay
    [] name = "test_all_bytes" -> testAllBytes
    [] name = "test_discovery" -> testDiscovery
    [] name = "test_random_soak" -> testRandomSoak(rounds)

---------------------------------------------------------------------------
NewSession == [state |-> "none", quotes |-> 0, buf |-> <<>>,
               pending |-> FALSE, extra |-> <<>>]
NoTask == [s \in Sides |-> [rd |-> "done", wr |-> "done"]]
Empty == [s \in Sides |-> <<>>]

\* An error says what is wrong with the data and which error came with it.
Error(what, why) == [what |-> what, why |-> why]
NoError == Error("none", "none")

Init ==
  /\ pc = "connect" /\ err = NoError /\ ended = FALSE
  /\ \E rounds \in 1..MaxRounds, selected \in Selections :
       plan = FlattenSeq([i \in DOMAIN selected |->
                            runScenario(selected[i], rounds)])
  /\ ses = [s \in Sides |-> NewSession]
  /\ task = NoTask /\ cur = Empty /\ got = Empty
  /\ toPort = Empty /\ inbox = Empty
  /\ wiring \in {"cross", "loop", "open"}
  /\ fault = "none" /\ stopped = FALSE /\ hasty \in BOOLEAN

Closed(f) == [s \in Sides |-> IF f[s].state \in {"open", "dropped"}
                              THEN [f[s] EXCEPT !.state = "closed"]
                              ELSE f[s]]
Lines == <<toPort, inbox, wiring, fault>>
Step == <<plan, task, cur, got, ended>>

\* The two goroutines that call the factory; the group does not stop the
\* second when the first fails, and connectConserver closes the stream of a
\* connection that was not ready in time.
ConnectPort(s) ==
  /\ pc = "connect" /\ ses[s].state = "none"
  /\ \E r \in {"open", "failed"} : ses' = [ses EXCEPT ![s].state = r]
  /\ UNCHANGED <<pc, err, Step, Lines, stopped, hasty>>

Connected ==
  /\ pc = "connect" /\ \A s \in Sides : ses[s].state # "none"
  /\ IF \E s \in Sides : ses[s].state = "failed"
     THEN /\ pc' = "failed" /\ err' = Error("connect", "none")
          /\ ses' = Closed(ses)
     ELSE pc' = "run" /\ UNCHANGED <<err, ses>>
  /\ UNCHANGED <<Step, Lines, stopped, hasty>>

\* exchangeChunkWithComparator: up to four goroutines, of which the reads
\* start with what an earlier read decoded and did not use.
exchangeChunk ==
  /\ pc = "run" /\ plan # <<>> /\ Head(plan) # Quiet
  /\ pc' = "chunk" /\ plan' = Tail(plan) /\ cur' = Head(plan)
  /\ LET want(s) == Len(cur'[Other(s)])
         use(s) == IF Len(ses[s].extra) < want(s) THEN Len(ses[s].extra)
                   ELSE want(s)
     IN /\ task' = [s \in Sides |->
                      [rd |-> IF want(s) > 0 THEN "reads" ELSE "done",
                       wr |-> IF cur'[s] # <<>> THEN "starts" ELSE "done"]]
        /\ got' = [s \in Sides |-> SubSeq(ses[s].extra, 1, use(s))]
        /\ ses' = [s \in Sides |->
                     [ses[s] EXCEPT !.extra = SubSeq(@, use(s) + 1, Len(@))]]
  /\ ended' = stopped
  /\ UNCHANGED <<err, Lines, stopped, hasty>>

\* groupGo: the first error is kept before cancel wakes the others.
Fails(s, which, what, why) ==
  /\ task' = [task EXCEPT ![s][which] = "failed"]
  /\ err' = IF err = NoError THEN Error(what, why) ELSE err
  /\ ended' = TRUE

\* WriteData: the acknowledgements are counted before anything is written.
WriteStarts(s) ==
  /\ pc = "chunk" /\ task[s].wr = "starts"
  /\ IF ended THEN Fails(s, "wr", "write", "stopped") /\ UNCHANGED ses
     ELSE /\ task' = [task EXCEPT ![s].wr = "writes"]
          /\ ses' = [ses EXCEPT ![s].quotes = @ + Count("A", cur[s])]
          /\ UNCHANGED <<err, ended>>
  /\ UNCHANGED <<pc, plan, cur, got, Lines, stopped, hasty>>

WriteData(s) ==
  /\ pc = "chunk" /\ task[s].wr = "writes"
  /\ \/ /\ ses[s].state = "open"
        /\ toPort' = [toPort EXCEPT ![s] = @ \o encodeConserverData(cur[s])]
        /\ task' = [task EXCEPT ![s].wr = "done"]
        /\ UNCHANGED <<err, ended>>
     \/ /\ ses[s].state = "dropped"
        /\ task' = [task EXCEPT ![s].wr = "done"]
        /\ UNCHANGED <<toPort, err, ended>>
     \/ /\ ses[s].state \in {"closed", "dropped"}
        /\ Fails(s, "wr", "write", "closed") /\ UNCHANGED toPort
  /\ UNCHANGED <<pc, plan, ses, cur, got, inbox, wiring, fault, stopped,
                 hasty>>

Want(s) == Len(cur[Other(s)])

\* compareReadResult, after all bytes or after an error of the stream: what
\* came is compared in both cases, and less than was written is a mismatch of
\* the lengths.
compareReadResult(s, actual, readErr) ==
  LET expected == cur[Other(s)]
      what == IF actual = expected THEN "none"
              ELSE IF IsPrefix(actual, expected) THEN "length"
              ELSE "mismatch"
  IN IF what = "none" /\ readErr = "none"
     THEN task' = [task EXCEPT ![s].rd = "done"] /\ UNCHANGED <<err, ended>>
     ELSE Fails(s, "rd", what, readErr)

\* k bytes of the stream for a read that misses some: what is decoded of them
\* and used, and the session with the rest.
Take(s, k) ==
  LET missing == Want(s) - Len(got[s])
      r == decodeIncoming(s, SubSeq(inbox[s], 1, k))
      use == IF Len(r.out) < missing THEN Len(r.out) ELSE missing
  IN [ok |-> r.ok, used |-> SubSeq(r.out, 1, use),
      ses |-> [r.ses EXCEPT !.extra = IF r.ok
                 THEN @ \o SubSeq(r.out, use + 1, Len(r.out)) ELSE @]]

\* ReadSome takes what there is, up to what is missing; the read may cut a
\* quote response or a doubled byte in two.  The last one ends ReadData.  A
\* byte that cannot be decoded leaves nothing to compare.
ReadSome(s) ==
  /\ pc = "chunk" /\ task[s].rd = "reads" /\ Len(got[s]) < Want(s)
  /\ ses[s].state \in {"open", "dropped"}
  /\ \E k \in 1..(Want(s) - Len(got[s])) :
       /\ k <= Len(inbox[s])
       /\ LET r == Take(s, k)
          IN /\ ses' = [ses EXCEPT ![s] = r.ses]
             /\ IF r.ok
                THEN /\ got' = [got EXCEPT ![s] = @ \o r.used]
                     /\ IF Len(got'[s]) = Want(s)
                        THEN compareReadResult(s, got'[s], "none")
                        ELSE UNCHANGED <<task, err, ended>>
                ELSE /\ got' = [got EXCEPT ![s] = <<>>]
                     /\ compareReadResult(s, <<>>, "command")
       /\ inbox' = [inbox EXCEPT ![s] = SubSeq(@, k + 1, Len(@))]
  /\ UNCHANGED <<pc, plan, cur, toPort, wiring, fault, stopped, hasty>>

\* All of it was there: an earlier read had decoded more than it used.
ReadDone(s) ==
  /\ pc = "chunk" /\ task[s].rd = "reads" /\ Len(got[s]) = Want(s)
  /\ compareReadResult(s, got[s], "none")
  /\ UNCHANGED <<pc, plan, ses, cur, got, Lines, stopped, hasty>>

\* The timer of the streamer or the context ends ReadSome: what had arrived
\* is handed over with the error and decoded (decodeReadError).  The end of
\* the stream brings nothing.
ReadFails(s) ==
  /\ pc = "chunk" /\ task[s].rd = "reads" /\ Len(got[s]) < Want(s)
  /\ \/ /\ ended \/ ses[s].state = "open"
        /\ \E k \in 0..Len(inbox[s]) :
             LET r == Take(s, k)
                 all == got[s] \o (IF r.ok THEN r.used ELSE <<>>)
             IN /\ ses' = [ses EXCEPT ![s] = r.ses]
                /\ got' = [got EXCEPT ![s] = all]
                /\ inbox' = [inbox EXCEPT ![s] = SubSeq(@, k + 1, Len(@))]
                /\ compareReadResult(s, all,
                     IF ~r.ok THEN "command"
                     ELSE IF ended THEN "stopped" ELSE "timeout")
     \/ /\ ses[s].state \in {"closed", "dropped"}
        /\ compareReadResult(s, got[s], "closed")
        /\ UNCHANGED <<ses, got, inbox>>
  /\ UNCHANGED <<pc, plan, cur, toPort, wiring, fault, stopped, hasty>>

\* closeSessionsOnDone, for the deadline of a chunk and for the whole run.
WatcherCloses ==
  /\ \/ pc = "chunk" /\ ended
     \/ pc \in {"run", "quiet"} /\ stopped
  /\ Closed(ses) # ses
  /\ ses' = Closed(ses)
  /\ UNCHANGED <<pc, err, Step, Lines, stopped, hasty>>

Expires ==
  /\ pc \in {"run", "chunk", "quiet"} /\ ~stopped
  /\ stopped' = TRUE /\ ended' = TRUE
  /\ UNCHANGED <<pc, err, plan, task, cur, got, ses, Lines, hasty>>

AllDone == \A s \in Sides : /\ task[s].rd \in {"done", "failed"}
                             /\ task[s].wr \in {"done", "failed"}

\* runPair: the step is over; closeSessions is deferred.
StepEnds ==
  /\ pc \in {"chunk", "quiet"} /\ AllDone
  /\ IF err = NoError THEN pc' = "run" /\ UNCHANGED ses
     ELSE pc' = "failed" /\ ses' = Closed(ses)
  /\ UNCHANGED <<err, Step, Lines, stopped, hasty>>

assertQuiet ==
  /\ pc = "run" /\ plan # <<>> /\ Head(plan) = Quiet
  /\ pc' = "quiet" /\ plan' = Tail(plan)
  /\ task' = [s \in Sides |-> [rd |-> "reads", wr |-> "done"]]
  /\ cur' = Empty /\ got' = Empty /\ ended' = stopped
  /\ UNCHANGED <<ses, err, Lines, stopped, hasty>>

\* ReadAvailable: what is there before the window closes; some of it may
\* come later.
ReadAvailable(s) ==
  /\ pc = "quiet" /\ task[s].rd = "reads"
  /\ ses[s].state \in {"open", "dropped"}
  /\ \E k \in 0..Len(inbox[s]) :
       LET r == decodeIncoming(s, SubSeq(inbox[s], 1, k))
           e == CASE ~r.ok -> "command"
                  [] r.ok /\ r.ses.quotes # 0 -> "quotes"
                  [] r.ok /\ r.ses.quotes = 0 /\ r.ses.pending -> "command"
                  [] OTHER -> IF ses[s].extra \o r.out # <<>> THEN "extra"
                              ELSE "none"
       IN /\ ses' = [ses EXCEPT ![s] = [r.ses EXCEPT !.extra = <<>>]]
          /\ inbox' = [inbox EXCEPT ![s] = SubSeq(@, k + 1, Len(@))]
          /\ IF e = "none" THEN task' = [task EXCEPT ![s].rd = "done"]
                                /\ UNCHANGED <<err, ended>>
             ELSE Fails(s, "rd", e, "none")
  /\ UNCHANGED <<pc, plan, cur, got, toPort, wiring, fault, stopped, hasty>>

\* XRead fails: the context is done, the stream is at its end, or the read
\* timeout comes before the end of the window; what was left is dropped.
QuietFails(s) ==
  /\ pc = "quiet" /\ task[s].rd = "reads"
  /\ \/ ended /\ Fails(s, "rd", "read", "stopped")
     \/ /\ ses[s].state \in {"closed", "dropped"}
        /\ Fails(s, "rd", "read", "closed")
     \/ hasty /\ ses[s].state = "open" /\ Fails(s, "rd", "read", "timeout")
  /\ ses' = [ses EXCEPT ![s].extra = <<>>]
  /\ UNCHANGED <<pc, plan, cur, got, Lines, stopped, hasty>>

Passes ==
  /\ pc = "run" /\ plan = <<>>
  /\ pc' = "passed" /\ ses' = Closed(ses)
  /\ UNCHANGED <<err, Step, Lines, stopped, hasty>>

---------------------------------------------------------------------------
(* The console server and the cable (external).  What they do after the    *)
(* error that is reported is left out: nothing of it is compared any more. *)

\* The server acknowledges a quote to the writer and puts the byte on the
\* serial line, which may lose it.
Forward(s) ==
  /\ toPort[s] # <<>>
  /\ LET t == Head(toPort[s])
         raw == CASE t = "quoted" -> <<"A">>
                  [] t = "doubled" -> <<"C", "C">>
                  [] OTHER -> <<t>>
         ack(p) == IF p = s /\ t = "quoted" THEN <<"[", "]">> ELSE <<>>
         data(p) == IF \/ wiring = "cross" /\ p = Other(s)
                       \/ wiring = "loop" /\ p = s
                    THEN raw ELSE <<>>
         there(p) == ses[p].state # "dropped"
     IN \/ /\ inbox' = [p \in Sides |-> IF there(p)
                         THEN inbox[p] \o data(p) \o ack(p) ELSE inbox[p]]
           /\ UNCHANGED fault
        \/ /\ fault = "none" /\ wiring = "cross" /\ fault' = "lost"
           /\ inbox' = [p \in Sides |-> inbox[p] \o ack(p)]
  /\ toPort' = [toPort EXCEPT ![s] = Tail(@)]
  /\ UNCHANGED <<pc, err, ses, Step, wiring, stopped, hasty>>

\* A byte that nobody wrote.
Noise(s) ==
  /\ pc \in {"run", "chunk", "quiet"} /\ fault = "none" /\ wiring = "cross"
  /\ s \in Faulty
  /\ fault' = "extra"
  /\ inbox' = [inbox EXCEPT ![s] = Append(@, "x")]
  /\ UNCHANGED <<pc, err, ses, Step, toPort, wiring, stopped, hasty>>

\* The server drops a connection, with what it has not forwarded.
HangUp(s) ==
  /\ pc \in {"run", "chunk", "quiet"} /\ fault = "none" /\ wiring = "cross"
  /\ s \in Faulty
  /\ ses[s].state = "open" /\ ses' = [ses EXCEPT ![s].state = "dropped"]
  /\ fault' = "dropped" /\ toPort' = [toPort EXCEPT ![s] = <<>>]
  /\ UNCHANGED <<pc, err, Step, inbox, wiring, stopped, hasty>>

Cable(s) == err = NoError /\ (Forward(s) \/ Noise(s) \/ HangUp(s))

Next ==
  \/ Connected \/ exchangeChunk \/ assertQuiet \/ StepEnds \/ Passes
  \/ WatcherCloses \/ Expires
  \/ \E s \in Sides :
       \/ ConnectPort(s) \/ WriteStarts(s) \/ WriteData(s)
       \/ ReadSome(s) \/ ReadDone(s) \/ ReadFails(s)
       \/ ReadAvailable(s) \/ QuietFails(s) \/ Cable(s)

Spec == Init /\ [][Next]_vars

---------------------------------------------------------------------------
Over == pc \in {"passed", "failed"}
Good == fault = "none" /\ wiring = "cross"
Late(b) == \E s \in Sides : b \in Range(inbox[s]) \cup Range(toPort[s])

\* A byte or an acknowledgement is not written yet or still under way.
Underway == \E s \in Sides : \/ toPort[s] # <<>> \/ inbox[s] # <<>>
                              \/ task[s].wr # "done"

\* A pair passes only if it is cabled crosswise, no byte of what was
\* verified was lost, and a byte too many has not been read yet
\* (compareReadResult, assertQuiet).
PassIsEarned ==
  pc = "passed" => /\ wiring = "cross" /\ fault # "lost"
                   /\ fault = "extra" => Late("x")

\* A good cable is never blamed for wrong bytes, bytes too many or bytes that
\* cannot be decoded, however reads cut the stream: they are compared after
\* the acknowledgements and the doubling are undone.  It does fail when a
\* read fails, since compareReadResult and ReadAvailable report any error of
\* the stream: for too few bytes, or for an acknowledgement, only while
\* something is under way, and in a quiet window only if the run was stopped
\* or the read timeout is below that window.
NoFalseAlarm ==
  Good =>
    /\ err.what \notin {"mismatch", "extra", "command"}
    /\ err.why \notin {"command"}
    /\ err.what = "length" => err.why # "none" /\ Underway
    /\ err.what = "quotes" => Late("]") \/ Late("quoted")
    /\ err.what = "read" => stopped \/ hasty

\* Nothing that has arrived is kept from a reader that waits for it: when
\* all is written and delivered, only a bad cable leaves a read short.
NothingWithheld ==
  (/\ pc = "chunk" /\ err = NoError /\ ~ended
   /\ \A s \in Sides : /\ toPort[s] = <<>> /\ inbox[s] = <<>>
                       /\ task[s].wr = "done")
    => \/ ~Good
       \/ \A s \in Sides : task[s].rd = "reads" => Len(got[s]) = Want(s)

\* The error that is reported is the first one, never the closed session
\* that it caused for the other goroutines.
ErrorIsOriginal ==
  err.why \in {"stopped", "closed"} => stopped \/ fault = "dropped"

\* Whatever happened, both consoles are released.
SessionsClosed ==
  Over => \A s \in Sides : ses[s].state \in {"closed", "failed"}

PairChecked == /\ PassIsEarned /\ NoFalseAlarm /\ NothingWithheld
               /\ ErrorIsOriginal /\ SessionsClosed
=============================================================================
