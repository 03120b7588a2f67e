---------------------------- MODULE PortDiscovery ----------------------------
(***************************************************************************)
(* gconsolecheck test_discovery_all_ports (discovery_all.go): every port   *)
(* of the console server that nobody uses is opened, a marker with its     *)
(* name and the id of this run is written to it while a marker is read,    *)
(* and two ports are reported as a pair when each received the marker of   *)
(* the other.  What is cabled to what is unknown, a port may still hold    *)
(* the marker of an earlier run, and any call may fail.                    *)
(***************************************************************************)
EXTENDS Naturals, SequencesExt, FiniteSets

CONSTANTS Ports, Cablings  \* Cablings: functions from Ports to Ports or None
None == "none"

VARIABLES pc,        \* "connect", "exchange", "done"
          wire,      \* [port -> where its output goes, or None]
          st,        \* [port -> "queued", "busy", "failed", "open", "closed"]
          in,        \* [port -> what has arrived and is not read]
          wr, rd,    \* [port -> "idle", "runs", "ok", "err"]
          readData,  \* [port -> what ReadData returned]
          ended,     \* opCtx is done
          report     \* what is printed

vars == <<pc, wire, st, in, wr, rd, readData, ended, report>>

\* A marker is 128 bytes: the source, the run and padding.  It is parsed
\* from wherever it stands in what was read; of two fields the last counts.
Source(p) == [key |-> "source", value |-> p]
Run(r) == [key |-> "run", value |-> r]
Pad == [key |-> "pad", value |-> None]
makeAllPortsDiscoveryPayload(p, run) == <<Source(p), Run(run), Pad>>
PayloadSize == 3

Field(key, data) ==
  LET found == SelectSeq(data, LAMBDA f : f.key = key)
  IN IF found = <<>> THEN None ELSE Last(found).value

\* parseAllPortsDiscoveryPayload
HasMarker(data) == Field("source", data) # None /\ Field("run", data) # None

\* What an earlier run, interrupted or not, may have left for a port.
Leftovers == {<<>>, <<Run("old"), Pad>>} \cup
             {makeAllPortsDiscoveryPayload(q, "old") : q \in Ports}

Init ==
  /\ pc = "connect" /\ ended = FALSE
  /\ wire \in Cablings
  /\ st = [p \in Ports |-> "queued"]
  /\ \E p \in Ports, l \in Leftovers :
       in = [q \in Ports |-> IF q = p THEN l ELSE <<>>]
  /\ wr = [p \in Ports |-> "idle"] /\ rd = [p \in Ports |-> "idle"]
  /\ readData = [p \in Ports |-> <<>>]
  /\ report = [pairs |-> {}, unpaired |-> 0, connected |-> 0, busy |-> 0,
               errors |-> 0]

Open == {p \in Ports : st[p] = "open"}
In(s) == Cardinality({p \in Ports : st[p] = s})

\* A worker takes a port: one that has a writer is skipped, the factory
\* connects the others or fails.
ConnectPort(p) ==
  /\ pc = "connect" /\ st[p] = "queued"
  /\ \E r \in {"busy", "failed", "open"} : st' = [st EXCEPT ![p] = r]
  /\ UNCHANGED <<pc, wire, in, wr, rd, readData, ended, report>>

\* All workers are done; two goroutines for each session, or the summary.
StartExchange ==
  /\ pc = "connect" /\ In("queued") = 0
  /\ IF Open = {}
     THEN /\ pc' = "done"
          /\ report' = [report EXCEPT !.busy = In("busy"),
                                      !.errors = In("failed")]
          /\ UNCHANGED <<wr, rd>>
     ELSE /\ pc' = "exchange"
          /\ wr' = [p \in Ports |-> IF p \in Open THEN "runs" ELSE "idle"]
          /\ rd' = wr'
          /\ UNCHANGED report
  /\ UNCHANGED <<wire, st, in, readData, ended>>

WriteData(p) ==
  /\ pc = "exchange" /\ wr[p] = "runs"
  /\ \/ /\ ~ended /\ st[p] = "open" /\ wr' = [wr EXCEPT ![p] = "ok"]
        /\ in' = [q \in Ports |-> IF q = wire[p]
                    THEN in[q] \o makeAllPortsDiscoveryPayload(p, "now")
                    ELSE in[q]]
     \/ /\ wr' = [wr EXCEPT ![p] = "err"] /\ UNCHANGED in
  /\ UNCHANGED <<pc, wire, st, rd, readData, ended, report>>

\* ReadData returns a whole payload, or with an error what came before it.
ReadData(p) ==
  /\ pc = "exchange" /\ rd[p] = "runs"
  /\ \E k \in 0..PayloadSize :
       /\ k <= Len(in[p])
       /\ k = PayloadSize => st[p] = "open" /\ ~ended
       /\ readData' = [readData EXCEPT ![p] = SubSeq(in[p], 1, k)]
       /\ in' = [in EXCEPT ![p] = SubSeq(@, k + 1, Len(@))]
       /\ rd' = [rd EXCEPT ![p] = IF k = PayloadSize THEN "ok" ELSE "err"]
  /\ UNCHANGED <<pc, wire, st, wr, ended, report>>

\* The deadline, or an interrupt: the watcher closes every session.
Expires ==
  /\ pc = "exchange" /\ ~ended
  /\ ended' = TRUE
  /\ st' = [p \in Ports |-> IF p \in Open THEN "closed" ELSE st[p]]
  /\ UNCHANGED <<pc, wire, in, wr, rd, readData, report>>

\* The ports that were opened, closed by the watcher since or not.
Sessions == {p \in Ports : st[p] \in {"open", "closed"}}

\* A marker of another run is not believed.
Fresh(p) ==
  HasMarker(readData[p]) /\ Field("run", readData[p]) = "now"
mapping == [p \in {q \in Sessions : Fresh(q)} |->
              Field("source", readData[p])]

SelfLoops == {p \in DOMAIN mapping : mapping[p] = p}
Mutual(p) ==
  /\ p \in DOMAIN mapping \ SelfLoops
  /\ mapping[p] \in DOMAIN mapping /\ mapping[mapping[p]] = p

Report ==
  /\ pc = "exchange"
  /\ \A p \in Ports : wr[p] # "runs" /\ rd[p] # "runs"
  /\ pc' = "done"
  /\ st' = [p \in Ports |-> IF p \in Open THEN "closed" ELSE st[p]]
  /\ LET known == DOMAIN mapping
         mutual == {p \in known : Mutual(p)}
     IN report' =
          [pairs |-> {{p, mapping[p]} : p \in mutual},
           unpaired |-> Cardinality(Sessions \ known)
                        + Cardinality(SelfLoops)
                        + Cardinality(known \ (SelfLoops \cup mutual)),
           connected |-> Cardinality(Sessions), busy |-> In("busy"),
           errors |-> In("failed") +
                      Cardinality({p \in Sessions : wr[p] = "err"})]
  /\ UNCHANGED <<wire, in, wr, rd, readData, ended>>

Next == \/ StartExchange \/ Expires \/ Report
        \/ \E p \in Ports : ConnectPort(p) \/ WriteData(p) \/ ReadData(p)

Spec == Init /\ [][Next]_vars

---------------------------------------------------------------------------
\* Two ports are reported as a pair only if each is cabled to the other now,
\* whatever earlier runs left behind and whatever failed.
PairsAreReal ==
  \A pair \in report.pairs :
    Cardinality(pair) = 2 /\ \A p \in pair : wire[p] \in pair \ {p}

\* A pair is missed only for a reason: a call on it failed, or its input
\* was not clean.
PairsAreFound ==
  pc = "done" =>
    \A p, q \in Sessions :
      \/ p = q \/ wire[p] # q \/ wire[q] # p \/ {p, q} \in report.pairs
      \/ \E x \in {p, q} : \/ wr[x] = "err" \/ rd[x] = "err"
                           \/ readData[x] # makeAllPortsDiscoveryPayload(
                                              wire[x], "now")

\* The summary accounts for every port once, and the sessions are closed.
AllCounted ==
  pc = "done" =>
    /\ Open = {}
    /\ report.connected + report.busy + In("failed") = Cardinality(Ports)
    /\ report.connected = 2 * Cardinality(report.pairs) + report.unpaired

PortsDiscovered == PairsAreReal /\ PairsAreFound /\ AllCounted
=============================================================================
