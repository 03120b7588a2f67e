------------------------------ MODULE MCServer ------------------------------
(***************************************************************************)
(* Model checking the server process in one run: the listener mux under    *)
(* any environment, the mux inside main and its shutdown, the handlers of  *)
(* the gRPC service, and the trace they return, with and without a limit.  *)
(* part says which of them runs and never changes.                         *)
(***************************************************************************)
EXTENDS ListenerMux, Naturals

CONSTANTS Back, Handlers, NoHandler, NoParams, MaxCmds, Limit, MaxAdds,
          MaxClock

\* The gateway dials its own server: its connection is one of the clients'.
ASSUME BackAssumption == Back \in Conns
\* The limit of a trace is a number, 0 for none.
ASSUME RingAssumption == Limit \in Nat

VARIABLES part,
          cause, aft, late, rpc, req, proc, broken,      \* ServerShutdown
          conf, types, hostParams, told, typesMu, paramsMu, crashed, spc,
          call, par, source, raced, tunnel, dev, closes, trs, cmds,
          results,                                       \* DeviceServer
          items, limitIndex, clock, added                \* TraceRing

Main == INSTANCE ServerShutdown

HostParams(port, device, creds, ip, type) ==
  [port |-> port, device |-> device, creds |-> creds, ip |-> ip,
   type |-> type]
Call(what, given) ==
  [kind |-> what, token |-> "right", bad |-> FALSE, host |-> "h",
   given |-> given, name |-> "new"]

\* Two handlers may write the maps, the third one uses a device.
Calls ==
  [h \in Handlers |->
     CASE h = 1 -> {Call("setup", HostParams(1, "t1", "user", "10.1", "")),
                    Call("add", NoParams), Call("chat", NoParams)}
       [] h = 2 -> {Call("setup", HostParams(2, "new", "", "10.2", "telnet")),
                    Call("add", NoParams),
                    [Call("add", NoParams) EXCEPT !.name = "t1"],
                    [Call("upload", NoParams) EXCEPT !.bad = TRUE]}
       [] OTHER -> {Call("chat", NoParams), Call("download", NoParams),
                    Call("chat", HostParams(3, "new", "user", "10.3", "ssh")),
                    Call("exec", HostParams(0, "t1", "", "", "other")),
                    Call("upload", HostParams(0, "t1", "", "10.3", "")),
                    [Call("chat", NoParams) EXCEPT !.token = "wrong"]}]

SshConfig(port, name, jump) ==
  [port |-> port, name |-> name, jump |-> jump, ctl |-> FALSE]
Confs ==
  {[secure |-> FALSE, jump |-> FALSE, sshConfig |-> NoParams],
   [secure |-> TRUE, jump |-> TRUE,
    sshConfig |-> SshConfig(22, "real", FALSE)],
   [secure |-> TRUE, jump |-> FALSE,
    sshConfig |-> SshConfig(22, "real", TRUE)],
   [secure |-> TRUE, jump |-> FALSE, sshConfig |-> SshConfig(0, "", TRUE)]}

Server == INSTANCE DeviceServer WITH BuiltIn <- {"t1"}
Ring == INSTANCE TraceRing
Unlimited == INSTANCE TraceRing WITH Limit <- 0

mainVars == <<cause, aft, late, rpc, req, proc, broken>>
handlerVars == <<conf, types, hostParams, told, typesMu, paramsMu, crashed,
                 spc, call, par, source, raced, tunnel, dev, closes, trs,
                 cmds, results>>
ringVars == <<items, limitIndex, clock, added>>
allVars == <<part, vars, mainVars, handlerVars, ringVars>>

\* The handlers start in many ways: each part has its initial states.
IdleHandlers ==
  /\ Server!Init
  /\ conf = CHOOSE x \in Confs : TRUE
  /\ call = [h \in Handlers |-> CHOOSE x \in Calls[h] : TRUE]

MCInit ==
  /\ part \in {"mux", "main", "handlers", "ring", "unlimited"}
  /\ Main!ShutInit /\ Ring!Init
  /\ IF part = "handlers" THEN Server!Init ELSE IdleHandlers

Running(p) == part = p /\ UNCHANGED part
InMux(A) ==
  Running("mux") /\ A /\ UNCHANGED <<mainVars, handlerVars, ringVars>>
InMain(A) == Running("main") /\ A /\ UNCHANGED <<handlerVars, ringVars>>
InServer(A) ==
  Running("handlers") /\ A /\ UNCHANGED <<vars, mainVars, ringVars>>
InRing(p, A) == Running(p) /\ A /\ UNCHANGED <<vars, mainVars, handlerVars>>

MCNext ==
  \/ InMux(Next) \/ InMain(Main!ShutNext) \/ InServer(Server!Next)
  \/ InRing("ring", Ring!Next) \/ InRing("unlimited", Unlimited!Next)

\* The fairness of ListenerMux and of ServerShutdown.
MCSpec ==
  /\ MCInit /\ [][MCNext]_allVars
  /\ WF_allVars(InMux((ctxDone \/ srv = "closing") /\ StartClose))
  /\ WF_allVars(InMux(CloseListener \/ ClosePending))
  /\ WF_allVars(InMux(~lsn /\ ServeAcceptFails))
  /\ WF_allVars(InMux(ServeAdmit \/ ServeReject))
  /\ WF_allVars(InMux(ServeCloses \/ ServeReturns))
  /\ WF_allVars(InMain(Main!ServerRuns)) /\ WF_allVars(InMain(Main!ServeEnds))
  /\ \A c \in Conns : /\ WF_allVars(InMux(SniffFails(c)))
                      /\ WF_allVars(InMux(Relinquish(c)))
                      /\ WF_allVars(InMux(Discard(c)))
                      /\ WF_allVars(InMain(Main!RouteEnds(c)))
  /\ \A s \in Subs : WF_allVars(InMain(Main!AcceptReturns(s)))

---------------------------------------------------------------------------
(* HandedOffStaysOpen, NoLeak, CloseSweepsAll and ImplementsOwnership are  *)
(* those of ListenerMux: they hold in any environment and inside main.     *)

\* Cancelling the context of the mux makes its Serve return; a signal or a
\* failure makes main return.
StopsEnd == CancelStopsServe /\ Main!ShutdownEnds

\* No request is cut off or refused before the deadline of the shutdown, and
\* nothing is left running when main returns.
ShutdownIsGraceful == Main!GracefulUntilDeadline /\ Main!ExitIsClean

\* Handlers close what they opened and answer each command with its own
\* trace, however they end.
HandlersClean == Server!HandlersClean

\* The parameters of a device come from one request or one SetupHostParams,
\* and no device type is ever redefined under it.
OneSource == [][Server!OneSource' /\ Server!TypesStay]_handlerVars

\* A trace holds the newest data, nothing twice, and all of it when it never
\* was full.
TraceHoldsNewest ==
  IF part = "unlimited" THEN Unlimited!TraceHoldsNewest
                        ELSE Ring!TraceHoldsNewest

\* Credentials given to SetupHostParams are used.
SetupSetsCredentials == Server!SetupSetsCredentials
=============================================================================
