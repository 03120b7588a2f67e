--------------------------- MODULE ServerShutdown ---------------------------
(***************************************************************************)
(* main of gnetcli_server with one address for gRPC and REST: the group of *)
(* Serve goroutines, the function that runs when the first of them ends or *)
(* a signal comes, and the listener mux they share.  A REST request needs  *)
(* a call of the gRPC server over the gateway's own connection, which goes *)
(* through the mux like any other.                                         *)
(***************************************************************************)
EXTENDS ListenerMux

CONSTANT Back   \* the gateway's connection to its own server, one of Conns

VARIABLES
  cause,   \* what ended the group: none, signal or fault
  aft,     \* where the AfterFunc is
  late,    \* shutdownCtx is done
  rpc,     \* grpcServer: serving, draining or stopped
  req,     \* the request of each client connection
  proc,    \* main: running, stopped or panic
  broken   \* Accept of the open TCP listener has failed

shutVars == <<cause, aft, late, rpc, req, proc, broken>>
serverVars == <<vars, shutVars>>

Clients == Conns \ {Back}
Active(s) == {c \in Clients : kind[c] = s /\ req[c] \in {"active", "called"}}

ShutInit ==
  /\ Init /\ cause = "none" /\ aft = "wait" /\ late = FALSE
  /\ rpc = "serving" /\ req = [c \in Conns |-> "none"] /\ proc = "running"
  /\ broken = FALSE

---------------------------------------------------------------------------
(* Requests.                                                               *)

Begin(c) ==
  /\ c \in served \ {Back} /\ req[c] = "none"
  /\ IF kind[c] = "http" THEN aft \in {"wait", "gateway"}
                         ELSE rpc = "serving"
  /\ req' = [req EXCEPT ![c] = "active"]
  /\ UNCHANGED <<vars, cause, aft, late, rpc, proc, broken>>

\* The gateway forwards a request, or finds its server unavailable.
Forward(c) ==
  /\ c \in Active("http") /\ req[c] = "active"
  /\ \/ /\ Back \in served /\ rpc = "serving"
        /\ req' = [req EXCEPT ![c] = "called"]
     \/ /\ sock[Back] = "closed" \/ rpc # "serving" \/ ~lsn
        /\ req' = [req EXCEPT ![c] = "refused"]
  /\ UNCHANGED <<vars, cause, aft, late, rpc, proc, broken>>

\* The handler of a call returns.
HandlerEnds(c) ==
  /\ req[c] = IF kind[c] = "http" THEN "called" ELSE "active"
  /\ req' = [req EXCEPT ![c] = "answered"]
  /\ UNCHANGED <<vars, cause, aft, late, rpc, proc, broken>>

---------------------------------------------------------------------------
(* The end of the group.                                                   *)

Signal ==
  /\ cause = "none" /\ cause' = "signal"
  /\ UNCHANGED <<vars, aft, late, rpc, req, proc, broken>>

\* A Serve returns, which it does only with an error.
ServeFails ==
  /\ cause = "none" /\ cause' = "fault"
  /\ srv = "returned" \/ \E s \in Subs : acc[s] = "stopped"
  /\ UNCHANGED <<vars, aft, late, rpc, req, proc, broken>>

\* gatewayServer.Shutdown stops listening, then waits for its requests.
GatewayShutdown ==
  /\ aft = "wait" /\ cause # "none" /\ aft' = "gateway"
  /\ SubClose("http")
  /\ UNCHANGED <<cause, late, rpc, req, proc, broken>>

\* Mutant of GatewayReturns: requests that have not reached the gRPC server
\* are not waited for.
GatewayReturnsEarly ==
  /\ aft = "gateway" /\ aft' = "mux"
  /\ \A c \in Active("http") : req[c] = "active"
  /\ UNCHANGED <<vars, cause, late, rpc, req, proc, broken>>

GatewayReturns ==
  /\ aft = "gateway" /\ aft' = "mux"
  /\ Active("http") = {}
  /\ UNCHANGED <<vars, cause, late, rpc, req, proc, broken>>

Cut(s) == req' = [c \in Conns |-> IF c \in Active(s) THEN "cut" ELSE req[c]]

GatewayTimesOut ==
  /\ aft = "gateway" /\ late /\ aft' = "mux" /\ Cut("http")
  /\ UNCHANGED <<vars, cause, late, rpc, proc, broken>>

Deadline ==
  /\ aft \notin {"wait", "done"} /\ ~late /\ late' = TRUE
  /\ UNCHANGED <<vars, cause, aft, rpc, req, proc, broken>>

\* sharedMux.Close runs once, here or in Serve.
MuxClose ==
  /\ StartClose
  /\ aft = "mux" \/ srv = "closing"
  /\ UNCHANGED shutVars

GrpcGracefulStop ==
  /\ aft = "mux" /\ once = "over" /\ aft' = "grpc"
  /\ rpc' = "draining" /\ SubClose("grpc")
  /\ UNCHANGED <<cause, late, req, proc, broken>>

GrpcStopped ==
  /\ aft = "grpc" /\ Active("grpc") = {} /\ aft' = "done" /\ rpc' = "stopped"
  /\ UNCHANGED <<vars, cause, late, req, proc, broken>>

\* Mutant of GrpcTimesOut: the deadline does not end the wait.
GrpcWaits ==
  /\ aft = "grpc" /\ late /\ Active("grpc") = {} /\ aft' = "done"
  /\ rpc' = "stopped" /\ UNCHANGED <<vars, cause, late, req, proc, broken>>

GrpcTimesOut ==
  /\ aft = "grpc" /\ late /\ aft' = "done" /\ rpc' = "stopped" /\ Cut("grpc")
  /\ UNCHANGED <<vars, cause, late, proc, broken>>

\* wg.Wait, shutdownDone, and the first error of the group.
MainReturns ==
  /\ proc = "running" /\ aft = "done" /\ srv = "returned"
  /\ acc = [s \in Subs |-> "stopped"]
  /\ proc' \in IF cause = "signal" THEN {"stopped"} ELSE {"stopped", "panic"}
  /\ UNCHANGED <<vars, cause, aft, late, rpc, req, broken>>

---------------------------------------------------------------------------
(* The mux inside this process: its context is never cancelled, main and   *)
(* Serve are its only closers, and the gateway's client sends the preface  *)
(* of gRPC at once.                                                        *)

MuxServes ==
  /\ Serve /\ UNCHANGED <<cause, aft, late, rpc, req, proc>>
  /\ broken' = (broken \/ (ServeAcceptFails /\ lsn))
MuxSweeps == (CloseListener \/ ClosePending) /\ UNCHANGED shutVars
MuxRoutes(c) ==
  /\ \/ \E s \in Subs : Classify(c, s) /\ (c = Back => s = "grpc")
     \/ SniffFails(c) /\ (c = Back => sock[c] = "closed")
     \/ Relinquish(c) \/ HandOff(c) \/ Discard(c)
  /\ UNCHANGED shutVars
Accepts(s) == (AcceptWaits(s) \/ AcceptEnds(s)) /\ UNCHANGED shutVars

ShutNext ==
  \/ MuxServes \/ MuxSweeps \/ \E c \in Conns : MuxRoutes(c)
  \/ \E s \in Subs : Accepts(s)
  \/ \E c \in Clients : Begin(c) \/ Forward(c) \/ HandlerEnds(c)
  \/ Signal \/ ServeFails \/ GatewayShutdown \/ GatewayReturns
  \/ GatewayTimesOut \/ Deadline \/ MuxClose \/ GrpcGracefulStop
  \/ GrpcStopped \/ GrpcTimesOut \/ MainReturns

\* What goes on without any client: the goroutines of the process, the
\* timers of the shutdown and of every sniff.
ServerRuns ==
  \/ MuxSweeps \/ MuxClose \/ GatewayShutdown \/ GatewayReturns
  \/ GatewayTimesOut \/ Deadline \/ GrpcGracefulStop \/ GrpcStopped
  \/ GrpcTimesOut \/ MainReturns
ServeEnds ==
  ((~lsn /\ ServeAcceptFails) \/ ServeAdmit \/ ServeReject \/ ServeCloses
     \/ ServeReturns) /\ UNCHANGED shutVars
RouteEnds(c) ==
  (SniffFails(c) \/ Relinquish(c) \/ Discard(c)) /\ UNCHANGED shutVars
AcceptReturns(s) == AcceptEnds(s) /\ UNCHANGED shutVars

ShutSpec ==
  /\ ShutInit /\ [][ShutNext]_serverVars
  /\ WF_serverVars(ServerRuns) /\ WF_serverVars(ServeEnds)
  /\ \A c \in Conns : WF_serverVars(RouteEnds(c))
  /\ \A s \in Subs : WF_serverVars(AcceptReturns(s))

---------------------------------------------------------------------------

\* After a signal, unless the TCP listener itself broke, no request is cut off
\* or refused before the deadline, whichever protocol it came by and wherever
\* it had got to, also when the gateway's own connection was not there yet.
GracefulUntilDeadline ==
  cause = "signal" /\ ~late /\ ~broken =>
    \A c \in Clients : req[c] \notin {"cut", "refused"}

\* When main returns nothing of the mux runs, every accepted connection was
\* closed or had become a server's, no request is in progress, and a signal
\* is no panic.
ExitIsClean ==
  proc # "running" =>
    /\ srv = "returned" /\ \A c \in Conns : route[c] \in {"none", "ended"}
    /\ \A c \in Conns : sock[c] = "open" => c \in served
    /\ \A s \in Subs : Active(s) = {}
    /\ cause = "signal" => proc = "stopped"

\* Once a signal or a failure has ended the group main returns, whatever the
\* clients, the requests and the devices do.
ShutdownEnds == cause # "none" ~> proc # "running"
=============================================================================
