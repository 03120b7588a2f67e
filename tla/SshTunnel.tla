----------------------------- MODULE SshTunnel -----------------------------
(***************************************************************************)
(* One SSHTunnel used by several ssh connectors.  A connector looks        *)
(* whether the tunnel is connected, connects it if not (under the mutex),  *)
(* asks for a forward to one of its endpoints and, when none can be        *)
(* reached, closes the tunnel.  Only CreateConnect takes the mutex.  Each  *)
(* forward is a socket pair and two goroutines that copy between it and a  *)
(* channel of the tunnel's connection; the pair is made before the channel *)
(* is dialled.                                                             *)
(***************************************************************************)
EXTENDS Naturals, FiniteSets

CONSTANTS Connectors, NoConn,
          ControlFile,   \* the tunnel goes through an OpenSSH control socket
          Endpoints,     \* number of addresses a connector tries
          MaxConns       \* bound on the connections dialled

ASSUME TunnelAssumption ==
  /\ ControlFile \in BOOLEAN /\ Endpoints \in Nat \ {0} /\ MaxConns \in Nat
  /\ NoConn \notin Nat /\ NoConn \notin Connectors

VARIABLES mu,        \* holder of the mutex
          isOpen,    \* SSHTunnel.isOpen
          svrConn,   \* SSHTunnel.svrConn: a connection or NoConn
          stdio,     \* SSHTunnel.stdioForward is set
          dialled,   \* number of connections dialled so far
          alive,     \* connections that are open
          pc, tries, \* per connector: where it is, endpoints tried
          via,       \* connection that carries the connector's forward
          lconn, rconn, remote,\* open ends: the connector's, its twin's, the
                               \* channel's
          stray      \* a socket pair is open that no forward has and that no
                     \* code closes

tunnelVars == <<mu, isOpen, svrConn, stdio, dialled, alive>>
fwdVars == <<via, lconn, rconn, remote, stray>>
vars == <<tunnelVars, pc, tries, fwdVars>>

Conns == 1..MaxConns
States == {"start", "create", "dialing", "mark", "forward", "checkOpen",
           "dial", "close", "closeConn", "up", "failed"}

Init ==
  /\ mu = NoConn /\ isOpen = FALSE /\ svrConn = NoConn /\ stdio = FALSE
  /\ dialled = 0 /\ alive = {}
  /\ pc = [c \in Connectors |-> "start"] /\ tries = [c \in Connectors |-> 0]
  /\ via = [c \in Connectors |-> NoConn]
  /\ lconn = {} /\ rconn = {} /\ remote = {} /\ stray = FALSE

Goto(c, l) == pc' = [pc EXCEPT ![c] = l]

---------------------------------------------------------------------------
(* dialTunnel and CreateConnect.                                           *)

\* IsConnected, read without the mutex.
CheckConnected(c) ==
  /\ pc[c] = "start" /\ Goto(c, IF isOpen THEN "forward" ELSE "create")
  /\ tries' = [tries EXCEPT ![c] = 0] /\ UNCHANGED <<tunnelVars, fwdVars>>

Lock(c) ==
  /\ pc[c] = "create" /\ mu = NoConn /\ mu' = c /\ Goto(c, "dialing")
  /\ UNCHANGED <<isOpen, svrConn, stdio, dialled, alive, tries, fwdVars>>

\* The connection, or the control socket, is stored before isOpen is set.
ConnectOk(c) ==
  /\ pc[c] = "dialing" /\ dialled < MaxConns
  /\ dialled' = dialled + 1 /\ alive' = alive \cup {dialled + 1}
  /\ IF ControlFile THEN stdio' = TRUE /\ svrConn' = NoConn
     ELSE svrConn' = dialled + 1 /\ UNCHANGED stdio
  /\ Goto(c, "mark") /\ UNCHANGED <<mu, isOpen, tries, fwdVars>>

MarkOpen(c) ==
  /\ pc[c] = "mark" /\ isOpen' = TRUE /\ mu' = NoConn /\ Goto(c, "forward")
  /\ UNCHANGED <<svrConn, stdio, dialled, alive, tries, fwdVars>>

\* GetConfig or the dial fails: the error goes to the caller.
ConnectFails(c) ==
  /\ pc[c] = "dialing" /\ mu' = NoConn /\ Goto(c, "failed")
  /\ UNCHANGED <<isOpen, svrConn, stdio, dialled, alive, tries, fwdVars>>

---------------------------------------------------------------------------
(* StartForward.                                                           *)

\* With a control socket isOpen is not looked at.
ReadStdio(c) ==
  /\ pc[c] = "forward" /\ Goto(c, IF stdio THEN "dial" ELSE "checkOpen")
  /\ UNCHANGED <<tunnelVars, tries, fwdVars>>

NextEndpointNoClose(c) ==
  /\ tries' = [tries EXCEPT ![c] = @ + 1]
  /\ Goto(c, IF tries[c] + 1 < Endpoints THEN "forward" ELSE "failed")

\* An endpoint could not be reached: the next one, or Close of the tunnel.
NextEndpoint(c) ==
  /\ tries' = [tries EXCEPT ![c] = @ + 1]
  /\ Goto(c, IF tries[c] + 1 < Endpoints THEN "forward" ELSE "close")

CheckOpen(c) ==
  /\ pc[c] = "checkOpen"
  /\ IF isOpen THEN Goto(c, "dial") /\ UNCHANGED tries ELSE NextEndpoint(c)
  /\ UNCHANGED <<tunnelVars, fwdVars>>

\* The connection a forward would use at this moment.
Carrier == IF stdio THEN dialled ELSE svrConn

ForwardOk(c) ==
  /\ pc[c] = "dial" /\ Carrier \in alive
  /\ via' = [via EXCEPT ![c] = Carrier]
  /\ lconn' = lconn \cup {c} /\ rconn' = rconn \cup {c}
  /\ remote' = remote \cup {c}
  /\ Goto(c, "up") /\ UNCHANGED <<tunnelVars, tries, stray>>

\* There is no socket pair to be had; or the remote refuses, or the tunnel's
\* connection is gone: then the pair that was made is left open.
ForwardFails(c) ==
  /\ pc[c] = "dial" /\ NextEndpoint(c)
  /\ stray' \in {stray, stray \/ ~stdio}
  /\ UNCHANGED <<tunnelVars, via, lconn, rconn, remote>>

\* Mutant of CloseTunnel: the connection itself is not closed.
CloseTunnelFlagOnly(c) ==
  /\ pc[c] = "close" /\ isOpen' = FALSE /\ Goto(c, "failed")
  /\ UNCHANGED <<mu, svrConn, stdio, dialled, alive, tries, fwdVars>>

\* SSHTunnel.Close: nothing when it is closed already.
CloseTunnel(c) ==
  /\ pc[c] = "close" /\ isOpen' = FALSE
  /\ Goto(c, IF isOpen THEN "closeConn" ELSE "failed")
  /\ UNCHANGED <<mu, svrConn, stdio, dialled, alive, tries, fwdVars>>

\* Mutants of CloseConn: it also forgets the connection, or the socket.
CloseConnResets(c) ==
  /\ pc[c] = "closeConn" /\ alive' = alive \ {Carrier} /\ Goto(c, "failed")
  /\ svrConn' = NoConn
  /\ UNCHANGED <<mu, isOpen, stdio, dialled, tries, fwdVars>>

CloseConn(c) ==
  /\ pc[c] = "closeConn" /\ alive' = alive \ {Carrier} /\ Goto(c, "failed")
  /\ UNCHANGED <<mu, isOpen, svrConn, stdio, dialled, tries, fwdVars>>

---------------------------------------------------------------------------
(* The two copying goroutines of a forward.                                *)

\* The remote ended, the connector closed its end, or the connection died.
RemoteGone(c) == c \notin remote \/ via[c] \notin alive

\* copyConn(rconn, remoteConn) ends and closes rconn.
CopyToConnector(c) ==
  /\ c \in rconn /\ RemoteGone(c) /\ rconn' = rconn \ {c}
  /\ UNCHANGED <<tunnelVars, pc, tries, via, lconn, remote, stray>>

\* copyConn(remoteConn, rconn) ends and closes remoteConn.
CopyToRemote(c) ==
  /\ c \in remote /\ (c \notin lconn \/ c \notin rconn)
  /\ remote' = remote \ {c}
  /\ UNCHANGED <<tunnelVars, pc, tries, via, lconn, rconn, stray>>

---------------------------------------------------------------------------
(* The connectors and the environment.                                     *)

\* The connector closes its end; it, or a new one, may start again.
CloseForward(c) ==
  /\ pc[c] = "up" /\ c \in lconn /\ lconn' = lconn \ {c}
  /\ UNCHANGED <<tunnelVars, pc, tries, via, rconn, remote, stray>>

Again(c) ==
  /\ pc[c] \in {"up", "failed"} /\ c \notin lconn \cup rconn \cup remote
  /\ Goto(c, "start") /\ UNCHANGED <<tunnelVars, tries, fwdVars>>

RemoteCloses(c) ==
  /\ c \in remote /\ remote' = remote \ {c}
  /\ UNCHANGED <<tunnelVars, pc, tries, via, lconn, rconn, stray>>

\* The network cuts a connection; nobody tells the tunnel.
ConnectionLost ==
  /\ \E n \in alive : alive' = alive \ {n}
  /\ UNCHANGED <<mu, isOpen, svrConn, stdio, dialled, pc, tries, fwdVars>>

Connector(c) ==
  \/ CheckConnected(c) \/ Lock(c) \/ ConnectOk(c) \/ MarkOpen(c)
  \/ ConnectFails(c) \/ ReadStdio(c) \/ CheckOpen(c) \/ ForwardOk(c)
  \/ ForwardFails(c) \/ CloseTunnel(c) \/ CloseConn(c) \/ CloseForward(c)
  \/ Again(c)

\* A connector on its way to a forward.
Started(c) == pc[c] \notin {"up", "failed", "start"} /\ Connector(c)

Copies(c) == CopyToConnector(c) \/ CopyToRemote(c)

Next ==
  \/ \E c \in Connectors : Connector(c) \/ Copies(c) \/ RemoteCloses(c)
  \/ ConnectionLost

Spec == Init /\ [][Next]_vars

\* The goroutines run; a connector that has started goes on.
FairSpec ==
  /\ Spec
  /\ \A c \in Connectors :
       /\ WF_vars(CopyToConnector(c)) /\ WF_vars(CopyToRemote(c))
       /\ WF_vars(Started(c))
       /\ SF_vars(Lock(c))

---------------------------------------------------------------------------

TypeOK ==
  /\ mu \in Connectors \cup {NoConn} /\ isOpen \in BOOLEAN
  /\ svrConn \in Conns \cup {NoConn} /\ stdio \in BOOLEAN
  /\ dialled \in 0..MaxConns /\ alive \subseteq Conns
  /\ pc \in [Connectors -> States]
  /\ tries \in [Connectors -> 0..Endpoints]
  /\ via \in [Connectors -> Conns \cup {NoConn}]
  /\ lconn \subseteq Connectors /\ rconn \subseteq Connectors
  /\ remote \subseteq Connectors /\ stray \in BOOLEAN

\* StartForward never calls Dial of a nil svrConn, although it reads
\* stdioForward, isOpen and svrConn without the mutex while CreateConnect and
\* Close of other connectors write them.
NilNeverDialled ==
  \A c \in Connectors : pc[c] = "dial" => stdio \/ svrConn # NoConn

\* One connection is dialled at a time.
OneDial ==
  \A c, d \in Connectors :
    pc[c] \in {"dialing", "mark"} /\ pc[d] \in {"dialing", "mark"} => c = d

\* The safety of a shared tunnel, in one invariant.
TunnelSafe == TypeOK /\ OneDial /\ NilNeverDialled

\* A connection that is open is only forgotten (replaced unclosed) in the two
\* races that the unlocked reads leave: another connector has connected the
\* tunnel since this one looked, or one is between the two steps of Close.
ForgottenOnlyInRace ==
  [][svrConn' # svrConn /\ svrConn \in alive =>
       isOpen \/ \E c \in Connectors : pc[c] = "closeConn"]_vars

\* Whichever side of a forward goes first, both goroutines end and both
\* remaining ends are closed: a forward that was set up leaves no end of its
\* socket pair behind.
ForwardsEnd ==
  \A c \in Connectors :
    (c \in rconn \cup remote /\ (c \notin lconn \/ RemoteGone(c)))
      ~> (c \notin rconn \cup remote)

\* A tunnel does not stay "connected" over a connection that was lost, as long
\* as connectors come: the failing forward closes it, the next user dials.
LostUnnoticed == isOpen /\ Carrier \notin alive

\* An attempt that came to nothing leaves nothing: not so, since StartForward
\* returns the error of Dial without closing the pair made before it.
AttemptsCleanUp == ~stray

\* "We do not close after usage because it can be shared with other
\* connections" (ssh.go:439): a connector does not end a tunnel that carries
\* a forward of another one.
SharedTunnelIsKept ==
  [][\A c, d \in Connectors :
       (c # d /\ CloseConn(c) /\ d \in lconn \cap remote)
         => via[d] \in alive' \/ via[d] \notin alive]_vars
=============================================================================
