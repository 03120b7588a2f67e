-------------------------------- MODULE MCSsh --------------------------------
(***************************************************************************)
(* Model checking the ssh connector beside its reading pipeline in one     *)
(* run: the shared tunnel (over a connection and over a control socket),   *)
(* Init and Cmd, and file transfer with and without sudo.  They share      *)
(* nothing; part says which of them runs and never changes.                *)
(***************************************************************************)
EXTENDS SshTunnel

CONSTANTS Addresses, Forwarding, MaxCmds, Files, Dir, InDir

ASSUME ConnectorAssumption ==
  Addresses \in Nat \ {0} /\ Forwarding \in BOOLEAN /\ MaxCmds \in Nat

ASSUME DirectoryAssumption == Dir \notin Files \cup InDir

VARIABLES part,
          cpc, inited, tried, ctx, conn, watcher, shell, agent, sess, cmdState,
          closer, inner, ctxErr, waitErr, result, cmds,     \* SshConnector
          plain, sudo, dirStat, op, fpc, pass, todo, res, firstFailed,
          clients, written, ret                             \* SftpTransfer

ControlTunnel == INSTANCE SshTunnel WITH ControlFile <- TRUE
Cmd == INSTANCE SshConnector WITH pc <- cpc, remote <- cmdState
Sftp == INSTANCE SftpTransfer WITH pc <- fpc, Recurse <- TRUE, SudoTry <- TRUE
NoSudo == INSTANCE SftpTransfer WITH
            pc <- fpc, Recurse <- TRUE, SudoTry <- FALSE

cmdVars == <<cpc, inited, tried, ctx, conn, watcher, shell, agent, sess,
             cmdState, closer, inner, ctxErr, waitErr, result, cmds>>
sftpVars == <<plain, sudo, dirStat, op, fpc, pass, todo, res, firstFailed,
              clients, written, ret>>
allVars == <<part, vars, cmdVars, sftpVars>>

MCInit ==
  /\ part \in {"tunnel", "control", "cmd", "sftp", "no sudo"}
  /\ Init /\ Cmd!Init /\ Sftp!Init

Running(p) == part = p /\ UNCHANGED part
InTunnel(A) == Running("tunnel") /\ A /\ UNCHANGED <<cmdVars, sftpVars>>
InControl(A) == Running("control") /\ A /\ UNCHANGED <<cmdVars, sftpVars>>
InCmd(A) == Running("cmd") /\ A /\ UNCHANGED <<vars, sftpVars>>
InSftp(p, A) == Running(p) /\ A /\ UNCHANGED <<vars, cmdVars>>

MCNext ==
  \/ InTunnel(Next) \/ InControl(ControlTunnel!Next) \/ InCmd(Cmd!Next)
  \/ InSftp("sftp", Sftp!Next) \/ InSftp("no sudo", NoSudo!Next)

\* The fairness of SshTunnel and SshConnector.
MCSpec ==
  /\ MCInit /\ [][MCNext]_allVars
  /\ \A c \in Connectors :
       /\ WF_allVars(InTunnel(CopyToConnector(c)))
       /\ WF_allVars(InTunnel(CopyToRemote(c)))
       /\ WF_allVars(InTunnel(Started(c)))
       /\ SF_allVars(InTunnel(Lock(c)))
  /\ WF_allVars(InCmd(Cmd!CmdSteps)) /\ WF_allVars(InCmd(Cmd!CloserSteps))
  /\ WF_allVars(InCmd(Cmd!WatcherCloses))
  /\ WF_allVars(InCmd(Cmd!ClosedHandshakeFails))

---------------------------------------------------------------------------
(* TunnelSafe and ForgottenOnlyInRace are those of SshTunnel: they hold    *)
(* over a connection and over a control socket.                            *)

\* Both goroutines of a forward that was set up end when either side goes and
\* close their ends; a lost connection is noticed as long as connectors keep
\* coming.
TunnelLive ==
  part = "tunnel" =>
    /\ ForwardsEnd
    /\ (\A c \in Connectors : WF_allVars(InTunnel(Connector(c)))) =>
         (LostUnnoticed ~> ~LostUnnoticed)

\* Cmd reports no result of a killed command, and the agent answers while a
\* command runs, also for the second one.
CmdSafe == Cmd!TypeOK /\ Cmd!KilledIsNoResult /\ Cmd!AgentAnswersCommands

\* The end of the context ends Cmd, a deadline ends the handshake.
CmdEnds == Cmd!ContextEndsCmd /\ Cmd!DeadlineEndsHandshake

\* A transfer that succeeds got the best of each file from its two passes,
\* reports nothing as denied without having tried sudo, has written every
\* file, and has stopped its clients.  Of a directory it reports the last
\* error, or the denial of a first pass that a second one has made up for.
TransferExact ==
  /\ IF part = "no sudo" THEN NoSudo!DownloadIsBest /\ NoSudo!DirectoryIsSaid
     ELSE Sftp!DownloadIsBest /\ Sftp!DirectoryIsSaid
  /\ Sftp!DeniedOnlyAfterSudo /\ Sftp!UploadIsComplete
  /\ Sftp!ClientsStopped
=============================================================================
