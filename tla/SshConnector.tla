---------------------------- MODULE SshConnector ----------------------------
(***************************************************************************)
(* The ssh connector outside its reading pipeline: Init (configuration,    *)
(* dial of the addresses, handshake watched by a goroutine), the shell     *)
(* session opened on first use, Cmd with the goroutine that kills the      *)
(* command when the context ends, agent forwarding, Close.                 *)
(***************************************************************************)
EXTENDS Naturals

CONSTANTS Addresses,    \* number of endpoints DialCtx tries
          Forwarding,   \* InitAgentForward was called
          MaxCmds       \* bound on Cmd calls

VARIABLES pc,       \* the caller: in Init, ready, or in Cmd
          inited,   \* Streamer.inited
          tried,    \* endpoints tried
          ctx,      \* the context of the call: live, deadline or canceled
          conn,     \* none, raw (TCP only), open or closed
          watcher,  \* the goroutine of DialConnCtx: none, watching or done
          shell,    \* Streamer.session: none, open or closed
          agent,    \* Streamer.forwardAgent: none, unlocked or locked
          sess,     \* the session of Cmd: none, open or closed
          remote,   \* its command: none, running, exited or killed
          closer,   \* the goroutine of CloserCTX
          inner,    \* its cancel function was called
          ctxErr,   \* ctxCancelErr is set
          waitErr,  \* what session.Wait returned
          result, cmds

dialVars == <<inited, tried, conn, watcher>>
cmdVars  == <<sess, remote, closer, inner, ctxErr, waitErr>>
vars == <<pc, ctx, dialVars, shell, agent, cmdVars, result, cmds>>

Ended(c) == c # "live"

Init ==
  /\ pc = "new" /\ inited = FALSE /\ tried = 0 /\ ctx = "live"
  /\ conn = "none" /\ watcher = "none" /\ shell = "none" /\ agent = "none"
  /\ sess = "none" /\ remote = "none" /\ closer = "none" /\ inner = FALSE
  /\ ctxErr = FALSE /\ waitErr = "none" /\ result = "none" /\ cmds = 0

Return(r) == pc' = "idle" /\ result' = r

ContextEnds ==
  /\ ctx = "live" /\ pc \notin {"new", "idle"}
  /\ ctx' \in {"deadline", "canceled"}
  /\ UNCHANGED <<pc, dialVars, shell, agent, cmdVars, result, cmds>>

---------------------------------------------------------------------------
(* Init, openConnect, DialCtx, DialConnCtx.                                *)

CallInit ==
  /\ pc \in {"new", "idle"} /\ cmds = 0
  /\ IF inited THEN Return("error") /\ UNCHANGED inited
     ELSE pc' = "config" /\ inited' = TRUE /\ UNCHANGED result
  /\ ctx' = "live" /\ UNCHANGED <<tried, conn, watcher, shell, agent, cmdVars,
                                  cmds>>

\* GetConfig collects keys, agent signers and passwords, or fails.
GetConfig ==
  /\ pc = "config"
  /\ \/ pc' = "dial" /\ UNCHANGED result
     \/ Return("error")
  /\ UNCHANGED <<ctx, dialVars, shell, agent, cmdVars, cmds>>

DialOk ==
  /\ pc = "dial" /\ ~Ended(ctx)
  /\ conn' = "raw" /\ watcher' = "watching" /\ pc' = "handshake"
  /\ UNCHANGED <<ctx, inited, tried, shell, agent, cmdVars, result, cmds>>

DialFails ==
  /\ pc = "dial" /\ tried' = tried + 1
  /\ IF tried + 1 = Addresses THEN Return("error")
     ELSE UNCHANGED <<pc, result>>
  /\ UNCHANGED <<ctx, inited, conn, watcher, shell, agent, cmdVars, cmds>>

\* The watcher closes the connection when a deadline passes; it leaves a
\* cancelled context alone, since its own cancel looks the same.
WatcherCloses ==
  /\ watcher = "watching" /\ ctx = "deadline" /\ pc = "handshake"
  /\ watcher' = "done" /\ conn' = IF conn = "raw" THEN "closed" ELSE conn
  /\ UNCHANGED <<pc, ctx, inited, tried, shell, agent, cmdVars, result, cmds>>

HandshakeOk ==
  /\ pc = "handshake" /\ conn = "raw"
  /\ conn' = "open" /\ watcher' = "done" /\ Return("ok")
  /\ UNCHANGED <<ctx, inited, tried, shell, agent, cmdVars, cmds>>

\* The peer refuses, or the connection was closed; it is closed either way.
HandshakeFails ==
  /\ pc = "handshake" /\ conn' = "closed" /\ watcher' = "done"
  /\ Return("error")
  /\ UNCHANGED <<ctx, inited, tried, shell, agent, cmdVars, cmds>>

\* ... because the watcher closed it.
ClosedHandshakeFails == conn = "closed" /\ HandshakeFails

---------------------------------------------------------------------------
(* Sessions and agent forwarding.                                          *)

Usable == pc = "idle" /\ conn = "open"

\* startForwarding: the first session requests the forwarding, later ones
\* only unlock the keyring.
StartForwarding == agent' = IF Forwarding THEN "unlocked" ELSE agent

StopForwarding == agent' = IF agent = "none" THEN "none" ELSE "locked"

\* Write, Read and ReadTo open the shell session when there is none.
StartSession ==
  /\ Usable /\ shell = "none" /\ cmds < MaxCmds
  /\ shell' = "open" /\ StartForwarding
  /\ UNCHANGED <<pc, ctx, dialVars, cmdVars, result, cmds>>

CallCmd ==
  /\ Usable /\ cmds < MaxCmds
  /\ pc' = "template" /\ ctx' = "live" /\ cmds' = cmds + 1
  /\ sess' = "none" /\ remote' = "none" /\ closer' = "none" /\ inner' = FALSE
  /\ ctxErr' = FALSE /\ waitErr' = "none" /\ result' = "none"
  /\ UNCHANGED <<dialVars, shell, agent>>

\* newSessionTemplate, with the callbacks, then CloserCTX.
OpenTemplate ==
  /\ pc = "template"
  /\ \/ /\ sess' = "open" /\ closer' = "watch" /\ StartForwarding
        /\ pc' = "start" /\ UNCHANGED result
     \/ Return("error") /\ UNCHANGED <<sess, closer, agent>>
  /\ UNCHANGED <<ctx, dialVars, shell, remote, inner, ctxErr, waitErr, cmds>>

\* session.Start: fails on a session that is closed.
StartCmd ==
  /\ pc = "start"
  /\ \/ /\ sess = "open" /\ remote' = "running" /\ pc' = "copy"
        /\ UNCHANGED <<inner, sess, result>>
     \/ /\ inner' = TRUE /\ sess' = "closed" /\ Return("error")
        /\ UNCHANGED remote
  /\ UNCHANGED <<ctx, dialVars, shell, agent, closer, ctxErr, waitErr, cmds>>

RemoteExits ==
  /\ remote = "running" /\ sess = "open" /\ remote' = "exited"
  /\ UNCHANGED <<pc, ctx, dialVars, shell, agent, sess, closer, inner, ctxErr,
                 waitErr, result, cmds>>

\* Mutant of CloserWakes: the error of the context is not noted.
CloserWakesSilently ==
  /\ closer = "watch"
  /\ \/ Ended(ctx) /\ closer' = "kill"
     \/ inner /\ closer' = "done"
  /\ UNCHANGED <<pc, ctx, dialVars, shell, agent, sess, remote, inner, ctxErr,
                 waitErr, result, cmds>>

\* The goroutine of CloserCTX: the error is noted, then the command killed,
\* then the session closed.
CloserWakes ==
  /\ closer = "watch"
  /\ \/ Ended(ctx) /\ closer' = "kill" /\ ctxErr' = TRUE
     \/ inner /\ closer' = "done" /\ UNCHANGED ctxErr
  /\ UNCHANGED <<pc, ctx, dialVars, shell, agent, sess, remote, inner,
                 waitErr, result, cmds>>

CloserKills ==
  /\ closer = "kill" /\ closer' = "close"
  /\ \/ remote = "running" /\ remote' = "killed"
     \/ UNCHANGED remote
  /\ UNCHANGED <<pc, ctx, dialVars, shell, agent, sess, inner, ctxErr,
                 waitErr, result, cmds>>

\* Mutant of CloserCloses: the signal alone must end the command.
CloserOnlyKills ==
  /\ closer = "close" /\ closer' = "done"
  /\ UNCHANGED <<pc, ctx, dialVars, shell, agent, sess, remote, inner, ctxErr,
                 waitErr, result, cmds>>

CloserCloses ==
  /\ closer = "close" /\ closer' = "done" /\ sess' = "closed"
  /\ UNCHANGED <<pc, ctx, dialVars, shell, agent, remote, inner, ctxErr,
                 waitErr, result, cmds>>

\* Both copies meet the end of their streams: the command is over or the
\* session closed.  Then session.Wait tells how: the exit status, or nothing
\* when none was received.
CopyEnds ==
  /\ pc = "copy" /\ (remote \in {"exited", "killed"} \/ sess = "closed")
  /\ waitErr' \in (IF remote = "exited" THEN {"status", "missing"}
                   ELSE IF remote = "killed" THEN {"signal", "missing"}
                   ELSE {"missing"})
  /\ inner' = TRUE /\ pc' = "report" /\ StopForwarding
  /\ UNCHANGED <<ctx, dialVars, shell, sess, remote, closer, ctxErr, result,
                 cmds>>

\* An exit by a signal is an ExitError too: it has a status.
Report ==
  /\ pc = "report" /\ sess' = "closed"
  /\ Return(IF ctxErr THEN "context"
            ELSE IF waitErr = "missing" THEN "error" ELSE "ok")
  /\ UNCHANGED <<ctx, dialVars, shell, agent, remote, closer, inner, ctxErr,
                 waitErr, cmds>>

Close ==
  /\ Usable
  /\ agent' = "none" /\ conn' = "closed"
  /\ shell' = IF shell = "open" THEN "closed" ELSE shell
  /\ UNCHANGED <<pc, ctx, inited, tried, watcher, cmdVars, result, cmds>>

InitSteps ==
  \/ GetConfig \/ DialOk \/ DialFails \/ HandshakeFails

CmdSteps == OpenTemplate \/ StartCmd \/ CopyEnds \/ Report
CloserSteps == CloserWakes \/ CloserKills \/ CloserCloses

Next ==
  \/ CallInit \/ InitSteps \/ HandshakeOk \/ WatcherCloses \/ ContextEnds
  \/ StartSession \/ CallCmd \/ CmdSteps \/ CloserSteps \/ RemoteExits
  \/ Close

Spec == Init /\ [][Next]_vars

\* The goroutines run and the caller goes on; nothing is assumed of the peer:
\* the handshake need not end by itself, nor the command.
FairSpec ==
  /\ Spec /\ WF_vars(CmdSteps) /\ WF_vars(CloserSteps)
  /\ WF_vars(WatcherCloses)
  /\ WF_vars(ClosedHandshakeFails)

---------------------------------------------------------------------------

TypeOK ==
  /\ pc \in {"new", "idle", "config", "dial", "handshake", "template",
             "start", "copy", "report"}
  /\ inited \in BOOLEAN /\ tried \in 0..Addresses
  /\ ctx \in {"live", "deadline", "canceled"}
  /\ conn \in {"none", "raw", "open", "closed"}
  /\ watcher \in {"none", "watching", "done"}
  /\ shell \in {"none", "open", "closed"}
  /\ agent \in {"none", "unlocked", "locked"}
  /\ sess \in {"none", "open", "closed"}
  /\ remote \in {"none", "running", "exited", "killed"}
  /\ closer \in {"none", "watch", "kill", "close", "done"}
  /\ inner \in BOOLEAN /\ ctxErr \in BOOLEAN
  /\ waitErr \in {"none", "status", "signal", "missing"}
  /\ result \in {"none", "ok", "error", "context"} /\ cmds \in 0..MaxCmds

\* A command that this connector killed, or whose session it closed, is never
\* reported as a result: the goroutine notes its error before it acts.
KilledIsNoResult ==
  (pc = "idle" /\ cmds > 0 /\ result = "ok") => remote = "exited"

\* The agent answers while a command runs, also for the second and later
\* commands, whose sessions find the keyring locked by the one before.
AgentAnswersCommands ==
  (Forwarding /\ pc = "copy") => agent = "unlocked"

\* The end of the context ends Cmd, whatever the remote command does.
ContextEndsCmd == (pc = "copy" /\ Ended(ctx)) ~> (pc = "idle")

\* A deadline ends a handshake with a silent peer.  (A cancelled context
\* does not.)
DeadlineEndsHandshake ==
  (pc = "handshake" /\ ctx = "deadline") ~> (pc # "handshake")
=============================================================================
