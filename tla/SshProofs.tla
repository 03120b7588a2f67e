------------------------------ MODULE SshProofs ------------------------------
(***************************************************************************)
(* Proofs about the ssh connector.  First about SshTunnel, for any number  *)
(* of connectors and endpoints: the reads outside the mutex are safe       *)
(* because what they look for is stored before it is announced and is      *)
(* never taken away again.  Then about SshConnector and SftpTransfer as    *)
(* MCSsh runs them: commands under a context that may end at any step, and *)
(* the two passes of a transfer.                                           *)
(***************************************************************************)
EXTENDS MCSsh, TLAPS

---------------------------------------------------------------------------
(* The shared tunnel.                                                      *)

Holds(c) == pc[c] \in {"dialing", "mark"}
Stored == svrConn # NoConn \/ stdio
OnTheWay == {"create", "dialing", "mark", "forward", "checkOpen", "dial"}

TunnelInv ==
  /\ TypeOK
  /\ \A c \in Connectors : Holds(c) => mu = c
  /\ isOpen => Stored
  /\ \A c \in Connectors : pc[c] \in {"mark", "dial"} => Stored
  /\ \A c \in Connectors : pc[c] \in OnTheWay => tries[c] < Endpoints

\* The tunnel starts unconnected and with no connector inside.
LEMMA InitTunnelInv == Init => TunnelInv
<1> SUFFICES ASSUME Init PROVE TunnelInv
  OBVIOUS
<1>1. TypeOK
  <2>1. 0 \in 0..MaxConns /\ 0 \in 0..Endpoints
    BY TunnelAssumption DEF TunnelAssumption
  <2>2. "start" \in States
    BY DEF States
  <2> QED BY <2>1, <2>2 DEF Init, TypeOK
<1>2. \A c \in Connectors : pc[c] = "start"
  BY DEF Init
<1> QED BY <1>1, <1>2 DEF Init, TunnelInv, Holds, OnTheWay

\* The steps outside dialTunnel and CreateConnect leave the labels alone.
LEMMA ForwardStepsKeepInv ==
  ASSUME TunnelInv, NEW c \in Connectors,
         Copies(c) \/ RemoteCloses(c) \/ ConnectionLost \/ CloseForward(c)
  PROVE  TunnelInv'
<1>1. /\ UNCHANGED <<mu, isOpen, svrConn, stdio, dialled, pc, tries, via>>
      /\ UNCHANGED stray
      /\ alive' \subseteq alive /\ lconn' \subseteq lconn
      /\ rconn' \subseteq rconn /\ remote' \subseteq remote
  BY DEF Copies, CopyToConnector, CopyToRemote, RemoteCloses, ConnectionLost,
    CloseForward, tunnelVars, fwdVars
<1> QED BY <1>1 DEF TunnelInv, TypeOK, Holds, Stored, Conns

\* The steps of CreateConnect: what they store and who holds the mutex.
LEMMA ConnectStepsKeepInv ==
  ASSUME TunnelInv, NEW c \in Connectors,
         CheckConnected(c) \/ Lock(c) \/ ConnectOk(c) \/ MarkOpen(c)
           \/ ConnectFails(c)
  PROVE  TunnelInv'
<1> USE TunnelAssumption DEF TunnelAssumption, TunnelInv, TypeOK, Holds,
      Stored, OnTheWay, States, Goto
<1>1. CASE CheckConnected(c)
  BY <1>1 DEF CheckConnected, tunnelVars, fwdVars
<1>2. CASE Lock(c)
  BY <1>2 DEF Lock, fwdVars
<1>3. CASE ConnectOk(c)
  <2>1. dialled + 1 \in Conns /\ dialled + 1 # NoConn
        /\ dialled' \in 0..MaxConns /\ alive' \subseteq Conns
    BY <1>3 DEF ConnectOk, Conns
  <2>2. Stored' /\ stdio' \in BOOLEAN /\ svrConn' \in Conns \cup {NoConn}
    BY <1>3, <2>1 DEF ConnectOk
  <2>3. pc' \in [Connectors -> States]
        /\ \A d \in Connectors : pc'[d] = IF d = c THEN "mark" ELSE pc[d]
    BY <1>3 DEF ConnectOk
  <2>4. UNCHANGED <<mu, isOpen, tries, via, lconn, rconn, remote, stray>>
        /\ pc[c] = "dialing"
    BY <1>3 DEF ConnectOk, fwdVars
  <2>5. TypeOK'
    BY <2>1, <2>2, <2>3, <2>4 DEF Conns
  <2> QED BY <2>2, <2>3, <2>4, <2>5
<1>4. CASE MarkOpen(c)
  BY <1>4 DEF MarkOpen, fwdVars
<1>5. CASE ConnectFails(c)
  BY <1>5 DEF ConnectFails, fwdVars
<1> QED BY <1>1, <1>2, <1>3, <1>4, <1>5

\* The steps of StartForward and of Close, which run without the mutex.
LEMMA UnlockedStepsKeepInv ==
  ASSUME TunnelInv, NEW c \in Connectors,
         ReadStdio(c) \/ CheckOpen(c) \/ ForwardOk(c) \/ ForwardFails(c)
           \/ CloseTunnel(c) \/ CloseConn(c) \/ Again(c)
  PROVE  TunnelInv'
<1> USE TunnelAssumption DEF TunnelAssumption, TunnelInv, TypeOK, Holds,
      Stored, OnTheWay, States, Goto
<1>1. CASE ReadStdio(c)
  BY <1>1 DEF ReadStdio, tunnelVars, fwdVars
<1>2. CASE CheckOpen(c)
  BY <1>2 DEF CheckOpen, NextEndpoint, tunnelVars, fwdVars
<1>3. CASE ForwardOk(c)
  BY <1>3 DEF ForwardOk, tunnelVars
<1>4. CASE ForwardFails(c)
  <2>1. /\ pc[c] = "dial" /\ tries' = [tries EXCEPT ![c] = @ + 1]
        /\ \/ tries[c] + 1 < Endpoints /\ pc' = [pc EXCEPT ![c] = "forward"]
           \/ pc' = [pc EXCEPT ![c] = "close"]
        /\ UNCHANGED <<tunnelVars, via, lconn, rconn, remote>>
    BY <1>4 DEF ForwardFails, NextEndpoint
  <2>2. stray' \in BOOLEAN
    <3>1. stray \in BOOLEAN /\ stdio \in BOOLEAN
      OBVIOUS
    <3>2. stray' \in {stray, stray \/ ~stdio}
      BY <1>4 DEF ForwardFails
    <3> QED BY ONLY <3>1, <3>2
  <2> QED BY <2>1, <2>2 DEF tunnelVars
<1>5. CASE CloseTunnel(c)
  BY <1>5 DEF CloseTunnel, fwdVars
<1>6. CASE CloseConn(c)
  BY <1>6 DEF CloseConn, fwdVars
<1>7. CASE Again(c)
  BY <1>7 DEF Again, tunnelVars, fwdVars
<1> QED BY <1>1, <1>2, <1>3, <1>4, <1>5, <1>6, <1>7

LEMMA NextKeepsInv == TunnelInv /\ [Next]_vars => TunnelInv'
<1> SUFFICES ASSUME TunnelInv, [Next]_vars PROVE TunnelInv'
  OBVIOUS
<1>1. CASE UNCHANGED vars
  BY <1>1 DEF vars, tunnelVars, fwdVars, TunnelInv, TypeOK, Holds, Stored
<1>2. ASSUME NEW c \in Connectors, Connector(c) \/ Copies(c) \/ RemoteCloses(c)
      PROVE  TunnelInv'
  BY <1>2, ForwardStepsKeepInv, ConnectStepsKeepInv, UnlockedStepsKeepInv
  DEF Connector
<1>3. CASE ConnectionLost
  <2>1. UNCHANGED <<mu, isOpen, svrConn, stdio, dialled, pc, tries, fwdVars>>
        /\ alive' \subseteq alive
    BY <1>3 DEF ConnectionLost
  <2> QED BY <2>1 DEF fwdVars, TunnelInv, TypeOK, Holds, Stored, Conns
<1> QED BY <1>1, <1>2, <1>3 DEF Next

LEMMA InvAlways == Spec => []TunnelInv
BY InitTunnelInv, NextKeepsInv, PTL DEF Spec

\* For any number of connectors and endpoints, over a connection or a control
\* socket: the types and the bound on attempts hold, the mutex keeps two
\* connections from being dialled at once, and the unlocked reads of
\* StartForward never lead to the Dial of a nil svrConn.
THEOREM TunnelSafeAlways == Spec => []TunnelSafe
<1>1. TunnelInv => TunnelSafe
  BY DEF TunnelInv, TunnelSafe, OneDial, NilNeverDialled, Holds, Stored
<1> QED BY <1>1, InvAlways, PTL

---------------------------------------------------------------------------
(* Init and Cmd, with the goroutine that kills a command.                  *)

LoggingIn == {"config", "dial", "handshake"}

\* Addresses are tried one by one, by the one call of Init, before any
\* command.
DialInv ==
  /\ ~inited \/ cpc = "config" => tried = 0
  /\ cpc = "dial" => tried < Addresses
  /\ cpc \in LoggingIn => inited /\ cmds = 0

\* The goroutine of CloserCTX notes the error of the context before it kills
\* the command or closes its session, so that a result means an exit.
KillInv ==
  /\ cpc \in {"template", "start", "copy"} =>
       waitErr = "none" /\ result = "none"
  /\ closer \in {"kill", "close"} => ctxErr
  /\ cmdState = "killed" => ctxErr
  /\ waitErr = "status" => cmdState = "exited"
  /\ waitErr = "signal" => ctxErr
  /\ cpc = "report" => waitErr # "none"
  /\ cmds > 0 /\ result = "ok" => cmdState = "exited"

\* The keyring is unlocked from the session on until the output has ended.
AgentInv == Forwarding /\ cpc \in {"start", "copy"} => agent = "unlocked"

CmdInv == Cmd!TypeOK /\ DialInv /\ KillInv /\ AgentInv

\* A new connector has tried, opened and run nothing.
LEMMA InitCmdInv == Cmd!Init => CmdInv
<1> SUFFICES ASSUME Cmd!Init PROVE CmdInv
  OBVIOUS
<1>1. 0 \in 0..Addresses /\ 0 \in 0..MaxCmds
  BY ConnectorAssumption DEF ConnectorAssumption
<1> QED
  BY <1>1, ConnectorAssumption
  DEF ConnectorAssumption, Cmd!Init, CmdInv, Cmd!TypeOK, DialInv, KillInv,
      AgentInv, LoggingIn

\* Init: configuration, the addresses, the handshake and its watcher.
LEMMA DialStepsKeepCmdInv ==
  ASSUME CmdInv,
         Cmd!CallInit \/ Cmd!InitSteps \/ Cmd!HandshakeOk
           \/ Cmd!WatcherCloses \/ Cmd!ContextEnds
  PROVE  CmdInv'
<1> USE ConnectorAssumption
    DEF ConnectorAssumption, CmdInv, Cmd!TypeOK, DialInv, KillInv, AgentInv,
        LoggingIn, Cmd!Return, Cmd!dialVars, Cmd!cmdVars
<1>1. CASE Cmd!CallInit
  <2>0. inited' \in BOOLEAN /\ inner' \in BOOLEAN /\ ctxErr' \in BOOLEAN
    BY <1>1, Zenon DEF Cmd!CallInit, Cmd!cmdVars, Cmd!Return
  <2>1. Cmd!TypeOK'
    BY <2>0, <1>1 DEF Cmd!CallInit
  <2>2. DialInv'
    BY <1>1 DEF Cmd!CallInit
  <2>3. KillInv' /\ AgentInv'
    BY <1>1 DEF Cmd!CallInit
  <2> QED BY <2>1, <2>2, <2>3
<1>2. CASE Cmd!GetConfig
  BY <1>2 DEF Cmd!GetConfig
<1>3. CASE Cmd!DialOk
  BY <1>3 DEF Cmd!DialOk
<1>4. CASE Cmd!DialFails
  <2>1. Cmd!TypeOK'
    BY <1>4 DEF Cmd!DialFails
  <2>2. DialInv'
    BY <1>4 DEF Cmd!DialFails
  <2>3. KillInv' /\ AgentInv'
    BY <1>4 DEF Cmd!DialFails
  <2> QED BY <2>1, <2>2, <2>3
<1>5. CASE Cmd!HandshakeFails
  BY <1>5 DEF Cmd!HandshakeFails
<1>6. CASE Cmd!HandshakeOk
  BY <1>6 DEF Cmd!HandshakeOk
<1>7. CASE Cmd!WatcherCloses
  BY <1>7 DEF Cmd!WatcherCloses
<1>8. CASE Cmd!ContextEnds
  BY <1>8 DEF Cmd!ContextEnds
<1> QED
  BY <1>1, <1>2, <1>3, <1>4, <1>5, <1>6, <1>7, <1>8 DEF Cmd!InitSteps

\* Sessions, a command with its goroutine, Close.
LEMMA CommandStepsKeepCmdInv ==
  ASSUME CmdInv,
         Cmd!StartSession \/ Cmd!CallCmd \/ Cmd!CmdSteps \/ Cmd!CloserSteps
           \/ Cmd!RemoteExits \/ Cmd!Close
  PROVE  CmdInv'
<1> USE ConnectorAssumption
    DEF ConnectorAssumption, CmdInv, Cmd!TypeOK, DialInv, KillInv, AgentInv,
        LoggingIn, Cmd!Return, Cmd!Usable, Cmd!StartForwarding,
        Cmd!StopForwarding, Cmd!dialVars, Cmd!cmdVars
<1>1. CASE Cmd!StartSession
  BY <1>1 DEF Cmd!StartSession
<1>2. CASE Cmd!CallCmd
  <2>0. inited' \in BOOLEAN /\ inner' \in BOOLEAN /\ ctxErr' \in BOOLEAN
    BY <1>2, Zenon DEF Cmd!CallCmd, Cmd!dialVars
  <2>1. Cmd!TypeOK'
    BY <2>0, <1>2 DEF Cmd!CallCmd
  <2>2. DialInv'
    BY <1>2 DEF Cmd!CallCmd
  <2>3. KillInv' /\ AgentInv'
    BY <1>2 DEF Cmd!CallCmd
  <2> QED BY <2>1, <2>2, <2>3
<1>3. CASE Cmd!OpenTemplate
  BY <1>3 DEF Cmd!OpenTemplate
<1>4. CASE Cmd!StartCmd
  <2>0. inited' \in BOOLEAN /\ inner' \in BOOLEAN /\ ctxErr' \in BOOLEAN
    BY <1>4, Zenon DEF Cmd!StartCmd, Cmd!dialVars, Cmd!Return
  <2>1. Cmd!TypeOK'
    BY <2>0, <1>4 DEF Cmd!StartCmd
  <2>2. DialInv'
    BY <1>4 DEF Cmd!StartCmd
  <2>3. KillInv' /\ AgentInv'
    BY <1>4 DEF Cmd!StartCmd
  <2> QED BY <2>1, <2>2, <2>3
<1>5. CASE Cmd!CopyEnds
  BY <1>5 DEF Cmd!CopyEnds
<1>6. CASE Cmd!Report
  BY <1>6 DEF Cmd!Report
<1>7. CASE Cmd!CloserWakes
  <2>0. inited' \in BOOLEAN /\ inner' \in BOOLEAN /\ ctxErr' \in BOOLEAN
    BY <1>7, Zenon DEF Cmd!CloserWakes, Cmd!dialVars
  <2>1. Cmd!TypeOK'
    BY <2>0, <1>7 DEF Cmd!CloserWakes
  <2>2. DialInv'
    BY <1>7 DEF Cmd!CloserWakes
  <2>3. KillInv' /\ AgentInv'
    BY <1>7 DEF Cmd!CloserWakes
  <2> QED BY <2>1, <2>2, <2>3
<1>8. CASE Cmd!CloserKills
  BY <1>8 DEF Cmd!CloserKills
<1>9. CASE Cmd!CloserCloses
  BY <1>9 DEF Cmd!CloserCloses
<1>10. CASE Cmd!RemoteExits
  BY <1>10 DEF Cmd!RemoteExits
<1>11. CASE Cmd!Close
  BY <1>11 DEF Cmd!Close
<1> QED
  BY <1>1, <1>2, <1>3, <1>4, <1>5, <1>6, <1>7, <1>8, <1>9, <1>10, <1>11
  DEF Cmd!CmdSteps, Cmd!CloserSteps

\* What the other parts do leaves the connector alone.
LEMMA StutterKeepsCmdInv ==
  ASSUME CmdInv, UNCHANGED cmdVars
  PROVE  CmdInv'
BY DEF cmdVars, CmdInv, Cmd!TypeOK, DialInv, KillInv, AgentInv, LoggingIn

LEMMA StepKeepsCmdInv == CmdInv /\ [MCNext]_allVars => CmdInv'
<1> SUFFICES ASSUME CmdInv, [MCNext]_allVars PROVE CmdInv'
  OBVIOUS
<1>1. Cmd!Next \/ UNCHANGED cmdVars
  BY DEF MCNext, InTunnel, InControl, InCmd, InSftp, allVars
<1>2. CASE Cmd!Next
  BY <1>2, DialStepsKeepCmdInv, CommandStepsKeepCmdInv DEF Cmd!Next
<1> QED
  BY <1>1, <1>2, StutterKeepsCmdInv

\* For any number of addresses and commands, with and without agent
\* forwarding: no more endpoints are tried than there are, a command that was
\* killed or whose session was closed is never reported as a result, however
\* the end of the context races with its exit, and the keyring is open
\* whenever a command runs, also after one that locked it.
THEOREM CmdSafeAlways == MCSpec => []CmdSafe
<1>1. MCInit => CmdInv
  BY InitCmdInv DEF MCInit
<1>2. CmdInv => CmdSafe
  BY DEF CmdInv, KillInv, AgentInv, CmdSafe, Cmd!KilledIsNoResult,
         Cmd!AgentAnswersCommands
<1> QED
  BY <1>1, <1>2, StepKeepsCmdInv, PTL DEF MCSpec

---------------------------------------------------------------------------
(* The two passes of a transfer; mayTry says whether sudo may be tried.    *)

Unseen == {"denied", "error"}

\* What a pass over everything has entries of: the directory if its Stat
\* failed, its files if it was listed.
Found(o) ==
  Files \cup (IF o \in Unseen THEN {Dir} ELSE {})
        \cup (IF o = "listed" THEN InDir ELSE {})

\* What the second pass adds to it.
Filled ==
  Found(dirStat["plain"])
    \cup (IF dirStat["plain"] = "denied" /\ dirStat["sudo"] = "listed"
          THEN InDir ELSE {})

\* The entry of the directory after both passes.
Said ==
  IF dirStat["plain"] = "denied" /\ dirStat["sudo"] \in Unseen
  THEN dirStat["sudo"] ELSE dirStat["plain"]

BestWith(mayTry, f) ==
  IF (firstFailed \/ plain[f] = "denied") /\ mayTry THEN sudo[f]
  ELSE plain[f]

\* A client is open while its pass treats files; sudo gets no less.
TransferTypes(mayTry) ==
  /\ fpc \in {"start", "client", "each", "done"}
  /\ op \in {"none", "download", "upload"}
  /\ pass \in {"plain", "sudo"}
  /\ pass = "sudo" => mayTry
  /\ firstFailed => pass = "sudo"
  /\ clients = IF fpc = "each" THEN 1 ELSE 0
  /\ fpc = "start" => pass = "plain" /\ DOMAIN res = {} /\ written = {}
  /\ fpc # "done" => ret = "none"
  /\ fpc # "start" =>
       /\ op # "none"
       /\ \A f \in Sftp!All : plain[f] # "denied" => sudo[f] = plain[f]
       /\ dirStat["plain"] \notin {"denied", "unlistable"} =>
            dirStat["sudo"] = dirStat["plain"]
       /\ dirStat["plain"] = "unlistable" => dirStat["sudo"] \notin Unseen

\* Nothing but files and the directory is met.
Known(S) == S \subseteq Sftp!All \cup {Dir}

\* A pass over everything: the directory is still to do, or its files are.
FullPassInv ==
  /\ IF Dir \in todo
     THEN DOMAIN res \cup todo = Files \cup {Dir} /\ Dir \notin DOMAIN res
     ELSE DOMAIN res \cup todo = Found(dirStat[pass])
  /\ \A f \in DOMAIN res \ {Dir} : res[f] = Sftp!Get(f)
  /\ Dir \in DOMAIN res => res[Dir] = dirStat[pass]

\* The second pass after a first one that could work has only what was denied
\* to do, and what a denied directory has in it; all others are there.
SecondPassInv(mayTry) ==
  /\ IF Dir \in todo
     THEN /\ DOMAIN res = Found("denied") /\ todo \subseteq DOMAIN res
          /\ dirStat["plain"] = "denied" /\ res[Dir] = "denied"
     ELSE /\ DOMAIN res \cup todo = Filled
          /\ Found(dirStat["plain"]) \subseteq DOMAIN res
          /\ Dir \in DOMAIN res => res[Dir] = Said
  /\ \A f \in DOMAIN res \ (todo \cup {Dir}) : res[f] = BestWith(mayTry, f)

\* A pass has brought what is no longer to do.
DownloadInv(mayTry) ==
  op = "download" =>
    /\ fpc = "each" => Known(todo)
    /\ (fpc = "client" /\ (pass = "plain" \/ firstFailed)) => DOMAIN res = {}
    /\ (fpc = "each" /\ (pass = "plain" \/ firstFailed)) => FullPassInv
    /\ (fpc = "client" /\ pass = "sudo" /\ ~firstFailed) =>
         /\ DOMAIN res = Found(dirStat["plain"])
         /\ \A f \in DOMAIN res \ {Dir} : res[f] = plain[f]
         /\ Dir \in DOMAIN res => res[Dir] = dirStat["plain"]
    /\ (fpc = "each" /\ pass = "sudo" /\ ~firstFailed) =>
         SecondPassInv(mayTry)
    /\ ret = "ok" =>
         /\ DOMAIN res = IF pass = "plain" \/ firstFailed
                        THEN Found(dirStat[pass]) ELSE Filled
         /\ \A f \in DOMAIN res \ {Dir} : res[f] = BestWith(mayTry, f)
         /\ Dir \in DOMAIN res =>
              res[Dir] = IF pass = "plain" \/ firstFailed
                         THEN dirStat[pass] ELSE Said
         /\ pass = "plain" => \A f \in DOMAIN res : res[f] # "denied"

\* Whatever was written in a pass that failed, the last one writes all.
UploadInv ==
  op = "upload" =>
    /\ written \subseteq Sftp!All
    /\ fpc = "each" => todo \subseteq Sftp!All
                       /\ Sftp!All \subseteq written \cup todo
    /\ ret = "ok" => written = Sftp!All

TransferInv(mayTry) ==
  TransferTypes(mayTry) /\ DownloadInv(mayTry) /\ UploadInv

\* Before the call there is no file, no client and no result.
LEMMA InitTransferInv ==
  Sftp!Init => TransferInv(TRUE) /\ TransferInv(FALSE)
<1>1. DOMAIN <<>> = {}
  OBVIOUS
<1> QED
  BY <1>1 DEF Sftp!Init, TransferInv, TransferTypes, DownloadInv, UploadInv

\* An entry of the result.
LEMMA PutFacts ==
  ASSUME NEW f, NEW o, Sftp!Put(f, o)
  PROVE  /\ DOMAIN res' = DOMAIN res \cup {f} /\ res'[f] = o
         /\ \A g \in DOMAIN res : g # f => res'[g] = res[g]
BY DEF Sftp!Put

\* With sudo a file always gets the best there is of it.
LEMMA SudoIsBest ==
  ASSUME TransferInv(TRUE), fpc # "start", NEW f \in Sftp!All
  PROVE  sudo[f] = BestWith(TRUE, f)
BY DEF TransferInv, TransferTypes, BestWith

\* The steps that the passes of a download have in common.
LEMMA EntryStepsKeepInv ==
  ASSUME NEW mayTry \in BOOLEAN, TransferInv(mayTry),
         Sftp!DownloadFile \/ Sftp!DirectoryFails \/ Sftp!WalkDirectory
  PROVE  TransferInv(mayTry)'
<1>1. /\ fpc = "each" /\ op = "download" /\ ret = "none"
      /\ UNCHANGED <<plain, sudo, dirStat, op, fpc, pass, firstFailed,
                     clients, written, ret>>
  BY DEF Sftp!DownloadFile, Sftp!DirectoryFails, Sftp!WalkDirectory,
         Sftp!env, TransferInv, TransferTypes
<1>2. TransferTypes(mayTry)' /\ UploadInv'
  BY <1>1 DEF TransferInv, TransferTypes, UploadInv, Sftp!All
<1>3. Known(todo) /\ Dir \notin Sftp!All
  BY <1>1, DirectoryAssumption DEF TransferInv, DownloadInv, Sftp!All
<1>4. pass = "sudo" => mayTry = TRUE
  BY DEF TransferInv, TransferTypes
<1>5. CASE Sftp!DownloadFile
  <2>1. PICK f \in todo \ {Dir} :
          todo' = todo \ {f} /\ Sftp!Put(f, Sftp!Get(f))
    BY <1>5 DEF Sftp!DownloadFile
  <2>2. /\ DOMAIN res' = DOMAIN res \cup {f} /\ res'[f] = Sftp!Get(f)
        /\ \A g \in DOMAIN res : g # f => res'[g] = res[g]
    BY <2>1, PutFacts
  <2>3. f \in Sftp!All /\ f # Dir /\ Known(todo')
    BY <1>3, <2>1 DEF Known
  <2>4. CASE pass = "plain" \/ firstFailed
    <3>1. FullPassInv
      BY <1>1, <2>4 DEF TransferInv, DownloadInv
    <3>2. FullPassInv'
      BY <3>1, <1>1, <2>1, <2>2, <2>3
         DEF FullPassInv, Sftp!Get, Found, Unseen
    <3> QED BY <3>2, <1>1, <1>2, <2>3, <2>4 DEF TransferInv, DownloadInv
  <2>5. CASE pass = "sudo" /\ ~firstFailed
    <3>1. SecondPassInv(mayTry)
      BY <1>1, <2>5 DEF TransferInv, DownloadInv
    <3>2. Sftp!Get(f) = BestWith(mayTry, f)
      BY <1>1, <1>4, <2>3, <2>5, SudoIsBest DEF Sftp!Get
    <3>3. SecondPassInv(mayTry)'
      BY <3>1, <3>2, <1>1, <2>1, <2>2, <2>3
         DEF SecondPassInv, BestWith, Found, Filled, Said, Unseen
    <3> QED BY <3>3, <1>1, <1>2, <2>3, <2>5 DEF TransferInv, DownloadInv
  <2> QED BY <2>4, <2>5 DEF TransferInv, TransferTypes
<1>6. CASE Sftp!DirectoryFails
  <2>1. /\ Dir \in todo /\ todo' = todo \ {Dir} /\ dirStat[pass] \in Unseen
        /\ Sftp!Put(Dir, dirStat[pass])
    BY <1>6 DEF Sftp!DirectoryFails, Sftp!StatFails, Unseen
  <2>2. /\ DOMAIN res' = DOMAIN res \cup {Dir} /\ res'[Dir] = dirStat[pass]
        /\ \A g \in DOMAIN res : g # Dir => res'[g] = res[g]
    BY <2>1, PutFacts
  <2>3. Known(todo')
    BY <1>3, <2>1 DEF Known
  <2>4. CASE pass = "plain" \/ firstFailed
    <3>1. FullPassInv
      BY <1>1, <2>4 DEF TransferInv, DownloadInv
    <3>2. FullPassInv'
      BY <3>1, <1>1, <2>1, <2>2 DEF FullPassInv, Sftp!Get, Found, Unseen
    <3> QED BY <3>2, <1>1, <1>2, <2>3, <2>4 DEF TransferInv, DownloadInv
  <2>5. CASE pass = "sudo" /\ ~firstFailed
    <3>1. SecondPassInv(mayTry)
      BY <1>1, <2>5 DEF TransferInv, DownloadInv
    <3>2. SecondPassInv(mayTry)'
      BY <3>1, <1>1, <2>1, <2>2, <2>5
         DEF SecondPassInv, BestWith, Found, Filled, Said, Unseen
    <3> QED BY <3>2, <1>1, <1>2, <2>3, <2>5 DEF TransferInv, DownloadInv
  <2> QED BY <2>4, <2>5 DEF TransferInv, TransferTypes
<1>7. CASE Sftp!WalkDirectory
  <2>1. /\ Dir \in todo /\ dirStat[pass] \notin Unseen /\ res' = res
        /\ todo' = (todo \ {Dir})
                     \cup (IF dirStat[pass] = "listed" THEN InDir ELSE {})
    BY <1>7 DEF Sftp!WalkDirectory, Sftp!Walked, Sftp!StatFails, Unseen
  <2>2. Known(todo') /\ Dir \notin todo'
    BY <1>3, <2>1, DirectoryAssumption DEF Known, Sftp!All
  <2>3. CASE pass = "plain" \/ firstFailed
    <3>1. FullPassInv
      BY <1>1, <2>3 DEF TransferInv, DownloadInv
    <3>2. FullPassInv'
      BY <3>1, <1>1, <2>1, <2>2, DirectoryAssumption
         DEF FullPassInv, Sftp!Get, Found, Unseen
    <3> QED BY <3>2, <1>1, <1>2, <2>2, <2>3 DEF TransferInv, DownloadInv
  <2>4. CASE pass = "sudo" /\ ~firstFailed
    <3>1. SecondPassInv(mayTry)
      BY <1>1, <2>4 DEF TransferInv, DownloadInv
    <3>2. SecondPassInv(mayTry)'
      BY <3>1, <1>1, <2>1, <2>2, <2>4
         DEF SecondPassInv, BestWith, Found, Filled, Said, Unseen
    <3> QED BY <3>2, <1>1, <1>2, <2>2, <2>4 DEF TransferInv, DownloadInv
  <2> QED BY <2>3, <2>4 DEF TransferInv, TransferTypes
<1> QED BY <1>5, <1>6, <1>7

\* The call, and the client of a pass.
LEMMA CallKeepsInv ==
  ASSUME NEW mayTry \in BOOLEAN, TransferInv(mayTry), Sftp!Call
  PROVE  TransferInv(mayTry)'
<1>1. /\ fpc = "start" /\ fpc' = "client" /\ op' \in {"download", "upload"}
      /\ \A f \in Sftp!All : plain'[f] # "denied" => sudo'[f] = plain'[f]
      /\ UNCHANGED <<pass, todo, res, firstFailed, clients, written, ret>>
  BY DEF Sftp!Call
<1>2. /\ dirStat'["plain"] \notin {"denied", "unlistable"} =>
           dirStat'["sudo"] = dirStat'["plain"]
      /\ dirStat'["plain"] = "unlistable" => dirStat'["sudo"] \notin Unseen
  BY DEF Sftp!Call, Unseen
<1>3. TransferTypes(mayTry)'
  BY <1>1, <1>2 DEF TransferInv, TransferTypes, Sftp!All
<1>4. DOMAIN res' = {} /\ ret' = "none" /\ pass' = "plain" /\ fpc' = "client"
      /\ written' = {}
  BY <1>1 DEF TransferInv, TransferTypes
<1> QED BY <1>3, <1>4 DEF TransferInv, DownloadInv, UploadInv

LEMMA ClientOkKeepsInv ==
  ASSUME NEW mayTry \in BOOLEAN, TransferInv(mayTry), Sftp!ClientOk
  PROVE  TransferInv(mayTry)'
<1>1. /\ fpc = "client" /\ fpc' = "each" /\ todo' = Sftp!Given
      /\ ret = "none" /\ clients' = clients + 1
      /\ UNCHANGED <<plain, sudo, dirStat, op, pass, res, firstFailed,
                     written, ret>>
  BY DEF Sftp!ClientOk, Sftp!env, TransferInv, TransferTypes
<1>2. TransferTypes(mayTry)'
  BY <1>1 DEF TransferInv, TransferTypes, Sftp!All
<1>3. UploadInv'
  BY <1>1 DEF TransferInv, UploadInv, Sftp!Given, Sftp!All
<1>4. CASE op = "download" /\ (pass = "plain" \/ firstFailed)
  <2>1. todo' = Files \cup {Dir} /\ DOMAIN res' = {}
    BY <1>1, <1>4 DEF Sftp!Given, TransferInv, DownloadInv
  <2>2. FullPassInv' /\ Known(todo')
    BY <2>1 DEF FullPassInv, Known, Sftp!All
  <2> QED BY <2>2, <1>1, <1>2, <1>3, <1>4 DEF TransferInv, DownloadInv
<1>5. CASE op = "download" /\ pass = "sudo" /\ ~firstFailed
  <2>1. /\ DOMAIN res = Found(dirStat["plain"])
        /\ \A f \in DOMAIN res \ {Dir} : res[f] = plain[f]
        /\ Dir \in DOMAIN res => res[Dir] = dirStat["plain"]
    BY <1>1, <1>5 DEF TransferInv, DownloadInv
  <2>2. todo' = {f \in DOMAIN res : res[f] = "denied"}
    BY <1>1, <1>5 DEF Sftp!Given, Sftp!Denied
  <2>3. Known(todo')
    BY <2>1, <2>2 DEF Known, Found, Sftp!All
  <2>4. \A f \in DOMAIN res \ (todo' \cup {Dir}) :
          res[f] = BestWith(mayTry, f)
    BY <2>1, <2>2, <1>5 DEF BestWith
  <2>5. SecondPassInv(mayTry)'
    <3>1. CASE Dir \in todo'
      BY <3>1, <2>1, <2>2, <2>4, <1>1 DEF SecondPassInv, BestWith
    <3>2. CASE Dir \notin todo'
      <4>1. Dir \in DOMAIN res => dirStat["plain"] # "denied"
        BY <3>2, <2>1, <2>2
      <4>2. dirStat["plain"] # "denied"
        BY <4>1, <2>1 DEF Found, Unseen
      <4>3. Filled' = Found(dirStat["plain"]) /\ Said' = dirStat["plain"]
        BY <4>2, <1>1 DEF Filled, Said, Found
      <4> QED BY <3>2, <4>3, <2>1, <2>2, <2>4, <1>1
              DEF SecondPassInv, BestWith, Found
    <3> QED BY <3>1, <3>2
  <2> QED BY <2>3, <2>5, <1>1, <1>2, <1>3, <1>5 DEF TransferInv, DownloadInv
<1>6. CASE op # "download"
  BY <1>6, <1>1, <1>2, <1>3 DEF TransferInv, DownloadInv
<1> QED BY <1>4, <1>5, <1>6 DEF TransferInv, TransferTypes

\* The end of a pass over everything, and that of the second one.
LEMMA PassBrings ==
  ASSUME NEW mayTry \in BOOLEAN, TransferInv(mayTry),
         fpc = "each", op = "download", todo = {}
  PROVE  /\ pass = "plain" \/ firstFailed =>
              /\ DOMAIN res = Found(dirStat[pass])
              /\ \A f \in DOMAIN res \ {Dir} : res[f] = Sftp!Get(f)
              /\ Dir \in DOMAIN res => res[Dir] = dirStat[pass]
         /\ ~(pass = "plain" \/ firstFailed) =>
              /\ DOMAIN res = Filled
              /\ \A f \in DOMAIN res \ {Dir} : res[f] = BestWith(mayTry, f)
              /\ Dir \in DOMAIN res => res[Dir] = Said
BY DEF TransferInv, TransferTypes, DownloadInv, FullPassInv, SecondPassInv

\* The last pass of a download that succeeds.
LEMMA LastPassKeepsInv ==
  ASSUME NEW mayTry \in BOOLEAN, TransferInv(mayTry),
         fpc = "each", op = "download", todo = {}, clients' = clients - 1,
         pass = "sudo" \/ Sftp!Denied = {},
         fpc' = "done", ret' = "ok",
         UNCHANGED <<plain, sudo, dirStat, op, pass, todo, res, firstFailed,
                     written>>
  PROVE  TransferInv(mayTry)'
<1>1. TransferTypes(mayTry)' /\ UploadInv'
  BY DEF TransferInv, TransferTypes, UploadInv, Sftp!All
<1>2. pass = "plain" => \A f \in DOMAIN res : res[f] # "denied"
  BY DEF Sftp!Denied
<1>3. CASE pass = "plain"
  <2>1. ~firstFailed
    BY <1>3 DEF TransferInv, TransferTypes
  <2>2. \A f \in DOMAIN res \ {Dir} : res[f] = BestWith(mayTry, f)
    BY <1>2, <1>3, <2>1, PassBrings DEF BestWith, Sftp!Get
  <2> QED BY <1>1, <1>2, <1>3, <2>2, PassBrings
          DEF TransferInv, DownloadInv, BestWith, Found
<1>4. CASE pass = "sudo" /\ firstFailed
  <2>1. mayTry
    BY <1>4 DEF TransferInv, TransferTypes
  <2>2. \A f \in DOMAIN res \ {Dir} : res[f] = BestWith(mayTry, f)
    BY <1>4, <2>1, PassBrings DEF BestWith, Sftp!Get
  <2> QED BY <1>1, <1>4, <2>2, PassBrings
          DEF TransferInv, DownloadInv, BestWith, Found
<1>5. CASE pass = "sudo" /\ ~firstFailed
  BY <1>1, <1>5, PassBrings
     DEF TransferInv, DownloadInv, BestWith, Filled, Found, Said
<1> QED BY <1>3, <1>4, <1>5 DEF TransferInv, TransferTypes

\* With sudo a second pass follows.
LEMMA SudoStepsKeepInv ==
  ASSUME TransferInv(TRUE), Sftp!Next
  PROVE  TransferInv(TRUE)'
<1> USE DEF Sftp!env, Sftp!Return
<1>1. CASE Sftp!Call
  BY <1>1, CallKeepsInv
<1>2. CASE Sftp!ClientOk
  BY <1>2, ClientOkKeepsInv
<1>3. CASE Sftp!ClientFails
  BY <1>3 DEF Sftp!ClientFails, TransferInv, TransferTypes, DownloadInv,
     UploadInv, Sftp!All, Found, BestWith
<1>4. CASE \/ Sftp!DownloadFile \/ Sftp!DirectoryFails
           \/ Sftp!WalkDirectory
  BY <1>4, EntryStepsKeepInv
<1>5. CASE Sftp!DownloadPassEnds
  <2>1. /\ fpc = "each" /\ op = "download" /\ todo = {}
        /\ clients' = clients - 1
        /\ UNCHANGED <<plain, sudo, dirStat, op, todo, res, firstFailed,
                       written>>
    BY <1>5 DEF Sftp!DownloadPassEnds
  <2>2. CASE pass = "sudo" \/ Sftp!Denied = {}
    BY <2>1, <2>2, <1>5, LastPassKeepsInv DEF Sftp!DownloadPassEnds
  <2>3. CASE ~(pass = "sudo" \/ Sftp!Denied = {})
    <3>1. /\ fpc' = "client" /\ pass' = "sudo" /\ ret' = ret
          /\ pass = "plain" /\ ~firstFailed
      BY <2>3, <1>5 DEF Sftp!DownloadPassEnds, TransferInv, TransferTypes
    <3>2. (TransferTypes(TRUE) /\ UploadInv)'
      BY <2>1, <3>1 DEF TransferInv, TransferTypes, UploadInv, Sftp!All
    <3>3. /\ DOMAIN res = Found(dirStat["plain"])
          /\ \A f \in DOMAIN res \ {Dir} : res[f] = plain[f]
          /\ Dir \in DOMAIN res => res[Dir] = dirStat["plain"]
      BY <2>1, <3>1, PassBrings DEF Sftp!Get
    <3>4. ret' = "none"
      BY <2>1, <3>1 DEF TransferInv, TransferTypes
    <3> QED BY <2>1, <3>1, <3>2, <3>3, <3>4
            DEF TransferInv, DownloadInv, Found
  <2> QED BY <2>2, <2>3
<1>6. CASE Sftp!UploadFile
  BY <1>6 DEF Sftp!UploadFile, TransferInv, TransferTypes, DownloadInv,
     UploadInv, Sftp!All
<1>7. CASE Sftp!UploadFails
  BY <1>7 DEF Sftp!UploadFails, TransferInv, TransferTypes, DownloadInv,
     UploadInv, Sftp!All
<1>8. CASE Sftp!UploadPassEnds
  BY <1>8 DEF Sftp!UploadPassEnds, TransferInv, TransferTypes, DownloadInv,
     UploadInv, Sftp!All
<1> QED
  BY <1>1, <1>2, <1>3, <1>4, <1>5, <1>6, <1>7, <1>8 DEF Sftp!Next

\* Without sudo the first pass decides.
LEMMA PlainStepsKeepInv ==
  ASSUME TransferInv(FALSE), NoSudo!Next
  PROVE  TransferInv(FALSE)'
<1> USE DEF NoSudo!env, NoSudo!Return
<1>1. CASE NoSudo!Call
  <2>1. Sftp!Call
    BY <1>1 DEF NoSudo!Call, Sftp!Call, NoSudo!All, Sftp!All,
       NoSudo!Outcomes, Sftp!Outcomes, NoSudo!DirOutcomes, Sftp!DirOutcomes
  <2> QED BY <2>1, CallKeepsInv
<1>2. CASE NoSudo!ClientOk
  <2>1. Sftp!ClientOk
    BY <1>2 DEF NoSudo!ClientOk, Sftp!ClientOk, NoSudo!Given, Sftp!Given,
       NoSudo!Denied, Sftp!Denied, NoSudo!All, Sftp!All, Sftp!env
  <2> QED BY <2>1, ClientOkKeepsInv
<1>3. CASE NoSudo!ClientFails
  BY <1>3 DEF NoSudo!ClientFails, TransferInv, TransferTypes, DownloadInv,
     UploadInv, Sftp!All, Found, BestWith
<1>4. CASE \/ NoSudo!DownloadFile \/ NoSudo!DirectoryFails
           \/ NoSudo!WalkDirectory
  <2>1. Sftp!DownloadFile \/ Sftp!DirectoryFails \/ Sftp!WalkDirectory
    BY <1>4 DEF NoSudo!DownloadFile, NoSudo!DirectoryFails,
       NoSudo!WalkDirectory, NoSudo!Put, NoSudo!Get, NoSudo!Walked,
       NoSudo!StatFails, Sftp!DownloadFile, Sftp!DirectoryFails,
       Sftp!WalkDirectory, Sftp!Put, Sftp!Get, Sftp!Walked, Sftp!StatFails,
       Sftp!env
  <2> QED BY <2>1, EntryStepsKeepInv
<1>5. CASE NoSudo!DownloadPassEnds
  <2>1. /\ fpc = "each" /\ op = "download" /\ todo = {}
        /\ clients' = clients - 1 /\ fpc' = "done" /\ pass' = pass
        /\ UNCHANGED <<plain, sudo, dirStat, op, todo, res, firstFailed,
                       written>>
    BY <1>5 DEF NoSudo!DownloadPassEnds, TransferInv, TransferTypes
  <2>2. CASE pass = "sudo" \/ Sftp!Denied = {}
    BY <2>1, <2>2, <1>5, LastPassKeepsInv
       DEF NoSudo!DownloadPassEnds, NoSudo!Denied, Sftp!Denied
  <2>3. CASE ~(pass = "sudo" \/ Sftp!Denied = {})
    <3>1. ret' = "error"
      BY <2>3, <1>5 DEF NoSudo!DownloadPassEnds, NoSudo!Denied, Sftp!Denied
    <3>2. (TransferTypes(FALSE) /\ UploadInv)'
      BY <2>1, <3>1 DEF TransferInv, TransferTypes, UploadInv, Sftp!All
    <3> QED BY <2>1, <3>1, <3>2 DEF TransferInv, DownloadInv
  <2> QED BY <2>2, <2>3
<1>6. CASE NoSudo!UploadFile
  BY <1>6 DEF NoSudo!UploadFile, TransferInv, TransferTypes, DownloadInv,
     UploadInv, Sftp!All
<1>7. CASE NoSudo!UploadFails
  BY <1>7 DEF NoSudo!UploadFails, TransferInv, TransferTypes, DownloadInv,
     UploadInv, Sftp!All
<1>8. CASE NoSudo!UploadPassEnds
  BY <1>8 DEF NoSudo!UploadPassEnds, TransferInv, TransferTypes, DownloadInv,
     UploadInv, Sftp!All
<1> QED
  BY <1>1, <1>2, <1>3, <1>4, <1>5, <1>6, <1>7, <1>8 DEF NoSudo!Next

\* Each part of the run has its own setting.
PartInv ==
  /\ part = "no sudo" => TransferInv(FALSE)
  /\ part # "no sudo" => TransferInv(TRUE)

LEMMA StutterKeepsTransferInv ==
  ASSUME NEW mayTry \in BOOLEAN, TransferInv(mayTry), UNCHANGED sftpVars
  PROVE  TransferInv(mayTry)'
BY DEF sftpVars, TransferInv, TransferTypes, DownloadInv, UploadInv, Known,
       FullPassInv, SecondPassInv, Found, Filled, Said, BestWith, Sftp!Get,
       Sftp!All

LEMMA StepKeepsPartInv == PartInv /\ [MCNext]_allVars => PartInv'
<1> SUFFICES ASSUME PartInv, [MCNext]_allVars PROVE PartInv'
  OBVIOUS
<1>1. /\ part' = part
      /\ \/ part = "sftp" /\ Sftp!Next
         \/ part = "no sudo" /\ NoSudo!Next
         \/ UNCHANGED sftpVars
  BY DEF MCNext, InTunnel, InControl, InCmd, InSftp, Running, allVars
<1>2. CASE part = "sftp" /\ Sftp!Next
  BY <1>1, <1>2, SudoStepsKeepInv DEF PartInv
<1>3. CASE part = "no sudo" /\ NoSudo!Next
  BY <1>1, <1>3, PlainStepsKeepInv DEF PartInv
<1>4. CASE UNCHANGED sftpVars
  BY <1>1, <1>4, StutterKeepsTransferInv DEF PartInv
<1> QED
  BY <1>1, <1>2, <1>3, <1>4

\* For any files and any directory, whatever the server grants with and
\* without sudo and in whatever order a pass meets the files: a download that
\* succeeds has every file with the best that the passes could get, nothing as
\* denied without having tried sudo, and of the directory an entry only if a
\* pass was refused it; an upload that succeeds has written
\* every file, also after a first pass that stopped half way; every client
\* that was made is stopped.
THEOREM TransferExactAlways == MCSpec => []TransferExact
<1>1. MCInit => PartInv
  BY InitTransferInv DEF MCInit, PartInv
<1>2. ASSUME TransferInv(TRUE)
      PROVE  /\ Sftp!DownloadIsBest /\ Sftp!DirectoryIsSaid
             /\ Sftp!DeniedOnlyAfterSudo
             /\ Sftp!UploadIsComplete /\ Sftp!ClientsStopped
  <2>1. Sftp!UploadIsComplete /\ Sftp!ClientsStopped
    BY <1>2 DEF TransferInv, TransferTypes, UploadInv,
       Sftp!UploadIsComplete, Sftp!ClientsStopped
  <2>2. \A f : BestWith(TRUE, f) = Sftp!Best(f)
    BY DEF BestWith, Sftp!Best
  <2>3. ASSUME op = "download", ret = "ok"
        PROVE  /\ Files \subseteq DOMAIN res
               /\ Sftp!BestStat = "listed" => InDir \subseteq DOMAIN res
               /\ \A f \in DOMAIN res \ {Dir} : res[f] = Sftp!Best(f)
               /\ Sftp!BestStat \in Unseen =>
                    Dir \in DOMAIN res /\ res[Dir] = Sftp!BestStat
               /\ Sftp!BestStat \notin Unseen =>
                    (Dir \in DOMAIN res
                      <=> dirStat["plain"] = "denied" /\ ~firstFailed)
               /\ \A f \in Sftp!Denied : pass = "sudo"
    <3>1. /\ DOMAIN res = IF pass = "plain" \/ firstFailed
                         THEN Found(dirStat[pass]) ELSE Filled
          /\ \A f \in DOMAIN res \ {Dir} : res[f] = BestWith(TRUE, f)
          /\ Dir \in DOMAIN res =>
               res[Dir] = IF pass = "plain" \/ firstFailed
                          THEN dirStat[pass] ELSE Said
          /\ pass = "plain" => \A f \in DOMAIN res : res[f] # "denied"
      BY <1>2, <2>3 DEF TransferInv, DownloadInv
    <3>2. /\ pass \in {"plain", "sudo"} /\ (firstFailed => pass = "sudo")
          /\ pass = "sudo" => TRUE
          /\ dirStat["plain"] \notin {"denied", "unlistable"} =>
               dirStat["sudo"] = dirStat["plain"]
          /\ dirStat["plain"] = "unlistable" => dirStat["sudo"] \notin Unseen
      BY <1>2, <2>3 DEF TransferInv, TransferTypes
    <3>3. Dir \notin Files \cup InDir
      BY DirectoryAssumption DEF DirectoryAssumption
    <3>4. CASE pass = "plain"
      BY <3>1, <3>2, <3>3, <3>4, <2>2
         DEF Found, Unseen, Sftp!BestStat, Sftp!Denied
    <3>5. CASE pass = "sudo" /\ firstFailed
      BY <3>1, <3>2, <3>3, <3>5, <2>2 DEF Found, Unseen, Sftp!BestStat
    <3>6. CASE pass = "sudo" /\ ~firstFailed
      BY <3>1, <3>2, <3>3, <3>6, <2>2
         DEF Found, Filled, Said, Unseen, Sftp!BestStat
    <3> QED BY <3>2, <3>4, <3>5, <3>6
  <2> QED BY <2>1, <2>3 DEF Sftp!DownloadIsBest, Sftp!DirectoryIsSaid,
          Sftp!DeniedOnlyAfterSudo, Unseen
<1>3. ASSUME TransferInv(FALSE)
      PROVE  /\ NoSudo!DownloadIsBest /\ NoSudo!DirectoryIsSaid
             /\ Sftp!DeniedOnlyAfterSudo
             /\ Sftp!UploadIsComplete /\ Sftp!ClientsStopped
  <2>1. Sftp!UploadIsComplete /\ Sftp!ClientsStopped
    BY <1>3 DEF TransferInv, TransferTypes, UploadInv,
       Sftp!UploadIsComplete, Sftp!ClientsStopped
  <2>2. \A f : BestWith(FALSE, f) = NoSudo!Best(f)
    BY DEF BestWith, NoSudo!Best
  <2>3. ASSUME op = "download", ret = "ok"
        PROVE  /\ Files \subseteq DOMAIN res
               /\ NoSudo!BestStat = "listed" => InDir \subseteq DOMAIN res
               /\ \A f \in DOMAIN res \ {Dir} : res[f] = NoSudo!Best(f)
               /\ NoSudo!BestStat \in Unseen =>
                    Dir \in DOMAIN res /\ res[Dir] = NoSudo!BestStat
               /\ NoSudo!BestStat \notin Unseen =>
                    (Dir \in DOMAIN res
                      <=> dirStat["plain"] = "denied" /\ ~firstFailed)
               /\ \A f \in Sftp!Denied : pass = "sudo"
    <3>1. /\ DOMAIN res = IF pass = "plain" \/ firstFailed
                         THEN Found(dirStat[pass]) ELSE Filled
          /\ \A f \in DOMAIN res \ {Dir} : res[f] = BestWith(FALSE, f)
          /\ Dir \in DOMAIN res =>
               res[Dir] = IF pass = "plain" \/ firstFailed
                          THEN dirStat[pass] ELSE Said
          /\ pass = "plain" => \A f \in DOMAIN res : res[f] # "denied"
      BY <1>3, <2>3 DEF TransferInv, DownloadInv
    <3>2. /\ pass \in {"plain", "sudo"} /\ (firstFailed => pass = "sudo")
          /\ pass = "sudo" => FALSE
          /\ dirStat["plain"] \notin {"denied", "unlistable"} =>
               dirStat["sudo"] = dirStat["plain"]
          /\ dirStat["plain"] = "unlistable" => dirStat["sudo"] \notin Unseen
      BY <1>3, <2>3 DEF TransferInv, TransferTypes
    <3>3. Dir \notin Files \cup InDir
      BY DirectoryAssumption DEF DirectoryAssumption
    <3>4. CASE pass = "plain"
      BY <3>1, <3>2, <3>3, <3>4, <2>2
         DEF Found, Unseen, NoSudo!BestStat, Sftp!Denied
    <3>5. CASE pass = "sudo" /\ firstFailed
      BY <3>1, <3>2, <3>3, <3>5, <2>2 DEF Found, Unseen, NoSudo!BestStat
    <3>6. CASE pass = "sudo" /\ ~firstFailed
      BY <3>1, <3>2, <3>3, <3>6, <2>2
         DEF Found, Filled, Said, Unseen, NoSudo!BestStat
    <3> QED BY <3>2, <3>4, <3>5, <3>6
  <2> QED BY <2>1, <2>3 DEF NoSudo!DownloadIsBest, NoSudo!DirectoryIsSaid,
          Sftp!DeniedOnlyAfterSudo, Unseen
<1>4. PartInv => TransferExact
  BY <1>2, <1>3 DEF PartInv, TransferExact
<1> QED
  BY <1>1, <1>4, StepKeepsPartInv, PTL DEF MCSpec
=============================================================================
