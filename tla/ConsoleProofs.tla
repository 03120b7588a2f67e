---------------------------- MODULE ConsoleProofs ----------------------------
(***************************************************************************)
(* Proofs about the conserver client and about the evaluation of control   *)
(* sequences in what a device prints.                                      *)
(*                                                                         *)
(* The client: ConsoleWorks, for any number of endpoints, redirects,       *)
(* groups and speeds.  The invariant follows the one answer that a dialog  *)
(* awaits, wherever its lines are, until the device behind the port prints *)
(* into the dialog; from then on it says that the client stays attached.   *)
(*                                                                         *)
(* The Parser: no cut goes behind the last newline, for any output of any  *)
(* length.  The invariant says where lastNewline may stand: not behind     *)
(* pos, or exactly at the byte that is read next, when a return has put    *)
(* the parser back in front of its newline.                                *)
(***************************************************************************)
EXTENDS ConsoleConnector, TerminalScreen, DataLemmas

---------------------------------------------------------------------------
(* The conserver client.                                                   *)

\* Where a dialog may stand; where the client gets attached, and is.
Steps == Commands \cup {"dial", "handshake", "ready", "failed", "closed"}
Attaching == {"call", "force"}
AtPort == {"state", "connect", "info", "dump", "speed"}
Kinds == Bracketed \cup {"ok", "other", "notfound", "port", "host", "spy",
                         "goodbye", "info", "tty", "end", "ports", "text",
                         "help", "baud"}
Lines == [on : Nat, to : Commands \cup {"none"}, k : Kinds, n : Nat]
Live == cpc \notin {"failed", "closed"}

ConsoleTypes ==
  /\ op.call \in {"init", "discover"} /\ cpc \in Steps
  /\ conn \in Nat /\ dialled \in Nat /\ redirectNo \in Nat
  /\ realSpeed \in 1..MaxSpeed /\ noise \in BOOLEAN

\* Connections: the reader is that of the connection in use, which is open from
\* DialOk on; a redirect leaves the old one first.
ConnInv ==
  /\ reader \subseteq {conn}
  /\ cpc \in {"dial", "handshake"} => reader = {}
  /\ cpc \notin {"dial", "handshake", "failed", "closed"} => conn \in reader
  /\ Live /\ cpc # "dial" => conn \in open
  /\ cpc \in {"groups", "group"} => op.call = "discover"
  /\ cpc \in Attaching \cup AtPort \cup {"exit", "attach"} => op.call = "init"
  /\ op.call = "init" =>
       /\ open \subseteq {conn}
       /\ dialled <= RedirectLimit + 1
       /\ cpc = "dial" => /\ open = {} /\ dialled = redirectNo
                           /\ redirectNo <= RedirectLimit
       /\ Live /\ cpc # "dial" => dialled = redirectNo + 1

\* The lines of one answer, wherever its reader stands.
One(l) == \/ buf = <<>> /\ wire = <<l>>
          \/ buf = <<l>> /\ wire = <<>>
Two(l, m) == \/ buf = <<>> /\ wire = <<l, m>>
             \/ buf = <<l>> /\ wire = <<m>>
             \/ buf = <<l, m>> /\ wire = <<>>

Awaited ==
  /\ buf = <<>> /\ wire = <<>>
  /\ cpc # "speed" => asked = <<cpc>>
  /\ cpc = "speed" => asked = <<"su">> \/ asked = <<"sd">>
  /\ cpc \in Attaching => mode # "attached"

Block(l, m) ==
  /\ l.on = conn /\ l.to = cpc /\ m.on = conn /\ m.to = cpc
  /\ IF cpc = "dump"
     THEN /\ l.k = "tty" /\ l.n = realSpeed /\ m.k = "end"
          /\ Two(l, m) \/ One(m)
     ELSE l.k = "text" /\ m.k = "help" /\ Two(l, m)
Single(l) ==
  /\ l \in Lines /\ l.on = conn /\ l.to = cpc /\ One(l)
  /\ cpc = "speed" => l.k = "baud" /\ l.n = realSpeed
  /\ cpc \in Attaching =>
       (mode = "attached" <=> l.k \in {"attached", "bumped"})

Answered ==
  /\ asked = <<>>
  /\ IF cpc \in {"dump", "group"} THEN \E l, m : Block(l, m)
                                 ELSE \E l : Single(l)

\* Before the device behind the port has printed: one answer is awaited or
\* being read, and the speed that is known is the port's.
QuietInv ==
  /\ cpc \in Commands => Awaited \/ Answered
  /\ cpc \in {"dial", "handshake"} => asked = <<>>
  /\ cpc = "handshake" => buf = <<>> /\ wire = <<>>
  /\ cpc = "ready" => asked = <<>>
  /\ cpc \in AtPort \/ (cpc = "ready" /\ op.call = "init") => mode = "attached"
  /\ mode = "attached" => /\ cpc \in Attaching \cup AtPort \cup {"ready"}
                          /\ op.call = "init"
  /\ cpc # "speed" => curSpeed \in {0, realSpeed}
  /\ cpc = "ready" /\ op.call = "init" /\ op.speed # 0 =>
       curSpeed = op.speed

Asks == {"state", "connect", "info", "dump", "su", "sd"}
PortLines == [on : Nat, to : Commands \cup {"none"},
              k : {"attached", "bumped", "text"}, n : Nat]

\* After that: the client is attached and asks for nothing that ends this.
NoisyInv ==
  /\ cpc \in Attaching \cup AtPort \cup {"ready"} /\ mode = "attached"
  /\ op.call = "init" /\ asked \in Seq(Asks)
  /\ cpc \in Attaching =>
       asked = <<>> /\ buf \in Seq(PortLines) /\ wire \in Seq(PortLines)

ConsoleInv ==
  /\ ConsoleTypes /\ ConnInv /\ AnswersMatch
  /\ Live => IF noise THEN NoisyInv ELSE QuietInv

\* Every step keeps the types and the account of the connections.
LEMMA ConnStep ==
  ASSUME ConsoleTypes, ConnInv, Next
  PROVE  ConsoleTypes' /\ ConnInv'
<1> USE ConsoleAssumption
    DEF ConsoleTypes, ConnInv, Steps, Commands, Live, Attaching, AtPort,
        dialVars, serverVars, Send, Fail, Read
<1>1. CASE Receive
  BY <1>1 DEF Receive
<1>2. CASE Answer
  BY <1>2 DEF Answer
<1>3. CASE ChangeSpeed
  <2>1. realSpeed' \in 1..MaxSpeed
    BY <1>3 DEF ChangeSpeed
  <2>2. UNCHANGED <<op, cpc, conn, dialled, open, reader, redirectNo, noise>>
    BY <1>3 DEF ChangeSpeed
  <2> QED BY <2>1, <2>2
<1>4. CASE DevicePrints
  BY <1>4 DEF DevicePrints
<1>5. CASE DialFails
  BY <1>5 DEF DialFails
<1>6. CASE DialOk
  <2>1. /\ dialled' = dialled + 1 /\ conn' = dialled'
        /\ open' = open \cup {conn'} /\ reader' = reader \cup {conn'}
        /\ cpc = "dial" /\ cpc' = "greet"
        /\ UNCHANGED <<op, redirectNo, realSpeed, noise>>
    BY <1>6 DEF DialOk
  <2> QED BY <2>1
<1>7. CASE Greeted
  BY <1>7 DEF Greeted
<1>8. CASE SslAccepted
  BY <1>8 DEF SslAccepted
<1>9. CASE Handshake
  BY <1>9 DEF Handshake
<1>10. CASE LoggedIn
  BY <1>10 DEF LoggedIn
<1>11. CASE Redirected
  BY <1>11 DEF Redirected
<1>12. CASE ExitDone
  <2>1. /\ UNCHANGED <<op, dialled, realSpeed, noise>>
        /\ redirectNo' = redirectNo + 1 /\ cpc = "exit"
    BY <1>12 DEF ExitDone, LeaveOld
  <2>2. CASE redirectNo' > RedirectLimit
    <3>1. cpc' = "failed" /\ UNCHANGED <<conn, open, reader>>
      BY <1>12, <2>2 DEF ExitDone, LeaveOld
    <3> QED BY <2>1, <3>1
  <2>3. CASE ~(redirectNo' > RedirectLimit)
    <3>1. /\ cpc' = "dial" /\ open' = open \ {conn} /\ conn' = 0
          /\ reader' = reader \ {conn}
      BY <1>12, <2>3 DEF ExitDone, LeaveOld
    <3> QED BY <2>1, <2>3, <3>1
  <2> QED BY <2>2, <2>3
<1>13. CASE Spied
  BY <1>13 DEF Spied
<1>14. CASE Locked
  BY <1>14 DEF Locked
<1>15. CASE Attached
  BY <1>15 DEF Attached
<1>16. CASE Up
  BY <1>16 DEF Up
<1>17. CASE Connected
  BY <1>17 DEF Connected, SetSpeed, StepSpeed
<1>18. CASE InfoStarts
  BY <1>18 DEF InfoStarts
<1>19. CASE InfoLine
  BY <1>19 DEF InfoLine
<1>20. CASE InfoEnds
  BY <1>20 DEF InfoEnds, StepSpeed
<1>21. CASE SpeedLine
  BY <1>21 DEF SpeedLine, SetSpeed, StepSpeed
<1>22. CASE NextGroup
  BY <1>22 DEF NextGroup, GroupRead
<1>23. CASE Unexpected
  BY <1>23 DEF Unexpected
<1>24. CASE ReadFails
  BY <1>24 DEF ReadFails
<1>25. CASE Close
  BY <1>25 DEF Close
<1> QED BY <1>1, <1>2, <1>3, <1>4, <1>5, <1>6, <1>7, <1>8, <1>9, <1>10,
           <1>11, <1>12, <1>13, <1>14, <1>15, <1>16, <1>17, <1>18, <1>19,
           <1>20, <1>21, <1>22, <1>23, <1>24, <1>25 DEF Next

\* In a quiet dialog what is read is the one line that answers the command.
LEMMA QuietLine ==
  ASSUME QuietInv, cpc \in Commands \ {"dump", "group"}, Found # {}
  PROVE  /\ asked = <<>> /\ wire = <<>> /\ Found = {1}
         /\ \E l : Single(l) /\ buf = <<l>> /\ TheLine = l
<1>1. buf # <<>>
  BY OneAndTwo DEF Found
<1>2. Answered
  BY <1>1 DEF QuietInv, Awaited
<1>3. PICK l : Single(l)
  BY <1>2 DEF Answered
<1>4. buf = <<l>> /\ wire = <<>>
  BY <1>1, <1>3 DEF Single, One
<1>5. Found = {1} /\ TheLine = l
  BY <1>4, OneAndTwo DEF Found, TheLine
<1> QED BY <1>2, <1>3, <1>4, <1>5 DEF Answered

\* Reading it leaves nothing behind.
LEMMA QuietRead ==
  ASSUME QuietInv, NEW c \in Commands \ {"dump", "group"}, NEW k, Read(c, k)
  PROVE  /\ cpc = c /\ asked = <<>> /\ wire = <<>> /\ buf' = <<>>
         /\ \E l : Single(l) /\ TheLine = l /\ l.k = k /\ answered' = Taken(l)
         /\ AnswersMatch'
<1>1. /\ asked = <<>> /\ wire = <<>> /\ Found = {1}
      /\ \E l : Single(l) /\ buf = <<l>> /\ TheLine = l
  BY QuietLine DEF Read
<1>2. PICK l : Single(l) /\ buf = <<l>> /\ TheLine = l
  BY <1>1
<1>3. /\ cpc = c /\ buf[1].k = k /\ answered' = Taken(buf[1])
      /\ buf' = SubSeq(buf, 2, Len(buf))
  BY <1>1 DEF Read
<1>4. buf' = <<>> /\ buf[1] = l
  BY <1>2, <1>3, OneAndTwo
<1>5. answered' = Taken(l)
  BY <1>3, <1>4
<1>6. AnswersMatch'
  BY <1>2, <1>5 DEF AnswersMatch, Taken, Single
<1> QED BY <1>1, <1>2, <1>3, <1>4, <1>5, <1>6

\* The next command of a quiet dialog.
LEMMA QuietSend ==
  ASSUME asked = <<>>, wire' = <<>>, buf' = <<>>,
         NEW x \in Commands \ {"speed"}, Send(x),
         x \in Attaching => mode' # "attached"
  PROVE  Awaited' /\ cpc' = x
<1>1. asked' = <<x>> /\ cpc' = x
  BY OneAndTwo DEF Send
<1> QED BY <1>1 DEF Awaited

\* What the steps keep besides the types and the connections.
Dialog == AnswersMatch /\ (Live => IF noise THEN NoisyInv ELSE QuietInv)

\* A quiet dialog goes on with the next command.
LEMMA QuietGoesOn ==
  ASSUME ConsoleTypes, QuietInv, UNCHANGED <<op, mode, realSpeed, noise>>,
         UNCHANGED <<wire, curSpeed>>,
         NEW c \in Commands \ {"dump", "group", "speed"}, NEW k, Read(c, k),
         NEW x \in Commands \ {"speed"}, Send(x),
         x \in AtPort <=> mode = "attached"
  PROVE  QuietInv' /\ AnswersMatch'
<1>1. /\ cpc = c /\ asked = <<>> /\ wire = <<>> /\ buf' = <<>>
      /\ AnswersMatch'
  BY QuietRead
<1>2. Awaited' /\ cpc' = x
  BY <1>1, QuietSend DEF Attaching, AtPort
<1> QED BY <1>1, <1>2 DEF QuietInv, Attaching, AtPort, Commands

\* So does one that the device behind the port talks into.
LEMMA NoisyGoesOn ==
  ASSUME NoisyInv, UNCHANGED <<op, mode, noise>>,
         NEW x \in AtPort \ {"speed"}, Send(x)
  PROVE  NoisyInv'
<1>1. x \in Asks /\ asked' = Append(asked, x) /\ cpc' = x
  BY DEF Send, Asks, AtPort
<1>2. asked' \in Seq(Asks)
  BY <1>1, AppendProperties DEF NoisyInv
<1> QED BY <1>1, <1>2 DEF NoisyInv, AtPort, Attaching

\* Then the answer to call or force can only be that the client is attached.
LEMMA NoisyRead ==
  ASSUME NoisyInv, NEW c \in Attaching, NEW k, Read(c, k)
  PROVE  k \in {"attached", "bumped", "text"}
<1>1. PICK i \in Found : buf[i].k = k
  BY DEF Read
<1>2. buf \in Seq(PortLines)
  BY DEF NoisyInv, Read
<1>3. i \in DOMAIN buf
  <2>1. Len(buf) \in Nat /\ DOMAIN buf = 1..Len(buf)
    BY <1>2, LenProperties
  <2> QED BY <1>1, <2>1 DEF Found
<1>4. buf[i] \in PortLines
  BY <1>2, <1>3, InSeq
<1> QED BY <1>1, <1>4 DEF PortLines

\* The commands from the greeting to the attached port.
LEMMA SetupKeepsDialog ==
  ASSUME ConsoleTypes, ConnInv, Dialog,
         \/ Greeted \/ LoggedIn \/ Redirected \/ Spied \/ Attached \/ Up
         \/ InfoStarts
  PROVE  Dialog'
<1>1. UNCHANGED <<op, mode, realSpeed, noise, wire, curSpeed>>
  BY DEF Greeted, LoggedIn, Redirected, Spied, Attached, Up, InfoStarts,
    dialVars, serverVars
<1>2. PICK c \in Commands \ {"dump", "group", "speed"},
           k \in {"ok", "port", "spy", "attached", "bumped", "up", "info"},
           x \in Commands \ {"speed"} :
        /\ Read(c, k) /\ Send(x)
        /\ \/ c \in {"greet", "login"} /\ x \notin AtPort
           \/ c = "call" /\ k \in {"port", "spy"} /\ x \notin AtPort
           \/ c \in Attaching /\ k \in {"attached", "bumped"} /\ x \in AtPort
           \/ c \in AtPort /\ x \in AtPort
  <2> USE DEF Commands, AtPort, Attaching
  <2>1. CASE Greeted
    BY <2>1 DEF Greeted
  <2>2. CASE LoggedIn
    BY <2>2 DEF LoggedIn
  <2>3. CASE Redirected
    BY <2>3 DEF Redirected
  <2>4. CASE Spied
    BY <2>4 DEF Spied
  <2>5. CASE Attached
    BY <2>5 DEF Attached
  <2>6. CASE Up
    BY <2>6 DEF Up
  <2>7. CASE InfoStarts
    BY <2>7 DEF InfoStarts
  <2> QED BY <2>1, <2>2, <2>3, <2>4, <2>5, <2>6, <2>7
<1>3. cpc = c /\ Live
  BY <1>2 DEF Read, Live, Commands
<1>4. CASE noise
  <2>1. NoisyInv /\ cpc \in Attaching \cup AtPort
    BY <1>2, <1>3, <1>4 DEF Dialog, NoisyInv, Commands
  <2>2. x \in AtPort \ {"speed"}
    <3>1. c \in Attaching => k \in {"attached", "bumped", "text"}
      BY <1>2, <2>1, NoisyRead
    <3> QED BY <1>2, <1>3, <2>1, <3>1 DEF Attaching, AtPort
  <2>3. NoisyInv'
    BY <1>1, <1>2, <2>1, <2>2, NoisyGoesOn
  <2> QED BY <1>1, <1>4, <2>3 DEF Dialog, AnswersMatch
<1>5. CASE ~noise
  <2>1. QuietInv
    BY <1>3, <1>5 DEF Dialog
  <2>2. \E l : Single(l) /\ l.k = k
    BY <1>2, <2>1, QuietRead
  <2>3. x \in AtPort <=> mode = "attached"
    BY <1>2, <1>3, <2>1, <2>2 DEF QuietInv, Single, Attaching, AtPort
  <2>4. QuietInv' /\ AnswersMatch'
    BY <1>1, <1>2, <2>1, <2>3, QuietGoesOn
  <2> QED BY <1>1, <1>5, <2>4 DEF Dialog
<1> QED BY <1>4, <1>5

\* A dialog that has failed, or is closed, promises only what it has read.
LEMMA Over ==
  ASSUME AnswersMatch', cpc' \in {"failed", "closed"}
  PROVE  Dialog'
BY DEF Dialog, Live

\* The TLS handshake within the dialog: what came before it is dropped.
LEMMA SslKeepsDialog ==
  ASSUME ConsoleTypes, Dialog, SslAccepted \/ Handshake
  PROVE  Dialog'
<1>1. /\ UNCHANGED <<op, mode, realSpeed, noise, wire, curSpeed>>
      /\ cpc \in {"ssl", "handshake"}
  BY DEF SslAccepted, Handshake, dialVars, serverVars
<1>2. QuietInv /\ ~noise
  BY <1>1 DEF Dialog, Live, NoisyInv, Attaching, AtPort
<1>3. mode # "attached" /\ curSpeed \in {0, realSpeed}
  BY <1>1, <1>2 DEF QuietInv, Attaching, AtPort
<1>4. CASE SslAccepted
  <2>1. /\ cpc = "ssl" /\ cpc' = "handshake" /\ Found # {} /\ buf' = <<>>
        /\ UNCHANGED asked /\ answered' = Taken(TheLine)
    BY <1>4 DEF SslAccepted
  <2>2. /\ asked = <<>> /\ wire = <<>>
        /\ \E l : Single(l) /\ TheLine = l
    BY <1>2, <2>1, QuietLine DEF Commands
  <2>3. PICK l : Single(l) /\ TheLine = l
    BY <2>2
  <2>4. AnswersMatch'
    BY <2>1, <2>3 DEF AnswersMatch, Taken, Single
  <2>5. QuietInv'
    BY <1>1, <1>3, <2>1, <2>2 DEF QuietInv, Commands, AtPort, Attaching
  <2> QED BY <1>1, <1>2, <2>4, <2>5 DEF Dialog
<1>5. CASE Handshake
  <2>1. cpc = "handshake" /\ UNCHANGED <<buf, answered>>
    BY <1>5 DEF Handshake
  <2>2. AnswersMatch'
    BY <1>1, <2>1 DEF AnswersMatch, Dialog
  <2>3. CASE Send("login")
    <3>1. Awaited' /\ cpc' = "login"
      BY <1>1, <1>2, <2>1, <2>3, QuietSend
        DEF QuietInv, Attaching, Commands
    <3>2. QuietInv'
      BY <1>1, <1>3, <3>1 DEF QuietInv, Commands, AtPort, Attaching
    <3> QED BY <1>1, <1>2, <2>2, <3>2 DEF Dialog
  <2>4. CASE Fail
    BY <2>2, <2>4, Over DEF Fail
  <2> QED BY <1>5, <2>3, <2>4 DEF Handshake
<1> QED BY <1>4, <1>5

\* The redirect away from a server, and the port someone else holds.
LEMMA ExitKeepsDialog ==
  ASSUME ConsoleTypes, Dialog, ExitDone \/ Locked
  PROVE  Dialog'
<1>1. /\ UNCHANGED <<op, mode, realSpeed, noise, curSpeed>>
      /\ cpc \in {"exit", "attach"}
  BY DEF ExitDone, Locked, serverVars
<1>2. QuietInv /\ ~noise
  BY <1>1 DEF Dialog, Live, NoisyInv, Attaching, AtPort
<1>3. mode # "attached" /\ curSpeed \in {0, realSpeed}
  BY <1>1, <1>2 DEF QuietInv, Attaching, AtPort
<1>4. CASE Locked
  <2>1. cpc = "attach" /\ cpc' = "failed" /\ Found # {}
        /\ answered' = Taken(TheLine)
    BY <1>4 DEF Locked
  <2>2. \E l : Single(l) /\ TheLine = l
    BY <1>2, <2>1, QuietLine DEF Commands
  <2>3. PICK l : Single(l) /\ TheLine = l
    BY <2>2
  <2>4. AnswersMatch'
    BY <2>1, <2>3 DEF AnswersMatch, Taken, Single
  <2> QED BY <2>1, <2>4, Over
<1>5. CASE ExitDone
  <2>1. LeaveOld
    BY <1>5 DEF ExitDone
  <2>2. AnswersMatch'
    <3>1. CASE Read("exit", "goodbye")
      BY <1>2, <3>1, QuietRead DEF Commands
    <3>2. CASE UNCHANGED answered
      BY <1>1, <3>2 DEF AnswersMatch, Dialog
    <3> QED BY <1>5, <3>1, <3>2 DEF ExitDone
  <2>3. CASE cpc' = "failed"
    BY <2>2, <2>3, Over
  <2>4. CASE cpc' = "dial" /\ asked' = <<>>
    <3>1. QuietInv'
      BY <1>1, <1>3, <2>4 DEF QuietInv, Commands, AtPort, Attaching
    <3> QED BY <1>1, <1>2, <2>2, <3>1 DEF Dialog
  <2> QED BY <2>1, <2>3, <2>4 DEF LeaveOld, Fail
<1> QED BY <1>4, <1>5

\* The end of a dialog without a line being read.
LEMMA EndKeepsDialog ==
  ASSUME Dialog, DialFails \/ Unexpected \/ ReadFails \/ Close
  PROVE  Dialog'
<1>1. UNCHANGED <<op, mode, realSpeed, noise, curSpeed, answered, buf, wire>>
  BY DEF DialFails, Unexpected, ReadFails, Close, dialVars, serverVars
<1>2. AnswersMatch'
  BY <1>1 DEF AnswersMatch, Dialog
<1>3. CASE cpc' \in {"failed", "closed"}
  BY <1>2, <1>3, Over
<1>4. CASE cpc = "dial" /\ UNCHANGED <<cpc, asked>>
  <2>1. QuietInv /\ ~noise
    BY <1>4 DEF Dialog, Live, NoisyInv, Attaching, AtPort
  <2>2. QuietInv'
    BY <1>1, <1>4, <2>1 DEF QuietInv, Commands, Attaching, AtPort
  <2> QED BY <1>1, <1>2, <2>1, <2>2 DEF Dialog
<1> QED BY <1>3, <1>4 DEF DialFails, Unexpected, ReadFails, Close, Fail

\* A new connection starts with a dialog that is quiet.
LEMMA DialKeepsDialog ==
  ASSUME Dialog, DialOk
  PROVE  Dialog'
<1>1. /\ UNCHANGED <<op, realSpeed, noise, curSpeed, answered>>
      /\ cpc = "dial" /\ cpc' = "greet" /\ buf' = <<>> /\ wire' = <<>>
      /\ asked' = <<"greet">> /\ mode' = "shell"
  BY DEF DialOk
<1>2. QuietInv /\ ~noise
  BY <1>1 DEF Dialog, Live, NoisyInv, Attaching, AtPort
<1>3. AnswersMatch'
  BY <1>1 DEF AnswersMatch, Dialog
<1>4. QuietInv'
  BY <1>1, <1>2 DEF QuietInv, Awaited, Commands, Attaching, AtPort
<1> QED BY <1>1, <1>2, <1>3, <1>4 DEF Dialog

\* Towards the speed that is asked for, from the one that is known.
Towards(cur) == \/ op.speed = 0 /\ cpc' = "ready" /\ UNCHANGED asked
                \/ SetSpeed(cur)
                \/ StepSpeed(cur)

\* The next step of setSpeed, or its end.
LEMMA QuietSpeed ==
  ASSUME ConsoleTypes, QuietInv, UNCHANGED <<op, mode, realSpeed, noise>>,
         cpc \in AtPort, asked = <<>>, wire' = <<>>, buf' = <<>>,
         curSpeed' \in {0, realSpeed}, Towards(curSpeed')
  PROVE  QuietInv'
<1>1. mode = "attached" /\ op.call = "init"
  BY DEF QuietInv
<1>2. CASE cpc' = "ready" /\ UNCHANGED asked
           /\ (op.speed = 0 \/ curSpeed' = op.speed)
  BY <1>1, <1>2 DEF QuietInv, Commands, Attaching, AtPort
<1>3. CASE Send("info")
  <2>1. Awaited' /\ cpc' = "info"
    BY <1>3, QuietSend DEF Commands, Attaching
  <2> QED BY <1>1, <2>1 DEF QuietInv, Commands, Attaching, AtPort
<1>4. CASE /\ cpc' = "speed"
           /\ \E s \in {"su", "sd"} : asked' = Append(asked, s)
  <2>1. asked' = <<"su">> \/ asked' = <<"sd">>
    BY <1>4, OneAndTwo
  <2>2. Awaited'
    BY <1>4, <2>1 DEF Awaited, Attaching
  <2> QED BY <1>1, <1>4, <2>2 DEF QuietInv, Commands, Attaching, AtPort
<1> QED BY <1>2, <1>3, <1>4 DEF Towards, SetSpeed, StepSpeed

\* The same when the device talks into it.
LEMMA NoisySpeed ==
  ASSUME NoisyInv, UNCHANGED <<op, mode>>, NEW cur, Towards(cur)
  PROVE  NoisyInv'
<1>1. asked' = asked \/ \E s \in Asks : asked' = Append(asked, s)
  BY DEF Towards, SetSpeed, StepSpeed, Send, Asks
<1>2. asked' \in Seq(Asks)
  BY <1>1, AppendProperties DEF NoisyInv
<1>3. cpc' \in {"ready", "speed", "info"}
  BY DEF Towards, SetSpeed, StepSpeed, Send
<1> QED BY <1>2, <1>3 DEF NoisyInv, AtPort, Attaching

\* Connected asks for the speed, each answer of su and sd for the next.
LEMMA SpeedKeepsDialog ==
  ASSUME ConsoleTypes, Dialog, Connected \/ SpeedLine
  PROVE  Dialog'
<1>1. /\ UNCHANGED <<op, mode, realSpeed, noise, wire>>
      /\ cpc \in {"connect", "speed"} /\ Towards(curSpeed')
  BY DEF Connected, SpeedLine, dialVars, serverVars, Read, Towards
<1>2. CASE noise
  <2>1. NoisyInv
    BY <1>1, <1>2 DEF Dialog, Live
  <2>2. NoisyInv'
    BY <1>1, <2>1, NoisySpeed
  <2> QED BY <1>1, <1>2, <2>2 DEF Dialog, AnswersMatch
<1>3. CASE ~noise
  <2>1. QuietInv
    BY <1>1, <1>3 DEF Dialog, Live
  <2>2. \E c \in {"connect", "speed"} : \E k : Read(c, k)
    BY DEF Connected, SpeedLine
  <2> PICK c \in {"connect", "speed"} : \E k : Read(c, k)
    BY <2>2
  <2> PICK k : Read(c, k)
    OBVIOUS
  <2>3. /\ cpc = c /\ asked = <<>> /\ wire = <<>> /\ buf' = <<>>
        /\ \E l : Single(l) /\ TheLine = l
        /\ AnswersMatch'
    BY <2>1, <2>2, QuietRead DEF Commands
  <2>4. curSpeed' \in {0, realSpeed}
    <3>1. CASE Connected
      BY <2>1, <3>1 DEF Connected, QuietInv, Read
    <3>2. CASE SpeedLine
      <4>1. ~ Read("speed", "text")
        <5>1. ASSUME Read("speed", "text") PROVE FALSE
          <6>1. \E l : Single(l) /\ l.k = "text" /\ cpc = "speed"
            BY <2>1, <5>1, QuietRead DEF Commands
          <6> QED BY <6>1 DEF Single
        <5> QED BY <5>1
      <4>2. Read("speed", "baud") /\ curSpeed' = TheLine.n
        BY <3>2, <4>1 DEF SpeedLine
      <4>3. \E l : Single(l) /\ TheLine = l /\ cpc = "speed"
        BY <2>1, <4>2, QuietRead DEF Commands
      <4> QED BY <4>2, <4>3 DEF Single
    <3> QED BY <3>1, <3>2
  <2>5. QuietInv'
    BY <1>1, <2>1, <2>3, <2>4, QuietSpeed DEF AtPort
  <2> QED BY <1>1, <1>3, <2>3, <2>5 DEF Dialog
<1> QED BY <1>2, <1>3

\* The lines of a dump: the one that is read stands alone in the buffer.
LEMMA QuietDump ==
  ASSUME QuietInv, NEW k, Read("dump", k), k \in {"tty", "end"}
  PROVE  /\ asked = <<>> /\ buf' = <<>>
         /\ \E l, m : /\ Block(l, m) /\ AnswersMatch'
                      /\ \/ k = "tty" /\ wire = <<m>> /\ TheLine = l
                         \/ k = "end" /\ wire = <<>> /\ TheLine = m
<1>1. cpc = "dump" /\ Found # {}
  BY DEF Read
<1>2. buf # <<>>
  BY <1>1, OneAndTwo DEF Found
<1>3. Answered
  BY <1>1, <1>2 DEF QuietInv, Awaited, Commands
<1>4. PICK l, m : Block(l, m)
  BY <1>1, <1>3 DEF Answered
<1>5. Two(l, m) \/ One(m)
  BY <1>1, <1>4 DEF Block
<1>6. l.k = "tty" /\ m.k = "end"
  BY <1>1, <1>4 DEF Block
<1>7. buf # <<l, m>>
  <2>1. ASSUME buf = <<l, m>> PROVE Found = {}
    <3>1. Len(buf) = 2 /\ buf[1] = l /\ buf[2] = m
      BY <2>1, OneAndTwo
    <3>2. \A i \in 1..2 : buf[i].k \notin Bracketed
      BY <1>6, <3>1 DEF Bracketed
    <3> QED BY <3>1, <3>2 DEF Found
  <2> QED BY <1>1, <2>1
<1>8. (buf = <<l>> /\ wire = <<m>>) \/ (buf = <<m>> /\ wire = <<>>)
  BY <1>2, <1>5, <1>7 DEF One, Two
<1>9. PICK x : buf = <<x>> /\ x \in {l, m}
  BY <1>8
<1>10. Found = {1} /\ TheLine = x /\ buf[1] = x
  BY <1>9, OneAndTwo DEF Found, TheLine
<1>11. /\ x.k = k /\ answered' = Taken(x) /\ buf' = SubSeq(buf, 2, Len(buf))
  BY <1>10 DEF Read
<1>12. buf' = <<>>
  BY <1>9, <1>11, OneAndTwo
<1>13. AnswersMatch'
  BY <1>4, <1>9, <1>11 DEF AnswersMatch, Taken, Block
<1>14. \/ k = "tty" /\ wire = <<m>> /\ x = l
       \/ k = "end" /\ wire = <<>> /\ x = m
  <2>1. <<l>> = <<m>> => l = m
    BY OneAndTwo
  <2>2. CASE buf = <<l>> /\ wire = <<m>>
    <3>1. x = l
      BY <1>10, <2>2, OneAndTwo
    <3> QED BY <1>6, <1>11, <2>2, <3>1
  <2>3. CASE buf = <<m>> /\ wire = <<>>
    <3>1. x = m
      BY <1>10, <2>3, OneAndTwo
    <3> QED BY <1>6, <1>11, <2>3, <3>1
  <2> QED BY <1>8, <2>2, <2>3
<1> QED BY <1>3, <1>4, <1>10, <1>12, <1>13, <1>14 DEF Answered

\* The dump is read line by line.
LEMMA DumpKeepsDialog ==
  ASSUME ConsoleTypes, ConnInv, Dialog, InfoLine \/ InfoEnds
  PROVE  Dialog'
<1>1. /\ UNCHANGED <<op, conn, mode, realSpeed, noise, wire>> /\ cpc = "dump"
      /\ InfoLine => UNCHANGED <<cpc, asked>>
      /\ InfoEnds => Towards(curSpeed') /\ UNCHANGED curSpeed
  BY DEF InfoLine, InfoEnds, dialVars, serverVars, Read, Towards
<1>2. CASE noise
  <2>1. NoisyInv
    BY <1>1, <1>2 DEF Dialog, Live
  <2>2. NoisyInv'
    <3>1. CASE InfoLine
      BY <1>1, <2>1, <3>1 DEF NoisyInv, Attaching
    <3>2. CASE InfoEnds
      BY <1>1, <2>1, <3>2, NoisySpeed
    <3> QED BY <3>1, <3>2
  <2> QED BY <1>1, <1>2, <2>2 DEF Dialog, AnswersMatch
<1>3. CASE ~noise
  <2>1. QuietInv
    BY <1>1, <1>3 DEF Dialog, Live
  <2>2. CASE InfoLine
    <3>1. Read("dump", "tty") /\ curSpeed' \in {TheLine.n, curSpeed}
      BY <2>2 DEF InfoLine
    <3>2. PICK l, m : /\ Block(l, m) /\ AnswersMatch' /\ asked = <<>>
                      /\ buf' = <<>> /\ wire = <<m>> /\ TheLine = l
      BY <2>1, <3>1, QuietDump
    <3>3. Block(l, m)'
      BY <1>1, <2>2, <3>2 DEF Block, One
    <3>4. Answered'
      BY <1>1, <2>2, <3>2, <3>3 DEF Answered
    <3>5. curSpeed' \in {0, realSpeed}
      BY <1>1, <2>1, <3>1, <3>2 DEF QuietInv, Block
    <3>6. mode = "attached"
      BY <1>1, <2>1 DEF QuietInv, AtPort
    <3>7. QuietInv'
      BY <1>1, <2>1, <2>2, <3>4, <3>5, <3>6 DEF QuietInv, AtPort, Attaching
    <3> QED BY <1>1, <1>3, <3>2, <3>7 DEF Dialog
  <2>3. CASE InfoEnds
    <3>1. Read("dump", "end")
      BY <2>3 DEF InfoEnds
    <3>2. AnswersMatch' /\ asked = <<>> /\ buf' = <<>> /\ wire = <<>>
      BY <2>1, <3>1, QuietDump
    <3>3. curSpeed' \in {0, realSpeed}
      BY <1>1, <2>1, <2>3 DEF QuietInv
    <3>4. QuietInv'
      BY <1>1, <2>1, <2>3, <3>2, <3>3, QuietSpeed DEF AtPort
    <3> QED BY <1>1, <1>3, <3>2, <3>4 DEF Dialog
  <2> QED BY <2>2, <2>3
<1> QED BY <1>2, <1>3

\* The ports of a group: the help text stays in the buffer.
LEMMA GroupKeepsDialog ==
  ASSUME ConsoleTypes, ConnInv, Dialog, NextGroup
  PROVE  Dialog'
<1>1. /\ UNCHANGED <<op, mode, realSpeed, noise, wire, asked, curSpeed>>
      /\ cpc \in {"groups", "group"} /\ cpc' \in {"ready", "dial"}
      /\ op.call = "discover"
  BY DEF NextGroup, GroupRead, serverVars, Read, ConnInv
<1>2. QuietInv /\ ~noise
  BY <1>1 DEF Dialog, Live, NoisyInv, Attaching, AtPort
<1>3. asked = <<>> /\ AnswersMatch'
  <2>1. CASE Read("groups", "ports")
    BY <1>2, <2>1, QuietRead DEF Commands
  <2>2. CASE GroupRead
    <3>1. PICK i \in 1..Len(buf) : /\ buf[i].k = "text"
                                   /\ answered' = Taken(buf[i])
      BY <2>2 DEF GroupRead
    <3>2. cpc = "group" /\ buf # <<>>
      BY <2>2, <3>1, OneAndTwo DEF GroupRead
    <3>3. Answered
      BY <1>2, <3>2 DEF QuietInv, Awaited, Commands
    <3>4. PICK l, m : Block(l, m)
      BY <3>2, <3>3 DEF Answered
    <3>5. buf = <<l>> \/ buf = <<l, m>>
      BY <3>2, <3>4 DEF Block, Two
    <3>6. buf[i] \in {l, m}
      <4>1. CASE buf = <<l>>
        BY <3>1, <4>1
      <4>2. CASE buf = <<l, m>>
        <5>1. i = 1 \/ i = 2
          BY <3>1, <4>2, OneAndTwo
        <5> QED BY <4>2, <5>1, OneAndTwo
      <4> QED BY <3>5, <4>1, <4>2
    <3>7. AnswersMatch'
      BY <3>1, <3>4, <3>6 DEF AnswersMatch, Taken, Block
    <3> QED BY <3>3, <3>7 DEF Answered
  <2> QED BY <2>1, <2>2 DEF NextGroup
<1>4. QuietInv'
  BY <1>1, <1>2, <1>3 DEF QuietInv, Commands, AtPort, Attaching
<1> QED BY <1>1, <1>2, <1>3, <1>4 DEF Dialog

\* The reader goroutine moves the lines of the answer into the buffer.
LEMMA ReceiveKeepsDialog ==
  ASSUME ConsoleTypes, ConnInv, Dialog, Receive
  PROVE  Dialog'
<1>1. /\ UNCHANGED <<op, cpc, conn, mode, realSpeed, noise, asked, curSpeed>>
      /\ UNCHANGED answered /\ conn \in reader
  BY DEF Receive, dialVars, serverVars
<1>2. AnswersMatch'
  BY <1>1 DEF AnswersMatch, Dialog
<1>3. PICK n \in 1..Len(wire) : /\ buf' = buf \o SubSeq(wire, 1, n)
                                /\ wire' = SubSeq(wire, n + 1, Len(wire))
  BY DEF Receive
<1>4. CASE Live /\ noise
  <2>1. NoisyInv
    BY <1>4 DEF Dialog
  <2>2. cpc \in Attaching =>
          buf' \in Seq(PortLines) /\ wire' \in Seq(PortLines)
    <3>1. HAVE cpc \in Attaching
    <3>2. buf \in Seq(PortLines) /\ wire \in Seq(PortLines)
      BY <2>1, <3>1 DEF NoisyInv
    <3>3. Len(wire) \in Nat
      BY <3>2, LenProperties
    <3>4. /\ SubSeq(wire, 1, n) \in Seq(PortLines)
          /\ SubSeq(wire, n + 1, Len(wire)) \in Seq(PortLines)
      BY <1>3, <3>2, <3>3, Cut
    <3>5. buf \o SubSeq(wire, 1, n) \in Seq(PortLines)
      BY <3>2, <3>4, ConcatProperties
    <3> QED BY <1>3, <3>4, <3>5
  <2>3. NoisyInv'
    BY <1>1, <2>1, <2>2 DEF NoisyInv
  <2> QED BY <1>1, <1>2, <1>4, <2>3 DEF Dialog
<1>5. CASE Live /\ ~noise
  <2>1. QuietInv
    BY <1>5 DEF Dialog
  <2>2. cpc \notin {"dial", "handshake"}
    BY <1>1 DEF ConnInv
  <2>3. wire # <<>>
    BY <1>3, OneAndTwo
  <2>4. cpc \in Commands => Answered'
    <3>1. HAVE cpc \in Commands
    <3>2. Answered
      BY <2>1, <2>3, <3>1 DEF QuietInv, Awaited
    <3>3. CASE cpc \in {"dump", "group"}
      <4>1. PICK l, m : Block(l, m)
        BY <3>2, <3>3 DEF Answered
      <4>2. Two(l, m)' \/ (One(m)' /\ cpc = "dump")
        <5>1. CASE buf = <<>> /\ wire = <<l, m>>
          <6>1. \/ buf' = <<>> \o <<l>> /\ wire' = <<m>>
                \/ buf' = <<>> \o <<l, m>> /\ wire' = <<>>
            BY <1>3, <5>1, PortionOfTwo
          <6> QED BY <6>1, OneAndTwo DEF Two
        <5>2. CASE buf = <<l>> /\ wire = <<m>>
          <6>1. buf' = <<l>> \o <<m>> /\ wire' = <<>>
            BY <1>3, <5>2, Portion
          <6> QED BY <6>1, OneAndTwo DEF Two
        <5>3. CASE buf = <<>> /\ wire = <<m>> /\ cpc = "dump"
          <6>1. buf' = <<>> \o <<m>> /\ wire' = <<>>
            BY <1>3, <5>3, Portion
          <6> QED BY <5>3, <6>1, OneAndTwo DEF One
        <5> QED BY <2>3, <4>1, <5>1, <5>2, <5>3 DEF Block, Two, One
      <4>3. Block(l, m)'
        BY <1>1, <4>1, <4>2 DEF Block
      <4> QED BY <1>1, <3>2, <3>3, <4>3 DEF Answered
    <3>4. CASE cpc \notin {"dump", "group"}
      <4>1. PICK l : Single(l)
        BY <3>2, <3>4 DEF Answered
      <4>2. buf = <<>> /\ wire = <<l>>
        BY <2>3, <4>1 DEF Single, One
      <4>3. buf' = <<>> \o <<l>> /\ wire' = <<>>
        BY <1>3, <4>2, Portion
      <4>4. One(l)'
        BY <4>3, OneAndTwo DEF One
      <4>5. Single(l)'
        BY <1>1, <4>1, <4>4 DEF Single
      <4> QED BY <1>1, <3>2, <3>4, <4>5 DEF Answered
    <3> QED BY <3>3, <3>4
  <2>5. QuietInv'
    BY <1>1, <2>1, <2>2, <2>4 DEF QuietInv
  <2> QED BY <1>1, <1>2, <1>5, <2>5 DEF Dialog
<1>6. CASE ~Live
  BY <1>1, <1>2, <1>6 DEF Dialog, Live
<1> QED BY <1>4, <1>5, <1>6

\* The first of the commands that are not answered.
LEMMA FirstAsked ==
  ASSUME NoisyInv, asked # <<>>
  PROVE  /\ Head(asked) \in Asks /\ Tail(asked) \in Seq(Asks)
         /\ cpc \notin Attaching
<1>1. asked \in Seq(Asks)
  BY DEF NoisyInv
<1>2. Head(asked) \in Asks /\ Tail(asked) \in Seq(Asks)
  BY <1>1, HeadTailProperties
<1> QED BY <1>2 DEF NoisyInv

\* An answer in a noisy dialog.
LEMMA NoisyAnswer ==
  ASSUME NoisyInv, asked # <<>>, asked' = Tail(asked), mode' = mode,
         UNCHANGED <<op, cpc>>
  PROVE  NoisyInv'
BY FirstAsked DEF NoisyInv

\* su and sd: what is answered is the speed that the port has now.
LEMMA SpeedChangeKeepsDialog ==
  ASSUME ConsoleTypes, ConnInv, Dialog, ChangeSpeed
  PROVE  Dialog'
<1>1. /\ UNCHANGED <<op, cpc, conn, mode, noise, curSpeed, buf, answered>>
      /\ asked # <<>> /\ asked' = Tail(asked) /\ Head(asked) \in {"su", "sd"}
      /\ wire' = Append(wire, Line("speed", "baud", realSpeed'))
  BY DEF ChangeSpeed, dialVars
<1>2. AnswersMatch'
  BY <1>1 DEF AnswersMatch, Dialog
<1>3. CASE Live /\ noise
  <2>1. NoisyInv'
    BY <1>1, <1>3, NoisyAnswer DEF Dialog
  <2> QED BY <1>1, <1>2, <1>3, <2>1 DEF Dialog
<1>4. CASE Live /\ ~noise
  <2>1. QuietInv
    BY <1>4 DEF Dialog
  <2>2. cpc \in Commands /\ Awaited
    BY <1>1, <1>4, <2>1 DEF QuietInv, Answered, Live, ConsoleTypes, Steps
  <2>3. cpc = "speed"
    <3>1. cpc # "speed" => Head(asked) = cpc
      BY <2>2, OneAndTwo DEF Awaited
    <3> QED BY <1>1, <2>2, <3>1 DEF Commands
  <2>4. asked' = <<>> /\ buf' = <<>> /\ wire = <<>>
    BY <1>1, <2>2, <2>3, OneAndTwo DEF Awaited
  <2>5. PICK l : l = Line("speed", "baud", realSpeed')
    OBVIOUS
  <2>6. realSpeed' \in 1..MaxSpeed
    BY ConsoleAssumption DEF ConsoleTypes, ChangeSpeed
  <2>7. /\ l \in Lines /\ l.on = conn /\ l.to = "speed" /\ l.k = "baud"
        /\ l.n = realSpeed'
    BY <2>5, <2>6, ConsoleAssumption
      DEF Line, Lines, Kinds, ConsoleTypes, Commands
  <2>8. wire' = <<l>>
    BY <1>1, <2>4, <2>5, OneAndTwo
  <2>9. Single(l)'
    BY <1>1, <2>3, <2>4, <2>7, <2>8 DEF Single, One, Attaching
  <2>10. Answered'
    BY <1>1, <2>3, <2>4, <2>9 DEF Answered
  <2>11. QuietInv'
    BY <1>1, <2>1, <2>3, <2>10 DEF QuietInv
  <2> QED BY <1>1, <1>2, <1>4, <2>11 DEF Dialog
<1>5. CASE ~Live
  BY <1>1, <1>2, <1>5 DEF Dialog, Live
<1> QED BY <1>3, <1>4, <1>5

\* What the server may answer, and what it makes of the client.
LEMMA ServerReplies ==
  ASSUME NEW c \in Commands, NEW r \in Replies(c)
  PROVE  /\ r[1] \in Kinds
         /\ c = "dump" => r[1] = "tty"
         /\ c = "group" => r[1] = "text"
         /\ c \notin {"dump", "group", "speed"} => r[1] \notin {"tty", "text"}
         /\ c \in Attaching /\ mode # "attached" =>
              (r[2] = "attached" <=> r[1] \in {"attached", "bumped"})
         /\ c \notin Attaching => r[2] \in {mode, "gone"}
         /\ c \in AtPort => r[2] = mode
<1> USE DEF Kinds, Bracketed, Attaching, AtPort
<1>1. CASE c \in {"greet", "ssl", "login"}
  BY <1>1 DEF Replies
<1>2. CASE c = "call"
  BY <1>2 DEF Replies
<1>3. CASE c = "exit"
  BY <1>3 DEF Replies
<1>4. CASE c = "attach"
  BY <1>4 DEF Replies
<1>5. CASE c = "force"
  BY <1>5 DEF Replies
<1>6. CASE c = "state"
  BY <1>6 DEF Replies
<1>7. CASE c \in {"connect", "info", "dump"}
  BY <1>7 DEF Replies
<1>8. CASE c = "groups"
  BY <1>8 DEF Replies
<1>9. CASE c \in {"group", "speed"}
  BY <1>9 DEF Replies
<1> QED BY <1>1, <1>2, <1>3, <1>4, <1>5, <1>6, <1>7, <1>8, <1>9 DEF Commands

\* The server answers the one command that a quiet dialog awaits.
LEMMA AnswerKeepsDialog ==
  ASSUME ConsoleTypes, ConnInv, Dialog, Answer
  PROVE  Dialog'
<1> DEFINE c == Head(asked)
<1>1. /\ UNCHANGED <<op, cpc, conn, realSpeed, noise, curSpeed, buf, answered>>
      /\ asked # <<>> /\ asked' = Tail(asked) /\ c \notin {"su", "sd"}
  BY DEF Answer, dialVars
<1>2. AnswersMatch'
  BY <1>1 DEF AnswersMatch, Dialog
<1>3. PICK r \in Replies(c) :
        /\ wire' = wire \o <<Line(c, r[1], realSpeed)>>
                        \o CASE r[1] = "tty" -> <<Line("dump", "end", 0)>>
                             [] r[1] = "text" -> <<Line("group", "help", 0)>>
                             [] OTHER -> <<>>
        /\ mode' = r[2]
  BY DEF Answer
<1>4. CASE Live /\ noise
  <2>1. NoisyInv
    BY <1>4 DEF Dialog
  <2>2. c \in {"state", "connect", "info", "dump"}
    BY <1>1, <2>1, FirstAsked DEF Asks
  <2>3. mode' = mode
    BY <1>3, <2>2, ServerReplies DEF AtPort, Commands
  <2>4. NoisyInv'
    BY <1>1, <2>1, <2>3, NoisyAnswer
  <2> QED BY <1>1, <1>2, <1>4, <2>4 DEF Dialog
<1>5. CASE Live /\ ~noise
  <2>1. QuietInv
    BY <1>5 DEF Dialog
  <2>2. cpc \in Commands /\ Awaited
    BY <1>1, <1>5, <2>1 DEF QuietInv, Answered, Live, ConsoleTypes, Steps
  <2>3. cpc # "speed" /\ c = cpc /\ asked' = <<>>
    <3>1. cpc = "speed" => Head(asked) \in {"su", "sd"}
      BY <2>2, OneAndTwo DEF Awaited
    <3>2. asked = <<cpc>>
      BY <1>1, <2>2, <3>1 DEF Awaited
    <3> QED BY <1>1, <3>1, <3>2, OneAndTwo
  <2>4. buf' = <<>> /\ wire = <<>>
    BY <1>1, <2>2 DEF Awaited
  <2>5. PICK l : l = Line(c, r[1], realSpeed)
    OBVIOUS
  <2>6. /\ r[1] \in Kinds
        /\ c = "dump" => r[1] = "tty"
        /\ c = "group" => r[1] = "text"
        /\ c \notin {"dump", "group"} => r[1] \notin {"tty", "text"}
        /\ c \in Attaching => (mode' = "attached" <=>
                                 r[1] \in {"attached", "bumped"})
        /\ c \notin Attaching => mode' \in {mode, "gone"}
        /\ c \in AtPort => mode' = mode
    <3>1. c \in Commands /\ c # "speed"
      BY <2>2, <2>3
    <3>2. c \in Attaching => mode # "attached"
      BY <2>2, <2>3 DEF Awaited
    <3> HIDE DEF c
    <3> QED BY <1>3, <3>1, <3>2, ServerReplies
  <2>7. /\ l \in Lines /\ l.on = conn /\ l.to = cpc /\ l.k = r[1]
        /\ l.n = realSpeed
    BY <2>2, <2>3, <2>5, <2>6, ConsoleAssumption
      DEF Line, Lines, Kinds, ConsoleTypes, Commands
  <2>8. <<>> \o <<l>> = <<l>>
    BY OneAndTwo
  <2>9. Answered'
    <3>1. CASE cpc = "dump"
      <4>1. PICK m : m = Line("dump", "end", 0)
        OBVIOUS
      <4>2. m.on = conn /\ m.to = "dump" /\ m.k = "end"
        BY <4>1 DEF Line
      <4>3. wire' = <<l>> \o <<m>>
        BY <1>3, <2>3, <2>4, <2>5, <2>6, <2>8, <3>1, <4>1
      <4>4. Two(l, m)'
        BY <2>4, <4>3, OneAndTwo DEF Two
      <4>5. Block(l, m)'
        BY <1>1, <2>3, <2>6, <2>7, <3>1, <4>2, <4>4 DEF Block
      <4> QED BY <1>1, <2>3, <3>1, <4>5 DEF Answered
    <3>2. CASE cpc = "group"
      <4>1. PICK m : m = Line("group", "help", 0)
        OBVIOUS
      <4>2. m.on = conn /\ m.to = "group" /\ m.k = "help"
        BY <4>1 DEF Line
      <4>3. wire' = <<l>> \o <<m>>
        BY <1>3, <2>3, <2>4, <2>5, <2>6, <2>8, <3>2, <4>1
      <4>4. Two(l, m)'
        BY <2>4, <4>3, OneAndTwo DEF Two
      <4>5. Block(l, m)'
        BY <1>1, <2>3, <2>6, <2>7, <3>2, <4>2, <4>4 DEF Block
      <4> QED BY <1>1, <2>3, <3>2, <4>5 DEF Answered
    <3>3. CASE cpc \notin {"dump", "group"}
      <4>1. wire' = <<l>> \o <<>>
        BY <1>3, <2>3, <2>4, <2>5, <2>6, <2>8, <3>3
      <4>2. One(l)'
        BY <2>4, <4>1, OneAndTwo DEF One
      <4>3. Single(l)'
        BY <1>1, <2>3, <2>6, <2>7, <4>2 DEF Single
      <4> QED BY <1>1, <2>3, <3>3, <4>3 DEF Answered
    <3> QED BY <3>1, <3>2, <3>3
  <2>10. cpc \in Attaching => op.call = "init"
    BY DEF ConnInv
  <2>11. cpc \in AtPort => mode' = "attached"
    BY <2>1, <2>3, <2>6 DEF QuietInv
  <2>12. mode' = "attached" => /\ cpc \in Attaching \cup AtPort \cup {"ready"}
                               /\ op.call = "init"
    BY <2>1, <2>3, <2>6, <2>10 DEF QuietInv
  <2>13. QuietInv'
    BY <1>1, <2>1, <2>2, <2>9, <2>11, <2>12 DEF QuietInv, Commands
  <2> QED BY <1>1, <1>2, <1>5, <2>13 DEF Dialog
<1>6. CASE ~Live
  BY <1>1, <1>2, <1>6 DEF Dialog, Live
<1> QED BY <1>4, <1>5, <1>6

\* From the first line that the device prints the dialog is noisy: the client
\* is attached, and no answer is awaited but those of the port.
LEMMA PrintKeepsDialog ==
  ASSUME ConsoleTypes, ConnInv, Dialog, DevicePrints
  PROVE  Dialog'
<1>1. /\ UNCHANGED <<op, cpc, conn, asked, buf, mode, answered>>
      /\ mode = "attached" /\ ~noise /\ noise' = TRUE
      /\ wire' = Append(wire, Line("none", "text", 0))
  BY DEF DevicePrints, dialVars
<1>2. AnswersMatch'
  BY <1>1 DEF AnswersMatch
<1>3. CASE Live
  <2>1. QuietInv
    BY <1>1, <1>3 DEF Dialog
  <2>2. cpc \in Attaching \cup AtPort \cup {"ready"} /\ op.call = "init"
    BY <1>1, <2>1 DEF QuietInv
  <2>3. cpc \in Attaching => Answered
    BY <1>1, <2>1 DEF QuietInv, Awaited, Attaching, Commands
  <2>4. asked \in Seq(Asks)
    <3>1. <<>> \in Seq(Asks) /\ \A a \in Asks : <<a>> \in Seq(Asks)
      OBVIOUS
    <3>2. CASE Awaited /\ cpc \in AtPort
      <4>1. asked = <<cpc>> \/ asked = <<"su">> \/ asked = <<"sd">>
        BY <3>2 DEF Awaited
      <4>2. cpc # "speed" => cpc \in Asks
        BY <3>2 DEF AtPort, Asks
      <4>3. cpc = "speed" => asked = <<"su">> \/ asked = <<"sd">>
        BY <3>2 DEF Awaited
      <4>4. "su" \in Asks /\ "sd" \in Asks
        BY DEF Asks
      <4> QED BY <3>1, <4>1, <4>2, <4>3, <4>4
    <3>3. CASE asked = <<>>
      BY <3>1, <3>3
    <3> QED BY <2>1, <2>2, <2>3, <3>2, <3>3
          DEF QuietInv, Answered, AtPort, Commands
  <2>5. cpc \in Attaching =>
          asked = <<>> /\ buf \in Seq(PortLines) /\ wire' \in Seq(PortLines)
    <3>1. HAVE cpc \in Attaching
    <3>2. PICK l : Single(l) /\ asked = <<>>
      BY <2>3, <3>1 DEF Answered, Attaching
    <3>3. l \in PortLines
      BY <1>1, <3>1, <3>2 DEF Single, Lines, PortLines
    <3>4. <<>> \in Seq(PortLines) /\ <<l>> \in Seq(PortLines)
      BY <3>3
    <3>5. buf \in Seq(PortLines) /\ wire \in Seq(PortLines)
      BY <3>2, <3>4 DEF Single, One
    <3>6. Line("none", "text", 0) \in PortLines
      BY DEF Line, PortLines, ConsoleTypes
    <3>7. wire' \in Seq(PortLines)
      BY <1>1, <3>5, <3>6, AppendProperties
    <3> QED BY <3>2, <3>5, <3>7
  <2>6. NoisyInv'
    BY <1>1, <2>2, <2>4, <2>5 DEF NoisyInv
  <2> QED BY <1>1, <1>2, <2>6 DEF Dialog
<1>4. CASE ~Live
  BY <1>1, <1>2, <1>4 DEF Dialog, Live
<1> QED BY <1>3, <1>4

\* Every step keeps the dialog.
LEMMA DialogStep ==
  ASSUME ConsoleTypes, ConnInv, Dialog, Next
  PROVE  Dialog'
<1>1. CASE Receive
  BY <1>1, ReceiveKeepsDialog
<1>2. CASE Answer
  BY <1>2, AnswerKeepsDialog
<1>3. CASE ChangeSpeed
  BY <1>3, SpeedChangeKeepsDialog
<1>4. CASE DevicePrints
  BY <1>4, PrintKeepsDialog
<1>5. CASE DialFails \/ Unexpected \/ ReadFails \/ Close
  BY <1>5, EndKeepsDialog
<1>6. CASE DialOk
  BY <1>6, DialKeepsDialog
<1>7. CASE SslAccepted \/ Handshake
  BY <1>7, SslKeepsDialog
<1>8. CASE \/ Greeted \/ LoggedIn \/ Redirected \/ Spied \/ Attached \/ Up
           \/ InfoStarts
  BY <1>8, SetupKeepsDialog
<1>9. CASE ExitDone \/ Locked
  BY <1>9, ExitKeepsDialog
<1>10. CASE Connected \/ SpeedLine
  BY <1>10, SpeedKeepsDialog
<1>11. CASE InfoLine \/ InfoEnds
  BY <1>11, DumpKeepsDialog
<1>12. CASE NextGroup
  BY <1>12, GroupKeepsDialog
<1> QED BY <1>1, <1>2, <1>3, <1>4, <1>5, <1>6, <1>7, <1>8, <1>9, <1>10,
           <1>11, <1>12 DEF Next

\* Nothing is dialled yet.
LEMMA ConsoleStarts ==
  ASSUME Init
  PROVE  ConsoleInv
<1> USE ConsoleAssumption DEF Init
<1>1. ConsoleTypes
  BY DEF ConsoleTypes, Steps
<1>2. ConnInv
  BY DEF ConnInv, Live, Attaching, AtPort
<1>3. AnswersMatch
  BY DEF AnswersMatch
<1>4. QuietInv
  BY DEF QuietInv, Commands, Attaching, AtPort
<1>5. ~noise
  OBVIOUS
<1> QED BY <1>1, <1>2, <1>3, <1>4, <1>5 DEF ConsoleInv

\* Every step keeps the invariant.
LEMMA ConsoleStep ==
  ASSUME ConsoleInv, [Next]_consoleVars
  PROVE  ConsoleInv'
<1>1. ConsoleTypes /\ ConnInv /\ Dialog
  BY DEF ConsoleInv, Dialog
<1>2. CASE Next
  BY <1>1, <1>2, ConnStep, DialogStep DEF ConsoleInv, Dialog
<1>3. CASE UNCHANGED consoleVars
  BY <1>3 DEF consoleVars, ConsoleInv, ConsoleTypes, ConnInv, AnswersMatch,
    Live, NoisyInv, QuietInv, Awaited, Answered, Block, Single, One, Two
<1> QED BY <1>2, <1>3

\* What the run checks follows: a port that is ready is attached, at the speed
\* that is known, which is the one that was asked for.
LEMMA ConsoleInvSafe ==
  ASSUME ConsoleInv
  PROVE  ConsoleWorks
<1>1. OneConnection
  BY DEF ConsoleInv, ConnInv, OneConnection, Live
<1>2. ReadyIsAttached
  <2>1. SUFFICES ASSUME cpc = "ready", op.call = "init"
                 PROVE  /\ mode = "attached"
                        /\ op.speed # 0 /\ ~noise => realSpeed = op.speed
    BY DEF ReadyIsAttached
  <2>2. CASE noise
    BY <2>1, <2>2 DEF ConsoleInv, Live, NoisyInv
  <2>3. CASE ~noise
    BY <2>1, <2>3 DEF ConsoleInv, Live, QuietInv
  <2> QED BY <2>2, <2>3
<1> QED BY <1>1, <1>2 DEF ConsoleInv, ConsoleWorks, ConsoleSafe

\* Init of the conserver client holds one connection at a time and follows no
\* more redirects than allowed; what it reads answers what it asked, on that
\* connection; and when it succeeds it is attached to the port, at the speed
\* that was asked for (ConsoleWorks).
THEOREM ConsoleAlwaysWorks == Spec => []ConsoleWorks
<1>1. Init => ConsoleInv
  BY ConsoleStarts
<1>2. ConsoleInv /\ [Next]_consoleVars => ConsoleInv'
  BY ConsoleStep
<1>3. ConsoleInv => ConsoleWorks
  BY ConsoleInvSafe
<1> QED BY <1>1, <1>2, <1>3, PTL DEF Spec

---------------------------------------------------------------------------
(* The evaluation of control sequences.                                    *)

\* Where the last newline may stand.
Behind ==
  \/ lastNewline <= pos
  \/ lastNewline = pos + 1 /\ lastNewline <= Len(data)

ScreenInv ==
  /\ data \in Seq(Bytes) /\ pos \in Nat /\ lastNewline \in Nat
  /\ status = "parses" => /\ pos <= Len(data) /\ Behind
                          /\ lastNewline # 0 => data[lastNewline] = "NL"

(* What one step keeps of the lines that are over. *)
Kept ==
  /\ lastNewline <= Len(data')
  /\ \A i \in 1..lastNewline : data'[i] = data[i]

LEMMA ScreenStarts == ScreenInit => ScreenInv
<1> SUFFICES ASSUME ScreenInit PROVE ScreenInv
  OBVIOUS
<1>1. data \in Seq(Bytes) /\ pos = 0 /\ lastNewline = 0
  BY DEF ScreenInit
<1>2. Len(data) \in Nat
  BY <1>1, LenProperties
<1> QED BY <1>1, <1>2 DEF ScreenInv, Behind

(* sliceEdit: a cut keeps what is in front of it. *)
LEMMA WithoutKeeps ==
  ASSUME data \in Seq(Bytes), NEW b \in Nat \ {0}, NEW e \in Nat,
         b <= e + 1, e <= Len(data)
  PROVE  /\ Without(b, e) \in Seq(Bytes)
         /\ Len(Without(b, e)) = Len(data) - (e + 1 - b)
         /\ \A i \in 1..(b - 1) : Without(b, e)[i] = data[i]
<1> DEFINE front == SubSeq(data, 1, b - 1)
           back == SubSeq(data, e + 1, Len(data))
<1>0. Len(data) \in Nat
  BY LenProperties
<1>1. /\ front \in Seq(Bytes) /\ Len(front) = b - 1
      /\ \A i \in 1..(b - 1) : front[i] = data[i]
  BY <1>0, Cut
<1>2. back \in Seq(Bytes) /\ Len(back) = Len(data) - e
  BY <1>0, Cut
<1>3. /\ front \o back \in Seq(Bytes)
      /\ Len(front \o back) = Len(front) + Len(back)
      /\ \A j \in 1..Len(front) : (front \o back)[j] = front[j]
  BY <1>1, <1>2, Joined
<1>4. Without(b, e) = front \o back
  BY DEF Without
<1> HIDE DEF front, back
<1> QED BY <1>0, <1>1, <1>2, <1>3, <1>4

(* A step that cuts from b to e, in front of no newline that counts, and
   goes on reading at b or before. *)
LEMMA CutKeeps ==
  ASSUME ScreenInv, status = "parses",
         NEW b \in Nat \ {0}, NEW e \in Nat, NEW n \in Nat,
         b <= e + 1, e <= Len(data), lastNewline < b,
         n <= b - 1, n >= lastNewline \/ n + 1 = lastNewline,
         Continue(Without(b, e), n)
  PROVE  ScreenInv' /\ Kept
<1>0. Len(data) \in Nat /\ lastNewline \in Nat
  BY LenProperties DEF ScreenInv
<1>1. /\ data' \in Seq(Bytes) /\ Len(data') = Len(data) - (e + 1 - b)
      /\ \A i \in 1..(b - 1) : data'[i] = data[i]
  BY WithoutKeeps DEF ScreenInv, Continue
<1>2. pos' = n /\ lastNewline' = lastNewline /\ status' = status
  BY DEF Continue
<1>3. Kept
  BY <1>0, <1>1 DEF Kept
<1>4. lastNewline # 0 => data'[lastNewline] = "NL"
  BY <1>0, <1>1 DEF ScreenInv
<1> QED BY <1>0, <1>1, <1>2, <1>3, <1>4 DEF ScreenInv, Behind

(* A step that reads on and cuts nothing. *)
LEMMA ReadsOn ==
  ASSUME ScreenInv, status = "parses", NEW n \in Nat,
         pos < n, n <= Len(data), Continue(data, n)
  PROVE  ScreenInv' /\ Kept
BY LenProperties DEF ScreenInv, Behind, Kept, Continue

LEMMA EndsKeeps ==
  ASSUME ScreenInv, status = "parses",
         NEW how \in {"error", "panics"}, Ends(how)
  PROVE  ScreenInv' /\ Kept
BY LenProperties DEF ScreenInv, Behind, Kept, Ends

(* The greatest of some positions, which Max is. *)
LEMMA MaxIs ==
  ASSUME NEW n \in Nat, NEW S, S \subseteq 1..n, S # {}
  PROVE  Max(S) \in S /\ \A y \in S : y <= Max(S)
<1> DEFINE T == {n - x : x \in S}
<1>1. T \subseteq Nat /\ T # {}
  OBVIOUS
<1> HIDE DEF T
<1>2. PICK t \in T : \A u \in T : t <= u
  BY <1>1, LeastExists
<1> USE DEF T
<1>3. PICK x \in S : t = n - x
  BY <1>2
<1>4. \A y \in S : y <= x
  <2> TAKE y \in S
  <2>1. n - y \in T /\ x \in Nat /\ y \in Nat
    OBVIOUS
  <2> QED BY <1>2, <1>3, <2>1
<1>5. \E z \in S : \A y \in S : y <= z
  BY <1>3, <1>4
<1> QED BY <1>5 DEF Max

(* The least of some positions, which Min is. *)
LEMMA MinIs ==
  ASSUME NEW S, S \subseteq Nat, S # {}
  PROVE  Min(S) \in S
<1>1. \E z \in S : \A y \in S : z <= y
  BY LeastExists
<1> QED BY <1>1 DEF Min

(* The end of a run of bytes is found, in the data or right after it. *)
LEMMA AfterIs ==
  ASSUME data \in Seq(Bytes), NEW S, "end" \notin S, NEW i \in Nat,
         i <= Len(data) + 1
  PROVE  /\ After(S, i) \in Nat /\ i <= After(S, i)
         /\ After(S, i) <= Len(data) + 1
<1>0. Len(data) \in Nat
  BY LenProperties
<1> DEFINE K == {k \in i..(Len(data) + 1) : Byte(k) \notin S}
<1>1. Len(data) + 1 \in K
  BY <1>0 DEF Byte
<1>2. K \subseteq Nat /\ K # {}
  BY <1>0, <1>1
<1>3. After(S, i) = Min(K)
  BY DEF After
<1>4. Min(K) \in K
  <2> HIDE DEF K
  <2> QED BY <1>2, MinIs
<1> QED BY <1>0, <1>3, <1>4

(* Where a control sequence ends. *)
LEMMA EndIs ==
  ASSUME data \in Seq(Bytes), pos \in Nat, Csi, Final # "end"
  PROVE  End \in Nat /\ Here + 2 <= End /\ End <= Len(data)
<1>0. Len(data) \in Nat /\ Here \in Nat /\ Here = pos + 1
  BY LenProperties DEF Here
<1>1. Here + 1 <= Len(data)
  BY <1>0 DEF Csi, Byte
<1> DEFINE p == After(Parameters, Here + 2)
<1>2. p \in Nat /\ Here + 2 <= p /\ p <= Len(data) + 1
  <2>1. "end" \notin Parameters
    BY DEF Parameters
  <2>2. Here + 2 \in Nat /\ Here + 2 <= Len(data) + 1
    BY <1>0, <1>1
  <2> QED BY <2>1, <2>2, AfterIs
<1> HIDE DEF p
<1>3. /\ After(Intermediates, p) \in Nat /\ p <= After(Intermediates, p)
      /\ After(Intermediates, p) <= Len(data) + 1
  BY <1>0, <1>2, AfterIs DEF Intermediates
<1>4. End = After(Intermediates, p)
  BY DEF End, p
<1>5. End <= Len(data)
  BY <1>0, <1>3, <1>4 DEF Final, Byte
<1> QED BY <1>0, <1>2, <1>3, <1>4, <1>5

---------------------------------------------------------------------------
(* One lemma for each action. *)

LEMMA ShortEscapeKeeps == ScreenInv /\ ShortEscape => ScreenInv' /\ Kept
<1> SUFFICES ASSUME ScreenInv, ShortEscape PROVE ScreenInv' /\ Kept
  OBVIOUS
<1>0. /\ Len(data) \in Nat /\ pos \in Nat /\ lastNewline \in Nat
      /\ pos < Len(data) /\ status = "parses" /\ Here = pos + 1 /\ Behind
      /\ data[pos + 1] = "ESC"
      /\ lastNewline # 0 => data[lastNewline] = "NL"
  BY LenProperties DEF ScreenInv, ShortEscape, Parses, Here, Byte
<1>1. lastNewline <= pos
  BY <1>0 DEF Behind
<1>2. CASE Byte(Here + 1) = "end"
  BY <1>0, <1>2, EndsKeeps DEF ShortEscape
<1>3. CASE Byte(Here + 1) = ">"
  <2>1. Continue(Without(Here, Here + 1), pos) /\ Here + 1 <= Len(data)
    BY <1>0, <1>3 DEF ShortEscape, Byte
  <2> QED BY <1>0, <1>1, <2>1, CutKeeps
<1>4. CASE Byte(Here + 1) \notin {"end", ">"}
  <2>1. Continue(data, pos + 2) /\ Here + 1 <= Len(data)
    BY <1>0, <1>4 DEF ShortEscape, Byte
  <2> QED BY <1>0, <2>1, ReadsOn
<1> QED BY <1>2, <1>3, <1>4

LEMMA CursorBackKeeps == ScreenInv /\ CursorBack => ScreenInv' /\ Kept
<1> SUFFICES ASSUME ScreenInv, CursorBack PROVE ScreenInv' /\ Kept
  OBVIOUS
<1>0. /\ Len(data) \in Nat /\ pos \in Nat /\ lastNewline \in Nat
      /\ pos < Len(data) /\ status = "parses" /\ Here = pos + 1 /\ Behind
      /\ data[pos + 1] = "ESC" /\ data \in Seq(Bytes) /\ Csi /\ Final = "D"
      /\ lastNewline # 0 => data[lastNewline] = "NL"
  BY LenProperties DEF ScreenInv, CursorBack, Csi, Parses, Here, Byte
<1>1. lastNewline <= pos
  BY <1>0 DEF Behind
<1>2. End \in Nat /\ Here + 2 <= End /\ End <= Len(data)
  BY <1>0, EndIs
<1>3. CASE Left \notin Nat
  BY <1>0, <1>3, EndsKeeps DEF CursorBack
<1>4. CASE Left \in Nat
  <2> DEFINE b == IF lastNewline + 1 > Here - Left THEN lastNewline + 1
                  ELSE Here - Left
  <2>1. Continue(Without(b, End), b - 1)
    BY <1>4 DEF CursorBack
  <2>2. b \in Nat \ {0} /\ lastNewline < b /\ b <= Here
    BY <1>0, <1>1, <1>4
  <2> HIDE DEF b
  <2> QED BY <1>0, <1>2, <2>1, <2>2, CutKeeps
<1> QED BY <1>3, <1>4

LEMMA IgnoredKeeps == ScreenInv /\ Ignored => ScreenInv' /\ Kept
<1> SUFFICES ASSUME ScreenInv, Ignored PROVE ScreenInv' /\ Kept
  OBVIOUS
<1>0. /\ Len(data) \in Nat /\ pos \in Nat /\ lastNewline \in Nat
      /\ pos < Len(data) /\ status = "parses" /\ Here = pos + 1 /\ Behind
      /\ data[pos + 1] = "ESC" /\ data \in Seq(Bytes) /\ Csi /\ Final # "end"
      /\ lastNewline # 0 => data[lastNewline] = "NL"
      /\ Continue(Without(Here, End), pos)
  BY LenProperties DEF ScreenInv, Ignored, Known, Csi, Parses, Here, Byte
<1>1. lastNewline <= pos
  BY <1>0 DEF Behind
<1>2. End \in Nat /\ Here + 2 <= End /\ End <= Len(data)
  BY <1>0, EndIs
<1> QED BY <1>0, <1>1, <1>2, CutKeeps

LEMMA ReturnKeeps == ScreenInv /\ Return => ScreenInv' /\ Kept
<1> SUFFICES ASSUME ScreenInv, Return PROVE ScreenInv' /\ Kept
  OBVIOUS
<1>0. /\ Len(data) \in Nat /\ pos \in Nat /\ lastNewline \in Nat
      /\ pos < Len(data) /\ status = "parses" /\ Here = pos + 1 /\ Behind
      /\ data[pos + 1] = "CR"
      /\ lastNewline # 0 => data[lastNewline] = "NL"
  BY LenProperties DEF ScreenInv, Return, Parses, Here, Byte
<1>1. lastNewline <= pos /\ lastNewline # 0 => lastNewline \in Newlines(pos)
  BY <1>0 DEF Behind, Newlines
<1>2. lastNewline <= pos
  BY <1>0 DEF Behind
<1>3. CASE Byte(Here + 1) \in {"NL", "CR"}
  <2>1. Continue(data, Here)
    BY <1>3 DEF Return
  <2> QED BY <1>0, <2>1, ReadsOn
<1>4. CASE Byte(Here + 1) \notin {"NL", "CR"} /\ Newlines(pos) = {}
  <2>1. Continue(Without(1, Here), 0) /\ lastNewline = 0
    BY <1>0, <1>1, <1>2, <1>4 DEF Return
  <2> QED BY <1>0, <2>1, CutKeeps
<1>5. CASE Byte(Here + 1) \notin {"NL", "CR"} /\ Newlines(pos) # {}
  <2> DEFINE m == Max(Newlines(pos))
  <2>1. m \in Newlines(pos) /\ \A y \in Newlines(pos) : y <= m
    BY <1>0, <1>5, MaxIs DEF Newlines
  <2>2. m \in 1..pos
    BY <2>1 DEF Newlines
  <2>3. Continue(Without(m + 1, Here), m - 1)
    BY <1>5 DEF Return
  <2>4. lastNewline <= m
    BY <1>0, <1>1, <1>2, <2>1, <2>2
  <2> HIDE DEF m
  <2>5. CASE lastNewline = m
    BY <1>0, <2>2, <2>3, <2>5, CutKeeps
  <2>6. CASE lastNewline < m
    BY <1>0, <2>2, <2>3, <2>6, CutKeeps
  <2> QED BY <1>0, <2>2, <2>4, <2>5, <2>6
<1> QED BY <1>3, <1>4, <1>5

LEMMA BackspaceKeeps == ScreenInv /\ Backspace => ScreenInv' /\ Kept
<1> SUFFICES ASSUME ScreenInv, Backspace PROVE ScreenInv' /\ Kept
  OBVIOUS
<1>0. /\ Len(data) \in Nat /\ pos \in Nat /\ lastNewline \in Nat
      /\ pos < Len(data) /\ status = "parses" /\ Here = pos + 1 /\ Behind
      /\ data[pos + 1] = "BS"
      /\ lastNewline # 0 => data[lastNewline] = "NL"
  BY LenProperties DEF ScreenInv, Backspace, Parses, Here, Byte
<1>1. lastNewline <= pos
  BY <1>0 DEF Behind
<1>2. CASE pos = 0
  BY <1>0, <1>2, EndsKeeps DEF Backspace
<1>3. CASE pos # 0 /\ data[pos] = "NL"
  <2>1. Continue(Without(Here, Here), pos)
    BY <1>3 DEF Backspace
  <2> QED BY <1>0, <1>1, <2>1, CutKeeps
<1>4. CASE pos # 0 /\ data[pos] # "NL"
  <2>1. Continue(Without(pos, Here), pos - 1) /\ lastNewline < pos
    BY <1>0, <1>1, <1>4 DEF Backspace
  <2> QED BY <1>0, <1>4, <2>1, CutKeeps
<1> QED BY <1>2, <1>3, <1>4

LEMMA NewlineKeeps == ScreenInv /\ Newline => ScreenInv' /\ Kept
<1> SUFFICES ASSUME ScreenInv, Newline PROVE ScreenInv' /\ Kept
  OBVIOUS
<1>0. /\ Len(data) \in Nat /\ pos \in Nat /\ lastNewline \in Nat
      /\ pos < Len(data) /\ status = "parses" /\ Behind
      /\ data[pos + 1] = "NL" /\ data' = data /\ status' = status
      /\ pos' = pos + 1 /\ lastNewline' = pos + 1
  BY LenProperties DEF ScreenInv, Newline, Parses, Here, Byte
<1> QED BY <1>0 DEF ScreenInv, Behind, Kept

LEMMA OtherKeeps == ScreenInv /\ Other => ScreenInv' /\ Kept
<1> SUFFICES ASSUME ScreenInv, Other PROVE ScreenInv' /\ Kept
  OBVIOUS
<1>0. /\ Len(data) \in Nat /\ pos \in Nat
      /\ pos < Len(data) /\ status = "parses" /\ Here = pos + 1
      /\ Continue(data, Here)
  BY LenProperties DEF ScreenInv, Other, Parses, Here
<1> QED BY <1>0, ReadsOn

LEMMA ParsedKeeps == ScreenInv /\ Parsed => ScreenInv' /\ Kept
<1> SUFFICES ASSUME ScreenInv, Parsed PROVE ScreenInv' /\ Kept
  OBVIOUS
<1>0. /\ Len(data) \in Nat /\ pos \in Nat /\ lastNewline \in Nat
      /\ pos = Len(data) /\ Behind /\ data \in Seq(Bytes)
      /\ lastNewline # 0 => data[lastNewline] = "NL"
      /\ status' = "done" /\ pos' = pos /\ lastNewline' = lastNewline
  BY LenProperties DEF ScreenInv, Parsed
<1>1. lastNewline <= Len(data)
  BY <1>0 DEF Behind
<1>2. lastNewline # 0 => lastNewline \in Newlines(Len(data))
  BY <1>0, <1>1 DEF Newlines
<1>3. CASE Len(data) = 0 \/ Byte(Len(data)) # "CR"
  <2>1. data' = data
    BY <1>3 DEF Parsed
  <2> QED BY <1>0, <1>1, <2>1 DEF ScreenInv, Kept
<1>4. CASE ~(Len(data) = 0 \/ Byte(Len(data)) # "CR")
           /\ Newlines(Len(data)) = {}
  <2>1. data' = <<>> /\ lastNewline = 0
    BY <1>2, <1>4 DEF Parsed
  <2> QED BY <1>0, <2>1, EmptySeq DEF ScreenInv, Kept
<1>5. CASE ~(Len(data) = 0 \/ Byte(Len(data)) # "CR")
           /\ Newlines(Len(data)) # {}
  <2> DEFINE m == Max(Newlines(Len(data)))
  <2>1. m \in Newlines(Len(data)) /\ \A y \in Newlines(Len(data)) : y <= m
    BY <1>0, <1>5, MaxIs DEF Newlines
  <2>2. m \in 1..Len(data)
    BY <2>1 DEF Newlines
  <2>3. data' = SubSeq(data, 1, m)
    BY <1>5 DEF Parsed
  <2>4. lastNewline <= m
    BY <1>0, <1>2, <2>1, <2>2
  <2> HIDE DEF m
  <2>5. /\ data' \in Seq(Bytes) /\ Len(data') = m
        /\ \A i \in 1..m : data'[i] = data[i]
    BY <1>0, <2>2, <2>3, Cut
  <2> QED BY <1>0, <2>2, <2>4, <2>5 DEF ScreenInv, Kept
<1> QED BY <1>3, <1>4, <1>5

---------------------------------------------------------------------------
(* Every step of the Parser keeps the invariant and the lines that are
   over, and a step of anybody else changes nothing. *)
LEMMA StepKeeps ==
  ScreenInv /\ [ScreenNext]_screenVars => ScreenInv' /\ [Kept]_screenVars
<1> SUFFICES ASSUME ScreenInv, [ScreenNext]_screenVars
             PROVE  ScreenInv' /\ [Kept]_screenVars
  OBVIOUS
<1>1. CASE ShortEscape
  BY <1>1, ShortEscapeKeeps
<1>2. CASE CursorBack
  BY <1>2, CursorBackKeeps
<1>3. CASE Ignored
  BY <1>3, IgnoredKeeps
<1>4. CASE Unknown
  BY <1>4, EndsKeeps DEF Unknown, Csi, Parses
<1>5. CASE Return
  BY <1>5, ReturnKeeps
<1>6. CASE Backspace
  BY <1>6, BackspaceKeeps
<1>7. CASE Newline
  BY <1>7, NewlineKeeps
<1>8. CASE Other
  BY <1>8, OtherKeeps
<1>9. CASE Parsed
  BY <1>9, ParsedKeeps
<1>10. CASE UNCHANGED screenVars
  BY <1>10 DEF ScreenInv, Behind, screenVars
<1> QED BY <1>1, <1>2, <1>3, <1>4, <1>5, <1>6, <1>7, <1>8, <1>9, <1>10
        DEF ScreenNext

(* Whatever a device prints, no cut of Parse reaches a line that is over:
   CUB, RETURN and BS stop at the newline (parser.go). *)
THEOREM LinesStayAlways == ScreenSpec => LinesStay
<1>1. ScreenInit => ScreenInv
  BY ScreenStarts
<1>2. ScreenInv /\ [ScreenNext]_screenVars => ScreenInv' /\ [Kept]_screenVars
  BY StepKeeps
<1> QED BY <1>1, <1>2, PTL DEF ScreenSpec, LinesStay, Kept
=============================================================================
