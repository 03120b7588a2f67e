-------------------------- MODULE ConsoleConnector --------------------------
(***************************************************************************)
(* The conserver client: Init (setupConnection and connectConsolePort with *)
(* its redirects), the speed of the port, DiscoveryAllPorts, Close.  The   *)
(* dialog is a line per command; the reader goroutine takes lines from the *)
(* connection into the buffer from which they are read, and outlives the   *)
(* connection it was made for unless it is stopped.  Lines carry the       *)
(* connection and the command they answer.                                 *)
(***************************************************************************)
EXTENDS Naturals, Sequences, FiniteSets

CONSTANTS Endpoints,      \* addresses of a server
          RedirectLimit, MaxConns,
          MaxSpeed, Wanted, \* speeds of a port; the one that is asked for
          Groups          \* number of groups of the master

ASSUME ConsoleAssumption == RedirectLimit \in Nat /\ MaxSpeed \in Nat

VARIABLES op,        \* init or discover, with ssl, force and speed
          cpc,       \* the command whose answer is awaited, or a step
          tried, conn, dialled, open,  \* endpoints tried, m.conn, open ones
          reader,    \* connections whose reader goroutine runs
          wire, asked,   \* on m.conn: lines sent, commands not answered
          buf,       \* m.buffer and m.bufferExtra
          redirectNo, group, curSpeed,
          mode, realSpeed, noise, \* at the server: this client's state, the
                                  \* port's speed; other output was seen
          answered   \* the last line that was read, and for which command

consoleVars == <<op, cpc, tried, conn, dialled, open, reader, wire, asked,
                 buf, redirectNo, group, curSpeed, mode, realSpeed, noise,
                 answered>>
dialVars == <<op, tried, conn, dialled, open, redirectNo, group>>
serverVars == <<mode, realSpeed, noise>>

Commands == {"greet", "ssl", "login", "call", "exit", "attach", "force",
             "state", "connect", "info", "dump", "speed", "groups", "group"}
Line(c, k, n) == [on |-> conn, to |-> c, k |-> k, n |-> n]
Taken(l) == [line |-> l, at |-> cpc, on |-> conn]

Init ==
  /\ op \in [call : {"init"}, ssl : BOOLEAN, force : BOOLEAN,
             speed : {0, Wanted}]
         \cup [call : {"discover"}, ssl : BOOLEAN, force : {FALSE},
               speed : {0}]
  /\ cpc = "dial" /\ tried = 0 /\ conn = 0 /\ dialled = 0 /\ open = {}
  /\ reader = {} /\ wire = <<>> /\ asked = <<>> /\ buf = <<>>
  /\ redirectNo = 0 /\ group = 0 /\ curSpeed = 0
  /\ mode = "none" /\ realSpeed \in 1..MaxSpeed /\ noise = FALSE
  /\ answered = [line |-> Line("none", "none", 0), at |-> "none", on |-> 0]

---------------------------------------------------------------------------
(* Lines: readLine matches a buffer that is one whole line; a message in   *)
(* brackets is found anywhere, and what is before it is dropped.           *)

Bracketed == {"attached", "bumped", "up", "down", "connected", "ro", "busy"}
Found ==
  IF Len(buf) = 1 THEN {1}
  ELSE {i \in 1..Len(buf) : /\ buf[i].k \in Bracketed
                            /\ \A j \in 1..(i - 1) : buf[j].k \notin Bracketed}

\* The answer to command c is read: one line of kind k.
Read(c, k) ==
  /\ cpc = c
  /\ \E i \in Found :
       /\ buf[i].k = k /\ answered' = Taken(buf[i])
       /\ buf' = SubSeq(buf, i + 1, Len(buf))
TheLine == buf[CHOOSE i \in Found : TRUE]

Send(c) == cpc' = c /\ asked' = Append(asked, c)
Fail == cpc' = "failed" /\ UNCHANGED asked

\* The reader goroutine of m.conn: lines arrive in any portions.
Receive ==
  /\ conn \in reader
  /\ \E n \in 1..Len(wire) :
       /\ buf' = buf \o SubSeq(wire, 1, n)
       /\ wire' = SubSeq(wire, n + 1, Len(wire))
  /\ UNCHANGED <<dialVars, cpc, reader, asked, curSpeed, serverVars, answered>>

---------------------------------------------------------------------------
(* The server: it answers the commands of a connection in their order.     *)

\* What may be answered, with the new state of the client at the server.
Replies(c) ==
  CASE c \in {"greet", "ssl", "login"} ->
         {<<"ok", mode>>, <<"other", mode>>}
    [] c = "call" ->
         {<<"notfound", mode>>, <<"port", mode>>, <<"host", mode>>,
          <<"spy", "spy">>, <<"ok", mode>>, <<"ro", "spy">>,
          <<"attached", "attached">>, <<"other", mode>>}
    [] c = "exit" -> {<<"goodbye", "gone">>, <<"other", "gone">>}
    [] c = "attach" -> {<<"busy", mode>>}
    [] c = "force" -> {<<"bumped", "attached">>, <<"other", mode>>}
    [] c = "state" -> {<<"up", mode>>, <<"down", mode>>}
    [] c = "connect" -> {<<"connected", mode>>}
    [] c = "info" -> {<<"info", mode>>}
    [] c = "dump" -> {<<"tty", mode>>}
    [] c = "groups" -> {<<"ports", mode>>, <<"other", mode>>}
    [] OTHER -> {<<"text", mode>>}

Answer ==
  /\ asked # <<>> /\ conn \in open /\ Head(asked) \notin {"su", "sd"}
  /\ \E r \in Replies(Head(asked)) :
       /\ wire' = wire \o <<Line(Head(asked), r[1], realSpeed)>>
                       \o CASE r[1] = "tty" -> <<Line("dump", "end", 0)>>
                            [] r[1] = "text" -> <<Line("group", "help", 0)>>
                            [] OTHER -> <<>>
       /\ mode' = r[2]
  /\ asked' = Tail(asked)
  /\ UNCHANGED <<dialVars, cpc, reader, buf, curSpeed, realSpeed, noise,
                 answered>>

\* su and sd move the speed by one step and report it.
ChangeSpeed ==
  /\ asked # <<>> /\ conn \in open /\ asked' = Tail(asked)
  /\ \/ Head(asked) = "su" /\ realSpeed' = IF realSpeed = MaxSpeed
                                          THEN MaxSpeed ELSE realSpeed + 1
     \/ Head(asked) = "sd" /\ realSpeed' = IF realSpeed = 1 THEN 1
                                          ELSE realSpeed - 1
  /\ wire' = Append(wire, Line("speed", "baud", realSpeed'))
  /\ UNCHANGED <<dialVars, cpc, reader, buf, curSpeed, mode, noise, answered>>

\* The device behind the port prints a line.
DevicePrints ==
  /\ mode = "attached" /\ conn \in open /\ ~noise /\ noise' = TRUE
  /\ wire' = Append(wire, Line("none", "text", 0))
  /\ UNCHANGED <<dialVars, cpc, reader, asked, buf, curSpeed, mode, realSpeed,
                 answered>>

---------------------------------------------------------------------------
(* setupConnection.                                                        *)

DialFails ==
  /\ cpc = "dial" /\ tried' = tried + 1
  /\ IF tried + 1 = (IF dialled = 0 THEN Endpoints ELSE 1)
     THEN Fail ELSE UNCHANGED <<cpc, asked>>
  /\ UNCHANGED <<op, conn, dialled, open, reader, wire, buf, redirectNo, group,
                 curSpeed, serverVars, answered>>

\* The first address that answered is kept for later connections.  The reader
\* is started over an empty buffer.
DialOk ==
  /\ cpc = "dial" /\ dialled < MaxConns
  /\ dialled' = dialled + 1 /\ conn' = dialled' /\ open' = open \cup {conn'}
  /\ reader' = reader \cup {conn'} /\ buf' = <<>> /\ wire' = <<>>
  /\ tried' = 0 /\ mode' = "shell" /\ cpc' = "greet" /\ asked' = <<"greet">>
  /\ UNCHANGED <<op, redirectNo, group, curSpeed, realSpeed, noise, answered>>

Greeted ==
  /\ Read("greet", "ok") /\ Send(IF op.ssl THEN "ssl" ELSE "login")
  /\ UNCHANGED <<dialVars, reader, wire, curSpeed, serverVars>>

\* stopBufferReader before the handshake: the goroutine is waited for, what
\* it had read is dropped.
SslAccepted ==
  /\ cpc = "ssl" /\ Found # {} /\ TheLine.k = "ok"
  /\ cpc' = "handshake" /\ reader' = reader \ {conn} /\ buf' = <<>>
  /\ answered' = Taken(TheLine)
  /\ UNCHANGED <<dialVars, wire, asked, curSpeed, serverVars>>

Handshake ==
  /\ cpc = "handshake"
  /\ \/ Send("login") /\ reader' = reader \cup {conn}
     \/ Fail /\ UNCHANGED reader
  /\ UNCHANGED <<dialVars, wire, buf, curSpeed, serverVars, answered>>

LoggedIn ==
  /\ Read("login", "ok")
  /\ Send(IF op.call = "init" THEN "call"
          ELSE IF group = 0 THEN "groups" ELSE "group")
  /\ UNCHANGED <<dialVars, reader, wire, curSpeed, serverVars>>

---------------------------------------------------------------------------
(* connectConsolePort.                                                     *)

Redirected ==
  /\ Read("call", "port") /\ Send("exit")
  /\ UNCHANGED <<dialVars, reader, wire, curSpeed, serverVars>>

\* Mutant of LeaveOld: one redirect too many is followed.
LeaveOldOnceMore ==
  /\ redirectNo' = redirectNo + 1
  /\ IF redirectNo > RedirectLimit
     THEN Fail /\ UNCHANGED <<conn, open, reader, wire>>
     ELSE /\ cpc' = "dial" /\ open' = open \ {conn} /\ conn' = 0
          /\ reader' = reader \ {conn} /\ asked' = <<>> /\ wire' = <<>>

\* closeForChangePort: interrupt the reader, wait for it, drop the buffer,
\* close the connection.
LeaveOld ==
  /\ redirectNo' = redirectNo + 1
  /\ IF redirectNo' > RedirectLimit
     THEN Fail /\ UNCHANGED <<conn, open, reader, wire>>
     ELSE /\ cpc' = "dial" /\ open' = open \ {conn} /\ conn' = 0
          /\ reader' = reader \ {conn} /\ asked' = <<>> /\ wire' = <<>>

\* The old server says goodbye, or nothing: its close may overtake the answer.
ExitDone ==
  /\ cpc = "exit"
  /\ \/ Read("exit", "goodbye")
     \/ Found = {} /\ UNCHANGED <<buf, answered>>
  /\ LeaveOld
  /\ UNCHANGED <<op, tried, dialled, group, curSpeed, serverVars>>

\* Someone else is attached: told who it is, or bumped.
Spied ==
  /\ Read("call", "spy") /\ Send(IF op.force THEN "force" ELSE "attach")
  /\ UNCHANGED <<dialVars, reader, wire, curSpeed, serverVars>>

Locked ==
  /\ cpc = "attach" /\ Found # {} /\ cpc' = "failed" /\ open' = open \ {conn}
  /\ buf' = SubSeq(buf, 2, Len(buf)) /\ answered' = Taken(TheLine)
  /\ UNCHANGED <<op, tried, conn, dialled, reader, wire, asked, redirectNo,
                 group, curSpeed, serverVars>>

Attached ==
  /\ Read("call", "attached") \/ Read("force", "bumped")
  /\ Send("state")
  /\ UNCHANGED <<dialVars, reader, wire, curSpeed, serverVars>>

Up ==
  /\ Read("state", "up") /\ Send("connect")
  /\ UNCHANGED <<dialVars, reader, wire, curSpeed, serverVars>>

\* One step of setSpeed towards the speed that is asked for.
StepSpeed(cur) ==
  IF cur = op.speed THEN cpc' = "ready" /\ UNCHANGED asked
  ELSE /\ cpc' = "speed"
       /\ asked' = Append(asked, IF cur < op.speed THEN "su" ELSE "sd")

\* setSpeed: with the dump first when the speed is not known.
SetSpeed(cur) == IF cur = 0 THEN Send("info") ELSE StepSpeed(cur)

Connected ==
  /\ Read("connect", "connected")
  /\ IF op.speed = 0 THEN cpc' = "ready" /\ UNCHANGED asked
     ELSE SetSpeed(curSpeed)
  /\ UNCHANGED <<dialVars, reader, wire, curSpeed, serverVars>>

---------------------------------------------------------------------------
(* setSpeed and getInformationDump.                                        *)

InfoStarts ==
  /\ Read("info", "info") /\ Send("dump")
  /\ UNCHANGED <<dialVars, reader, wire, curSpeed, serverVars>>

\* A line of the dump names the speed of this port, or another port.
InfoLine ==
  /\ Read("dump", "tty") /\ curSpeed' \in {TheLine.n, curSpeed}
  /\ UNCHANGED <<dialVars, cpc, reader, wire, asked, serverVars>>

InfoEnds ==
  /\ Read("dump", "end") /\ StepSpeed(curSpeed)
  /\ UNCHANGED <<dialVars, reader, wire, curSpeed, serverVars>>

\* Any other line leaves the speed as it was known, and asks again.
SpeedLine ==
  /\ \/ Read("speed", "baud") /\ curSpeed' = TheLine.n
     \/ Read("speed", "text") /\ UNCHANGED curSpeed
  /\ SetSpeed(curSpeed')
  /\ UNCHANGED <<dialVars, reader, wire, serverVars>>

---------------------------------------------------------------------------
(* DiscoveryAllPorts, failures and Close.                                  *)

\* The info of a group ends where the help text starts; the rest of the help
\* stays in the buffer.
GroupRead ==
  /\ cpc = "group"
  /\ \E i \in 1..Len(buf) :
       /\ buf[i].k = "text" /\ buf' = SubSeq(buf, i + 1, Len(buf))
       /\ answered' = Taken(buf[i])

\* The reader is stopped, the connection itself is left to the server.
NextGroup ==
  /\ Read("groups", "ports") \/ GroupRead
  /\ IF group = Groups THEN cpc' = "ready" /\ UNCHANGED <<group, reader>>
     ELSE cpc' = "dial" /\ group' = group + 1 /\ reader' = reader \ {conn}
  /\ UNCHANGED <<op, tried, conn, dialled, open, wire, asked, redirectNo,
                 curSpeed, serverVars>>

\* A line that is not one the step expects.
Expected(c) ==
  CASE c \in {"greet", "ssl", "login"} -> {"ok"}
    [] c = "call" -> {"port", "spy", "attached"}
    [] c = "exit" -> {"goodbye"}   [] c = "force" -> {"bumped"}
    [] c = "state" -> {"up"}       [] c = "connect" -> {"connected"}
    [] c = "info" -> {"info"}      [] c = "dump" -> {"tty", "end"}
    [] c = "speed" -> {"baud", "text"}
    [] c = "groups" -> {"ports"}
    [] OTHER -> Bracketed

Unexpected ==
  /\ cpc \in Commands \ {"attach", "group"} /\ Found # {}
  /\ TheLine.k \notin Expected(cpc) /\ cpc' = "failed"
  /\ UNCHANGED <<dialVars, reader, wire, asked, buf, curSpeed, serverVars,
                 answered>>

\* Timeout, end of the context or of the connection; of the old server's
\* exit only an error that its close does not explain (validateRedirectExit).
ReadFails ==
  /\ cpc \in Commands /\ (Found = {} \/ cpc = "group")
  /\ cpc' = "failed"
  /\ UNCHANGED <<dialVars, reader, wire, asked, buf, curSpeed, serverVars,
                 answered>>

Close ==
  /\ cpc \in {"ready", "failed"} /\ cpc' = "closed" /\ open' = open \ {conn}
  /\ reader' = reader \ {conn}
  /\ UNCHANGED <<op, tried, conn, dialled, wire, asked, buf, redirectNo, group,
                 curSpeed, serverVars, answered>>

Next ==
  \/ Receive \/ Answer \/ ChangeSpeed \/ DevicePrints \/ DialFails \/ DialOk
  \/ Greeted \/ SslAccepted \/ Handshake \/ LoggedIn \/ Redirected \/ ExitDone
  \/ Spied \/ Locked \/ Attached \/ Up \/ Connected \/ InfoStarts \/ InfoLine
  \/ InfoEnds \/ SpeedLine \/ NextGroup \/ Unexpected \/ ReadFails \/ Close

Spec == Init /\ [][Next]_consoleVars

---------------------------------------------------------------------------

\* Init holds one connection at a time however often it is redirected, its
\* reader is the only one, and it follows no more redirects than allowed.
OneConnection ==
  /\ reader \subseteq {conn}
  /\ op.call = "init" => open \subseteq {conn} /\ dialled <= RedirectLimit + 1
  /\ cpc = "ready" => conn \in open /\ conn \in reader

\* Every line is read as the answer to the command it answers, on the
\* connection in use: nothing of an earlier connection or command is left.
AnswersMatch ==
  answered.on # 0 /\ ~noise =>
    answered.line.on = answered.on /\ answered.line.to = answered.at

\* The dialog over one connection at a time.
ConsoleSafe == OneConnection /\ AnswersMatch

\* When Init succeeds the client is attached to the port, on the connection
\* that is open, at the speed that was asked for, unless the device printed
\* while the speed was changed.
ReadyIsAttached ==
  cpc = "ready" /\ op.call = "init" =>
    /\ mode = "attached"
    /\ op.speed # 0 /\ ~noise => realSpeed = op.speed

\* One connection, answers to the right commands, and a port that Init hands
\* out is attached at the speed that was asked for.
ConsoleWorks == ConsoleSafe /\ ReadyIsAttached
=============================================================================
