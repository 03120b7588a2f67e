---------------------------- MODULE DeviceServer ----------------------------
(***************************************************************************)
(* The handlers of the gRPC service: SetupHostParams and AddDevice write   *)
(* the two maps of the server, Exec, ExecChat, Download and Upload resolve *)
(* the parameters of a host, make a device for it and use it.  The maps    *)
(* are written under a mutex and read without it.                          *)
(*                                                                         *)
(* A device is what its Connect, Execute and Close do; the types of the    *)
(* mapping are names.  A trace is the sequence of commands whose input and *)
(* output it holds.                                                        *)
(***************************************************************************)
EXTENDS Naturals, Sequences, FiniteSets

CONSTANTS Handlers, NoHandler, NoParams,
          Calls,     \* for each handler the requests it may get: kind, token,
                     \* bad, host, given, name
          Confs,     \* configurations: secure, jump, sshConfig
          BuiltIn,   \* device types of the default mapping
          MaxCmds    \* commands of a chat

VARIABLES
  conf,      \* the configuration, ssh_config of the host included
  types,     \* deviceMaps: who defined each type
  hostParams, told, \* of each host; credentials SetupHostParams was given
  typesMu, paramsMu,
  crashed,   \* the runtime has noticed a racing access to a map
  spc, call, \* of each handler: where it is, its request
  par,       \* the resolved parameters
  source, raced, \* what hostParams held when they were; it was read torn
  tunnel, dev, closes, \* the tunnel, the device, how often Close was called
  trs,       \* the traces of a chat by index, of all commands and of one
  cmds, results        \* commands received, results sent with their traces

devServerVars == <<conf, types, hostParams, told, typesMu, paramsMu, crashed,
                   spc, call, par, source, raced, tunnel, dev, closes, trs,
                   cmds, results>>
mapVars == <<types, hostParams, told, typesMu, paramsMu>>
useVars == <<tunnel, dev, closes, trs, cmds, results>>
resolveVars == <<par, source, raced>>

Hosts == {"h", "jump"}
NoSsh == [port |-> 0, name |-> "", jump |-> FALSE, ctl |-> FALSE]
Free(mu) == mu = NoHandler
At(h, p) == spc[h] = p /\ ~crashed /\ UNCHANGED <<conf, crashed>>
Goto(h, p) == spc' = [spc EXCEPT ![h] = p]
Kind(h) == call[h].kind

Init ==
  /\ conf \in Confs
  /\ types = [n \in BuiltIn |-> NoHandler]
  /\ hostParams = [x \in Hosts |-> NoParams] /\ told = [x \in Hosts |-> ""]
  /\ typesMu = NoHandler /\ paramsMu = NoHandler /\ crashed = FALSE
  /\ spc = [h \in Handlers |-> "start"]
  /\ call \in [Handlers -> UNION {Calls[h] : h \in Handlers}]
  /\ \A h \in Handlers : call[h] \in Calls[h]
  /\ par = [h \in Handlers |-> NoParams] /\ source = par
  /\ raced = [h \in Handlers |-> FALSE]
  /\ tunnel = [h \in Handlers |-> FALSE]
  /\ dev = [h \in Handlers |-> "none"] /\ closes = [h \in Handlers |-> 0]
  /\ trs = [h \in Handlers |-> <<>>]
  /\ cmds = [h \in Handlers |-> 0] /\ results = trs

---------------------------------------------------------------------------
(* The interceptor, and what each handler checks before it does anything.  *)

\* checkToken: anyone when no login is configured.
TokenOk(h) == ~conf.secure \/ call[h].token = "right"

Start(h) ==
  /\ At(h, "start")
  /\ Goto(h, IF ~TokenOk(h) \/ call[h].bad THEN "done"
             ELSE CASE Kind(h) = "setup" -> "lock params"
                    [] Kind(h) = "add" -> "lock types"
                    [] OTHER -> "resolve")
  /\ cmds' = [cmds EXCEPT ![h] = IF Kind(h) \in {"chat", "exec"}
                                  THEN 1 ELSE 0]
  /\ UNCHANGED <<mapVars, call, resolveVars, tunnel, dev, closes, trs,
                 results>>

---------------------------------------------------------------------------
(* SetupHostParams and AddDevice.                                          *)

LockParams(h) ==
  /\ At(h, "lock params") /\ Free(paramsMu) /\ paramsMu' = h
  /\ Goto(h, "write params")
  /\ UNCHANGED <<types, hostParams, told, typesMu, call, resolveVars, useVars>>

\* The parameters of a call without its credentials; ssh when no type is given.
Stored(g) ==
  [port |-> g.port, device |-> g.device, creds |-> "", ip |-> g.ip,
   type |-> IF g.type = "" THEN "ssh" ELSE g.type]

\* updateHostParams.
WriteParams(h) ==
  /\ At(h, "write params") /\ paramsMu' = NoHandler /\ Goto(h, "done")
  /\ hostParams' = [hostParams EXCEPT ![call[h].host] = Stored(call[h].given)]
  /\ told' = [told EXCEPT ![call[h].host] = call[h].given.creds]
  /\ UNCHANGED <<types, typesMu, call, resolveVars, useVars>>

LockTypes(h) ==
  /\ At(h, "lock types") /\ Free(typesMu) /\ typesMu' = h
  /\ Goto(h, "write types")
  /\ UNCHANGED <<types, hostParams, told, paramsMu, call, resolveVars,
                 useVars>>

Defined(n, h) ==
  [x \in DOMAIN types \cup {n} |-> IF x = n THEN h ELSE types[x]]

\* A type that is there is not redefined.
WriteTypes(h) ==
  /\ At(h, "write types") /\ typesMu' = NoHandler /\ Goto(h, "done")
  /\ types' = IF call[h].name \in DOMAIN types THEN types
              ELSE Defined(call[h].name, h)
  /\ UNCHANGED <<hostParams, told, paramsMu, call, resolveVars, useVars>>

---------------------------------------------------------------------------
(* getHostParams.                                                          *)

Ssh(host) == IF conf.sshConfig # NoParams /\ host = "h" THEN conf.sshConfig
             ELSE NoSsh

\* authApp.GetHostParams: the proxy of the application goes before what
\* ssh_config says of the host.
Proxy(host) == IF conf.jump THEN [NoSsh EXCEPT !.jump = TRUE] ELSE Ssh(host)

NotGiven == [port |-> 0, device |-> "", creds |-> "", ip |-> "", type |-> ""]

\* Of the call, else of SetupHostParams; ssh_config is above both, its port
\* only when the call names none.
Resolve(host, given, local) ==
  LET base == IF given # NoParams THEN given
              ELSE IF local # NoParams THEN local ELSE NotGiven
      port == IF given # NoParams /\ given.port # 0 THEN given.port
              ELSE Ssh(host).port
  IN [port |-> IF port # 0 THEN port ELSE base.port,
      device |-> base.device,
      creds |-> IF base.creds # "" THEN base.creds ELSE "app",
      addr |-> IF Proxy(host).name # "" THEN Proxy(host).name
               ELSE IF base.ip # "" THEN base.ip ELSE host,
      type |-> IF base.type = "" THEN "ssh" ELSE base.type,
      jump |-> Proxy(host).jump, ctl |-> Proxy(host).ctl]

\* What a read may return while another handler is writing the same entry.
Torn(host, h) ==
  {[f \in DOMAIN NotGiven |-> IF f \in S THEN old[f] ELSE new[f]] :
     S \in SUBSET {"port", "device"},
     old \in {IF hostParams[host] = NoParams THEN NotGiven
                                              ELSE hostParams[host]},
     new \in {Stored(call[w].given) :
                w \in {v \in Handlers \ {h} : /\ spc[v] = "write params"
                                              /\ call[v].host = host}}}

Writing(p) == \E w \in Handlers : spc[w] = p

\* Mutant of ReadParams: where ssh_config renames the host, the address that
\* came with the request is kept.
ReadParamsKeepsIp(h) ==
  /\ At(h, "resolve")
  /\ LET local == hostParams[call[h].host] IN
       /\ source' = [source EXCEPT ![h] = local] /\ UNCHANGED raced
       /\ LET p == Resolve(call[h].host, call[h].given, local) IN
          par' = [par EXCEPT ![h] =
            IF call[h].given # NoParams /\ call[h].given.ip # ""
            THEN [p EXCEPT !.addr = call[h].given.ip] ELSE p]
  /\ Goto(h, "stream")
  /\ UNCHANGED <<mapVars, call, useVars>>

ReadParams(h) ==
  /\ At(h, "resolve")
  /\ \/ source' = [source EXCEPT ![h] = hostParams[call[h].host]]
        /\ UNCHANGED raced
     \/ source' \in {[source EXCEPT ![h] = t] : t \in Torn(call[h].host, h)}
        /\ raced' = [raced EXCEPT ![h] = TRUE]
  /\ par' = [par EXCEPT ![h] =
               Resolve(call[h].host, call[h].given, source'[h])]
  /\ Goto(h, "stream")
  /\ UNCHANGED <<mapVars, call, useVars>>

\* The runtime stops the process when it notices the other access.
RaceNoticed(h) ==
  /\ ~crashed
  /\ \/ spc[h] \in {"resolve", "stream"} /\ Writing("write params")
     \/ spc[h] = "lookup" /\ Writing("write types")
  /\ crashed' = TRUE
  /\ UNCHANGED <<conf, mapVars, spc, call, resolveVars, useVars>>

---------------------------------------------------------------------------
(* makeDevice.                                                             *)

\* createStreamer: the jump host is dialled before the type is looked up;
\* its own parameters name no further jump.
MakeStreamer(h) ==
  /\ At(h, "stream")
  /\ IF par[h].type \notin {"ssh", "telnet"}
     THEN Goto(h, "done") /\ UNCHANGED tunnel
     ELSE IF par[h].type = "ssh" /\ par[h].jump
     THEN \/ tunnel' = [tunnel EXCEPT ![h] = TRUE] /\ Goto(h, "lookup")
          \/ UNCHANGED tunnel /\ Goto(h, "done")
     ELSE Goto(h, "lookup") /\ UNCHANGED tunnel
  /\ UNCHANGED <<mapVars, call, resolveVars, dev, closes, trs, cmds, results>>

LookupType(h) ==
  /\ At(h, "lookup")
  /\ IF par[h].device \in DOMAIN types
     THEN dev' = [dev EXCEPT ![h] = "made"] /\ Goto(h, "connect")
     ELSE UNCHANGED dev /\ Goto(h, "done")
  /\ UNCHANGED <<mapVars, call, resolveVars, tunnel, closes, trs, cmds,
                 results>>

---------------------------------------------------------------------------
(* Using the device.  Download and Upload defer its Close before Connect,  *)
(* ExecChat after it.                                                      *)

Connect(h) ==
  /\ At(h, "connect")
  /\ \/ /\ dev' = [dev EXCEPT ![h] = "open"]
        /\ Goto(h, IF cmds[h] > 0 THEN "exec" ELSE "transfer")
     \/ /\ dev' = [dev EXCEPT ![h] = "failed"]
        /\ Goto(h, IF cmds[h] > 0 THEN "done" ELSE "close")
  /\ trs' = [trs EXCEPT ![h] = <<<<>>>>]
  /\ UNCHANGED <<mapVars, call, resolveVars, tunnel, closes, cmds, results>>

Transfer(h) ==
  /\ At(h, "transfer") /\ Goto(h, "close")
  /\ UNCHANGED <<mapVars, call, resolveVars, useVars>>

\* What the command reads and writes goes to every trace: the one of the
\* chat and a new one of the command's own.
Execute(h) ==
  /\ At(h, "exec")
  /\ trs' = [trs EXCEPT ![h] = <<Append(trs[h][1], cmds[h]), <<cmds[h]>>>>]
  /\ Goto(h, "reply") \/ Goto(h, "close")
  /\ UNCHANGED <<mapVars, call, resolveVars, tunnel, dev, closes, cmds,
                 results>>

\* DelTrace and Send, which only a chat's stream can fail.
Reply(h) ==
  /\ At(h, "reply")
  /\ trs' = [trs EXCEPT ![h] = <<trs[h][1]>>]
  /\ \/ /\ results' = [results EXCEPT ![h] =
                         Append(@, [cmd |-> cmds[h], trace |-> trs[h][2]])]
        /\ Goto(h, "recv")
     \/ Kind(h) = "chat" /\ Goto(h, "close") /\ UNCHANGED results
  /\ UNCHANGED <<mapVars, call, resolveVars, tunnel, dev, closes, cmds>>

\* Mutant of Recv: an error of the stream skips the deferred calls.
RecvExits(h) ==
  /\ At(h, "recv")
  /\ \/ /\ Kind(h) = "chat" /\ cmds[h] < MaxCmds
        /\ cmds' = [cmds EXCEPT ![h] = @ + 1] /\ Goto(h, "exec")
     \/ Goto(h, "done") /\ UNCHANGED cmds
  /\ UNCHANGED <<mapVars, call, resolveVars, tunnel, dev, closes, trs,
                 results>>

\* The next command; or the end of the stream, an error, a command that is
\* not valid or that is for another host.
Recv(h) ==
  /\ At(h, "recv")
  /\ \/ /\ Kind(h) = "chat" /\ cmds[h] < MaxCmds
        /\ cmds' = [cmds EXCEPT ![h] = @ + 1] /\ Goto(h, "exec")
     \/ Goto(h, "close") /\ UNCHANGED cmds
  /\ UNCHANGED <<mapVars, call, resolveVars, tunnel, dev, closes, trs,
                 results>>

Close(h) ==
  /\ At(h, "close") /\ Goto(h, "done")
  /\ closes' = [closes EXCEPT ![h] = @ + 1]
  /\ dev' = [dev EXCEPT ![h] = "closed"]
  /\ UNCHANGED <<mapVars, call, resolveVars, tunnel, trs, cmds, results>>

Handle(h) ==
  \/ Start(h) \/ LockParams(h) \/ WriteParams(h) \/ LockTypes(h)
  \/ WriteTypes(h) \/ ReadParams(h) \/ RaceNoticed(h) \/ MakeStreamer(h)
  \/ LookupType(h) \/ Connect(h) \/ Transfer(h) \/ Execute(h) \/ Reply(h)
  \/ Recv(h) \/ Close(h)

Next == \E h \in Handlers : Handle(h)

Spec == Init /\ [][Next]_devServerVars

---------------------------------------------------------------------------

\* However a handler ends, a device that was connected has been closed, once;
\* a transfer closes also the one it could not connect.  Each result of a
\* chat answers the command it was sent for, in order, with the trace of that
\* command alone.
HandlersClean ==
  \A h \in Handlers :
    /\ closes[h] = (IF dev[h] = "closed" THEN 1 ELSE 0)
    /\ spc[h] = "done" =>
         /\ dev[h] \in {"none", "failed", "closed"}
         /\ Kind(h) \in {"download", "upload"} => dev[h] # "failed"
    /\ \A i \in 1..Len(results[h]) :
         results[h][i] = [cmd |-> i, trace |-> <<i>>]

\* The address, port and type of a device come from one place, the request
\* if it has parameters, else one single call of SetupHostParams, unless that
\* call was racing; a name ssh_config gives the host goes before every
\* address, an address of the request before its own name.
OneSource ==
  \A h \in Handlers :
    LET g == call[h].given
        from == IF g # NoParams THEN g ELSE source[h]
        real == IF conf.jump THEN "" ELSE Ssh(call[h].host).name
    IN par[h] # NoParams /\ ~raced[h] /\ from # NoParams =>
         /\ par[h].device = from.device
         /\ par[h].port \in {from.port, Ssh(call[h].host).port}
         /\ par[h].port = 0 => from.port = 0
         /\ par[h].addr = IF real # "" THEN real
                          ELSE IF from.ip # "" THEN from.ip ELSE call[h].host
         /\ g = NoParams =>
              from \in {Stored(call[w].given) :
                          w \in {v \in Handlers : Kind(v) = "setup"}}

\* A device type is never redefined, however many AddDevice run at once.
TypesStay ==
  \A n \in DOMAIN types : n \in DOMAIN types' /\ types'[n] = types[n]

\* What docs/grpc.md says of SetupHostParams: it sets the credentials of the
\* host, which a request without its own then uses.
SetupSetsCredentials ==
  \A h \in Handlers :
    /\ par[h] # NoParams /\ source[h] # NoParams /\ ~raced[h]
    /\ told[call[h].host] # ""
    /\ Cardinality({w \in Handlers : Kind(w) = "setup"}) = 1
    /\ call[h].given = NoParams
    => par[h].creds = told[call[h].host]
=============================================================================
