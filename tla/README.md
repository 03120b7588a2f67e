# A verification of gnetcli

gnetcli runs commands on network devices: a Go library that drives an
interactive CLI over SSH, telnet or a console server, a gRPC/REST server around
it, tools to check consoles and to imitate switches, and a fork of the TLS
package for old console servers. This directory models the parts of it whose
behaviour depends on the order of events, checks the models with TLC and proves
theorems about them with TLAPS.

`PROJECT.json` relates every definition to the lines it models, every property
to a change of the model that breaks it, and every hazard to the properties that
watch it.

## 1. The system

| Component | State | Operations | Interacts with |
|---|---|---|---|
| **Command execution** `GenericExecute` (`pkg/device/genericcli`, `pkg/expr`, `pkg/cmd`) | per call: ordered expression list, `seenEcho`, collected output, last question and its count, callback limit, pending echo error | one loop over `ReadTo`: echo, prompt, pager, question, login, callback; errors | reads and writes the connector; what a call does not read stays there for the next |
| **Device lifecycle** `GenericDevice` | `cliConnected` | `Connect`, `Execute`, `ExecuteBulk`, `connectCLI`, `genericLogin`, `Close`, `Download`, `Upload` | connector, credentials, command execution |
| **Stream reader** (`pkg/streamer`) | unread rest, bounded channel of chunks | `GenericReadX` (expression, size, duration, read timeout), `NetReader` | one goroutine per connection fills the channel |
| **SSH connector** (`pkg/streamer/ssh`) | connection, session, two-stage reader (`chanReader`, `chanAgg`), agent | `Init`, `ReadTo`, `Write`, `PrependBuffer`, `Cmd`, `Download`, `Upload`, `Close` | tunnel, agent, sftp |
| **SSH tunnel** | `isOpen`, client or control-master connection | `CreateConnect` (locked), `StartForward`, `Close` (not locked) | shared by several connectors |
| **Telnet connector** | connection, channel | `Init`, `ReadTo`, `Write`, `Close` | stream reader |
| **Console connector** (`pkg/streamer/console`) | connection, reader goroutine, port, speed | login to conserver, redirects, attach, speed, discovery, read and write | stream reader, TLS fork, SSH tunnel |
| **RFC 2217 connector** | connection, reader goroutine, telnet options | `Init`, reader with byte filter, `Close` | stream reader |
| **NETCONF device** | version, message id | hello, framed and chunked exchange | SSH connector |
| **Terminal emulation** (`pkg/terminal`) | data, cursor, last newline | `Parse`, `ParseDropLastReturn` | echo check of `GenericExecute` |
| **Server core** (`pkg/server`) | `deviceMaps`, `hostParams`, traces of a chat | `ExecChat`, `Exec`, `ExecNetconf`, `AddDevice`, `SetupHostParams`, `Download`, `Upload` | one device per call or chat |
| **Shared listener** (`internal/listenermux`) | pending connections, `done`, `sync.Once` | `Serve`, `Close`, `route`, `sniff`, `Accept` of each sub-listener | HTTP gateway, gRPC server, context |
| **Server process** (`cmd/gnetcli_server`) | error group, shutdown timer | start, ordered shutdown | gateway, mux, gRPC server |
| **Traces** (`pkg/trace`) | ring of items | `Add`, `List` | connectors, server core |
| **Console checker** (`cmd/gconsolecheck`) | worker, two sessions with their codec, first error | scenarios, exchanges with a watcher; discovery of all ports | console connector, SSH tunnel |
| **TLS fork** (`internal/tls_hack`) | per connection: half connections with keys and sequence numbers, handshake state, three locks; session cache, ticket keys | client and server handshake, resumption, `Read`, `Write`, `Close`, renegotiation | console connector |
| **Mock switch, tssh, tools, devconf, SDK** | | | not modelled, see section 6 |

### What is hard in it, and what makes it correct

* *A stream cut anywhere.* `ReadTo` returns the first expression of an ordered list
  that matches what has arrived **so far**. The result of a command must not depend
  on how the transport cuts the stream, on redraws that show a prompt before the
  echo, or on pagers and questions in between. (`ResultExact`, `ImplementsSession`,
  `EchoErrorOrder`, `CallbackGetsItsText`)
* *Leftovers.* A command that timed out leaves its output in the connector. It must
  neither become part of a later result nor be answered. (`NoForeignOutput`,
  `NoAnswerBeforeEcho`)
* *Endless dialogs.* A device may ask the same question for ever.
  (`RepeatedAnswersBounded`, `ExecuteReturns`)
* *A login that half succeeds.* The CLI login is postponed to the first `Execute`;
  what it has and has not done when a later call starts decides where that call's
  command is typed. (`AutoBeforeUserUnlessFailed`, `CommandsAtPrompt`,
  `AuthErrorHonest`, `PasswordsAtPasswordPrompt`)
* *Bytes between goroutines.* Reads end by a match, a size, a timeout or a context
  while a goroutine, or two, still push chunks through bounded channels. No byte is
  lost from the stream, doubled or reordered; what an exception of the console
  connector takes instead of the caller ends with a message of the console server; and
  a call returns once its context ends, or the peer falls silent or closes.
  (`ReadsExact`, `PipelineExact`, `StopsAtFirstPrompt`, `ReadsEnd`, `ImplementsFifo`)
* *Ownership of sockets during shutdown.* Every accepted connection is closed by its
  owner, once, whatever `Close`, `Serve`, the classifiers and the protocol servers
  do; requests in progress are not cut off before the deadline.
  (`HandedOffStaysOpen`, `NoLeak`, `CloseSweepsAll`, `ImplementsOwnership`,
  `ShutdownIsGraceful`, `StopsEnd`)
* *State shared without a lock.* The maps of the server and the SSH tunnel are
  written under a mutex and read without it. (`OneSource`, `HandlersClean`,
  `TunnelSafe`, `ForgottenOnlyInRace`, `TunnelLive`)
* *A command that must die.* `Cmd` waits for streams that only the goroutine of its
  context can end. (`CmdSafe`, `CmdEnds`)
* *Two passes.* A transfer is tried without and with sudo, and the second pass has to
  fill exactly the gaps of the first, those inside a directory that could not be
  looked at included. (`TransferExact`)
* *Two protocols in one stream.* Acknowledgements of quoted bytes, option
  negotiation, chunk headers and control sequences are taken out of a stream that is
  cut anywhere. (`CheckerRight`, `ReadsExact`, `NetconfWorks`, `ScreenExact`)
* *A peer that changes its mind.* The console server redirects from host to host;
  a TLS server rotates keys and versions between a session and its resumption.
  (`ConsoleWorks`, `TlsAgree`)
* *Three locks.* Handshake, read and write side of a TLS connection have a lock each,
  and `Close` must get past all of them. (`ConnSafe`, `TlsEnds`)

## 2. The modules

| Module | Models | Role |
|---|---|---|
| `Terminal` | the device at the other end of a command, and the stream back (external) | environment of `GenericExecute` |
| `GenericExecute` | `GenericExecute`, the expression list, the matching part of `GenericReadX` | component |
| `CommandSession` | what a user of `Device` relies on | abstract specification of `GenericExecute` |
| `GenericDevice` | `Connect`, `connectCLI`, `genericLogin`, `ExecuteBulk`, `Execute` | component with its device |
| `StreamReader` | the reading side of telnet, ssh and console connectors | component, three instances |
| `SshPipeline` | `chanReader` and `chanAgg` | component |
| `ByteFifo` | what every reading side promises | abstract specification of `StreamReader` and `SshPipeline` |
| `Rfc2217` | dial, options and byte filter of `rfc2217` | component |
| `SshTunnel` | one tunnel and the connectors that share it | component |
| `SshConnector` | `Init`, `Cmd`, sessions, agent | component |
| `SftpTransfer` | `Download` and `Upload` with sudo | component |
| `ConsoleConnector` | the conserver client with the console server | component |
| `NetconfSession` | hello and both framings | component |
| `TlsHandshake` | `clientHandshake` against `serverHandshake` | composition of both sides |
| `TlsConn` | the locks of `Conn` | component |
| `PairCheck` | one worker of `gconsolecheck` and the codec | component |
| `PortDiscovery` | `test_discovery_all_ports` | component |
| `TerminalScreen` | `terminal.Parse`, against what the output shows | algorithm and reference |
| `ListenerMux` | `internal/listenermux` | component |
| `ConnOwnership` | who may close an accepted connection | abstract specification of `ListenerMux` |
| `ServerShutdown` | `main` of the server around `ListenerMux` | composition |
| `DeviceServer` | the handlers of the service and their two maps | component |
| `TraceRing` | `pkg/trace` | component |
| `...Proofs`, `DataLemmas` | | theorems, and lemmas about data |
| `MC...` | | instances for TLC |

`MCServer`, `MCSsh`, `MCStreams` and `MCTools` check several components in one run.
Their variable `part` chooses one of them in the initial state and never changes;
the others rest in one initial state. A property of such a run is the conjunction
of the properties of its parts.

### GenericExecute and Terminal

Data is reduced to *tokens*: a token stands for a run of bytes that one expression
matches (`echo`, `prompt`, `pager`, `question`, `cb`, `login`) or that none matches
(`out`, `err`, an incomplete echo `part`, an echo `esc` with control sequences in
it). `buf` is the connector's unread rest, `wire` what is still under way. `Receive`
appends any number of tokens, because a chunk may end anywhere; `Matching`,
`MatchId` and `MatchPos` reproduce the choice of `GenericReadX` and
`SimpleExprList.Match`: the first *expression of the list* that matches, at its
first position. Expressions anchored at the end of the data (prompt, pager, the
device's own question, login) match only there; the echo, the questions of the
command and the callbacks match anywhere.

One turn of the Go loop is one action: between two calls of `ReadTo` the goroutine
touches nothing that another process touches, except for its writes, which are
appended to `inq`. `SeeEcho`, `SeePrompt`, `SeePromptBeforeEcho`, `SeeWithoutEcho`,
`SeePager`, `SeeQuestion`, `SeeCallback` and `SeeLogin` are the branches of the
loop body; `ReadTimesOut` and `ReadEOF` the ways in which `ReadTo` fails;
`WriteFails` is the failing write in each branch. The start of the callbacks in the
list (`cbStart`) moves when the echo is removed, as in the code. `cbRun` and
`asked` are history variables that the code does not have; `said` and `swallowed`
are histories of the terminal.

Left out: the trace, the error handler and result callback hooks of a command,
newline normalisation of the result, answers that only match part of a question.

### GenericDevice

`connectCLI` and `genericLogin` are written out, one action per match. The command
runs behind them are reduced to what `GenericExecute` promises: the line is written,
and the call returns after the echo of that line and a prompt behind it, or with an
error at any time. The expressions of `connectCLI` are put together from a Go map:
`cbBefore` chooses, per login, which of them come after the callbacks. The device
boots at a login or password prompt, refuses passwords with or without an error
line, and prints messages of the day, callbacks that wait for an answer and
questions. `Connect` is called once; the timeouts of `connectTimeout` are part of
`LoginFails`, which may happen at any moment of the login.

### StreamReader, SshPipeline, ByteFifo, Rfc2217

A byte is its position in the stream, so that loss, order and repetition are
visible. `Connector` selects the goroutine (`stdoutReader`, the ssh pipeline,
`NetReader`) and the calls each connector offers. `ReturnSize`, `ReturnExpr`,
`StartWait`, `TakeChunk`, `GiveUp`, `FlushEnds`, `ReturnDuration` and `ReturnEOF` are
the parts of one turn of `GenericReadX`'s loop, so that chunks, timers and the
context interleave with it. `taken` is what calls took out of the stream, and `raised`
says which of it went into an exception and not to the caller: `ReturnMessage` is the
console's `ReadTo` that meets a message of the console server (`regExErrors`), which
is a match like any other until `PortAttached` sets `conMsgChecker`, and a
`ConsoleException` from then on. The peer may fall silent, close, or go on for ever
with text in which nothing matches (`TextArrives`): each chunk of it starts the read
timer anew. `SshPipeline` has the two goroutines and both channels;
its timer may fire whenever it is armed. `Rfc2217` has the reader's state machine
(`mode`, `telnetCommand`) over phrases of an access server, including what the code
does with a sub-negotiation, which is a TODO there.

### SshTunnel, SshConnector, SftpTransfer

`SshTunnel` has the connectors' steps around the tunnel at the granularity of its
unlocked reads and writes; a connection may be lost at any time. The socket pair that
`StartForward` makes before it dials is open (`stray`) when the dial has failed.
`SshConnector` has
`Cmd` with the goroutine of `CloserCTX`, whose three writes may come at any moment,
and the handshake with its watcher. `SftpTransfer` has one `Download` or `Upload`
with what each pass gets of each file, and of the requested directory itself, as a
choice of the call. A `Stat` of the directory that fails makes an entry of the result
(`DirectoryFails`); a later walk adds the files and leaves the entry there.

### ConsoleConnector, NetconfSession

Both talk to a server that is part of the module (external in the map). Lines of the
console server carry the connection and the command they answer, which the code does
not see: the properties do. In `NetconfSession` a reply's payload is a sequence of
kinds of bytes, among them bytes that look like a chunk header or the end of the
chunks. The device answers one request after the other (`AnswerRequest`); what it has not
yet sent of a 1.1 reply is in `out`, and each `SendChunk` cuts a chunk of any size
off it, so that a call may time out, and the next one begin, between two chunks. What
looks like a header may hold a number too large for an `int` (`SizeOverflows`).

### TlsHandshake and TlsConn

`TlsHandshake` is symbolic: a key, a hash or a secret is the term of what it is made
from. Both sides run over two queues of records with epochs (`prepareCipherSpec`,
`changeCipherSpec`), the flights are buffered and flushed as in the code, and the
transport may break at any moment. `Scenarios` holds four families of
configurations (rotation of keys and versions, client certificates, pre-shared keys,
misfits); within a family the server is configured anew between connections.
`TlsConn` has the same connection from outside: one reader, several writers, one
closer, three mutexes, `handshakeCond`, and the counter `activeCall`. `log` holds what
went out from the first alert or `close_notify` on: all three kinds of records are
written by `Sends`, the alerts of a failed handshake and of a `Read` included.

### PairCheck and PortDiscovery

The serial cable, with its wiring and faults, and the console server's
acknowledgements are external. Data bytes are `0x05`, `0xff` and others, which is
what the codec distinguishes; a read may cut an acknowledgement anywhere. The
context of an operation may end at any moment, the read timer may fire, the server may
drop a connection, and `hasty` is a read timeout below the quiet window. An error is a
pair: what `compareReadResult` says of the data (nothing, a length, a mismatch), and
the error of the read that came with it.

### TerminalScreen

The parser edits its data in place, so that each step moves the bytes that later
steps address. `Shown` computes the same from the phrases alone, without positions:
lines that are over, and the line being printed.

### ListenerMux, ServerShutdown, DeviceServer, TraceRing

Every critical section of `m.mu` and every channel operation is an action. `Serve`
accepts, admits and starts a classifier per connection; `Close` runs its body once,
from any of its three callers; `Accept` of a sub-listener waits for a hand-off, its
own `Close` or the mux's. The verdict on the first bytes and the 5 s deadline are
choices. `ServerShutdown` extends it with `main`: a signal or a failing listener at
any moment, the three stops in their order under one deadline, and REST requests
that need the gateway's own connection through the same mux. `DeviceServer` splits
each access to the maps into its locked write and unlocked read. `TraceRing` numbers
the data it is given.

## 3. Runs

| Run | Instance | Shows |
|---|---|---|
| `execute` | 2 commands, all echo forms, one pager, question and callback, logout, lost connection | results exact, nothing foreign, GOP 3 and 4, implements `CommandSession` |
| `execute_live` | no command timeout, fair client | `ExecuteReturns` |
| `device` | 3 passwords, 2 automatic commands, 3 calls, 4 greetings, manual and automatic login | login and automatic commands |
| `streams` | 4 bytes and then silence or endless text, prompts at 1 and 4, a console message at 3, channel of 1, 2 calls, 1 put-back; pipeline with channels of 2 and 1; 2 phrases of telnet | nothing lost or reordered, calls return, implements `ByteFifo` |
| `ssh` | 2 connectors, 2 endpoints, 3 connections, both kinds of tunnel; 2 addresses, 2 commands; 2 files and a directory with one more, with and without sudo | tunnel, `Cmd`, transfers |
| `server` | 2 connections of which one is the gateway's; 3 handlers, 4 configurations; ring of 2 and no limit, 5 additions | mux alone and inside `main`, handlers, traces |
| `tools` | console with 2 endpoints, 1 redirect, 3 speeds; NETCONF with 2 requests; 3 TLS connections one after the other; 2 writers; pair checks of one scenario or two, with every wiring and one fault; discoveries; 4 phrases | the parts that stand on their own |
| `gop4_empty_prefix`, `callback_limit`, `gop1_auto_commands`, `reader_failure`, `setup_credentials` | the smallest that shows it | findings 1 to 5 |

**Bounds, and why they are enough.** Two commands, because leftovers need one that
fails and one that follows. `CbLimit` 2 and `LoginTries` 2 or 3 instead of 100 and
10: the limits are reached. `MaxGreetings` 4 is more than `LoginTries`. Three
passwords: a first, a middle and a last one. Four bytes with two prompts and a message:
a prompt inside a chunk, one at its end, and a message with text before it between two
prompts; channels of one or two
chunks are full after as many sends. Two connectors and three connections: a race of
two dials and one more connection after it. Three handlers: two that write the maps
and one that uses a device. A ring of two with five additions wraps twice. Two
connections in `server`: the gateway's own and a client's; owner changes of one
connection do not depend on other connections, and the theorems of section 4 hold
for any number. Three TLS connections: one that gets a ticket, one that resumes it
after a change, one more that resumes what the second left in the cache. Four
phrases: an overlap of two cuts with a character on each side. A pair whose read
timeout is below the quiet window runs `test_discovery` alone (`MCInit`): it fails in the
first window that is quiet. Of the two lines of a pair one may be noisy or dropped
(`Faulty`), either may lose a byte: in the data both sides send quoted, doubled and
plain bytes. An earlier run has left a marker at one port, which in the cablings hears
one other port or two.
Every bound is a constant in a guard, and named where it is declared.

**Fairness.** The Go scheduler runs a goroutine that can run: weak fairness for each
goroutine of the mux, of `main`, of the reading sides and of `Cmd`, and for timers
(they expire). Strong fairness in two places. `Lock` of the tunnel: Go's mutex hands
over to a waiter that starves. `AggTimer`: the select of `chanAgg` chooses among its
ready cases at random, so a timer that is ready again and again is chosen. Clients,
devices, peers and the network owe nothing, except in `BytesArrive`, where somebody
reads, and in the second half of `TunnelLive`, which assumes that connectors keep
coming. `CallsEnd` asks for the return of a call only when its context ends or the peer
is silent or gone: a `ReadTo` without a deadline lasts as long as a peer talks without
a prompt, since every chunk starts its timer anew. `TlsHandshake` and `TlsConn` state the absence of a deadlock as invariants
about states in which no call can go on, so that they need no fairness.

**Deadlock** is checked in the runs of `GenericExecute` and `GenericDevice`; a session
that has made all its calls stutters in `Finished`. In the bundles a part really
stops (a shutdown is over, a file is transferred), and `CHECK_DEADLOCK` is off; the
parts that must not get stuck have a property that says so (`NoDeadlock`, `NoStall`,
`CallsEnd`, `StopsEnd`, `CmdEnds`).

### Findings

1. *GOP 4.* A redraw that begins with the prompt has fewer than two bytes before it,
   and the call fails at once instead of prepending and reading on.
2. *Callback limit.* A comment promises to reset the limit "in other cases"; nothing
   resets it, so that 100 callbacks per command are the limit, not 100 in a row.
3. *GOP 1.* Automatic commands run before any user command only if the first
   `Execute` succeeds: `cliConnected` is set before the login, and a later call
   neither logs in again nor repeats them.
4. *Console read.* `console.Streamer.Read` uses the result of `GenericReadX` without
   looking at its error, and a failed read has none: it panics.
5. *SetupHostParams* drops the credentials that it is given.

### Also seen while modelling

The models contain the following as the code has it; no run is spent on them.

* SSH: the socket pair of a forward stays open when its dial fails (`ssh_tunnel.go:152`;
  `AttemptsCleanUp` states that nothing is left). A connector that cannot forward closes the tunnel the others still use
  (`ssh.go:727`; the comment at 439 says it is shared; `SharedTunnelIsKept` states
  it). After `Close` both reading goroutines can stay in a send for ever, which does
  not look at the context (`ssh.go:314`; `EndsAfterClose`). The tunnel made for one
  request of the server is never closed (`server.go`, `createStreamerSSH`). A requested
  directory that the first pass was denied stays in the result as denied, beside the
  files that the pass with sudo found in it (`ssh.go:1060-1076`; `DirectoryIsSaid`).
* Server: the two maps are read without their mutex, so that a read may be torn; the
  Go runtime then ends the process (`DeviceServer`, `Torn`). `ExecChat` does not
  close a device whose `Connect` failed.
* Traces: after the ring has wrapped, new data is merged into the last slot of the
  array, not the newest item.
* Console: the discovery of all ports leaves the connections to earlier groups open;
  output of the device during a change of speed can be taken for the answer. In the
  checker, a deadline that passes just after the last task closes the sessions early. On
  an attached port a message of the console server in mid-stream ends `ReadTo` with an
  exception, and the bytes before it reach no caller (`console.go:963-972`).
* Checker: any error of a read is reported with the lengths of what came, so that a slow
  or dropped connection is blamed for a wrong length (`runner.go:440-449`); with a read
  timeout below the quiet window, which the configuration allows, a good pair that is
  rightly silent fails (`codec.go:144-150`).
* RFC 2217: bytes of a sub-negotiation go to the data channel; option states are
  updated on copies; `DO` is answered with `DONT` and `WILL` with `WONT`; the given
  addresses are ignored when dialling; the reader ends without closing its channel.
* TLS: the client reads one message too many when the server staples, so that such a
  handshake always fails; `Handshake` returns early when its flush fails and never
  wakes the goroutines that wait for it, against the comment at `conn.go:1389`
  (`WaitersWoken` says that this is the only way); the default curves begin with one
  that the key agreement does not know; the alert of a `Read` may follow
  `close_notify`, since `sendAlert` does not look at `closeNotifySent` (`conn.go:790`),
  as `Write` does; RSA_PSK needs `GetPSKKey` and anonymous ECDH
  a certificate, and panic without.
* Terminal: a backspace with nothing before it on the first line makes
  `slices.Delete` panic (`status = "panics"`); the trimming at the end of
  `ParseDropLastReturn` is never reached with a return at the end that has not
  removed its line already.

## 4. Proofs

TLAPS checks the following for every value of the constants that the named
assumptions allow (`NoConnAssumption`, `TerminalAssumption`,
`GenericExecuteAssumption`, `GenericDeviceAssumption`, `TunnelAssumption`,
`ConnectorAssumption`, `DirectoryAssumption`, `ConsoleAssumption`, `MCStreamsAssumption`, `BackAssumption`,
`RingAssumption`, `NetconfAssumption`: the constants are numbers and sequences of the
right type, channels have a buffer, there is an address to dial, "no connection" is
none of the connections, the gateway's own connection is one of them, a directory is
none of the files, and a payload of a NETCONF reply is one element).

**`ServerProofs`**, the mux for any set of connections. `CloseSweepsAll` and `NoLeak`
are not inductive: whether a connection may be handed over depends on the step that
its classifier, `Serve` and `Close` have reached. `IInv` says, for every connection,
who knows it: only `Serve` between `Accept` and admission (`HeldInv`,
`UnroutedInv`), the pending set only while a classifier has not relinquished it
(`PendingInv`), a server only after its classifier has ended (`ServedInv`,
`EndedInv`); `UnsweptInv`, that nothing is closed under a running classifier before
the sweep, is what makes a hand-off safe. From it follow `TypeCorrectness`,
`HandedOffStaysOpenAlways`, `NoLeakAlways`, `CloseSweepsAllAlways`, and
`Refinement`: the mux implements `ConnOwnership`, one transfer per step.

The same module goes on with the process around the mux, in `MCServer`:

* `ShutdownIsAlwaysGraceful`. Every step of `main` is a step of the mux or leaves it
  alone (`MainStepsTheMux`), so `IInv` holds inside `main` as well. `MainInv` adds
  that only a served connection carries a request (`RequestInv`), that the
  `AfterFunc` passes a server only when nothing of it is active and `main` returns
  last (`OrderInv`), and, what makes the shutdown graceful, that until the gateway
  has no request left the mux serves and the gateway's own connection to the gRPC
  server is there or still on its way (`MuxUp`).
* `HandlersAreClean` and `OneSourceAlways`, for any number of handlers. `HandlerInv`
  follows the device of each handler (`DeviceInv`), its results against its commands
  (`ResultsInv`), and where the parameters came from: what is stored was given to one
  `SetupHostParams` (`StoreInv`), what a handler works with was resolved from what it
  read, which is one such value unless it was torn (`ResolveInv`).
* `TraceHoldsNewestAlways`, for any limit and none. `RingInv` orders the slots by age
  (`Older`, from `limitIndex` round): the first data of an item grows with its slot,
  each item holds data of one kind in order, no two share any, and one of them holds
  the newest. `Add` is one of three changes of the array (`MergeKeeps`,
  `OverwriteKeeps`, `AppendKeeps`), and `List` visits the slots in that order
  (`SlotFacts`, `ListFacts`).

**`GenericExecuteProofs`**, for any terminal dialog, questions, callbacks, limits
and number of commands. `IInv` adds to the types

* `ListInv`: the expression list is the initial one with or without its first entry,
  and `cbStart` says which. Without it neither the position of a callback nor that
  the echo is removed only once can be shown (`CallbackPlace`, `EchoSeenOnce`);
* `ErrInv`: the error of GOP 4 is saved only while the echo is missing;
* `RepeatInv`: the last `repQ` answers went to `lastQ` and the one before did not;
* `LimitInv`: a run of callbacks is no longer than what the limit has lost.

`InitInv`, one lemma per action and `TermNextType` make it inductive
(`Invariance`). The theorems are `TypeCorrectness`, `RepeatedAnswersAreBounded`,
`EchoErrorOrderAlways`, `NoAnswerBeforeEchoAlways` and `CallbackGetsItsTextAlways`;
the last three are properties of steps, each shown from `IInv` action by action
(`ErrorOrderStep`, `AnswerStep`, `CallbackStep`). `DataLemmas` holds what they need
about sequences and sequences of sequences, and that a nonempty set of positions has a
least one.

The second half of the module shows `ResultsAreExact`, `NoForeignOutputEver` and
`ImplementsCommandSession`. What is collected is only meaningful together with
everything that is still unread or under way, so that the inductive invariant
(`IInv /\ SInv`) describes the whole stream `buf \o wire`:

* `CountInv`: one result per finished call, in the order of the calls;
* `LateInv`: which commands may still get output; a command that was given up may
  (`Late`), one that returned a result while the session was sound may not;
* `SwallowInv`: which commands the device has taken for answers;
* `CallInv`: where the running command is. Its line waits to be read, or the
  terminal has logged out, or it has begun: then its echo is at one place of the
  stream or was seen, and what is owed behind the echo follows from the state of the
  terminal (`Running`, `Asking`, `Over`, `AnswerWaits`). In a sound session what is
  collected and what is owed make up what was printed;
* `ResultInv`: what the results hold (`Sound`, `Exempt`).

`SessionStep` shows it for each action. For the refinement, `StepMaps` maps a call to
`Call`, an end of a call to `Return`, output of the running command (or of a late one
in a suspect session) to `DeviceTalks`, and every other step to a stutter.

**`GenericDeviceProofs`**, for any number of automatic commands, passwords, login
tries, greetings and calls. `AutoBeforeUserUnlessFailedAlways`: the property speaks of
a running user command only; inductive is that the automatic commands are settled
(all done, or a call has failed) also between two calls once `cliConnected` is set.
`AuthErrorsAreHonest`, `PasswordsOnlyAtPasswordPrompt`, `CommandsOnlyAtPrompt` and
`TypeCorrectness` need to know what is under way in both directions (`DInv`):

* `DialogInv`: while the caller logs in by hand, a device that asks for a name or a
  password has one unanswered question under way to the caller, behind errors only,
  or one fitting line under way to itself, never both and never two;
* `PasswordInv`: so a password under way is the next line that a password prompt
  reads, also after the login was given up; the passwords sent are those refused and
  the one under way, which makes the error of the last one honest;
* `PromptInv`: a prompt in the stream means a device that stays at its prompt, and no
  command is under way before the login is over. The device reads no command
  elsewhere once a login has ended on a prompt, whether a later call fails or not,
  which is more than `CommandsAtPrompt` asks for.

**`StreamsProofs`**, for streams, reads and channels of any size, any set of prompts
and any number of calls, about the reading sides that `MCStreams` puts side by side:
`ReadsAlwaysExact`, `PipelineAlwaysExact`, `FirstPromptEndsRead` and
`ReadsImplementFifo`. None of the properties is inductive: what a caller got is right
only because everything that is still on its way to it is. `IInv` places every byte:

* `ReaderInv`: what was taken out, what the reader holds or keeps as `extra`, what an
  error path dropped, the chunks in the channel and the one in the goroutine's hand
  are together the bytes read so far, in this order (`Behind`, once for the callers
  and once for the trace); bytes are dropped only behind the end of the stream;
* `RaisedInv`: what went into an exception lies in what was taken, holds no prompt and
  goes on up to a message, which a later put-back does not reach (`RaisedKeeps`);
* `PipelineInv`: the same through the two queues of `SshPipeline` and the buffer
  between them, and in `PipelineFlags` which goroutine may already have ended;
* `RfcInv`: the RFC 2217 reader stands at a place inside the phrase that it reads
  (`Left` lists them, with what that phrase still shows and answers), and what is
  done, what is left of this phrase and what the phrases behind it will give add up
  to what all phrases give (`Unread`, `Through`).

One lemma per action keeps it, by regrouping the pieces (`ChunkRead`, `ChunkSent`,
`ChunkTaken`). What `FlattenSeq` does with a chunk at either end of a channel
(`FlattenAppend`, `FlattenTail` in `DataLemmas`) is shown from its definition, by
looking at the first partial result that would differ (`UpTo`). `PromptStep` gives
`StopsAtFirstPrompt`; for the refinement each step is an `Arrive`, `Deliver`, `Raise` or
`PutBack` of `ByteFifo`, or a stutter.

**`SshProofs`**, for any number of connectors, endpoints and connections:
`TunnelSafeAlways`. That the reads outside the mutex never dial a nil connection
rests on `svrConn` never going back to nil once it was set, and on `isOpen` being
set after it; that two connections are never dialled at once, on the mutex being
held by the connector that is in its critical section. `CmdSafeAlways`, for any number
of addresses and commands, with and without agent forwarding: a result is believed
only if the command exited, which rests on the goroutine of `CloserCTX` noting the
error of the context before it kills or closes (`KillInv`); the keyring is unlocked
from the session to the end of the output (`AgentInv`). `TransferExactAlways`, with
and without sudo: the invariant says for each pass which files it has met, and what
the best result for a file is that the passes so far could get (`DownloadInv`,
`UploadInv`). A pass over everything (`FullPassInv`) has found the directory's files or
an error in their place; a second pass over what was denied (`SecondPassInv`) starts
from a complete result, to which a directory that it can walk adds files.

**`ConsoleProofs`**: `ConsoleAlwaysWorks`, for any number of redirects, groups and
speeds, and for every console server. While the device behind the port has not
printed into the dialog, `QuietInv` follows the one answer that the client awaits:
it is not yet written, or its lines are on the wire, cut anywhere, or in the reader,
and they say what the client will conclude from them; the known speed is the port's.
Once the device has printed (`NoisyInv`) answers may be taken for others, and only
that an attached client stays attached is left, which is why `ConsoleWorks` asks for
the speed without noise only. `ConnInv` follows the connections over redirects.

In the same module, for output of any length and any bytes: `LinesStayAlways`.
Inductive is that `lastNewline` is zero or the place of a newline, and lies behind the
cursor, or right before it. With it every cut of the data, which starts at the cursor
or after the newline before it, starts after `lastNewline`.

**`SessionProofs`**, for any number of requests, any replies, both framings, chunks of
any size and any cut of the stream: `NetconfAlwaysWorks`. `NetconfAssumption` says that
a reply is one element, which may hold bytes like chunk headers and bytes that XML
forbids but no tag of another element. Every token names its reply and its
place in it, which the code does not see; `Ahead` is all that is on its way to the
reader, in its buffer, on the wire or not yet cut into chunks. `NetconfInv` says:

* `StreamInv`: what is ahead consists of tokens of replies, in the order they were
  sent (`Before`), and whatever has begun is still sent to its closing tag;
* `ChunkInv`: behind each header that has arrived stand as many tokens as it says, and
  then the next header;
* `ExactInv`: as long as no call has failed the reader is `Aligned`, at a header or
  inside of a chunk by the number of tokens it needs, and what it holds with what is
  ahead is the reply of its own call; so a header in the text is never taken for one;
* `HeldInv`: a call that gave up leaves the rest of its reply to the next one, which
  may begin inside of a chunk and read text for headers. What it holds comes before
  what is ahead, and a reply whose first tag it holds is either complete or continued
  by an aligned reader; one that lost its place meets a closing tag first, which does
  not parse (`FakeHeader`). So no reply is put together from two, and `Behind` keeps
  their order.

One lemma per action keeps it. `SendChunk` needs most: a header, and at last the end,
are put into the middle of what is ahead (`ChunkSpliced`, `SplicedHeaded`), and
order, completeness and the chunks before are shown anew for each place.

In the same module, for any number of goroutines that write to one TLS connection,
beside a reader and a closer, of which the theorem assumes that their names differ
(`WritersApart`): `CallsSafeAlways`, which is `HandshakeAlone`, `WaitersWoken` and
`LastWords`: an alert and `close_notify` go out once at most, in either order, and no
data follows one of them. Inductive is who may be where: the goroutine that committed to run the
handshake is the only one on its way through it, and there is neither an error nor a
result yet (`RunnerInv`); the reader is past the handshake, or runs a renegotiation
while it holds the mutex (`ReaderInv`); somebody who waits, and a commitment, mean that
somebody runs the handshake, or that a flush has failed (`WaitInv`); `close_notify`
is sent under the handshake mutex, at the end (`CloserInv`), and a write in progress
holds the lock of the out side and began before it (`WriteInv`); an alert leaves the
error of the out side behind, which stops every later write, and whoever sent it has
failed (`LogInv`).

Only model-checked, on the instances above:

* The properties of the two sides of a TLS handshake (`TlsAgree`, `TlsEnds`), whose
  invariant would have to relate the terms of both sides for every pair of
  configurations, and of the checker (`CheckerRight`, whose model is recursive).
* Liveness under fairness, and everything about `ENABLED` (`NoDeadlock`,
  `CloseBreaksWrite`), which is out of the prover's reach. What a recursive
  definition computes for every input would need induction over data, which the
  installed provers cannot do either: `ResultIsShown` stays with TLC for that reason.

## 5. Order of the work

The core was modelled first (`GenericExecute`, `GenericDevice`, `ListenerMux`), then
what feeds it (`StreamReader`, `SshPipeline`, `SshTunnel`, `SshConnector`), then the
server around it (`DeviceServer`, `ServerShutdown`, `TraceRing`), then the parts that
stand on their own (`MCTools`). What would come next, in this order: one owner per
connection for `SshTunnel`; the composition of `GenericDevice` with `GenericExecute`
through `CommandSession`; a theorem of the TLS handshake.

## 6. Not modelled

* **Mock switch** (`pkg/gswitch`): a device for tests with one goroutine per
  connection that shares only constant tables. `Terminal` and `GenericDevice` model
  devices that behave more freely.
* **devconf, vendor definitions, credentials from files, server configuration, flags**:
  tables and pure functions over text, without state or order.
* **tssh, cli, gvendor, generators**: straight-line glue around the operating system.
* **Generated code** (`server.pb*.go`, the Python SDK) and the encoding of TLS messages
  (`handshake_messages.go`): conversions of data whose fields the models use as such.
* **Cryptography, certificates, SSH, sftp and regular expressions**: libraries, used
  through what they promise.
* In modelled components: the control socket's mux protocol (`ssh_control_file.go`),
  newline normalisation and the hooks of a command, the jump host lookup of the
  checker.
