------------------------------- MODULE MCTools -------------------------------
(***************************************************************************)
(* Model checking, in one run, the connectors and tools that stand on      *)
(* their own: the console client and the checker of console ports that     *)
(* uses it, a NETCONF session, the TLS fork, the evaluation of control     *)
(* sequences.  part says which of them runs and never changes.             *)
(***************************************************************************)
EXTENDS ConsoleConnector, NetconfSession

CONSTANTS MaxTlsConns, MaxTlsMessages, ChunkSize, MaxRounds, MaxPhrases

VARIABLES part,
          scene, n, srv, cl, sv, toC, toS, cache, cut,  \* TlsHandshake
          at, hsMutex, inMutex, outMutex, committed, complete, hsErr, inErr,
          outErr, active, closed, connOpen, peer, peerSent, full, notified,
          log, flushFailed, renegotiation, messages,    \* TlsConn
          pc, plan, ses, task, cur, got, err, ended, toPort, inbox, wiring,
          fault, stopped, hasty,                        \* PairCheck
          dpc, cabled, st, arrived, wr, rd, readData, expired,
          report,                                       \* PortDiscovery
          printed, screen, scPos, lastNewline, scStatus \* TerminalScreen

\* Replies with text like a chunk header or like the end of the chunks, and
\* with a byte that XML does not allow.
SomePayloads == {<<"open", "text", "close">>,
                 <<"open", "fakeSize", "bad", "close">>,
                 <<"open", "fakeEnd", "close">>}

Client ==
  [min |-> 10, max |-> 12, suites |-> <<"ecdhe_rsa_gcm", "rsa", "dh_anon">>,
   curves |-> <<"p256">>, protos |-> <<"h2", "http">>, cache |-> TRUE,
   verify |-> TRUE, cert |-> "none", roots |-> {"rsa", "ecdsa"},
   psk |-> "none"]
TlsServer ==
  [min |-> 10, max |-> 12, suites |-> <<"dh_anon", "ecdhe_rsa_gcm", "rsa">>,
   curves |-> <<"x25519", "p256">>, protos |-> <<"http">>, cert |-> "rsa",
   staple |-> FALSE, dh |-> "good", prefer |-> FALSE, psk |-> "none",
   auth |-> 0, tickets |-> TRUE, keys |-> <<"k1">>, roots |-> {"mine"}]

\* Tickets: a key that is older, a key that is gone, another preference and
\* version, no tickets at all.
Rotation ==
  [client |-> Client,
   servers |-> {TlsServer, [TlsServer EXCEPT !.keys = <<"k2", "k1">>],
                [TlsServer EXCEPT !.prefer = TRUE, !.max = 11,
                                  !.keys = <<"k2">>],
                [TlsServer EXCEPT !.suites = <<"rsa">>, !.tickets = FALSE]}]

\* Client certificates: never, required, verified by one who does not trust.
Certified ==
  LET two == [TlsServer EXCEPT !.suites = <<"dhe_rsa", "ecdhe_rsa">>]
  IN [client |-> [Client EXCEPT !.cert = "mine",
                    !.suites = <<"ecdhe_ecdsa", "ecdhe_rsa", "dhe_rsa">>],
      servers |-> {two, [two EXCEPT !.auth = 4],
                   [two EXCEPT !.auth = 2, !.prefer = TRUE],
                   [two EXCEPT !.auth = 3, !.roots = {}],
                   [TlsServer EXCEPT !.cert = "ecdsa",
                                     !.suites = <<"ecdhe_ecdsa">>]}]

\* Pre-shared keys: the same, another one and none, with each kind.
PreShared ==
  [client |-> [Client EXCEPT !.psk = "s", !.verify = FALSE,
                 !.suites = <<"psk", "dhe_psk", "rsa_psk", "ecdh_anon">>],
   servers |-> {[TlsServer EXCEPT !.psk = k, !.suites = <<s>>, !.auth = 1,
                   !.cert = IF s = "rsa_psk" THEN "rsa" ELSE "ecdsa"] :
                  k \in {"s", "none", "x"},
                  s \in {"psk", "dhe_psk", "rsa_psk", "ecdh_anon"}}]

\* What cannot work: curves, stapling, versions, a short prime, no suite.
Misfits ==
  [client |-> [Client EXCEPT !.curves = <<"x25519", "p256">>],
   servers |-> {[TlsServer EXCEPT !.suites = <<"ecdhe_rsa_gcm">>],
                [TlsServer EXCEPT !.staple = TRUE],
                [TlsServer EXCEPT !.min = 13, !.max = 13],
                [TlsServer EXCEPT !.suites = <<"dh_anon">>, !.dh = "short"],
                [TlsServer EXCEPT !.suites = <<"psk">>, !.tickets = FALSE]}]

Tls == INSTANCE TlsHandshake
         WITH Scenarios <- {Rotation, Certified, PreShared, Misfits},
              MaxConns <- MaxTlsConns

TlsCalls == INSTANCE TlsConn
              WITH Writers <- {"w1", "w2"}, MaxMessages <- MaxTlsMessages,
                   in <- peerSent

\* The scenarios of the checker, alone and one after the other.
Check == INSTANCE PairCheck
           WITH Selections <- {<<"test_all_bytes">>, <<"test_random_soak">>,
                               <<"test_discovery">>,
                               <<"test_discovery", "test_one_way">>},
                Faulty <- {"R"}

\* A pair and a loop, one direction only, two ports into one, a ring.
Cable(a, b, c) == [p \in {"a", "b", "c"} |-> CASE p = "a" -> a [] p = "b" -> b
                                               [] p = "c" -> c]
Discovery == INSTANCE PortDiscovery
               WITH Ports <- {"a", "b", "c"}, pc <- dpc, wire <- cabled,
                    in <- arrived, ended <- expired,
                    Cablings <- {Cable("b", "a", "c"), Cable("b", "none", "a"),
                                 Cable("b", "a", "b"), Cable("b", "c", "a")}

\* Characters, control characters, and sequences that are known, unknown,
\* cut off or without their number.
Screen == INSTANCE TerminalScreen
            WITH data <- screen, pos <- scPos, status <- scStatus,
                 Phrases <- {<<"a">>, <<"NL">>, <<"CR">>, <<"BS">>, <<"ESC">>,
                             <<"ESC", ">">>, <<"ESC", "x">>,
                             <<"ESC", "[", "D">>, <<"ESC", "[", "0", "D">>,
                             <<"ESC", "[", "2", "D">>, <<"ESC", "[", "K">>,
                             <<"ESC", "[", "2">>,
                             <<"ESC", "[", "?", "1", "l">>}

tlsVars == <<scene, n, srv, cl, sv, toC, toS, cache, cut>>
callVars == <<at, hsMutex, inMutex, outMutex, committed, complete, hsErr,
              inErr, outErr, active, closed, connOpen, peer, peerSent, full,
              notified, log, flushFailed, renegotiation, messages>>
checkVars == <<pc, plan, ses, task, cur, got, err, ended, toPort, inbox,
               wiring, fault, stopped, hasty>>
portVars == <<dpc, cabled, st, arrived, wr, rd, readData, expired, report>>
screenVars == <<printed, screen, scPos, lastNewline, scStatus>>
allVars == <<part, consoleVars, netconfVars, tlsVars, callVars, checkVars,
             portVars, screenVars>>

\* A part that does not run stands in one of its initial states.
MCInit ==
  /\ part \in {"console", "netconf", "tls", "calls", "check", "ports",
               "screen"}
  /\ Init
  /\ part # "console" => op = [call |-> "init", ssl |-> FALSE,
                               force |-> FALSE, speed |-> 0]
  /\ NetconfInit /\ (part # "netconf" => server = 10)
  /\ Tls!Init
  /\ part # "tls" =>
       scene = Misfits /\ srv = [TlsServer EXCEPT !.staple = TRUE]
  /\ TlsCalls!Init /\ (part # "calls" => renegotiation = "never")
  /\ Check!Init
  /\ part # "check" => wiring = "open" /\ hasty
  /\ hasty <=> plan = Check!testDiscovery   \* bound: in one scenario
  /\ Discovery!Init
  /\ part # "ports" => cabled = Cable("b", "a", "c") /\ arrived["b"] = <<>>
  \* bound: an earlier run has left something at one port
  /\ arrived["a"] = <<>> /\ arrived["c"] = <<>>
  /\ IF part # "screen" THEN printed = <<>> ELSE TRUE
  /\ Screen!ScreenInit

Running(p) == part = p /\ UNCHANGED part
InConsole(A) ==
  /\ Running("console") /\ A
  /\ UNCHANGED <<netconfVars, tlsVars, callVars, checkVars, portVars,
                  screenVars>>
InNetconf(A) ==
  /\ Running("netconf") /\ A
  /\ UNCHANGED <<consoleVars, tlsVars, callVars, checkVars, portVars,
                  screenVars>>
InTls(A) ==
  /\ Running("tls") /\ A
  /\ UNCHANGED <<consoleVars, netconfVars, callVars, checkVars, portVars,
                  screenVars>>
InCalls(A) ==
  /\ Running("calls") /\ A
  /\ UNCHANGED <<consoleVars, netconfVars, tlsVars, checkVars, portVars,
                  screenVars>>
InCheck(A) ==
  /\ Running("check") /\ A
  /\ UNCHANGED <<consoleVars, netconfVars, tlsVars, callVars, portVars,
                  screenVars>>
InPorts(A) ==
  /\ Running("ports") /\ A
  /\ UNCHANGED <<consoleVars, netconfVars, tlsVars, callVars, checkVars,
                  screenVars>>
InScreen(A) ==
  /\ Running("screen") /\ A
  /\ UNCHANGED <<consoleVars, netconfVars, tlsVars, callVars, checkVars,
                  portVars>>

MCNext ==
  \/ InConsole(Next) \/ InNetconf(NetconfNext) \/ InTls(Tls!Next)
  \/ InCalls(TlsCalls!Next) \/ InCheck(Check!Next)
  \/ InPorts(Discovery!Next) \/ InScreen(Screen!ScreenNext)
MCSpec == MCInit /\ [][MCNext]_allVars

---------------------------------------------------------------------------
(* ConsoleWorks and NetconfWorks are those of the modules extended.        *)

\* clientHandshake and serverHandshake agree when both return.
TlsAgree == Tls!TlsAgree

\* They return, and fail only for a reason in the two Configs.
TlsEnds == Tls!TlsEnds

\* Read, Write, Close and Handshake of one Conn in different goroutines never
\* wait for each other for ever, Close closes, and no data follows a
\* close_notify or an alert, each of which goes out once at most.
ConnSafe == part = "calls" => TlsCalls!ConnSafe

\* gconsolecheck: a pair passes only if it is cabled and carries every byte
\* as it should; a good pair fails only with a read that fails, and never for
\* bytes that are wrong or too many (runPair); test_discovery_all_ports
\* reports the pairs that are there now.
CheckerRight == Check!PairChecked /\ Discovery!PortsDiscovered

\* terminal.Parse: the result is what the output shows, however the cuts
\* overlap, lines that are over stay as they are, and reading ends.
ScreenExact == Screen!ScreenExact
=============================================================================
