---------------------------- MODULE TlsHandshake ----------------------------
(***************************************************************************)
(* The TLS fork: clientHandshake against serverHandshake, TLS 1.0 to 1.2,  *)
(* with the key agreements the fork adds (DHE, anonymous, PSK), session    *)
(* tickets, client certificates and the record layer under them.           *)
(* Connections follow one another; the client's session cache and the      *)
(* server's ticket keys outlive them, and the server may be configured     *)
(* anew in between.  Secrets are terms: the same term on both sides is the *)
(* same secret.                                                            *)
(***************************************************************************)
EXTENDS Naturals, Sequences, FiniteSets
LOCAL INSTANCE SequencesExt

CONSTANTS Scenarios,   \* a client's Config, the server's Configs over time
          MaxConns

VARIABLES scene, n,    \* the scenario, the number of the connection
          srv,         \* the server's Config now
          cl, sv,      \* the Conn of each side with its handshake state
          toC, toS,    \* records on their way
          cache,       \* the client's session for this server
          cut          \* the transport broke

tlsVars == <<scene, n, srv, cl, sv, toC, toS, cache, cut>>
cli == scene.client

---------------------------------------------------------------------------
(* Cipher suites, versions and what is agreed on.                          *)

Suite(k, f) == [ka |-> k, flags |-> f]
cipherSuites ==
  [ecdhe_rsa_gcm |-> Suite("ecdhe", {"ecdhe", "rsa", "tls12"}),
   ecdhe_rsa |-> Suite("ecdhe", {"ecdhe", "rsa"}),
   ecdhe_ecdsa |-> Suite("ecdhe", {"ecdhe", "ecdsa"}),
   rsa |-> Suite("rsa", {"rsa"}),
   dhe_rsa |-> Suite("dhe_rsa", {"dhe", "rsa"}),
   rsa_psk |-> Suite("rsa_psk", {"rsa"}),
   dhe_psk |-> Suite("dhe_psk", {"dhe", "nocerts"}),
   psk |-> Suite("psk", {"nocerts"}),
   dh_anon_gcm |-> Suite("dhe", {"dhe", "nocerts", "tls12"}),
   dh_anon |-> Suite("dhe", {"dhe", "nocerts"}),
   ecdh_anon |-> Suite("ecdh_anon", {"ecdhe", "nocerts"})]
flags(s) == cipherSuites[s].flags
ka(s) == cipherSuites[s].ka
TLS12 == 12

\* The first element of s that satisfies a test, or "none".
First(s, Test(_)) ==
  LET I == {i \in DOMAIN s : Test(s[i])}
  IN IF I = {} THEN "none" ELSE s[CHOOSE i \in I : \A j \in I : i <= j]

\* 0 when the peer's version is too old.
mutualVersion(conf, v) ==
  IF v < conf.min THEN 0 ELSE IF v > conf.max THEN conf.max ELSE v

\* The first element of prefs that is also in s.
mutual(prefs, s) == LET In(x) == x \in ToSet(s) IN First(prefs, In)

\* Can this server use the suite with this client?
setCipherSuite(id, supported, hello, v) ==
  /\ id \in ToSet(supported)
  /\ "ecdhe" \in flags(id) =>
       /\ ToSet(hello.curves) \cap ToSet(srv.curves) # {}
       /\ "ecdsa" \in flags(id) => srv.cert = "ecdsa"
  /\ "rsa" \in flags(id) => srv.cert = "rsa"
  /\ "dhe" \in flags(id) => srv.dh # "none"
  /\ "tls12" \in flags(id) => v >= TLS12

chooseSuite(hello, v) ==
  LET Ok(id) == setCipherSuite(id, srv.suites, hello, v)
      OkForClient(id) == setCipherSuite(id, hello.suites, hello, v)
  IN IF srv.prefer THEN First(srv.suites, OkForClient)
     ELSE First(hello.suites, Ok)

---------------------------------------------------------------------------
(* Key agreement.  A share is made by one side of one connection; a        *)
(* failure is "none", a panic is "panic".                                  *)

Share(side) == <<side, n>>
NoShare == <<"none", 0>>
NoMsg == [t |-> "noMessage"]
Bad(why) == [t |-> why]
NoSecret == [no |-> 0]
\* The secret of a Diffie-Hellman exchange, from either side.
Z(a, b) == [z |-> {a, b}]
\* What RSA carries to the server.
RsaSecret == [rsa |-> n, vers |-> cli.max]

\* ServerKeyExchange: parameters, and who signed them with which randoms.
skx(params, by) ==
  [t |-> "skx", share |-> Share("server"), params |-> params,
   by |-> by, random |-> n]
ckx(share, secret) == [t |-> "ckx", share |-> share, secret |-> secret]
hashForServerKeyExchange(m, peer) == m.by = peer /\ m.random = n

\* The curve both know that the server prefers; X25519 is known by name only.
curve(hello) == mutual(srv.curves, hello.curves)
curveForCurveID(c) == c # "x25519"

(* Server: ServerKeyExchange.  An absent PSK hint never decides. *)
ecdheGenerateServer(hello, kind) ==
  IF ~curveForCurveID(curve(hello)) THEN Bad("fail")
  ELSE IF srv.cert = "none" THEN Bad("panic")
  ELSE IF srv.cert # kind THEN Bad("fail")
  ELSE skx(curve(hello), srv.cert)
rsaGenerateServer == NoMsg
dheGenerateServer ==
  IF srv.dh = "none" THEN Bad("fail") ELSE skx(srv.dh, "none")
dheRsaGenerateServer ==
  IF srv.dh = "none" \/ srv.cert # "rsa" THEN Bad("fail")
  ELSE skx(srv.dh, srv.cert)
pskGenerateServer == NoMsg
rsaPskGenerateServer == NoMsg
dhePskGenerateServer ==
  IF srv.dh = "none" THEN Bad("fail") ELSE skx(srv.dh, "none")

generateServerKeyExchange(s, hello) ==
  CASE s \in {"ecdhe_rsa", "ecdhe_rsa_gcm"} ->
         ecdheGenerateServer(hello, "rsa")
    [] s \in {"ecdhe_ecdsa", "ecdh_anon"} ->
         ecdheGenerateServer(hello, "ecdsa")
    [] ka(s) = "rsa" -> rsaGenerateServer
    [] ka(s) = "dhe" -> dheGenerateServer
    [] ka(s) = "dhe_rsa" -> dheRsaGenerateServer
    [] ka(s) = "psk" -> pskGenerateServer
    [] ka(s) = "rsa_psk" -> rsaPskGenerateServer
    [] ka(s) = "dhe_psk" -> dhePskGenerateServer

(* Client: are the server's parameters accepted?  A short prime is not;   *)
(* the anonymous kinds have no signature.                                  *)
ecdheAccepts(m, peer) == hashForServerKeyExchange(m, peer)
dheAccepts(m) == m.params # "short"
dheRsaAccepts(m, peer) ==
  m.params # "short" /\ hashForServerKeyExchange(m, peer)
dhePskAccepts(m) == m.params # "short"

processServerKeyExchange(s, peer, m) ==
  CASE ka(s) = "ecdhe" -> ecdheAccepts(m, peer)
    [] ka(s) = "dhe" -> dheAccepts(m)
    [] ka(s) = "dhe_rsa" -> dheRsaAccepts(m, peer)
    [] ka(s) = "dhe_psk" -> dhePskAccepts(m)
    [] ka(s) = "rsa" -> FALSE
    [] OTHER -> TRUE

(* Client: <<pre-master secret, ClientKeyExchange>>.  The identity is not  *)
(* modelled: each side has one key, or none.                               *)
ecdheGenerateClient(theirs) ==
  <<Z(theirs, Share("client")), ckx(Share("client"), NoSecret)>>
rsaGenerateClient == <<RsaSecret, ckx(NoShare, RsaSecret)>>
dheGenerateClient(theirs) ==
  <<Z(theirs, Share("client")), ckx(Share("client"), NoSecret)>>
dheRsaGenerateClient(theirs) ==
  <<Z(theirs, Share("client")), ckx(Share("client"), NoSecret)>>
pskGenerateClient == <<[psk |-> cli.psk], ckx(NoShare, NoSecret)>>
rsaPskGenerateClient ==
  <<[psk |-> cli.psk, with |-> RsaSecret], ckx(NoShare, RsaSecret)>>
dhePskGenerateClient(theirs) ==
  <<[psk |-> cli.psk, with |-> Z(theirs, Share("client"))],
    ckx(Share("client"), NoSecret)>>

generateClientKeyExchange(s, theirs) ==
  CASE ka(s) \in {"ecdhe", "ecdh_anon"} -> ecdheGenerateClient(theirs)
    [] ka(s) = "rsa" -> rsaGenerateClient
    [] ka(s) = "dhe" -> dheGenerateClient(theirs)
    [] ka(s) = "dhe_rsa" -> dheRsaGenerateClient(theirs)
    [] ka(s) = "psk" -> pskGenerateClient
    [] ka(s) = "rsa_psk" -> rsaPskGenerateClient
    [] ka(s) = "dhe_psk" -> dhePskGenerateClient(theirs)
ClientKeyMissing(s) ==
  ka(s) \in {"psk", "rsa_psk", "dhe_psk"} /\ cli.psk = "none"

(* Server: the same secret from ClientKeyExchange.  Only rsa_psk takes a  *)
(* missing GetPSKKey for granted.                                          *)
ecdheProcessClient(m) == Z(Share("server"), m.share)
rsaProcessClient(m) == m.secret
dheProcessClient(m) == Z(Share("server"), m.share)
dheRsaProcessClient(m) == Z(Share("server"), m.share)
pskProcessClient ==
  IF srv.psk = "none" THEN Bad("fail") ELSE [psk |-> srv.psk]
rsaPskProcessClient(m) ==
  IF srv.psk = "none" THEN Bad("panic")
  ELSE [psk |-> srv.psk, with |-> m.secret]
dhePskProcessClient(m) ==
  IF srv.psk = "none" THEN Bad("fail")
  ELSE [psk |-> srv.psk, with |-> Z(Share("server"), m.share)]

processClientKeyExchange(s, m) ==
  CASE ka(s) \in {"ecdhe", "ecdh_anon"} -> ecdheProcessClient(m)
    [] ka(s) = "rsa" -> rsaProcessClient(m)
    [] ka(s) = "dhe" -> dheProcessClient(m)
    [] ka(s) = "dhe_rsa" -> dheRsaProcessClient(m)
    [] ka(s) = "psk" -> pskProcessClient
    [] ka(s) = "rsa_psk" -> rsaPskProcessClient(m)
    [] ka(s) = "dhe_psk" -> dhePskProcessClient(m)

---------------------------------------------------------------------------
(* The record layer.                                                       *)

Half == [key |-> <<"plain">>, seq |-> 0, next |-> <<"none">>]
Conn(start) ==
  [pc |-> start, vers |-> 0, suite |-> "none", hello |-> NoMsg,
   master |-> NoMsg, in |-> Half, out |-> Half, hash |-> <<>>,
   buffering |-> FALSE, sendBuf |-> <<>>, resume |-> FALSE, ticket |-> FALSE,
   session |-> NoMsg, peer |-> "none", verified |-> FALSE, proto |-> "none"]

Ccs == [t |-> "ccs"]
Eof == [t |-> "eof"]
Alert == [t |-> "alert"]
NoNext == <<"none">>

\* changeCipherSpec: the next key, from its first record on.
Changed(h) == [key |-> h.next, seq |-> 0, next |-> NoNext]
AfterRecord(h, m) ==
  IF m = Ccs THEN Changed(h) ELSE [h EXCEPT !.seq = @ + 1]

Sealed(e, m) ==
  [m |-> m, vers |-> e.vers, key |-> e.out.key, seq |-> e.out.seq]
writeRecord(e, m) ==
  [e EXCEPT !.sendBuf = Append(@, Sealed(e, m)), !.out = AfterRecord(@, m)]
writeAll(e, ms) == FoldLeft(writeRecord, e, ms)

\* decrypt and the check of the version; the first hello has its own version.
Opens(e, r) ==
  /\ r.key = e.in.key /\ r.seq = e.in.seq
  /\ e.vers # 0 /\ r.vers # 0 => r.vers = e.vers

\* Handshake messages are hashed as they are sent and read; ccs and alerts
\* are not.
Hashed(ms) == LET NotCcs(m) == m # Ccs IN SelectSeq(ms, NotCcs)
Send(e, ms) == [writeAll(e, ms) EXCEPT !.hash = @ \o Hashed(ms)]
Heard(e, m) == [e EXCEPT !.hash = Append(@, m)]

\* An alert, flushed with what was buffered; then the user closes.
Failing(e) ==
  [writeRecord(e, Alert) EXCEPT !.pc = "failed", !.buffering = FALSE]
Panics(e) == [e EXCEPT !.pc = "panic", !.sendBuf = <<>>, !.buffering = FALSE]

\* Mutant: the buffer is written only when nothing is in it.
flushForgets(e) ==
  IF e.sendBuf = <<>> THEN [e EXCEPT !.buffering = FALSE] ELSE e

flush(e) == IF e.sendBuf = <<>> THEN e ELSE [e EXCEPT !.buffering = FALSE]

\* What leaves a side when a step has made e of it.
Leaves(e) ==
  (IF e.buffering THEN <<>> ELSE e.sendBuf)
    \o (IF e.pc \in {"failed", "panic"}
        THEN <<[Sealed(e, Eof) EXCEPT !.vers = 0]>> ELSE <<>>)
Kept(e) == IF e.buffering THEN e ELSE [e EXCEPT !.sendBuf = <<>>]

ClientStep(e) == cl' = Kept(e) /\ toS' = toS \o Leaves(e)
ServerStep(e) == sv' = Kept(e) /\ toC' = toC \o Leaves(e)

\* Over a broken transport a write may fail.
Outcomes(e) ==
  {e} \cup (IF cut /\ e.sendBuf # <<>> /\ ~e.buffering
            THEN {[e EXCEPT !.pc = "failed"]} ELSE {})

\* readRecord: the record is opened, or the handshake ends.
ClientReads == /\ toC # <<>> /\ toC' = Tail(toC)
               /\ UNCHANGED <<scene, n, srv, sv, cut>>
ServerReads == /\ toS # <<>> /\ toS' = Tail(toS)
               /\ UNCHANGED <<scene, n, srv, cl, cache, cut>>
Took(e) == [e EXCEPT !.in = [@ EXCEPT !.seq = @ + 1]]

\* handled is what the handshake makes of a message that is opened.
Received(e, r, handled) ==
  IF r.m \in {Eof, Alert} THEN [e EXCEPT !.pc = "failed"]
  ELSE IF ~Opens(e, r) THEN Failing(e)
  ELSE IF e.pc = "ccs" /\ r.m = Ccs
  THEN [e EXCEPT !.in = Changed(@), !.pc = "finished"]
  ELSE IF e.pc = "ccs" \/ r.m = Ccs THEN Failing(e)
  ELSE handled

---------------------------------------------------------------------------
(* Secrets and keys.                                                       *)

masterFrom(v, s, pre) == [vers |-> v, suite |-> s, pre |-> pre, n |-> n]
keyOf(side, e) == <<side, e.master, n>>
finishedSum(side, e) == [t |-> "finished", by |-> side, master |-> e.master,
                         hash |-> e.hash]

\* establishKeys.
WithKeys(e, mine, theirs) ==
  [e EXCEPT !.in.next = keyOf(theirs, e), !.out.next = keyOf(mine, e)]

---------------------------------------------------------------------------
(* clientHandshake.                                                        *)

ClientSuites ==
  LET Offered(s) == "tls12" \in flags(s) => cli.max >= TLS12
  IN SelectSeq(cli.suites, Offered)

\* A cached session is offered when its version and suite are still wanted.
Offered ==
  IF /\ cache # NoMsg /\ cache.suite \in ToSet(ClientSuites)
     /\ cache.vers \in cli.min..cli.max
  THEN cache ELSE NoMsg

ClientHello ==
  /\ cl.pc = "start"
  /\ LET hello == [t |-> "clientHello", vers |-> cli.max,
                   suites |-> ClientSuites, curves |-> cli.curves,
                   protos |-> cli.protos, tickets |-> cli.cache,
                   session |-> Offered, random |-> n]
     IN ClientStep([Send([cl EXCEPT !.hash = <<>>], <<hello>>)
                      EXCEPT !.pc = "hello", !.hello = hello])
  /\ UNCHANGED <<scene, n, srv, sv, toC, cache, cut>>

\* processServerHello, with the start of the handshake that follows.
HelloFails(h) ==
  LET v == mutualVersion(cli, h.vers) IN
  \/ v = 0 \/ h.suite \notin ToSet(cl.hello.suites)
  \/ h.proto # "none" /\ cli.protos = <<>>
  \/ h.resumes /\ (cl.hello.session.vers # v
                   \/ cl.hello.session.suite # h.suite)

AfterHello(e, h) ==
  LET s == e.hello.session
      known == [e EXCEPT !.vers = mutualVersion(cli, h.vers),
                         !.suite = h.suite, !.proto = h.proto,
                         !.ticket = h.ticket, !.resume = h.resumes,
                         !.buffering = TRUE, !.hash = Append(@, h)]
      resumed == [known EXCEPT !.master = s.master, !.peer = s.peer,
                               !.verified = s.verified]
  IN IF h.resumes
     THEN [WithKeys(resumed, "client", "server") EXCEPT
             !.pc = IF h.ticket THEN "ticket" ELSE "ccs"]
     ELSE [known EXCEPT !.pc = "certificate"]

readServerHello(e, m) ==
  IF m.t # "serverHello" THEN Failing(e)
  ELSE IF HelloFails(m) THEN Failing(e) ELSE AfterHello(e, m)

\* A stapled response is looked for one message too late.
AfterCertificate(e) ==
  [e EXCEPT !.pc = IF e.hash[2].staple THEN "dropped" ELSE "skx"]

readServerCertificate(e, m) ==
  IF cli.verify /\ m.chain \notin cli.roots THEN Failing(e)
  ELSE AfterCertificate([Heard(e, m) EXCEPT !.peer = m.chain,
                                            !.verified = cli.verify])

\* The client's flight: certificate, key exchange, proof, Finished.
ClientFlight(e, requested, share) ==
  LET mine == [t |-> "certificate", chain |-> cli.cert]
      kx == generateClientKeyExchange(e.suite, share)
      certs == Send(e, (IF requested THEN <<mine>> ELSE <<>>) \o <<kx[2]>>)
      proof == [t |-> "certVerify", by |-> cli.cert, over |-> certs.hash]
      proved == IF requested /\ cli.cert # "none"
                THEN Send(certs, <<proof>>) ELSE certs
      keyed == WithKeys([proved EXCEPT !.master =
                           masterFrom(e.vers, e.suite, kx[1])],
                        "client", "server")
      finished == Send(keyed, <<Ccs, finishedSum("client", keyed)>>)
  IN [flush(finished) EXCEPT !.pc = IF e.ticket THEN "ticket" ELSE "ccs"]

Requested(e) == \E i \in DOMAIN e.hash : e.hash[i].t = "certReq"
\* The share of the server's key exchange, if there was one.
TheirShare(e) ==
  LET I == {i \in DOMAIN e.hash : e.hash[i].t = "skx"}
  IN IF I = {} THEN NoShare ELSE e.hash[CHOOSE i \in I : TRUE].share

readServerHelloDone(e, m) ==
  IF m.t # "helloDone" \/ ClientKeyMissing(e.suite) THEN Failing(e)
  ELSE ClientFlight(Heard(e, m), Requested(e), TheirShare(e))

readCertificateRequest(e, m) ==
  IF m.t = "certReq" THEN [Heard(e, m) EXCEPT !.pc = "helloDone"]
  ELSE readServerHelloDone(e, m)

readServerKeyExchange(e, m) ==
  IF m.t # "skx" THEN readCertificateRequest(e, m)
  ELSE IF processServerKeyExchange(e.suite, e.peer, m)
  THEN [Heard(e, m) EXCEPT !.pc = "certReq"] ELSE Failing(e)

\* doFullHandshake: what the client does with message m at each point.
doFullHandshake(e, m) ==
  CASE e.pc = "certificate" /\ m.t = "certificate" ->
         readServerCertificate(e, m)
    [] e.pc = "certificate" /\ "nocerts" \in flags(e.suite) ->
         IF e.hash[2].staple THEN [e EXCEPT !.pc = "status"]
         ELSE readServerKeyExchange(e, m)
    [] e.pc = "dropped" -> [e EXCEPT !.pc = "status"]
    [] e.pc = "skx" -> readServerKeyExchange(e, m)
    [] e.pc = "certReq" -> readCertificateRequest(e, m)
    [] e.pc = "helloDone" -> readServerHelloDone(e, m)
    [] OTHER -> Failing(e)

ClientFinished(e) ==
  IF ~e.resume THEN [e EXCEPT !.pc = "done"]
  ELSE [flush(Send(e, <<Ccs, finishedSum("client", e)>>)) EXCEPT !.pc = "done"]

\* readSessionTicket, readFinished and, in a resumption, sendFinished.
readTicket(e, m) ==
  IF m.t # "ticket" THEN Failing(e)
  ELSE [Heard(e, m) EXCEPT !.pc = "ccs",
          !.session = [vers |-> e.vers, suite |-> e.suite, master |-> e.master,
                       peer |-> e.peer, verified |-> e.verified,
                       sealed |-> m.sealed]]
readServerFinished(e, m) ==
  IF m.t # "finished" THEN Failing(e)
  ELSE IF m # finishedSum("server", e) THEN Failing(e)
  ELSE ClientFinished(Heard(e, m))

ClientHandshake(e, m) ==
  CASE e.pc = "hello" -> readServerHello(e, m)
    [] e.pc = "ticket" -> readTicket(e, m)
    [] e.pc = "finished" -> readServerFinished(e, m)
    [] OTHER -> doFullHandshake(e, m)

\* A side that still reads.
Busy(e) == e.pc \notin {"start", "done", "failed", "panic"}

\* A new session is put into the cache when the handshake is complete.
ClientReceives ==
  /\ Busy(cl) /\ ClientReads
  /\ \E e \in Outcomes(Received(cl, Head(toC),
                      ClientHandshake(Took(cl), Head(toC).m))) :
        /\ ClientStep(e)
        /\ cache' = IF e.pc = "done" /\ cli.cache /\ e.session # NoMsg
                    THEN e.session ELSE cache

---------------------------------------------------------------------------
(* serverHandshake.                                                        *)

\* Any of the ticket keys opens a ticket; no ticket does not open.
decryptTicket(session) ==
  session # NoMsg /\ session.sealed.key \in ToSet(srv.keys)
usedOldKey(ticket) == ticket.key # srv.keys[1]

\* Can the client's ticket be opened, and its suite still be used?  The
\* suite is set by this check, whatever the ones after it say.
TicketOpens(m, v) ==
  /\ srv.tickets /\ decryptTicket(m.session)
  /\ LET t == m.session.sealed IN
       /\ t.vers = v /\ t.suite \in ToSet(m.suites)
       /\ setCipherSuite(t.suite, srv.suites, m, v)

\* Mutant: a session without certificates is resumed for a server that
\* requires one.
checkForResumptionAny(m, v) ==
  TicketOpens(m, v) /\ (m.session.sealed.certs # "none" => srv.auth # 0)

checkForResumption(m, v) ==
  /\ TicketOpens(m, v)
  /\ LET has == m.session.sealed.certs # "none" IN
       /\ srv.auth \in {2, 4} => has
       /\ has => srv.auth # 0

\* encryptTicket, with the newest key.
Ticket(e) ==
  [t |-> "ticket",
   sealed |-> [key |-> srv.keys[1], vers |-> e.vers, suite |-> e.suite,
               master |-> e.master, certs |-> e.peer]]
sendSessionTicket(e) == IF e.ticket THEN Send(e, <<Ticket(e)>>) ELSE e
sendFinished(e) == Send(e, <<Ccs, finishedSum("server", e)>>)

\* processCertsFromClient: verified from VerifyClientCertIfGiven on.
CertsRefused(chain) ==
  chain # "none" /\ srv.auth >= 3 /\ chain \notin srv.roots
WithCerts(e, chain) ==
  [e EXCEPT !.peer = chain, !.verified = srv.auth >= 3 /\ chain # "none"]

serverHello(e) ==
  [t |-> "serverHello", vers |-> e.vers, suite |-> e.suite, proto |-> e.proto,
   resumes |-> e.resume, ticket |-> e.ticket, random |-> n,
   staple |-> ~e.resume /\ srv.cert # "none" /\ srv.staple]

doResumeHandshake(e, m) ==
  LET old == m.session.sealed
      e1 == [e EXCEPT !.suite = old.suite, !.resume = TRUE,
                      !.ticket = usedOldKey(old),
                      !.master = old.master]
      e2 == Send(e1, <<serverHello(e1)>>)
      keyed == WithKeys(WithCerts(e2, old.certs), "server", "client")
  IN IF CertsRefused(old.certs) THEN Failing(e2)
     ELSE [flush(sendFinished(sendSessionTicket(keyed))) EXCEPT !.pc = "ccs"]

\* The server's flight, up to ServerHelloDone.
ServerFlight(e, m) ==
  LET e1 == [e EXCEPT !.ticket = m.tickets /\ srv.tickets]
      hello == serverHello(e1)
      chain == [t |-> "certificate", chain |-> srv.cert]
      certs == IF "nocerts" \in flags(e.suite) THEN <<>> ELSE <<chain>>
      status == IF hello.staple THEN <<[t |-> "status"]>> ELSE <<>>
      kx == generateServerKeyExchange(e.suite, m)
      req == IF srv.auth >= 1 THEN <<[t |-> "certReq"]>> ELSE <<>>
      e2 == Send(e1, <<hello>> \o certs \o status)
  IN IF kx.t = "fail" THEN Failing(e2)
     ELSE IF kx.t = "panic" THEN Panics(e2)
     ELSE [flush(Send(e2, (IF kx = NoMsg THEN <<>> ELSE <<kx>>) \o req
                           \o <<[t |-> "helloDone"]>>)) EXCEPT
             !.pc = IF srv.auth >= 1 THEN "certificate" ELSE "ckx"]

readClientHello(e, m) ==
  LET v == mutualVersion(srv, m.vers)
      id == chooseSuite(m, v)
      known == [e EXCEPT !.vers = v, !.hello = m, !.hash = <<m>>,
                         !.proto = mutual(srv.protos, m.protos),
                         !.buffering = TRUE,
                         !.suite = IF TicketOpens(m, v)
                                   THEN m.session.sealed.suite ELSE id]
  IN IF m.t # "clientHello" THEN Failing(e)
     ELSE IF v = 0 \/ id = "none" THEN Failing([e EXCEPT !.vers = v])
     ELSE IF checkForResumption(m, v) THEN doResumeHandshake(known, m)
     ELSE ServerFlight(known, m)

readClientCertificate(e, m) ==
  IF \/ m.t # "certificate"
     \/ m.chain = "none" /\ srv.auth \in {2, 4}
     \/ CertsRefused(m.chain)
  THEN Failing(e)
  ELSE [WithCerts(Heard(e, m), m.chain) EXCEPT !.pc = "ckx"]

Keyed(e) == [WithKeys(e, "server", "client") EXCEPT !.pc = "ccs"]

readClientKeyExchange(e, m) ==
  LET pre == processClientKeyExchange(e.suite, m)
      known == [Heard(e, m) EXCEPT !.master = masterFrom(e.vers, e.suite, pre)]
  IN IF m.t # "ckx" THEN Failing(e)
     ELSE IF pre = Bad("fail") THEN Failing(e)
     ELSE IF pre = Bad("panic") THEN Panics(e)
     ELSE IF e.peer # "none" THEN [known EXCEPT !.pc = "certVerify"]
     ELSE Keyed(known)

readCertificateVerify(e, m) ==
  IF m.t = "certVerify" /\ m.by = e.peer /\ m.over = e.hash
  THEN Keyed(Heard(e, m)) ELSE Failing(e)

\* readFinished; after a full handshake the server's last flight.
readClientFinished(e, m) ==
  IF m.t # "finished" THEN Failing(e)
  ELSE IF m # finishedSum("client", e) THEN Failing(e)
  ELSE LET heard == Heard(e, m)
           last == sendFinished(sendSessionTicket(
                     [heard EXCEPT !.buffering = TRUE]))
       IN [IF e.resume THEN heard ELSE flush(last) EXCEPT !.pc = "done"]

ServerHandshake(e, m) ==
  CASE e.pc = "clientHello" -> readClientHello(e, m)
    [] e.pc = "certificate" -> readClientCertificate(e, m)
    [] e.pc = "ckx" -> readClientKeyExchange(e, m)
    [] e.pc = "certVerify" -> readCertificateVerify(e, m)
    [] e.pc = "finished" -> readClientFinished(e, m)

ServerReceives ==
  /\ Busy(sv) /\ ServerReads
  /\ \E e \in Outcomes(Received(sv, Head(toS),
                      ServerHandshake(Took(sv), Head(toS).m))) :
        ServerStep(e)

---------------------------------------------------------------------------
(* The transport, and one connection after another.                        *)

Broken(wire) ==
  {SubSeq(wire, 1, i) \o <<[Sealed(cl, Eof) EXCEPT !.vers = 0]>> :
     i \in 0..Len(wire)}

Cut ==
  /\ ~cut /\ cut' = TRUE
  /\ Busy(cl) \/ Busy(sv)
  /\ toC' \in Broken(toC) /\ toS' \in Broken(toS)
  /\ UNCHANGED <<scene, n, srv, cl, sv, cache>>

Over(e) == e.pc \in {"done", "failed", "panic"}

Fresh == /\ cl' = Conn("start") /\ sv' = Conn("clientHello")
         /\ toC' = <<>> /\ toS' = <<>> /\ cut' = FALSE

Again ==
  /\ Over(cl) /\ Over(sv) /\ n < MaxConns
  /\ n' = n + 1 /\ srv' \in scene.servers
  /\ Fresh
  /\ UNCHANGED <<scene, cache>>

Init ==
  /\ scene \in Scenarios /\ srv \in scene.servers
  /\ n = 1 /\ cache = NoMsg
  /\ cl = Conn("start") /\ sv = Conn("clientHello")
  /\ toC = <<>> /\ toS = <<>> /\ cut = FALSE

Next == ClientHello \/ ClientReceives \/ ServerReceives \/ Cut \/ Again
Spec == Init /\ [][Next]_tlsVars

---------------------------------------------------------------------------
(* Properties.                                                             *)

Done(e) == e.pc = "done"
Quiet == toC = <<>> /\ toS = <<>>

TypeOK ==
  /\ n \in 1..MaxConns /\ srv \in scene.servers /\ cut \in BOOLEAN
  /\ \A e \in {cl, sv} : e.suite \in DOMAIN cipherSuites \cup {"none"}

\* Two sides that are done agree on everything, and their record layers are
\* in step.
SidesAgree ==
  Done(cl) /\ Done(sv) =>
    /\ cl.vers = sv.vers /\ cl.suite = sv.suite /\ cl.proto = sv.proto
    /\ cl.master = sv.master /\ cl.resume = sv.resume
    /\ cl.hash = sv.hash
    /\ Quiet => cl.in = sv.out /\ cl.out = sv.in
    /\ cl.in.key = keyOf("server", cl) /\ sv.in.key = keyOf("client", sv)

\* Who reads the last Finished is done last.
LastIsDone ==
  /\ Done(cl) /\ ~cl.resume => Done(sv)
  /\ Done(sv) /\ sv.resume => Done(cl)

\* What was chosen both sides allow, and a resumed secret is an older one.
WithinConfigs ==
  Done(cl) =>
    /\ cl.suite \in ToSet(cli.suites) \cap ToSet(srv.suites)
    /\ cl.vers \in (cli.min..cli.max) \cap (srv.min..srv.max)
    /\ "tls12" \in flags(cl.suite) => cl.vers >= TLS12
    /\ cl.proto = mutual(srv.protos, cli.protos)
    /\ cl.resume <=> cl.master.n < n

\* What each Config asks of the other's certificate holds, resumed or not.
PeersProven ==
  /\ Done(sv) =>
       /\ srv.auth = 0 => sv.peer = "none"
       /\ srv.auth \in {2, 4} => sv.peer # "none"
       /\ srv.auth >= 3 /\ sv.peer # "none" => sv.peer \in srv.roots
       /\ sv.peer \in {"none", cli.cert}
  /\ Done(cl) /\ "nocerts" \notin flags(cl.suite) =>
       cl.peer # "none" /\ (cli.verify => cl.peer \in cli.roots)

\* What clientHandshake and serverHandshake are for: two sides that return
\* without an error share version, suite, protocol, secret and keys, within
\* what both were configured to accept, over any sequence of connections.
TlsAgree == TypeOK /\ SidesAgree /\ LastIsDone /\ WithinConfigs /\ PeersProven

\* Nobody waits for a record that nobody will send.
NoStall == Quiet /\ cl.pc # "start" => Over(cl) /\ Over(sv)

\* What must be wrong with the two Configs for a handshake to fail.
Chosen == IF sv.suite # "none" THEN sv.suite
          ELSE chooseSuite(cl.hello, mutualVersion(srv, cli.max))
NoVersion == \/ mutualVersion(srv, cli.max) = 0
             \/ mutualVersion(cli, mutualVersion(srv, cli.max)) = 0
PskWrong == /\ ka(Chosen) \in {"psk", "rsa_psk", "dhe_psk"}
            /\ cli.psk = "none" \/ srv.psk # cli.psk
PrimeWrong == "dhe" \in flags(Chosen) /\ srv.dh = "short"
CurveWrong == /\ "ecdhe" \in flags(Chosen)
              /\ \/ ~curveForCurveID(curve(cl.hello))
                 \/ Chosen = "ecdh_anon" /\ srv.cert # "ecdsa"
ClientCertWrong ==
  \/ cli.cert = "none" /\ srv.auth \in {2, 4}
  \/ cli.cert # "none" /\ srv.auth >= 3 /\ cli.cert \notin srv.roots
ServerCertWrong ==
  /\ srv.cert # "none"
  /\ srv.staple \/ (cli.verify /\ srv.cert \notin cli.roots)
FailsForAReason ==
  cl.pc \in {"failed", "panic"} \/ sv.pc \in {"failed", "panic"} =>
    \/ cut \/ NoVersion \/ Chosen = "none"
    \/ PskWrong \/ PrimeWrong \/ CurveWrong
    \/ ClientCertWrong \/ ServerCertWrong

\* clientHandshake and serverHandshake never wait for each other, and two
\* Configs that fit make a connection unless the transport breaks: what the
\* session cache or the ticket keys hold never makes a handshake fail.
TlsEnds == NoStall /\ FailsForAReason
=============================================================================
