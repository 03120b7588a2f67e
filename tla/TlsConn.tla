------------------------------- MODULE TlsConn -------------------------------
(***************************************************************************)
(* The calls of a TLS connection of internal/tls_hack that goroutines make *)
(* at the same time: Read, Write, Close and the Handshake that the first   *)
(* of them runs (conn.go), with the mutexes handshakeMutex, in and out,    *)
(* the condition variable of a running handshake, and the counter that     *)
(* lets Close break a Write.  What a handshake does is in TlsHandshake.    *)
(***************************************************************************)
EXTENDS Naturals, FiniteSets, Sequences

CONSTANTS Writers,      \* goroutines that call Write once
          MaxMessages   \* bound: messages that the peer sends

Procs == {"reader", "closer"} \cup Writers
Free == "free"

VARIABLES
  at,        \* [goroutine -> where it is]
  hsMutex, inMutex, outMutex,    \* the holder, or Free
  committed, \* handshakeCond is set: someone will run the handshake
  complete, hsErr, inErr, outErr,
  active,    \* the Writes in flight; closed: the low bit of activeCall
  closed,
  connOpen,  \* the underlying connection, on our side
  peer,      \* "there", "silent" or "gone"
  in,        \* what the peer sent: "flight", "data", "hello", "notify"
  full,      \* the socket takes no more data
  notified,  \* closeNotifySent
  log,       \* the records that went out from the first alert on, which may
             \* be a close_notify: "alert", "notify" and "data"
  flushFailed, renegotiation, messages

locks == <<hsMutex, inMutex, outMutex>>
hsVars == <<committed, complete, hsErr, flushFailed>>
errs == <<inErr, outErr>>
calls == <<active, closed>>
net == <<connOpen, peer, in, full, messages>>
outLog == <<notified, log>>
vars == <<at, locks, hsVars, errs, calls, net, outLog, renegotiation>>

Init ==
  /\ at = [p \in Procs |-> "idle"]
  /\ hsMutex = Free /\ inMutex = Free /\ outMutex = Free
  /\ committed = FALSE /\ complete = FALSE /\ hsErr = FALSE
  /\ inErr = FALSE /\ outErr = FALSE
  /\ active = 0 /\ closed = FALSE /\ connOpen = TRUE /\ peer = "there"
  /\ in = "none" /\ full = FALSE /\ notified = FALSE /\ log = <<>>
  /\ flushFailed = FALSE /\ messages = 0
  /\ renegotiation \in {"never", "freely"}

Goes(p, to) == at' = [at EXCEPT ![p] = to]

\* The deferred calls of Write run when it returns.
Returns(p, to) ==
  /\ Goes(p, to)
  /\ active' = IF p \in Writers THEN active - 1 ELSE active
  /\ UNCHANGED closed

\* A record for the socket, if it is still there; data before any alert is
\* of no interest.
Sends(record) ==
  log' = IF connOpen /\ peer # "gone" /\ (record = "data" => log # <<>>)
         THEN Append(log, record) ELSE log

\* sendAlert takes the lock of out and asks for nothing else; the error that
\* it leaves there stops every Write to come.
sendAlert ==
  /\ outMutex = Free /\ (~full \/ ~connOpen)
  /\ Sends("alert") /\ outErr' = TRUE

---------------------------------------------------------------------------
(* Handshake, for Read and Write.                                          *)

Users == {"reader"} \cup Writers
Work(p) == IF p = "reader" THEN "wantIn" ELSE "wantOut"

\* Returns at once, waits for the one who runs it, or commits to run it.
\* cond.Wait is left when the handshake ends, to look again.
Handshake(p) ==
  /\ at[p] = "wantHandshake" /\ hsMutex = Free
  /\ \/ hsErr /\ Returns(p, "failed") /\ UNCHANGED committed
     \/ /\ ~hsErr /\ complete
        /\ Goes(p, Work(p)) /\ UNCHANGED <<committed, calls>>
     \/ /\ ~hsErr /\ ~complete /\ committed
        /\ Goes(p, "waits") /\ UNCHANGED <<committed, calls>>
     \/ /\ ~hsErr /\ ~complete /\ ~committed
        /\ Goes(p, "hs.wantIn") /\ committed' = TRUE /\ UNCHANGED calls
  /\ UNCHANGED <<locks, complete, hsErr, flushFailed, errs, net, outLog,
                 renegotiation>>

LockIn(p) ==
  /\ at[p] = "hs.wantIn" /\ inMutex = Free
  /\ inMutex' = p /\ Goes(p, "hs.wantMutex")
  /\ UNCHANGED <<hsMutex, outMutex, hsVars, errs, calls, net, outLog,
                 renegotiation>>

LockMutex(p) ==
  /\ at[p] = "hs.wantMutex" /\ hsMutex = Free
  /\ hsMutex' = p /\ Goes(p, "hs.runs")
  /\ UNCHANGED <<inMutex, outMutex, hsVars, errs, calls, net, outLog,
                 renegotiation>>

Woken(to, p) ==
  at' = [q \in Procs |-> IF q = p THEN to
                         ELSE IF at[q] = "waits" THEN "wantHandshake"
                         ELSE at[q]]

\* clientHandshake or serverHandshake has a result; the waiters are woken.
HandshakeOk(p) ==
  /\ at[p] = "hs.runs" /\ connOpen /\ in = "flight"
  /\ in' = "none" /\ complete' = TRUE /\ committed' = FALSE
  /\ Woken(Work(p), p)
  /\ hsMutex' = Free /\ inMutex' = Free
  /\ UNCHANGED <<outMutex, hsErr, flushFailed, errs, calls, connOpen, peer,
                 full, messages, outLog, renegotiation>>

\* It fails on what came, with an alert unless that was a close_notify, or on
\* the connection.  What is left in the buffer, if anything, is flushed, and
\* when that fails the call returns at once.
HandshakeFails(p) ==
  /\ at[p] = "hs.runs"
  /\ \/ ~connOpen \/ peer = "gone" \/ in \in {"data", "hello", "notify"}
  /\ hsErr' = TRUE
  /\ IF connOpen /\ in \in {"data", "hello"} THEN sendAlert
     ELSE UNCHANGED <<log, outErr>>
  /\ \/ /\ ~connOpen \/ peer = "gone"
        /\ flushFailed' = TRUE /\ Goes(p, "failed") /\ UNCHANGED committed
     \/ /\ committed' = FALSE /\ UNCHANGED flushFailed
        /\ Woken("failed", p)
  /\ active' = IF p \in Writers THEN active - 1 ELSE active
  /\ hsMutex' = Free /\ inMutex' = Free
  /\ UNCHANGED <<outMutex, complete, inErr, closed, net, notified,
                 renegotiation>>

---------------------------------------------------------------------------
(* Read                                                                    *)

CallRead ==
  /\ at["reader"] = "idle" /\ Goes("reader", "wantHandshake")
  /\ UNCHANGED <<locks, hsVars, errs, calls, net, outLog, renegotiation>>

ReadLocks ==
  /\ at["reader"] = "wantIn" /\ inMutex = Free
  /\ inMutex' = "reader" /\ Goes("reader", "reads")
  /\ UNCHANGED <<hsMutex, outMutex, hsVars, errs, calls, net, outLog,
                 renegotiation>>

\* Data is returned; the end of the connection is an error that stays; a
\* HelloRequest starts another handshake or is refused with an alert.
Read ==
  /\ at["reader"] = "reads"
  /\ \/ /\ connOpen /\ in = "data" /\ ~inErr
        /\ in' = "none" /\ Goes("reader", "idle") /\ inMutex' = Free
        /\ UNCHANGED inErr
     \/ /\ \/ inErr \/ ~connOpen \/ in = "notify"
           \/ peer = "gone" /\ in = "none"
        /\ inErr' = TRUE /\ Goes("reader", "failed") /\ inMutex' = Free
        /\ UNCHANGED in
     \/ /\ connOpen /\ in = "hello" /\ ~inErr
        /\ in' = "none" /\ UNCHANGED <<inErr, inMutex>>
        /\ Goes("reader", IF renegotiation = "never" THEN "alert.wantOut"
                          ELSE "re.wantMutex")
     \/ /\ connOpen /\ in = "flight" /\ ~inErr   \* out of turn: an alert
        /\ in' = "none" /\ UNCHANGED <<inErr, inMutex>>
        /\ Goes("reader", "alert.wantOut")
  /\ UNCHANGED <<hsMutex, outMutex, hsVars, outErr, calls, connOpen, peer,
                 full, messages, outLog, renegotiation>>

\* Read sends its alert, which may come after the close_notify of Close, and
\* returns the error; readRecord keeps it, handleRenegotiation does not.
SendAlert ==
  /\ at["reader"] = "alert.wantOut" /\ sendAlert
  /\ inErr' \in IF renegotiation = "never" THEN {TRUE} ELSE BOOLEAN
  /\ Goes("reader", "failed") /\ inMutex' = Free
  /\ UNCHANGED <<hsMutex, outMutex, hsVars, calls, net, notified,
                 renegotiation>>

\* handleRenegotiation
Renegotiate ==
  /\ at["reader"] = "re.wantMutex" /\ hsMutex = Free
  /\ hsMutex' = "reader" /\ complete' = FALSE /\ Goes("reader", "re.runs")
  /\ UNCHANGED <<inMutex, outMutex, committed, hsErr, flushFailed, errs,
                 calls, net, outLog, renegotiation>>

Renegotiated ==
  /\ at["reader"] = "re.runs"
  /\ \/ /\ connOpen /\ in = "flight" /\ in' = "none"
        /\ complete' = TRUE /\ Goes("reader", "reads")
        /\ UNCHANGED <<hsErr, inMutex, log, outErr>>
     \/ /\ ~connOpen \/ peer = "gone" \/ in \in {"data", "hello", "notify"}
        /\ IF connOpen /\ in \in {"data", "hello"} THEN sendAlert
           ELSE UNCHANGED <<log, outErr>>
        /\ hsErr' = TRUE /\ Goes("reader", "failed") /\ inMutex' = Free
        /\ UNCHANGED <<complete, in>>
  /\ hsMutex' = Free
  /\ UNCHANGED <<outMutex, committed, flushFailed, inErr, calls, connOpen,
                 peer, full, messages, notified, renegotiation>>

---------------------------------------------------------------------------
(* Write                                                                   *)

CallWrite(p) ==
  /\ at[p] = "idle"
  /\ IF closed THEN Goes(p, "failed") /\ UNCHANGED calls
     ELSE /\ Goes(p, "wantHandshake")
          /\ active' = active + 1 /\ UNCHANGED closed
  /\ UNCHANGED <<locks, hsVars, errs, net, outLog, renegotiation>>

\* The checks under the lock; handshakeComplete may have become false again.
WriteLocks(p) ==
  /\ at[p] = "wantOut" /\ outMutex = Free
  /\ IF outErr \/ ~complete \/ notified
     THEN Returns(p, "failed") /\ UNCHANGED outMutex
     ELSE Goes(p, "writes") /\ outMutex' = p /\ UNCHANGED calls
  /\ UNCHANGED <<hsMutex, inMutex, hsVars, errs, net, outLog, renegotiation>>

Write(p) ==
  /\ at[p] = "writes"
  /\ \/ /\ connOpen /\ ~full /\ peer # "gone"
        /\ Sends("data") /\ Returns(p, "done") /\ UNCHANGED outErr
     \/ /\ ~connOpen \/ peer = "gone"
        /\ outErr' = TRUE /\ Returns(p, "failed") /\ UNCHANGED log
  /\ outMutex' = Free
  /\ UNCHANGED <<hsMutex, inMutex, hsVars, inErr, net, notified,
                 renegotiation>>

---------------------------------------------------------------------------
(* Close                                                                   *)

\* A mutation: Close always says goodbye first.
CallCloseWaits ==
  /\ at["closer"] = "idle" /\ closed' = TRUE /\ Goes("closer", "wantMutex")
  /\ UNCHANGED <<locks, hsVars, errs, active, net, outLog, renegotiation>>

\* With a Write in flight the connection is closed under it.
CallClose ==
  /\ at["closer"] = "idle" /\ closed' = TRUE
  /\ IF active # 0 THEN connOpen' = FALSE /\ Goes("closer", "done")
     ELSE Goes("closer", "wantMutex") /\ UNCHANGED connOpen
  /\ UNCHANGED <<locks, hsVars, errs, active, peer, in, full, messages,
                 outLog, renegotiation>>

CloseLocks ==
  /\ at["closer"] = "wantMutex" /\ hsMutex = Free
  /\ hsMutex' = "closer"
  /\ Goes("closer", IF complete THEN "wantOut" ELSE "closes")
  /\ UNCHANGED <<inMutex, outMutex, hsVars, errs, calls, net, outLog,
                 renegotiation>>

closeNotify ==
  /\ at["closer"] = "wantOut" /\ outMutex = Free
  /\ ~full \/ ~connOpen
  /\ notified' = TRUE /\ Goes("closer", "closes")
  /\ IF notified THEN UNCHANGED log ELSE Sends("notify")
  /\ UNCHANGED <<locks, hsVars, errs, calls, net, renegotiation>>

Close ==
  /\ at["closer"] = "closes"
  /\ connOpen' = FALSE /\ hsMutex' = Free /\ Goes("closer", "done")
  /\ UNCHANGED <<inMutex, outMutex, hsVars, errs, calls, peer, in, full,
                 messages, outLog, renegotiation>>

---------------------------------------------------------------------------
(* The peer and the network (external).                                    *)

Peer ==
  /\ peer = "there"
  /\ \/ /\ in = "none" /\ messages < MaxMessages
        /\ in' \in {"flight", "data", "hello", "notify"}
        /\ messages' = messages + 1 /\ UNCHANGED <<peer, full>>
     \/ /\ peer' \in {"silent", "gone"}
        /\ UNCHANGED <<in, full, messages>>
     \/ /\ full' = ~full
        /\ UNCHANGED <<in, peer, messages>>
  /\ UNCHANGED <<at, locks, hsVars, errs, calls, connOpen, outLog,
                 renegotiation>>

Calls ==
  \/ \E p \in Users : \/ Handshake(p) \/ LockIn(p) \/ LockMutex(p)
                      \/ HandshakeOk(p) \/ HandshakeFails(p)
  \/ ReadLocks \/ Read \/ SendAlert \/ Renegotiate \/ Renegotiated
  \/ \E p \in Writers : WriteLocks(p) \/ Write(p)
  \/ CloseLocks \/ closeNotify \/ Close

Next == Calls \/ CallRead \/ CallClose \/ Peer
        \/ \E p \in Writers : CallWrite(p)

Spec == Init /\ [][Next]_vars

---------------------------------------------------------------------------
Idle(p) == at[p] \in {"idle", "done", "failed"}
AtNetwork(p) ==
  \/ at[p] \in {"hs.runs", "re.runs", "reads", "writes"}
  \/ at[p] \in {"alert.wantOut", "wantOut"} /\ full

\* A waiter that nobody will wake: the handshake that it waits for is over.
Forgotten(p) ==
  at[p] = "waits" /\ ~\E q \in Users : at[q] \in {"hs.wantIn",
                                          "hs.wantMutex", "hs.runs"}

\* The panics of Handshake cannot happen: who committed to run it is alone.
HandshakeAlone ==
  /\ \A p \in Users : at[p] = "hs.wantMutex" => ~hsErr /\ ~complete
  /\ Cardinality({p \in Users : at[p] \in {"hs.wantIn", "hs.wantMutex",
                                           "hs.runs"}}) <= 1

\* A goroutine waits for a handshake that is over only when the flush of
\* its last alert failed (the early return in Handshake).
WaitersWoken == \A p \in Users : Forgotten(p) => flushFailed

\* Nobody waits for anybody: when no call can go on, one of them is at the
\* network, and once the connection is closed all calls have returned, but
\* for those that were forgotten.
NoDeadlock ==
  ~ENABLED Calls =>
    /\ \/ \A p \in Procs : Idle(p) \/ at[p] = "waits"
       \/ \E p \in Procs : AtNetwork(p)
    /\ ~connOpen => \A p \in Procs : Idle(p) \/ Forgotten(p)

\* Close closes: when no call can go on, a Close that was called has closed
\* the connection, unless a handshake, or its own close_notify, waits for
\* the peer.  It never waits for a Write (the interlock with activeCall).
CloseBreaksWrite ==
  ~ENABLED Calls /\ at["closer"] # "idle" =>
    \/ ~connOpen
    \/ \E p \in Users : at[p] \in {"hs.runs", "re.runs"}
    \/ at["closer"] = "wantOut" /\ outMutex = Free /\ full

\* No data follows close_notify or an alert, each is sent at most once, and
\* no third record comes.  An alert may follow close_notify: sendAlert does
\* not ask for closeNotifySent as Write does.
LastWords ==
  log \in {<<>>, <<"alert">>, <<"notify">>, <<"alert", "notify">>,
           <<"notify", "alert">>}

ConnSafe == /\ HandshakeAlone /\ WaitersWoken /\ NoDeadlock
            /\ CloseBreaksWrite /\ LastWords
=============================================================================
