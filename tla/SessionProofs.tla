---------------------------- MODULE SessionProofs ----------------------------
(***************************************************************************)
(* The two sessions of a client that stand on their own.                   *)
(*                                                                         *)
(* A TLS connection, for any number of goroutines that write to it: one of *)
(* them at most runs the handshake, those that wait for it are woken when  *)
(* it ends, and no data follows close_notify or an alert on the wire.      *)
(*                                                                         *)
(* A NETCONF session, for any number of requests, any replies, any chunks  *)
(* and any cut of the stream: each call gets its own reply until one       *)
(* fails, and the replies always come whole and in their order.            *)
(***************************************************************************)
EXTENDS TlsConn, NetconfSession, FiniteSetTheorems, DataLemmas

---------------------------------------------------------------------------
(* The TLS connection.                                                     *)

\* The names of the other goroutines, and of nobody, are not those of writers.
WritersApart == Writers \cap {"reader", "closer", Free} = {}

Runner(q) == at[q] \in {"hs.wantIn", "hs.wantMutex", "hs.runs"}

Places ==
  {"idle", "wantHandshake", "waits", "hs.wantIn", "hs.wantMutex", "hs.runs",
   "wantIn", "reads", "alert.wantOut", "re.wantMutex", "re.runs", "wantOut",
   "writes", "wantMutex", "closes", "failed", "done"}

Types ==
  /\ at \in [Procs -> Places]
  /\ committed \in BOOLEAN /\ complete \in BOOLEAN /\ hsErr \in BOOLEAN
  /\ flushFailed \in BOOLEAN /\ notified \in BOOLEAN
  /\ outErr \in BOOLEAN

\* A running handshake has no result yet, and nobody else runs one.
RunnerInv ==
  \A p \in Users : Runner(p) =>
    /\ committed /\ ~hsErr /\ ~complete
    /\ \A q \in Users : Runner(q) => q = p
    /\ at[p] = "hs.runs" => hsMutex = p

\* Read works on a connection whose handshake is complete; while it
\* negotiates anew it keeps the others out.
ReaderInv ==
  /\ at["reader"] \in {"wantIn", "reads", "alert.wantOut", "re.wantMutex"} =>
       complete
  /\ at["reader"] = "re.runs" =>
       hsMutex = "reader" /\ ~complete /\ \A q \in Users : ~Runner(q)

\* Who committed to run the handshake does, or has left it by the early return.
WaitInv ==
  committed \/ (\E p \in Users : at[p] = "waits") =>
    flushFailed \/ \E q \in Users : Runner(q)

CloserInv ==
  /\ at["closer"] \in {"wantOut", "closes"} => hsMutex = "closer"
  /\ notified => at["closer"] \in {"closes", "done"}

WriteInv ==
  \A p \in Writers :
    at[p] = "writes" => outMutex = p /\ ~notified /\ ~outErr

\* What an alert and a close_notify on the wire leave behind: the error of
\* out, and a handshake or a reader that has failed.
Alerted == log \notin {<<>>, <<"notify">>}
Noticed == log \notin {<<>>, <<"alert">>}
LogInv ==
  /\ LastWords
  /\ Alerted => /\ outErr
                /\ hsErr \/ (complete /\ at["reader"] = "failed")
  /\ Noticed => notified
  /\ hsErr => ~complete /\ at["reader"] # "re.runs"

IInv == /\ Types /\ RunnerInv /\ ReaderInv /\ WaitInv /\ CloserInv
        /\ WriteInv /\ LogInv

\* A set without two elements has at most one.
LEMMA OneRunner == ASSUME RunnerInv PROVE HandshakeAlone
<1> DEFINE R == {p \in Users : at[p] \in {"hs.wantIn", "hs.wantMutex",
                                         "hs.runs"}}
<1>1. ASSUME NEW p \in R
      PROVE  R = {p}
  BY <1>1 DEF RunnerInv, Runner
<1> HIDE DEF R
<1>2. Cardinality(R) <= 1
  <2>1. CASE R = {}
    BY <2>1, FS_EmptySet
  <2>2. CASE R # {}
    <3>1. PICK p \in R : R = {p}
      BY <2>2, <1>1
    <3>2. Cardinality({p}) = 1
      BY FS_Singleton
    <3> QED BY <3>1, <3>2
  <2> QED BY <2>1, <2>2
<1> QED BY <1>2 DEF R, RunnerInv, Runner, HandshakeAlone

\* What goes out makes one of the few logs that LastWords knows.
LEMMA LogKept ==
  ASSUME log' = log
  PROVE  /\ LastWords' <=> LastWords
         /\ Alerted' <=> Alerted
         /\ Noticed' <=> Noticed
BY DEF LastWords, Alerted, Noticed

LEMMA LogEmpty ==
  ASSUME log = <<>>
  PROVE  LastWords /\ ~Alerted /\ ~Noticed
BY DEF LastWords, Alerted, Noticed

LEMMA TwoRecords ==
  ASSUME NEW a, NEW b PROVE Append(<<a>>, b) = <<a, b>>
<1> DEFINE s == Append(<<a>>, b)
<1>1. <<a>> \in Seq({a, b}) /\ <<a, b>> \in Seq({a, b})
  OBVIOUS
<1>2. s \in Seq({a, b}) /\ Len(s) = 2 /\ s[1] = a /\ s[2] = b
  BY <1>1, AppendProperties
<1>3. <<a, b>>[1] = a /\ <<a, b>>[2] = b /\ Len(<<a, b>>) = 2
  OBVIOUS
<1> HIDE DEF s
<1>4. s = <<a, b>>
  BY <1>1, <1>2, <1>3, SeqEqual
<1> QED BY <1>4 DEF s

LEMMA AlertLogged ==
  ASSUME LastWords, ~Alerted, Sends("alert")
  PROVE  LastWords' /\ (Noticed' <=> Noticed)
<1>1. CASE log' = log
  BY <1>1, LogKept
<1>2. CASE log = <<>> /\ log' = Append(log, "alert")
  <2>1. log' = <<"alert">>
    BY <1>2
  <2> QED BY <1>2, <2>1 DEF LastWords, Noticed
<1>3. CASE log = <<"notify">> /\ log' = Append(log, "alert")
  <2>1. log' = <<"notify", "alert">>
    BY <1>3, TwoRecords
  <2>2. <<"notify">> # <<"alert">>
    OBVIOUS
  <2>3. /\ <<"notify">> # <<>> /\ <<"notify", "alert">> # <<>>
        /\ <<"notify", "alert">> # <<"alert">>
    OBVIOUS
  <2> QED BY <1>3, <2>1, <2>2, <2>3, ZenonT(30) DEF LastWords, Noticed
<1> QED BY <1>1, <1>2, <1>3 DEF Sends, Alerted

LEMMA NotifyLogged ==
  ASSUME LastWords, ~Noticed, Sends("notify")
  PROVE  LastWords' /\ (Alerted' <=> Alerted)
<1>1. CASE log' = log
  BY <1>1, LogKept
<1>2. CASE log = <<>> /\ log' = Append(log, "notify")
  <2>1. log' = <<"notify">>
    BY <1>2
  <2> QED BY <1>2, <2>1 DEF LastWords, Alerted
<1>3. CASE log = <<"alert">> /\ log' = Append(log, "notify")
  <2>1. log' = <<"alert", "notify">>
    BY <1>3, TwoRecords
  <2>2. <<"notify">> # <<"alert">>
    OBVIOUS
  <2>3. /\ <<"alert">> # <<>> /\ <<"alert", "notify">> # <<>>
        /\ <<"alert", "notify">> # <<"notify">>
    OBVIOUS
  <2> QED BY <1>3, <2>1, <2>2, <2>3, ZenonT(30) DEF LastWords, Alerted
<1> QED BY <1>1, <1>2, <1>3 DEF Sends, Noticed

\* Whoever may write has nothing before it.
LEMMA DataNotLogged ==
  ASSUME LastWords, ~Alerted, ~Noticed, Sends("data")
  PROVE  log' = log
<1>1. <<"notify">> # <<"alert">>
  OBVIOUS
<1>2. log = <<>>
  BY <1>1, Zenon DEF Alerted, Noticed
<1> QED BY <1>2 DEF Sends

\* Nobody has called anything.
LEMMA InitInv == Init => IInv
<1> SUFFICES ASSUME Init PROVE IInv
  OBVIOUS
<1>1. LastWords /\ ~Alerted /\ ~Noticed
  BY LogEmpty DEF Init
<1> QED BY <1>1 DEF Init, IInv, Types, Places, RunnerInv, ReaderInv, WaitInv,
           CloserInv, WriteInv, LogInv, Runner, Users, Procs

(* One lemma per action.  These abbreviations are always expanded.          *)
USE DEF WritersApart, Users, Procs, Free, Goes, Returns, Work, locks, hsVars,
        errs, outLog, Runner

\* Handshake: commit, wait or return.
LEMMA HandshakeKeeps ==
  ASSUME WritersApart, IInv, NEW p \in Users, Handshake(p)
  PROVE  IInv'
<1>1. Types'
  BY DEF IInv, Types, Places, Handshake, errs
<1>2. RunnerInv'
  BY DEF IInv, Types, RunnerInv, ReaderInv, WaitInv, Handshake
<1>3. ReaderInv'
  BY DEF IInv, Types, RunnerInv, ReaderInv, Handshake
<1>4. WaitInv'
  BY DEF IInv, Types, WaitInv, Handshake
<1>5. CloserInv' /\ WriteInv'
  BY DEF IInv, Types, CloserInv, WriteInv, Handshake, errs
<1>6. LogInv'
  BY LogKept DEF IInv, Types, LogInv, Handshake, errs
<1> QED BY <1>1, <1>2, <1>3, <1>4, <1>5, <1>6 DEF IInv

\* The one who committed takes its two locks, and the handshake ends well.
LEMMA LockInKeeps ==
  ASSUME WritersApart, IInv, NEW p \in Users, LockIn(p)
  PROVE  IInv'
BY LogKept
   DEF LockIn, IInv, Types, Places, RunnerInv, ReaderInv, WaitInv, CloserInv,
       WriteInv, LogInv

LEMMA LockMutexKeeps ==
  ASSUME WritersApart, IInv, NEW p \in Users, LockMutex(p)
  PROVE  IInv'
BY LogKept DEF LockMutex, IInv, Types, Places, RunnerInv, ReaderInv, WaitInv,
       CloserInv, WriteInv, LogInv

LEMMA HandshakeOkKeeps ==
  ASSUME WritersApart, IInv, NEW p \in Users, HandshakeOk(p)
  PROVE  IInv'
BY LogKept DEF HandshakeOk, IInv, Types, Places, RunnerInv, ReaderInv, WaitInv,
       CloserInv, WriteInv, LogInv, Woken

\* It fails: with the early return the waiters are left, else they are woken.
LEMMA HandshakeFailsKeeps ==
  ASSUME WritersApart, IInv, NEW p \in Users, HandshakeFails(p)
  PROVE  IInv'
<1>1. /\ at[p] = "hs.runs" /\ hsErr' = TRUE
      /\ \/ /\ flushFailed' = TRUE /\ at' = [at EXCEPT ![p] = "failed"]
            /\ UNCHANGED committed
         \/ /\ committed' = FALSE /\ UNCHANGED flushFailed
            /\ Woken("failed", p)
      /\ hsMutex' = Free /\ UNCHANGED <<outMutex, complete, notified>>
      /\ \/ sendAlert
         \/ UNCHANGED <<log, outErr>>
  BY DEF HandshakeFails
<1>2. /\ \A q \in Users \ {p} : ~Runner(q)
      /\ ~complete /\ ~hsErr /\ at["reader"] # "re.runs"
      /\ at["closer"] \notin {"wantOut", "closes"}
  BY <1>1 DEF IInv, RunnerInv, ReaderInv, CloserInv
<1>3. Types' /\ at'[p] = "failed"
  BY <1>1 DEF Woken, IInv, Types, Places, sendAlert
<1>4. \A q \in Procs \ {p} :
        at'[q] = at[q] \/ (at[q] = "waits" /\ at'[q] = "wantHandshake")
  BY <1>1 DEF Woken, IInv, Types
<1>5. RunnerInv' /\ ReaderInv' /\ CloserInv'
  BY <1>1, <1>2, <1>3, <1>4 DEF IInv, RunnerInv, ReaderInv, CloserInv
<1>6. WriteInv'
  <2>1. CASE sendAlert
    <3>1. \A q \in Writers : at[q] # "writes"
      BY <2>1 DEF sendAlert, IInv, WriteInv
    <3> QED BY <1>3, <1>4, <3>1 DEF WriteInv
  <2>2. CASE UNCHANGED <<log, outErr>>
    BY <1>1, <1>3, <1>4, <2>2 DEF IInv, WriteInv
  <2> QED BY <1>1, <2>1, <2>2
<1>7. LogInv'
  <2>1. ~Alerted /\ at'["reader"] # "re.runs"
    BY <1>2, <1>3, <1>4 DEF IInv, LogInv
  <2>2. CASE sendAlert
    <3>1. LastWords' /\ (Noticed' <=> Noticed)
      BY <2>1, <2>2, AlertLogged DEF sendAlert, IInv, LogInv
    <3> QED BY <1>1, <1>2, <2>1, <2>2, <3>1
            DEF IInv, LogInv, sendAlert
  <2>3. CASE UNCHANGED <<log, outErr>>
    BY <1>1, <1>2, <2>1, <2>3, LogKept DEF IInv, LogInv
  <2> QED BY <1>1, <2>2, <2>3
<1>8. flushFailed' \/ (~committed' /\ \A q \in Procs : at'[q] # "waits")
  BY <1>1 DEF Woken, IInv, Types
<1> QED BY <1>3, <1>5, <1>6, <1>7, <1>8 DEF IInv, WaitInv

\* Read and the negotiation within it.
LEMMA CallReadKeeps ==
  ASSUME WritersApart, IInv, CallRead
  PROVE  IInv'
BY LogKept DEF CallRead, IInv, Types, Places, RunnerInv, ReaderInv, WaitInv,
       CloserInv, WriteInv, LogInv

LEMMA ReadLocksKeeps ==
  ASSUME WritersApart, IInv, ReadLocks
  PROVE  IInv'
BY LogKept DEF ReadLocks, IInv, Types, Places, RunnerInv, ReaderInv, WaitInv,
       CloserInv, WriteInv, LogInv

LEMMA ReadKeeps ==
  ASSUME WritersApart, IInv, Read
  PROVE  IInv'
<1>1. /\ at["reader"] = "reads"
      /\ \E to \in {"idle", "failed", "alert.wantOut", "re.wantMutex"} :
           at' = [at EXCEPT !["reader"] = to]
      /\ UNCHANGED <<hsMutex, outMutex, hsVars, outErr, outLog>>
  BY DEF Read
<1>2. /\ Types'
      /\ at'["reader"] \in {"idle", "failed", "alert.wantOut", "re.wantMutex"}
      /\ \A q \in Procs \ {"reader"} : at'[q] = at[q]
  BY <1>1 DEF IInv, Types, Places
<1>3. RunnerInv' /\ ReaderInv'
  BY <1>1, <1>2 DEF IInv, RunnerInv, ReaderInv
<1>4. WaitInv' /\ CloserInv' /\ WriteInv'
  BY <1>1, <1>2 DEF IInv, WaitInv, CloserInv, WriteInv
<1>5. LogInv'
  BY <1>1, <1>2, LogKept DEF IInv, LogInv
<1> QED BY <1>2, <1>3, <1>4, <1>5 DEF IInv

LEMMA SendAlertKeeps ==
  ASSUME WritersApart, IInv, SendAlert
  PROVE  IInv'
<1>1. /\ at["reader"] = "alert.wantOut" /\ outMutex = Free
      /\ at' = [at EXCEPT !["reader"] = "failed"]
      /\ Sends("alert") /\ outErr' = TRUE
      /\ UNCHANGED <<hsMutex, outMutex, hsVars, notified>>
  BY DEF SendAlert, sendAlert
<1>2. /\ Types' /\ at'["reader"] = "failed"
      /\ \A q \in Procs \ {"reader"} : at'[q] = at[q]
  BY <1>1 DEF IInv, Types, Places
<1>3. RunnerInv' /\ ReaderInv' /\ WaitInv' /\ CloserInv'
  BY <1>1, <1>2 DEF IInv, RunnerInv, ReaderInv, WaitInv, CloserInv
<1>4. WriteInv'
  BY <1>1, <1>2 DEF IInv, WriteInv
<1>5. complete /\ ~Alerted
  BY <1>1 DEF IInv, ReaderInv, LogInv
<1>6. LastWords' /\ (Noticed' <=> Noticed)
  BY <1>1, <1>5, AlertLogged DEF IInv, LogInv
<1>7. LogInv'
  BY <1>1, <1>2, <1>5, <1>6 DEF IInv, LogInv
<1> QED BY <1>2, <1>3, <1>4, <1>7 DEF IInv

LEMMA RenegotiateKeeps ==
  ASSUME WritersApart, IInv, Renegotiate
  PROVE  IInv'
BY LogKept DEF Renegotiate, IInv, Types, Places, RunnerInv, ReaderInv, WaitInv,
       CloserInv, WriteInv, LogInv

LEMMA RenegotiatedKeeps ==
  ASSUME WritersApart, IInv, Renegotiated
  PROVE  IInv'
<1>1. /\ at["reader"] = "re.runs" /\ hsMutex' = Free
      /\ UNCHANGED <<outMutex, committed, flushFailed, notified>>
      /\ \/ /\ at' = [at EXCEPT !["reader"] = "reads"] /\ complete' = TRUE
            /\ UNCHANGED <<hsErr, log, outErr>>
         \/ /\ at' = [at EXCEPT !["reader"] = "failed"] /\ hsErr' = TRUE
            /\ UNCHANGED complete
            /\ \/ sendAlert
               \/ UNCHANGED <<log, outErr>>
  BY DEF Renegotiated
<1>2. /\ Types' /\ at'["reader"] \in {"reads", "failed"}
      /\ at'["reader"] = "reads" => complete'
      /\ \A q \in Procs \ {"reader"} : at'[q] = at[q]
  BY <1>1 DEF IInv, Types, Places, sendAlert
<1>3. /\ \A q \in Users : ~Runner(q)
      /\ at["closer"] \notin {"wantOut", "closes"}
      /\ ~complete /\ ~hsErr /\ ~Alerted
  BY <1>1 DEF IInv, ReaderInv, CloserInv, LogInv
<1>4. RunnerInv' /\ ReaderInv' /\ WaitInv' /\ CloserInv'
  <2>1. RunnerInv' /\ ReaderInv' /\ CloserInv'
    BY <1>1, <1>2, <1>3 DEF IInv, RunnerInv, ReaderInv, CloserInv
  <2>2. WaitInv'
    BY <1>1, <1>2, <1>3 DEF IInv, WaitInv
  <2> QED BY <2>1, <2>2
<1>5. CASE sendAlert /\ hsErr' /\ UNCHANGED complete
  <2>1. LastWords' /\ (Noticed' <=> Noticed)
    BY <1>3, <1>5, AlertLogged DEF sendAlert, IInv, LogInv
  <2>2. LogInv'
    BY <1>1, <1>2, <1>3, <1>5, <2>1 DEF IInv, LogInv, sendAlert
  <2>3. \A q \in Writers : at[q] # "writes"
    BY <1>5 DEF sendAlert, IInv, WriteInv
  <2>4. WriteInv'
    BY <1>2, <2>3 DEF WriteInv
  <2> QED BY <1>2, <1>4, <2>2, <2>4 DEF IInv
<1>6. CASE UNCHANGED <<log, outErr>>
  <2>1. LogInv'
    BY <1>1, <1>2, <1>3, <1>6, LogKept DEF IInv, LogInv
  <2>2. WriteInv'
    BY <1>1, <1>2, <1>6 DEF IInv, WriteInv
  <2> QED BY <1>2, <1>4, <2>1, <2>2 DEF IInv
<1> QED BY <1>1, <1>5, <1>6

\* Write.
LEMMA CallWriteKeeps ==
  ASSUME WritersApart, IInv, NEW p \in Writers, CallWrite(p)
  PROVE  IInv'
<1>1. /\ at[p] = "idle"
      /\ at' = [at EXCEPT ![p] = "failed"] \/
           at' = [at EXCEPT ![p] = "wantHandshake"]
      /\ UNCHANGED <<locks, hsVars, outErr, outLog>>
  BY DEF CallWrite, errs
<1>2. Types' /\ \A q \in Procs \ {p} : at'[q] = at[q]
  BY <1>1 DEF IInv, Types, Places
<1>3. at'[p] \in {"failed", "wantHandshake"}
  BY <1>1 DEF IInv, Types
<1>4. RunnerInv' /\ ReaderInv' /\ CloserInv'
  BY <1>1, <1>2, <1>3 DEF IInv, RunnerInv, ReaderInv, CloserInv
<1>5. WaitInv'
  BY <1>1, <1>2, <1>3 DEF IInv, WaitInv
<1>6. WriteInv'
  BY <1>1, <1>2, <1>3 DEF IInv, Types, WriteInv
<1>7. LogInv'
  BY <1>1, <1>2, <1>3, LogKept DEF IInv, Types, LogInv
<1> QED BY <1>2, <1>4, <1>5, <1>6, <1>7 DEF IInv

LEMMA WriteLocksKeeps ==
  ASSUME WritersApart, IInv, NEW p \in Writers, WriteLocks(p)
  PROVE  IInv'
<1>1. /\ at[p] = "wantOut" /\ outMutex = Free
      /\ \/ at' = [at EXCEPT ![p] = "failed"] /\ UNCHANGED outMutex
         \/ /\ ~notified /\ ~outErr
            /\ at' = [at EXCEPT ![p] = "writes"] /\ outMutex' = p
      /\ UNCHANGED <<hsMutex, inMutex, hsVars, outErr, outLog>>
  BY DEF WriteLocks, errs
<1>2. Types' /\ \A q \in Procs \ {p} : at'[q] = at[q]
  BY <1>1 DEF IInv, Types, Places
<1>3. at'[p] \in {"failed", "writes"}
  BY <1>1 DEF IInv, Types
<1>4. RunnerInv' /\ ReaderInv' /\ CloserInv'
  BY <1>1, <1>2, <1>3 DEF IInv, RunnerInv, ReaderInv, CloserInv
<1>5. WaitInv'
  BY <1>1, <1>2, <1>3 DEF IInv, WaitInv
<1>6. WriteInv'
  BY <1>1, <1>2, <1>3 DEF IInv, Types, WriteInv
<1>7. LogInv'
  BY <1>1, <1>2, <1>3, LogKept DEF IInv, Types, LogInv
<1> QED BY <1>2, <1>4, <1>5, <1>6, <1>7 DEF IInv

LEMMA WriteKeeps ==
  ASSUME WritersApart, IInv, NEW p \in Writers, Write(p)
  PROVE  IInv'
<1>1. /\ at[p] = "writes" /\ outMutex' = Free
      /\ \/ /\ Sends("data") /\ UNCHANGED outErr
            /\ at' = [at EXCEPT ![p] = "done"]
         \/ /\ at' = [at EXCEPT ![p] = "failed"]
            /\ outErr' = TRUE /\ UNCHANGED log
      /\ UNCHANGED <<hsMutex, inMutex, hsVars, notified>>
  BY DEF Write
<1>2. Types' /\ \A q \in Procs \ {p} : at'[q] = at[q]
  BY <1>1 DEF IInv, Types, Places
<1>3. at'[p] \in {"failed", "done"}
  BY <1>1 DEF IInv, Types
<1>4. ~notified /\ ~outErr
  BY <1>1 DEF IInv, WriteInv
<1>5. log' = log
  BY <1>1, <1>4, DataNotLogged DEF IInv, LogInv
<1>6. RunnerInv' /\ ReaderInv' /\ CloserInv' /\ WaitInv'
  BY <1>1, <1>2, <1>3, <1>4
  DEF IInv, RunnerInv, ReaderInv, CloserInv, WaitInv
<1>7. LogInv'
  BY <1>1, <1>2, <1>4, <1>5, LogKept DEF IInv, LogInv
<1>8. \A q \in Writers \ {p} : at[q] # "writes"
  BY <1>1 DEF IInv, WriteInv
<1>9. WriteInv'
  BY <1>1, <1>2, <1>3, <1>8 DEF WriteInv
<1> QED BY <1>2, <1>6, <1>7, <1>9 DEF IInv

\* Close.
LEMMA CallCloseKeeps ==
  ASSUME WritersApart, IInv, CallClose
  PROVE  IInv'
<1>1. /\ at["closer"] = "idle"
      /\ \/ at' = [at EXCEPT !["closer"] = "done"]
         \/ at' = [at EXCEPT !["closer"] = "wantMutex"]
      /\ UNCHANGED <<locks, hsVars, outErr, outLog>>
  BY DEF CallClose, errs
<1>2. /\ Types' /\ at'["closer"] \in {"done", "wantMutex"}
      /\ \A q \in Users : at'[q] = at[q]
  BY <1>1 DEF IInv, Types, Places
<1>3. RunnerInv' /\ ReaderInv'
  BY <1>1, <1>2 DEF IInv, RunnerInv, ReaderInv
<1>4. WaitInv' /\ CloserInv' /\ WriteInv' /\ LogInv'
  BY <1>1, <1>2, LogKept DEF IInv, WaitInv, CloserInv, WriteInv, LogInv
<1> QED BY <1>2, <1>3, <1>4 DEF IInv

LEMMA CloseLocksKeeps ==
  ASSUME WritersApart, IInv, CloseLocks
  PROVE  IInv'
BY LogKept DEF CloseLocks, IInv, Types, Places, RunnerInv, ReaderInv, WaitInv,
       CloserInv, WriteInv, LogInv

LEMMA closeNotifyKeeps ==
  ASSUME WritersApart, IInv, closeNotify
  PROVE  IInv'
<1>1. /\ at["closer"] = "wantOut" /\ outMutex = Free /\ notified' = TRUE
      /\ at' = [at EXCEPT !["closer"] = "closes"]
      /\ IF notified THEN UNCHANGED log ELSE Sends("notify")
      /\ UNCHANGED <<locks, hsVars, outErr>>
  BY DEF closeNotify, errs
<1>2. /\ Types' /\ at'["closer"] = "closes"
      /\ \A q \in Users : at'[q] = at[q]
  BY <1>1 DEF IInv, Types, Places
<1>3. RunnerInv' /\ ReaderInv' /\ WaitInv'
  BY <1>1, <1>2 DEF IInv, RunnerInv, ReaderInv, WaitInv
<1>4. CloserInv' /\ WriteInv'
  BY <1>1, <1>2 DEF IInv, CloserInv, WriteInv
<1>5. ~notified /\ ~Noticed
  BY <1>1 DEF IInv, CloserInv, LogInv
<1>6. LastWords' /\ (Alerted' <=> Alerted)
  BY <1>1, <1>5, NotifyLogged DEF IInv, LogInv
<1>7. LogInv'
  BY <1>1, <1>2, <1>6 DEF IInv, LogInv
<1> QED BY <1>2, <1>3, <1>4, <1>7 DEF IInv

LEMMA CloseKeeps ==
  ASSUME WritersApart, IInv, Close
  PROVE  IInv'
BY LogKept
   DEF Close, IInv, Types, Places, RunnerInv, ReaderInv, WaitInv, CloserInv,
       WriteInv, LogInv

\* The peer touches none of it.
LEMMA PeerKeeps ==
  ASSUME WritersApart, IInv, Peer
  PROVE  IInv'
BY LogKept
   DEF Peer, IInv, Types, Places, RunnerInv, ReaderInv, WaitInv, CloserInv,
       WriteInv, LogInv

\* Nothing happens.
LEMMA StutterKeeps == ASSUME IInv, UNCHANGED vars PROVE IInv'
BY LogKept DEF IInv, Types, RunnerInv, ReaderInv, WaitInv, CloserInv, WriteInv,
       LogInv, vars

\* All actions of Next: the handshake, the reader, a writer, the closer, the
\* calls that begin and the peer.
LEMMA StepKeeps == ASSUME WritersApart, IInv, [Next]_vars PROVE IInv'
<1>1. ASSUME NEW p \in Users,
             Handshake(p) \/ LockIn(p) \/ LockMutex(p)
               \/ HandshakeOk(p) \/ HandshakeFails(p)
      PROVE  IInv'
  BY <1>1, HandshakeKeeps, LockInKeeps, LockMutexKeeps, HandshakeOkKeeps,
       HandshakeFailsKeeps
<1>2. CASE ReadLocks \/ Read \/ SendAlert \/ Renegotiate \/ Renegotiated
  BY <1>2, ReadLocksKeeps, ReadKeeps, SendAlertKeeps, RenegotiateKeeps,
       RenegotiatedKeeps
<1>3. ASSUME NEW p \in Writers, CallWrite(p) \/ WriteLocks(p) \/ Write(p)
      PROVE  IInv'
  BY <1>3, CallWriteKeeps, WriteLocksKeeps, WriteKeeps
<1>4. CASE CloseLocks \/ closeNotify \/ Close
  BY <1>4, CloseLocksKeeps, closeNotifyKeeps, CloseKeeps
<1>5. CASE CallRead \/ CallClose \/ Peer
  BY <1>5, CallReadKeeps, CallCloseKeeps, PeerKeeps
<1>6. CASE UNCHANGED vars
  BY <1>6, StutterKeeps
<1> QED BY <1>1, <1>2, <1>3, <1>4, <1>5, <1>6 DEF Next, Calls

(* Handshake of conn.go, for any number of writers beside the reader and     *)
(* the closer: one goroutine at most runs the handshake, so that its panics  *)
(* cannot happen; a goroutine that waits for it is left waiting only by the  *)
(* early return after a failed flush; and Write sends no data after a        *)
(* close_notify or an alert, each of which goes out once at most.            *)
THEOREM CallsSafeAlways ==
  WritersApart =>
    (Spec => [](HandshakeAlone /\ WaitersWoken /\ LastWords))
<1> SUFFICES ASSUME WritersApart
             PROVE  Spec => [](HandshakeAlone /\ WaitersWoken /\ LastWords)
  OBVIOUS
<1>1. Init => IInv
  BY InitInv
<1>2. IInv /\ [Next]_vars => IInv'
  BY StepKeeps
<1>3. IInv => HandshakeAlone /\ WaitersWoken /\ LastWords
  <2> SUFFICES ASSUME IInv
               PROVE  HandshakeAlone /\ WaitersWoken /\ LastWords
    OBVIOUS
  <2>1. HandshakeAlone
    BY OneRunner DEF IInv
  <2>2. WaitersWoken
    BY DEF IInv, WaitInv, WaitersWoken, Forgotten, Runner
  <2> QED BY <2>1, <2>2 DEF IInv, LogInv
<1> QED BY <1>1, <1>2, <1>3, PTL DEF Spec

---------------------------------------------------------------------------
(* A NETCONF session.                                                      *)

Kinds == Text \cup {"open", "close", "hello", "eom", "size", "end", "empty"}
Toks == [k : Kinds, r : Nat, i : Nat, n : Nat]
InPayload(t) == t.k \notin {"size", "end", "eom"}

NetconfTypes ==
  /\ server \in {0, 10, 11} /\ ver \in {0, 10, 11}
  /\ npc \in {"hello", "idle", "eom", "size", "data", "closed"}
  /\ pipe \in Seq(Toks) /\ nbuf \in Seq(Toks) /\ out \in Seq(Toks)
  /\ acc \in Seq(Toks) /\ need \in Nat /\ msgId \in Nat
  /\ rpcs \in Seq(Nat) /\ sent \in Seq(Seq(Toks))
  /\ replies \in Seq([to : Nat, body : Seq(Toks)])
  /\ failed \in BOOLEAN

\* What is on its way to the reader: arrived, and still to be cut in chunks.
Arrived == nbuf \o pipe
Ahead == Arrived \o out
Connected == npc \notin {"hello", "closed"}
Chunking == npc \in {"size", "data"}

\* The two messages of a session that has not begun.
HelloInv ==
  /\ npc = "hello" =>
       LET h == Token("hello", 0, 0, server)
           e == Token("eom", 0, 0, 0)
       IN \/ nbuf = <<>> /\ pipe = <<h, e>>
          \/ nbuf = <<h>> /\ pipe = <<e>>
          \/ nbuf = <<h, e>> /\ pipe = <<>>
  /\ ~Connected => /\ rpcs = <<>> /\ out = <<>> /\ sent = <<>>
                   /\ msgId = 0 /\ replies = <<>>
  /\ Connected => server \in {10, 11} /\ ver = server
  /\ Chunking => server = 11
  /\ npc = "eom" => server = 10
  /\ npc = "hello" => ~failed
  /\ npc = "closed" => failed

\* The requests are answered in their order.
AskedInv ==
  /\ msgId = Len(sent) + Len(rpcs)
  /\ \A j \in 1..Len(rpcs) : rpcs[j] = Len(sent) + j

\* A payload of the r-th reply: its tokens say what they are.
ProperReply(p, r) ==
  /\ p \in Seq(Toks) /\ Len(p) > 1
  /\ \A j \in 1..Len(p) :
       /\ p[j].r = r /\ p[j].i = j /\ p[j].k \notin {"eom", "size", "end"}
       /\ p[j].k = "open" <=> j = 1
       /\ p[j].k = "close" <=> j = Len(p)
SentInv == \A r \in 1..Len(sent) : ProperReply(sent[r], r)

\* t is what is left of s behind its first k elements.
IsRest(t, s, k) ==
  /\ k \in Nat /\ k <= Len(s) /\ Len(t) = Len(s) - k
  /\ \A j \in 1..Len(t) : t[j] = s[k + j]

\* What is still to be cut into chunks is the rest of the last reply.
OutInv ==
  out # <<>> =>
    /\ server = 11 /\ Len(sent) > 0
    /\ \E k \in 0..Len(sent[Len(sent)]) : IsRest(out, sent[Len(sent)], k)

\* A token is a part of the reply it names, or marks a place in it.
Genuine(t) ==
  /\ t.r \in 1..Len(sent)
  /\ IF InPayload(t) THEN t.i \in 1..Len(sent[t.r]) /\ t = sent[t.r][t.i]
     ELSE IF t.k = "size" THEN t.i \in 1..Len(sent[t.r])
     ELSE t.i = Len(sent[t.r]) + 1
AllGenuine(s) == \A j \in 1..Len(s) : Genuine(s[j])

\* t is sent before u.
Before(t, u) == \/ t.r < u.r
                \/ t.r = u.r /\ t.i <= u.i /\ (t.k # "size" => t.i < u.i)
Rising(s) == \A i, j \in 1..Len(s) : i < j => Before(s[i], s[j])

\* Every reply that has begun is sent to its end.
CloseIn(s, r) == \E m \in 1..Len(s) : s[m].k = "close" /\ s[m].r = r
Closed(s) ==
  \A j \in 1..Len(s) : InPayload(s[j]) =>
    \E m \in j..Len(s) : s[m].k = "close" /\ s[m].r = s[j].r

StreamInv ==
  Connected => AllGenuine(Ahead) /\ Rising(Ahead) /\ Closed(Ahead)

\* n tokens of one reply behind place k of s, of which a have arrived whole,
\* and then the next header.
Run(s, a, k, n) ==
  /\ n > 0 /\ k + n <= a /\ k + n < Len(s)
  /\ \A m \in 1..n : /\ InPayload(s[k + m]) /\ s[k + m].r = s[k + 1].r
                     /\ s[k + m].i = s[k + 1].i + (m - 1)
  /\ s[k + n + 1].r = s[k + 1].r /\ s[k + n + 1].i = s[k + 1].i + n
  /\ k + n < a => s[k + n + 1].k \in {"size", "end"}
Chunked(s, a) ==
  \A k \in 1..a : s[k].k = "size" =>
    /\ Run(s, a, k, s[k].n)
    /\ s[k + 1].r = s[k].r /\ s[k + 1].i = s[k].i
ChunkInv ==
  /\ Connected /\ server = 11 => Chunked(Ahead, Len(Arrived))
  /\ server = 10 => out = <<>> /\ \A j \in 1..Len(Ahead) :
                                   Ahead[j].k \notin {"size", "end"}
  /\ server = 11 /\ Connected => \A j \in 1..Len(Ahead) : Ahead[j].k # "eom"

\* The reader is where the next header begins, or inside of a chunk.
Aligned ==
  IF npc = "data" THEN Run(Ahead, Len(Arrived), 0, need)
  ELSE Len(Arrived) > 0 => Ahead[1].k \in {"size", "end"}

FirstTag(s, x) == x \in Tags(s) /\ \A y \in Tags(s) : x <= y

\* What readChunked holds comes before what is ahead.  If it begins with a
\* reply, the rest of this reply is next.
HeldInv ==
  Chunking =>
    /\ AllGenuine(acc) /\ Rising(acc)
    /\ \A i \in 1..Len(acc), j \in 1..Len(Ahead) : Before(acc[i], Ahead[j])
    /\ \A x \in 1..Len(acc) : FirstTag(acc, x) /\ acc[x].k = "open" =>
         \/ CloseIn(acc, acc[x].r)
         \/ Aligned /\ CloseIn(Ahead, acc[x].r)
    /\ npc = "data" /\ Tags(acc) = {} =>
         \/ Aligned
         \/ \E x \in 1..Len(Ahead) : FirstTag(Ahead, x) /\ Ahead[x].k # "open"

\* Whole replies have been returned, and what comes belongs to later ones.
RootOf(j) == Root(replies[j].body)
Behind(s) ==
  \A j \in 1..Len(replies), i \in 1..Len(s) :
    s[i].k = "open" => RootOf(j).r < s[i].r
RepliesInv ==
  /\ RepliesInOrder
  /\ \A j \in 1..Len(replies) : RootOf(j).r \in 1..Len(sent)
  /\ Behind(Ahead)
  /\ Chunking => Behind(acc)

\* As long as no call has failed, the reply that is read is that of the call.
ExactInv ==
  /\ ReplyExact
  /\ Connected /\ ~failed =>
       IF npc = "idle"
       THEN /\ Ahead = <<>> /\ rpcs = <<>> /\ Len(replies) = msgId
       ELSE /\ Len(replies) = msgId - 1 /\ msgId > 0
            /\ \/ /\ Len(rpcs) = 1 /\ Ahead = <<>> /\ npc # "data"
                  /\ npc = "size" => acc = <<>>
               \/ /\ rpcs = <<>>
                  /\ IF npc = "eom"
                     THEN \E e \in Toks :
                            /\ e.k = "eom"
                            /\ Ahead = Append(sent[msgId], e)
                     ELSE /\ Aligned /\ Ahead # <<>>
                          /\ acc = SubSeq(sent[msgId], 1, Len(acc))
                          /\ Len(acc) <= Len(sent[msgId])
                          /\ Ahead[1].r = msgId
                          /\ Ahead[1].i = Len(acc) + 1

NetconfInv ==
  /\ NetconfTypes /\ HelloInv /\ AskedInv /\ SentInv /\ OutInv /\ StreamInv
  /\ ChunkInv /\ HeldInv /\ RepliesInv /\ ExactInv

---------------------------------------------------------------------------
(* What is ahead of the reader, as one sequence.                           *)

(* The least element of a set of positions: the first match, the first tag. *)
LEMMA MinOfSet ==
  ASSUME NEW S, S \subseteq Nat, S # {}
  PROVE  MinOf(S) \in S /\ \A j \in S : MinOf(S) <= j
<1>1. \E i \in S : \A j \in S : i <= j
  BY LeastExists
<1> QED BY <1>1 DEF MinOf

\* The positions in three sequences that are joined.
Three(b, w, o) ==
  /\ b \o w \in Seq(Toks) /\ (b \o w) \o o \in Seq(Toks)
  /\ Len(b) \in Nat /\ Len(w) \in Nat /\ Len(o) \in Nat
  /\ Len(b \o w) = Len(b) + Len(w)
  /\ Len((b \o w) \o o) = Len(b) + Len(w) + Len(o)
  /\ \A j \in 1..Len(b) : ((b \o w) \o o)[j] = b[j]
  /\ \A j \in 1..(Len(b) + Len(w)) : ((b \o w) \o o)[j] = (b \o w)[j]
  /\ \A j \in (Len(b) + 1)..(Len(b) + Len(w)) :
       ((b \o w) \o o)[j] = w[j - Len(b)]
  /\ \A j \in (Len(b) + Len(w) + 1)..(Len(b) + Len(w) + Len(o)) :
       ((b \o w) \o o)[j] = o[j - Len(b) - Len(w)]

(* The three parts of a stream keep their order when they are joined. *)
LEMMA ThreeJoined ==
  ASSUME NEW b \in Seq(Toks), NEW w \in Seq(Toks), NEW o \in Seq(Toks)
  PROVE  Three(b, w, o)
<1> DEFINE bw == b \o w
           all == bw \o o
<1>1. /\ bw \in Seq(Toks) /\ Len(b) \in Nat /\ Len(w) \in Nat
      /\ Len(bw) = Len(b) + Len(w)
      /\ \A j \in 1..Len(b) : bw[j] = b[j]
      /\ \A j \in (Len(b) + 1)..(Len(b) + Len(w)) : bw[j] = w[j - Len(b)]
  BY Joined
<1> HIDE DEF bw
<1>2. /\ all \in Seq(Toks) /\ Len(o) \in Nat
      /\ Len(all) = Len(bw) + Len(o)
      /\ \A j \in 1..Len(bw) : all[j] = bw[j]
      /\ \A j \in (Len(bw) + 1)..(Len(bw) + Len(o)) : all[j] = o[j - Len(bw)]
  <2>1. bw \in Seq(Toks) /\ o \in Seq(Toks)
    BY <1>1
  <2> QED BY <2>1, Joined, Zenon
<1> HIDE DEF all
<1>3. \A j \in 1..Len(b) : all[j] = b[j]
  BY <1>1, <1>2
<1>4. \A j \in 1..(Len(b) + Len(w)) : all[j] = bw[j]
  BY <1>1, <1>2
<1>5. \A j \in (Len(b) + 1)..(Len(b) + Len(w)) : all[j] = w[j - Len(b)]
  BY <1>1, <1>2
<1>6. \A j \in (Len(b) + Len(w) + 1)..(Len(b) + Len(w) + Len(o)) :
        all[j] = o[j - Len(b) - Len(w)]
  <2> TAKE j \in (Len(b) + Len(w) + 1)..(Len(b) + Len(w) + Len(o))
  <2>1. j \in (Len(bw) + 1)..(Len(bw) + Len(o))
        /\ j - Len(bw) = j - Len(b) - Len(w)
    BY <1>1, <1>2
  <2> QED BY <2>1, <1>2
<1> QED BY <1>1, <1>2, <1>3, <1>4, <1>5, <1>6 DEF bw, all, Three

(* A read takes the first k tokens of what the connector holds. *)
LEMMA Taken ==
  ASSUME NEW b \in Seq(Toks), NEW w \in Seq(Toks), NEW o \in Seq(Toks),
         NEW k \in 0..Len(b)
  PROVE  /\ From(b, k + 1) \in Seq(Toks) /\ Upto(b, k) \in Seq(Toks)
         /\ Len(Upto(b, k)) = k /\ \A j \in 1..k : Upto(b, k)[j] = b[j]
         /\ IsRest((From(b, k + 1) \o w) \o o, (b \o w) \o o, k)
         /\ Len(From(b, k + 1) \o w) = Len(b \o w) - k
         /\ \A j \in 1..k : Upto(b, k)[j] = ((b \o w) \o o)[j]
<1> DEFINE f == From(b, k + 1)
           u == Upto(b, k)
           old == (b \o w) \o o
           new == (f \o w) \o o
<1>1. /\ f \in Seq(Toks) /\ u \in Seq(Toks) /\ Len(u) = k
      /\ Len(f) = Len(b) - k
      /\ \A j \in 1..k : u[j] = b[j]
      /\ \A j \in 1..(Len(b) - k) : f[j] = b[k + j]
  BY CutInTwo DEF From, Upto
<1> HIDE DEF f, u
<1>2. /\ Len(b) \in Nat /\ Len(w) \in Nat /\ Len(o) \in Nat /\ k \in Nat
      /\ k <= Len(b)
      /\ Len(b \o w) = Len(b) + Len(w)
      /\ Len(old) = Len(b) + Len(w) + Len(o)
      /\ \A j \in 1..Len(b) : old[j] = b[j]
      /\ \A j \in (Len(b) + 1)..(Len(b) + Len(w)) : old[j] = w[j - Len(b)]
      /\ \A j \in (Len(b) + Len(w) + 1)..(Len(b) + Len(w) + Len(o)) :
           old[j] = o[j - Len(b) - Len(w)]
  <2>1. Len(b) \in Nat
    BY LenProperties
  <2>2. Three(b, w, o)
    BY ThreeJoined
  <2> QED BY <2>1, <2>2 DEF Three
<1>3. /\ Len(f \o w) = Len(f) + Len(w)
      /\ Len(new) = Len(f) + Len(w) + Len(o)
      /\ \A j \in 1..Len(f) : new[j] = f[j]
      /\ \A j \in (Len(f) + 1)..(Len(f) + Len(w)) : new[j] = w[j - Len(f)]
      /\ \A j \in (Len(f) + Len(w) + 1)..(Len(f) + Len(w) + Len(o)) :
           new[j] = o[j - Len(f) - Len(w)]
  <2>1. f \in Seq(Toks)
    BY <1>1
  <2>2. Three(f, w, o)
    BY <2>1, ThreeJoined
  <2> QED BY <2>2 DEF Three
<1> HIDE DEF old, new
<1>4. ASSUME NEW j \in 1..Len(new) PROVE new[j] = old[k + j]
  <2>1. CASE j <= Len(f)
    <3>1. j \in 1..Len(f) /\ j \in 1..(Len(b) - k) /\ k + j \in 1..Len(b)
      BY <2>1, <1>1, <1>2
    <3>2. new[j] = f[j]
      BY <3>1, <1>3, Zenon
    <3>3. f[j] = b[k + j]
      BY <3>1, <1>1, Zenon
    <3>4. old[k + j] = b[k + j]
      BY <3>1, <1>2, Zenon
    <3> QED BY <3>2, <3>3, <3>4
  <2>2. CASE j > Len(f) /\ j <= Len(f) + Len(w)
    <3>1. /\ j \in (Len(f) + 1)..(Len(f) + Len(w))
          /\ k + j \in (Len(b) + 1)..(Len(b) + Len(w))
          /\ j - Len(f) = (k + j) - Len(b)
      BY <2>2, <1>1, <1>2
    <3> QED BY <3>1, <1>2, <1>3, ZenonT(30)
  <2>3. CASE j > Len(f) + Len(w)
    <3>1. /\ j \in (Len(f) + Len(w) + 1)..(Len(f) + Len(w) + Len(o))
          /\ k + j \in (Len(b) + Len(w) + 1)..(Len(b) + Len(w) + Len(o))
          /\ j - Len(f) - Len(w) = (k + j) - Len(b) - Len(w)
      BY <2>3, <1>1, <1>2, <1>3
    <3> QED BY <3>1, <1>2, <1>3, ZenonT(30)
  <2> QED BY <2>1, <2>2, <2>3, <1>1, <1>2, <1>3
<1>5. IsRest(new, old, k)
  BY <1>1, <1>2, <1>3, <1>4, SMTT(30) DEF IsRest
<1>6. ASSUME NEW j \in 1..k PROVE u[j] = old[j]
  <2>1. j \in 1..Len(b)
    BY <1>2
  <2> QED BY <2>1, <1>1, <1>2
<1>7. Len(f \o w) = Len(b \o w) - k
  BY <1>1, <1>2, <1>3
<1> QED BY <1>1, <1>5, <1>6, <1>7 DEF f, u, old, new

(* What is true of a stream is true of the rest of it. *)
LEMMA RestOfStream ==
  ASSUME NEW s \in Seq(Toks), NEW t \in Seq(Toks), NEW k, IsRest(t, s, k)
  PROVE  /\ AllGenuine(s) => AllGenuine(t)
         /\ Rising(s) => Rising(t)
         /\ Closed(s) => Closed(t)
         /\ Behind(s) => Behind(t)
<1>1. /\ k \in Nat /\ Len(s) \in Nat /\ Len(t) \in Nat /\ Len(t) = Len(s) - k
      /\ \A j \in 1..Len(t) : t[j] = s[k + j] /\ k + j \in 1..Len(s)
  <2>1. k \in Nat /\ k <= Len(s) /\ Len(t) = Len(s) - k
        /\ \A j \in 1..Len(t) : t[j] = s[k + j]
    BY DEF IsRest
  <2>2. Len(s) \in Nat /\ Len(t) \in Nat
    BY LenProperties
  <2> QED BY <2>1, <2>2
<1>2. ASSUME AllGenuine(s) PROVE AllGenuine(t)
  BY <1>1, <1>2, Zenon DEF AllGenuine
<1>3. ASSUME Rising(s) PROVE Rising(t)
  <2> SUFFICES ASSUME NEW i \in 1..Len(t), NEW j \in 1..Len(t), i < j
               PROVE  Before(t[i], t[j])
    BY DEF Rising
  <2>1. k + i < k + j
    BY <1>1
  <2>2. Before(s[k + i], s[k + j])
    BY <2>1, <1>1, <1>3 DEF Rising
  <2> QED BY <2>2, <1>1
<1>4. ASSUME Closed(s) PROVE Closed(t)
  <2> SUFFICES ASSUME NEW j \in 1..Len(t), InPayload(t[j])
               PROVE  \E m \in j..Len(t) :
                        t[m].k = "close" /\ t[m].r = t[j].r
    BY DEF Closed
  <2>1. PICK m \in (k + j)..Len(s) : s[m].k = "close" /\ s[m].r = s[k + j].r
    BY <1>1, <1>4 DEF Closed
  <2>2. m - k \in j..Len(t) /\ m - k \in 1..Len(t) /\ k + (m - k) = m
    BY <1>1, <2>1
  <2>3. t[m - k] = s[m]
    BY <1>1, <2>2
  <2> QED BY <1>1, <2>1, <2>2, <2>3
<1>5. ASSUME Behind(s) PROVE Behind(t)
  BY <1>1, <1>5, Zenon DEF Behind
<1> QED BY <1>2, <1>3, <1>4, <1>5

(* The chunks that are left. *)
LEMMA RestOfRun ==
  ASSUME NEW s \in Seq(Toks), NEW t \in Seq(Toks), NEW k, IsRest(t, s, k),
         NEW a \in Nat, k <= a, NEW x \in Nat, NEW n \in Nat
  PROVE  Run(s, a, k + x, n) <=> Run(t, a - k, x, n)
<1>1. /\ k \in Nat /\ Len(s) \in Nat /\ Len(t) \in Nat /\ Len(t) = Len(s) - k
      /\ k <= Len(s) /\ \A j \in 1..Len(t) : t[j] = s[k + j]
  BY LenProperties DEF IsRest
<1>2. /\ (k + x) + n <= a <=> x + n <= a - k
      /\ (k + x) + n < Len(s) <=> x + n < Len(t)
      /\ (k + x) + n < a <=> x + n < a - k
  BY <1>1
<1>3. ASSUME n > 0, x + n < Len(t)
      PROVE  /\ \A m \in 1..n : t[x + m] = s[(k + x) + m]
             /\ t[x + 1] = s[(k + x) + 1]
             /\ t[x + n + 1] = s[(k + x) + n + 1]
  <2>1. ASSUME NEW m \in 1..(n + 1) PROVE t[x + m] = s[(k + x) + m]
    <3>1. x + m \in 1..Len(t) /\ k + (x + m) = (k + x) + m
      BY <1>1, <1>3
    <3> QED BY <3>1, <1>1
  <2>2. n + 1 \in 1..(n + 1) /\ 1 \in 1..(n + 1)
        /\ \A m \in 1..n : m \in 1..(n + 1)
    BY <1>3
  <2>3. x + (n + 1) = x + n + 1 /\ (k + x) + (n + 1) = (k + x) + n + 1
    BY <1>1
  <2>4. \A m \in 1..n : t[x + m] = s[(k + x) + m]
    BY <2>1, <2>2
  <2>5. t[x + 1] = s[(k + x) + 1]
    BY <2>1, <2>2
  <2>6. t[x + (n + 1)] = s[(k + x) + (n + 1)]
    BY <2>1, <2>2
  <2> QED BY <2>3, <2>4, <2>5, <2>6
<1>4. ASSUME Run(s, a, k + x, n) PROVE Run(t, a - k, x, n)
  <2>1. n > 0 /\ x + n < Len(t) /\ x + n <= a - k
    BY <1>2, <1>4 DEF Run
  <2> QED BY <2>1, <1>2, <1>3, <1>4 DEF Run
<1>5. ASSUME Run(t, a - k, x, n) PROVE Run(s, a, k + x, n)
  <2>1. n > 0 /\ x + n < Len(t) /\ x + n <= a - k
    BY <1>5 DEF Run
  <2> QED BY <2>1, <1>2, <1>3, <1>5 DEF Run
<1> QED BY <1>4, <1>5

(* Whole chunks stay whole when tokens are read from the front. *)
LEMMA RestOfChunks ==
  ASSUME NEW s \in Seq(Toks), NEW t \in Seq(Toks), NEW k, IsRest(t, s, k),
         NEW a \in Nat, k <= a, a <= Len(s), Chunked(s, a)
  PROVE  Chunked(t, a - k)
<1>1. /\ k \in Nat /\ Len(s) \in Nat /\ Len(t) \in Nat /\ Len(t) = Len(s) - k
      /\ k <= Len(s) /\ \A j \in 1..Len(t) : t[j] = s[k + j]
  BY LenProperties DEF IsRest
<1> SUFFICES ASSUME NEW x \in 1..(a - k), t[x].k = "size"
             PROVE  /\ Run(t, a - k, x, t[x].n)
                    /\ t[x + 1].r = t[x].r /\ t[x + 1].i = t[x].i
  BY DEF Chunked
<1>2. x \in 1..Len(t) /\ k + x \in 1..a /\ t[x] = s[k + x] /\ x \in Nat
  BY <1>1
<1>3. /\ Run(s, a, k + x, s[k + x].n)
      /\ s[k + x + 1].r = s[k + x].r /\ s[k + x + 1].i = s[k + x].i
  BY <1>2 DEF Chunked
<1>4. t[x].n \in Nat
  <2>1. t[x] \in Toks
    BY <1>2, ElementOfSeq
  <2> QED BY <2>1 DEF Toks
<1>5. Run(t, a - k, x, t[x].n)
  BY <1>2, <1>3, <1>4, RestOfRun
<1>6. x + 1 \in 1..Len(t) /\ k + (x + 1) = k + x + 1
  <2> DEFINE l == Len(t)
             N == t[x].n
  <2>1. /\ N \in Nat /\ l \in Nat /\ k \in Nat /\ x \in Nat
        /\ N > 0 /\ x + N < l
    BY <1>1, <1>2, <1>4, <1>5, Zenon DEF Run
  <2> HIDE DEF l, N
  <2>2. x + 1 \in 1..l /\ k + (x + 1) = k + x + 1
    BY ONLY <2>1
  <2> QED BY <2>2 DEF l
<1>7. t[x + 1] = s[k + x + 1]
  <2>1. t[x + 1] = s[k + (x + 1)]
    BY <1>1, <1>6, Zenon
  <2> QED BY <2>1, <1>6
<1> QED BY <1>2, <1>3, <1>5, <1>7

---------------------------------------------------------------------------
(* The reply that is made of what was read.                                *)

(* The root of what was read is its first tag, and its second tag closes it. *)
LEMMA Parses ==
  ASSUME NEW s \in Seq(Toks), RootEnd(s) # 0
  PROVE  \E a, b \in Tags(s) :
           /\ a < b /\ FirstTag(s, a) /\ b = RootEnd(s) /\ Root(s) = s[a]
           /\ s[a].k = "open" /\ s[b].k = "close"
           /\ \A y \in Tags(s) : y = a \/ b <= y
<1> DEFINE T == Tags(s)
           a == MinOf(T)
           R == {i \in T : i > a}
           b == MinOf(R)
<1>1. T \subseteq Nat /\ R \subseteq Nat
  BY DEF Tags
<1>2. /\ T # {} /\ R # {} /\ s[a].k = "open" /\ s[b].k = "close"
      /\ RootEnd(s) = b
  BY DEF RootEnd
<1>3. a \in T /\ \A y \in T : a <= y
  BY <1>1, <1>2, MinOfSet
<1>4. b \in R /\ \A y \in R : b <= y
  BY <1>1, <1>2, MinOfSet
<1>5. a < b /\ b \in T /\ a \in Nat /\ b \in Nat
  BY <1>1, <1>3, <1>4
<1>6. \A y \in T : y = a \/ b <= y
  <2> TAKE y \in T
  <2>1. y \in Nat /\ a <= y
    BY <1>1, <1>3
  <2>2. y > a => b <= y
    BY <1>4
  <2> QED BY <2>1, <2>2, <1>5
<1>7. FirstTag(s, a)
  BY <1>3 DEF FirstTag
<1>8. Root(s) = s[a]
  BY DEF Root
<1> QED BY <1>2, <1>3, <1>5, <1>6, <1>7, <1>8

(* Taking out what XML forbids changes no tag. *)
LEMMA CleanSame ==
  ASSUME NEW s \in Seq(Toks)
  PROVE  /\ Clean(s) \in Seq(Toks) /\ Len(Clean(s)) = Len(s)
         /\ Tags(Clean(s)) = Tags(s)
         /\ \A y \in Tags(s) : Clean(s)[y] = s[y]
         /\ (\A j \in 1..Len(s) : s[j].k # "bad") => Clean(s) = s
<1> DEFINE c == Clean(s)
<1>1. Len(s) \in Nat /\ \A j \in 1..Len(s) : s[j] \in Toks
  BY LenProperties, ElementOfSeq
<1>2. ASSUME NEW j \in 1..Len(s)
      PROVE  /\ c[j] = IF s[j].k = "bad" THEN Token("empty", s[j].r, s[j].i, 0)
                      ELSE s[j]
             /\ c[j] \in Toks
  <2>1. c[j] = IF s[j].k = "bad" THEN Token("empty", s[j].r, s[j].i, 0)
               ELSE s[j]
    BY DEF Clean
  <2>2. s[j] \in Toks
    BY <1>1
  <2>3. /\ s[j].r \in Nat /\ s[j].i \in Nat
        /\ Token("empty", s[j].r, s[j].i, 0)
             = [k |-> "empty", r |-> s[j].r, i |-> s[j].i, n |-> 0]
    BY <2>2 DEF Token, Toks
  <2>4. Token("empty", s[j].r, s[j].i, 0) \in Toks
    <3>1. 0 \in Nat /\ "empty" \in Kinds
      BY DEF Kinds
    <3> QED BY <3>1, <2>3 DEF Toks
  <2> QED BY <2>1, <2>2, <2>4
<1>3. c = [j \in 1..Len(s) |-> c[j]]
  BY DEF Clean
<1>4. DOMAIN c = 1..Len(s)
  BY DEF Clean
<1> HIDE DEF c
<1>5. c \in [1..Len(s) -> Toks]
  BY <1>2, <1>3, Zenon
<1>6. c \in Seq(Toks) /\ Len(c) = Len(s)
  <2>1. c \in Seq(Toks)
    BY <1>1, <1>5, SeqDef
  <2>2. DOMAIN c = 1..Len(c) /\ Len(c) \in Nat /\ DOMAIN s = 1..Len(s)
    BY <2>1, LenProperties
  <2>3. DOMAIN c = DOMAIN s
    BY <1>4, <2>2
  <2> QED BY <2>1, <2>3, SameLength
<1>7. ASSUME NEW j \in 1..Len(s)
      PROVE  /\ IsTag(c[j]) <=> IsTag(s[j])
             /\ IsTag(s[j]) => c[j] = s[j]
  <2>1. CASE s[j].k = "bad"
    <3>1. c[j].k = "empty"
      <4>1. c[j] = Token("empty", s[j].r, s[j].i, 0)
        BY <2>1, <1>2
      <4>2. Token("empty", s[j].r, s[j].i, 0).k = "empty"
        BY DEF Token
      <4> QED BY <4>1, <4>2
    <3> QED BY <3>1, <2>1 DEF IsTag
  <2>2. CASE s[j].k # "bad"
    BY <2>2, <1>2
  <2> QED BY <2>1, <2>2
<1>8. Tags(c) = Tags(s)
  BY <1>6, <1>7, Zenon DEF Tags
<1>9. \A y \in Tags(s) : c[y] = s[y]
  BY <1>7 DEF Tags
<1>10. ASSUME \A j \in 1..Len(s) : s[j].k # "bad" PROVE c = s
  <2>1. \A j \in 1..Len(c) : c[j] = s[j]
    BY <1>2, <1>6, <1>10
  <2> QED BY <2>1, <1>6, SeqEqual
<1> QED BY <1>6, <1>8, <1>9, <1>10 DEF c

(* Parsing the cleaned text finds the same root as parsing the text. *)
LEMMA ParsedSame ==
  ASSUME NEW s \in Seq(Toks)
  PROVE  /\ Parsed(s) \in Seq(Toks)
         /\ RootEnd(Parsed(s)) = RootEnd(s)
         /\ RootEnd(s) # 0 => /\ Root(Parsed(s)) = Root(s)
                              /\ Parsed(s)[RootEnd(s)] = s[RootEnd(s)]
<1>1. Parsed(s) = s \/ Parsed(s) = Clean(s)
  BY DEF Parsed
<1>2. CASE Parsed(s) = s
  BY <1>2
<1>3. CASE Parsed(s) = Clean(s)
  <2> DEFINE c == Clean(s)
             T == Tags(s)
             a == MinOf(T)
             R == {i \in T : i > a}
             b == MinOf(R)
  <2>1. /\ c \in Seq(Toks) /\ Tags(c) = T /\ \A y \in T : c[y] = s[y]
    BY CleanSame
  <2>2. T \subseteq Nat /\ R \subseteq Nat
    BY DEF Tags
  <2>3. RootEnd(s) = IF T = {} \/ R = {} THEN 0
                     ELSE IF s[a].k = "open" /\ s[b].k = "close"
                     THEN b ELSE 0
    BY DEF RootEnd
  <2>4. RootEnd(c) = IF T = {} \/ R = {} THEN 0
                     ELSE IF c[a].k = "open" /\ c[b].k = "close"
                     THEN b ELSE 0
    BY <2>1 DEF RootEnd
  <2>5. T # {} => a \in T
    BY <2>2, MinOfSet
  <2>6. R # {} => b \in T
    BY <2>2, MinOfSet
  <2>7. Root(c) = c[a] /\ Root(s) = s[a]
    BY <2>1 DEF Root
  <2> HIDE DEF c, T, a, R, b
  <2>8. /\ c \in Seq(Toks) /\ RootEnd(c) = RootEnd(s)
        /\ RootEnd(s) # 0 => Root(c) = Root(s) /\ c[RootEnd(s)] = s[RootEnd(s)]
    BY <2>1, <2>3, <2>4, <2>5, <2>6, <2>7
  <2> QED BY <2>8, <1>3 DEF c
<1> QED BY <1>1, <1>2, <1>3

(* The element that was parsed is one reply: its end is not that of another
   one, when its own end was read or nothing behind it was. *)
LEMMA RootIsOne ==
  ASSUME NEW s \in Seq(Toks), RootEnd(s) # 0, Rising(s),
         \A x \in 1..Len(s) : FirstTag(s, x) /\ s[x].k = "open" =>
           \/ CloseIn(s, s[x].r)
           \/ \A j \in 1..Len(s) : s[j].r <= s[x].r
  PROVE  s[RootEnd(s)].r = Root(s).r
<1>1. PICK a \in Tags(s) : \E b \in Tags(s) :
        /\ a < b /\ FirstTag(s, a) /\ b = RootEnd(s) /\ Root(s) = s[a]
        /\ s[a].k = "open" /\ s[b].k = "close"
        /\ \A y \in Tags(s) : y = a \/ b <= y
  BY Parses
<1>2. PICK b \in Tags(s) :
        /\ a < b /\ FirstTag(s, a) /\ b = RootEnd(s) /\ Root(s) = s[a]
        /\ s[a].k = "open" /\ s[b].k = "close"
        /\ \A y \in Tags(s) : y = a \/ b <= y
  BY <1>1
<1>3. /\ a \in 1..Len(s) /\ b \in 1..Len(s) /\ Len(s) \in Nat
      /\ a \in Nat /\ b \in Nat
  BY LenProperties DEF Tags
<1>4. \A j \in 1..Len(s) : s[j] \in Toks /\ s[j].r \in Nat
  <2> TAKE j \in 1..Len(s)
  <2>1. s[j] \in Toks
    BY ElementOfSeq
  <2> QED BY <2>1 DEF Toks
<1>5. s[a].r <= s[b].r
  <2>1. Before(s[a], s[b])
    BY <1>2, <1>3 DEF Rising
  <2> QED BY <2>1, <1>3, <1>4 DEF Before
<1>6. s[b].r <= s[a].r
  <2>1. CASE CloseIn(s, s[a].r)
    <3>1. PICK m \in 1..Len(s) : s[m].k = "close" /\ s[m].r = s[a].r
      BY <2>1 DEF CloseIn
    <3>2. m \in Tags(s) /\ m # a
      BY <3>1, <1>2 DEF Tags, IsTag
    <3>3. b <= m
      BY <3>2, <1>2
    <3>4. CASE b = m
      BY <3>4, <3>1, <1>3, <1>4
    <3>5. CASE b # m
      <4>1. b < m
        BY <3>3, <3>5, <1>3
      <4>2. Before(s[b], s[m])
        BY <4>1, <1>3 DEF Rising
      <4> QED BY <4>2, <3>1, <1>3, <1>4 DEF Before
    <3> QED BY <3>4, <3>5
  <2>2. CASE \A j \in 1..Len(s) : s[j].r <= s[a].r
    BY <2>2, <1>3
  <2> QED BY <2>1, <2>2, <1>2, <1>3
<1> QED BY <1>2, <1>3, <1>4, <1>5, <1>6

(* An opening tag is the first token of its reply. *)
LEMMA OpensFirst ==
  ASSUME SentInv, NEW t \in Toks, Genuine(t), t.k = "open" \/ t.k = "close"
  PROVE  /\ InPayload(t) /\ t.r \in 1..Len(sent)
         /\ t.k = "open" <=> t.i = 1
         /\ t.k = "close" <=> t.i = Len(sent[t.r])
<1>1. InPayload(t)
  BY DEF InPayload
<1>2. t.r \in 1..Len(sent) /\ t.i \in 1..Len(sent[t.r]) /\ t = sent[t.r][t.i]
  BY <1>1 DEF Genuine
<1>3. ProperReply(sent[t.r], t.r)
  BY <1>2 DEF SentInv
<1> QED BY <1>1, <1>2, <1>3 DEF ProperReply

(* A reply that is returned is a later one than those returned before. *)
LEMMA FinishReplies ==
  ASSUME NetconfTypes, AskedInv, SentInv, RepliesInv,
         NEW s \in Seq(Toks), Finish(s), UNCHANGED <<msgId, sent>>,
         Ahead \in Seq(Toks), Ahead' \in Seq(Toks), AllGenuine(Ahead),
         NEW d, IsRest(Ahead', Ahead, d),
         AllGenuine(s), Rising(s), Behind(s),
         \A x \in 1..Len(s) : FirstTag(s, x) /\ s[x].k = "open" =>
           \/ CloseIn(s, s[x].r)
           \/ \A j \in 1..Len(s) : s[j].r <= s[x].r,
         \A i \in 1..Len(s), j \in 1..Len(Ahead') : Before(s[i], Ahead'[j])
  PROVE  RepliesInv' /\ replies' \in Seq([to : Nat, body : Seq(Toks)])
<1> DEFINE z == Ahead'
<1>1. /\ replies \in Seq([to : Nat, body : Seq(Toks)]) /\ msgId \in Nat
      /\ Len(replies) \in Nat /\ Len(sent) \in Nat /\ Len(rpcs) \in Nat
      /\ msgId' = msgId /\ sent' = sent /\ npc' = "idle"
      /\ sent \in Seq(Seq(Toks))
  <2>1. /\ replies \in Seq([to : Nat, body : Seq(Toks)]) /\ msgId \in Nat
        /\ sent \in Seq(Seq(Toks)) /\ rpcs \in Seq(Nat)
    BY DEF NetconfTypes
  <2> QED BY <2>1, LenProperties DEF Finish
<1>2. /\ RepliesInOrder /\ Behind(z)
      /\ \A j \in 1..Len(replies) : RootOf(j).r \in 1..Len(sent)
  <2>1. Behind(Ahead)
    BY DEF RepliesInv
  <2> QED BY <2>1, RestOfStream DEF RepliesInv
<1>3. z \in Seq(Toks)
  OBVIOUS
<1> HIDE DEF z
<1>4. CASE RootEnd(s) = 0
  <2>1. replies' = replies
    BY <1>4 DEF Finish
  <2> QED BY <2>1, <1>1, <1>2
          DEF RepliesInv, RepliesInOrder, Behind, RootOf, z, Chunking
<1>5. CASE RootEnd(s) # 0
  <2> DEFINE body == Parsed(s)
             e == [to |-> msgId, body |-> body]
             q == Root(s)
  <2>1. replies' = Append(replies, e)
    BY <1>5 DEF Finish
  <2>2. /\ body \in Seq(Toks) /\ Root(body) = q
        /\ body[RootEnd(body)] = s[RootEnd(s)]
    <3>1. /\ Parsed(s) \in Seq(Toks) /\ RootEnd(Parsed(s)) = RootEnd(s)
          /\ Root(Parsed(s)) = Root(s)
          /\ Parsed(s)[RootEnd(s)] = s[RootEnd(s)]
      BY <1>5, ParsedSame
    <3> QED BY <3>1
  <2>3. s[RootEnd(s)].r = q.r
    BY <1>5, RootIsOne
  <2>4. PICK a \in 1..Len(s) : q = s[a] /\ s[a].k = "open"
    <3>1. \E x, y \in Tags(s) :
            /\ x < y /\ FirstTag(s, x) /\ y = RootEnd(s) /\ Root(s) = s[x]
            /\ s[x].k = "open" /\ s[y].k = "close"
            /\ \A v \in Tags(s) : v = x \/ y <= v
      BY <1>5, Parses
    <3> QED BY <3>1 DEF Tags
  <2>5. q \in Toks /\ Genuine(q) /\ q.k = "open"
    <3>1. s[a] \in Toks
      BY ElementOfSeq
    <3> QED BY <3>1, <2>4 DEF AllGenuine
  <2> HIDE DEF body, q
  <2>6. q.r \in 1..Len(sent) /\ q.i = 1 /\ InPayload(q)
    BY <2>5, OpensFirst
  <2>7. q.r <= Len(sent) /\ q.r <= msgId /\ q.r \in Nat
    BY <2>6, <1>1 DEF AskedInv
  <2>8. \A j \in 1..Len(replies) : RootOf(j).r < q.r
    BY <2>4 DEF Behind
  <2>9. ASSUME NEW i \in 1..Len(z), z[i].k = "open" PROVE q.r < z[i].r
    <3>1. z[i] \in Toks /\ Genuine(z[i])
      <4>1. AllGenuine(z)
        BY RestOfStream DEF z
      <4> QED BY <4>1, <1>3, ElementOfSeq DEF AllGenuine
    <3>2. z[i].i = 1 /\ z[i].r \in Nat
      BY <3>1, <2>9, OpensFirst DEF Toks
    <3>3. Before(q, z[i])
      BY <2>4 DEF z
    <3> QED BY <3>2, <3>3, <2>5, <2>6, <2>7 DEF Before
  <2>10. /\ Len(replies') = Len(replies) + 1
         /\ \A j \in 1..Len(replies) : replies'[j] = replies[j]
         /\ replies'[Len(replies) + 1] = e
         /\ replies' \in Seq([to : Nat, body : Seq(Toks)])
    <3>1. e \in [to : Nat, body : Seq(Toks)]
      BY <1>1, <2>2
    <3> HIDE DEF e
    <3> QED BY <1>1, <2>1, <3>1, AppendProperties
  <2> DEFINE R(j) == Root(replies'[j].body)
  <2>11. ASSUME NEW j \in 1..Len(replies')
         PROVE  /\ R(j).r <= replies'[j].to
                /\ replies'[j].body[RootEnd(replies'[j].body)].r = R(j).r
                /\ R(j).r \in 1..Len(sent)
                /\ \A i \in 1..(j - 1) : R(i).r < R(j).r
                /\ \A i \in 1..Len(z) : z[i].k = "open" => R(j).r < z[i].r
    <3>1. CASE j \in 1..Len(replies)
      <4>1. /\ replies'[j] = replies[j]
            /\ \A i \in 1..(j - 1) : replies'[i] = replies[i]
        <5>1. \A i \in 1..(j - 1) : i \in 1..Len(replies)
          BY <3>1, <1>1
        <5> QED BY <5>1, <3>1, <2>10
      <4>2. /\ Root(replies[j].body).r <= replies[j].to
            /\ replies[j].body[RootEnd(replies[j].body)].r
                 = Root(replies[j].body).r
            /\ \A i \in 1..(j - 1) :
                 Root(replies[i].body).r < Root(replies[j].body).r
        BY <3>1, <1>2 DEF RepliesInOrder
      <4>3. /\ Root(replies[j].body).r \in 1..Len(sent)
            /\ \A i \in 1..Len(z) : z[i].k = "open" =>
                 Root(replies[j].body).r < z[i].r
        BY <3>1, <1>2 DEF RootOf, Behind
      <4> QED BY <4>1, <4>2, <4>3
    <3>2. CASE j = Len(replies) + 1
      <4>1. replies'[j].to = msgId /\ replies'[j].body = body
        BY <3>2, <2>10
      <4>2. R(j) = q
        BY <4>1, <2>2
      <4>3. ASSUME NEW i \in 1..(j - 1) PROVE R(i).r < q.r
        <5>1. i \in 1..Len(replies)
          BY <3>2, <1>1
        <5> QED BY <5>1, <2>8, <2>10 DEF RootOf
      <4> QED BY <4>1, <4>2, <4>3, <2>2, <2>3, <2>6, <2>7, <2>9
    <3> QED BY <3>1, <3>2, <2>10, <1>1
  <2>12. RepliesInOrder'
    BY <2>11 DEF RepliesInOrder
  <2>13. /\ \A j \in 1..Len(replies') :
              Root(replies'[j].body).r \in 1..Len(sent')
         /\ \A j \in 1..Len(replies'), i \in 1..Len(Ahead') :
              Ahead'[i].k = "open" => Root(replies'[j].body).r < Ahead'[i].r
    BY <2>11, <1>1 DEF z
  <2> QED BY <2>10, <2>12, <2>13, <1>1
          DEF RepliesInv, Behind, RootOf, Chunking
<1> QED BY <1>4, <1>5

---------------------------------------------------------------------------
(* The steps that leave what is ahead of the reader as it is.              *)

(* What is ahead is a sequence of tokens, and its length adds up. *)
LEMMA AheadTypes ==
  ASSUME NetconfTypes
  PROVE  /\ Arrived \in Seq(Toks) /\ Ahead \in Seq(Toks)
         /\ Len(Arrived) \in Nat /\ Len(Ahead) \in Nat
         /\ Len(Arrived) = Len(nbuf) + Len(pipe)
         /\ Len(Ahead) = Len(Arrived) + Len(out)
         /\ Len(nbuf) \in Nat /\ Len(pipe) \in Nat /\ Len(out) \in Nat
         /\ Len(acc) \in Nat /\ Len(sent) \in Nat /\ Len(rpcs) \in Nat
         /\ Len(replies) \in Nat
<1>1. /\ pipe \in Seq(Toks) /\ nbuf \in Seq(Toks) /\ out \in Seq(Toks)
      /\ acc \in Seq(Toks) /\ rpcs \in Seq(Nat) /\ sent \in Seq(Seq(Toks))
      /\ replies \in Seq([to : Nat, body : Seq(Toks)])
  BY DEF NetconfTypes
<1>2. Three(nbuf, pipe, out)
  BY <1>1, ThreeJoined
<1>3. /\ Len(acc) \in Nat /\ Len(sent) \in Nat /\ Len(rpcs) \in Nat
      /\ Len(replies) \in Nat
  BY <1>1, LenProperties
<1> QED BY <1>2, <1>3 DEF Three, Arrived, Ahead

(* Before the hellos are read nothing was asked and nothing answered. *)
LEMMA NetconfInitInv == NetconfInit => NetconfInv
<1> SUFFICES ASSUME NetconfInit PROVE NetconfInv
  OBVIOUS
<1>1. NetconfTypes
  <2>1. pipe \in Seq(Toks)
    <3>1. /\ Token("hello", 0, 0, server) \in Toks
          /\ Token("eom", 0, 0, 0) \in Toks
      BY DEF NetconfInit, Token, Toks, Kinds
    <3> QED BY <3>1 DEF NetconfInit
  <2>2. /\ server \in {0, 10, 11} /\ ver = 0 /\ npc = "hello" /\ need = 0
        /\ nbuf = <<>> /\ acc = <<>> /\ out = <<>> /\ rpcs = <<>>
        /\ sent = <<>> /\ replies = <<>> /\ msgId = 0 /\ failed = FALSE
    BY DEF NetconfInit
  <2>3. <<>> \in Seq(Toks) /\ <<>> \in Seq(Nat) /\ <<>> \in Seq(Seq(Toks))
        /\ <<>> \in Seq([to : Nat, body : Seq(Toks)])
    BY EmptySeq
  <2>4. failed \in BOOLEAN
    BY <2>2
  <2> QED BY <2>1, <2>2, <2>3, <2>4 DEF NetconfTypes
<1>2. npc = "hello" /\ ~failed /\ replies = <<>> /\ sent = <<>> /\ out = <<>>
      /\ rpcs = <<>> /\ msgId = 0
  BY DEF NetconfInit
<1>3. Len(sent) = 0 /\ Len(replies) = 0 /\ Len(rpcs) = 0
  BY <1>2
<1>4. HelloInv /\ AskedInv /\ SentInv /\ OutInv /\ StreamInv /\ HeldInv
  BY <1>2, <1>3 DEF NetconfInit, HelloInv, AskedInv, SentInv, OutInv,
                    StreamInv, HeldInv, Connected, Chunking
<1>5. ChunkInv
  <2> DEFINE h == Token("hello", 0, 0, server)
             e == Token("eom", 0, 0, 0)
  <2>1. h.k = "hello" /\ e.k = "eom" /\ h \in Toks /\ e \in Toks
    BY DEF NetconfInit, Token, Toks, Kinds
  <2> HIDE DEF h, e
  <2>2. Three(<<>>, <<h, e>>, <<>>)
    <3>1. <<h, e>> \in Seq(Toks) /\ <<>> \in Seq(Toks)
      BY <2>1
    <3> QED BY <3>1, ThreeJoined
  <2>3. Ahead = (<<>> \o <<h, e>>) \o <<>>
    BY <1>2 DEF Ahead, Arrived, NetconfInit, h, e
  <2>4. Len(Ahead) = 2 /\ Ahead[1] = h /\ Ahead[2] = e
    BY <2>2, <2>3 DEF Three
  <2>5. \A j \in 1..Len(Ahead) : Ahead[j].k \notin {"size", "end"}
    BY <2>1, <2>4
  <2> QED BY <2>5, <1>2 DEF ChunkInv, Connected
<1>6. RepliesInv
  <2>1. \A j \in 1..Len(replies) : FALSE
    BY <1>3
  <2> QED BY <2>1, <1>2 DEF RepliesInv, RepliesInOrder, Behind, Chunking
<1>7. ExactInv
  BY <1>2, <1>3 DEF ExactInv, ReplyExact, Connected
<1> QED BY <1>1, <1>4, <1>5, <1>6, <1>7 DEF NetconfInv

(* Deliver moves tokens from the wire to the buffer: nothing ahead changes. *)
LEMMA DeliverKeeps == ASSUME NetconfInv, Deliver PROVE NetconfInv'
<1>1. PICK n \in 1..Len(pipe) :
        nbuf' = nbuf \o Upto(pipe, n) /\ pipe' = From(pipe, n + 1)
  BY DEF Deliver
<1>2. UNCHANGED <<server, ver, npc, need, acc, msgId, rpcs, out, sent,
                  replies, failed>>
  BY DEF Deliver
<1>3. pipe \in Seq(Toks) /\ nbuf \in Seq(Toks) /\ Len(pipe) \in Nat
  BY LenProperties DEF NetconfInv, NetconfTypes
<1>4. /\ Upto(pipe, n) \in Seq(Toks) /\ From(pipe, n + 1) \in Seq(Toks)
      /\ pipe = Upto(pipe, n) \o From(pipe, n + 1)
  <2>1. n \in 0..Len(pipe)
    BY <1>3
  <2> QED BY <2>1, <1>3, CutInTwo DEF Upto, From
<1>5. Arrived' = Arrived
  <2>1. (nbuf \o Upto(pipe, n)) \o From(pipe, n + 1)
          = nbuf \o (Upto(pipe, n) \o From(pipe, n + 1))
    <3> DEFINE u == Upto(pipe, n)
               f == From(pipe, n + 1)
    <3>1. u \in Seq(Toks) /\ f \in Seq(Toks) /\ nbuf \in Seq(Toks)
      BY <1>3, <1>4
    <3> HIDE DEF u, f
    <3>2. (nbuf \o u) \o f = nbuf \o (u \o f)
      BY ONLY <3>1, ConcatAssociative, SMTT(30)
    <3> QED BY <3>2 DEF u, f
  <2> QED BY <2>1, <1>1, <1>4 DEF Arrived
<1>6. Ahead' = Ahead
  BY <1>2, <1>5 DEF Ahead
<1>7. NetconfTypes'
  <2>1. nbuf' \in Seq(Toks)
    BY <1>1, <1>3, <1>4, ConcatProperties
  <2> QED BY <2>1, <1>1, <1>2, <1>4 DEF NetconfInv, NetconfTypes
<1>8. HelloInv'
  <2> DEFINE h == Token("hello", 0, 0, server)
             e == Token("eom", 0, 0, 0)
  <2>1. ASSUME npc = "hello"
        PROVE  \/ nbuf' = <<>> /\ pipe' = <<h, e>>
               \/ nbuf' = <<h>> /\ pipe' = <<e>>
               \/ nbuf' = <<h, e>> /\ pipe' = <<>>
    <3>1. \/ nbuf = <<>> /\ pipe = <<h, e>>
          \/ nbuf = <<h>> /\ pipe = <<e>>
          \/ nbuf = <<h, e>> /\ pipe = <<>>
      BY <2>1 DEF NetconfInv, HelloInv
    <3> HIDE DEF h, e
    <3>2. CASE nbuf = <<>> /\ pipe = <<h, e>>
      <4>1. \/ Upto(pipe, n) = <<h>> /\ From(pipe, n + 1) = <<e>>
            \/ Upto(pipe, n) = <<h, e>> /\ From(pipe, n + 1) = <<>>
        BY <3>2, PortionOfTwo DEF Upto, From
      <4> QED BY ONLY <4>1, <3>2, <1>1, OneAndTwo
    <3>3. CASE nbuf = <<h>> /\ pipe = <<e>>
      <4>1. Upto(pipe, n) = <<e>> /\ From(pipe, n + 1) = <<>>
        BY <3>3, Portion DEF Upto, From
      <4>2. <<h>> \o <<e>> = <<h, e>>
        BY OneAndTwo
      <4> QED BY ONLY <4>1, <4>2, <3>3, <1>1
    <3>4. CASE nbuf = <<h, e>> /\ pipe = <<>>
      <4>1. Len(pipe) = 0
        BY <3>4
      <4> QED BY <4>1
    <3> QED BY <3>1, <3>2, <3>3, <3>4
  <2> QED BY <2>1, <1>2 DEF NetconfInv, HelloInv, Connected, Chunking
<1>9. AskedInv' /\ SentInv' /\ OutInv' /\ StreamInv'
  BY <1>2, <1>6 DEF NetconfInv, AskedInv, SentInv, OutInv, StreamInv,
                    Connected, AllGenuine, Genuine
<1>10. ChunkInv' /\ HeldInv'
  BY <1>2, <1>5, <1>6
     DEF NetconfInv, ChunkInv, HeldInv, Connected, Chunking, AllGenuine,
         Genuine, Aligned
<1>11. RepliesInv' /\ ExactInv'
  BY <1>2, <1>5, <1>6
     DEF NetconfInv, RepliesInv, ExactInv, RepliesInOrder, ReplyExact,
         Behind, RootOf, Connected, Chunking, Aligned
<1> QED BY <1>7, <1>8, <1>9, <1>10, <1>11 DEF NetconfInv

(* A read that fails ends the call, and the exactness with it. *)
LEMMA ReadGivesUpKeeps == ASSUME NetconfInv, ReadGivesUp PROVE NetconfInv'
<1>1. /\ UNCHANGED <<server, ver, pipe, nbuf, need, acc, msgId, rpcs, out,
                     sent, replies>>
      /\ npc' = (IF npc = "hello" THEN "closed" ELSE "idle") /\ failed'
      /\ npc \in {"hello", "eom", "size", "data"}
      /\ Arrived' = Arrived /\ Ahead' = Ahead
  BY DEF ReadGivesUp, Reading, Arrived, Ahead
<1>2. NetconfTypes' /\ HelloInv' /\ AskedInv' /\ SentInv' /\ OutInv'
  BY <1>1 DEF NetconfInv, NetconfTypes, HelloInv, AskedInv, SentInv, OutInv,
              Connected, Chunking
<1>3. StreamInv' /\ ChunkInv' /\ HeldInv'
  BY <1>1 DEF NetconfInv, StreamInv, ChunkInv, HeldInv, Connected, Chunking,
              AllGenuine, Genuine
<1>4. RepliesInv' /\ ExactInv'
  BY <1>1 DEF NetconfInv, RepliesInv, ExactInv, RepliesInOrder, ReplyExact,
              Behind, RootOf, Chunking
<1> QED BY <1>2, <1>3, <1>4 DEF NetconfInv

(* A new request adds its number to what is asked. *)
LEMMA ExecuteKeeps == ASSUME NetconfInv, Execute PROVE NetconfInv'
<1>1. /\ UNCHANGED <<server, ver, pipe, nbuf, need, out, sent, replies,
                     failed>>
      /\ npc = "idle" /\ npc' = (IF ver = 10 THEN "eom" ELSE "size")
      /\ msgId' = msgId + 1 /\ rpcs' = Append(rpcs, msgId + 1)
      /\ acc' = <<>> /\ Arrived' = Arrived /\ Ahead' = Ahead
  BY DEF Execute, Arrived, Ahead
<1>2. /\ server \in {10, 11} /\ ver = server /\ Connected /\ Connected'
      /\ msgId \in Nat /\ rpcs \in Seq(Nat)
      /\ Len(sent) \in Nat /\ Len(rpcs) \in Nat /\ Len(replies) \in Nat
  BY <1>1, AheadTypes DEF NetconfInv, HelloInv, Connected, NetconfTypes
<1>3. /\ rpcs' \in Seq(Nat) /\ Len(rpcs') = Len(rpcs) + 1
      /\ \A j \in 1..Len(rpcs) : rpcs'[j] = rpcs[j]
      /\ rpcs'[Len(rpcs) + 1] = msgId + 1
  BY <1>1, <1>2, AppendProperties
<1>4. NetconfTypes'
  <2>1. <<>> \in Seq(Toks)
    BY EmptySeq
  <2> QED BY <2>1, <1>1, <1>2, <1>3 DEF NetconfInv, NetconfTypes
<1>5. HelloInv' /\ SentInv' /\ OutInv'
  BY <1>1, <1>2 DEF NetconfInv, HelloInv, SentInv, OutInv, Connected,
                    Chunking
<1>6. AskedInv'
  <2>1. /\ msgId = Len(sent) + Len(rpcs)
        /\ \A j \in 1..Len(rpcs) : rpcs[j] = Len(sent) + j
    BY DEF NetconfInv, AskedInv
  <2>2. ASSUME NEW j \in 1..Len(rpcs') PROVE rpcs'[j] = Len(sent) + j
    <3>1. j \in 1..Len(rpcs) \/ j = Len(rpcs) + 1
      BY <1>2, <1>3
    <3> QED BY <3>1, <2>1, <1>2, <1>3
  <2> QED BY <2>1, <2>2, <1>1, <1>2, <1>3 DEF AskedInv
<1>7. StreamInv' /\ ChunkInv'
  BY <1>1, <1>2 DEF NetconfInv, StreamInv, ChunkInv, Connected, AllGenuine,
                    Genuine
<1>8. HeldInv'
  <2>1. Len(acc') = 0 /\ npc' # "data"
    BY <1>1
  <2>2. \A j \in 1..Len(acc') : FALSE
    BY <2>1
  <2> QED BY <2>1, <2>2 DEF HeldInv, AllGenuine, Rising
<1>9. RepliesInv'
  <2>1. \A j \in 1..Len(acc') : FALSE
    BY <1>1
  <2> QED BY <2>1, <1>1
          DEF NetconfInv, RepliesInv, RepliesInOrder, Behind, RootOf
<1>10. ExactInv'
  <2>1. ReplyExact'
    BY <1>1 DEF NetconfInv, ExactInv, ReplyExact
  <2>2. ASSUME ~failed
        PROVE  /\ Len(replies) = (msgId + 1) - 1 /\ msgId + 1 > 0
               /\ Len(rpcs') = 1 /\ Ahead = <<>>
    <3>1. Ahead = <<>> /\ rpcs = <<>> /\ Len(replies) = msgId
      BY <2>2, <1>1, <1>2 DEF NetconfInv, ExactInv
    <3>2. Len(rpcs) = 0
      BY <3>1
    <3> QED BY <3>1, <3>2, <1>2, <1>3
  <2>3. npc' \in {"eom", "size"}
    BY <1>1
  <2> QED BY <2>1, <2>2, <2>3, <1>1 DEF ExactInv
<1> QED BY <1>4, <1>5, <1>6, <1>7, <1>8, <1>9, <1>10 DEF NetconfInv

(* Connect reads the device's hello and agrees on a framing. *)
LEMMA ReadHelloKeeps == ASSUME NetconfInv, ReadHello PROVE NetconfInv'
<1> DEFINE h == Token("hello", 0, 0, server)
           e == Token("eom", 0, 0, 0)
<1>1. /\ npc = "hello" /\ EomMatches # {}
      /\ nbuf' = From(nbuf, MinOf(EomMatches) + 1)
      /\ IF nbuf[1].n = 0
         THEN npc' = "closed" /\ failed' = TRUE /\ UNCHANGED ver
         ELSE npc' = "idle" /\ ver' = nbuf[1].n /\ UNCHANGED failed
      /\ UNCHANGED <<server, pipe, need, acc, msgId, rpcs, out, sent,
                     replies>>
  BY DEF ReadHello
<1>2. /\ h.k = "hello" /\ h.n = server /\ e.k = "eom"
      /\ server \in {0, 10, 11} /\ ver \in {0, 10, 11}
  BY DEF Token, NetconfInv, NetconfTypes
<1>3. \/ nbuf = <<>> /\ pipe = <<h, e>>
      \/ nbuf = <<h>> /\ pipe = <<e>>
      \/ nbuf = <<h, e>> /\ pipe = <<>>
  BY <1>1 DEF NetconfInv, HelloInv
<1> HIDE DEF h, e
<1>4. PICK m \in 1..Len(nbuf) : nbuf[m].k = "eom"
  BY <1>1 DEF EomMatches
<1>5. nbuf = <<h, e>> /\ pipe = <<>>
  <2>1. nbuf # <<>>
    <3>1. ASSUME nbuf = <<>> PROVE FALSE
      <4>1. Len(nbuf) = 0
        BY <3>1
      <4> QED BY <4>1, <1>4
    <3> QED BY <3>1
  <2>2. nbuf # <<h>>
    <3>1. ASSUME nbuf = <<h>> PROVE FALSE
      <4>1. Len(nbuf) = 1 /\ nbuf[1] = h
        BY <3>1
      <4>2. m = 1
        BY <4>1, <1>4
      <4> QED BY <4>1, <4>2, <1>2, <1>4
    <3> QED BY <3>1
  <2> QED BY <2>1, <2>2, <1>3, Zenon
<1>6. Len(nbuf) = 2 /\ nbuf[1] = h /\ nbuf[2] = e
  BY <1>5
<1>7. MinOf(EomMatches) = 2
  <2>1. MinOf(EomMatches) \in EomMatches
    <3>1. EomMatches \subseteq Nat
      BY <1>6 DEF EomMatches
    <3> QED BY <3>1, <1>1, MinOfSet
  <2>2. MinOf(EomMatches) \in 1..2 /\ nbuf[MinOf(EomMatches)].k = "eom"
    BY <2>1, <1>6 DEF EomMatches
  <2> HIDE DEF EomMatches
  <2> DEFINE m0 == MinOf(EomMatches)
  <2>3. m0 \in 1..2 /\ nbuf[m0].k = "eom"
    BY <2>2
  <2> HIDE DEF m0
  <2>4. m0 = 1 \/ m0 = 2
    BY <2>3
  <2>5. m0 # 1
    BY <2>3, <1>2, <1>6
  <2> QED BY <2>4, <2>5 DEF m0
<1>8. nbuf' = <<>>
  <2>1. From(<<h, e>>, 2 + 1) = SubSeq(<<h, e>>, 3, 2)
    BY <1>5, <1>6 DEF From
  <2>2. SubSeq(<<h, e>>, 3, 2) = <<>>
    BY OneAndTwo
  <2> QED BY <2>1, <2>2, <1>1, <1>5, <1>7
<1>9. /\ rpcs = <<>> /\ out = <<>> /\ sent = <<>> /\ msgId = 0
      /\ replies = <<>> /\ ~failed /\ Len(replies) = 0 /\ Len(sent) = 0
  BY <1>1 DEF NetconfInv, HelloInv, Connected
<1>10. Arrived' = <<>> /\ Ahead' = <<>>
  <2>1. pipe' = <<>> /\ out' = <<>> /\ nbuf' = <<>>
    BY <1>1, <1>5, <1>8, <1>9
  <2>2. <<>> \o <<>> = <<>>
    <3>1. <<>> \in Seq(Toks)
      BY EmptySeq
    <3> QED BY <3>1, ConcatEmptySeq
  <2> QED BY <2>1, <2>2 DEF Arrived, Ahead
<1>11. \A j \in 1..Len(Ahead') : FALSE
  BY <1>10
<1>12. \/ /\ server = 0 /\ npc' = "closed" /\ failed' = TRUE /\ ver' = ver
       \/ /\ server \in {10, 11} /\ npc' = "idle" /\ ver' = server
          /\ failed' = failed
  BY <1>1, <1>2, <1>6
<1>13. NetconfTypes'
  <2>1. <<>> \in Seq(Toks)
    BY EmptySeq
  <2>2. failed' \in BOOLEAN
    BY <1>12 DEF NetconfInv, NetconfTypes
  <2> QED BY <2>1, <2>2, <1>1, <1>2, <1>8, <1>12
          DEF NetconfInv, NetconfTypes
<1>14. HelloInv' /\ AskedInv' /\ SentInv' /\ OutInv'
  <2>1. AskedInv' /\ SentInv' /\ OutInv'
    BY <1>1 DEF NetconfInv, AskedInv, SentInv, OutInv
  <2> QED BY <2>1, <1>1, <1>9, <1>12 DEF HelloInv, Connected, Chunking
<1>15. StreamInv' /\ ChunkInv' /\ HeldInv'
  <2>1. Len(Arrived') = 0
    BY <1>10
  <2>2. \A j \in 1..Len(Arrived') : FALSE
    BY <2>1
  <2> QED BY <2>2, <1>1, <1>9, <1>11, <1>12
          DEF StreamInv, ChunkInv, HeldInv, AllGenuine, Rising, Closed,
              Chunked, Chunking
<1>16. RepliesInv' /\ ExactInv'
  <2>1. \A j \in 1..Len(replies') : FALSE
    BY <1>1, <1>9
  <2>2. RepliesInv'
    BY <2>1, <1>12 DEF RepliesInv, RepliesInOrder, Behind, Chunking
  <2>3. ExactInv'
    BY <2>1, <1>1, <1>9, <1>10, <1>12 DEF ExactInv, ReplyExact, Connected
  <2> QED BY <2>2, <2>3
<1> QED BY <1>13, <1>14, <1>15, <1>16 DEF NetconfInv

---------------------------------------------------------------------------
(* The device answers.                                                     *)

\* The tokens of a payload, as Answer makes them.
Tokens(kinds, r) == [i \in 1..Len(kinds) |-> Token(kinds[i], r, i, 3)]

(* A payload begins with its only opening tag and ends with its closing one. *)
LEMMA TokensProper ==
  ASSUME ProperPayloads, NEW kinds \in Payloads, NEW r \in Nat
  PROVE  ProperReply(Tokens(kinds, r), r)
<1> DEFINE p == Tokens(kinds, r)
<1>1. /\ kinds \in Seq(Text \cup {"open", "close"}) /\ Len(kinds) > 1
      /\ kinds[1] = "open" /\ kinds[Len(kinds)] = "close"
      /\ \A i \in 2..(Len(kinds) - 1) : kinds[i] \in Text
  BY DEF ProperPayloads
<1>2. Len(kinds) \in Nat
  BY <1>1, LenProperties
<1>3. ASSUME NEW j \in 1..Len(kinds)
      PROVE  /\ p[j] = Token(kinds[j], r, j, 3)
             /\ kinds[j] \in Text \cup {"open", "close"}
             /\ p[j] \in Toks
             /\ p[j].k = kinds[j] /\ p[j].r = r /\ p[j].i = j
  <2>1. p[j] = [k |-> kinds[j], r |-> r, i |-> j, n |-> 3]
    BY DEF Tokens, Token
  <2>2. kinds[j] \in Text \cup {"open", "close"}
    BY <1>1, ElementOfSeq
  <2>3. j \in Nat /\ kinds[j] \in Kinds
    BY <2>2 DEF Kinds
  <2> HIDE DEF p
  <2>4. p[j] \in Toks
    BY <2>1, <2>3 DEF Toks
  <2>5. p[j] = Token(kinds[j], r, j, 3)
    BY <2>1 DEF Token
  <2> QED BY <2>1, <2>2, <2>4, <2>5
<1>4. DOMAIN p = 1..Len(kinds) /\ p = [j \in 1..Len(kinds) |-> p[j]]
  BY DEF Tokens
<1> HIDE DEF p
<1>5. p \in Seq(Toks) /\ Len(p) = Len(kinds)
  <2>1. p \in [1..Len(kinds) -> Toks]
    BY <1>3, <1>4, Zenon
  <2>2. p \in Seq(Toks)
    BY <2>1, <1>2, SeqDef
  <2>3. DOMAIN kinds = 1..Len(kinds)
    BY <1>1, LenProperties
  <2> QED BY <2>2, <2>3, <1>1, <1>4, SameLength
<1>6. ASSUME NEW j \in 1..Len(p)
      PROVE  /\ p[j].r = r /\ p[j].i = j
             /\ p[j].k \notin {"eom", "size", "end"}
             /\ p[j].k = "open" <=> j = 1
             /\ p[j].k = "close" <=> j = Len(p)
  <2>1. /\ p[j].k = kinds[j] /\ p[j].r = r /\ p[j].i = j
        /\ kinds[j] \in Text \cup {"open", "close"}
    BY <1>3, <1>5
  <2>2. j = 1 \/ j = Len(kinds) \/ j \in 2..(Len(kinds) - 1)
    BY <1>2, <1>5
  <2>3. j \in 2..(Len(kinds) - 1) => kinds[j] \in Text
    BY <1>1
  <2> QED BY <2>1, <2>2, <2>3, <1>1, <1>2, <1>5 DEF Text
<1> QED BY <1>1, <1>5, <1>6 DEF ProperReply, p

\* What is added behind a stream: the r-th reply, and its marker in 1.0.
Reply(q, p, r) ==
  /\ q \in Seq(Toks) /\ Len(p) <= Len(q) /\ Len(q) <= Len(p) + 1
  /\ \A j \in 1..Len(p) : q[j] = p[j]
  /\ Len(q) = Len(p) + 1 =>
       q[Len(q)].k = "eom" /\ q[Len(q)].r = r /\ q[Len(q)].i = Len(p) + 1

(* What the device sends for a reply: its payload, and the mark of 1.0. *)
LEMMA ReplyTokens ==
  ASSUME NEW q, NEW p, NEW r \in Nat, ProperReply(p, r), Reply(q, p, r)
  PROVE  /\ Len(p) \in Nat /\ Len(q) \in Nat /\ Len(p) > 1
         /\ \A j \in 1..Len(q) :
              /\ q[j].r = r /\ q[j].i = j /\ q[j].k \notin {"size", "end"}
              /\ InPayload(q[j]) <=> j <= Len(p)
              /\ q[j].k = "open" <=> j = 1
              /\ q[j].k = "close" <=> j = Len(p)
<1>1. Len(p) \in Nat /\ Len(q) \in Nat /\ Len(p) > 1
  BY LenProperties DEF ProperReply, Reply
<1>2. ASSUME NEW j \in 1..Len(q)
      PROVE  /\ q[j].r = r /\ q[j].i = j /\ q[j].k \notin {"size", "end"}
             /\ InPayload(q[j]) <=> j <= Len(p)
             /\ q[j].k = "open" <=> j = 1
             /\ q[j].k = "close" <=> j = Len(p)
  <2>1. CASE j <= Len(p)
    <3>1. j \in 1..Len(p)
      BY <2>1, <1>1
    <3>2. q[j] = p[j]
      BY <3>1 DEF Reply
    <3>3. /\ p[j].r = r /\ p[j].i = j /\ p[j].k \notin {"eom", "size", "end"}
          /\ p[j].k = "open" <=> j = 1
          /\ p[j].k = "close" <=> j = Len(p)
      BY <3>1 DEF ProperReply
    <3> QED BY <2>1, <3>2, <3>3 DEF InPayload
  <2>2. CASE ~(j <= Len(p))
    <3>1. j = Len(p) + 1 /\ Len(q) = j
      BY <2>2, <1>1 DEF Reply
    <3>2. q[j].k = "eom" /\ q[j].r = r /\ q[j].i = j
      BY <3>1 DEF Reply
    <3> QED BY <3>1, <3>2, <2>2, <1>1 DEF InPayload
  <2> QED BY <2>1, <2>2
<1> QED BY <1>1, <1>2

\* A stream s that gets q behind it, the reply p to the next request.
Added(s, q, p) ==
  /\ s \o q \in Seq(Toks) /\ Rising(s \o q) /\ Closed(s \o q)
  /\ Len(s \o q) = Len(s) + Len(q)
  /\ \A j \in 1..Len(s) : (s \o q)[j] = s[j]
  /\ \A j \in 1..Len(s \o q) :
       \/ j \in 1..Len(s) /\ (s \o q)[j] = s[j]
       \/ /\ j > Len(s) /\ j - Len(s) \in 1..Len(q)
          /\ (s \o q)[j] = q[j - Len(s)]
  /\ \A t \in Toks : Genuine(t) => t.r <= Len(sent) /\ Genuine(t)'
  /\ \A j \in 1..Len(q) : /\ q[j] \in Toks /\ q[j].r = Len(sent) + 1
                          /\ sent'[q[j].r] = p /\ q[j].r \in 1..Len(sent')
  /\ SentInv' /\ sent' \in Seq(Seq(Toks))
  /\ Len(sent') = Len(sent) + 1 /\ sent'[Len(sent) + 1] = p
  /\ \A j \in 1..Len(sent) : sent'[j] = sent[j]

(* A reply that is added behind a stream keeps the stream in order. *)
LEMMA ReplyAdded ==
  ASSUME NEW z \in Seq(Toks), NEW q \in Seq(Toks), NEW p,
         sent \in Seq(Seq(Toks)), SentInv,
         sent' = Append(sent, p), ProperReply(p, Len(sent) + 1),
         Reply(q, p, Len(sent) + 1),
         AllGenuine(z), Rising(z), Closed(z)
  PROVE  Added(z, q, p)
<1> DEFINE zz == z \o q
           L == Len(sent)
<1>1. /\ L \in Nat /\ Len(z) \in Nat /\ Len(q) \in Nat /\ Len(p) \in Nat
      /\ Len(p) > 1 /\ p \in Seq(Toks)
  BY LenProperties DEF ProperReply
<1>2. \A j \in 1..Len(q) :
        /\ q[j].r = L + 1 /\ q[j].i = j /\ q[j].k \notin {"size", "end"}
        /\ InPayload(q[j]) <=> j <= Len(p)
        /\ q[j].k = "open" <=> j = 1
        /\ q[j].k = "close" <=> j = Len(p)
  BY <1>1, ReplyTokens
<1>3. /\ sent' \in Seq(Seq(Toks)) /\ Len(sent') = L + 1 /\ sent'[L + 1] = p
      /\ \A j \in 1..L : sent'[j] = sent[j]
  BY <1>1, AppendProperties
<1>4. /\ zz \in Seq(Toks) /\ Len(zz) = Len(z) + Len(q)
      /\ \A j \in 1..Len(z) : zz[j] = z[j]
      /\ \A j \in (Len(z) + 1)..(Len(z) + Len(q)) : zz[j] = q[j - Len(z)]
  BY Joined
<1> HIDE DEF zz, L
<1>5. ASSUME NEW j \in 1..Len(zz)
      PROVE  \/ j \in 1..Len(z) /\ zz[j] = z[j]
             \/ /\ j > Len(z) /\ j - Len(z) \in 1..Len(q)
                /\ zz[j] = q[j - Len(z)]
  <2>1. \/ j \in 1..Len(z)
        \/ /\ j > Len(z) /\ j - Len(z) \in 1..Len(q)
           /\ j \in (Len(z) + 1)..(Len(z) + Len(q))
    BY <1>1, <1>4
  <2> QED BY <2>1, <1>4
<1>6. \A t \in Toks : Genuine(t) => t.r \in 1..L
  BY DEF Genuine, L
<1>7. \A t \in Toks : Genuine(t) => Genuine(t)'
  <2> SUFFICES ASSUME NEW t \in Toks, Genuine(t) PROVE Genuine(t)'
    OBVIOUS
  <2>1. t.r \in 1..L /\ sent'[t.r] = sent[t.r] /\ t.r \in 1..Len(sent')
    BY <1>1, <1>3, <1>6
  <2> QED BY <2>1 DEF Genuine, L
<1>8. \A j \in 1..Len(z) : z[j] \in Toks /\ z[j].r \in 1..L
  BY <1>6, ElementOfSeq DEF AllGenuine
<1>9. Rising(zz)
  <2> SUFFICES ASSUME NEW i \in 1..Len(zz), NEW j \in 1..Len(zz), i < j
               PROVE  Before(zz[i], zz[j])
    BY DEF Rising
  <2>1. CASE j \in 1..Len(z)
    <3>1. i \in 1..Len(z)
      BY <2>1, <1>1, <1>4
    <3> QED BY <3>1, <2>1, <1>4 DEF Rising
  <2>2. CASE j > Len(z) /\ i \in 1..Len(z)
    <3>1. zz[j].r = L + 1
      <4>1. PICK x \in 1..Len(q) : zz[j] = q[x]
        <5>1. j \notin 1..Len(z)
          BY <2>2, <1>1
        <5> QED BY <5>1, <1>5
      <4>2. q[x].r = L + 1
        BY <1>2
      <4> QED BY <4>1, <4>2
    <3>2. zz[i].r \in 1..L
      BY <2>2, <1>4, <1>8
    <3> QED BY <3>1, <3>2, <1>1 DEF Before
  <2>3. CASE i > Len(z)
    <3> DEFINE x == i - Len(z)
               y == j - Len(z)
    <3>1. x \in 1..Len(q) /\ y \in 1..Len(q) /\ x < y
          /\ zz[i] = q[x] /\ zz[j] = q[y]
      BY <2>3, <1>1, <1>4, <1>5
    <3> HIDE DEF x, y
    <3>2. q[x].r = q[y].r /\ q[x].i < q[y].i /\ q[x].i <= q[y].i
      <4>1. q[x].r = L + 1 /\ q[y].r = L + 1 /\ q[x].i = x /\ q[y].i = y
        BY <3>1, <1>2
      <4>2. x \in Nat /\ y \in Nat /\ x < y
        BY <3>1, <1>1
      <4> QED BY ONLY <4>1, <4>2
    <3> QED BY <3>1, <3>2, Zenon DEF Before
  <2> QED BY <2>1, <2>2, <2>3, <1>1, <1>4
<1>10. Closed(zz)
  <2> SUFFICES ASSUME NEW j \in 1..Len(zz), InPayload(zz[j])
               PROVE  \E m \in j..Len(zz) :
                        zz[m].k = "close" /\ zz[m].r = zz[j].r
    BY DEF Closed
  <2>1. CASE j \in 1..Len(z) /\ zz[j] = z[j]
    <3>1. PICK m \in j..Len(z) : z[m].k = "close" /\ z[m].r = z[j].r
      BY <2>1 DEF Closed
    <3>2. m \in 1..Len(z) /\ m \in j..Len(zz)
      BY <2>1, <3>1, <1>1, <1>4
    <3> QED BY <3>1, <3>2, <2>1, <1>4
  <2>2. CASE j > Len(z) /\ j - Len(z) \in 1..Len(q) /\ zz[j] = q[j - Len(z)]
    <3> DEFINE m == Len(z) + Len(p)
    <3>1. j - Len(z) <= Len(p) /\ zz[j].r = L + 1
      BY <2>2, <1>2
    <3>2. Len(p) \in 1..Len(q)
      BY <1>1 DEF Reply
    <3>3. /\ m \in j..Len(zz) /\ m \in (Len(z) + 1)..(Len(z) + Len(q))
          /\ m - Len(z) = Len(p)
      BY <2>2, <3>1, <3>2, <1>1, <1>4
    <3>4. zz[m] = q[Len(p)]
      BY <3>3, <1>4
    <3>5. q[Len(p)].k = "close" /\ q[Len(p)].r = L + 1
      BY <3>2, <1>2
    <3> QED BY <3>1, <3>3, <3>4, <3>5
  <2> QED BY <2>1, <2>2, <1>5
<1>11. SentInv'
  <2>1. ASSUME NEW r \in 1..Len(sent') PROVE ProperReply(sent'[r], r)
    <3>1. r \in 1..L \/ r = L + 1
      BY <1>1, <1>3
    <3>2. r \in 1..L => ProperReply(sent[r], r)
      BY DEF SentInv, L
    <3> QED BY <3>1, <3>2, <1>3 DEF L
  <2> QED BY <2>1 DEF SentInv, ProperReply
<1>12. \A j \in 1..Len(q) : /\ q[j] \in Toks /\ q[j].r = L + 1
                            /\ sent'[q[j].r] = p /\ q[j].r \in 1..Len(sent')
  <2>1. L + 1 \in 1..Len(sent')
    BY <1>1, <1>3
  <2> QED BY <2>1, <1>2, <1>3, ElementOfSeq
<1>13. \A t \in Toks : Genuine(t) => t.r <= L
  BY <1>6, <1>1
<1> QED BY <1>3, <1>4, <1>5, <1>7, <1>9, <1>10, <1>11, <1>12, <1>13
        DEF zz, L, Added

(* A chunk that arrived stays a chunk when more is sent behind it. *)
LEMMA RunStays ==
  ASSUME NEW s \in Seq(Toks), NEW t \in Seq(Toks), NEW a \in Nat,
         NEW k \in Nat, NEW n \in Nat, Run(s, a, k, n),
         Len(s) <= Len(t), \A j \in 1..Len(s) : t[j] = s[j]
  PROVE  Run(t, a, k, n)
<1>1. Len(s) \in Nat /\ Len(t) \in Nat /\ n > 0 /\ k + n < Len(s)
  BY LenProperties DEF Run
<1>2. /\ \A m \in 1..n : k + m \in 1..Len(s)
      /\ k + 1 \in 1..Len(s) /\ k + n + 1 \in 1..Len(s)
  BY <1>1, SMTT(30)
<1>3. /\ \A m \in 1..n : t[k + m] = s[k + m]
      /\ t[k + 1] = s[k + 1] /\ t[k + n + 1] = s[k + n + 1]
  BY <1>2
<1> QED BY <1>1, <1>3, SMTT(30) DEF Run

\* The tags of a longer stream begin with those of the stream.
LEMMA FirstStays ==
  ASSUME NEW s \in Seq(Toks), NEW t \in Seq(Toks), NEW x \in 1..Len(s),
         Len(s) <= Len(t), \A j \in 1..Len(s) : t[j] = s[j], FirstTag(s, x)
  PROVE  FirstTag(t, x)
<1>1. Len(s) \in Nat /\ Len(t) \in Nat
  BY LenProperties
<1>2. x \in Tags(t)
  BY <1>1 DEF FirstTag, Tags
<1>3. ASSUME NEW y \in Tags(t) PROVE x <= y
  <2>1. y \in 1..Len(t) /\ IsTag(t[y])
    BY DEF Tags
  <2>2. CASE y <= Len(s)
    <3>1. y \in Tags(s)
      BY <2>1, <2>2, <1>1 DEF Tags
    <3> QED BY <3>1 DEF FirstTag
  <2>3. CASE y > Len(s)
    BY <2>1, <2>3, <1>1
  <2> QED BY <2>1, <2>2, <2>3, <1>1
<1> QED BY <1>2, <1>3 DEF FirstTag

(* The device answers the oldest request. *)
LEMMA AnswerKeeps ==
  ASSUME ProperPayloads, NetconfInv, AnswerRequest PROVE NetconfInv'
<1>1. /\ rpcs # <<>> /\ out = <<>> /\ rpcs' = Tail(rpcs)
      /\ UNCHANGED <<server, ver, nbuf, npc, need, acc, msgId, replies,
                     failed>>
  BY DEF AnswerRequest
<1>2. /\ rpcs \in Seq(Nat) /\ sent \in Seq(Seq(Toks)) /\ Len(sent) \in Nat
      /\ nbuf \in Seq(Toks) /\ pipe \in Seq(Toks) /\ out \in Seq(Toks)
      /\ Len(rpcs) \in Nat /\ Len(replies) \in Nat /\ msgId \in Nat
      /\ acc \in Seq(Toks)
  BY AheadTypes DEF NetconfInv, NetconfTypes
<1>3. /\ Connected /\ Connected' /\ server \in {10, 11} /\ ver = server
      /\ Chunking => server = 11
      /\ npc = "eom" => server = 10
  BY <1>1 DEF NetconfInv, HelloInv, Connected
<1>4. PICK L \in Nat : L = Len(sent)
  BY <1>2
<1>5. /\ StreamInv /\ SentInv /\ NetconfTypes /\ AskedInv /\ HeldInv
      /\ RepliesInv /\ ExactInv /\ ChunkInv /\ HelloInv
  BY DEF NetconfInv
<1>6. /\ Len(rpcs) > 0 /\ Head(rpcs) = L + 1 /\ Tail(rpcs) \in Seq(Nat)
      /\ Len(Tail(rpcs)) = Len(rpcs) - 1
      /\ \A j \in 1..(Len(rpcs) - 1) : Tail(rpcs)[j] = rpcs[j + 1]
      /\ \A j \in 1..Len(rpcs) : rpcs[j] = L + j
      /\ msgId = L + Len(rpcs)
  <2>1. /\ Len(rpcs) \in Nat \ {0} /\ Head(rpcs) = rpcs[1]
        /\ Tail(rpcs) \in Seq(Nat) /\ Len(Tail(rpcs)) = Len(rpcs) - 1
        /\ \A j \in 1..(Len(rpcs) - 1) : Tail(rpcs)[j] = rpcs[j + 1]
    BY <1>1, <1>2, TailFacts
  <2>2. /\ \A j \in 1..Len(rpcs) : rpcs[j] = L + j
        /\ msgId = L + Len(rpcs)
    BY <1>4, <1>5 DEF AskedInv
  <2> QED BY <2>1, <2>2
<1>7. PICK kinds \in Payloads :
        /\ sent' = Append(sent, Tokens(kinds, L + 1))
        /\ IF server = 11 THEN out' = Tokens(kinds, L + 1) /\ UNCHANGED pipe
           ELSE /\ pipe' = pipe \o Append(Tokens(kinds, L + 1),
                               Token("eom", L + 1,
                                     Len(Tokens(kinds, L + 1)) + 1, 0))
                /\ UNCHANGED out
  BY <1>6 DEF AnswerRequest, Tokens
<1> DEFINE p == Tokens(kinds, L + 1)
           e == Token("eom", L + 1, Len(p) + 1, 0)
<1>8. /\ ProperReply(p, L + 1) /\ p \in Seq(Toks) /\ Len(p) \in Nat
      /\ Len(p) > 1 /\ sent' = Append(sent, p)
      /\ server = 11 => out' = p /\ pipe' = pipe
      /\ server # 11 => pipe' = pipe \o Append(p, e) /\ out' = out
  <2>1. ProperReply(p, L + 1)
    <3>1. L + 1 \in Nat
      OBVIOUS
    <3> QED BY <3>1, TokensProper
  <2>2. p \in Seq(Toks) /\ Len(p) \in Nat /\ Len(p) > 1
    BY <2>1, LenProperties DEF ProperReply
  <2> QED BY <1>7, <2>1, <2>2
<1> HIDE DEF p
<1>9. e \in Toks /\ e.k = "eom" /\ e.r = L + 1 /\ e.i = Len(p) + 1
  <2>1. e = [k |-> "eom", r |-> L + 1, i |-> Len(p) + 1, n |-> 0]
    BY DEF Token
  <2>2. "eom" \in Kinds /\ L + 1 \in Nat /\ Len(p) + 1 \in Nat
    BY <1>8 DEF Kinds
  <2> HIDE DEF e
  <2> QED BY <2>1, <2>2 DEF Toks
<1> HIDE DEF e
<1>10. PICK q \in Seq(Toks) :
         /\ Reply(q, p, L + 1) /\ (server = 11 => q = p)
         /\ (server # 11 => q = Append(p, e))
  <2>1. CASE server = 11
    <3>1. Reply(p, p, L + 1)
      BY <1>8 DEF Reply
    <3> QED BY <3>1, <2>1, <1>8
  <2>2. CASE server # 11
    <3>1. /\ Append(p, e) \in Seq(Toks) /\ Len(Append(p, e)) = Len(p) + 1
          /\ \A j \in 1..Len(p) : Append(p, e)[j] = p[j]
          /\ Append(p, e)[Len(p) + 1] = e
      BY <1>8, <1>9, AppendProperties
    <3>2. Reply(Append(p, e), p, L + 1)
      BY <3>1, <1>8, <1>9 DEF Reply
    <3> QED BY <3>1, <3>2, <2>2
  <2> QED BY <2>1, <2>2
<1>11. /\ Ahead' = Ahead \o q
       /\ server = 11 => Arrived' = Arrived
  <2>1. Arrived \in Seq(Toks) /\ Ahead = Arrived
    <3>1. Arrived \in Seq(Toks)
      BY <1>5, AheadTypes
    <3> QED BY <3>1, <1>1, ConcatEmptySeq DEF Ahead
  <2>2. CASE server = 11
    BY <2>1, <2>2, <1>1, <1>8, <1>10 DEF Ahead, Arrived
  <2>3. CASE server # 11
    <3>1. Arrived' = nbuf \o (pipe \o q)
      BY <2>3, <1>1, <1>8, <1>10 DEF Arrived
    <3>2. nbuf \o (pipe \o q) = (nbuf \o pipe) \o q
      <4>1. nbuf \in Seq(Toks) /\ pipe \in Seq(Toks) /\ q \in Seq(Toks)
        BY <1>2, <1>10
      <4> QED BY ONLY <4>1, ConcatAssociative
    <3>3. Arrived \o q \in Seq(Toks)
      BY <2>1, <1>10, ConcatProperties
    <3>4. (Arrived \o q) \o <<>> = Arrived \o q
      BY <3>3, ConcatEmptySeq
    <3>5. out' = <<>>
      BY <2>3, <1>1, <1>8
    <3>6. Arrived' = Arrived \o q
      BY <3>1, <3>2 DEF Arrived
    <3>7. Ahead' = Arrived' \o <<>>
      BY <3>5 DEF Ahead
    <3> QED BY <2>1, <2>3, <3>4, <3>6, <3>7
  <2> QED BY <2>2, <2>3
<1>12. PICK z \in Seq(Toks) : z = Ahead
  BY <1>5, AheadTypes
<1>13. AllGenuine(z) /\ Rising(z) /\ Closed(z) /\ Len(z) \in Nat
  BY <1>3, <1>5, <1>12, LenProperties DEF StreamInv
<1>14. Added(z, q, p)
  <2>1. /\ sent' = Append(sent, p) /\ ProperReply(p, Len(sent) + 1)
        /\ Reply(q, p, Len(sent) + 1) /\ sent \in Seq(Seq(Toks)) /\ SentInv
    BY <1>2, <1>4, <1>5, <1>8, <1>10
  <2> QED BY <2>1, <1>13, ReplyAdded
<1>15. PICK zz \in Seq(Toks) :
         /\ zz = z \o q /\ Ahead' = zz /\ Rising(zz) /\ Closed(zz)
         /\ Len(zz) = Len(z) + Len(q) /\ Len(zz) \in Nat /\ Len(q) \in Nat
         /\ \A j \in 1..Len(z) : zz[j] = z[j]
         /\ \A j \in 1..Len(zz) :
              \/ j \in 1..Len(z) /\ zz[j] = z[j]
              \/ /\ j > Len(z) /\ j - Len(z) \in 1..Len(q)
                 /\ zz[j] = q[j - Len(z)]
  BY <1>11, <1>12, <1>14, LenProperties DEF Added
<1>16. /\ \A t \in Toks : Genuine(t) => t.r <= L /\ Genuine(t)'
       /\ \A j \in 1..Len(q) : /\ q[j] \in Toks /\ q[j].r = L + 1
                               /\ sent'[q[j].r] = p
                               /\ q[j].r \in 1..Len(sent')
       /\ SentInv' /\ sent' \in Seq(Seq(Toks))
       /\ Len(sent') = L + 1 /\ sent'[L + 1] = p
       /\ \A j \in 1..L : sent'[j] = sent[j]
  BY <1>4, <1>14 DEF Added
<1>17. \A j \in 1..Len(q) :
         /\ q[j].i = j /\ q[j].k \notin {"size", "end"}
         /\ InPayload(q[j]) <=> j <= Len(p)
         /\ q[j].k = "open" <=> j = 1
  <2>1. L + 1 \in Nat /\ ProperReply(p, L + 1) /\ Reply(q, p, L + 1)
    BY <1>8, <1>10
  <2> QED BY <2>1, ReplyTokens
<1>18. NetconfTypes'
  <2>1. pipe' \in Seq(Toks) /\ out' \in Seq(Toks)
    <3>1. server # 11 => pipe' = pipe \o q /\ out' = out
      BY <1>8, <1>10
    <3> QED BY <3>1, <1>8, <1>2, <1>4, <1>10, ConcatProperties, ZenonT(30)
  <2> QED BY <2>1, <1>1, <1>6, <1>15, <1>16 DEF NetconfInv, NetconfTypes
<1>19. HelloInv'
  BY <1>1, <1>3 DEF NetconfInv, HelloInv, Connected, Chunking
<1>20. AskedInv'
  <2>1. ASSUME NEW j \in 1..Len(rpcs') PROVE rpcs'[j] = Len(sent') + j
    <3>1. j \in 1..(Len(rpcs) - 1) /\ j + 1 \in 1..Len(rpcs)
      BY <1>1, <1>2, <1>4, <1>6
    <3>2. rpcs'[j] = rpcs[j + 1] /\ rpcs[j + 1] = L + (j + 1)
      BY <3>1, <1>1, <1>6
    <3> QED BY <3>1, <3>2, <1>2, <1>4, <1>15, <1>16
  <2>2. msgId' = Len(sent') + Len(rpcs')
    BY <1>1, <1>2, <1>4, <1>6, <1>15, <1>16
  <2> QED BY <2>1, <2>2 DEF AskedInv
<1>21. \A s \in Seq(Toks) :
         AllGenuine(s) => \A j \in 1..Len(s) : Genuine(s[j])'
  BY <1>15, <1>16, ElementOfSeq DEF AllGenuine
<1>22. StreamInv'
  <2>1. ASSUME NEW j \in 1..Len(zz) PROVE Genuine(zz[j])'
    <3>1. CASE j \in 1..Len(z) /\ zz[j] = z[j]
      BY <3>1, <1>13, <1>21
    <3>2. CASE j > Len(z) /\ j - Len(z) \in 1..Len(q) /\ zz[j] = q[j - Len(z)]
      <4> DEFINE x == j - Len(z)
      <4>1. x \in 1..Len(q) /\ zz[j] = q[x]
        BY <3>2
      <4> HIDE DEF x
      <4>2. /\ q[x].r \in 1..Len(sent') /\ sent'[q[x].r] = p /\ q[x].i = x
            /\ q[x].k \notin {"size", "end"}
            /\ InPayload(q[x]) <=> x <= Len(p)
        BY <4>1, <1>15, <1>16, <1>17
      <4>3. x <= Len(p) => x \in 1..Len(p) /\ q[x] = p[x]
        BY <4>1, <1>8, <1>10, SMTT(30) DEF Reply
      <4>4. ~(x <= Len(p)) => x = Len(p) + 1
        BY <4>1, <1>8, <1>10, <1>15 DEF Reply
      <4>5. CASE x <= Len(p)
        <5>1. q[x] = sent'[q[x].r][q[x].i] /\ q[x].i \in 1..Len(sent'[q[x].r])
          BY <4>2, <4>3, <4>5
        <5> QED BY <4>1, <4>2, <4>5, <5>1 DEF Genuine
      <4>6. CASE ~(x <= Len(p))
        <5>1. q[x].i = Len(sent'[q[x].r]) + 1
          BY <4>2, <4>4, <4>6
        <5> QED BY <4>1, <4>2, <4>6, <5>1 DEF Genuine
      <4> QED BY <4>5, <4>6
    <3> QED BY <3>1, <3>2, <1>15, <1>16
  <2> QED BY <2>1, <1>15, <1>16 DEF StreamInv, AllGenuine
<1>23. ChunkInv'
  <2>1. /\ server = 11 => Chunked(z, Len(Arrived))
        /\ server = 10 => /\ out = <<>>
                          /\ \A j \in 1..Len(z) : z[j].k \notin {"size", "end"}
        /\ server = 11 => \A j \in 1..Len(z) : z[j].k # "eom"
    BY <1>3, <1>12 DEF NetconfInv, ChunkInv
  <2>2. ASSUME server = 11
        PROVE  /\ Chunked(zz, Len(Arrived'))
               /\ \A j \in 1..Len(zz) : zz[j].k # "eom"
    <3>1. Len(Arrived) \in Nat /\ Len(Arrived) <= Len(z)
      BY AheadTypes, <1>12 DEF NetconfInv
    <3>2. ASSUME NEW k \in 1..Len(Arrived), zz[k].k = "size"
          PROVE  /\ Run(zz, Len(Arrived), k, zz[k].n)
                 /\ zz[k + 1].r = zz[k].r /\ zz[k + 1].i = zz[k].i
      <4>1. k \in 1..Len(z) /\ zz[k] = z[k] /\ k \in Nat
        BY <3>1, <1>13, <1>15, <1>16
      <4>2. /\ Run(z, Len(Arrived), k, z[k].n)
            /\ z[k + 1].r = z[k].r /\ z[k + 1].i = z[k].i
        BY <2>1, <2>2, <3>2, <4>1 DEF Chunked
      <4>3. z[k].n \in Nat /\ Len(z) <= Len(zz)
        <5>1. z[k] \in Toks
          BY <4>1, <1>13, ElementOfSeq
        <5> QED BY <5>1, <1>13, <1>15, <1>16, SMTT(30) DEF Toks
      <4>4. Run(zz, Len(Arrived), k, z[k].n)
        BY <3>1, <4>1, <4>2, <4>3, <1>13, <1>15, <1>16, RunStays
      <4>5. k + 1 \in 1..Len(z)
        BY <4>1, <4>2, <4>3, <1>13 DEF Run
      <4> QED BY <4>1, <4>2, <4>4, <4>5, <1>15, <1>16
    <3>3. ASSUME NEW j \in 1..Len(zz) PROVE zz[j].k # "eom"
      <4>1. CASE j \in 1..Len(z) /\ zz[j] = z[j]
        BY <4>1, <2>1, <2>2
      <4>2. CASE j > Len(z) /\ j - Len(z) \in 1..Len(q)
                 /\ zz[j] = q[j - Len(z)]
        <5>1. q = p
          BY <2>2, <1>10
        <5>2. q[j - Len(z)].k # "eom"
          BY <4>2, <5>1, <1>8 DEF ProperReply
        <5> QED BY <4>2, <5>2
      <4> QED BY <4>1, <4>2, <1>15, <1>16
    <3> QED BY <3>2, <3>3, <2>2, <1>11 DEF Chunked
  <2>3. ASSUME server = 10
        PROVE  /\ out' = <<>>
               /\ \A j \in 1..Len(zz) : zz[j].k \notin {"size", "end"}
    <3>1. out' = <<>>
      BY <2>1, <2>3, <1>8
    <3>2. ASSUME NEW j \in 1..Len(zz) PROVE zz[j].k \notin {"size", "end"}
      BY <2>1, <2>3, <1>15, <1>16, <1>17
    <3> QED BY <3>1, <3>2
  <2> QED BY <2>2, <2>3, <1>1, <1>15 DEF ChunkInv
<1>24. Len(z) <= Len(zz)
  BY <1>13, <1>15, <1>16
<1>25. ASSUME Chunking, Aligned, npc = "data" \/ Len(z) > 0
       PROVE  Aligned'
  <2>1. server = 11 /\ Arrived' = Arrived /\ Len(Arrived) \in Nat
    BY <1>3, <1>11, <1>25, AheadTypes DEF NetconfInv
  <2>2. CASE npc = "data"
    <3>1. need \in Nat /\ Run(z, Len(Arrived), 0, need)
      BY <2>2, <1>25, <1>12 DEF Aligned, NetconfInv, NetconfTypes
    <3>2. Run(zz, Len(Arrived), 0, need)
      BY <2>1, <3>1, <1>13, <1>15, <1>16, <1>24, RunStays
    <3> QED BY <3>2, <2>1, <2>2, <1>1, <1>15 DEF Aligned
  <2>3. CASE npc # "data"
    <3>1. zz[1] = z[1]
      BY <2>3, <1>13, <1>15, <1>16, <1>25
    <3> QED BY <3>1, <2>1, <2>3, <1>1, <1>15, <1>25, <1>12 DEF Aligned
  <2> QED BY <2>2, <2>3
<1>26. HeldInv'
  <2> SUFFICES ASSUME Chunking
               PROVE  /\ AllGenuine(acc)' /\ Rising(acc)
                      /\ \A i \in 1..Len(acc), j \in 1..Len(zz) :
                           Before(acc[i], zz[j])
                      /\ \A x \in 1..Len(acc) :
                           FirstTag(acc, x) /\ acc[x].k = "open" =>
                             \/ CloseIn(acc, acc[x].r)
                             \/ Aligned' /\ CloseIn(zz, acc[x].r)
                      /\ npc = "data" /\ Tags(acc) = {} =>
                           \/ Aligned'
                           \/ \E x \in 1..Len(zz) :
                                FirstTag(zz, x) /\ zz[x].k # "open"
    BY <1>1, <1>15 DEF HeldInv, Chunking
  <2>1. /\ AllGenuine(acc) /\ Rising(acc)
        /\ \A i \in 1..Len(acc), j \in 1..Len(z) : Before(acc[i], z[j])
        /\ \A x \in 1..Len(acc) : FirstTag(acc, x) /\ acc[x].k = "open" =>
             \/ CloseIn(acc, acc[x].r)
             \/ Aligned /\ CloseIn(z, acc[x].r)
        /\ npc = "data" /\ Tags(acc) = {} =>
             \/ Aligned
             \/ \E x \in 1..Len(z) : FirstTag(z, x) /\ z[x].k # "open"
    BY <1>12 DEF NetconfInv, HeldInv
  <2>2. AllGenuine(acc)'
    BY <2>1, <1>1, <1>2, <1>4, <1>21 DEF AllGenuine
  <2>3. ASSUME NEW i \in 1..Len(acc), NEW j \in 1..Len(zz)
        PROVE  Before(acc[i], zz[j])
    <3>1. CASE j \in 1..Len(z) /\ zz[j] = z[j]
      BY <3>1, <2>1
    <3>2. CASE j > Len(z) /\ j - Len(z) \in 1..Len(q) /\ zz[j] = q[j - Len(z)]
      <4>1. zz[j].r = L + 1
        BY <3>2, <1>15, <1>16
      <4>2. acc[i] \in Toks /\ Genuine(acc[i])
        BY <2>1, <1>2, <1>4, ElementOfSeq DEF AllGenuine
      <4>3. acc[i].r <= L /\ acc[i].r \in Nat
        BY <4>2, <1>15, <1>16 DEF Toks
      <4> QED BY <4>1, <4>3, <1>2, <1>4, SMTT(30) DEF Before
    <3> QED BY <3>1, <3>2, <1>15, <1>16
  <2>4. ASSUME NEW x \in 1..Len(acc), FirstTag(acc, x), acc[x].k = "open",
               ~CloseIn(acc, acc[x].r)
        PROVE  Aligned' /\ CloseIn(zz, acc[x].r)
    <3>1. Aligned /\ CloseIn(z, acc[x].r)
      BY <2>1, <2>4
    <3>2. PICK m \in 1..Len(z) : z[m].k = "close" /\ z[m].r = acc[x].r
      BY <3>1 DEF CloseIn
    <3>3. Len(z) > 0 /\ m \in 1..Len(zz) /\ zz[m] = z[m]
      BY <3>2, <1>13, <1>15, <1>16
    <3> QED BY <3>1, <3>2, <3>3, <1>25 DEF CloseIn
  <2>5. ASSUME npc = "data", Tags(acc) = {}
        PROVE  \/ Aligned'
               \/ \E x \in 1..Len(zz) : FirstTag(zz, x) /\ zz[x].k # "open"
    <3>1. CASE Aligned
      BY <3>1, <2>5, <1>25
    <3>2. CASE \E x \in 1..Len(z) : FirstTag(z, x) /\ z[x].k # "open"
      <4>1. PICK x \in 1..Len(z) : FirstTag(z, x) /\ z[x].k # "open"
        BY <3>2
      <4>2. FirstTag(zz, x)
        BY <4>1, <1>13, <1>15, <1>16, <1>24, FirstStays
      <4>3. x \in 1..Len(zz) /\ zz[x] = z[x]
        BY <1>13, <1>15, <1>16
      <4> QED BY <4>1, <4>2, <4>3
    <3> QED BY <3>1, <3>2, <2>1, <2>5
  <2> QED BY <2>1, <2>2, <2>3, <2>4, <2>5
<1>27. RepliesInv'
  <2>1. /\ RepliesInOrder /\ Behind(z) /\ (Chunking => Behind(acc))
        /\ \A j \in 1..Len(replies) : RootOf(j).r \in 1..L
    BY <1>12, <1>4 DEF NetconfInv, RepliesInv
  <2>2. RepliesInOrder'
    BY <2>1, <1>1 DEF RepliesInOrder
  <2>3. ASSUME NEW j \in 1..Len(replies)
        PROVE  RootOf(j).r \in 1..Len(sent') /\ RootOf(j).r < L + 1
    <3> QED BY <2>1, <1>2, <1>4, <1>15, <1>16, SMTT(30)
  <2>4. ASSUME NEW j \in 1..Len(replies), NEW i \in 1..Len(zz),
               zz[i].k = "open"
        PROVE  RootOf(j).r < zz[i].r
    BY <2>1, <2>3, <2>4, <1>15, <1>16, ZenonT(30) DEF Behind
  <2>5. Behind(zz)'
    BY <2>4, <1>1, <1>15 DEF Behind, RootOf
  <2> QED BY <2>1, <2>2, <2>3, <2>4, <1>1, <1>15
             DEF RepliesInv, Behind, RootOf, Chunking
<1>28. ExactInv'
  <2>1. ReplyExact'
    <3> SUFFICES ASSUME ~failed
                 PROVE  /\ Len(replies) <= Len(sent')
                        /\ \A i \in 1..Len(replies) :
                             /\ replies[i].to = i
                             /\ replies[i].body = Clean(sent'[i])
      BY <1>1 DEF ReplyExact
    <3>1. /\ Len(replies) <= L
          /\ \A i \in 1..Len(replies) :
               replies[i].to = i /\ replies[i].body = Clean(sent[i])
      BY <1>4 DEF NetconfInv, ExactInv, ReplyExact
    <3>2. \A i \in 1..Len(replies) : sent'[i] = sent[i]
      BY <3>1, <1>2, <1>4, <1>15, <1>16
    <3> QED BY <3>1, <3>2, <1>2, <1>4, <1>15, <1>16
  <2>2. ASSUME ~failed
        PROVE  /\ npc # "idle" /\ npc # "data" /\ Len(replies) = msgId - 1
               /\ msgId > 0 /\ rpcs' = <<>> /\ z = <<>> /\ msgId = L + 1
               /\ npc = "size" => acc = <<>>
    <3>1. /\ npc # "idle" /\ npc # "data" /\ Len(replies) = msgId - 1
          /\ msgId > 0 /\ Len(rpcs) = 1 /\ z = <<>>
          /\ npc = "size" => acc = <<>>
      BY <2>2, <1>1, <1>3, <1>12 DEF NetconfInv, ExactInv
    <3>2. Len(rpcs') = 0
      BY <3>1, <1>1, <1>6
    <3>3. rpcs' = <<>>
      BY <3>2, <1>1, <1>6, EmptySeq
    <3> QED BY <3>1, <3>3, <1>2, <1>4, <1>6
  <2>3. ASSUME ~failed PROVE zz = q
    BY <2>2, <2>3, <1>10, ConcatEmptySeq, <1>15
  <2>4. ASSUME ~failed, npc = "eom"
        PROVE  \E v \in Toks : v.k = "eom" /\ zz = Append(sent'[msgId], v)
    <3>1. server # 11
      BY <2>4, <1>5 DEF HelloInv
    <3>2. zz = Append(p, e) /\ sent'[msgId] = p
      BY <3>1, <2>2, <2>3, <2>4, <1>10, <1>16
    <3> QED BY <3>2, <1>9
  <2>5. ASSUME ~failed, npc = "size"
        PROVE  /\ Aligned' /\ zz # <<>>
               /\ acc = SubSeq(sent'[msgId], 1, Len(acc))
               /\ Len(acc) <= Len(sent'[msgId])
               /\ zz[1].r = msgId /\ zz[1].i = Len(acc) + 1
    <3>1. server = 11 /\ zz = p /\ sent'[msgId] = p /\ Len(acc) = 0
      <4>1. server = 11
        BY <2>5, <1>5 DEF HelloInv, Chunking
      <4>2. Len(acc) = 0
        BY <2>2, <2>5
      <4> QED BY <4>1, <4>2, <2>2, <2>3, <2>5, <1>10, <1>16
    <3>2. Len(Arrived) = 0
      <4>1. Len(z) = 0
        BY <2>2, <2>5
      <4>2. Len(Arrived) \in Nat /\ Len(out) \in Nat
            /\ Len(z) = Len(Arrived) + Len(out)
        BY AheadTypes, <1>12 DEF NetconfInv
      <4>3. \A a, b \in Nat : a + b = 0 => a = 0
        OBVIOUS
      <4> QED BY <4>1, <4>2, <4>3
    <3>3. Aligned'
      BY <3>1, <3>2, <2>5, <1>1, <1>11 DEF Aligned
    <3>4. p[1].r = L + 1 /\ p[1].i = 1
      BY <1>8 DEF ProperReply
    <3>5. SubSeq(p, 1, 0) = <<>>
      BY <1>8, SubSeqEmpty
    <3>6. acc = <<>> /\ msgId = L + 1
      BY <2>2, <2>5
    <3>7. Len(zz) > 1 /\ zz # <<>>
      <4>1. Len(zz) > 1
        BY <3>1, <1>8
      <4>2. Len(<<>>) = 0
        OBVIOUS
      <4> QED BY <4>1, <4>2
    <3> QED BY <3>1, <3>3, <3>4, <3>5, <3>6, <3>7, <1>8
  <2>6. npc \in {"idle", "eom", "size", "data"}
    BY <1>3 DEF NetconfInv, NetconfTypes, Connected
  <2> QED BY <2>1, <2>2, <2>4, <2>5, <2>6, <1>1, <1>15 DEF ExactInv
<1>29. OutInv'
  <2>1. server = 11 => IsRest(out', p, 0) /\ 0 \in 0..Len(p)
    <3>1. \A j \in 1..Len(p) : 0 + j = j
      OBVIOUS
    <3> QED BY <3>1, <1>8 DEF IsRest
  <2>2. server # 11 => out' = <<>>
    BY <1>1, <1>8
  <2>3. server' = server /\ Len(sent') > 0 /\ sent'[Len(sent')] = p
    BY <1>1, <1>16
  <2> QED BY <2>1, <2>2, <2>3 DEF OutInv
<1> QED BY <1>15, <1>16, <1>18, <1>19, <1>20, <1>22, <1>23, <1>26, <1>27,
           <1>28, <1>29 DEF NetconfInv

---------------------------------------------------------------------------
(* The device sends a chunk.                                               *)

\* The stream t is the stream s with a header in front of the n tokens behind
\* place a and, when they are the last ones, the end of the message.
Spliced(t, s, a, n) ==
  /\ Len(t) = Len(s) + (IF a + n = Len(s) THEN 2 ELSE 1)
  /\ \A j \in 1..a : t[j] = s[j]
  /\ \A j \in (a + 2)..(Len(s) + 1) : t[j] = s[j - 1]
  /\ t[a + 1] = Token("size", s[a + 1].r, s[a + 1].i, n)
  /\ a + n = Len(s) =>
       t[Len(s) + 2] = Token("end", s[a + 1].r, s[a + 1].i + n, 0)

(* The tokens of one chunk: its header, its data, the end of the reply. *)
LEMMA FramedTokens ==
  ASSUME NEW o \in Seq(Toks), NEW n \in 1..Len(o)
  PROVE  /\ Framed(o, n) \in Seq(Toks)
         /\ Len(Framed(o, n)) = n + (IF n = Len(o) THEN 2 ELSE 1)
         /\ Framed(o, n)[1] = Token("size", o[1].r, o[1].i, n)
         /\ \A j \in 1..n : Framed(o, n)[j + 1] = o[j]
         /\ n = Len(o) =>
              Framed(o, n)[n + 2] = Token("end", o[1].r, o[1].i + n, 0)
<1> DEFINE size == Token("size", o[1].r, o[1].i, n)
           end == Token("end", o[1].r, o[1].i + n, 0)
           c == Upto(o, n)
           g == IF n = Len(o) THEN Append(c, end) ELSE c
<1>1. Len(o) \in Nat /\ n \in Nat /\ o[1].r \in Nat /\ o[1].i \in Nat
  <2>1. Len(o) \in Nat
    BY LenProperties
  <2>2. o[1] \in Toks
    <3>1. 1 \in 1..Len(o)
      BY <2>1
    <3> QED BY <3>1, ElementOfSeq
  <2> QED BY <2>1, <2>2 DEF Toks
<1>2. size \in Toks /\ end \in Toks
  <2>1. "size" \in Kinds /\ "end" \in Kinds /\ o[1].i + n \in Nat
        /\ 0 \in Nat
    BY <1>1 DEF Kinds
  <2> QED BY <2>1, <1>1 DEF Token, Toks
<1>3. Framed(o, n) = <<size>> \o g
  BY DEF Framed
<1>4. c \in Seq(Toks) /\ Len(c) = n /\ \A j \in 1..n : c[j] = o[j]
  <2>1. n \in 0..Len(o)
    BY <1>1
  <2> QED BY <2>1, CutInTwo DEF Upto
<1> HIDE DEF size, end, c
<1>5. /\ g \in Seq(Toks) /\ Len(g) = n + (IF n = Len(o) THEN 1 ELSE 0)
      /\ \A j \in 1..n : g[j] = o[j]
      /\ n = Len(o) => g[n + 1] = end
  BY <1>1, <1>2, <1>4, AppendProperties
<1> HIDE DEF g
<1>6. /\ <<size>> \o g \in Seq(Toks) /\ Len(g) \in Nat
      /\ Len(<<size>> \o g) = 1 + Len(g)
      /\ (<<size>> \o g)[1] = size
      /\ \A j \in 2..(1 + Len(g)) : (<<size>> \o g)[j] = g[j - 1]
  <2> DEFINE one == <<size>>
  <2>1. one \in Seq(Toks) /\ Len(one) = 1 /\ one[1] = size
    BY <1>2, OneOrTwo
  <2> HIDE DEF one
  <2>2. /\ one \o g \in Seq(Toks) /\ Len(g) \in Nat
        /\ Len(one \o g) = Len(one) + Len(g)
        /\ \A j \in 1..Len(one) : (one \o g)[j] = one[j]
        /\ \A j \in (Len(one) + 1)..(Len(one) + Len(g)) :
             (one \o g)[j] = g[j - Len(one)]
    <3>1. one \in Seq(Toks) /\ g \in Seq(Toks)
      BY <1>5, <2>1
    <3> QED BY <3>1, Joined, Zenon
  <2>3. one \o g \in Seq(Toks) /\ Len(g) \in Nat /\ Len(one \o g) = 1 + Len(g)
        /\ (one \o g)[1] = size
        /\ \A j \in 2..(1 + Len(g)) : (one \o g)[j] = g[j - 1]
    BY <2>1, <2>2
  <2> QED BY <2>3 DEF one
<1> DEFINE f == <<size>> \o g
<1> HIDE DEF f
<1>7. /\ f \in Seq(Toks) /\ Len(f) = 1 + Len(g) /\ f[1] = size
      /\ \A j \in 2..(1 + Len(g)) : f[j] = g[j - 1]
  BY <1>6 DEF f
<1>8. \A j \in 1..Len(g) : f[j + 1] = g[j]
  <2> TAKE j \in 1..Len(g)
  <2>1. j + 1 \in 2..(1 + Len(g)) /\ (j + 1) - 1 = j
    BY <1>6
  <2> QED BY <2>1, <1>7
<1>9. \A j \in 1..n : j \in 1..Len(g)
  BY <1>1, <1>5
<1>10. n = Len(o) => n + 1 \in 1..Len(g) /\ (n + 1) + 1 = n + 2
  BY <1>1, <1>5
<1>11. /\ f \in Seq(Toks) /\ Len(f) = n + (IF n = Len(o) THEN 2 ELSE 1)
       /\ f[1] = size /\ \A j \in 1..n : f[j + 1] = o[j]
       /\ n = Len(o) => f[n + 2] = end
  BY <1>1, <1>5, <1>7, <1>8, <1>9, <1>10
<1> QED BY <1>3, <1>11 DEF f, size, end

\* The chunk f, behind A, is the first n tokens of o, and u is what is left.
CutOff(A, o, n, f, u) ==
  /\ f \in Seq(Toks) /\ u \in Seq(Toks)
  /\ (A \o f) \o u \in Seq(Toks) /\ IsRest(u, o, n)
  /\ Len(A \o f) = Len(A) + n + (IF n = Len(o) THEN 2 ELSE 1)
  /\ Spliced((A \o f) \o u, A \o o, Len(A), n)

(* Sending a chunk puts a header, and perhaps the end, into what is ahead. *)
LEMMA ChunkSpliced ==
  ASSUME NEW A \in Seq(Toks), NEW o \in Seq(Toks), NEW n \in 1..Len(o)
  PROVE  CutOff(A, o, n, Framed(o, n), From(o, n + 1))
<1> SUFFICES ASSUME NEW f, f = Framed(o, n), NEW u, u = From(o, n + 1)
             PROVE  CutOff(A, o, n, f, u)
  OBVIOUS
<1> DEFINE s == A \o o
           t == (A \o f) \o u
           a == Len(A)
           w == IF n = Len(o) THEN 2 ELSE 1
<1>1. /\ Len(o) \in Nat /\ n \in Nat /\ n > 0 /\ n <= Len(o)
      /\ n \in 0..Len(o)
  BY LenProperties
<1>2. /\ u \in Seq(Toks) /\ Len(u) = Len(o) - n
      /\ \A j \in 1..(Len(o) - n) : u[j] = o[n + j]
  BY <1>1, CutInTwo DEF From
<1>3. /\ w \in {1, 2} /\ (n = Len(o) => w = 2)
      /\ (n # Len(o) => w = 1 /\ n < Len(o))
  BY <1>1
<1>4. /\ f \in Seq(Toks) /\ Len(f) = n + w
      /\ f[1] = Token("size", o[1].r, o[1].i, n)
      /\ \A j \in 1..n : f[j + 1] = o[j]
      /\ n = Len(o) => f[n + 2] = Token("end", o[1].r, o[1].i + n, 0)
  BY FramedTokens
<1> HIDE DEF w
<1>5. /\ t \in Seq(Toks) /\ a \in Nat /\ Len(f) \in Nat
      /\ Len(A \o f) = a + Len(f) /\ Len(t) = a + Len(f) + Len(u)
      /\ \A j \in 1..a : t[j] = A[j]
      /\ \A j \in (a + 1)..(a + Len(f)) : t[j] = f[j - a]
      /\ \A j \in (a + Len(f) + 1)..(a + Len(f) + Len(u)) :
           t[j] = u[j - a - Len(f)]
  <2>1. Three(A, f, u)
    BY <1>2, <1>4, ThreeJoined
  <2> QED BY <2>1 DEF Three
<1>6. /\ Len(s) = a + Len(o) /\ \A j \in 1..a : s[j] = A[j]
      /\ \A j \in (a + 1)..(a + Len(o)) : s[j] = o[j - a]
  BY Joined
<1> HIDE DEF s, t, a
<1>7. s[a + 1] = o[1]
  <2>1. a + 1 \in (a + 1)..(a + Len(o)) /\ (a + 1) - a = 1
    BY <1>1, <1>5
  <2> QED BY <2>1, <1>6
<1>8. Len(t) = Len(s) + w
  BY <1>3, <1>1, <1>2, <1>4, <1>5, <1>6
<1>9. t[a + 1] = f[1]
  <2>1. a \in Nat /\ Len(f) \in Nat /\ Len(f) >= 1
    BY <1>1, <1>3, <1>4, <1>5
  <2>2. a + 1 \in (a + 1)..(a + Len(f)) /\ (a + 1) - a = 1
    BY <2>1
  <2> QED BY <2>2, <1>5
<1>10. ASSUME NEW j \in (a + 2)..(Len(s) + 1) PROVE t[j] = s[j - 1]
  <2> DEFINE l == Len(o)
             m == Len(f)
  <2> HIDE DEF l, m
  <2>1. /\ a \in Nat /\ l \in Nat /\ n \in Nat /\ n <= l /\ n > 0
        /\ w \in {1, 2} /\ m = n + w /\ j \in (a + 2)..((a + l) + 1)
    BY <1>1, <1>3, <1>4, <1>5, <1>6, Zenon DEF l, m
  <2>2. /\ j - 1 \in (a + 1)..(a + Len(o)) /\ j \in Nat
    <3>1. /\ j - 1 \in (a + 1)..(a + l) /\ j \in Nat
      BY ONLY <2>1
    <3> QED BY <3>1 DEF l
  <2>3. s[j - 1] = o[(j - 1) - a]
    BY <2>2, <1>6
  <2>4. CASE j <= a + n + 1
    <3>1. /\ (j - 1) - a \in 1..n /\ j - a = ((j - 1) - a) + 1
          /\ j \in (a + 1)..(a + Len(f))
      <4>1. /\ (j - 1) - a \in 1..n /\ j - a = ((j - 1) - a) + 1
            /\ j \in (a + 1)..(a + m)
        BY ONLY <2>1, <2>4
      <4> QED BY <4>1 DEF m
    <3>2. f[((j - 1) - a) + 1] = o[(j - 1) - a]
      BY <3>1, <1>4
    <3> QED BY <3>1, <3>2, <2>3, <1>5
  <2>5. CASE j > a + n + 1
    <3>1. n # Len(o)
      BY <2>2, <2>5, <1>3, <1>1, <1>5, <1>6
    <3>2. /\ j \in (a + Len(f) + 1)..(a + Len(f) + Len(u))
          /\ j - a - Len(f) \in 1..(Len(o) - n)
          /\ n + (j - a - Len(f)) = (j - 1) - a
      BY <3>1, <2>2, <2>5, <1>3, <1>1, <1>2, <1>4, <1>5, <1>6
    <3> QED BY <3>2, <2>3, <1>2, <1>5
  <2> QED BY <2>2, <2>4, <2>5, <1>1, <1>5
<1>11. n = Len(o) => Len(s) = a + n /\ t[Len(s) + 2] = f[n + 2]
  <2> SUFFICES ASSUME n = Len(o)
               PROVE  Len(s) = a + n /\ t[Len(s) + 2] = f[n + 2]
    OBVIOUS
  <2> DEFINE l == Len(s)
             m == Len(f)
             o1 == Len(o)
  <2>1. /\ l = a + o1 /\ m = n + w /\ w = 2 /\ n = o1
        /\ o1 \in Nat /\ a \in Nat
    BY <1>3, <1>1, <1>4, <1>5, <1>6, Zenon
  <2> HIDE DEF l, m, o1
  <2>2. /\ l = a + n /\ l + 2 \in (a + 1)..(a + m)
        /\ (l + 2) - a = n + 2
    BY ONLY <2>1
  <2>3. /\ Len(s) = a + n /\ Len(s) + 2 \in (a + 1)..(a + Len(f))
        /\ (Len(s) + 2) - a = n + 2
    BY <2>2 DEF l, m
  <2> QED BY <2>3, <1>5
<1>12. Spliced(t, s, a, n)
  <2>1. \A j \in 1..a : t[j] = s[j]
    BY <1>5, <1>6
  <2>2. \A j \in (a + 2)..(Len(s) + 1) : t[j] = s[j - 1]
    BY <1>10
  <2>3. t[a + 1] = Token("size", s[a + 1].r, s[a + 1].i, n)
    BY <1>4, <1>7, <1>9
  <2>4. ASSUME a + n = Len(s)
        PROVE  t[Len(s) + 2] = Token("end", s[a + 1].r, s[a + 1].i + n, 0)
    <3>1. n = Len(o)
      BY <2>4, <1>1, <1>5, <1>6
    <3> QED BY <3>1, <1>4, <1>7, <1>11
  <2>5. Len(t) = Len(s) + (IF a + n = Len(s) THEN 2 ELSE 1)
    <3>1. a + n = Len(s) <=> n = Len(o)
      <4>1. a \in Nat /\ n \in Nat /\ Len(o) \in Nat /\ Len(s) = a + Len(o)
        BY <1>1, <1>5, <1>6
      <4> QED BY ONLY <4>1
    <3> QED BY <3>1, <1>3, <1>8
  <2> QED BY <1>8, <2>1, <2>2, <2>3, <2>4, <2>5 DEF Spliced
<1>13. IsRest(u, o, n)
  BY <1>1, <1>2 DEF IsRest
<1>14. Len(A \o f) = a + n + w
  BY <1>3, <1>1, <1>4, <1>5
<1> QED BY <1>2, <1>4, <1>5, <1>12, <1>13, <1>14 DEF w, s, t, a, CutOff

\* The tokens of the stream t, when the r-th reply without its first k tokens
\* is what is behind place a of the stream s.
Headed(t, s, a, n, r, k) ==
  /\ Len(t) \in Nat /\ Len(t) >= Len(s) + 1
  /\ a + n = Len(s) => Len(t) = Len(s) + 2
  /\ \A j \in 1..a : j \in 1..Len(s) /\ j \in 1..Len(t) /\ t[j] = s[j]
  /\ \A j \in (a + 1)..Len(s) :
       /\ j \in 1..Len(s) /\ j + 1 \in 1..Len(t) /\ t[j + 1] = s[j]
       /\ s[j].r = r /\ s[j].i = k + (j - a) /\ InPayload(s[j])
  /\ t[a + 1].k = "size" /\ t[a + 1].r = r /\ t[a + 1].i = k + 1
  /\ t[a + 1].n = n
  /\ \A j \in (Len(s) + 2)..Len(t) :
       /\ j = Len(s) + 2 /\ a + n = Len(s)
       /\ t[j].k = "end" /\ t[j].r = r /\ t[j].i = Len(sent[r]) + 1
       /\ t[j].i = k + n + 1

(* Where the header and the end stand, they name the reply they are in. *)
LEMMA SplicedHeaded ==
  ASSUME SentInv, NEW s \in Seq(Toks), NEW t \in Seq(Toks),
         NEW a \in Nat, NEW n \in Nat, n > 0, a + n <= Len(s),
         NEW r \in 1..Len(sent), NEW k \in Nat, NEW p, p = sent[r],
         k <= Len(p), Len(s) = a + (Len(p) - k),
         \A j \in (a + 1)..Len(s) : s[j] = p[k + (j - a)],
         Spliced(t, s, a, n)
  PROVE  Headed(t, s, a, n, r, k)
<1>1. /\ Len(p) \in Nat /\ Len(s) \in Nat /\ Len(t) \in Nat
      /\ \A j \in 1..Len(p) :
           p[j].r = r /\ p[j].i = j /\ p[j].k \notin {"eom", "size", "end"}
  <2>1. ProperReply(p, r)
    BY DEF SentInv
  <2> QED BY <2>1, LenProperties DEF ProperReply
<1>2. ASSUME NEW j \in (a + 1)..Len(s)
      PROVE  /\ j \in 1..Len(s) /\ s[j].r = r /\ s[j].i = k + (j - a)
             /\ InPayload(s[j])
  <2> DEFINE l == Len(s)
             m == Len(p)
  <2>1. j \in 1..Len(s) /\ k + (j - a) \in 1..Len(p)
    <3>1. /\ l \in Nat /\ m \in Nat /\ a \in Nat /\ k \in Nat
          /\ j \in (a + 1)..l /\ l = a + (m - k) /\ k <= m
      BY <1>1, Zenon
    <3> HIDE DEF l, m
    <3>2. j \in 1..l /\ k + (j - a) \in 1..m
      BY ONLY <3>1
    <3> QED BY <3>2 DEF l, m
  <2>2. s[j] = p[k + (j - a)]
    BY Zenon
  <2> QED BY <2>1, <2>2, <1>1, SMTT(30) DEF InPayload
<1>3. /\ Len(s) + 1 \in Nat /\ a < Len(s) /\ a + 1 \in (a + 1)..Len(s)
      /\ (a + 1) - a = 1
      /\ a + n = Len(s) => k + n + 1 = Len(p) + 1
  <2>1. /\ a \in Nat /\ n \in Nat /\ n > 0 /\ k \in Nat /\ Len(p) \in Nat
        /\ Len(s) \in Nat /\ a + n <= Len(s) /\ Len(s) = a + (Len(p) - k)
    BY <1>1
  <2> QED BY ONLY <2>1
<1>4. /\ a + n = Len(s) => Len(t) = Len(s) + 2
      /\ a + n # Len(s) => Len(t) = Len(s) + 1
  BY DEF Spliced
<1>5. /\ \A j \in 1..a : t[j] = s[j]
      /\ \A j \in (a + 2)..(Len(s) + 1) : t[j] = s[j - 1]
      /\ t[a + 1] = Token("size", s[a + 1].r, s[a + 1].i, n)
      /\ a + n = Len(s) =>
           t[Len(s) + 2] = Token("end", s[a + 1].r, s[a + 1].i + n, 0)
  BY DEF Spliced
<1>6. s[a + 1].r = r /\ s[a + 1].i = k + 1
  BY <1>2, <1>3
<1>7. Len(t) >= Len(s) + 1
  <2> DEFINE l == Len(s)
             m == Len(t)
  <2>1. (m = l + 2 \/ m = l + 1) /\ l \in Nat
    BY <1>1, <1>4, Zenon
  <2> HIDE DEF l, m
  <2>2. m >= l + 1
    BY ONLY <2>1
  <2> QED BY <2>2 DEF l, m
<1>8. ASSUME NEW j \in (a + 1)..Len(s)
      PROVE  j + 1 \in 1..Len(t) /\ t[j + 1] = s[j]
  <2>1. /\ j + 1 \in (a + 2)..(Len(s) + 1) /\ (j + 1) - 1 = j
        /\ j + 1 \in 1..Len(t)
    <3> DEFINE l == Len(s)
               m == Len(t)
    <3>1. /\ l \in Nat /\ m \in Nat /\ a \in Nat /\ m >= l + 1
          /\ j \in (a + 1)..l
      BY <1>1, <1>4, <1>7
    <3> HIDE DEF l, m
    <3>2. /\ j + 1 \in (a + 2)..(l + 1) /\ (j + 1) - 1 = j
          /\ j + 1 \in 1..m
      BY ONLY <3>1
    <3> QED BY <3>2 DEF l, m
  <2> QED BY <2>1, <1>5
<1>9. \A j \in 1..a : j \in 1..Len(s) /\ j \in 1..Len(t)
  <2> TAKE j \in 1..a
  <2> DEFINE l == Len(s)
             m == Len(t)
  <2>1. a < l /\ l + 1 <= m /\ l \in Nat /\ m \in Nat /\ a \in Nat
        /\ j \in 1..a
    BY <1>1, <1>3, <1>7, Zenon
  <2> HIDE DEF l, m
  <2>2. j \in 1..l /\ j \in 1..m
    BY ONLY <2>1
  <2> QED BY <2>2 DEF l, m
<1>10. ASSUME NEW j \in (Len(s) + 2)..Len(t)
       PROVE  /\ j = Len(s) + 2 /\ a + n = Len(s)
              /\ t[j].k = "end" /\ t[j].r = r /\ t[j].i = Len(p) + 1
              /\ t[j].i = k + n + 1
  <2>1. Len(t) # Len(s) + 1
    BY <1>1, SMTT(30)
  <2>2. a + n = Len(s) /\ Len(t) = Len(s) + 2
    BY <2>1, <1>4
  <2>3. j = Len(s) + 2
    BY <2>2, <1>1
  <2>4. t[j] = Token("end", r, Len(p) + 1, 0)
    BY <2>2, <2>3, <1>3, <1>5, <1>6
  <2> QED BY <2>2, <2>3, <2>4, <1>3 DEF Token
<1>11. /\ t[a + 1].k = "size" /\ t[a + 1].r = r /\ t[a + 1].i = k + 1
       /\ t[a + 1].n = n
  BY <1>5, <1>6 DEF Token
<1> QED BY <1>1, <1>2, <1>4, <1>5, <1>7, <1>8, <1>9, <1>10, <1>11 DEF Headed

\* Every token of t is one of s, or a header that stands where s goes on.
LEMMA HeadedAre ==
  ASSUME NEW s \in Seq(Toks), NEW t, NEW a \in Nat, NEW n \in Nat,
         a < Len(s), NEW r, NEW k, Headed(t, s, a, n, r, k)
  PROVE  /\ \A j \in 1..Len(t) :
              \/ j \in 1..a
              \/ j = a + 1
              \/ \E x \in (a + 1)..Len(s) : j = x + 1
              \/ j = Len(s) + 2 /\ j \in (Len(s) + 2)..Len(t)
         /\ \A j \in 1..Len(s) : j \in 1..a \/ j \in (a + 1)..Len(s)
<1>1. Len(s) \in Nat /\ Len(t) \in Nat
  BY LenProperties DEF Headed
<1>2. ASSUME NEW j \in 1..Len(t)
      PROVE  \/ j \in 1..a
             \/ j = a + 1
             \/ \E x \in (a + 1)..Len(s) : j = x + 1
             \/ j = Len(s) + 2 /\ j \in (Len(s) + 2)..Len(t)
  <2>1. \/ j \in 1..a \/ j = a + 1 \/ j - 1 \in (a + 1)..Len(s)
        \/ j \in (Len(s) + 2)..Len(t)
    BY <1>1
  <2>2. CASE j - 1 \in (a + 1)..Len(s)
    <3>1. j = (j - 1) + 1
      OBVIOUS
    <3> QED BY <2>2, <3>1
  <2>3. CASE j \in (Len(s) + 2)..Len(t)
    BY <2>3 DEF Headed
  <2> QED BY <2>1, <2>2, <2>3
<1> QED BY <1>1, <1>2

(* The stream with a chunk cut off is in order as the stream was. *)
LEMMA HeadedStream ==
  ASSUME SentInv, NEW s \in Seq(Toks), NEW t \in Seq(Toks),
         NEW a \in Nat, NEW n \in Nat, a < Len(s),
         NEW r \in 1..Len(sent), NEW k \in Nat, NEW P \in Nat,
         P = Len(sent[r]), k < P, Len(s) = a + (P - k),
         Headed(t, s, a, n, r, k),
         AllGenuine(s), Rising(s), Closed(s)
  PROVE  AllGenuine(t) /\ Rising(t) /\ Closed(t)
<1>1. /\ Len(s) \in Nat /\ Len(t) \in Nat /\ P \in Nat /\ k < P
      /\ Len(s) = a + (P - k) /\ r \in Nat
  BY LenProperties
<1>2. /\ \A j \in 1..a : j \in 1..Len(s) /\ j \in 1..Len(t) /\ t[j] = s[j]
      /\ \A j \in (a + 1)..Len(s) :
           /\ j \in 1..Len(s) /\ j + 1 \in 1..Len(t) /\ t[j + 1] = s[j]
           /\ s[j].r = r /\ s[j].i = k + (j - a) /\ InPayload(s[j])
      /\ t[a + 1].k = "size" /\ t[a + 1].r = r /\ t[a + 1].i = k + 1
      /\ \A j \in (Len(s) + 2)..Len(t) :
           /\ j = Len(s) + 2 /\ t[j].k = "end" /\ t[j].r = r
           /\ t[j].i = P + 1
  BY DEF Headed
<1>3. \A j \in 1..Len(t) :
        \/ j \in 1..a
        \/ j = a + 1
        \/ \E x \in (a + 1)..Len(s) : j = x + 1
        \/ j = Len(s) + 2 /\ j \in (Len(s) + 2)..Len(t)
  BY HeadedAre
<1>4. AllGenuine(t)
  <2> SUFFICES ASSUME NEW j \in 1..Len(t) PROVE Genuine(t[j])
    BY DEF AllGenuine
  <2>1. CASE j \in 1..a
    BY <2>1, <1>2 DEF AllGenuine
  <2>2. CASE \E x \in (a + 1)..Len(s) : j = x + 1
    BY <2>2, <1>2, ZenonT(30) DEF AllGenuine
  <2>3. CASE j = a + 1
    <3>1. k + 1 \in 1..P
      BY <1>1
    <3> QED BY <3>1, <2>3, <1>2 DEF Genuine, InPayload
  <2>4. CASE j = Len(s) + 2 /\ j \in (Len(s) + 2)..Len(t)
    BY <2>4, <1>2 DEF Genuine, InPayload
  <2> QED BY <2>1, <2>2, <2>3, <2>4, <1>3
<1>5. s[a + 1].r = r /\ s[a + 1].i = k + 1 /\ a + 1 \in 1..Len(s)
  <2>1. a + 1 \in (a + 1)..Len(s) /\ (a + 1) - a = 1 /\ k + 1 = k + 1
    BY <1>1
  <2>2. s[a + 1].i = k + ((a + 1) - a) /\ a + 1 \in 1..Len(s)
        /\ s[a + 1].r = r
    BY <2>1, <1>2
  <2> QED BY <2>1, <2>2
<1>6. ASSUME NEW i \in 1..a
      PROVE  t[i].r < r \/ (t[i].r = r /\ t[i].i <= k + 1
                            /\ (t[i].k # "size" => t[i].i < k + 1))
  <2>1. i < a + 1 /\ i \in 1..Len(s) /\ t[i] = s[i]
    BY <1>2, SMTT(30)
  <2>2. Before(s[i], s[a + 1])
    BY <2>1, <1>5 DEF Rising
  <2>3. \/ s[i].r < s[a + 1].r
        \/ /\ s[i].r = s[a + 1].r /\ s[i].i <= s[a + 1].i
           /\ (s[i].k # "size" => s[i].i < s[a + 1].i)
    BY <2>2, Zenon DEF Before
  <2> QED BY <2>1, <2>3, <1>5
<1>7. ASSUME NEW j \in 1..Len(t), j > a + 1
      PROVE  t[j].r = r /\ t[j].i = k + (j - 1 - a)
             /\ (t[j].k = "end" \/ InPayload(t[j]))
  <2>1. CASE \E x \in (a + 1)..Len(s) : j = x + 1
    <3>1. PICK x \in (a + 1)..Len(s) : j = x + 1
      BY <2>1
    <3>2. x - a = j - 1 - a
      BY <3>1
    <3> QED BY <3>1, <3>2, <1>2
  <2>2. CASE j = Len(s) + 2 /\ j \in (Len(s) + 2)..Len(t)
    <3>1. P + 1 = k + ((Len(s) + 2) - 1 - a)
      BY <1>1
    <3>2. t[j].k = "end" /\ t[j].r = r /\ t[j].i = P + 1
      BY <2>2, <1>2, Zenon
    <3> QED BY <3>1, <3>2, <2>2, Zenon
  <2>3. ~(j \in 1..a) /\ j # a + 1
    BY <1>7
  <2> QED BY <2>1, <2>2, <2>3, <1>3, Zenon
<1>8. Rising(t)
  <2> SUFFICES ASSUME NEW i \in 1..Len(t), NEW j \in 1..Len(t), i < j
               PROVE  Before(t[i], t[j])
    BY DEF Rising
  <2>1. CASE j <= a
    <3>1. i \in 1..a /\ j \in 1..a
      BY <2>1
    <3> QED BY <3>1, <1>2 DEF Rising
  <2>2. CASE i <= a /\ j = a + 1
    <3>1. i \in 1..a
      BY <2>2
    <3> QED BY <3>1, <2>2, <1>2, <1>6 DEF Before
  <2>3. CASE i <= a /\ j > a + 1
    <3>1. i \in 1..a /\ k + 1 <= k + (j - 1 - a) /\ k + (j - 1 - a) \in Nat
      BY <2>3
    <3>2. t[i].r \in Nat /\ t[i].i \in Nat
      <4>1. t[i] \in Toks
        BY ElementOfSeq
      <4> QED BY <4>1 DEF Toks
    <3>3. t[j].r = r /\ t[j].i = k + (j - 1 - a)
      BY <2>3, <1>7
    <3>4. \/ t[i].r < r
          \/ t[i].r = r /\ t[i].i <= k + 1
             /\ (t[i].k # "size" => t[i].i < k + 1)
      BY <3>1, <1>6
    <3> DEFINE x == t[i].i
               y == t[j].i
               z == k + (j - 1 - a)
    <3>5. x \in Nat /\ y = z /\ k + 1 <= z /\ z \in Nat /\ k \in Nat
      BY <3>1, <3>2, <3>3
    <3> HIDE DEF x, y, z
    <3>6. (x <= k + 1 => x <= y) /\ (x < k + 1 => x < y)
      BY ONLY <3>5
    <3>7. t[i].i <= k + 1 => t[i].i <= t[j].i
      BY <3>6 DEF x, y
    <3>8. t[i].i < k + 1 => t[i].i < t[j].i
      BY <3>6 DEF x, y
    <3> QED BY <3>3, <3>4, <3>7, <3>8 DEF Before
  <2>4. CASE i = a + 1
    <3>1. j > a + 1 /\ k + 1 <= k + (j - 1 - a)
      BY <2>4
    <3>2. t[i].k = "size" /\ t[i].r = r /\ t[i].i = k + 1
      BY <2>4, <1>2
    <3>3. t[j].r = r /\ t[j].i = k + (j - 1 - a)
      BY <3>1, <1>7
    <3> QED BY <3>1, <3>2, <3>3 DEF Before
  <2>5. CASE i > a + 1
    <3>1. j > a + 1 /\ k + (i - 1 - a) < k + (j - 1 - a)
          /\ k + (i - 1 - a) <= k + (j - 1 - a)
      BY <2>5
    <3>2. /\ t[i].r = r /\ t[i].i = k + (i - 1 - a)
          /\ t[j].r = r /\ t[j].i = k + (j - 1 - a)
      BY <3>1, <2>5, <1>7
    <3> QED BY <3>1, <3>2 DEF Before
  <2> QED BY <2>1, <2>2, <2>3, <2>4, <2>5
<1>9. ASSUME NEW x \in 1..Len(s)
      PROVE  \E m \in 1..Len(t) : t[m] = s[x] /\ x <= m /\ m <= x + 1
                                  /\ (x > a => m = x + 1)
  <2>1. CASE x <= a
    <3>1. x \in 1..a
      BY <2>1
    <3>2. x \in 1..Len(t) /\ t[x] = s[x]
      BY <3>1, <1>2
    <3>3. x <= x /\ x <= x + 1 /\ ~(x > a)
      BY <2>1
    <3> QED BY <3>2, <3>3
  <2>2. CASE x > a
    <3>1. x \in (a + 1)..Len(s)
      BY <2>2
    <3>2. x + 1 \in 1..Len(t) /\ t[x + 1] = s[x]
      BY <3>1, <1>2
    <3>3. x <= x + 1 /\ x + 1 <= x + 1
      OBVIOUS
    <3>4. PICK m : m = x + 1
      OBVIOUS
    <3>5. /\ m \in 1..Len(t) /\ t[m] = s[x] /\ x <= m /\ m <= x + 1
          /\ (x > a => m = x + 1)
      BY <3>2, <3>3, <3>4, Zenon
    <3> QED BY <3>5, Zenon
  <2> QED BY <2>1, <2>2, SMTT(30)
<1>10. Closed(t)
  <2> SUFFICES ASSUME NEW j \in 1..Len(t), InPayload(t[j])
               PROVE  \E m \in j..Len(t) :
                        t[m].k = "close" /\ t[m].r = t[j].r
    BY DEF Closed
  <2>1. PICK x \in 1..Len(s) : /\ t[j] = s[x]
                               /\ x = j \/ (x > a /\ j = x + 1)
    <3>1. CASE j \in 1..a
      BY <3>1, <1>2
    <3>2. CASE \E x \in (a + 1)..Len(s) : j = x + 1
      <4>1. PICK x \in (a + 1)..Len(s) : j = x + 1
        BY <3>2
      <4>2. x \in 1..Len(s) /\ t[j] = s[x]
        BY <4>1, <1>2
      <4>3. x > a
        OBVIOUS
      <4> QED BY <4>1, <4>2, <4>3
    <3>3. j # a + 1
      BY <1>2 DEF InPayload
    <3>4. CASE j = Len(s) + 2 /\ j \in (Len(s) + 2)..Len(t)
      BY <3>4, <1>2 DEF InPayload
    <3> QED BY <3>1, <3>2, <3>3, <3>4, <1>3
  <2>2. PICK y \in x..Len(s) : s[y].k = "close" /\ s[y].r = s[x].r
    BY <2>1 DEF Closed
  <2>3. y \in 1..Len(s)
    BY <2>2
  <2>4. PICK m \in 1..Len(t) : t[m] = s[y] /\ y <= m /\ (y > a => m = y + 1)
    BY <2>3, <1>9
  <2>5. m \in j..Len(t)
    <3>1. CASE x = j
      BY <3>1, <2>2, <2>4, <1>1
    <3>2. CASE x > a /\ j = x + 1
      <4>1. y > a
        BY <3>2, <2>2
      <4>2. m = y + 1
        BY <4>1, <2>4
      <4> QED BY <3>2, <4>2, <2>2, <1>1
    <3> QED BY <3>1, <3>2, <2>1
  <2> QED BY <2>1, <2>2, <2>4, <2>5
<1> QED BY <1>4, <1>8, <1>10

(* The chunks that arrived are followed by the next header, now sent. *)
LEMMA HeadedRun ==
  ASSUME NEW s \in Seq(Toks), NEW t, NEW a \in Nat, NEW n \in Nat,
         a < Len(s), NEW r, NEW k \in Nat, Headed(t, s, a, n, r, k),
         NEW b \in Nat, a < b, NEW x \in Nat, NEW N \in Nat, Run(s, a, x, N)
  PROVE  Run(t, b, x, N)
<1>1. /\ Len(s) \in Nat /\ Len(t) \in Nat /\ Len(s) < Len(t)
  <2>1. Len(s) \in Nat /\ Len(t) \in Nat /\ Len(t) >= Len(s) + 1
    BY LenProperties DEF Headed
  <2> QED BY <2>1
<1>2. /\ N > 0 /\ x + N <= a
      /\ \A m \in 1..N : /\ InPayload(s[x + m]) /\ s[x + m].r = s[x + 1].r
                         /\ s[x + m].i = s[x + 1].i + (m - 1)
      /\ s[x + N + 1].r = s[x + 1].r /\ s[x + N + 1].i = s[x + 1].i + N
      /\ x + N < a => s[x + N + 1].k \in {"size", "end"}
  BY DEF Run
<1>3. \A j \in 1..a : t[j] = s[j]
  BY DEF Headed
<1>4. x + N <= b /\ x + N < Len(t) /\ x + 1 \in 1..a
      /\ \A m \in 1..N : x + m \in 1..a
  BY <1>1, <1>2
<1>5. t[x + 1] = s[x + 1] /\ \A m \in 1..N : t[x + m] = s[x + m]
  BY <1>3, <1>4
<1>6. /\ t[x + N + 1].k \in {"size", "end"}
      /\ t[x + N + 1].r = s[x + N + 1].r /\ t[x + N + 1].i = s[x + N + 1].i
  <2>1. CASE x + N < a
    <3>1. x + N + 1 \in 1..a
      BY <2>1, <1>2
    <3> QED BY <2>1, <3>1, <1>2, <1>3
  <2>2. CASE x + N = a
    <3>1. a + 1 \in (a + 1)..Len(s) /\ (a + 1) - a = 1
      BY <1>1
    <3>2. s[a + 1].r = r /\ s[a + 1].i = k + 1
      BY <3>1 DEF Headed
    <3>3. t[a + 1].k = "size" /\ t[a + 1].r = r /\ t[a + 1].i = k + 1
      BY DEF Headed
    <3> QED BY <2>2, <3>2, <3>3
  <2> QED BY <2>1, <2>2, <1>2
<1> QED BY <1>2, <1>4, <1>5, <1>6 DEF Run

(* The chunk that was sent is whole. *)
LEMMA HeadedChunks ==
  ASSUME NEW s \in Seq(Toks), NEW t, NEW a \in Nat, NEW n \in Nat, n > 0,
         a + n <= Len(s), NEW r, NEW k \in Nat, Headed(t, s, a, n, r, k),
         NEW b \in Nat, b = a + n + (IF a + n = Len(s) THEN 2 ELSE 1),
         Chunked(s, a)
  PROVE  Chunked(t, b)
<1>1. Len(s) \in Nat /\ Len(t) \in Nat /\ Len(t) >= Len(s) + 1
      /\ (a + n = Len(s) => Len(t) = Len(s) + 2)
  BY LenProperties DEF Headed
<1>2. a < Len(s) /\ a < b /\ b <= Len(t)
  BY <1>1
<1> SUFFICES ASSUME NEW x \in 1..b, t[x].k = "size"
             PROVE  /\ Run(t, b, x, t[x].n)
                    /\ t[x + 1].r = t[x].r /\ t[x + 1].i = t[x].i
  BY DEF Chunked
<1>3. \/ x \in 1..a
      \/ x = a + 1
      \/ \E y \in (a + 1)..Len(s) : x = y + 1
      \/ x = Len(s) + 2 /\ x \in (Len(s) + 2)..Len(t)
  <2>1. x \in 1..Len(t)
    BY <1>1, <1>2
  <2> QED BY <2>1, <1>2, HeadedAre
<1>4. CASE x \in 1..a
  <2>1. t[x] = s[x] /\ x \in 1..Len(s) /\ x \in Nat
    BY <1>4 DEF Headed
  <2>2. t[x].n \in Nat
    <3>1. t[x] \in Toks
      BY <2>1, ElementOfSeq
    <3> QED BY <3>1 DEF Toks
  <2>3. /\ Run(s, a, x, t[x].n)
        /\ s[x + 1].r = s[x].r /\ s[x + 1].i = s[x].i
    BY <1>4, <2>1 DEF Chunked
  <2>4. Run(t, b, x, t[x].n)
    BY <1>2, <2>1, <2>2, <2>3, HeadedRun
  <2>5. x + 1 \in 1..a
    BY <1>4, <2>2, <2>3 DEF Run
  <2>6. t[x + 1] = s[x + 1]
    BY <2>5 DEF Headed
  <2> QED BY <2>1, <2>3, <2>4, <2>6
<1>5. CASE x = a + 1
  <2>1. /\ t[a + 1].r = r /\ t[a + 1].i = k + 1 /\ t[a + 1].n = n
        /\ \A j \in (a + 1)..Len(s) :
             /\ t[j + 1] = s[j] /\ s[j].r = r /\ s[j].i = k + (j - a)
             /\ InPayload(s[j])
        /\ \A j \in (Len(s) + 2)..Len(t) :
             t[j].k = "end" /\ t[j].r = r /\ t[j].i = k + n + 1
    BY DEF Headed
  <2>2. ASSUME NEW m \in 1..n
        PROVE  /\ InPayload(t[x + m]) /\ t[x + m].r = r
               /\ t[x + m].i = k + m
    <3>1. a + m \in (a + 1)..Len(s) /\ (a + m) + 1 = x + m
          /\ k + ((a + m) - a) = k + m
      <4> DEFINE l == Len(s)
      <4>1. /\ a \in Nat /\ n \in Nat /\ k \in Nat /\ l \in Nat
            /\ m \in 1..n /\ a + n <= l /\ x = a + 1
        BY <1>1, <1>5, Zenon
      <4> HIDE DEF l
      <4>2. a + m \in (a + 1)..l /\ (a + m) + 1 = x + m
            /\ k + ((a + m) - a) = k + m
        BY ONLY <4>1
      <4> QED BY <4>2 DEF l
    <3>2. t[(a + m) + 1] = s[a + m] /\ s[a + m].i = k + ((a + m) - a)
          /\ s[a + m].r = r /\ InPayload(s[a + m])
      BY <2>1, <3>1
    <3> QED BY <3>1, <3>2
  <2>3. /\ t[x + n + 1].r = r /\ t[x + n + 1].i = k + 1 + n
        /\ x + n < b => t[x + n + 1].k \in {"size", "end"}
        /\ x + n < Len(t)
    <3>1. CASE a + n = Len(s)
      <4>1. Len(s) + 2 \in (Len(s) + 2)..Len(t) /\ x + n + 1 = Len(s) + 2
            /\ x + n < Len(t)
        BY <3>1, <1>1, <1>5, SMTT(30)
      <4>2. k + n + 1 = k + 1 + n
        OBVIOUS
      <4> QED BY <2>1, <4>1, <4>2
    <3>2. CASE a + n # Len(s)
      <4>1. /\ a + n + 1 \in (a + 1)..Len(s)
            /\ (a + n + 1) + 1 = x + n + 1 /\ ~(x + n < b)
            /\ k + ((a + n + 1) - a) = k + 1 + n /\ x + n < Len(t)
        <5> DEFINE l == Len(s)
                   m == Len(t)
        <5>1. /\ a \in Nat /\ n \in Nat /\ k \in Nat /\ l \in Nat
              /\ m \in Nat /\ m >= l + 1 /\ a + n <= l /\ a + n # l
              /\ x = a + 1 /\ b = a + n + 1
          BY <3>2, <1>1, <1>5
        <5> HIDE DEF l, m
        <5>2. /\ a + n + 1 \in (a + 1)..l
              /\ (a + n + 1) + 1 = x + n + 1 /\ ~(x + n < b)
              /\ k + ((a + n + 1) - a) = k + 1 + n /\ x + n < m
          BY ONLY <5>1
        <5> QED BY <5>2 DEF l, m
      <4>2. t[(a + n + 1) + 1] = s[a + n + 1]
            /\ s[a + n + 1].i = k + ((a + n + 1) - a) /\ s[a + n + 1].r = r
        BY <2>1, <4>1
      <4> QED BY <4>1, <4>2
    <3> QED BY <3>1, <3>2
  <2>4. x + n <= b /\ 1 \in 1..n
    BY <1>1, <1>5, SMTT(30)
  <2>5. t[x + 1].r = r /\ t[x + 1].i = k + 1
    BY <2>2, <2>4
  <2>6. /\ \A m \in 1..n : k + m = k + 1 + (m - 1)
    OBVIOUS
  <2> QED BY <2>1, <2>2, <2>3, <2>4, <2>5, <2>6, <1>5, ZenonT(30) DEF Run
<1>6. CASE \E y \in (a + 1)..Len(s) : x = y + 1
  BY <1>6, ZenonT(30) DEF Headed, InPayload
<1>7. CASE x = Len(s) + 2 /\ x \in (Len(s) + 2)..Len(t)
  BY <1>7 DEF Headed
<1> QED BY <1>3, <1>4, <1>5, <1>6, <1>7

\* What t has of s, when it has headers in it where s goes on.
Holds(t, s, a) ==
  /\ \A u \in Toks : (\A j \in 1..Len(s) : Before(u, s[j])) =>
       \A j \in 1..Len(t) : Before(u, t[j])
  /\ \A x : FirstTag(s, x) =>
       \E y \in 1..Len(t) : FirstTag(t, y) /\ t[y] = s[x]
  /\ \A q : CloseIn(s, q) => CloseIn(t, q)
  /\ \A j \in 1..Len(t) :
       \/ \E x \in 1..Len(s) : t[j] = s[x]
       \/ t[j].k \in {"size", "end"}
  /\ t[1].r = s[1].r /\ t[1].i = s[1].i
  /\ IF a = 0 THEN t[1].k = "size" ELSE t[1] = s[1]

(* What was next for the reader is still next for it. *)
LEMMA HeadedHold ==
  ASSUME NEW s \in Seq(Toks), NEW t, NEW a \in Nat, NEW n \in Nat,
         a < Len(s), NEW r \in Nat, NEW k \in Nat, Headed(t, s, a, n, r, k)
  PROVE  Holds(t, s, a)
<1>1. Len(s) \in Nat /\ Len(t) \in Nat /\ Len(s) < Len(t)
  <2>1. Len(s) \in Nat /\ Len(t) \in Nat /\ Len(t) >= Len(s) + 1
    BY LenProperties DEF Headed
  <2> QED BY <2>1
<1>2. /\ \A j \in 1..a : j \in 1..Len(s) /\ j \in 1..Len(t) /\ t[j] = s[j]
      /\ \A j \in (a + 1)..Len(s) :
           /\ j \in 1..Len(s) /\ j + 1 \in 1..Len(t) /\ t[j + 1] = s[j]
           /\ s[j].r = r /\ s[j].i = k + (j - a)
      /\ t[a + 1].k = "size" /\ t[a + 1].r = r /\ t[a + 1].i = k + 1
      /\ \A j \in (Len(s) + 2)..Len(t) :
           t[j].k = "end" /\ t[j].r = r /\ t[j].i = k + n + 1
  BY DEF Headed
<1>3. /\ \A j \in 1..Len(t) :
           \/ j \in 1..a
           \/ j = a + 1
           \/ \E x \in (a + 1)..Len(s) : j = x + 1
           \/ j = Len(s) + 2 /\ j \in (Len(s) + 2)..Len(t)
      /\ \A j \in 1..Len(s) : j \in 1..a \/ j \in (a + 1)..Len(s)
  BY HeadedAre
<1>4. s[a + 1].r = r /\ s[a + 1].i = k + 1 /\ a + 1 \in 1..Len(s)
  <2>1. a + 1 \in (a + 1)..Len(s) /\ (a + 1) - a = 1
    BY <1>1
  <2>2. s[a + 1].i = k + ((a + 1) - a) /\ a + 1 \in 1..Len(s)
        /\ s[a + 1].r = r
    BY <2>1, <1>2
  <2> QED BY <2>1, <2>2
<1>5. ASSUME NEW u \in Toks, \A j \in 1..Len(s) : Before(u, s[j]),
             NEW j \in 1..Len(t)
      PROVE  Before(u, t[j])
  <2>1. CASE j \in 1..a
    BY <2>1, <1>2, <1>5
  <2>2. CASE \E x \in (a + 1)..Len(s) : j = x + 1
    BY <2>2, <1>2, <1>5
  <2>3. Before(u, s[a + 1]) /\ u.r \in Nat /\ u.i \in Nat
    BY <1>4, <1>5 DEF Toks
  <2>4. CASE j = a + 1
    BY <2>3, <2>4, <1>2, <1>4 DEF Before
  <2>5. CASE j \in (Len(s) + 2)..Len(t)
    <3>1. t[j].r = r /\ t[j].i = k + n + 1
      BY <2>5, <1>2
    <3>2. u.r < r \/ (u.r = r /\ u.i <= k + 1)
      BY <2>3, <1>4 DEF Before
    <3>3. n > 0 => (u.i <= k + 1 => u.i < k + n + 1 /\ u.i <= k + n + 1)
      BY <2>3
    <3>4. n > 0
      <4>1. j = Len(s) + 2 /\ a + n = Len(s)
        BY <2>5 DEF Headed
      <4> QED BY <4>1
    <3> QED BY <3>1, <3>2, <3>3, <3>4 DEF Before
  <2> QED BY <2>1, <2>2, <2>4, <2>5, <1>3
<1>6. ASSUME NEW x \in 1..Len(s)
      PROVE  \E y \in 1..Len(t) :
               t[y] = s[x] /\ ((x <= a /\ y = x) \/ (x > a /\ y = x + 1))
  <2>1. CASE x \in 1..a
    BY <2>1, <1>2
  <2>2. CASE x \in (a + 1)..Len(s)
    <3>1. x > a /\ x + 1 \in 1..Len(t) /\ t[x + 1] = s[x]
      BY <2>2, <1>2
    <3> QED BY <3>1
  <2> QED BY <2>1, <2>2, <1>3
<1>7. ASSUME NEW x, FirstTag(s, x)
      PROVE  \E y \in 1..Len(t) : FirstTag(t, y) /\ t[y] = s[x]
  <2>1. x \in 1..Len(s) /\ IsTag(s[x])
        /\ \A z \in 1..Len(s) : IsTag(s[z]) => x <= z
    BY <1>7 DEF FirstTag, Tags
  <2>2. PICK y \in 1..Len(t) :
          t[y] = s[x] /\ ((x <= a /\ y = x) \/ (x > a /\ y = x + 1))
    BY <2>1, <1>6
  <2>3. ASSUME NEW z \in 1..Len(t), IsTag(t[z]) PROVE y <= z
    <3>1. CASE z \in 1..a
      <4>1. x <= z
        BY <3>1, <2>1, <2>3, <1>2
      <4> QED BY <4>1, <3>1, <2>1, <2>2
    <3>2. CASE \E w \in (a + 1)..Len(s) : z = w + 1
      <4>1. PICK w \in (a + 1)..Len(s) : z = w + 1
        BY <3>2
      <4>2. x <= w
        BY <4>1, <2>1, <2>3, <1>2
      <4> QED BY <4>1, <4>2, <2>1, <2>2
    <3>3. CASE z = a + 1 \/ z \in (Len(s) + 2)..Len(t)
      BY <3>3, <2>3, <1>2 DEF IsTag
    <3> QED BY <3>1, <3>2, <3>3, <1>3
  <2>4. FirstTag(t, y)
    BY <2>1, <2>2, <2>3 DEF FirstTag, Tags
  <2> QED BY <2>2, <2>4
<1>8. ASSUME NEW q, CloseIn(s, q) PROVE CloseIn(t, q)
  <2>1. PICK x \in 1..Len(s) : s[x].k = "close" /\ s[x].r = q
    BY <1>8 DEF CloseIn
  <2> QED BY <2>1, <1>6 DEF CloseIn
<1>9. ASSUME NEW j \in 1..Len(t)
      PROVE  \/ \E x \in 1..Len(s) : t[j] = s[x]
             \/ t[j].k \in {"size", "end"}
  <2>1. CASE j \in 1..a
    BY <2>1, <1>2
  <2>2. CASE \E x \in (a + 1)..Len(s) : j = x + 1
    BY <2>2, <1>2
  <2>3. CASE j = a + 1 \/ j \in (Len(s) + 2)..Len(t)
    BY <2>3, <1>2
  <2> QED BY <2>1, <2>2, <2>3, <1>3
<1>10. /\ t[1].r = s[1].r /\ t[1].i = s[1].i
       /\ IF a = 0 THEN t[1].k = "size" ELSE t[1] = s[1]
  <2>1. CASE a = 0
    BY <2>1, <1>2, <1>4
  <2>2. CASE a # 0
    <3>1. 1 \in 1..a
      BY <2>2
    <3> QED BY <3>1, <2>2, <1>2
  <2> QED BY <2>1, <2>2
<1> QED BY <1>5, <1>7, <1>8, <1>9, <1>10 DEF Holds

(* The device cuts a chunk off its reply and sends it. *)
LEMMA SendChunkKeeps == ASSUME NetconfInv, SendChunk PROVE NetconfInv'
<1>1. PICK n \in 1..Len(out) :
        /\ pipe' = pipe \o Framed(out, n)
        /\ out' = From(out, n + 1)
  BY DEF SendChunk
<1>2. UNCHANGED <<server, ver, nbuf, npc, need, acc, msgId, rpcs, sent,
                  replies, failed>>
  BY DEF SendChunk
<1>3. /\ NetconfTypes /\ HelloInv /\ AskedInv /\ SentInv /\ OutInv
      /\ StreamInv /\ ChunkInv /\ HeldInv /\ RepliesInv /\ ExactInv
  BY DEF NetconfInv
<1>4. /\ pipe \in Seq(Toks) /\ nbuf \in Seq(Toks) /\ out \in Seq(Toks)
      /\ acc \in Seq(Toks)
  BY <1>3 DEF NetconfTypes
<1>5. /\ Arrived \in Seq(Toks) /\ Ahead \in Seq(Toks)
      /\ Len(Arrived) \in Nat /\ Len(Ahead) \in Nat /\ Len(out) \in Nat
      /\ Len(Ahead) = Len(Arrived) + Len(out)
      /\ Len(sent) \in Nat /\ Len(acc) \in Nat
  BY <1>3, AheadTypes
<1>6. PICK f \in Seq(Toks) : f = Framed(out, n)
  BY <1>4, FramedTokens
<1>7. PICK a \in Nat : a = Len(Arrived)
  BY <1>5, Zenon
<1>8. PICK s \in Seq(Toks) : s = Ahead
  BY <1>5, Zenon
<1>9. Arrived' = Arrived \o f
  <2>1. Arrived' = nbuf \o (pipe \o f)
    BY <1>1, <1>2, <1>6 DEF Arrived
  <2>2. nbuf \o (pipe \o f) = (nbuf \o pipe) \o f
    <3>1. nbuf \in Seq(Toks) /\ pipe \in Seq(Toks) /\ f \in Seq(Toks)
      BY <1>4, Zenon
    <3> QED BY ONLY <3>1, ConcatAssociative, SMTT(30)
  <2> QED BY <2>1, <2>2 DEF Arrived
<1>10. PICK t \in Seq(Toks) :
         /\ Ahead' = t /\ out' \in Seq(Toks) /\ IsRest(out', out, n)
         /\ Spliced(t, s, a, n)
         /\ Len(Arrived') = a + n + (IF n = Len(out) THEN 2 ELSE 1)
  <2>1. Ahead' = (Arrived \o f) \o out'
    BY <1>9 DEF Ahead
  <2>2. /\ out' \in Seq(Toks) /\ (Arrived \o f) \o out' \in Seq(Toks)
        /\ IsRest(out', out, n)
        /\ Len(Arrived \o f) = a + n + (IF n = Len(out) THEN 2 ELSE 1)
        /\ Spliced((Arrived \o f) \o out', Arrived \o out, a, n)
    <3>1. Arrived \in Seq(Toks) /\ out \in Seq(Toks) /\ n \in 1..Len(out)
      BY <1>4, <1>5
    <3>2. CutOff(Arrived, out, n, Framed(out, n), From(out, n + 1))
      BY <3>1, ChunkSpliced
    <3>3. CutOff(Arrived, out, n, f, out')
      BY <3>2, <1>1, <1>6, Zenon
    <3> QED BY <3>3, <1>7, Zenon DEF CutOff
  <2>3. s = Arrived \o out
    BY <1>8 DEF Ahead
  <2> QED BY <2>1, <2>2, <2>3, <1>9
<1>11. /\ n \in Nat /\ n > 0 /\ a + n <= Len(s) /\ a < Len(s)
       /\ Len(s) \in Nat /\ Len(s) = a + Len(out)
       /\ n = Len(out) <=> a + n = Len(s)
  <2> DEFINE l == Len(s)
             o == Len(out)
  <2>1. o \in Nat /\ l = a + o /\ n \in 1..o /\ a \in Nat
    BY <1>5, <1>7, <1>8
  <2> HIDE DEF l, o
  <2>2. /\ n \in Nat /\ n > 0 /\ a + n <= l /\ a < l
        /\ l \in Nat /\ l = a + o
        /\ n = o <=> a + n = l
    BY ONLY <2>1
  <2> QED BY <2>2, Zenon DEF l, o
<1>12. out # <<>>
  <2>1. Len(out) # 0
    BY <1>11, <1>5
  <2> QED BY <2>1
<1>13. server = 11 /\ Connected /\ npc # "eom"
  BY <1>3, <1>12 DEF OutInv, HelloInv
<1>14. PICK p \in Seq(Toks) : p = sent[Len(sent)]
  <2>1. Len(sent) \in 1..Len(sent) /\ sent \in Seq(Seq(Toks))
    BY <1>3, <1>5, <1>12 DEF OutInv, NetconfTypes
  <2> QED BY <2>1, ElementOfSeq
<1>15. PICK k \in 0..Len(p) : IsRest(out, p, k)
  BY <1>3, <1>12, <1>14 DEF OutInv
<1>16. PICK r \in 1..Len(sent) : r = Len(sent)
  BY <1>3, <1>5, <1>12 DEF OutInv
<1>17. /\ k \in Nat /\ Len(p) \in Nat /\ k < Len(p) /\ r \in Nat
       /\ Len(out) = Len(p) - k /\ p = sent[r]
       /\ Len(s) = a + (Len(p) - k)
       /\ \A j \in 1..Len(out) : out[j] = p[k + j]
  <2>1. k \in Nat /\ Len(p) \in Nat /\ Len(out) = Len(p) - k
        /\ \A j \in 1..Len(out) : out[j] = p[k + j]
    BY <1>15, LenProperties DEF IsRest
  <2>2. k < Len(p)
    BY <2>1, <1>11
  <2> QED BY <2>1, <2>2, <1>11, <1>14, <1>16
<1>18. \A j \in (a + 1)..Len(s) : s[j] = p[k + (j - a)]
  <2> TAKE j \in (a + 1)..Len(s)
  <2>1. Three(nbuf, pipe, out)
    BY <1>4, ThreeJoined
  <2>2. \A i \in (Len(nbuf) + Len(pipe) + 1)..
                (Len(nbuf) + Len(pipe) + Len(out)) :
          s[i] = out[i - Len(nbuf) - Len(pipe)]
    BY <2>1, <1>8 DEF Three, Ahead, Arrived
  <2>3. a = Len(nbuf) + Len(pipe) /\ Len(nbuf) \in Nat /\ Len(pipe) \in Nat
    BY <1>3, <1>7, AheadTypes
  <2>4. /\ j \in (Len(nbuf) + Len(pipe) + 1)
                 ..(Len(nbuf) + Len(pipe) + Len(out))
        /\ j - Len(nbuf) - Len(pipe) = j - a /\ j - a \in 1..Len(out)
    BY <2>3, <1>11
  <2> QED BY <2>2, <2>4, <1>17
<1>19. Headed(t, s, a, n, r, k)
  <2>1. k <= Len(p)
    BY <1>17
  <2> QED BY <2>1, <1>3, <1>10, <1>11, <1>17, <1>18, SplicedHeaded
<1>20. /\ AllGenuine(s) /\ Rising(s) /\ Closed(s) /\ Chunked(s, a)
       /\ \A j \in 1..Len(s) : s[j].k # "eom"
  BY <1>3, <1>7, <1>8, <1>13 DEF StreamInv, ChunkInv
<1>21. AllGenuine(t) /\ Rising(t) /\ Closed(t)
  BY <1>3, <1>11, <1>17, <1>19, <1>20, HeadedStream
<1>22. Holds(t, s, a)
  <2>1. a < Len(s) /\ n \in Nat /\ r \in Nat /\ k \in Nat
    BY <1>11, <1>17
  <2> QED BY <2>1, <1>19, HeadedHold
<1>23. /\ \A u \in Toks : (\A j \in 1..Len(s) : Before(u, s[j])) =>
            \A j \in 1..Len(t) : Before(u, t[j])
       /\ \A x : FirstTag(s, x) =>
            \E y \in 1..Len(t) : FirstTag(t, y) /\ t[y] = s[x]
       /\ \A q : CloseIn(s, q) => CloseIn(t, q)
       /\ \A j \in 1..Len(t) :
            \/ \E x \in 1..Len(s) : t[j] = s[x]
            \/ t[j].k \in {"size", "end"}
       /\ t[1].r = s[1].r /\ t[1].i = s[1].i
       /\ IF a = 0 THEN t[1].k = "size" ELSE t[1] = s[1]
  BY <1>22, Zenon DEF Holds
<1>24. PICK b \in Nat :
         /\ b = a + n + (IF a + n = Len(s) THEN 2 ELSE 1)
         /\ Len(Arrived') = b /\ a < b
  <2>1. Len(Arrived') = a + n + (IF a + n = Len(s) THEN 2 ELSE 1)
    BY <1>10, <1>11
  <2>2. a + n + 2 \in Nat /\ a < a + n + 2 /\ a + n + 1 \in Nat
        /\ a < a + n + 1
    BY <1>11
  <2> QED BY <2>1, <2>2
<1>25. Chunked(t, b)
  BY <1>11, <1>17, <1>19, <1>20, <1>24, HeadedChunks
<1>26. NetconfTypes'
  <2>1. pipe' \in Seq(Toks)
    BY <1>1, <1>4, <1>6, ConcatProperties
  <2> QED BY <2>1, <1>2, <1>3, <1>10 DEF NetconfTypes
<1>27. HelloInv' /\ AskedInv' /\ SentInv'
  BY <1>2, <1>3, <1>13
     DEF HelloInv, AskedInv, SentInv, Connected, Chunking
<1>28. OutInv'
  <2>1. k + n \in 0..Len(p) /\ Len(out') = Len(p) - (k + n)
    <3>1. /\ k \in Nat /\ n \in Nat /\ Len(p) \in Nat /\ k < Len(p)
          /\ Len(out) \in Nat /\ n <= Len(out) /\ Len(out) = Len(p) - k
      BY <1>5, <1>17, <1>1
    <3>2. Len(out') = Len(out) - n
      BY <1>10 DEF IsRest
    <3> QED BY ONLY <3>1, <3>2
  <2>2. ASSUME NEW j \in 1..Len(out') PROVE out'[j] = p[(k + n) + j]
    <3>1. n + j \in 1..Len(out) /\ k + (n + j) = (k + n) + j
      BY <2>1, <1>11, <1>17
    <3> QED BY <3>1, <1>10, <1>17 DEF IsRest
  <2>3. IsRest(out', p, k + n)
    BY <2>1, <2>2 DEF IsRest
  <2> QED BY <2>1, <2>3, <1>2, <1>3, <1>12, <1>14 DEF OutInv
<1>29. StreamInv' /\ ChunkInv'
  <2>1. \A j \in 1..Len(t) : t[j].k # "eom"
    BY <1>20, <1>23
  <2>2. AllGenuine(t)'
    BY <1>2, <1>21 DEF AllGenuine, Genuine
  <2>3. StreamInv'
    BY <2>2, <1>10, <1>21 DEF StreamInv, AllGenuine
  <2>4. Ahead' = t /\ Len(Arrived') = b /\ server' = 11
    BY <1>2, <1>10, <1>13, <1>24
  <2> QED BY <2>1, <2>3, <2>4, <1>25 DEF ChunkInv
<1>30. ASSUME Chunking, Aligned PROVE Aligned'
  <2>1. CASE npc = "data"
    <3>1. Run(s, a, 0, need) /\ need \in Nat
      BY <2>1, <1>3, <1>7, <1>8, <1>30 DEF Aligned, NetconfTypes
    <3>2. Run(t, b, 0, need)
      BY <3>1, <1>11, <1>17, <1>19, <1>24, HeadedRun
    <3> QED BY <3>2, <2>1, <1>2, <1>10, <1>24 DEF Aligned
  <2>2. CASE npc # "data"
    <3>1. a > 0 => s[1].k \in {"size", "end"}
      BY <2>2, <1>7, <1>8, <1>30 DEF Aligned
    <3>2. t[1].k \in {"size", "end"}
      <4>1. a = 0 \/ a > 0
        OBVIOUS
      <4> QED BY <4>1, <3>1, <1>23
    <3> QED BY <3>2, <2>2, <1>2, <1>10 DEF Aligned
  <2> QED BY <2>1, <2>2
<1>31. HeldInv'
  <2> SUFFICES ASSUME Chunking
               PROVE  /\ AllGenuine(acc) /\ Rising(acc)
                      /\ \A i \in 1..Len(acc), j \in 1..Len(t) :
                           Before(acc[i], t[j])
                      /\ \A x \in 1..Len(acc) :
                           FirstTag(acc, x) /\ acc[x].k = "open" =>
                             \/ CloseIn(acc, acc[x].r)
                             \/ Aligned' /\ CloseIn(t, acc[x].r)
                      /\ npc = "data" /\ Tags(acc) = {} =>
                           \/ Aligned'
                           \/ \E x \in 1..Len(t) :
                                FirstTag(t, x) /\ t[x].k # "open"
    BY <1>2, <1>10 DEF HeldInv, Chunking, AllGenuine, Genuine
  <2>1. /\ AllGenuine(acc) /\ Rising(acc)
        /\ \A i \in 1..Len(acc), j \in 1..Len(s) : Before(acc[i], s[j])
        /\ \A x \in 1..Len(acc) : FirstTag(acc, x) /\ acc[x].k = "open" =>
             \/ CloseIn(acc, acc[x].r)
             \/ Aligned /\ CloseIn(s, acc[x].r)
        /\ npc = "data" /\ Tags(acc) = {} =>
             \/ Aligned
             \/ \E x \in 1..Len(s) : FirstTag(s, x) /\ s[x].k # "open"
    BY <1>3, <1>8 DEF HeldInv
  <2>2. ASSUME NEW i \in 1..Len(acc), NEW j \in 1..Len(t)
        PROVE  Before(acc[i], t[j])
    <3>1. acc[i] \in Toks
      BY <1>4, ElementOfSeq
    <3> QED BY <3>1, <2>1, <1>23
  <2>3. ASSUME NEW x \in 1..Len(acc), FirstTag(acc, x), acc[x].k = "open",
               ~CloseIn(acc, acc[x].r)
        PROVE  Aligned' /\ CloseIn(t, acc[x].r)
    <3>1. Aligned /\ CloseIn(s, acc[x].r)
      BY <2>1, <2>3
    <3> QED BY <3>1, <1>23, <1>30
  <2>4. ASSUME npc = "data", Tags(acc) = {}, ~Aligned
        PROVE  \E x \in 1..Len(t) : FirstTag(t, x) /\ t[x].k # "open"
    <3>1. PICK x \in 1..Len(s) : FirstTag(s, x) /\ s[x].k # "open"
      BY <2>1, <2>4
    <3> QED BY <3>1, <1>23
  <2> QED BY <2>1, <2>2, <2>3, <2>4, <1>30
<1>32. RepliesInv'
  <2>1. /\ RepliesInOrder /\ Behind(s) /\ (Chunking => Behind(acc))
        /\ \A j \in 1..Len(replies) : RootOf(j).r \in 1..Len(sent)
    BY <1>3, <1>8 DEF RepliesInv
  <2>2. Behind(t)
    <3> SUFFICES ASSUME NEW j \in 1..Len(replies), NEW i \in 1..Len(t),
                        t[i].k = "open"
                 PROVE  RootOf(j).r < t[i].r
      BY DEF Behind
    <3> QED BY <2>1, <1>23 DEF Behind
  <2> QED BY <2>1, <2>2, <1>2, <1>10
          DEF RepliesInv, RepliesInOrder, Behind, RootOf, Chunking
<1>33. ExactInv'
  <2>1. ReplyExact'
    BY <1>2, <1>3 DEF ExactInv, ReplyExact
  <2>2. s # <<>> /\ t # <<>>
    <3>1. Len(t) \in Nat /\ Len(t) >= Len(s) + 1
      BY <1>19, Zenon DEF Headed
    <3>2. Len(s) > 0 /\ Len(t) > 0
      BY ONLY <1>11, <3>1
    <3> QED BY <3>2
  <2>3. ASSUME ~failed
        PROVE  /\ npc \in {"size", "data"} /\ Len(replies) = msgId - 1
               /\ msgId > 0 /\ rpcs = <<>> /\ Aligned
               /\ acc = SubSeq(sent[msgId], 1, Len(acc))
               /\ Len(acc) <= Len(sent[msgId])
               /\ s[1].r = msgId /\ s[1].i = Len(acc) + 1
    <3>1. npc \in {"idle", "eom", "size", "data"}
      BY <1>3, <1>13 DEF NetconfTypes, Connected
    <3> QED BY <3>1, <2>2, <2>3, <1>3, <1>8, <1>13 DEF ExactInv
  <2>4. ASSUME ~failed PROVE Aligned'
    BY <2>3, <2>4, <1>30 DEF Chunking
  <2> QED BY <2>1, <2>2, <2>3, <2>4, <1>2, <1>10, <1>23 DEF ExactInv
<1> QED BY <1>26, <1>27, <1>28, <1>29, <1>31, <1>32, <1>33 DEF NetconfInv

---------------------------------------------------------------------------
(* The reads.                                                              *)

\* What holds once the first k tokens were taken from the stream.
AfterRead(k) ==
  /\ nbuf' \in Seq(Toks) /\ Ahead \in Seq(Toks) /\ Ahead' \in Seq(Toks)
  /\ IsRest(Ahead', Ahead, k)
  /\ Len(Arrived) \in Nat /\ Len(Arrived') = Len(Arrived) - k
  /\ k <= Len(Arrived) /\ Len(Arrived) <= Len(Ahead)
  /\ AllGenuine(Ahead) /\ Rising(Ahead) /\ Closed(Ahead)
  /\ AllGenuine(Ahead') /\ Behind(Ahead')
  /\ HelloInv' /\ AskedInv' /\ SentInv' /\ OutInv' /\ StreamInv' /\ ChunkInv'

(* A read from the buffer takes from the front of what is ahead. *)
LEMMA ReadTakes ==
  ASSUME NetconfInv, NEW k \in 0..Len(nbuf), nbuf' = From(nbuf, k + 1),
         UNCHANGED <<server, ver, pipe, msgId, rpcs, out, sent>>,
         npc \in {"eom", "size", "data"},
         npc' = "idle" \/ (npc' \in {"size", "data"} /\ npc # "eom")
  PROVE  AfterRead(k)
<1>1. /\ NetconfTypes /\ HelloInv /\ AskedInv /\ SentInv /\ OutInv
      /\ StreamInv /\ ChunkInv /\ RepliesInv
  BY DEF NetconfInv
<1>2. /\ Ahead \in Seq(Toks) /\ Len(Arrived) \in Nat /\ Len(nbuf) \in Nat
      /\ Len(Arrived) = Len(nbuf) + Len(pipe) /\ Len(pipe) \in Nat
      /\ Len(Ahead) = Len(Arrived) + Len(out) /\ Len(out) \in Nat
      /\ pipe \in Seq(Toks) /\ nbuf \in Seq(Toks) /\ out \in Seq(Toks)
  BY <1>1, AheadTypes DEF NetconfTypes
<1>3. /\ nbuf' \in Seq(Toks) /\ IsRest(Ahead', Ahead, k)
      /\ Len(Arrived') = Len(Arrived) - k
  <2>1. /\ From(nbuf, k + 1) \in Seq(Toks)
        /\ IsRest((From(nbuf, k + 1) \o pipe) \o out, (nbuf \o pipe) \o out, k)
        /\ Len(From(nbuf, k + 1) \o pipe) = Len(nbuf \o pipe) - k
    <3>1. /\ nbuf \in Seq(Toks) /\ pipe \in Seq(Toks) /\ out \in Seq(Toks)
          /\ k \in 0..Len(nbuf)
      BY <1>2, Zenon
    <3>2. From(nbuf, k + 1) \in Seq(Toks)
      BY ONLY <3>1, Taken, Zenon
    <3>3. IsRest((From(nbuf, k + 1) \o pipe) \o out,
                 (nbuf \o pipe) \o out, k)
      BY ONLY <3>1, Taken, Zenon
    <3>4. Len(From(nbuf, k + 1)) = Len(nbuf) - k
      BY ONLY <3>1, CutInTwo DEF From
    <3>5. /\ Len(From(nbuf, k + 1) \o pipe)
               = Len(From(nbuf, k + 1)) + Len(pipe)
          /\ Len(nbuf \o pipe) = Len(nbuf) + Len(pipe)
      BY <3>1, <3>2, ConcatProperties, Zenon
    <3>6. Len(From(nbuf, k + 1) \o pipe) = Len(nbuf \o pipe) - k
      <4> DEFINE l == Len(nbuf)
                 m == Len(pipe)
                 x == Len(From(nbuf, k + 1) \o pipe)
                 y == Len(nbuf \o pipe)
      <4>1. x = (l - k) + m /\ y = l + m
        BY <3>4, <3>5
      <4>2. l \in Nat /\ m \in Nat /\ k \in Nat
        BY <1>2
      <4> HIDE DEF l, m, x, y
      <4>3. x = y - k
        BY ONLY <4>1, <4>2
      <4> QED BY <4>3 DEF x, y
    <3> QED BY <3>2, <3>3, <3>6, Zenon
  <2>2. pipe' = pipe /\ out' = out
    OBVIOUS
  <2> QED BY <2>1, <2>2 DEF Ahead, Arrived
<1>4. Ahead' \in Seq(Toks)
  <2>1. Three(nbuf', pipe, out)
    BY <1>2, <1>3, ThreeJoined
  <2> QED BY <2>1 DEF Three, Ahead, Arrived
<1>5. k <= Len(Arrived) /\ Len(Arrived) <= Len(Ahead) /\ k \in Nat
  <2>1. k \in 0..Len(nbuf)
    OBVIOUS
  <2> QED BY ONLY <1>2, <2>1
<1>6. Connected /\ Connected'
  BY DEF Connected
<1>7. AllGenuine(Ahead) /\ Rising(Ahead) /\ Closed(Ahead) /\ Behind(Ahead)
  BY <1>1, <1>6 DEF StreamInv, RepliesInv
<1>8. /\ AllGenuine(Ahead') /\ Rising(Ahead') /\ Closed(Ahead')
      /\ Behind(Ahead')
  BY <1>2, <1>3, <1>4, <1>7, RestOfStream
<1>9. StreamInv'
  BY <1>8 DEF StreamInv, AllGenuine, Genuine
<1>10. HelloInv' /\ AskedInv' /\ SentInv' /\ OutInv'
  <2>1. npc' # "hello" /\ npc' # "closed"
    OBVIOUS
  <2>2. npc' \in {"size", "data"} => server = 11
    BY <1>1 DEF HelloInv, Chunking
  <2>3. AskedInv' /\ SentInv' /\ OutInv'
    BY <1>1 DEF AskedInv, SentInv, OutInv
  <2>4. server \in {10, 11} /\ ver = server
    BY <1>1, <1>6 DEF HelloInv
  <2> QED BY <2>1, <2>2, <2>3, <2>4, <1>6 DEF HelloInv, Chunking
<1>11. ChunkInv'
  <2>1. ASSUME server = 11 PROVE Chunked(Ahead', Len(Arrived'))
    <3>1. Chunked(Ahead, Len(Arrived))
      BY <1>1, <1>6, <2>1 DEF ChunkInv
    <3> QED BY <3>1, <1>2, <1>3, <1>4, <1>5, RestOfChunks
  <2>2. \A j \in 1..Len(Ahead') : \E x \in 1..Len(Ahead) :
          Ahead'[j] = Ahead[x]
    <3> TAKE j \in 1..Len(Ahead')
    <3>1. Len(Ahead') = Len(Ahead) - k /\ Ahead'[j] = Ahead[k + j]
      BY <1>3 DEF IsRest
    <3>2. k + j \in 1..Len(Ahead)
      BY <3>1, <1>2, <1>5
    <3> QED BY <3>1, <3>2
  <2>3. server = 10 => out = <<>> /\ \A j \in 1..Len(Ahead) :
                                       Ahead[j].k \notin {"size", "end"}
    BY <1>1 DEF ChunkInv
  <2>4. server = 11 => \A j \in 1..Len(Ahead) : Ahead[j].k # "eom"
    BY <1>1, <1>6 DEF ChunkInv
  <2>5. server = 10 => \A j \in 1..Len(Ahead') :
                         Ahead'[j].k \notin {"size", "end"}
    BY <2>2, <2>3
  <2>6. server = 11 => \A j \in 1..Len(Ahead') : Ahead'[j].k # "eom"
    BY <2>2, <2>4
  <2> QED BY <2>1, <2>3, <2>5, <2>6 DEF ChunkInv
<1> QED BY <1>2, <1>3, <1>4, <1>5, <1>7, <1>8, <1>9, <1>10, <1>11
        DEF AfterRead

\* What was held, A, with the first tokens of the stream z behind it: where
\* a reply opens, it closes as well or nothing of a later one was read.
OneReply(s) ==
  /\ s \in Seq(Toks) /\ AllGenuine(s) /\ Rising(s) /\ Behind(s)
  /\ \A x \in 1..Len(s) : FirstTag(s, x) /\ s[x].k = "open" =>
       \/ CloseIn(s, s[x].r)
       \/ \A j \in 1..Len(s) : s[j].r <= s[x].r

\* The places of the two parts of s.
Parts(s, A, u) ==
  /\ s \in Seq(Toks) /\ Len(A) \in Nat /\ Len(u) \in Nat
  /\ Len(s) = Len(A) + Len(u)
  /\ \A j \in 1..Len(A) : j \in 1..Len(s) /\ s[j] = A[j]
  /\ \A j \in 1..Len(u) : Len(A) + j \in 1..Len(s) /\ s[Len(A) + j] = u[j]
  /\ \A j \in 1..Len(s) :
       \/ j \in 1..Len(A)
       \/ \E i \in 1..Len(u) : j = Len(A) + i

(* Every token of two sequences joined is one of the first or the second. *)
LEMMA TwoParts ==
  ASSUME NEW A \in Seq(Toks), NEW u \in Seq(Toks)
  PROVE  Parts(A \o u, A, u)
<1> DEFINE s == A \o u
<1>1. /\ s \in Seq(Toks) /\ Len(A) \in Nat /\ Len(u) \in Nat
      /\ Len(s) = Len(A) + Len(u)
      /\ \A j \in 1..Len(A) : s[j] = A[j]
      /\ \A j \in (Len(A) + 1)..(Len(A) + Len(u)) : s[j] = u[j - Len(A)]
  BY Joined, SMTT(30)
<1> HIDE DEF s
<1>2. \A j \in 1..Len(A) : j \in 1..Len(s) /\ s[j] = A[j]
  BY <1>1, SMTT(30)
<1>3. ASSUME NEW j \in 1..Len(u)
      PROVE  Len(A) + j \in 1..Len(s) /\ s[Len(A) + j] = u[j]
  <2>1. /\ Len(A) + j \in (Len(A) + 1)..(Len(A) + Len(u))
        /\ (Len(A) + j) - Len(A) = j /\ Len(A) + j \in 1..Len(s)
    BY <1>1
  <2> QED BY <2>1, <1>1
<1>4. ASSUME NEW j \in 1..Len(s)
      PROVE  \/ j \in 1..Len(A)
             \/ \E i \in 1..Len(u) : j = Len(A) + i
  <2>1. j \in 1..Len(A) \/ (j - Len(A) \in 1..Len(u)
                            /\ j = Len(A) + (j - Len(A)))
    BY <1>1
  <2> QED BY <2>1
<1> QED BY <1>1, <1>2, <1>3, <1>4 DEF Parts, s

(* What is read is the beginning of what was ahead. *)
LEMMA Held ==
  ASSUME NetconfTypes, NEW m \in 0..Len(nbuf), NEW u, u = Upto(nbuf, m)
  PROVE  /\ u \in Seq(Toks) /\ Len(u) = m
         /\ \A j \in 1..Len(u) : u[j] = Ahead[j]
<1>1. pipe \in Seq(Toks) /\ nbuf \in Seq(Toks) /\ out \in Seq(Toks)
  BY DEF NetconfTypes
<1>2. /\ Upto(nbuf, m) \in Seq(Toks) /\ Len(Upto(nbuf, m)) = m
      /\ \A j \in 1..m : Upto(nbuf, m)[j] = ((nbuf \o pipe) \o out)[j]
  BY <1>1, Taken, ZenonT(30)
<1>3. u \in Seq(Toks) /\ Len(u) = m /\ \A j \in 1..m : u[j] = Ahead[j]
  BY <1>2, Zenon DEF Ahead, Arrived
<1> QED BY <1>3

(* What is held and what is read next, together, are in order. *)
LEMMA HeldAndRead ==
  ASSUME NEW A \in Seq(Toks), NEW u \in Seq(Toks), NEW z \in Seq(Toks),
         NEW v, NEW k, IsRest(v, z, k), Len(u) <= k,
         \A j \in 1..Len(u) : u[j] = z[j],
         AllGenuine(A), Rising(A), Behind(A),
         AllGenuine(z), Rising(z), Closed(z), Behind(z),
         \A i \in 1..Len(A), j \in 1..Len(z) : Before(A[i], z[j]),
         \A x \in 1..Len(A) : FirstTag(A, x) /\ A[x].k = "open" =>
           CloseIn(A, A[x].r) \/ CloseIn(z, A[x].r)
  PROVE  /\ OneReply(A \o u)
         /\ \A i \in 1..Len(A \o u), j \in 1..Len(v) :
              Before((A \o u)[i], v[j])
<1>1. PICK s : s = A \o u
  OBVIOUS
<1>2. /\ s \in Seq(Toks) /\ Len(A) \in Nat /\ Len(u) \in Nat
      /\ Len(s) = Len(A) + Len(u)
      /\ \A j \in 1..Len(A) : j \in 1..Len(s) /\ s[j] = A[j]
      /\ \A j \in 1..Len(u) :
           Len(A) + j \in 1..Len(s) /\ s[Len(A) + j] = u[j]
      /\ \A j \in 1..Len(s) :
           \/ j \in 1..Len(A)
           \/ \E i \in 1..Len(u) : j = Len(A) + i
  BY <1>1, TwoParts DEF Parts
<1>3. /\ Len(z) \in Nat /\ k \in Nat /\ k <= Len(z) /\ Len(u) <= Len(z)
      /\ \A j \in 1..Len(v) : k + j \in 1..Len(z) /\ v[j] = z[k + j]
  <2>1. /\ Len(z) \in Nat /\ k \in Nat /\ k <= Len(z)
        /\ Len(v) = Len(z) - k /\ \A j \in 1..Len(v) : v[j] = z[k + j]
    BY LenProperties DEF IsRest
  <2>2. Len(u) <= Len(z)
    <3>1. Len(u) \in Nat /\ Len(u) <= k
      BY <1>2
    <3> QED BY ONLY <3>1, <2>1
  <2> QED BY <2>1, <2>2
<1>4. \A j \in 1..Len(u) : j \in 1..Len(z) /\ j \in 1..k /\ u[j] = z[j]
  BY <1>2, <1>3
<1>5. ASSUME NEW j \in 1..Len(s)
      PROVE  \/ j \in 1..Len(A) /\ s[j] = A[j]
             \/ \E i \in 1..Len(u) : /\ j = Len(A) + i /\ s[j] = z[i]
                                     /\ i \in 1..Len(z) /\ i \in 1..k
  BY <1>2, <1>4
<1>6. AllGenuine(s) /\ Behind(s)
  BY <1>5 DEF AllGenuine, Behind
<1>7. ASSUME NEW i \in 1..Len(s), NEW j \in 1..Len(z),
             i \in 1..Len(A) \/ i - Len(A) < j
      PROVE  Before(s[i], z[j])
  <2>1. CASE i \in 1..Len(A)
    BY <2>1, <1>2
  <2>2. CASE i \notin 1..Len(A)
    <3>1. PICK m \in 1..Len(u) : i = Len(A) + m /\ s[i] = z[m]
                                 /\ m \in 1..Len(z)
      BY <2>2, <1>5
    <3>2. m < j
      <4>1. i - Len(A) < j /\ i = Len(A) + m /\ m \in Nat /\ Len(A) \in Nat
            /\ j \in Nat
        BY <2>2, <3>1, <1>2, <1>7
      <4> QED BY ONLY <4>1
    <3> QED BY <3>1, <3>2 DEF Rising
  <2> QED BY <2>1, <2>2
<1>8. Rising(s)
  <2> SUFFICES ASSUME NEW i \in 1..Len(s), NEW j \in 1..Len(s), i < j
               PROVE  Before(s[i], s[j])
    BY DEF Rising
  <2>1. CASE j \in 1..Len(A)
    <3>1. i \in 1..Len(A)
      BY <2>1, <1>2
    <3> QED BY <2>1, <3>1, <1>2 DEF Rising
  <2>2. CASE j \notin 1..Len(A)
    <3>1. PICK m \in 1..Len(u) : j = Len(A) + m /\ s[j] = z[m]
                                 /\ m \in 1..Len(z)
      BY <2>2, <1>5
    <3>2. i - Len(A) < m
      <4>1. i < j /\ j = Len(A) + m /\ i \in Nat /\ m \in Nat
            /\ Len(A) \in Nat
        BY <3>1, <1>2
      <4> QED BY ONLY <4>1
    <3> QED BY <3>1, <3>2, <1>7
  <2> QED BY <2>1, <2>2
<1>9. ASSUME NEW i \in 1..Len(s), NEW j \in 1..Len(v)
      PROVE  Before(s[i], v[j])
  <2>1. i \in 1..Len(A) \/ i - Len(A) < k + j
    <3>1. CASE i \in 1..Len(A)
      BY <3>1
    <3>2. CASE i \notin 1..Len(A)
      <4>1. PICK m \in 1..k : i = Len(A) + m
        BY <3>2, <1>5
      <4>2. i = Len(A) + m /\ m \in Nat /\ m <= k /\ k \in Nat
            /\ Len(A) \in Nat /\ j \in Nat /\ j > 0
        BY <4>1, <1>2, <1>3
      <4> QED BY ONLY <4>2
    <3> QED BY <3>1, <3>2
  <2>2. k + j \in 1..Len(z) /\ v[j] = z[k + j]
    BY <1>3
  <2> QED BY <2>1, <2>2, <1>7
<1>10. ASSUME NEW x \in 1..Len(s), FirstTag(s, x), s[x].k = "open"
       PROVE  \/ CloseIn(s, s[x].r)
              \/ \E m \in 1..Len(z) :
                   /\ z[m].r = s[x].r
                   /\ \A j \in 1..Len(s) : j \in 1..Len(A) \/ j - Len(A) < m
  <2>1. IsTag(s[x]) /\ \A y \in 1..Len(s) : IsTag(s[y]) => x <= y
    BY <1>10 DEF FirstTag, Tags
  <2>2. ASSUME NEW m \in 1..Len(z), z[m].k = "close", z[m].r = s[x].r
        PROVE  \/ CloseIn(s, s[x].r)
               \/ \A j \in 1..Len(s) : j \in 1..Len(A) \/ j - Len(A) < m
    <3>1. CASE m <= Len(u)
      <4>1. m \in 1..Len(u)
        BY <3>1, <1>2
      <4>2. Len(A) + m \in 1..Len(s) /\ s[Len(A) + m] = z[m]
        BY <4>1, <1>2
      <4> QED BY <4>2, <2>2 DEF CloseIn
    <3>2. CASE ~(m <= Len(u))
      <4> SUFFICES ASSUME NEW j \in 1..Len(s), j \notin 1..Len(A)
                   PROVE  j - Len(A) < m
        OBVIOUS
      <4>1. j \in Nat /\ j <= Len(A) + Len(u) /\ Len(A) \in Nat
            /\ Len(u) \in Nat /\ m \in Nat
        BY <1>2
      <4> QED BY ONLY <4>1, <3>2
    <3> QED BY <3>1, <3>2
  <2>3. CASE x \in 1..Len(A)
    <3>1. s[x] = A[x]
      BY <2>3, <1>2
    <3>2. FirstTag(A, x)
      <4>1. \A y \in 1..Len(A) : IsTag(A[y]) => x <= y
        BY <2>1, <1>2
      <4> QED BY <4>1, <3>1, <2>1, <2>3 DEF FirstTag, Tags
    <3>3. CASE CloseIn(A, A[x].r)
      <4>1. PICK y \in 1..Len(A) : A[y].k = "close" /\ A[y].r = A[x].r
        BY <3>3 DEF CloseIn
      <4> QED BY <4>1, <3>1, <1>2 DEF CloseIn
    <3>4. CASE CloseIn(z, A[x].r)
      <4>1. PICK m \in 1..Len(z) : z[m].k = "close" /\ z[m].r = s[x].r
        BY <3>1, <3>4 DEF CloseIn
      <4> QED BY <4>1, <2>2
    <3> QED BY <2>3, <3>1, <3>2, <3>3, <3>4, <1>10
  <2>4. CASE x \notin 1..Len(A)
    <3>1. PICK i \in 1..Len(u) : s[x] = z[i] /\ i \in 1..Len(z)
      BY <2>4, <1>5
    <3>2. InPayload(z[i])
      BY <3>1, <1>10 DEF InPayload
    <3>3. PICK m \in i..Len(z) : z[m].k = "close" /\ z[m].r = z[i].r
      BY <3>1, <3>2 DEF Closed
    <3>4. m \in 1..Len(z)
      BY <3>3, <1>3
    <3> QED BY <3>1, <3>3, <3>4, <2>2
  <2> QED BY <2>3, <2>4
<1>11. ASSUME NEW x \in 1..Len(s), FirstTag(s, x), s[x].k = "open"
       PROVE  \/ CloseIn(s, s[x].r)
              \/ \A j \in 1..Len(s) : s[j].r <= s[x].r
  <2>1. SUFFICES ASSUME NEW m \in 1..Len(z), z[m].r = s[x].r,
                        NEW j \in 1..Len(s),
                        j \in 1..Len(A) \/ j - Len(A) < m
                 PROVE  s[j].r <= s[x].r
    BY <1>10, <1>11
  <2>2. Before(s[j], z[m])
    BY <2>1, <1>7
  <2>3. s[j].r \in Nat /\ z[m].r \in Nat
    <3>1. s[j] \in Toks /\ z[m] \in Toks
      BY <1>2, ElementOfSeq
    <3> QED BY <3>1 DEF Toks
  <2> QED BY <2>1, <2>2, <2>3 DEF Before
<1> QED BY <1>1, <1>2, <1>6, <1>8, <1>9, <1>11 DEF OneReply

(* A reply parses: it is one element from its first token to its last. *)
LEMMA ReplyParses ==
  ASSUME NEW p, NEW r, ProperReply(p, r)
  PROVE  RootEnd(p) # 0 /\ Parsed(p) = Clean(p)
<1>1. /\ p \in Seq(Toks) /\ Len(p) \in Nat /\ Len(p) > 1
      /\ \A j \in 1..Len(p) :
           /\ p[j].k # "eom"
           /\ p[j].k = "open" <=> j = 1
           /\ p[j].k = "close" <=> j = Len(p)
  BY LenProperties DEF ProperReply
<1>2. Tags(p) = {1, Len(p)}
  <2>1. \A j \in Tags(p) : j = 1 \/ j = Len(p)
    BY <1>1 DEF Tags, IsTag
  <2>2. 1 \in 1..Len(p) /\ Len(p) \in 1..Len(p)
    BY <1>1
  <2>3. 1 \in Tags(p) /\ Len(p) \in Tags(p)
    BY <2>2, <1>1 DEF Tags, IsTag
  <2> QED BY <2>1, <2>3
<1> DEFINE T == Tags(p)
           a == MinOf(T)
           R == {i \in T : i > a}
           b == MinOf(R)
<1>3. RootEnd(p) = IF T = {} \/ R = {} THEN 0
                   ELSE IF p[a].k = "open" /\ p[b].k = "close"
                   THEN b ELSE 0
  BY DEF RootEnd
<1>4. a = 1
  <2>1. a \in T /\ \A j \in T : a <= j
    <3>1. T \subseteq Nat /\ T # {}
      BY <1>1, <1>2
    <3> QED BY <3>1, MinOfSet
  <2> HIDE DEF a
  <2> QED BY <2>1, <1>1, <1>2
<1>5. R = {Len(p)}
  BY <1>1, <1>2, <1>4
<1>6. b = Len(p)
  <2>1. b \in R
    <3>1. R \subseteq Nat /\ R # {}
      BY <1>1, <1>5
    <3> QED BY <3>1, MinOfSet
  <2> QED BY <2>1, <1>5
<1> HIDE DEF T, a, R, b
<1>7. RootEnd(p) = Len(p)
  <2>1. T # {} /\ R # {}
    BY <1>2, <1>5 DEF T
  <2>2. p[1].k = "open" /\ p[Len(p)].k = "close"
    <3>1. 1 \in 1..Len(p) /\ Len(p) \in 1..Len(p)
      BY <1>1
    <3> QED BY <3>1, <1>1
  <2> QED BY <2>1, <2>2, <1>3, <1>4, <1>6
<1>8. Parsed(p) = Clean(p)
  <2>1. CASE \E i \in 1..RootEnd(p) : p[i].k = "bad"
    BY <2>1 DEF Parsed
  <2>2. CASE ~(\E i \in 1..RootEnd(p) : p[i].k = "bad")
    <3>1. Parsed(p) = p
      BY <2>2 DEF Parsed
    <3>2. Clean(p) = p
      BY <2>2, <1>1, <1>7, CleanSame
    <3> QED BY <3>1, <3>2
  <2> QED BY <2>1, <2>2
<1> QED BY <1>1, <1>7, <1>8

\* The reply of the call was read to its end, and nothing else has come.
Whole(s) ==
  /\ rpcs = <<>> /\ Len(replies) = msgId - 1 /\ msgId > 0
  /\ s = sent[msgId] /\ Ahead' = <<>>

(* The call gets what was sent for it. *)
LEMMA FinishExact ==
  ASSUME NetconfTypes, AskedInv, SentInv, ExactInv, NEW s, Whole(s), ~failed,
         Finish(s), UNCHANGED <<msgId, rpcs, sent>>
  PROVE  ExactInv'
<1>1. /\ replies \in Seq([to : Nat, body : Seq(Toks)]) /\ msgId \in Nat
      /\ Len(replies) \in Nat /\ Len(sent) \in Nat /\ Len(rpcs) = 0
      /\ rpcs = <<>> /\ Len(replies) = msgId - 1 /\ msgId > 0
      /\ s = sent[msgId] /\ Ahead' = <<>> /\ npc' = "idle"
      /\ msgId' = msgId /\ sent' = sent /\ rpcs' = rpcs
      /\ msgId = Len(sent) + Len(rpcs)
  <2>1. rpcs = <<>>
    BY DEF Whole
  <2>2. Len(rpcs) = 0
    BY <2>1
  <2>3. /\ replies \in Seq([to : Nat, body : Seq(Toks)]) /\ msgId \in Nat
        /\ Len(replies) \in Nat /\ Len(sent) \in Nat
    BY AheadTypes DEF NetconfTypes
  <2> QED BY <2>1, <2>2, <2>3 DEF Whole, Finish, AskedInv
<1>2. msgId = Len(sent) /\ msgId \in 1..Len(sent)
  BY <1>1
<1>3. ProperReply(s, msgId)
  BY <1>1, <1>2 DEF SentInv
<1>4. RootEnd(s) # 0 /\ Parsed(s) = Clean(s)
  BY <1>3, ReplyParses
<1> DEFINE e == [to |-> msgId, body |-> Clean(s)]
<1>5. replies' = Append(replies, e) /\ failed' = failed
  BY <1>4 DEF Finish
<1>6. /\ Len(replies') = Len(replies) + 1
      /\ \A j \in 1..Len(replies) : replies'[j] = replies[j]
      /\ replies'[Len(replies) + 1] = e
  <2>1. e \in [to : Nat, body : Seq(Toks)]
    <3>1. Clean(s) \in Seq(Toks)
      BY <1>3, CleanSame DEF ProperReply
    <3> QED BY <3>1, <1>1
  <2> HIDE DEF e
  <2> QED BY <2>1, <1>1, <1>5, AppendProperties
<1>7. /\ Len(replies) <= Len(sent)
      /\ \A i \in 1..Len(replies) :
           replies[i].to = i /\ replies[i].body = Clean(sent[i])
  BY DEF ExactInv, ReplyExact
<1>8. ReplyExact'
  <2>1. Len(replies') <= Len(sent')
    BY <1>1, <1>2, <1>6
  <2>2. ASSUME NEW i \in 1..Len(replies')
        PROVE  replies'[i].to = i /\ replies'[i].body = Clean(sent[i])
    <3>1. CASE i \in 1..Len(replies)
      BY <3>1, <1>6, <1>7
    <3>2. CASE i \notin 1..Len(replies)
      <4>1. i = Len(replies) + 1 /\ i = msgId
        <5>1. i \in 1..(Len(replies) + 1) /\ Len(replies) \in Nat
              /\ Len(replies) = msgId - 1 /\ msgId \in Nat
          BY <1>1, <1>6
        <5> QED BY ONLY <5>1, <3>2
      <4> QED BY <4>1, <1>1, <1>6
    <3> QED BY <3>1, <3>2
  <2> QED BY <2>1, <2>2, <1>1 DEF ReplyExact
<1>9. Len(replies') = msgId
  BY <1>1, <1>6
<1> QED BY <1>1, <1>8, <1>9 DEF ExactInv

(* The end of a call of either framing. *)
LEMMA FinishKeeps ==
  ASSUME NetconfInv, NEW k \in 0..Len(nbuf), AfterRead(k), NEW s, OneReply(s),
         \A i \in 1..Len(s), j \in 1..Len(Ahead') : Before(s[i], Ahead'[j]),
         Finish(s),
         UNCHANGED <<server, ver, pipe, acc, need, msgId, rpcs, out, sent>>,
         ~failed => Whole(s)
  PROVE  NetconfInv'
<1>1. /\ NetconfTypes /\ AskedInv /\ SentInv /\ RepliesInv /\ ExactInv
  BY DEF NetconfInv
<1>2. /\ nbuf' \in Seq(Toks) /\ Ahead \in Seq(Toks) /\ Ahead' \in Seq(Toks)
      /\ IsRest(Ahead', Ahead, k) /\ AllGenuine(Ahead)
      /\ HelloInv' /\ AskedInv' /\ SentInv' /\ OutInv' /\ StreamInv'
      /\ ChunkInv'
  BY DEF AfterRead
<1>3. RepliesInv' /\ replies' \in Seq([to : Nat, body : Seq(Toks)])
  <2>1. /\ s \in Seq(Toks) /\ AllGenuine(s) /\ Rising(s) /\ Behind(s)
        /\ \A x \in 1..Len(s) : FirstTag(s, x) /\ s[x].k = "open" =>
             \/ CloseIn(s, s[x].r)
             \/ \A j \in 1..Len(s) : s[j].r <= s[x].r
    BY DEF OneReply
  <2> QED BY <1>1, <1>2, <2>1, FinishReplies
<1>4. npc' = "idle" /\ failed' \in BOOLEAN /\ (failed => failed')
  BY <1>1 DEF Finish, NetconfTypes
<1>5. NetconfTypes'
  BY <1>1, <1>2, <1>3, <1>4 DEF NetconfTypes
<1>6. HeldInv'
  BY <1>4 DEF HeldInv, Chunking
<1>7. ExactInv'
  <2>1. CASE failed
    BY <2>1, <1>4 DEF ExactInv, ReplyExact
  <2>2. CASE ~failed
    BY <2>2, <1>1, FinishExact
  <2> QED BY <2>1, <2>2
<1> QED BY <1>2, <1>3, <1>5, <1>6, <1>7 DEF NetconfInv

(* In 1.0 framing a call returns what stands before the first mark. *)
LEMMA ReadEomKeeps == ASSUME NetconfInv, ReadEom PROVE NetconfInv'
<1>1. PICK i : i = MinOf(EomMatches)
  OBVIOUS
<1>2. /\ npc = "eom" /\ EomMatches # {} /\ nbuf' = From(nbuf, i + 1)
      /\ Finish(Upto(nbuf, i - 1))
      /\ UNCHANGED <<server, ver, pipe, need, acc, msgId, rpcs, out, sent>>
  BY <1>1 DEF ReadEom
<1>3. /\ NetconfTypes /\ HelloInv /\ AskedInv /\ SentInv /\ ExactInv
      /\ StreamInv /\ ChunkInv
  BY DEF NetconfInv
<1>4. /\ pipe \in Seq(Toks) /\ nbuf \in Seq(Toks) /\ out \in Seq(Toks)
      /\ Len(nbuf) \in Nat /\ Len(sent) \in Nat
  BY <1>3, AheadTypes DEF NetconfTypes
<1>5. i \in 1..Len(nbuf) /\ nbuf[i].k = "eom"
  <2>1. EomMatches \subseteq Nat
    BY DEF EomMatches
  <2>2. MinOf(EomMatches) \in EomMatches
    BY <1>2, <2>1, MinOfSet
  <2> QED BY <1>1, <2>2 DEF EomMatches
<1>6. i \in 0..Len(nbuf) /\ i - 1 \in 0..Len(nbuf) /\ i \in Nat
  BY <1>4, <1>5
<1>7. AfterRead(i)
  BY <1>2, <1>6, ReadTakes DEF Finish
<1>8. PICK u : u = Upto(nbuf, i - 1)
  OBVIOUS
<1>9. /\ u \in Seq(Toks) /\ Len(u) = i - 1
      /\ \A j \in 1..Len(u) : u[j] = Ahead[j]
  BY <1>3, <1>6, <1>8, Held
<1>10. /\ Ahead \in Seq(Toks) /\ IsRest(Ahead', Ahead, i)
       /\ AllGenuine(Ahead) /\ Rising(Ahead) /\ Closed(Ahead)
       /\ Len(u) <= i
  BY <1>6, <1>7, <1>9 DEF AfterRead
<1>11. Behind(Ahead)
  BY DEF NetconfInv, RepliesInv
<1>12. /\ OneReply(u)
       /\ \A x \in 1..Len(u), j \in 1..Len(Ahead') : Before(u[x], Ahead'[j])
  <2>1. /\ <<>> \in Seq(Toks) /\ Len(<<>>) = 0
        /\ \A x \in 1..Len(<<>>) : FALSE
    BY EmptySeq
  <2>2. PICK A \in Seq(Toks) : A = <<>>
    BY <2>1
  <2>3. \A x \in 1..Len(A) : FALSE
    BY <2>1, <2>2
  <2>4. A \o u = u
    BY <2>2, <1>9, ConcatEmptySeq
  <2>5. AllGenuine(A) /\ Rising(A) /\ Behind(A)
    BY <2>3 DEF AllGenuine, Rising, Behind
  <2>6. /\ \A x \in 1..Len(A), j \in 1..Len(Ahead) : Before(A[x], Ahead[j])
        /\ \A x \in 1..Len(A) : FirstTag(A, x) /\ A[x].k = "open" =>
             CloseIn(A, A[x].r) \/ CloseIn(Ahead, A[x].r)
    BY <2>3
  <2>7. PICK v : v = Ahead'
    OBVIOUS
  <2>8. /\ OneReply(A \o u)
        /\ \A x \in 1..Len(A \o u), j \in 1..Len(v) :
             Before((A \o u)[x], v[j])
    BY <2>5, <2>6, <2>7, <1>9, <1>10, <1>11, HeldAndRead
  <2> QED BY <2>4, <2>7, <2>8
<1>13. ASSUME ~failed PROVE Whole(u)
  <2>1. Ahead[i] = nbuf[i] /\ i \in 1..Len(Ahead)
    <3>1. Three(nbuf, pipe, out)
      BY <1>4, ThreeJoined
    <3>2. Len(Ahead) = Len(nbuf) + Len(pipe) + Len(out)
          /\ Len(pipe) \in Nat /\ Len(out) \in Nat
      BY <3>1 DEF Three, Ahead, Arrived
    <3> QED BY <3>1, <3>2, <1>5 DEF Three, Ahead, Arrived
  <2>2. Ahead # <<>>
    <3>1. Len(Ahead) # 0
      BY <2>1
    <3> QED BY <3>1
  <2>3. /\ rpcs = <<>> /\ Len(replies) = msgId - 1 /\ msgId > 0
        /\ \E e \in Toks : e.k = "eom" /\ Ahead = Append(sent[msgId], e)
    BY <2>2, <1>2, <1>3, <1>13 DEF ExactInv, Connected
  <2>4. PICK e \in Toks : e.k = "eom" /\ Ahead = Append(sent[msgId], e)
    BY <2>3
  <2>5. msgId \in 1..Len(sent)
    <3>1. Len(rpcs) = 0
      BY <2>3
    <3> QED BY <3>1, <2>3, <1>3, <1>4 DEF AskedInv
  <2>6. PICK p \in Seq(Toks) : p = sent[msgId]
    <3>1. sent \in Seq(Seq(Toks))
      BY <1>3 DEF NetconfTypes
    <3> QED BY <3>1, <2>5, ElementOfSeq
  <2>7. Len(p) \in Nat /\ \A j \in 1..Len(p) : p[j].k # "eom"
    <3>1. ProperReply(p, msgId)
      BY <2>5, <2>6, <1>3 DEF SentInv
    <3> QED BY <3>1, LenProperties DEF ProperReply
  <2>8. Len(Ahead) = Len(p) + 1 /\ \A j \in 1..Len(p) : Ahead[j] = p[j]
    BY <2>4, <2>6, AppendProperties
  <2>9. i = Len(p) + 1
    <3>1. i \notin 1..Len(p)
      BY <2>1, <2>7, <2>8, <1>5
    <3> QED BY <3>1, <2>1, <2>7, <2>8
  <2>10. u = p
    <3>1. Len(u) = Len(p) /\ \A j \in 1..Len(u) : u[j] = p[j]
      BY <2>7, <2>8, <2>9, <1>9
    <3> QED BY <3>1, <1>9, SeqEqual
  <2>11. Ahead' = <<>>
    <3>1. Len(Ahead') = 0 /\ Ahead' \in Seq(Toks)
      BY <2>7, <2>8, <2>9, <1>7, <1>10 DEF IsRest, AfterRead
    <3> QED BY <3>1, EmptySeq
  <2> QED BY <2>3, <2>6, <2>10, <2>11 DEF Whole
<1> QED BY <1>2, <1>6, <1>7, <1>8, <1>12, <1>13, FinishKeeps

(* The place a header is read at: the first one when the reader is aligned. *)
LEMMA HeaderPlace ==
  ASSUME HeaderWindow \in Nat, NetconfTypes, npc = "size",
         HeaderMatches # {}, NEW i, i = MinOf(HeaderMatches)
  PROVE  /\ i \in 1..Len(nbuf) /\ IsHeader(nbuf[i]) /\ Ahead[i] = nbuf[i]
         /\ i \in 1..Len(Ahead) /\ Len(nbuf) \in Nat
         /\ Aligned => i = 1 /\ Ahead[1].k \in {"size", "end"}
<1>1. /\ HeaderMatches \subseteq Nat /\ Len(nbuf) \in Nat
      /\ Three(nbuf, pipe, out)
  <2>1. pipe \in Seq(Toks) /\ nbuf \in Seq(Toks) /\ out \in Seq(Toks)
    BY DEF NetconfTypes
  <2> QED BY <2>1, ThreeJoined, LenProperties DEF HeaderMatches
<1>2. i \in HeaderMatches /\ \A j \in HeaderMatches : i <= j
  BY <1>1, MinOfSet
<1>3. i \in 1..Len(nbuf) /\ IsHeader(nbuf[i]) /\ i <= HeaderWindow
  BY <1>2 DEF HeaderMatches
<1>4. /\ \A j \in 1..Len(nbuf) : Ahead[j] = nbuf[j] /\ j \in 1..Len(Ahead)
      /\ Len(Arrived) \in Nat /\ Len(Arrived) >= Len(nbuf)
  <2>1. /\ \A j \in 1..Len(nbuf) : Ahead[j] = nbuf[j]
        /\ Len(Ahead) = Len(nbuf) + Len(pipe) + Len(out)
        /\ Len(Arrived) = Len(nbuf) + Len(pipe)
        /\ Len(pipe) \in Nat /\ Len(out) \in Nat
    BY <1>1 DEF Three, Ahead, Arrived
  <2> QED BY <1>1, <2>1
<1>5. ASSUME Aligned PROVE i = 1 /\ Ahead[1].k \in {"size", "end"}
  <2>1. Len(Arrived) > 0
    BY <1>1, <1>3, <1>4
  <2>2. Ahead[1].k \in {"size", "end"}
    BY <2>1, <1>5 DEF Aligned
  <2>3. 1 \in 1..Len(nbuf) /\ 1 <= HeaderWindow
    BY <1>1, <1>3
  <2>4. 1 \in HeaderMatches
    BY <2>2, <2>3, <1>4 DEF HeaderMatches, IsHeader
  <2>5. i <= 1
    BY <2>4, <1>2
  <2> QED BY <2>2, <2>5, <1>1, <1>3
<1> QED BY <1>1, <1>3, <1>4, <1>5

(* The end of a reply is behind everything of it. *)
LEMMA EndOfReply ==
  ASSUME SentInv, NEW z \in Seq(Toks), AllGenuine(z), Rising(z),
         \A j \in 1..Len(z) : z[j].k # "eom",
         Len(z) > 0, z[1].k = "end", z[1].r = Len(sent)
  PROVE  Len(z) = 1
<1>1. Len(z) \in Nat /\ \A j \in 1..Len(z) : z[j] \in Toks
  BY LenProperties, ElementOfSeq
<1> SUFFICES ASSUME Len(z) # 1 PROVE FALSE
  OBVIOUS
<1>2. 1 \in 1..Len(z) /\ 2 \in 1..Len(z)
  <2> DEFINE l == Len(z)
  <2>1. l \in Nat /\ l > 0 /\ l # 1
    BY <1>1
  <2> HIDE DEF l
  <2>2. 1 \in 1..l /\ 2 \in 1..l
    BY ONLY <2>1
  <2> QED BY <2>2 DEF l
<1>3. Genuine(z[1]) /\ Genuine(z[2]) /\ Before(z[1], z[2])
  BY <1>2 DEF AllGenuine, Rising
<1>4. /\ z[1].r \in Nat /\ z[1].i \in Nat /\ z[2].r \in Nat /\ z[2].i \in Nat
      /\ z[2].k # "eom"
  BY <1>1, <1>2 DEF Toks
<1>5. z[1].i = Len(sent[z[1].r]) + 1 /\ z[2].r \in 1..Len(sent)
      /\ Len(sent) \in Nat
  <2>1. z[1].i = Len(sent[z[1].r]) + 1 /\ z[2].r \in 1..Len(sent)
    BY <1>3 DEF Genuine, InPayload
  <2> QED BY <2>1, <1>4
<1>6. z[2].r = z[1].r /\ z[1].i < z[2].i
  BY <1>3, <1>4, <1>5 DEF Before
<1>7. Len(sent[z[1].r]) \in Nat
  <2>1. ProperReply(sent[z[1].r], z[1].r)
    BY <1>5, <1>6 DEF SentInv
  <2> QED BY <2>1, LenProperties DEF ProperReply
<1>8. z[2].i \in 1..Len(sent[z[2].r]) \/ z[2].i = Len(sent[z[2].r]) + 1
  BY <1>3, <1>4 DEF Genuine
<1> QED BY <1>4, <1>5, <1>6, <1>7, <1>8

(* A reader that lost its place finds the end of a reply before it finds
   the beginning of one. *)
LEMMA FakeHeader ==
  ASSUME SentInv, NEW z \in Seq(Toks), NEW v \in Seq(Toks),
         NEW i \in 1..Len(z), IsRest(v, z, i),
         AllGenuine(z), AllGenuine(v), Rising(z), Closed(z),
         InPayload(z[i]), z[i].k # "close"
  PROVE  \E x \in 1..Len(v) : FirstTag(v, x) /\ v[x].k # "open"
<1>1. /\ Len(z) \in Nat /\ Len(v) \in Nat /\ Len(v) = Len(z) - i
      /\ \A j \in 1..Len(v) : i + j \in 1..Len(z) /\ v[j] = z[i + j]
      /\ i \in Nat
  <2>1. Len(z) \in Nat /\ Len(v) \in Nat
    BY LenProperties
  <2>2. Len(v) = Len(z) - i /\ \A j \in 1..Len(v) : v[j] = z[i + j]
    BY DEF IsRest
  <2> QED BY <2>1, <2>2
<1>2. \A j \in 1..Len(z) : z[j] \in Toks /\ z[j].r \in Nat /\ z[j].i \in Nat
  <2> TAKE j \in 1..Len(z)
  <2>1. z[j] \in Toks
    BY ElementOfSeq
  <2> QED BY <2>1 DEF Toks
<1>3. PICK m \in i..Len(z) : z[m].k = "close" /\ z[m].r = z[i].r
  BY DEF Closed
<1>4. m \in 1..Len(z) /\ i < m /\ m - i \in 1..Len(v) /\ i + (m - i) = m
  <2>1. m # i
    BY <1>3
  <2>2. m \in Nat /\ i <= m /\ m <= Len(z) /\ i > 0
    BY <1>1, <1>3
  <2> QED BY ONLY <1>1, <2>1, <2>2
<1>5. m - i \in Tags(v)
  <2>1. v[m - i] = z[m]
    BY <1>1, <1>4
  <2> QED BY <2>1, <1>3, <1>4 DEF Tags, IsTag
<1>6. PICK x \in Tags(v) : \A y \in Tags(v) : x <= y
  <2>1. Tags(v) \subseteq Nat
    BY DEF Tags
  <2> QED BY <2>1, <1>5, LeastExists
<1>7. x \in 1..Len(v) /\ FirstTag(v, x)
  BY <1>6 DEF FirstTag, Tags
<1>8. ASSUME v[x].k = "open" PROVE FALSE
  <2>1. v[x] = z[i + x] /\ i + x \in 1..Len(z)
    BY <1>1, <1>7
  <2>2. x <= m - i
    BY <1>5, <1>6
  <2>3. i + x # m
    BY <2>1, <1>3, <1>8
  <2>4. i < i + x /\ i + x < m
    <3>1. x \in Nat /\ x > 0 /\ m \in Nat
      BY <1>1, <1>4, <1>7
    <3> QED BY ONLY <1>1, <2>2, <2>3, <3>1
  <2>5. Before(z[i], z[i + x]) /\ Before(z[i + x], z[m])
    BY <2>1, <2>4, <1>4 DEF Rising
  <2>6. z[i + x].r = z[i].r
    BY <2>1, <2>5, <1>2, <1>3, <1>4 DEF Before
  <2>7. z[i].i < z[i + x].i
    BY <2>1, <2>5, <2>6, <1>2 DEF Before, InPayload
  <2>8. z[i + x].i = 1
    <3>1. z[i + x] \in Toks /\ Genuine(z[i + x])
      BY <2>1, <1>2 DEF AllGenuine
    <3> QED BY <3>1, <2>1, <1>8, OpensFirst
  <2>9. z[i].i > 0
    <3>1. Genuine(z[i])
      BY DEF AllGenuine
    <3> QED BY <3>1, <1>2 DEF Genuine
  <2> QED BY <2>7, <2>8, <2>9, <1>2
<1> QED BY <1>7, <1>8

(* readChunked reads a header, or what looks like one, or the end. *)
LEMMA ReadSizeKeeps ==
  ASSUME HeaderWindow \in Nat, NetconfInv, ReadSize
  PROVE  NetconfInv'
<1>1. PICK i : i = MinOf(HeaderMatches)
  OBVIOUS
<1>2. /\ npc = "size" /\ HeaderMatches # {} /\ nbuf' = From(nbuf, i + 1)
      /\ IF nbuf[i].k \in {"end", "fakeEnd"}
         THEN Finish(acc \o Upto(nbuf, i - 1)) /\ UNCHANGED need
         ELSE /\ npc' = "data" /\ need' = nbuf[i].n
              /\ UNCHANGED <<replies, failed>>
      /\ UNCHANGED <<server, ver, pipe, acc, msgId, rpcs, out, sent>>
  BY <1>1 DEF ReadSize
<1>3. /\ NetconfTypes /\ HelloInv /\ AskedInv /\ SentInv /\ ExactInv
      /\ StreamInv /\ ChunkInv /\ HeldInv /\ RepliesInv
  BY DEF NetconfInv
<1>4. /\ acc \in Seq(Toks) /\ Len(acc) \in Nat /\ Len(sent) \in Nat
      /\ sent \in Seq(Seq(Toks))
  BY <1>3, AheadTypes DEF NetconfTypes
<1>5. /\ i \in 1..Len(nbuf) /\ IsHeader(nbuf[i]) /\ Ahead[i] = nbuf[i]
      /\ i \in 1..Len(Ahead) /\ Len(nbuf) \in Nat
      /\ Aligned => i = 1 /\ Ahead[1].k \in {"size", "end"}
  BY <1>1, <1>2, <1>3, HeaderPlace
<1>6. i \in 0..Len(nbuf) /\ i - 1 \in 0..Len(nbuf) /\ i \in Nat
  BY <1>5
<1>7. AfterRead(i)
  BY <1>2, <1>6, ReadTakes DEF Finish
<1>8. PICK u : u = Upto(nbuf, i - 1)
  OBVIOUS
<1>9. /\ u \in Seq(Toks) /\ Len(u) = i - 1
      /\ \A j \in 1..Len(u) : u[j] = Ahead[j]
  BY <1>3, <1>6, <1>8, Held
<1>10. /\ Ahead \in Seq(Toks) /\ IsRest(Ahead', Ahead, i)
       /\ AllGenuine(Ahead) /\ Rising(Ahead) /\ Closed(Ahead)
       /\ Len(u) <= i /\ AllGenuine(Ahead') /\ Behind(Ahead')
       /\ Ahead' \in Seq(Toks)
       /\ HelloInv' /\ AskedInv' /\ SentInv' /\ OutInv' /\ StreamInv'
       /\ ChunkInv' /\ nbuf' \in Seq(Toks)
       /\ Len(Arrived) \in Nat /\ Len(Arrived') = Len(Arrived) - i
       /\ i <= Len(Arrived) /\ Len(Arrived) <= Len(Ahead)
  BY <1>6, <1>7, <1>9 DEF AfterRead
<1>11. Behind(Ahead) /\ Behind(acc) /\ server = 11 /\ Connected
  BY <1>2, <1>3 DEF RepliesInv, Chunking, HelloInv, Connected
<1>12. /\ AllGenuine(acc) /\ Rising(acc)
       /\ \A x \in 1..Len(acc), j \in 1..Len(Ahead) : Before(acc[x], Ahead[j])
       /\ \A x \in 1..Len(acc) : FirstTag(acc, x) /\ acc[x].k = "open" =>
            \/ CloseIn(acc, acc[x].r)
            \/ Aligned /\ CloseIn(Ahead, acc[x].r)
  BY <1>2, <1>3 DEF HeldInv, Chunking
<1>13. PICK v \in Seq(Toks) : v = Ahead'
  BY <1>10
<1>14. /\ OneReply(acc \o u)
       /\ \A x \in 1..Len(acc \o u), j \in 1..Len(v) :
            Before((acc \o u)[x], v[j])
  BY <1>4, <1>9, <1>10, <1>11, <1>12, <1>13, HeldAndRead
<1>15. ASSUME ~failed
       PROVE  /\ Len(replies) = msgId - 1 /\ msgId > 0 /\ rpcs = <<>>
              /\ Aligned /\ acc = SubSeq(sent[msgId], 1, Len(acc))
              /\ Len(acc) <= Len(sent[msgId])
              /\ Ahead[1].r = msgId /\ Ahead[1].i = Len(acc) + 1
  <2>1. Ahead # <<>>
    <3>1. Len(Ahead) # 0
      BY <1>5
    <3> QED BY <3>1
  <2> QED BY <2>1, <1>2, <1>3, <1>11, <1>15 DEF ExactInv
<1>16. CASE nbuf[i].k \in {"end", "fakeEnd"}
  <2>1. ASSUME ~failed PROVE Whole(acc \o u)
    <3>1. /\ i = 1 /\ Ahead[1].k = "end" /\ Ahead[1].r = msgId
          /\ Ahead[1].i = Len(acc) + 1 /\ rpcs = <<>>
      BY <1>5, <1>15, <1>16, <2>1
    <3>2. msgId = Len(sent) /\ msgId \in 1..Len(sent)
      <4>1. Len(rpcs) = 0
        BY <3>1
      <4> QED BY <4>1, <1>3, <1>4, <1>15, <2>1 DEF AskedInv
    <3>3. Len(Ahead) = 1
      <4>1. \A j \in 1..Len(Ahead) : Ahead[j].k # "eom"
        BY <1>3, <1>11 DEF ChunkInv
      <4>2. Len(Ahead) > 0
        BY <1>5
      <4> QED BY <4>1, <4>2, <3>1, <3>2, <1>3, <1>10, EndOfReply
    <3>4. Ahead' = <<>>
      <4>1. Len(Ahead') = 0
        BY <3>1, <3>3, <1>10 DEF IsRest
      <4> QED BY <4>1, <1>10, EmptySeq
    <3>5. PICK p \in Seq(Toks) : p = sent[msgId]
      BY <3>2, <1>4, ElementOfSeq
    <3>6. Len(acc) = Len(p) /\ Len(p) \in Nat
      <4>1. Genuine(Ahead[1])
        BY <3>1, <1>5, <1>10 DEF AllGenuine
      <4>2. Ahead[1].i = Len(sent[Ahead[1].r]) + 1
        BY <4>1, <3>1 DEF Genuine, InPayload
      <4>3. Len(p) \in Nat
        BY LenProperties
      <4>4. Len(acc) + 1 = Len(p) + 1
        BY <4>2, <3>1, <3>5
      <4> QED BY <4>3, <4>4, <1>4
    <3>7. acc = p
      <4>1. acc = SubSeq(p, 1, Len(p))
        BY <3>5, <3>6, <1>15, <2>1
      <4>2. /\ SubSeq(p, 1, Len(p)) \in Seq(Toks)
            /\ Len(SubSeq(p, 1, Len(p))) = Len(p)
            /\ \A x \in 1..Len(p) : SubSeq(p, 1, Len(p))[x] = p[x]
        <5>1. Len(p) \in 0..Len(p)
          BY <3>6
        <5> QED BY <5>1, CutInTwo
      <4> QED BY <4>1, <4>2, SeqEqual
    <3>8. acc \o u = acc
      <4>1. Len(u) = 0
        BY <3>1, <1>9
      <4>2. u = <<>>
        BY <4>1, <1>9, EmptySeq
      <4> QED BY <4>2, <1>4, ConcatEmptySeq
    <3> QED BY <3>1, <3>4, <3>5, <3>7, <3>8, <1>15, <2>1 DEF Whole
  <2>2. Finish(acc \o u) /\ UNCHANGED need
    BY <1>2, <1>8, <1>16
  <2>3. \A x \in 1..Len(acc \o u), j \in 1..Len(Ahead') :
          Before((acc \o u)[x], Ahead'[j])
    BY <1>13, <1>14
  <2> QED BY <2>1, <2>2, <2>3, <1>2, <1>6, <1>7, <1>14, FinishKeeps
<1>17. CASE nbuf[i].k \notin {"end", "fakeEnd"}
  <2>1. /\ npc' = "data" /\ need' = nbuf[i].n /\ UNCHANGED <<replies, failed>>
        /\ UNCHANGED <<server, ver, pipe, acc, msgId, rpcs, out, sent>>
    BY <1>2, <1>17
  <2>2. nbuf[i].k \in {"size", "fakeSize"} /\ nbuf[i].n \in Nat
    <3>1. nbuf[i] \in Toks
      BY <1>3, <1>5, ElementOfSeq DEF NetconfTypes
    <3> QED BY <3>1, <1>5, <1>17 DEF IsHeader, Toks
  <2>3. NetconfTypes'
    BY <2>1, <2>2, <1>3, <1>10 DEF NetconfTypes
  <2>4. ASSUME nbuf[i].k = "size"
        PROVE  /\ Aligned' /\ Ahead' # <<>>
               /\ Ahead'[1].r = Ahead[i].r /\ Ahead'[1].i = Ahead[i].i
    <3>1. /\ Run(Ahead, Len(Arrived), i, need')
          /\ Ahead[i + 1].r = Ahead[i].r /\ Ahead[i + 1].i = Ahead[i].i
      <4>1. Chunked(Ahead, Len(Arrived)) /\ i \in 1..Len(Arrived)
        BY <1>3, <1>5, <1>10, <1>11 DEF ChunkInv
      <4> QED BY <4>1, <2>1, <2>4, <1>5 DEF Chunked
    <3>2. Run(Ahead', Len(Arrived) - i, 0, need')
      <4>1. need' \in Nat /\ i + 0 = i /\ 0 \in Nat
        BY <2>1, <2>2, <1>6
      <4> QED BY <4>1, <3>1, <1>6, <1>10, RestOfRun
    <3>3. Aligned'
      BY <3>2, <2>1, <1>10 DEF Aligned
    <3>4. 1 \in 1..Len(Ahead') /\ i + 1 = i + 1
      <4>1. need' > 0 /\ 0 + need' < Len(Ahead') /\ need' \in Nat
            /\ Len(Ahead') \in Nat
        BY <3>2, <2>1, <2>2, <1>10, LenProperties DEF Run
      <4> QED BY ONLY <4>1
    <3>5. Ahead'[1] = Ahead[i + 1]
      BY <3>4, <1>10 DEF IsRest
    <3>6. Ahead' # <<>>
      <4>1. Len(Ahead') # 0
        BY <3>4
      <4> QED BY <4>1
    <3> QED BY <3>1, <3>3, <3>5, <3>6
  <2>5. ASSUME Aligned PROVE nbuf[i].k = "size"
    BY <2>2, <2>5, <1>5
  <2>6. ASSUME NEW x \in 1..Len(acc), NEW j \in 1..Len(Ahead')
        PROVE  Before(acc[x], Ahead'[j])
    <3>1. Ahead'[j] = Ahead[i + j] /\ Len(Ahead') = Len(Ahead) - i
      BY <1>10 DEF IsRest
    <3>2. i + j \in 1..Len(Ahead)
      BY <3>1, <1>6, <1>10
    <3> QED BY <3>1, <3>2, <1>12
  <2>7. ASSUME NEW x \in 1..Len(acc), FirstTag(acc, x), acc[x].k = "open",
               ~CloseIn(acc, acc[x].r)
        PROVE  Aligned' /\ CloseIn(Ahead', acc[x].r)
    <3>1. Aligned /\ CloseIn(Ahead, acc[x].r)
      BY <2>7, <1>12
    <3>2. Aligned' /\ i = 1 /\ Ahead[1].k \in {"size", "end"}
      BY <3>1, <2>4, <2>5, <1>5
    <3>3. PICK m \in 1..Len(Ahead) :
            Ahead[m].k = "close" /\ Ahead[m].r = acc[x].r
      BY <3>1 DEF CloseIn
    <3>4. m # 1
      BY <3>2, <3>3
    <3>5. /\ Len(Ahead') = Len(Ahead) - 1 /\ Len(Ahead) \in Nat
          /\ \A j \in 1..Len(Ahead') : Ahead'[j] = Ahead[1 + j]
      BY <3>2, <1>10, LenProperties DEF IsRest
    <3>6. m - 1 \in 1..Len(Ahead') /\ 1 + (m - 1) = m
      BY <3>4, <3>5
    <3>7. Ahead'[m - 1] = Ahead[m]
      BY <3>5, <3>6
    <3> QED BY <3>2, <3>3, <3>6, <3>7 DEF CloseIn
  <2>8. ASSUME ~(Aligned')
        PROVE  \E x \in 1..Len(Ahead') : FirstTag(Ahead', x)
                                         /\ Ahead'[x].k # "open"
    <3>1. nbuf[i].k = "fakeSize"
      BY <2>2, <2>4, <2>8
    <3>2. InPayload(Ahead[i]) /\ Ahead[i].k # "close"
      BY <3>1, <1>5 DEF InPayload
    <3>3. AllGenuine(v) /\ IsRest(v, Ahead, i)
      BY <1>10, <1>13
    <3>4. \E x \in 1..Len(v) : FirstTag(v, x) /\ v[x].k # "open"
      BY <3>2, <3>3, <1>3, <1>5, <1>10, FakeHeader
    <3> QED BY <3>4, <1>13
  <2>9. HeldInv'
    BY <2>1, <2>6, <2>7, <2>8, <1>12 DEF HeldInv, AllGenuine, Genuine
  <2>10. RepliesInv'
    BY <2>1, <1>3, <1>10, <1>11
       DEF RepliesInv, RepliesInOrder, Behind, RootOf
  <2>11. ExactInv'
    <3>1. ReplyExact'
      BY <2>1, <1>3 DEF ExactInv, ReplyExact
    <3>2. ASSUME ~failed
          PROVE  /\ Aligned' /\ Ahead' # <<>>
                 /\ Ahead'[1].r = msgId /\ Ahead'[1].i = Len(acc) + 1
      <4>1. Aligned /\ i = 1 /\ nbuf[i].k = "size"
        BY <3>2, <2>5, <1>5, <1>15
      <4> QED BY <4>1, <3>2, <2>4, <1>15
    <3> QED BY <3>1, <3>2, <2>1, <1>15 DEF ExactInv
  <2> QED BY <2>3, <2>9, <2>10, <2>11, <1>10 DEF NetconfInv
<1> QED BY <1>16, <1>17

(* readChunked reads what looks like a header, with too large a number. *)
LEMMA SizeOverflowsKeeps ==
  ASSUME HeaderWindow \in Nat, NetconfInv, SizeOverflows
  PROVE  NetconfInv'
<1>1. PICK i : i = MinOf(HeaderMatches)
  OBVIOUS
<1>2. /\ npc = "size" /\ HeaderMatches # {} /\ nbuf' = From(nbuf, i + 1)
      /\ npc' = "idle" /\ failed' = TRUE
      /\ UNCHANGED <<server, ver, pipe, need, acc, msgId, rpcs, out, sent,
                     replies>>
  BY <1>1 DEF SizeOverflows
<1>3. NetconfTypes /\ HeldInv /\ ExactInv /\ RepliesInv
  BY DEF NetconfInv
<1>4. i \in 0..Len(nbuf)
  <2>1. i \in 1..Len(nbuf) /\ Len(nbuf) \in Nat
    BY <1>1, <1>2, <1>3, HeaderPlace
  <2> QED BY <2>1
<1>5. AfterRead(i)
  BY <1>2, <1>4, ReadTakes
<1>6. NetconfTypes'
  BY <1>2, <1>3, <1>5 DEF NetconfTypes, AfterRead
<1>7. HeldInv' /\ ExactInv'
  BY <1>2 DEF HeldInv, Chunking, ExactInv, ReplyExact
<1>8. RepliesInv'
  BY <1>2, <1>3, <1>5
     DEF AfterRead, RepliesInv, RepliesInOrder, Behind, RootOf, Chunking
<1> QED BY <1>5, <1>6, <1>7, <1>8 DEF NetconfInv, AfterRead

(* readChunked reads the data of a chunk. *)
LEMMA ReadDataKeeps == ASSUME NetconfInv, ReadData PROVE NetconfInv'
<1>1. /\ npc = "data" /\ Len(nbuf) >= need /\ nbuf' = From(nbuf, need + 1)
      /\ IF Len(acc) > MaxBuffer
         THEN npc' = "idle" /\ failed' = TRUE /\ UNCHANGED acc
         ELSE npc' = "size" /\ acc' = acc \o Upto(nbuf, need)
              /\ UNCHANGED failed
      /\ UNCHANGED <<server, ver, pipe, need, msgId, rpcs, out, sent,
                     replies>>
  BY DEF ReadData
<1>2. /\ NetconfTypes /\ HelloInv /\ AskedInv /\ SentInv /\ ExactInv
      /\ HeldInv /\ RepliesInv /\ StreamInv /\ ChunkInv
  BY DEF NetconfInv
<1>3. /\ acc \in Seq(Toks) /\ Len(acc) \in Nat /\ Len(sent) \in Nat
      /\ sent \in Seq(Seq(Toks)) /\ need \in Nat /\ Len(nbuf) \in Nat
  BY <1>2, AheadTypes DEF NetconfTypes
<1>4. need \in 0..Len(nbuf)
  BY <1>1, <1>3
<1>5. AfterRead(need)
  <2>1. npc' = "idle" \/ npc' \in {"size", "data"}
    BY <1>1
  <2> QED BY <2>1, <1>1, <1>4, ReadTakes
<1>6. PICK u : u = Upto(nbuf, need)
  OBVIOUS
<1>7. /\ u \in Seq(Toks) /\ Len(u) = need
      /\ \A j \in 1..Len(u) : u[j] = Ahead[j]
  BY <1>2, <1>4, <1>6, Held
<1>8. /\ Ahead \in Seq(Toks) /\ IsRest(Ahead', Ahead, need)
      /\ AllGenuine(Ahead) /\ Rising(Ahead) /\ Closed(Ahead)
      /\ Len(u) <= need /\ AllGenuine(Ahead') /\ Behind(Ahead')
      /\ Ahead' \in Seq(Toks)
      /\ HelloInv' /\ AskedInv' /\ SentInv' /\ OutInv' /\ StreamInv'
      /\ ChunkInv' /\ nbuf' \in Seq(Toks)
      /\ Len(Arrived) \in Nat /\ Len(Arrived') = Len(Arrived) - need
      /\ need <= Len(Arrived) /\ Len(Arrived) <= Len(Ahead)
  BY <1>3, <1>5, <1>7 DEF AfterRead
<1>9. /\ Len(Ahead) \in Nat /\ Len(Ahead') = Len(Ahead) - need
      /\ Len(Ahead') \in Nat
      /\ \A j \in 1..Len(Ahead') : Ahead'[j] = Ahead[need + j]
  BY <1>8, LenProperties DEF IsRest
<1>10. Behind(Ahead) /\ Behind(acc) /\ server = 11 /\ Connected
  BY <1>1, <1>2 DEF RepliesInv, Chunking, HelloInv, Connected
<1>11. /\ AllGenuine(acc) /\ Rising(acc)
       /\ \A x \in 1..Len(acc), j \in 1..Len(Ahead) : Before(acc[x], Ahead[j])
       /\ \A x \in 1..Len(acc) : FirstTag(acc, x) /\ acc[x].k = "open" =>
            \/ CloseIn(acc, acc[x].r)
            \/ Aligned /\ CloseIn(Ahead, acc[x].r)
       /\ Tags(acc) = {} =>
            \/ Aligned
            \/ \E x \in 1..Len(Ahead) : FirstTag(Ahead, x)
                                        /\ Ahead[x].k # "open"
  BY <1>1, <1>2 DEF HeldInv, Chunking
<1>12. RepliesInOrder
       /\ \A j \in 1..Len(replies) : RootOf(j).r \in 1..Len(sent)
  BY <1>2 DEF RepliesInv
<1>13. CASE Len(acc) > MaxBuffer
  <2>1. /\ npc' = "idle" /\ failed' = TRUE /\ acc' = acc
        /\ UNCHANGED <<server, ver, pipe, need, msgId, rpcs, out, sent,
                       replies>>
    BY <1>1, <1>13
  <2>2. NetconfTypes'
    <3>1. failed' \in BOOLEAN
      BY <2>1
    <3> QED BY <2>1, <3>1, <1>2, <1>8 DEF NetconfTypes
  <2>3. HeldInv' /\ ExactInv'
    BY <2>1 DEF HeldInv, Chunking, ExactInv, ReplyExact
  <2>4. RepliesInv'
    BY <2>1, <1>8, <1>12
       DEF RepliesInv, RepliesInOrder, Behind, RootOf, Chunking
  <2> QED BY <2>2, <2>3, <2>4, <1>8 DEF NetconfInv
<1>14. CASE ~(Len(acc) > MaxBuffer)
  <2>1. /\ npc' = "size" /\ failed' = failed /\ acc' = acc \o u
        /\ UNCHANGED <<server, ver, pipe, need, msgId, rpcs, out, sent,
                       replies>>
    BY <1>1, <1>6, <1>14
  <2>2. PICK s : s = acc \o u
    OBVIOUS
  <2>3. Parts(s, acc, u)
    BY <2>2, <1>3, <1>7, TwoParts
  <2>4. /\ s \in Seq(Toks) /\ Len(s) = Len(acc) + need
        /\ \A j \in 1..Len(acc) : j \in 1..Len(s) /\ s[j] = acc[j]
        /\ \A j \in 1..Len(u) :
             /\ Len(acc) + j \in 1..Len(s) /\ s[Len(acc) + j] = Ahead[j]
             /\ j \in 1..Len(Ahead)
        /\ \A j \in 1..Len(s) :
             \/ j \in 1..Len(acc)
             \/ \E i \in 1..Len(u) : j = Len(acc) + i
    <3>1. \A j \in 1..Len(u) : j \in 1..Len(Ahead)
      BY <1>3, <1>7, <1>8, <1>9
    <3> QED BY <2>3, <3>1, <1>7 DEF Parts
  <2>5. PICK v \in Seq(Toks) : v = Ahead'
    BY <1>8
  <2>6. /\ OneReply(s)
        /\ \A x \in 1..Len(s), j \in 1..Len(v) : Before(s[x], v[j])
    BY <2>2, <2>5, <1>3, <1>7, <1>8, <1>10, <1>11, HeldAndRead
  <2>7. NetconfTypes'
    BY <2>1, <2>2, <2>4, <1>2, <1>8 DEF NetconfTypes
  <2>8. ASSUME Aligned
        PROVE  /\ Aligned' /\ Ahead' # <<>>
               /\ Ahead'[1].r = Ahead[1].r
               /\ Ahead'[1].i = Ahead[1].i + need
               /\ \A j \in 1..need : /\ InPayload(Ahead[j])
                                     /\ Ahead[j].r = Ahead[1].r
                                     /\ Ahead[j].i = Ahead[1].i + (j - 1)
    <3>1. Run(Ahead, Len(Arrived), 0, need)
      BY <2>8, <1>1 DEF Aligned
    <3>2. /\ need < Len(Ahead)
          /\ \A j \in 1..need : /\ InPayload(Ahead[j])
                                /\ Ahead[j].r = Ahead[1].r
                                /\ Ahead[j].i = Ahead[1].i + (j - 1)
          /\ Ahead[need + 1].r = Ahead[1].r
          /\ Ahead[need + 1].i = Ahead[1].i + need
          /\ need < Len(Arrived) => Ahead[need + 1].k \in {"size", "end"}
      <4>1. /\ 0 + need = need /\ 0 + 1 = 1 /\ 0 + need + 1 = need + 1
            /\ \A j \in 1..need : 0 + j = j
        BY <1>3
      <4> QED BY <3>1, <4>1 DEF Run
    <3>3. 1 \in 1..Len(Ahead')
      BY <3>2, <1>3, <1>9
    <3>4. Ahead'[1] = Ahead[need + 1]
      BY <3>3, <1>9
    <3>5. Ahead' # <<>>
      <4>1. Len(Ahead') # 0
        BY <3>3
      <4> QED BY <4>1
    <3>6. Len(Arrived') > 0 => need < Len(Arrived)
      BY <1>3, <1>8
    <3>7. Aligned'
      BY <3>2, <3>4, <3>6, <2>1 DEF Aligned
    <3> QED BY <3>2, <3>4, <3>5, <3>7
  <2>9. ASSUME NEW m \in 1..Len(Ahead), Ahead[m].k = "close"
        PROVE  CloseIn(s, Ahead[m].r) \/ CloseIn(Ahead', Ahead[m].r)
    <3>1. CASE m <= need
      <4>1. m \in 1..Len(u)
        BY <3>1, <1>3, <1>7
      <4>2. Len(acc) + m \in 1..Len(s) /\ s[Len(acc) + m] = Ahead[m]
        BY <4>1, <2>4
      <4> QED BY <4>2, <2>9 DEF CloseIn
    <3>2. CASE ~(m <= need)
      <4>1. m - need \in 1..Len(Ahead') /\ need + (m - need) = m
        BY <3>2, <1>3, <1>9
      <4>2. Ahead'[m - need] = Ahead[m]
        BY <4>1, <1>9
      <4> QED BY <4>1, <4>2, <2>9 DEF CloseIn
    <3> QED BY <3>1, <3>2
  <2>10. ASSUME NEW x \in 1..Len(s), FirstTag(s, x), s[x].k = "open"
         PROVE  \/ CloseIn(s, s[x].r)
                \/ Aligned' /\ CloseIn(Ahead', s[x].r)
    <3>1. IsTag(s[x]) /\ \A y \in 1..Len(s) : IsTag(s[y]) => x <= y
      BY <2>10 DEF FirstTag, Tags
    <3>2. CASE x \in 1..Len(acc)
      <4>1. s[x] = acc[x]
        BY <3>2, <2>4
      <4>2. FirstTag(acc, x)
        <5>1. \A y \in 1..Len(acc) : IsTag(acc[y]) => x <= y
          BY <3>1, <2>4
        <5> QED BY <5>1, <4>1, <3>1, <3>2 DEF FirstTag, Tags
      <4>3. CASE CloseIn(acc, acc[x].r)
        <5>1. PICK y \in 1..Len(acc) : acc[y].k = "close"
                                       /\ acc[y].r = acc[x].r
          BY <4>3 DEF CloseIn
        <5> QED BY <5>1, <4>1, <2>4 DEF CloseIn
      <4>4. CASE Aligned /\ CloseIn(Ahead, acc[x].r)
        <5>1. PICK m \in 1..Len(Ahead) : Ahead[m].k = "close"
                                         /\ Ahead[m].r = s[x].r
          BY <4>1, <4>4 DEF CloseIn
        <5> QED BY <5>1, <4>4, <2>8, <2>9
      <4> QED BY <4>1, <4>2, <4>3, <4>4, <3>2, <2>10, <1>11
    <3>3. CASE x \notin 1..Len(acc)
      <4>1. PICK i \in 1..Len(u) : x = Len(acc) + i
        BY <3>3, <2>4
      <4>2. s[x] = Ahead[i] /\ i \in 1..Len(Ahead) /\ i \in Nat
        BY <4>1, <2>4
      <4>3. Tags(acc) = {}
        <5> SUFFICES ASSUME NEW y \in 1..Len(acc), IsTag(acc[y])
                     PROVE  FALSE
          BY DEF Tags
        <5>1. x <= y
          BY <3>1, <2>4
        <5> QED BY <5>1, <4>1, <4>2, <1>3
      <4>4. FirstTag(Ahead, i)
        <5>1. ASSUME NEW y \in 1..Len(Ahead), IsTag(Ahead[y]) PROVE i <= y
          <6>1. CASE y \in 1..Len(u)
            <7>1. IsTag(s[Len(acc) + y]) /\ Len(acc) + y \in 1..Len(s)
              BY <5>1, <6>1, <2>4
            <7>2. x <= Len(acc) + y
              BY <7>1, <3>1
            <7> QED BY <7>2, <4>1, <4>2, <1>3
          <6>2. CASE y \notin 1..Len(u)
            BY <6>2, <4>1, <4>2, <1>3, <1>7
          <6> QED BY <6>1, <6>2
        <5> QED BY <5>1, <4>2, <3>1 DEF FirstTag, Tags
      <4>5. Aligned
        <5>1. ASSUME NEW y \in 1..Len(Ahead), FirstTag(Ahead, y) PROVE y = i
          <6>1. y \in Tags(Ahead) /\ i \in Tags(Ahead)
            BY <4>4, <5>1 DEF FirstTag
          <6>2. y <= i /\ i <= y /\ y \in Nat
            BY <6>1, <4>4, <5>1 DEF FirstTag
          <6> QED BY ONLY <6>2, <4>2
        <5>2. Ahead[i].k = "open"
          BY <4>2, <2>10
        <5> QED BY <5>1, <5>2, <4>3, <1>11
      <4>6. InPayload(Ahead[i])
        BY <4>2, <2>10 DEF InPayload
      <4>7. PICK m \in i..Len(Ahead) : Ahead[m].k = "close"
                                       /\ Ahead[m].r = Ahead[i].r
        BY <4>2, <4>6, <1>8 DEF Closed
      <4>8. m \in 1..Len(Ahead)
        BY <4>2, <4>7, <1>9
      <4> QED BY <4>2, <4>5, <4>7, <4>8, <2>8, <2>9
    <3> QED BY <3>2, <3>3
  <2>11. HeldInv'
    <3>1. AllGenuine(s)' /\ Rising(s)
      BY <2>1, <2>6 DEF OneReply, AllGenuine, Genuine
    <3>2. \A x \in 1..Len(s), j \in 1..Len(Ahead') : Before(s[x], Ahead'[j])
      BY <2>5, <2>6
    <3>3. acc' = s /\ npc' = "size"
      BY <2>1, <2>2
    <3> QED BY <3>1, <3>2, <3>3, <2>10 DEF HeldInv, AllGenuine
  <2>12. RepliesInv'
    <3>1. Behind(s) /\ acc' = s
      BY <2>1, <2>2, <2>6 DEF OneReply
    <3> QED BY <2>1, <3>1, <1>8, <1>12
            DEF RepliesInv, RepliesInOrder, Behind, RootOf
  <2>13. ExactInv'
    <3>1. ReplyExact'
      BY <2>1, <1>2 DEF ExactInv, ReplyExact
    <3>2. ASSUME ~failed
          PROVE  /\ Len(replies) = msgId - 1 /\ msgId > 0 /\ rpcs = <<>>
                 /\ Aligned' /\ Ahead' # <<>>
                 /\ s = SubSeq(sent[msgId], 1, Len(s))
                 /\ Len(s) <= Len(sent[msgId])
                 /\ Ahead'[1].r = msgId /\ Ahead'[1].i = Len(s) + 1
      <4>1. /\ Len(replies) = msgId - 1 /\ msgId > 0 /\ rpcs = <<>>
            /\ Aligned /\ acc = SubSeq(sent[msgId], 1, Len(acc))
            /\ Len(acc) <= Len(sent[msgId])
            /\ Ahead[1].r = msgId /\ Ahead[1].i = Len(acc) + 1
        BY <3>2, <1>1, <1>2, <1>10 DEF ExactInv
      <4>2. msgId \in 1..Len(sent)
        <5>1. Len(rpcs) = 0
          BY <4>1
        <5> QED BY <5>1, <4>1, <1>2, <1>3 DEF AskedInv
      <4>3. PICK p \in Seq(Toks) : p = sent[msgId]
        BY <4>2, <1>3, ElementOfSeq
      <4>4. /\ Aligned' /\ Ahead' # <<>> /\ Ahead'[1].r = msgId
            /\ Ahead'[1].i = Ahead[1].i + need
            /\ \A j \in 1..need : /\ InPayload(Ahead[j])
                                  /\ Ahead[j].r = msgId
                                  /\ Ahead[j].i = Len(acc) + 1 + (j - 1)
        BY <4>1, <2>8
      <4>5. Ahead'[1].i = Len(s) + 1
        <5>1. Ahead'[1].i = Len(acc) + 1 + need
          BY <4>1, <4>4
        <5> QED BY <5>1, <2>4, <1>3
      <4>6. ASSUME NEW j \in 1..need
            PROVE  /\ Len(acc) + j \in 1..Len(p)
                   /\ Ahead[j] = p[Len(acc) + j]
        <5>1. /\ InPayload(Ahead[j]) /\ Ahead[j].r = msgId
              /\ Ahead[j].i = Len(acc) + 1 + (j - 1)
          BY <4>4
        <5>2. Ahead[j].i = Len(acc) + j
          BY <5>1, <1>3
        <5>3. Genuine(Ahead[j])
          <6>1. j \in 1..Len(Ahead)
            BY <2>4, <1>7
          <6> QED BY <6>1, <1>8 DEF AllGenuine
        <5> QED BY <5>1, <5>2, <5>3, <4>3 DEF Genuine
      <4>7. Len(s) <= Len(p) /\ Len(p) \in Nat /\ Len(s) \in Nat
        <5>1. CASE need = 0
          BY <5>1, <4>1, <4>3, <2>4, <1>3, LenProperties
        <5>2. CASE need # 0
          <6>1. need \in 1..need
            BY <5>2, <1>3
          <6>2. Len(acc) + need \in 1..Len(p)
            BY <6>1, <4>6
          <6> QED BY <6>2, <2>4, <1>3, LenProperties
        <5> QED BY <5>1, <5>2
      <4>8. /\ \A j \in 1..Len(acc) : SubSeq(p, 1, Len(acc))[j] = p[j]
            /\ SubSeq(p, 1, Len(s)) \in Seq(Toks)
            /\ Len(SubSeq(p, 1, Len(s))) = Len(s)
            /\ \A j \in 1..Len(s) : SubSeq(p, 1, Len(s))[j] = p[j]
        <5>1. Len(acc) \in 0..Len(p) /\ Len(s) \in 0..Len(p)
          BY <4>1, <4>3, <4>7, <1>3
        <5> QED BY <5>1, CutInTwo
      <4>9. \A j \in 1..Len(acc) : acc[j] = p[j]
        <5>1. acc = SubSeq(p, 1, Len(acc))
          BY <4>1, <4>3
        <5> QED BY <5>1, <4>8, Zenon
      <4>10. ASSUME NEW j \in 1..Len(s) PROVE s[j] = SubSeq(p, 1, Len(s))[j]
        <5>1. CASE j \in 1..Len(acc)
          BY <5>1, <4>8, <4>9, <2>4
        <5>2. CASE j \notin 1..Len(acc)
          <6>1. PICK i \in 1..Len(u) : j = Len(acc) + i
            BY <5>2, <2>4
          <6>2. s[j] = Ahead[i] /\ i \in 1..need
            BY <6>1, <2>4, <1>7
          <6> QED BY <6>1, <6>2, <4>6, <4>8
        <5> QED BY <5>1, <5>2
      <4>11. s = SubSeq(p, 1, Len(s))
        BY <4>8, <4>10, <2>4, SeqEqual
      <4> QED BY <4>1, <4>3, <4>4, <4>5, <4>7, <4>11
    <3>3. acc' = s /\ npc' = "size" /\ failed' = failed
      BY <2>1, <2>2
    <3> QED BY <3>1, <3>2, <3>3, <2>1 DEF ExactInv
  <2> QED BY <2>7, <2>11, <2>12, <2>13, <1>8 DEF NetconfInv
<1> QED BY <1>13, <1>14

(* The invariant reads only the variables of the session. *)
LEMMA NetconfStays ==
  ASSUME NetconfInv, UNCHANGED netconfVars
  PROVE  NetconfInv'
<1>1. UNCHANGED <<server, ver, pipe, nbuf, npc, need, acc, msgId, rpcs, out,
                  sent, replies, failed>>
  BY DEF netconfVars
<1>2. Arrived' = Arrived /\ Ahead' = Ahead /\ (Aligned' <=> Aligned)
  BY <1>1 DEF Arrived, Ahead, Aligned
<1>3. NetconfTypes' /\ HelloInv' /\ AskedInv' /\ SentInv' /\ OutInv'
  BY <1>1 DEF NetconfInv, NetconfTypes, HelloInv, AskedInv, SentInv, OutInv,
              Connected, Chunking
<1>4. StreamInv' /\ ChunkInv' /\ HeldInv'
  BY <1>1, <1>2 DEF NetconfInv, StreamInv, ChunkInv, HeldInv, Connected,
                    Chunking, AllGenuine, Genuine
<1>5. RepliesInv' /\ ExactInv'
  BY <1>1, <1>2 DEF NetconfInv, RepliesInv, ExactInv, RepliesInOrder,
                    ReplyExact, Behind, RootOf, Connected, Chunking
<1> QED BY <1>3, <1>4, <1>5 DEF NetconfInv

(* Every step keeps the invariant. *)
LEMMA NetconfStep ==
  ASSUME ProperPayloads, HeaderWindow \in Nat, NetconfInv,
         [NetconfNext]_netconfVars
  PROVE  NetconfInv'
<1>1. CASE Deliver
  BY <1>1, DeliverKeeps
<1>2. CASE ReadGivesUp
  BY <1>2, ReadGivesUpKeeps
<1>3. CASE ReadHello
  BY <1>3, ReadHelloKeeps
<1>4. CASE AnswerRequest
  BY <1>4, AnswerKeeps
<1>5. CASE SendChunk
  BY <1>5, SendChunkKeeps
<1>6. CASE Execute
  BY <1>6, ExecuteKeeps
<1>7. CASE ReadEom
  BY <1>7, ReadEomKeeps
<1>8. CASE ReadSize
  BY <1>8, ReadSizeKeeps
<1>9. CASE ReadData
  BY <1>9, ReadDataKeeps
<1>10. CASE SizeOverflows
  BY <1>10, SizeOverflowsKeeps
<1>11. CASE UNCHANGED netconfVars
  BY <1>11, NetconfStays
<1> QED BY <1>1, <1>2, <1>3, <1>4, <1>5, <1>6, <1>7, <1>8, <1>9, <1>10, <1>11
        DEF NetconfNext

(* NetconfDevice.Execute: until a call has failed, every call gets exactly
   the payload that was sent for it; and always, replies come in the order of
   their requests, none twice and none put together from two. *)
THEOREM NetconfAlwaysWorks == NetconfSpec => []NetconfWorks
<1>1. NetconfInit => NetconfInv
  BY NetconfInitInv
<1>2. NetconfInv /\ [NetconfNext]_netconfVars => NetconfInv'
  BY NetconfStep, NetconfAssumption
<1>3. NetconfInv => NetconfWorks
  BY DEF NetconfInv, RepliesInv, ExactInv, NetconfWorks
<1> QED BY <1>1, <1>2, <1>3, PTL DEF NetconfSpec
=============================================================================
