----------------------------- MODULE ListenerMux -----------------------------
(***************************************************************************)
(* The connection multiplexer of gnetcli_server: one TCP listener shared   *)
(* by the HTTP gateway and the gRPC server.                                *)
(*                                                                         *)
(* Serve accepts connections and starts one classifier goroutine (route)   *)
(* for each.  The classifier reads the first bytes, gives up the mux's     *)
(* ownership and offers the connection to the sub-listener of its          *)
(* protocol.  Close, which runs once, may run at any moment: by the        *)
(* context's AfterFunc, by Serve on its way out, or by the server's        *)
(* shutdown.  Every critical section of m.mu is one action.                *)
(*                                                                         *)
(* Abstracted: the bytes of the preface (the classifier's verdict is a     *)
(* choice), the 5 s deadline (the classifier may fail at any time).        *)
(***************************************************************************)

EXTENDS FiniteSets

CONSTANTS
  Conns,   (* the connections that clients may open *)
  NoConn   (* Serve holds no connection             *)

ASSUME NoConnAssumption == NoConn \notin Conns

(* The two sub-listeners. *)
Subs == {"http", "grpc"}

VARIABLES
  srv,      (* where Serve is                                             *)
  held,     (* the connection Serve has accepted but not yet admitted     *)
  sock,     (* per connection: not accepted, open, or closed by the mux   *)
  route,    (* where the classifier of each connection is                 *)
  kind,     (* the sub-listener the classifier chose                      *)
  pending,  (* m.pending: connections Close has to close                  *)
  served,   (* connections returned by the Accept of a sub-listener       *)
  once,     (* how far m.once.Do has come                                 *)
  done,     (* m.done is closed                                           *)
  lsn,      (* the TCP listener is open                                   *)
  acc,      (* where the accept loop of each protocol server is           *)
  subDone,  (* sub-listeners whose own done channel is closed             *)
  ctxDone   (* the context given to Serve is cancelled                    *)

vars == <<srv, held, sock, route, kind, pending, served, once, done, lsn,
          acc, subDone, ctxDone>>

serveVars  == <<srv, held>>
closeVars  == <<once, done, lsn>>
acceptVars == <<acc, subDone, served>>

TypeOK ==
  /\ srv \in {"accept", "admit", "closing", "waiting", "returned"}
  /\ held \in Conns \union {NoConn}
  /\ sock \in [Conns -> {"new", "open", "closed"}]
  /\ route \in [Conns -> {"none", "sniffing", "sniffed", "failed",
                          "handing", "discard", "ended"}]
  /\ kind \in [Conns -> Subs]
  /\ pending \in SUBSET Conns
  /\ served \in SUBSET Conns
  /\ once \in {"new", "closing", "sweeping", "over"}
  /\ done \in BOOLEAN
  /\ lsn \in BOOLEAN
  /\ acc \in [Subs -> {"idle", "waiting", "stopped"}]
  /\ subDone \in SUBSET Subs
  /\ ctxDone \in BOOLEAN

Init ==
  /\ srv = "accept"
  /\ held = NoConn
  /\ sock = [c \in Conns |-> "new"]
  /\ route = [c \in Conns |-> "none"]
  /\ kind = [c \in Conns |-> "http"]
  /\ pending = {}
  /\ served = {}
  /\ once = "new"
  /\ done = FALSE
  /\ lsn = TRUE
  /\ acc = [s \in Subs |-> "idle"]
  /\ subDone = {}
  /\ ctxDone = FALSE

-----------------------------------------------------------------------------
(* Serve *)

(* m.listener.Accept returns a connection. *)
ServeAccept(c) ==
  /\ srv = "accept"
  /\ lsn
  /\ sock[c] = "new"
  /\ sock' = [sock EXCEPT ![c] = "open"]
  /\ held' = c
  /\ srv' = "admit"
  /\ UNCHANGED <<route, kind, pending, closeVars, acceptVars, ctxDone>>

(* m.listener.Accept fails: the listener is closed, or any other error. *)
ServeAcceptFails ==
  /\ srv = "accept"
  /\ srv' = "closing"
  /\ UNCHANGED <<held, sock, route, kind, pending, closeVars, acceptVars,
                 ctxDone>>

(* Mutant: m.done is not consulted under the lock. *)
MutServeAdmitUnchecked ==
  /\ srv = "admit"
  /\ pending' = pending \union {held}
  /\ route' = [route EXCEPT ![held] = "sniffing"]
  /\ held' = NoConn
  /\ srv' = "accept"
  /\ UNCHANGED <<sock, kind, closeVars, acceptVars, ctxDone>>

(* Under m.mu, m.done open: the connection becomes pending and a classifier
   is started for it. *)
ServeAdmit ==
  /\ srv = "admit"
  /\ ~done
  /\ pending' = pending \union {held}
  /\ route' = [route EXCEPT ![held] = "sniffing"]
  /\ held' = NoConn
  /\ srv' = "accept"
  /\ UNCHANGED <<sock, kind, closeVars, acceptVars, ctxDone>>

(* Under m.mu, m.done closed: the connection is closed at once. *)
ServeReject ==
  /\ srv = "admit"
  /\ done
  /\ sock' = [sock EXCEPT ![held] = "closed"]
  /\ held' = NoConn
  /\ srv' = "accept"
  /\ UNCHANGED <<route, kind, pending, closeVars, acceptVars, ctxDone>>

(* The deferred m.Close() returns: once.Do has run, here or elsewhere. *)
ServeCloses ==
  /\ srv = "closing"
  /\ once = "over"
  /\ srv' = "waiting"
  /\ UNCHANGED <<held, sock, route, kind, pending, closeVars, acceptVars,
                 ctxDone>>

(* m.workers.Wait() returns: no classifier is running. *)
ServeReturns ==
  /\ srv = "waiting"
  /\ \A c \in Conns : route[c] \in {"none", "ended"}
  /\ srv' = "returned"
  /\ UNCHANGED <<held, sock, route, kind, pending, closeVars, acceptVars,
                 ctxDone>>

-----------------------------------------------------------------------------
(* Close *)

(* Some caller enters once.Do and closes m.done. *)
StartClose ==
  /\ once = "new"
  /\ once' = "closing"
  /\ done' = TRUE
  /\ UNCHANGED <<serveVars, sock, route, kind, pending, lsn, acceptVars,
                 ctxDone>>

CloseListener ==
  /\ once = "closing"
  /\ once' = "sweeping"
  /\ lsn' = FALSE
  /\ UNCHANGED <<serveVars, sock, route, kind, pending, done, acceptVars,
                 ctxDone>>

(* Under m.mu: close every connection that is still pending. *)
ClosePending ==
  /\ once = "sweeping"
  /\ once' = "over"
  /\ sock' = [c \in Conns |-> IF c \in pending THEN "closed" ELSE sock[c]]
  /\ UNCHANGED <<serveVars, route, kind, pending, done, lsn, acceptVars,
                 ctxDone>>

-----------------------------------------------------------------------------
(* The classifier of one connection *)

(* sniff succeeds; it needs the socket open until its last read. *)
Classify(c, s) ==
  /\ route[c] = "sniffing"
  /\ sock[c] = "open"
  /\ route' = [route EXCEPT ![c] = "sniffed"]
  /\ kind' = [kind EXCEPT ![c] = s]
  /\ UNCHANGED <<serveVars, sock, pending, closeVars, acceptVars, ctxDone>>

(* sniff fails: the client went away, 5 s passed, or Close closed it. *)
SniffFails(c) ==
  /\ route[c] = "sniffing"
  /\ route' = [route EXCEPT ![c] = "failed"]
  /\ UNCHANGED <<serveVars, sock, kind, pending, closeVars, acceptVars,
                 ctxDone>>

(* Mutant: ownership is not given up before the hand-off. *)
MutRelinquishKeepsPending(c) ==
  /\ route[c] \in {"sniffed", "failed"}
  /\ route' = [route EXCEPT
                 ![c] = IF @ = "sniffed" THEN "handing" ELSE "discard"]
  /\ UNCHANGED <<serveVars, sock, kind, pending, closeVars, acceptVars,
                 ctxDone>>

(* Under m.mu: the mux relinquishes the connection before handing it off. *)
Relinquish(c) ==
  /\ route[c] \in {"sniffed", "failed"}
  /\ pending' = pending \ {c}
  /\ route' = [route EXCEPT
                 ![c] = IF @ = "sniffed" THEN "handing" ELSE "discard"]
  /\ UNCHANGED <<serveVars, sock, kind, closeVars, acceptVars, ctxDone>>

(* target.conns <- wrapped meets an Accept.  Both selects also wait for
   m.done and for target.done: closing one of these wakes whoever is parked,
   and a later select finds nobody parked, so that the two cannot meet once
   either is closed. *)
HandOff(c) ==
  /\ route[c] = "handing"
  /\ acc[kind[c]] = "waiting"
  /\ ~done
  /\ kind[c] \notin subDone
  /\ route' = [route EXCEPT ![c] = "ended"]
  /\ served' = served \union {c}
  /\ acc' = [acc EXCEPT ![kind[c]] = "idle"]
  /\ UNCHANGED <<serveVars, sock, kind, pending, closeVars, subDone, ctxDone>>

(* Mutant: the connection is not closed when the target is gone. *)
MutDiscardLeavesOpen(c) ==
  /\ \/ route[c] = "discard"
     \/ route[c] = "handing" /\ (done \/ kind[c] \in subDone)
  /\ route' = [route EXCEPT ![c] = "ended"]
  /\ sock' = IF route[c] = "discard" THEN [sock EXCEPT ![c] = "closed"]
                                      ELSE sock
  /\ UNCHANGED <<serveVars, kind, pending, closeVars, acceptVars, ctxDone>>

(* The classifier closes a connection it cannot hand over. *)
Discard(c) ==
  /\ \/ route[c] = "discard"
     \/ route[c] = "handing" /\ (done \/ kind[c] \in subDone)
  /\ route' = [route EXCEPT ![c] = "ended"]
  /\ sock' = [sock EXCEPT ![c] = "closed"]
  /\ UNCHANGED <<serveVars, kind, pending, closeVars, acceptVars, ctxDone>>

-----------------------------------------------------------------------------
(* The protocol servers and the owner of the context *)

(* The server calls Accept of its sub-listener and finds nothing ready. *)
AcceptWaits(s) ==
  /\ acc[s] = "idle"
  /\ ~done
  /\ s \notin subDone
  /\ acc' = [acc EXCEPT ![s] = "waiting"]
  /\ UNCHANGED <<serveVars, sock, route, kind, pending, served, closeVars,
                 subDone, ctxDone>>

(* Accept returns net.ErrClosed and the server's accept loop ends. *)
AcceptEnds(s) ==
  /\ acc[s] \in {"idle", "waiting"}
  /\ done \/ s \in subDone
  /\ acc' = [acc EXCEPT ![s] = "stopped"]
  /\ UNCHANGED <<serveVars, sock, route, kind, pending, served, closeVars,
                 subDone, ctxDone>>

(* subListener.Close, called when a protocol server shuts down. *)
SubClose(s) ==
  /\ s \notin subDone
  /\ subDone' = subDone \union {s}
  /\ UNCHANGED <<serveVars, sock, route, kind, pending, served, closeVars,
                 acc, ctxDone>>

CtxCancel ==
  /\ ~ctxDone
  /\ ctxDone' = TRUE
  /\ UNCHANGED <<serveVars, sock, route, kind, pending, closeVars, acceptVars>>

(* Serve has returned and nothing is left to do. *)
Terminated == srv = "returned" /\ UNCHANGED vars

-----------------------------------------------------------------------------

Serve ==
  \/ \E c \in Conns : ServeAccept(c)
  \/ ServeAcceptFails \/ ServeAdmit \/ ServeReject
  \/ ServeCloses \/ ServeReturns

Close == StartClose \/ CloseListener \/ ClosePending

Route(c) ==
  \/ \E s \in Subs : Classify(c, s)
  \/ SniffFails(c) \/ Relinquish(c) \/ HandOff(c) \/ Discard(c)

Sub(s) == AcceptWaits(s) \/ AcceptEnds(s) \/ SubClose(s)

Next ==
  \/ Serve \/ Close \/ CtxCancel \/ Terminated
  \/ \E c \in Conns : Route(c)
  \/ \E s \in Subs : Sub(s)

Spec == Init /\ [][Next]_vars

(* Goroutines that can run do run.  Close is called by AfterFunc once the
   context is cancelled and by Serve on its way out.  Accept of a closed
   listener returns.  A read deadline bounds every sniff. *)
Fairness ==
  /\ WF_vars((ctxDone \/ srv = "closing") /\ StartClose)
  /\ WF_vars(CloseListener \/ ClosePending)
  /\ WF_vars(~lsn /\ ServeAcceptFails)
  /\ WF_vars(ServeAdmit \/ ServeReject)
  /\ WF_vars(ServeCloses \/ ServeReturns)
  /\ \A c \in Conns :
       WF_vars(SniffFails(c)) /\ WF_vars(Relinquish(c)) /\ WF_vars(Discard(c))

FairSpec == Spec /\ Fairness

-----------------------------------------------------------------------------
(* Safety *)

(* Close leaves handed-off connections open for the servers to drain: the mux
   never closes a connection a server has received, and Close can no longer
   reach it. *)
HandedOffStaysOpen ==
  \A c \in served : sock[c] = "open" /\ c \notin pending

(* No connection leaks: while the mux has an accepted connection open, Serve
   holds it or a classifier is running for it; when Serve has returned, every
   accepted connection is closed or belongs to a server. *)
NoLeak ==
  /\ \A c \in Conns : sock[c] = "open" =>
       \/ c \in served
       \/ held = c
       \/ route[c] \notin {"none", "ended"}
  /\ srv = "returned" =>
       \A c \in Conns : sock[c] = "open" => c \in served

(* When Close is over, no connection is pending and open: a connection that
   Serve admits concurrently with Close is either swept or rejected.  Otherwise
   the workers.Wait of Serve would wait for an idle client. *)
CloseSweepsAll ==
  once = "over" => \A c \in pending : sock[c] = "closed"

(* Liveness: cancelling the context makes Serve return, with every classifier
   finished, whatever the clients and the protocol servers do. *)
CancelStopsServe == ctxDone ~> (srv = "returned")

-----------------------------------------------------------------------------
(* Refinement *)

ownerOf == [c \in Conns |->
  CASE sock[c] = "new"                        -> "client"
    [] sock[c] = "closed"                     -> "nobody"
    [] sock[c] = "open" /\ c \in served       -> "server"
    [] sock[c] = "open" /\ c \notin served    -> "mux"]

Ownership == INSTANCE ConnOwnership WITH owner <- ownerOf

(* The mux implements the ownership discipline of ConnOwnership: no connection
   is handed over twice, closed after it was handed over, or reopened. *)
ImplementsOwnership == Ownership!Spec

=============================================================================
