---------------------------- MODULE ServerProofs ----------------------------
(***************************************************************************)
(* Proofs about the server process, for any set of connections and of      *)
(* handlers: the listener mux under any environment, the mux inside main   *)
(* and its shutdown, the handlers of the gRPC service, and the trace with  *)
(* any limit.                                                              *)
(***************************************************************************)
EXTENDS MCServer, DataLemmas

-----------------------------------------------------------------------------
(* The listener mux.  The inductive invariant says, for every connection,  *)
(* which of Serve, the classifier, the pending set and the servers know    *)
(* it, in step with its socket.                                            *)

(* Serve holds a connection exactly between Accept and admission. *)
HeldInv ==
  IF srv = "admit"
  THEN held \in Conns /\ sock[held] = "open" /\ route[held] = "none"
  ELSE held = NoConn

(* A connection without a classifier is unknown, in Serve's hands, or was
   rejected. *)
UnroutedInv ==
  \A c \in Conns : route[c] = "none" =>
    /\ c \notin pending
    /\ c \notin served
    /\ sock[c] = "open" => held = c

(* A connection that was never accepted has no classifier. *)
NewInv ==
  \A c \in Conns : sock[c] = "new" => route[c] = "none"

(* Only connections whose classifier has not relinquished them are pending. *)
PendingInv ==
  \A c \in pending : route[c] \in {"sniffing", "sniffed", "failed"}

(* A served connection was handed over by a classifier that has ended. *)
ServedInv ==
  \A c \in served : route[c] = "ended" /\ sock[c] = "open"

(* A classifier ends by handing its connection over or by closing it. *)
EndedInv ==
  \A c \in Conns : route[c] = "ended" => c \in served \/ sock[c] = "closed"

(* Until Close sweeps the pending set, a connection with a running classifier
   is open: this is what makes a hand-off before Close safe. *)
UnsweptInv ==
  once # "over" =>
    \A c \in Conns : route[c] \notin {"none", "ended"} => sock[c] = "open"

(* m.done is closed by the first step of once.Do; Serve passes its deferred
   Close only when once.Do is over, and returns with no classifier running. *)
CloseInv ==
  /\ done <=> once # "new"
  /\ srv = "returned" => \A c \in Conns : route[c] \in {"none", "ended"}

IInv ==
  /\ TypeOK /\ HeldInv /\ UnroutedInv /\ NewInv /\ PendingInv
  /\ ServedInv /\ EndedInv /\ UnsweptInv /\ CloseInv /\ CloseSweepsAll

-----------------------------------------------------------------------------

(* A new mux has accepted nothing. *)
LEMMA InitIInv == Init => IInv
<1> SUFFICES ASSUME Init PROVE IInv
  OBVIOUS
<1>1. TypeOK
  BY DEF Init, TypeOK, Subs
<1>2. HeldInv /\ UnroutedInv /\ NewInv /\ PendingInv /\ ServedInv /\ EndedInv
  BY DEF Init, HeldInv, UnroutedInv, NewInv, PendingInv, ServedInv, EndedInv
<1>3. UnsweptInv /\ CloseInv /\ CloseSweepsAll
  BY DEF Init, UnsweptInv, CloseInv, CloseSweepsAll
<1> QED
  BY <1>1, <1>2, <1>3 DEF IInv

(* The accept loop: a connection moves from the listener to the pending set. *)
LEMMA ServePreservesIInv ==
  ASSUME IInv, Serve
  PROVE  IInv'
<1> USE NoConnAssumption
    DEF IInv, TypeOK, HeldInv, UnroutedInv, NewInv, PendingInv, ServedInv,
        EndedInv, UnsweptInv, CloseInv, CloseSweepsAll,
        closeVars, acceptVars
<1>1. ASSUME NEW c \in Conns, ServeAccept(c)
      PROVE  IInv'
  BY <1>1 DEF ServeAccept
<1>2. CASE ServeAcceptFails
  BY <1>2 DEF ServeAcceptFails
<1>3. CASE ServeAdmit
  BY <1>3 DEF ServeAdmit
<1>4. CASE ServeReject
  BY <1>4 DEF ServeReject
<1>5. CASE ServeCloses
  BY <1>5 DEF ServeCloses
<1>6. CASE ServeReturns
  BY <1>6 DEF ServeReturns
<1> QED
  BY <1>1, <1>2, <1>3, <1>4, <1>5, <1>6 DEF Serve

(* The body of Close: the sweep closes all that is pending, nothing else. *)
LEMMA ClosePreservesIInv ==
  ASSUME IInv, Close
  PROVE  IInv'
<1> USE DEF IInv, TypeOK, HeldInv, UnroutedInv, NewInv, PendingInv, ServedInv,
        EndedInv, UnsweptInv, CloseInv, CloseSweepsAll,
        serveVars, acceptVars
<1>1. CASE StartClose
  BY <1>1 DEF StartClose
<1>2. CASE CloseListener
  BY <1>2 DEF CloseListener
<1>3. CASE ClosePending
  BY <1>3 DEF ClosePending
<1> QED
  BY <1>1, <1>2, <1>3 DEF Close

(* The classifier of one connection: only HandOff serves a connection, and
   only one that is no longer pending. *)
LEMMA RoutePreservesIInv ==
  ASSUME IInv, NEW c \in Conns, Route(c)
  PROVE  IInv'
<1> USE DEF IInv, TypeOK, HeldInv, UnroutedInv, NewInv, PendingInv, ServedInv,
        EndedInv, UnsweptInv, CloseInv, CloseSweepsAll,
        serveVars, closeVars, acceptVars,
        Subs
<1>1. ASSUME NEW s \in Subs, Classify(c, s)
      PROVE  IInv'
  BY <1>1 DEF Classify
<1>2. CASE SniffFails(c)
  BY <1>2 DEF SniffFails
<1>3. CASE Relinquish(c)
  BY <1>3 DEF Relinquish
<1>4. CASE HandOff(c)
  <2>1. kind[c] \in Subs /\ c \notin pending /\ sock[c] = "open"
    BY <1>4 DEF HandOff
  <2>2. TypeOK'
    BY <1>4, <2>1 DEF HandOff
  <2>3. HeldInv' /\ UnroutedInv' /\ NewInv' /\ PendingInv'
    BY <1>4, <2>1 DEF HandOff
  <2>4. ServedInv' /\ EndedInv' /\ UnsweptInv' /\ CloseInv' /\ CloseSweepsAll'
    BY <1>4, <2>1 DEF HandOff
  <2> QED
    BY <2>2, <2>3, <2>4
<1>5. CASE Discard(c)
  BY <1>5 DEF Discard
<1> QED
  BY <1>1, <1>2, <1>3, <1>4, <1>5 DEF Route

(* The context and the sub-listeners touch no socket. *)
LEMMA OthersPreserveIInv ==
  ASSUME IInv, CtxCancel \/ UNCHANGED vars \/ \E s \in Subs : Sub(s)
  PROVE  IInv'
<1> USE DEF IInv, TypeOK, HeldInv, UnroutedInv, NewInv, PendingInv, ServedInv,
        EndedInv, UnsweptInv, CloseInv, CloseSweepsAll,
        serveVars, closeVars, acceptVars
<1>1. CASE CtxCancel
  BY <1>1 DEF CtxCancel
<1>2. CASE UNCHANGED vars
  BY <1>2 DEF vars
<1>3. ASSUME NEW s \in Subs, AcceptWaits(s)
      PROVE  IInv'
  BY <1>3 DEF AcceptWaits
<1>4. ASSUME NEW s \in Subs, AcceptEnds(s)
      PROVE  IInv'
  BY <1>4 DEF AcceptEnds
<1>5. ASSUME NEW s \in Subs, SubClose(s)
      PROVE  IInv'
  BY <1>5 DEF SubClose
<1> QED
  BY <1>1, <1>2, <1>3, <1>4, <1>5 DEF Sub

(* Every step of the mux keeps the invariant. *)
LEMMA NextPreservesIInv == IInv /\ [Next]_vars => IInv'
  BY ServePreservesIInv, ClosePreservesIInv, RoutePreservesIInv,
     OthersPreserveIInv
  DEF Next, Terminated

(* The inductive invariant holds throughout: every other safety theorem of the
   mux follows from it. *)
THEOREM Invariance == Spec => []IInv
  BY InitIInv, NextPreservesIInv, PTL DEF Spec

(* Every variable keeps its type; in particular Serve never admits "no
   connection" to the pending set. *)
THEOREM TypeCorrectness == Spec => []TypeOK
<1>1. IInv => TypeOK
  BY DEF IInv
<1> QED
  BY <1>1, Invariance, PTL

(* Close leaves handed-off connections open: the mux closes no connection that
   a server has received, for any number of connections. *)
THEOREM HandedOffStaysOpenAlways == Spec => []HandedOffStaysOpen
<1>1. IInv => HandedOffStaysOpen
  BY DEF IInv, TypeOK, ServedInv, PendingInv, HandedOffStaysOpen
<1> QED
  BY <1>1, Invariance, PTL

(* Serve leaks no connection, while it runs or after it has returned. *)
THEOREM NoLeakAlways == Spec => []NoLeak
<1>1. IInv => NoLeak
  BY NoConnAssumption
  DEF IInv, TypeOK, HeldInv, UnroutedInv, EndedInv, CloseInv, NoLeak
<1> QED
  BY <1>1, Invariance, PTL

(* After Close no open connection is pending, so that Serve waits for no idle
   client. *)
THEOREM CloseSweepsAllAlways == Spec => []CloseSweepsAll
<1>1. IInv => CloseSweepsAll
  BY DEF IInv
<1> QED
  BY <1>1, Invariance, PTL

-----------------------------------------------------------------------------
(* Refinement *)

(* At the start every connection is the client's. *)
LEMMA InitRefines == Init => Ownership!Init
  BY DEF Init, Ownership!Init, ownerOf

(* A step that changes neither the sockets nor the served set is a stutter. *)
LEMMA StutterRefines ==
  ASSUME sock' = sock, served' = served
  PROVE  ownerOf' = ownerOf
  BY DEF ownerOf

(* The owner of each connection, one connection at a time. *)
LEMMA OwnerValue ==
  ASSUME IInv, NEW c \in Conns
  PROVE  /\ sock[c] = "new"    <=> ownerOf[c] = "client"
         /\ sock[c] = "closed" <=> ownerOf[c] = "nobody"
         /\ sock[c] = "open" /\ c \in served    <=> ownerOf[c] = "server"
         /\ sock[c] = "open" /\ c \notin served <=> ownerOf[c] = "mux"
<1>1. sock[c] \in {"new", "open", "closed"}
  BY DEF IInv, TypeOK
<1> QED
  BY <1>1 DEF ownerOf

(* Every step of the mux moves the ownership of one connection as allowed, or
   of several by closing them, or of none. *)
LEMMA StepRefines ==
  ASSUME IInv, [Next]_vars
  PROVE  [Ownership!Next]_ownerOf
<1> USE DEF Ownership!Next, Ownership!Take, Ownership!Give, Ownership!Drop,
            Ownership!Move, Ownership!DropMany
<1> DEFINE Moves(c, from, to) ==
      /\ ownerOf[c] = from
      /\ ownerOf' = [ownerOf EXCEPT ![c] = to]
<1>1. ASSUME NEW c \in Conns, ServeAccept(c)
      PROVE  Moves(c, "client", "mux")
  <2>1. c \notin served
    BY <1>1 DEF ServeAccept, IInv, ServedInv
  <2>2. sock \in [Conns -> {"new", "open", "closed"}]
    BY DEF IInv, TypeOK
  <2> QED
    BY <1>1, <2>1, <2>2 DEF ServeAccept, acceptVars, ownerOf
<1>2. CASE ServeReject
  <2>1. held \in Conns /\ sock[held] = "open" /\ held \notin served
    BY <1>2 DEF ServeReject, IInv, HeldInv, UnroutedInv
  <2>2. sock \in [Conns -> {"new", "open", "closed"}]
    BY DEF IInv, TypeOK
  <2>3. Moves(held, "mux", "nobody")
    BY <1>2, <2>1, <2>2 DEF ServeReject, acceptVars, ownerOf
  <2> QED
    BY <2>1, <2>3
<1>3. CASE ClosePending
  <2> DEFINE S == {c \in pending : sock[c] = "open"}
  <2>1. /\ pending \subseteq Conns
        /\ sock \in [Conns -> {"new", "open", "closed"}]
    BY DEF IInv, TypeOK
  <2>2. \A c \in pending : c \notin served /\ sock[c] # "new"
    BY DEF IInv, TypeOK, PendingInv, ServedInv, NewInv
  <2>3. \A c \in S : ownerOf[c] = "mux"
    BY <2>1, <2>2 DEF ownerOf
  <2>4. ownerOf' = [c \in Conns |-> IF c \in S THEN "nobody" ELSE ownerOf[c]]
    BY <1>3, <2>1, <2>2 DEF ClosePending, acceptVars, ownerOf
  <2>5. S \in SUBSET Conns
    BY <2>1
  <2> QED
    BY <2>3, <2>4, <2>5
<1>4. ASSUME NEW c \in Conns, HandOff(c)
      PROVE  Moves(c, "mux", "server")
  <2>1. c \notin served /\ sock[c] = "open"
    BY <1>4 DEF HandOff, IInv, ServedInv, UnsweptInv, CloseInv
  <2>2. sock \in [Conns -> {"new", "open", "closed"}]
    BY DEF IInv, TypeOK
  <2>3. sock' = sock /\ served' = served \union {c}
    BY <1>4 DEF HandOff
  <2> QED
    BY <2>1, <2>2, <2>3 DEF ownerOf
<1>5. ASSUME NEW c \in Conns, Discard(c)
      PROVE  Moves(c, "mux", "nobody") \/ ownerOf' = ownerOf
  <2>1. c \notin served /\ sock[c] \in {"open", "closed"}
    BY <1>5 DEF Discard, IInv, TypeOK, ServedInv, NewInv
  <2>2. sock \in [Conns -> {"new", "open", "closed"}]
    BY DEF IInv, TypeOK
  <2>3. CASE sock[c] = "open"
    <3>1. sock' = [sock EXCEPT ![c] = "closed"] /\ served' = served
      BY <1>5 DEF Discard, acceptVars
    <3>2. Moves(c, "mux", "nobody")
      BY <2>1, <2>2, <2>3, <3>1 DEF ownerOf
    <3> QED
      BY <3>2
  <2>4. CASE sock[c] = "closed"
    <3>1. sock' = sock /\ served' = served
      BY <1>5, <2>2, <2>4 DEF Discard, acceptVars
    <3> QED
      BY <3>1, StutterRefines
  <2> QED
    BY <2>1, <2>3, <2>4
<1>6. CASE ServeAcceptFails \/ ServeAdmit \/ ServeCloses \/ ServeReturns
  BY <1>6, StutterRefines
  DEF ServeAcceptFails, ServeAdmit, ServeCloses, ServeReturns, acceptVars
<1>7. CASE StartClose \/ CloseListener \/ CtxCancel \/ UNCHANGED vars
  BY <1>7, StutterRefines
  DEF StartClose, CloseListener, CtxCancel, vars, acceptVars
<1>8. ASSUME NEW c \in Conns,
             (\E s \in Subs : Classify(c, s)) \/ SniffFails(c) \/ Relinquish(c)
      PROVE  ownerOf' = ownerOf
  BY <1>8, StutterRefines DEF Classify, SniffFails, Relinquish, acceptVars
<1>9. ASSUME NEW s \in Subs, Sub(s)
      PROVE  ownerOf' = ownerOf
  BY <1>9, StutterRefines DEF Sub, AcceptWaits, AcceptEnds, SubClose
<1> QED
  BY <1>1, <1>2, <1>3, <1>4, <1>5, <1>6, <1>7, <1>8, <1>9
  DEF Next, Serve, Close, Route, Terminated

(* The mux implements ConnOwnership: every connection goes from the client to
   the mux and from the mux to one server or to nobody, never back. *)
THEOREM Refinement == Spec => ImplementsOwnership
  BY InitRefines, StepRefines, Invariance, PTL
  DEF Spec, ImplementsOwnership, Ownership!Spec

---------------------------------------------------------------------------
(* The mux inside main, and the shutdown.                                  *)

\* A step of main is a step of the mux or leaves it alone.
LEMMA MainStepsTheMux == Main!ShutNext => [Next]_vars
<1> SUFFICES ASSUME Main!ShutNext PROVE [Next]_vars
  OBVIOUS
<1> USE DEF Main!vars, Main!shutVars, vars
<1>1. CASE Main!MuxServes
  <2>1. Serve
    BY <1>1 DEF Main!MuxServes, Main!Serve, Main!ServeAccept,
      Main!ServeAcceptFails, Main!ServeAdmit, Main!ServeReject,
      Main!ServeCloses, Main!ServeReturns, Main!closeVars, Main!acceptVars,
      Serve, ServeAccept, ServeAcceptFails, ServeAdmit, ServeReject,
      ServeCloses, ServeReturns, closeVars, acceptVars
  <2> QED BY <2>1 DEF Next
<1>2. CASE Main!MuxSweeps \/ Main!MuxClose
  <2>1. Close
    BY <1>2 DEF Main!MuxSweeps, Main!MuxClose, Main!StartClose,
      Main!CloseListener, Main!ClosePending, Main!serveVars, Main!acceptVars,
      Close, StartClose, CloseListener, ClosePending, serveVars, acceptVars
  <2> QED BY <2>1 DEF Next
<1>3. ASSUME NEW c \in Conns, Main!MuxRoutes(c) PROVE Next
  <2>1. Route(c)
    BY <1>3 DEF Main!MuxRoutes, Main!Classify, Main!SniffFails,
      Main!Relinquish, Main!HandOff, Main!Discard, Main!serveVars,
      Main!closeVars, Main!acceptVars, Main!Subs, Route, Classify, SniffFails,
      Relinquish, HandOff, Discard, serveVars, closeVars, acceptVars, Subs
  <2> QED BY <2>1 DEF Next
<1>4. ASSUME NEW s \in Subs, Main!Accepts(s) PROVE Next
  <2>1. Sub(s)
    BY <1>4 DEF Main!Accepts, Main!AcceptWaits, Main!AcceptEnds,
      Main!serveVars, Main!closeVars, Sub, AcceptWaits, AcceptEnds,
      serveVars, closeVars
  <2> QED BY <2>1 DEF Next
<1>5. CASE Main!GatewayShutdown \/ Main!GrpcGracefulStop
  <2>1. \E s \in Subs : SubClose(s)
    BY <1>5 DEF Main!GatewayShutdown, Main!GrpcGracefulStop, Main!SubClose,
      Main!serveVars, Main!closeVars, SubClose, serveVars, closeVars, Subs
  <2> QED BY <2>1 DEF Next, Sub
<1>6. ASSUME NEW c \in Main!Clients,
             Main!Begin(c) \/ Main!Forward(c) \/ Main!HandlerEnds(c)
      PROVE  UNCHANGED vars
  BY <1>6 DEF Main!Begin, Main!Forward, Main!HandlerEnds
<1>7. CASE \/ Main!Signal \/ Main!ServeFails \/ Main!GatewayReturns
           \/ Main!GatewayTimesOut \/ Main!Deadline \/ Main!GrpcStopped
           \/ Main!GrpcTimesOut \/ Main!MainReturns
  <2>1. UNCHANGED vars
    BY <1>7 DEF Main!Signal, Main!ServeFails, Main!GatewayReturns,
      Main!GatewayTimesOut, Main!Deadline, Main!GrpcStopped,
      Main!GrpcTimesOut, Main!MainReturns
  <2> QED BY <2>1
<1> QED BY <1>1, <1>2, <1>3, <1>4, <1>5, <1>6, <1>7
        DEF Main!ShutNext, Main!Subs, Subs

\* Inside main too, every connection is in step with those who know it.
LEMMA MuxInvAlways == MCSpec => []IInv
<1>1. MCInit => IInv
  BY InitIInv DEF MCInit, Main!ShutInit, Main!Init, Init, Main!Subs, Subs
<1>2. [MCNext]_allVars => [Next]_vars
  BY MainStepsTheMux, Zenon
  DEF MCNext, InMux, InMain, InServer, InRing, allVars
<1> QED BY <1>1, <1>2, NextPreservesIInv, PTL DEF MCSpec

ShutTypes ==
  /\ cause \in {"none", "signal", "fault"}
  /\ aft \in {"wait", "gateway", "mux", "grpc", "done"}
  /\ late \in BOOLEAN /\ broken \in BOOLEAN
  /\ rpc \in {"serving", "draining", "stopped"}
  /\ req \in [Conns -> {"none", "active", "called", "answered", "refused",
                        "cut"}]

\* Only a connection that a server has received carries a request.
RequestInv == \A c \in Conns : req[c] # "none" => c \in served

\* The AfterFunc goes on past a server only when nothing of it is active, and
\* main returns last.
OrderInv ==
  /\ aft # "wait" => cause # "none"
  /\ aft \notin {"wait", "gateway"} => Main!Active("http") = {}
  /\ aft = "done" => rpc = "stopped" /\ Main!Active("grpc") = {}
  /\ proc # "running" => /\ aft = "done" /\ srv = "returned"
                         /\ cause = "signal" => proc = "stopped"

\* The deadline has passed, or what ended the group was no signal.
Hurried == late \/ broken \/ cause = "fault"

\* Until the gateway has no request left the mux serves, and the gateway's own
\* connection is coming, on its way to the gRPC server, or there.
MuxUp ==
  ~Hurried /\ aft \in {"wait", "gateway"} =>
    /\ once = "new" /\ lsn /\ srv \in {"accept", "admit"}
    /\ rpc = "serving" /\ "grpc" \notin subDone
    /\ sock[Back] # "closed" /\ route[Back] \notin {"failed", "discard"}
    /\ route[Back] \in {"sniffed", "handing"} => kind[Back] = "grpc"

\* Nothing was cut off or refused, also before the signal.
Graceful ==
  ~Hurried => \A c \in Main!Clients : req[c] \notin {"cut", "refused"}

\* Why each part is needed: a refused request needs the mux down (MuxUp), a
\* request needs a served connection (RequestInv, with IInv), and what is over
\* when main returns was over when the AfterFunc went on (OrderInv).
MainInv == ShutTypes /\ RequestInv /\ OrderInv /\ MuxUp /\ Graceful

\* The parts other than main end no group.
ShutInv == IF part = "main" THEN MainInv
                            ELSE cause = "none" /\ proc = "running"

\* While the requests stay, so do the active ones: a classifier decides on no
\* connection that a server has.
LEMMA ActiveStays ==
  ASSUME IInv, ShutTypes, RequestInv, [Next]_vars, req' = req
  PROVE  /\ Main!Active("http")' = Main!Active("http")
         /\ Main!Active("grpc")' = Main!Active("grpc")
         /\ RequestInv'
<1>1. /\ kind \in [Conns -> Subs]
      /\ \A c \in served : route[c] = "ended"
  BY DEF IInv, TypeOK, ServedInv
<1>2. ASSUME NEW c \in served \cap Conns
      PROVE  kind'[c] = kind[c] /\ c \in served'
  BY <1>1, <1>2 DEF Next, Serve, Close, Route, Sub, Terminated, vars,
    ServeAccept, ServeAcceptFails, ServeAdmit, ServeReject, ServeCloses,
    ServeReturns, StartClose, CloseListener, ClosePending, Classify,
    SniffFails, Relinquish, HandOff, Discard, AcceptWaits, AcceptEnds,
    SubClose, CtxCancel, serveVars, closeVars, acceptVars
<1> QED BY <1>1, <1>2 DEF Main!Active, Main!Clients, RequestInv, ShutTypes

\* What the mux does is no event of the shutdown; a listener once broken is.
LEMMA MuxMovesNoRequest ==
  ASSUME broken \in BOOLEAN,
         \/ Main!MuxServes \/ Main!MuxSweeps \/ Main!MuxClose
         \/ \E c \in Conns : Main!MuxRoutes(c)
         \/ \E s \in Main!Subs : Main!Accepts(s)
  PROVE  /\ UNCHANGED <<cause, aft, late, rpc, req, proc>>
         /\ broken => broken'
         /\ broken' \in BOOLEAN
<1>1. CASE Main!MuxServes
  <2>1. UNCHANGED <<cause, aft, late, rpc, req, proc>>
    BY <1>1, Zenon DEF Main!MuxServes
  <2>2. broken' = (broken \/ (Main!ServeAcceptFails /\ lsn))
    BY <1>1, Zenon DEF Main!MuxServes
  <2>3. (broken => broken') /\ broken' \in BOOLEAN
    BY <2>2, Zenon
  <2> QED BY <2>1, <2>3, Zenon
<1>2. CASE ~Main!MuxServes
  <2>1. UNCHANGED Main!shutVars
    BY <1>2, Zenon DEF Main!MuxSweeps, Main!MuxClose, Main!MuxRoutes,
      Main!Accepts
  <2>2. UNCHANGED <<cause, aft, late, rpc, req, proc, broken>>
    BY <2>1 DEF Main!shutVars
  <2>3. UNCHANGED <<cause, aft, late, rpc, req, proc>> /\ broken' = broken
    BY ONLY <2>2
  <2> QED BY <2>3, Zenon
<1> QED BY <1>1, <1>2

\* Until the gateway has no request left nothing takes the mux down.
LEMMA MuxStaysUp ==
  ASSUME IInv, ShutTypes, MuxUp,
         \/ Main!MuxServes \/ Main!MuxSweeps \/ Main!MuxClose
         \/ \E c \in Conns : Main!MuxRoutes(c)
         \/ \E s \in Main!Subs : Main!Accepts(s)
  PROVE  MuxUp'
<1> SUFFICES ASSUME ~Hurried', aft' \in {"wait", "gateway"} PROVE MuxUp'
  BY DEF MuxUp
<1> USE BackAssumption DEF Main!shutVars
<1>1. /\ UNCHANGED <<cause, aft, late, rpc, req, proc>>
      /\ broken => broken'
  BY MuxMovesNoRequest, Zenon DEF ShutTypes
<1>2. ~Hurried
  BY <1>1 DEF Hurried
<1>3. /\ once = "new" /\ lsn /\ srv \in {"accept", "admit"} /\ ~done
      /\ rpc = "serving" /\ "grpc" \notin subDone
      /\ sock[Back] # "closed" /\ route[Back] \notin {"failed", "discard"}
      /\ route[Back] \in {"sniffed", "handing"} => kind[Back] = "grpc"
  BY <1>1, <1>2 DEF MuxUp, IInv, CloseInv
<1>4. /\ sock \in [Conns -> {"new", "open", "closed"}]
      /\ route \in [Conns -> {"none", "sniffing", "sniffed", "failed",
                              "handing", "discard", "ended"}]
      /\ kind \in [Conns -> Subs]
  BY DEF IInv, TypeOK
<1> SUFFICES
      /\ once' = "new" /\ lsn' /\ srv' \in {"accept", "admit"}
      /\ subDone' = subDone /\ sock'[Back] # "closed"
      /\ route'[Back] \notin {"failed", "discard"}
      /\ route'[Back] \in {"sniffed", "handing"} => kind'[Back] = "grpc"
  BY <1>1, <1>3 DEF MuxUp
<1>5. CASE Main!MuxServes
  <2>1. ~ServeAcceptFails
    BY <1>3, <1>5 DEF Main!MuxServes, Hurried, Main!ServeAcceptFails,
      ServeAcceptFails, closeVars, acceptVars, Main!closeVars, Main!acceptVars
  <2>2. \/ \E c \in Conns : ServeAccept(c)
        \/ ServeAdmit
    BY <1>3, <1>5, <2>1 DEF Main!MuxServes, Main!Serve, Main!ServeAccept,
      Main!ServeAcceptFails, Main!ServeAdmit, Main!ServeReject,
      Main!ServeCloses, Main!ServeReturns, Main!closeVars, Main!acceptVars,
      ServeAccept, ServeAcceptFails, ServeAdmit, closeVars, acceptVars
  <2>3. ASSUME NEW c \in Conns, ServeAccept(c)
        PROVE  /\ srv' = "admit" /\ sock' = [sock EXCEPT ![c] = "open"]
               /\ UNCHANGED <<once, lsn, subDone, route, kind>>
    BY <2>3 DEF ServeAccept, closeVars, acceptVars
  <2>4. CASE ServeAdmit
    <3>1. /\ srv' = "accept"
          /\ route' = [route EXCEPT ![held] = "sniffing"]
          /\ UNCHANGED <<once, lsn, subDone, sock, kind>>
      BY <2>4 DEF ServeAdmit, closeVars, acceptVars
    <3> QED BY ONLY <1>3, <1>4, <3>1, BackAssumption
  <2> QED BY ONLY <1>3, <1>4, <2>2, <2>3, <2>4, BackAssumption
<1>6. ~Main!MuxSweeps /\ ~Main!MuxClose
  BY <1>1, <1>3 DEF Main!MuxSweeps, Main!MuxClose, Main!CloseListener,
    Main!ClosePending
<1> DEFINE Kept == /\ UNCHANGED <<once, lsn, srv, subDone>>
                   /\ sock'[Back] # "closed"
                   /\ route'[Back] \notin {"failed", "discard"}
                   /\ route'[Back] \in {"sniffed", "handing"} =>
                        kind'[Back] = "grpc"
<1>7. ASSUME NEW c \in Conns, Main!MuxRoutes(c)
      PROVE  Kept
  <2> USE DEF Main!serveVars, Main!closeVars, Main!acceptVars
  <2>1. ASSUME NEW s \in Main!Subs, Main!Classify(c, s), c = Back => s = "grpc"
        PROVE  Kept
    BY <1>3, <1>4, <2>1 DEF Main!Classify
  <2>2. CASE Main!SniffFails(c) /\ (c = Back => sock[c] = "closed")
    BY <1>3, <1>4, <2>2 DEF Main!SniffFails
  <2>3. CASE Main!Relinquish(c)
    BY <1>3, <1>4, <2>3 DEF Main!Relinquish
  <2>4. CASE Main!HandOff(c)
    BY <1>3, <1>4, <2>4 DEF Main!HandOff
  <2>5. CASE Main!Discard(c)
    BY <1>3, <1>4, <2>5 DEF Main!Discard
  <2> HIDE DEF Kept
  <2> QED BY <1>7, <2>1, <2>2, <2>3, <2>4, <2>5, Zenon DEF Main!MuxRoutes
<1>8. ASSUME NEW s \in Main!Subs, Main!Accepts(s)
      PROVE  UNCHANGED <<once, lsn, srv, subDone, sock, route, kind>>
  BY <1>8 DEF Main!Accepts, Main!AcceptWaits, Main!AcceptEnds,
    Main!serveVars, Main!closeVars
<1> QED BY <1>3, <1>5, <1>6, <1>7, <1>8

\* The mux moves no request, and Serve that has returned does not go on.
LEMMA MuxKeepsMainInv ==
  ASSUME IInv, MainInv,
         \/ Main!MuxServes \/ Main!MuxSweeps \/ Main!MuxClose
         \/ \E c \in Conns : Main!MuxRoutes(c)
         \/ \E s \in Main!Subs : Main!Accepts(s)
  PROVE  MainInv'
<1>1. [Next]_vars
  BY MainStepsTheMux, Zenon DEF Main!ShutNext
<1>2. /\ UNCHANGED <<cause, aft, late, rpc, req, proc>>
      /\ broken => broken'
      /\ broken' \in BOOLEAN
  BY MuxMovesNoRequest, Zenon DEF MainInv, ShutTypes
<1>3. MuxUp'
  BY MuxStaysUp DEF MainInv
<1>4. /\ Main!Active("http")' = Main!Active("http")
      /\ Main!Active("grpc")' = Main!Active("grpc")
      /\ RequestInv'
  BY <1>1, <1>2, ActiveStays DEF MainInv
<1>5. srv = "returned" => srv' = "returned"
  BY <1>1 DEF Next, Serve, Close, Route, Sub, Terminated, vars,
    ServeAccept, ServeAcceptFails, ServeAdmit, ServeReject, ServeCloses,
    ServeReturns, StartClose, CloseListener, ClosePending, Classify,
    SniffFails, Relinquish, HandOff, Discard, AcceptWaits, AcceptEnds,
    SubClose, CtxCancel, serveVars
<1>6. ShutTypes'
  BY <1>2 DEF MainInv, ShutTypes
<1>7. OrderInv'
  BY <1>2, <1>4, <1>5 DEF MainInv, OrderInv
<1>8. Graceful'
  BY <1>2 DEF MainInv, Graceful, Hurried, Main!Clients
<1> QED BY <1>3, <1>4, <1>6, <1>7, <1>8 DEF MainInv

\* A request begins only at a server that still serves; while the gateway is
\* waited for, its own connection is there or may still come.
LEMMA RequestsKeepMainInv ==
  ASSUME IInv, MainInv, NEW c \in Main!Clients,
         Main!Begin(c) \/ Main!Forward(c) \/ Main!HandlerEnds(c)
  PROVE  MainInv'
<1> USE DEF MainInv
<1>1. /\ UNCHANGED <<cause, aft, late, rpc, proc, broken>>
      /\ UNCHANGED vars
  BY DEF Main!Begin, Main!Forward, Main!HandlerEnds, Main!vars, vars
<1>2. /\ UNCHANGED <<srv, sock, route, kind, served, once, lsn, subDone>>
      /\ Hurried' = Hurried
  BY <1>1 DEF vars, Hurried
<1>3. c \in Conns /\ req \in [Conns -> {"none", "active", "called", "answered",
                                        "refused", "cut"}]
  BY DEF ShutTypes, Main!Clients
<1>4. PICK r \in {"active", "called", "answered", "refused"} :
        req' = [req EXCEPT ![c] = r]
  BY DEF Main!Begin, Main!Forward, Main!HandlerEnds
<1>5. MuxUp'
  BY <1>1, <1>2 DEF MuxUp
<1>6. ShutTypes'
  BY <1>1, <1>3, <1>4 DEF ShutTypes
<1>7. RequestInv'
  <2>1. c \in served
    BY <1>3 DEF Main!Begin, Main!Forward, Main!HandlerEnds, RequestInv,
      Main!Active
  <2> QED BY <1>2, <1>3, <1>4, <2>1 DEF RequestInv
<1>8. OrderInv'
  <2>1. aft \notin {"wait", "gateway"} => Main!Active("http")' = {}
    BY <1>1, <1>2, <1>3 DEF OrderInv, Main!Active, Main!Clients, Main!Begin,
      Main!Forward, Main!HandlerEnds
  <2>2. aft = "done" => Main!Active("grpc")' = {}
    BY <1>1, <1>2, <1>3 DEF OrderInv, Main!Active, Main!Clients, Main!Begin,
      Main!Forward, Main!HandlerEnds, IInv, TypeOK, Subs
  <2> QED BY <1>1, <1>2, <2>1, <2>2 DEF OrderInv
<1>9. Graceful'
  <2>1. ASSUME ~Hurried PROVE r # "refused"
    <3>1. CASE Main!Forward(c)
      <4>1. aft \in {"wait", "gateway"}
        BY <3>1 DEF Main!Forward, OrderInv
      <4>2. sock[Back] # "closed" /\ rpc = "serving" /\ lsn
        BY <2>1, <4>1 DEF MuxUp
      <4> QED BY <1>3, <1>4, <3>1, <4>2 DEF Main!Forward
    <3>2. CASE ~Main!Forward(c)
      BY <1>3, <1>4, <3>2 DEF Main!Begin, Main!HandlerEnds
    <3> QED BY <3>1, <3>2
  <2> QED BY <1>2, <1>3, <1>4, <2>1 DEF Graceful, Main!Clients
<1> QED BY <1>5, <1>6, <1>7, <1>8, <1>9

\* The steps of the shutdown itself.
LEMMA ShutdownKeepsMainInv ==
  ASSUME IInv, MainInv,
         \/ Main!Signal \/ Main!ServeFails \/ Main!GatewayShutdown
         \/ Main!GatewayReturns \/ Main!GatewayTimesOut \/ Main!Deadline
         \/ Main!GrpcGracefulStop \/ Main!GrpcStopped \/ Main!GrpcTimesOut
         \/ Main!MainReturns
  PROVE  MainInv'
<1> USE DEF MainInv, ShutTypes, OrderInv, RequestInv, MuxUp, Graceful, Hurried,
            Main!vars
<1> DEFINE Same == UNCHANGED <<srv, sock, route, kind, served, once, lsn>>
<1>1. CASE Main!Signal \/ Main!ServeFails
  <2>1. /\ UNCHANGED <<aft, late, rpc, req, proc, broken, subDone>> /\ Same
        /\ cause = "none" /\ cause' \in {"signal", "fault"}
    BY <1>1 DEF Main!Signal, Main!ServeFails
  <2>2. /\ Main!Active("http")' = Main!Active("http")
        /\ Main!Active("grpc")' = Main!Active("grpc")
    BY <2>1 DEF Main!Active, Main!Clients
  <2> QED BY <2>1, <2>2 DEF Main!Clients
<1>2. CASE Main!GatewayShutdown
  <2>1. /\ UNCHANGED <<cause, late, rpc, req, proc, broken>> /\ Same
        /\ subDone' = subDone \cup {"http"}
        /\ aft = "wait" /\ cause # "none" /\ aft' = "gateway"
    BY <1>2 DEF Main!GatewayShutdown, Main!SubClose, Main!serveVars,
      Main!closeVars
  <2> QED BY <2>1 DEF Main!Clients
<1>3. CASE Main!GatewayReturns
  <2>1. /\ UNCHANGED <<cause, late, rpc, req, proc, broken, subDone>> /\ Same
        /\ aft = "gateway" /\ aft' = "mux" /\ Main!Active("http") = {}
    BY <1>3 DEF Main!GatewayReturns
  <2>2. Main!Active("http")' = Main!Active("http")
    BY <2>1 DEF Main!Active, Main!Clients
  <2> QED BY <2>1, <2>2 DEF Main!Clients
<1>4. CASE Main!GatewayTimesOut
  <2>1. /\ UNCHANGED <<cause, late, rpc, proc, broken, subDone>> /\ Same
        /\ aft = "gateway" /\ late /\ aft' = "mux"
        /\ req' = [c \in Conns |-> IF c \in Main!Active("http") THEN "cut"
                                   ELSE req[c]]
    BY <1>4 DEF Main!GatewayTimesOut, Main!Cut
  <2>2. Main!Active("http")' = {}
    BY <2>1 DEF Main!Active, Main!Clients
  <2>3. RequestInv' /\ ShutTypes'
    BY <2>1 DEF Main!Active, Main!Clients
  <2> QED BY <2>1, <2>2, <2>3 DEF Main!Clients
<1>5. CASE Main!Deadline
  <2>1. /\ UNCHANGED <<cause, aft, rpc, req, proc, broken, subDone>> /\ Same
        /\ late'
    BY <1>5 DEF Main!Deadline
  <2>2. late' \in BOOLEAN
    BY <1>5, Zenon DEF Main!Deadline
  <2>3. /\ Main!Active("http")' = Main!Active("http")
        /\ Main!Active("grpc")' = Main!Active("grpc")
    BY <2>1 DEF Main!Active, Main!Clients
  <2> QED BY <2>1, <2>2, <2>3 DEF Main!Clients
<1>6. CASE Main!GrpcGracefulStop
  <2>1. /\ UNCHANGED <<cause, late, req, proc, broken>> /\ Same
        /\ aft = "mux" /\ aft' = "grpc" /\ rpc' = "draining"
    BY <1>6 DEF Main!GrpcGracefulStop, Main!SubClose, Main!serveVars,
      Main!closeVars
  <2>2. Main!Active("http")' = Main!Active("http")
    BY <2>1 DEF Main!Active, Main!Clients
  <2> QED BY <2>1, <2>2 DEF Main!Clients
<1>7. CASE Main!GrpcStopped
  <2>1. /\ UNCHANGED <<cause, late, req, proc, broken, subDone>> /\ Same
        /\ aft = "grpc" /\ aft' = "done" /\ rpc' = "stopped"
        /\ Main!Active("grpc") = {}
    BY <1>7 DEF Main!GrpcStopped
  <2>2. /\ Main!Active("http")' = Main!Active("http")
        /\ Main!Active("grpc")' = Main!Active("grpc")
    BY <2>1 DEF Main!Active, Main!Clients
  <2> QED BY <2>1, <2>2 DEF Main!Clients
<1>8. CASE Main!GrpcTimesOut
  <2>1. /\ UNCHANGED <<cause, late, proc, broken, subDone>> /\ Same
        /\ aft = "grpc" /\ late /\ aft' = "done" /\ rpc' = "stopped"
        /\ req' = [c \in Conns |-> IF c \in Main!Active("grpc") THEN "cut"
                                   ELSE req[c]]
    BY <1>8 DEF Main!GrpcTimesOut, Main!Cut
  <2>2. Main!Active("grpc")' = {}
    BY <2>1 DEF Main!Active, Main!Clients
  <2>3. Main!Active("http")' = {}
    BY <2>1 DEF Main!Active, Main!Clients
  <2>4. RequestInv' /\ ShutTypes'
    BY <2>1 DEF Main!Active, Main!Clients
  <2> QED BY <2>1, <2>2, <2>3, <2>4 DEF Main!Clients
<1>9. CASE Main!MainReturns
  <2>1. /\ UNCHANGED <<cause, aft, late, rpc, req, broken, subDone>> /\ Same
        /\ aft = "done" /\ srv = "returned"
        /\ cause = "signal" => proc' = "stopped"
    BY <1>9 DEF Main!MainReturns
  <2>2. /\ Main!Active("http")' = Main!Active("http")
        /\ Main!Active("grpc")' = Main!Active("grpc")
    BY <2>1 DEF Main!Active, Main!Clients
  <2> QED BY <2>1, <2>2 DEF Main!Clients
<1> QED BY <1>1, <1>2, <1>3, <1>4, <1>5, <1>6, <1>7, <1>8, <1>9

\* Every step of main keeps the invariant.
LEMMA MainKeepsMainInv ==
  ASSUME IInv, MainInv, Main!ShutNext
  PROVE  MainInv'
  BY MuxKeepsMainInv, RequestsKeepMainInv, ShutdownKeepsMainInv, Zenon
  DEF Main!ShutNext

\* The invariant of the shutdown: only the part that runs main ends a group.
LEMMA ShutInvAlways == MCSpec => []ShutInv
<1>1. MCInit => ShutInv
  <2> SUFFICES ASSUME MCInit PROVE ShutInv
    OBVIOUS
  <2> USE DEF MCInit, Main!ShutInit, Main!Init
  <2>1. ShutTypes /\ RequestInv
    BY DEF ShutTypes, RequestInv
  <2>2. OrderInv /\ Graceful
    BY DEF OrderInv, Graceful, Main!Clients
  <2>3. MuxUp
    BY BackAssumption DEF MuxUp
  <2> QED BY <2>1, <2>2, <2>3 DEF ShutInv, MainInv
<1>2. IInv /\ ShutInv /\ [MCNext]_allVars => ShutInv'
  <2> SUFFICES ASSUME IInv, ShutInv, [MCNext]_allVars PROVE ShutInv'
    OBVIOUS
  <2>1. CASE InMain(Main!ShutNext)
    <3>1. Main!ShutNext /\ part = "main" /\ part' = "main"
      BY <2>1, Zenon DEF InMain, Running
    <3>2. MainInv'
      BY <3>1, MainKeepsMainInv, Zenon DEF ShutInv
    <3> QED BY <3>1, <3>2, Zenon DEF ShutInv
  <2>2. CASE /\ ~InMain(Main!ShutNext) /\ MCNext
    <3>1. part # "main" /\ part' = part /\ UNCHANGED <<cause, proc>>
      BY <2>2 DEF MCNext, InMux, InServer, InRing, Running, mainVars
    <3> QED BY <3>1 DEF ShutInv
  <2>3. CASE UNCHANGED allVars
    <3>1. UNCHANGED <<part, vars, mainVars>>
      BY <2>3 DEF allVars
    <3>2. MainInv' = MainInv
      BY <3>1 DEF vars, mainVars, MainInv, ShutTypes, RequestInv, OrderInv,
        MuxUp, Graceful, Hurried, Main!Active, Main!Clients
    <3> QED BY <3>1, <3>2 DEF ShutInv, mainVars
  <2> QED BY <2>1, <2>2, <2>3
<1> QED BY <1>1, <1>2, MuxInvAlways, PTL DEF MCSpec

\* For any connections, in every interleaving of requests, classifiers, signal
\* and shutdown: after a signal no request is cut off or refused before the
\* deadline unless the listener broke, and when main returns Serve has, no
\* classifier runs, every connection it accepted is closed or a server's, and
\* no request is in progress.
THEOREM ShutdownIsAlwaysGraceful == MCSpec => []ShutdownIsGraceful
<1>1. ShutInv => Main!GracefulUntilDeadline
  BY DEF ShutInv, MainInv, Graceful, Hurried, Main!GracefulUntilDeadline
<1>2. IInv /\ ShutInv => Main!ExitIsClean
  <2> SUFFICES ASSUME IInv, ShutInv, proc # "running" PROVE Main!ExitIsClean
    BY DEF Main!ExitIsClean
  <2>1. /\ aft = "done" /\ srv = "returned"
        /\ cause = "signal" => proc = "stopped"
        /\ Main!Active("http") = {} /\ Main!Active("grpc") = {}
    BY DEF ShutInv, MainInv, OrderInv
  <2>2. /\ \A c \in Conns : route[c] \in {"none", "ended"}
        /\ \A c \in Conns : sock[c] = "open" => c \in served
    BY <2>1, NoConnAssumption
    DEF IInv, TypeOK, CloseInv, HeldInv, UnroutedInv, EndedInv
  <2> QED BY <2>1, <2>2 DEF Main!ExitIsClean, Main!Subs
<1> QED BY <1>1, <1>2, MuxInvAlways, ShutInvAlways, PTL DEF ShutdownIsGraceful

---------------------------------------------------------------------------
(* The handlers of the service.                                            *)

Early == {"start", "lock params", "write params", "lock types",
          "write types", "resolve", "stream", "lookup"}
InUse == {"exec", "reply", "recv", "transfer"}
Places == Early \cup InUse \cup {"connect", "close", "done"}

HandlerTypes ==
  /\ spc \in [Handlers -> Places]
  /\ dev \in [Handlers -> {"none", "made", "open", "failed", "closed"}]
  /\ closes \in [Handlers -> Nat] /\ cmds \in [Handlers -> Nat]
  /\ results \in [Handlers -> Seq([cmd : Nat, trace : Seq(Nat)])]
  /\ DOMAIN trs = Handlers
  /\ DOMAIN par = Handlers /\ DOMAIN source = Handlers
  /\ raced \in [Handlers -> BOOLEAN]
  /\ DOMAIN hostParams = Server!Hosts
  /\ \A h \in Handlers : call[h].host = "h"

\* A handler has a device from LookupType on; it is open while it is used and
\* closed once.
DeviceInv(h) ==
  /\ closes[h] = IF dev[h] = "closed" THEN 1 ELSE 0
  /\ spc[h] \in Early => dev[h] = "none"
  /\ spc[h] = "connect" => dev[h] = "made"
  /\ spc[h] \in InUse => dev[h] = "open"
  /\ spc[h] = "close" => dev[h] \in {"open", "failed"}
  /\ spc[h] = "done" =>
       /\ dev[h] \in {"none", "failed", "closed"}
       /\ Server!Kind(h) \in {"download", "upload"} => dev[h] # "failed"
  /\ Server!Kind(h) \in {"download", "upload"} => cmds[h] = 0

\* The result of command i is the i-th one; while a command is under way one
\* result is missing, and its own trace holds that command alone.
ResultsInv(h) ==
  /\ spc[h] \in Early \cup {"connect"} => cmds[h] <= 1
  /\ spc[h] \in Early \cup {"connect"} => Len(results[h]) = 0
  /\ spc[h] \in {"exec", "reply"} => Len(results[h]) + 1 = cmds[h]
  /\ spc[h] = "reply" => trs[h][2] = <<cmds[h]>>
  /\ spc[h] = "recv" => Len(results[h]) = cmds[h]
  /\ \A i \in 1..Len(results[h]) :
       results[h][i] = [cmd |-> i, trace |-> <<i>>]

\* What a call of SetupHostParams, racing or not, may have stored.
SetupStored ==
  {Server!Stored(call[w].given) :
     w \in {v \in Handlers : Server!Kind(v) = "setup"}}

\* Parameters were resolved from what was then read, which was stored by one
\* call unless it was torn.
ResolveInv(h) ==
  /\ spc[h] \in {"lock params", "write params"} => Server!Kind(h) = "setup"
  /\ par[h] # NoParams =>
       par[h] = Server!Resolve(call[h].host, call[h].given, source[h])
  /\ raced[h] \/ source[h] \in SetupStored \cup {NoParams}

StoreInv ==
  \A x \in Server!Hosts : hostParams[x] \in SetupStored \cup {NoParams}

HandlerInv ==
  /\ HandlerTypes /\ StoreInv
  /\ \A h \in Handlers : DeviceInv(h) /\ ResultsInv(h) /\ ResolveInv(h)

AtHost(x) == x.host = "h"

\* Every request of the instance names the one host.
LEMMA CallsNameHost ==
  ASSUME NEW w \in Handlers, NEW x \in Calls[w]
  PROVE  AtHost(x)
<1>1. CASE w = 1
  <2>1. Calls[w] =
          {Call("setup", HostParams(1, "t1", "user", "10.1", "")),
           Call("add", NoParams),
           Call("chat", NoParams)}
    <3>1. w # 2
      BY <1>1
    <3> QED BY ONLY w \in Handlers, <1>1, <3>1 DEF Calls, Call, HostParams
  <2>2. \/ x = Call("setup", HostParams(1, "t1", "user", "10.1", ""))
        \/ x = Call("add", NoParams)
        \/ x = Call("chat", NoParams)
    BY ONLY <2>1, x \in Calls[w]
  <2>3. /\ AtHost(Call("setup", HostParams(1, "t1", "user", "10.1", "")))
        /\ AtHost(Call("add", NoParams))
        /\ AtHost(Call("chat", NoParams))
    BY DEF AtHost, Call, HostParams
  <2> QED BY ONLY <2>2, <2>3, Zenon
<1>2. CASE w # 1 /\ w = 2
  <2>1. Calls[w] =
          {Call("setup", HostParams(2, "new", "", "10.2", "telnet")),
           Call("add", NoParams),
           [Call("add", NoParams) EXCEPT !.name = "t1"],
           [Call("upload", NoParams) EXCEPT !.bad = TRUE]}
    BY <1>2 DEF Calls, Call, HostParams
  <2>2. \/ x = Call("setup", HostParams(2, "new", "", "10.2", "telnet"))
        \/ x = Call("add", NoParams)
        \/ x = [Call("add", NoParams) EXCEPT !.name = "t1"]
        \/ x = [Call("upload", NoParams) EXCEPT !.bad = TRUE]
    BY ONLY <2>1, x \in Calls[w]
  <2>3. /\ AtHost(Call("setup", HostParams(2, "new", "", "10.2", "telnet")))
        /\ AtHost(Call("add", NoParams))
        /\ AtHost([Call("add", NoParams) EXCEPT !.name = "t1"])
        /\ AtHost([Call("upload", NoParams) EXCEPT !.bad = TRUE])
    BY DEF AtHost, Call, HostParams
  <2> QED BY ONLY <2>2, <2>3, Zenon
<1>3. CASE w # 1 /\ w # 2
  <2>1. Calls[w] =
          {Call("chat", NoParams),
           Call("download", NoParams),
           Call("chat", HostParams(3, "new", "user", "10.3", "ssh")),
           Call("exec", HostParams(0, "t1", "", "", "other")),
           Call("upload", HostParams(0, "t1", "", "10.3", "")),
           [Call("chat", NoParams) EXCEPT !.token = "wrong"]}
    BY <1>3 DEF Calls, Call, HostParams
  <2>2. \/ x = Call("chat", NoParams)
        \/ x = Call("download", NoParams)
        \/ x = Call("chat", HostParams(3, "new", "user", "10.3", "ssh"))
        \/ x = Call("exec", HostParams(0, "t1", "", "", "other"))
        \/ x = Call("upload", HostParams(0, "t1", "", "10.3", ""))
        \/ x = [Call("chat", NoParams) EXCEPT !.token = "wrong"]
    BY ONLY <2>1, x \in Calls[w]
  <2>3. /\ AtHost(Call("chat", NoParams))
        /\ AtHost(Call("download", NoParams))
        /\ AtHost(Call("chat", HostParams(3, "new", "user", "10.3", "ssh")))
        /\ AtHost(Call("exec", HostParams(0, "t1", "", "", "other")))
        /\ AtHost(Call("upload", HostParams(0, "t1", "", "10.3", "")))
        /\ AtHost([Call("chat", NoParams) EXCEPT !.token = "wrong"])
    BY DEF AtHost, Call, HostParams
  <2> QED BY ONLY <2>2, <2>3, Zenon
<1> QED BY <1>1, <1>2, <1>3

\* A new handler has no device, no result and no parameters.
LEMMA InitHandlerInv == Server!Init => HandlerInv
<1> SUFFICES ASSUME Server!Init PROVE HandlerInv
  OBVIOUS
<1> USE DEF Server!Init
<1>1. \A h \in Handlers : call[h].host = "h"
  BY CallsNameHost DEF AtHost
<1>2. HandlerTypes
  <2>1. <<>> \in Seq([cmd : Nat, trace : Seq(Nat)])
    BY ONLY SMT
  <2>2. /\ spc \in [Handlers -> Places]
        /\ dev \in [Handlers -> {"none", "made", "open", "failed", "closed"}]
        /\ closes \in [Handlers -> Nat] /\ cmds \in [Handlers -> Nat]
        /\ results \in [Handlers -> Seq([cmd : Nat, trace : Seq(Nat)])]
    BY <2>1 DEF Places, Early
  <2>3. /\ DOMAIN trs = Handlers /\ DOMAIN par = Handlers
        /\ DOMAIN source = Handlers /\ raced \in [Handlers -> BOOLEAN]
        /\ DOMAIN hostParams = Server!Hosts
    OBVIOUS
  <2> QED BY <1>1, <2>2, <2>3 DEF HandlerTypes
<1>3. StoreInv
  BY DEF StoreInv
<1>4. ASSUME NEW h \in Handlers
      PROVE  DeviceInv(h) /\ ResultsInv(h) /\ ResolveInv(h)
  <2>1. /\ spc[h] = "start" /\ dev[h] = "none" /\ closes[h] = 0
        /\ cmds[h] = 0 /\ results[h] = <<>> /\ par[h] = NoParams
        /\ source[h] = NoParams
    OBVIOUS
  <2>2. DeviceInv(h)
    BY <2>1 DEF DeviceInv, InUse
  <2>3. ResultsInv(h)
    <3>1. Len(results[h]) = 0
      BY ONLY <2>1
    <3> QED BY ONLY <2>1, <3>1 DEF ResultsInv
  <2>4. ResolveInv(h)
    BY <2>1 DEF ResolveInv
  <2> QED BY <2>2, <2>3, <2>4
<1> QED
  BY <1>2, <1>3, <1>4 DEF HandlerInv

\* A step of one handler changes nothing of another one.
OwnVars(w) == <<spc[w], par[w], source[w], raced[w], dev[w], closes[w],
                trs[w], cmds[w], results[w]>>

LEMMA HandlersApart ==
  ASSUME HandlerInv, NEW h \in Handlers, NEW w \in Handlers, w # h,
         Server!Handle(h)
  PROVE  OwnVars(w)' = OwnVars(w)
<1> USE DEF OwnVars, HandlerInv, HandlerTypes, Server!At, Server!Goto,
      Server!mapVars, Server!resolveVars, Server!useVars
<1>1. CASE Server!Start(h) \/ Server!LockParams(h) \/ Server!WriteParams(h)
  BY <1>1 DEF Server!Start, Server!LockParams, Server!WriteParams
<1>2. CASE Server!LockTypes(h) \/ Server!WriteTypes(h)
  BY <1>2 DEF Server!LockTypes, Server!WriteTypes
<1>3. CASE Server!ReadParams(h)
  <2>1. /\ UNCHANGED <<dev, closes, trs, cmds, results>>
        /\ spc' = [spc EXCEPT ![h] = "stream"]
        /\ \E v : par' = [par EXCEPT ![h] = v]
        /\ \E v : source' = [source EXCEPT ![h] = v]
        /\ raced' = raced \/ raced' = [raced EXCEPT ![h] = TRUE]
    BY <1>3 DEF Server!ReadParams
  <2> QED BY <2>1
<1>7. CASE Server!RaceNoticed(h)
  BY <1>7 DEF Server!RaceNoticed
<1>4. CASE Server!MakeStreamer(h) \/ Server!LookupType(h) \/ Server!Connect(h)
  BY <1>4 DEF Server!MakeStreamer, Server!LookupType, Server!Connect
<1>5. CASE Server!Transfer(h) \/ Server!Execute(h) \/ Server!Close(h)
  BY <1>5 DEF Server!Transfer, Server!Execute, Server!Close
<1>6. CASE Server!Reply(h) \/ Server!Recv(h)
  BY <1>6 DEF Server!Reply, Server!Recv
<1> QED
  BY <1>1, <1>2, <1>3, <1>4, <1>5, <1>6, <1>7 DEF Server!Handle

\* The types of what one handler has.
LEMMA OwnTypes ==
  ASSUME HandlerInv, NEW h \in Handlers
  PROVE  /\ cmds[h] \in Nat /\ closes[h] \in Nat /\ Len(results[h]) \in Nat
         /\ results[h] \in Seq([cmd : Nat, trace : Seq(Nat)])
         /\ cmds \in [Handlers -> Nat] /\ closes \in [Handlers -> Nat]
<1>1. results[h] \in Seq([cmd : Nat, trace : Seq(Nat)])
  BY DEF HandlerInv, HandlerTypes
<1>2. Len(results[h]) \in Nat
  BY ONLY <1>1
<1> QED
  BY <1>1, <1>2 DEF HandlerInv, HandlerTypes

\* Requests and the configuration stay what they are, and so does what they
\* may store.
LEMMA RequestsStay ==
  ASSUME NEW h \in Handlers, Server!Handle(h)
  PROVE  UNCHANGED <<call, conf, SetupStored>>
<1>1. call' = call /\ conf' = conf
  BY DEF Server!At, Server!Handle, Server!Start, Server!LockParams,
     Server!WriteParams, Server!LockTypes, Server!WriteTypes,
     Server!ReadParams, Server!RaceNoticed, Server!MakeStreamer,
     Server!LookupType, Server!Connect, Server!Transfer, Server!Execute,
     Server!Reply, Server!Recv, Server!Close
<1> QED
  BY <1>1 DEF SetupStored, Server!Kind

\* Every step of a handler keeps the types, and makes no trace but that of a
\* command.
LEMMA StepKeepsTypes ==
  ASSUME HandlerInv, NEW h \in Handlers, Server!Handle(h)
  PROVE  HandlerTypes'
<1> USE DEF HandlerInv, HandlerTypes, Server!At, Server!Goto,
      Server!mapVars, Server!resolveVars, Server!useVars, Places, Early, InUse
<1>1. CASE Server!Start(h)
  BY <1>1 DEF Server!Start
<1>2. CASE Server!LockParams(h)
  BY <1>2 DEF Server!LockParams
<1>3. CASE Server!WriteParams(h)
  BY <1>3 DEF Server!WriteParams
<1>4. CASE Server!LockTypes(h)
  BY <1>4 DEF Server!LockTypes
<1>5. CASE Server!WriteTypes(h)
  BY <1>5 DEF Server!WriteTypes
<1>6. CASE Server!ReadParams(h)
  BY <1>6 DEF Server!ReadParams
<1>7. CASE Server!RaceNoticed(h)
  BY <1>7 DEF Server!RaceNoticed
<1>8. CASE Server!MakeStreamer(h)
  BY <1>8 DEF Server!MakeStreamer
<1>9. CASE Server!LookupType(h)
  BY <1>9 DEF Server!LookupType
<1>10. CASE Server!Connect(h)
  BY <1>10 DEF Server!Connect
<1>11. CASE Server!Transfer(h)
  BY <1>11 DEF Server!Transfer
<1>12. CASE Server!Execute(h)
  <2>1. spc' \in [Handlers -> Places]
    <3>1. \/ spc' = [spc EXCEPT ![h] = "reply"]
          \/ spc' = [spc EXCEPT ![h] = "close"]
      BY <1>12, Zenon DEF Server!Execute
    <3>2. spc \in [Handlers -> Places]
      OBVIOUS
    <3> QED BY ONLY <3>1, <3>2 DEF Places, InUse
  <2> HIDE DEF Places
  <2>2. /\ UNCHANGED <<dev, closes, cmds, results, par, source, raced,
                       hostParams, call>>
        /\ DOMAIN trs' = DOMAIN trs
    BY <1>12 DEF Server!Execute
  <2> QED BY <2>1, <2>2
<1>13. CASE Server!Reply(h)
  <2>1. /\ trs[h][2] = <<cmds[h]>> /\ cmds[h] \in Nat
        /\ results[h] \in Seq([cmd : Nat, trace : Seq(Nat)])
    BY <1>13 DEF Server!Reply, ResultsInv
  <2>2. <<cmds[h]>> \in Seq(Nat)
    BY ONLY <2>1
  <2>3. Append(results[h], [cmd |-> cmds[h], trace |-> <<cmds[h]>>])
          \in Seq([cmd : Nat, trace : Seq(Nat)])
    BY ONLY <2>1, <2>2
  <2>4. results' \in [Handlers -> Seq([cmd : Nat, trace : Seq(Nat)])]
    <3>1. \/ UNCHANGED results
          \/ results' = [results EXCEPT ![h] =
               Append(@, [cmd |-> cmds[h], trace |-> <<cmds[h]>>])]
      BY <1>13, <2>1 DEF Server!Reply
    <3> QED BY <2>3, <3>1
  <2>5. spc' \in [Handlers -> Places]
    <3>1. \/ spc' = [spc EXCEPT ![h] = "recv"]
          \/ spc' = [spc EXCEPT ![h] = "close"]
      BY <1>13, Zenon DEF Server!Reply
    <3>2. spc \in [Handlers -> Places]
      OBVIOUS
    <3> QED BY ONLY <3>1, <3>2 DEF Places, InUse
  <2> QED BY <1>13, <2>4, <2>5 DEF Server!Reply
<1>14. CASE Server!Recv(h)
  <2>1. cmds' \in [Handlers -> Nat]
    <3>0. cmds[h] \in Nat /\ cmds \in [Handlers -> Nat]
      BY OwnTypes, Zenon
    <3>1. cmds[h] + 1 \in Nat /\ cmds \in [Handlers -> Nat]
      BY ONLY <3>0
    <3>2. cmds' = cmds \/ cmds' = [cmds EXCEPT ![h] = cmds[h] + 1]
      BY <1>14, Zenon DEF Server!Recv
    <3> QED BY ONLY <3>1, <3>2
  <2>2. spc' \in [Handlers -> Places]
    <3>1. \/ spc' = [spc EXCEPT ![h] = "exec"]
          \/ spc' = [spc EXCEPT ![h] = "close"]
      BY <1>14, Zenon DEF Server!Recv
    <3>2. spc \in [Handlers -> Places]
      OBVIOUS
    <3> QED BY ONLY <3>1, <3>2 DEF Places, InUse
  <2> QED BY <1>14, <2>1, <2>2 DEF Server!Recv
<1>15. CASE Server!Close(h)
  <2>1. closes' \in [Handlers -> Nat]
    <3>0. closes[h] \in Nat /\ closes \in [Handlers -> Nat]
      BY OwnTypes, Zenon
    <3>1. closes[h] + 1 \in Nat /\ closes \in [Handlers -> Nat]
      BY ONLY <3>0
    <3>2. closes' = [closes EXCEPT ![h] = closes[h] + 1]
      BY <1>15, Zenon DEF Server!Close
    <3> QED BY ONLY <3>1, <3>2
  <2>2. spc' \in [Handlers -> Places]
    BY <1>15 DEF Server!Close
  <2> QED BY <1>15, <2>1, <2>2 DEF Server!Close
<1> QED
  BY <1>1, <1>2, <1>3, <1>4, <1>5, <1>6, <1>7, <1>8, <1>9, <1>10,
     <1>11, <1>12, <1>13, <1>14, <1>15
  DEF Server!Handle

\* A handler that has opened its device goes on to close it, whichever way it
\* leaves.
LEMMA StepKeepsDevice ==
  ASSUME HandlerInv, NEW h \in Handlers, Server!Handle(h)
  PROVE  DeviceInv(h)'
<1> USE DEF HandlerInv, HandlerTypes, Server!At, Server!Goto,
      Server!mapVars, Server!resolveVars, Server!useVars, DeviceInv,
      ResultsInv, Early, InUse, Server!Kind
<1>1. CASE Server!Start(h)
  BY <1>1 DEF Server!Start
<1>2. CASE Server!LockParams(h)
  BY <1>2 DEF Server!LockParams
<1>3. CASE Server!WriteParams(h)
  BY <1>3 DEF Server!WriteParams
<1>4. CASE Server!LockTypes(h)
  BY <1>4 DEF Server!LockTypes
<1>5. CASE Server!WriteTypes(h)
  BY <1>5 DEF Server!WriteTypes
<1>6. CASE Server!ReadParams(h)
  BY <1>6 DEF Server!ReadParams
<1>7. CASE Server!RaceNoticed(h)
  BY <1>7 DEF Server!RaceNoticed
<1>8. CASE Server!MakeStreamer(h)
  BY <1>8 DEF Server!MakeStreamer
<1>9. CASE Server!LookupType(h)
  <2>1. /\ \/ dev'[h] = "made" /\ spc'[h] = "connect"
           \/ dev'[h] = dev[h] /\ spc'[h] = "done"
        /\ spc[h] = "lookup"
        /\ UNCHANGED <<closes, cmds, call>>
    BY <1>9 DEF Server!LookupType
  <2>2. DeviceInv(h)
    BY Zenon DEF HandlerInv
  <2> QED BY ONLY <2>1, <2>2 DEF DeviceInv, Early, InUse, Server!Kind
<1>10. CASE Server!Connect(h)
  <2>1. \/ /\ dev'[h] = "open"
           /\ spc'[h] = IF cmds[h] > 0 THEN "exec" ELSE "transfer"
        \/ /\ dev'[h] = "failed"
           /\ spc'[h] = IF cmds[h] > 0 THEN "done" ELSE "close"
    BY <1>10 DEF Server!Connect
  <2>2. /\ UNCHANGED <<closes, cmds, results, call>>
        /\ spc[h] = "connect"
    BY <1>10 DEF Server!Connect
  <2>3. cmds[h] \in Nat
    BY OwnTypes, Zenon
  <2>4. DeviceInv(h) /\ ResultsInv(h)
    BY Zenon DEF HandlerInv
  <2>5. \/ dev'[h] = "open" /\ spc'[h] \in {"exec", "transfer"}
        \/ dev'[h] = "failed" /\ spc'[h] = "done" /\ cmds[h] > 0
        \/ dev'[h] = "failed" /\ spc'[h] = "close"
    BY ONLY <2>1, <2>3
  <2>6. /\ closes'[h] = 0
        /\ call'[h].kind \in {"download", "upload"} => cmds'[h] = 0
        /\ call'[h].kind \in {"download", "upload"} => ~(cmds[h] > 0)
    <3>1. /\ closes[h] = 0
          /\ call[h].kind \in {"download", "upload"} => cmds[h] = 0
      BY ONLY <2>2, <2>4 DEF DeviceInv, Server!Kind
    <3> QED BY ONLY <2>2, <3>1
  <2> QED BY ONLY <2>5, <2>6 DEF DeviceInv, Early, InUse, Server!Kind
<1>11. CASE Server!Transfer(h)
  BY <1>11 DEF Server!Transfer
<1>12. CASE Server!Execute(h)
  BY <1>12 DEF Server!Execute
<1>13. CASE Server!Reply(h)
  BY <1>13 DEF Server!Reply
<1>14. CASE Server!Recv(h)
  BY <1>14 DEF Server!Recv
<1>15. CASE Server!Close(h)
  <2>1. /\ closes'[h] = closes[h] + 1 /\ dev'[h] = "closed"
        /\ spc'[h] = "done" /\ spc[h] = "close"
        /\ UNCHANGED <<cmds, call>>
    BY <1>15 DEF Server!Close
  <2>2. closes[h] = 0 /\ (Server!Kind(h) \in {"download", "upload"} =>
                            cmds[h] = 0)
    BY <2>1
  <2> QED BY ONLY <2>1, <2>2 DEF DeviceInv, Early, InUse, Server!Kind
<1> QED
  BY <1>1, <1>2, <1>3, <1>4, <1>5, <1>6, <1>7, <1>8, <1>9, <1>10,
     <1>11, <1>12, <1>13, <1>14, <1>15
  DEF Server!Handle

\* A result is appended for the command under way, and the next command
\* comes after it.
LEMMA StepKeepsResults ==
  ASSUME HandlerInv, NEW h \in Handlers, Server!Handle(h)
  PROVE  ResultsInv(h)'
<1> USE DEF HandlerInv, HandlerTypes, Server!At, Server!Goto,
      Server!mapVars, Server!resolveVars, Server!useVars, ResultsInv,
      DeviceInv, Early, InUse, Server!Kind
<1>1. CASE Server!Start(h)
  <2>1. /\ cmds'[h] \in {0, 1} /\ results' = results /\ spc[h] = "start"
        /\ spc'[h] \in Early \cup {"done"}
    BY <1>1 DEF Server!Start
  <2>2. ResultsInv(h)
    BY Zenon DEF HandlerInv
  <2>3. Len(results'[h]) = 0
    BY ONLY <2>1, <2>2 DEF ResultsInv, Early
  <2>4. spc'[h] \notin {"exec", "reply", "recv"} /\ cmds'[h] <= 1
    <3>1. cmds'[h] <= 1
      <4>1. cmds'[h] \in {0, 1}
        BY ONLY <2>1, Zenon
      <4> QED BY ONLY <4>1
    <3>2. spc'[h] \notin {"exec", "reply", "recv"}
      BY ONLY <2>1 DEF Early
    <3> QED BY ONLY <3>1, <3>2
  <2>5. \A i \in 1..Len(results'[h]) :
          results'[h][i] = [cmd |-> i, trace |-> <<i>>]
    BY ONLY <2>3
  <2> QED BY ONLY <2>3, <2>4, <2>5 DEF ResultsInv
<1>2. CASE Server!LockParams(h)
  BY <1>2 DEF Server!LockParams
<1>3. CASE Server!WriteParams(h)
  BY <1>3 DEF Server!WriteParams
<1>4. CASE Server!LockTypes(h)
  BY <1>4 DEF Server!LockTypes
<1>5. CASE Server!WriteTypes(h)
  BY <1>5 DEF Server!WriteTypes
<1>6. CASE Server!ReadParams(h)
  BY <1>6 DEF Server!ReadParams
<1>7. CASE Server!RaceNoticed(h)
  BY <1>7 DEF Server!RaceNoticed
<1>8. CASE Server!MakeStreamer(h)
  BY <1>8 DEF Server!MakeStreamer
<1>9. CASE Server!LookupType(h)
  BY <1>9 DEF Server!LookupType
<1>10. CASE Server!Connect(h)
  <2>1. \/ /\ dev'[h] = "open"
           /\ spc'[h] = IF cmds[h] > 0 THEN "exec" ELSE "transfer"
        \/ /\ dev'[h] = "failed"
           /\ spc'[h] = IF cmds[h] > 0 THEN "done" ELSE "close"
    BY <1>10 DEF Server!Connect
  <2>2. /\ UNCHANGED <<closes, cmds, results, call>>
        /\ spc[h] = "connect"
    BY <1>10 DEF Server!Connect
  <2>3. cmds[h] \in Nat
    BY OwnTypes, Zenon
  <2>4. DeviceInv(h) /\ ResultsInv(h)
    BY Zenon DEF HandlerInv
  <2>5. \/ dev'[h] = "open" /\ spc'[h] \in {"exec", "transfer"}
        \/ dev'[h] = "failed" /\ spc'[h] = "done" /\ cmds[h] > 0
        \/ dev'[h] = "failed" /\ spc'[h] = "close"
    BY ONLY <2>1, <2>3
  <2>6. /\ Len(results'[h]) = 0
        /\ spc'[h] = "exec" => cmds'[h] = 1
    <3>1. Len(results[h]) = 0 /\ cmds[h] <= 1
      BY ONLY <2>2, <2>4 DEF ResultsInv
    <3>2. spc'[h] = "exec" => cmds[h] > 0
      BY ONLY <2>1
    <3> QED BY ONLY <2>2, <2>3, <3>1, <3>2
  <2>7. spc'[h] \notin Early \cup {"connect", "reply", "recv"}
    BY ONLY <2>5 DEF Early
  <2>8. spc'[h] \in {"exec", "reply"} => Len(results'[h]) + 1 = cmds'[h]
    <3>1. spc'[h] # "reply"
      BY ONLY <2>7
    <3> QED BY ONLY <2>6, <3>1
  <2>9. \A i \in 1..Len(results'[h]) :
          results'[h][i] = [cmd |-> i, trace |-> <<i>>]
    BY ONLY <2>6
  <2> QED BY ONLY <2>7, <2>8, <2>9 DEF ResultsInv
<1>11. CASE Server!Transfer(h)
  BY <1>11 DEF Server!Transfer
<1>12. CASE Server!Execute(h)
  BY <1>12 DEF Server!Execute
<1>13. CASE Server!Reply(h)
  <2>1. /\ spc[h] = "reply" /\ spc'[h] \in {"recv", "close"}
        /\ cmds' = cmds /\ Len(results[h]) + 1 = cmds[h]
        /\ trs[h][2] = <<cmds[h]>>
    BY <1>13 DEF Server!Reply
  <2>2. CASE results' = results /\ spc'[h] = "close"
    BY <2>1, <2>2
  <2>3. CASE /\ results' = [results EXCEPT ![h] =
                Append(@, [cmd |-> cmds[h], trace |-> trs[h][2]])]
             /\ spc'[h] = "recv"
    <3>1. results'[h] =
            Append(results[h], [cmd |-> cmds[h], trace |-> <<cmds[h]>>])
      BY <2>1, <2>3
    <3>2. /\ Len(results'[h]) = cmds[h]
          /\ results'[h][cmds[h]] =
               [cmd |-> cmds[h], trace |-> <<cmds[h]>>]
          /\ \A i \in 1..Len(results[h]) : results'[h][i] = results[h][i]
      <4> DEFINE r == results[h]
                 x == [cmd |-> cmds[h], trace |-> <<cmds[h]>>]
      <4>1. r \in Seq([cmd : Nat, trace : Seq(Nat)]) /\ cmds[h] \in Nat
        OBVIOUS
      <4>2. x \in [cmd : Nat, trace : Seq(Nat)]
        BY ONLY <4>1
      <4>3. Len(r) + 1 = cmds[h] /\ results'[h] = Append(r, x)
        BY <2>1, <3>1
      <4> HIDE DEF r, x
      <4>4. /\ Len(results'[h]) = cmds[h] /\ results'[h][cmds[h]] = x
            /\ \A i \in 1..Len(r) : results'[h][i] = r[i]
        BY ONLY <4>1, <4>2, <4>3
      <4> QED BY ONLY <4>4 DEF r, x
    <3>3. \A i \in 1..Len(results'[h]) :
            i = cmds[h] \/ i \in 1..Len(results[h])
      <4>1. Len(results[h]) \in Nat /\ cmds[h] \in Nat
        BY OwnTypes, Zenon
      <4> QED BY ONLY <4>1, <2>1, <3>2
    <3>4. \A i \in 1..Len(results'[h]) :
            results'[h][i] = [cmd |-> i, trace |-> <<i>>]
      BY <3>2, <3>3
    <3> QED BY <2>1, <2>3, <3>2, <3>4
  <2> QED BY <1>13, <2>2, <2>3 DEF Server!Reply
<1>14. CASE Server!Recv(h)
  <2>1. /\ spc[h] = "recv" /\ results' = results
        /\ \/ cmds'[h] = cmds[h] + 1 /\ spc'[h] = "exec"
           \/ cmds' = cmds /\ spc'[h] = "close"
    BY <1>14 DEF Server!Recv
  <2> QED BY <2>1
<1>15. CASE Server!Close(h)
  BY <1>15 DEF Server!Close
<1> QED
  BY <1>1, <1>2, <1>3, <1>4, <1>5, <1>6, <1>7, <1>8, <1>9, <1>10,
     <1>11, <1>12, <1>13, <1>14, <1>15
  DEF Server!Handle

\* Parameters are read once, from the map as it then is or torn by a race.
LEMMA StepKeepsResolved ==
  ASSUME HandlerInv, NEW h \in Handlers, Server!Handle(h)
  PROVE  ResolveInv(h)'
<1> USE DEF HandlerInv, HandlerTypes, Server!At, Server!Goto,
      Server!mapVars, Server!resolveVars, Server!useVars, Server!Kind
<1>1. UNCHANGED <<call, conf, SetupStored>>
  BY RequestsStay
<1>2. CASE Server!ReadParams(h)
  <2>1. /\ spc'[h] = "stream"
        /\ par'[h] =
             Server!Resolve(call[h].host, call[h].given, source'[h])
    BY <1>2 DEF Server!ReadParams
  <2>2. raced'[h] \/ source'[h] \in SetupStored \cup {NoParams}
    <3>1. hostParams[call[h].host] \in SetupStored \cup {NoParams}
      BY DEF StoreInv, Server!Hosts
    <3>2. \/ source'[h] = hostParams[call[h].host]
          \/ raced' = [raced EXCEPT ![h] = TRUE]
      BY <1>2 DEF Server!ReadParams
    <3> QED BY <3>1, <3>2
  <2>3. PICK v : v = source'[h]
    OBVIOUS
  <2>4. Server!Resolve(call[h].host, call[h].given, v) =
          Server!Resolve(call[h].host, call[h].given, v)'
    BY ONLY <1>1, <2>3 DEF Server!Resolve, Server!Ssh, Server!Proxy
  <2> QED BY ONLY <1>1, <2>1, <2>2, <2>4, <2>3 DEF ResolveInv
<1>3. CASE ~Server!ReadParams(h)
  <2>1. UNCHANGED <<par, source, raced>>
    BY <1>3 DEF Server!Handle, Server!Start, Server!LockParams,
      Server!WriteParams, Server!LockTypes, Server!WriteTypes,
      Server!RaceNoticed, Server!MakeStreamer, Server!LookupType,
      Server!Connect, Server!Transfer, Server!Execute, Server!Reply,
      Server!Recv, Server!Close
  <2>2. spc'[h] \in {"lock params", "write params"} =>
          \/ spc[h] \in {"lock params", "write params"}
          \/ Server!Kind(h) = "setup"
    BY <1>3 DEF Server!Handle, Server!Start, Server!LockParams,
      Server!WriteParams, Server!LockTypes, Server!WriteTypes,
      Server!RaceNoticed, Server!MakeStreamer, Server!LookupType,
      Server!Connect, Server!Transfer, Server!Execute, Server!Reply,
      Server!Recv, Server!Close
  <2>3. ResolveInv(h)
    BY Zenon DEF HandlerInv
  <2>4. Server!Resolve(call[h].host, call[h].given, source[h])' =
          Server!Resolve(call[h].host, call[h].given, source[h])
    BY ONLY <1>1, <2>1 DEF Server!Resolve, Server!Ssh, Server!Proxy
  <2> QED BY ONLY <1>1, <2>1, <2>2, <2>3, <2>4 DEF ResolveInv, Server!Kind
<1> QED BY <1>2, <1>3

\* Only SetupHostParams stores parameters.
LEMMA StepKeepsStored ==
  ASSUME HandlerInv, NEW h \in Handlers, Server!Handle(h)
  PROVE  StoreInv'
<1> USE DEF Server!At, Server!mapVars
<1>1. UNCHANGED <<call, conf, SetupStored>>
  BY RequestsStay
<1>2. CASE Server!WriteParams(h)
  <2>1. Server!Stored(call[h].given) \in SetupStored
    BY <1>2 DEF Server!WriteParams, HandlerInv, ResolveInv, SetupStored
  <2>2. hostParams' = [hostParams EXCEPT ![call[h].host] =
                         Server!Stored(call[h].given)]
    BY <1>2 DEF Server!WriteParams
  <2>3. StoreInv /\ DOMAIN hostParams = Server!Hosts
    BY DEF HandlerInv, HandlerTypes
  <2> QED BY ONLY <1>1, <2>1, <2>2, <2>3 DEF StoreInv
<1>3. CASE ~Server!WriteParams(h)
  <2>1. hostParams' = hostParams
    BY <1>3 DEF Server!Handle, Server!Start, Server!LockParams,
      Server!LockTypes, Server!WriteTypes, Server!ReadParams,
      Server!RaceNoticed, Server!MakeStreamer, Server!LookupType,
      Server!Connect, Server!Transfer, Server!Execute, Server!Reply,
      Server!Recv, Server!Close
  <2>2. StoreInv
    BY DEF HandlerInv
  <2> QED BY ONLY <1>1, <2>1, <2>2 DEF StoreInv
<1> QED BY <1>2, <1>3

\* The handlers share the maps and nothing else.
LEMMA HandleKeepsHandlerInv ==
  ASSUME HandlerInv, NEW h \in Handlers, Server!Handle(h)
  PROVE  HandlerInv'
<1>1. HandlerTypes' /\ StoreInv'
  BY StepKeepsTypes, StepKeepsStored
<1>2. DeviceInv(h)' /\ ResultsInv(h)' /\ ResolveInv(h)'
  BY StepKeepsDevice, StepKeepsResults, StepKeepsResolved
<1>3. ASSUME NEW w \in Handlers, w # h
      PROVE  DeviceInv(w)' /\ ResultsInv(w)' /\ ResolveInv(w)'
  <2>1. OwnVars(w)' = OwnVars(w)
    BY <1>3, HandlersApart
  <2>2. UNCHANGED <<call, conf, SetupStored>>
    BY RequestsStay
  <2>3. DeviceInv(w) /\ ResultsInv(w) /\ ResolveInv(w)
    BY DEF HandlerInv
  <2>4. Server!Resolve(call[w].host, call[w].given, source[w])' =
          Server!Resolve(call[w].host, call[w].given, source[w])
    BY ONLY <2>1, <2>2
    DEF OwnVars, Server!Resolve, Server!Ssh, Server!Proxy
  <2>5. DeviceInv(w)'
    BY ONLY <2>1, <2>2, <2>3 DEF OwnVars, DeviceInv, Server!Kind
  <2>6. ResultsInv(w)'
    BY ONLY <2>1, <2>3 DEF OwnVars, ResultsInv
  <2>7. ResolveInv(w)'
    BY ONLY <2>1, <2>2, <2>3, <2>4 DEF OwnVars, ResolveInv, Server!Kind
  <2> QED BY <2>5, <2>6, <2>7
<1> QED BY <1>1, <1>2, <1>3 DEF HandlerInv

\* The other parts of the process touch nothing of a handler.
LEMMA StepKeepsHandlerInv == HandlerInv /\ [MCNext]_allVars => HandlerInv'
<1> SUFFICES ASSUME HandlerInv, [MCNext]_allVars PROVE HandlerInv'
  OBVIOUS
<1>1. Server!Next \/ UNCHANGED handlerVars
  BY DEF MCNext, InMux, InMain, InServer, InRing, allVars
<1>2. CASE Server!Next
  BY <1>2, HandleKeepsHandlerInv DEF Server!Next
<1>3. CASE UNCHANGED handlerVars
  <2>1. UNCHANGED <<conf, call, hostParams, spc, par, source, raced, dev,
                    closes, trs, cmds, results>>
    BY <1>3 DEF handlerVars
  <2>2. UNCHANGED SetupStored
    BY <2>1 DEF SetupStored, Server!Kind
  <2>3. HandlerTypes' /\ StoreInv'
    BY ONLY HandlerInv, <2>1, <2>2 DEF HandlerInv, HandlerTypes, StoreInv
  <2>4. ASSUME NEW h \in Handlers
        PROVE  DeviceInv(h)' /\ ResultsInv(h)' /\ ResolveInv(h)'
    <3>1. DeviceInv(h) /\ ResultsInv(h) /\ ResolveInv(h)
      BY DEF HandlerInv
    <3>2. Server!Resolve(call[h].host, call[h].given, source[h])' =
            Server!Resolve(call[h].host, call[h].given, source[h])
      BY ONLY <2>1 DEF Server!Resolve, Server!Ssh, Server!Proxy
    <3> QED BY ONLY <2>1, <2>2, <3>1, <3>2
        DEF DeviceInv, ResultsInv, ResolveInv, Server!Kind
  <2> QED BY <2>3, <2>4 DEF HandlerInv
<1> QED BY <1>1, <1>2, <1>3

\* The invariant of the handlers.
LEMMA HandlerInvAlways == MCSpec => []HandlerInv
<1>1. MCInit => HandlerInv
  BY InitHandlerInv DEF MCInit, IdleHandlers
<1> QED BY <1>1, StepKeepsHandlerInv, PTL DEF MCSpec

\* For any handlers and any number of commands, in every interleaving and
\* however a handler ends: a device that was connected is closed, once, a
\* transfer closes also one that it could not connect, and the results of a
\* chat are those of its commands, in order, each with the trace of its own
\* command alone.
THEOREM HandlersAreClean == MCSpec => []HandlersClean
<1>1. HandlerInv => HandlersClean
  BY DEF HandlerInv, DeviceInv, ResultsInv, HandlersClean,
         Server!HandlersClean, Server!Kind
<1> QED BY <1>1, HandlerInvAlways, PTL

\* What a handler works with, from what was resolved.
LEMMA ResolvedFromOne == HandlerInv => Server!OneSource
<1> SUFFICES ASSUME HandlerInv, NEW h \in Handlers,
                    par[h] # NoParams, ~raced[h],
                    (IF call[h].given # NoParams THEN call[h].given
                     ELSE source[h]) # NoParams
             PROVE  LET g == call[h].given
                        from == IF g # NoParams THEN g ELSE source[h]
                        real == IF conf.jump THEN ""
                                ELSE Server!Ssh(call[h].host).name
                    IN /\ par[h].device = from.device
                       /\ par[h].port \in {from.port,
                                           Server!Ssh(call[h].host).port}
                       /\ par[h].port = 0 => from.port = 0
                       /\ par[h].addr = IF real # "" THEN real
                                        ELSE IF from.ip # "" THEN from.ip
                                        ELSE call[h].host
                       /\ g = NoParams => from \in SetupStored
  BY Zenon DEF Server!OneSource, SetupStored
<1>1. /\ par[h] = Server!Resolve(call[h].host, call[h].given, source[h])
      /\ source[h] \in SetupStored \cup {NoParams}
  BY DEF HandlerInv, ResolveInv
<1>2. call[h].given = NoParams => source[h] \in SetupStored
  BY <1>1
<1> DEFINE host == call[h].host
           g == call[h].given
           local == source[h]
           from == IF g # NoParams THEN g ELSE local
<1>3. /\ par[h] = Server!Resolve(host, g, local)
      /\ from # NoParams
  BY <1>1
<1> HIDE DEF host, g, local
<1> DEFINE base == IF g # NoParams THEN g
                   ELSE IF local # NoParams THEN local ELSE Server!NotGiven
           port == IF g # NoParams /\ g.port # 0 THEN g.port
                   ELSE Server!Ssh(host).port
<1>4. base = from
  BY ONLY <1>3
<1>5. port \in {from.port, Server!Ssh(host).port}
  OBVIOUS
<1>6. /\ par[h].device = base.device
      /\ par[h].port = IF port # 0 THEN port ELSE base.port
      /\ par[h].addr = IF Server!Proxy(host).name # ""
                       THEN Server!Proxy(host).name
                       ELSE IF base.ip # "" THEN base.ip ELSE host
  <2> DEFINE q == IF port # 0 THEN port ELSE base.port
             a == IF Server!Proxy(host).name # ""
                  THEN Server!Proxy(host).name
                  ELSE IF base.ip # "" THEN base.ip ELSE host
             Fields(c, t, j, k) ==
               [port |-> q, device |-> base.device, creds |-> c, addr |-> a,
                type |-> t, jump |-> j, ctl |-> k]
  <2>1. Server!Resolve(host, g, local) =
          Fields(IF base.creds # "" THEN base.creds ELSE "app",
                 IF base.type = "" THEN "ssh" ELSE base.type,
                 Server!Proxy(host).jump, Server!Proxy(host).ctl)
    BY ONLY Zenon DEF Server!Resolve
  <2> HIDE DEF q, a, base
  <2>2. \A c, t, j, k : /\ Fields(c, t, j, k).device = base.device
                        /\ Fields(c, t, j, k).port = q
                        /\ Fields(c, t, j, k).addr = a
    BY ONLY SMT
  <2> HIDE DEF Fields
  <2>3. \E c, t, j, k : par[h] = Fields(c, t, j, k)
    <3>1. \E c, t, j, k : Server!Resolve(host, g, local) = Fields(c, t, j, k)
      BY ONLY <2>1, Zenon
    <3> QED BY ONLY <1>3, <3>1, Zenon
  <2>4. PICK c, t, j, k : par[h] = Fields(c, t, j, k)
    BY ONLY <2>3, Zenon
  <2>5. par[h].device = base.device /\ par[h].port = q /\ par[h].addr = a
    BY ONLY <2>2, <2>4, Zenon
  <2> QED BY ONLY <2>5, Zenon DEF q, a
<1>7. (IF conf.jump THEN "" ELSE Server!Ssh(host).name) =
        Server!Proxy(host).name
  BY DEF Server!Proxy, Server!NoSsh
<1> HIDE DEF from, base, port
<1>8. /\ par[h].device = from.device
      /\ par[h].port \in {from.port, Server!Ssh(host).port}
      /\ par[h].port = 0 => from.port = 0
  BY ONLY <1>4, <1>5, <1>6
<1>9. par[h].addr =
        LET real == IF conf.jump THEN "" ELSE Server!Ssh(host).name
        IN  IF real # "" THEN real ELSE IF from.ip # "" THEN from.ip ELSE host
  BY ONLY <1>4, <1>6, <1>7
<1> QED BY <1>2, <1>8, <1>9 DEF host, g, local, from

\* AddDevice only adds.
LEMMA TypesOnlyGrow ==
  ASSUME NEW h \in Handlers, Server!Handle(h)
  PROVE  Server!TypesStay
<1> USE DEF Server!At, Server!mapVars
<1>1. CASE Server!WriteTypes(h)
  BY <1>1 DEF Server!WriteTypes, Server!Defined, Server!TypesStay
<1>2. CASE ~Server!WriteTypes(h)
  <2>1. types' = types
    BY <1>2 DEF Server!Handle, Server!Start, Server!LockParams,
      Server!WriteParams, Server!LockTypes, Server!ReadParams,
      Server!RaceNoticed, Server!MakeStreamer, Server!LookupType,
      Server!Connect, Server!Transfer, Server!Execute, Server!Reply,
      Server!Recv, Server!Close
  <2> QED BY ONLY <2>1 DEF Server!TypesStay
<1> QED BY <1>1, <1>2

\* In every interleaving of calls, of SetupHostParams and of AddDevice: a
\* device is addressed by the parameters of the request, else by those of one
\* single SetupHostParams, except where that call was racing, with what
\* ssh_config says of the host above both, and no device type is redefined.
THEOREM OneSourceAlways == MCSpec => OneSource
<1>1. HandlerInv /\ HandlerInv' /\ [MCNext]_allVars =>
        [Server!OneSource' /\ Server!TypesStay]_handlerVars
  <2> SUFFICES ASSUME HandlerInv', [MCNext]_allVars, handlerVars' # handlerVars
               PROVE  Server!OneSource' /\ Server!TypesStay
    BY Zenon
  <2>1. Server!Next
    BY DEF MCNext, InMux, InMain, InServer, InRing, allVars
  <2>2. Server!TypesStay
    BY <2>1, TypesOnlyGrow DEF Server!Next
  <2>3. (HandlerInv => Server!OneSource)'
    BY ResolvedFromOne, PTL
  <2> QED BY <2>2, <2>3
<1> QED BY <1>1, HandlerInvAlways, PTL DEF MCSpec, OneSource

---------------------------------------------------------------------------
(* The trace: q is the array of items, l the slot that is overwritten next *)
(* when there is a limit, h everything that was added.                     *)

TraceItems == [op : Ring!Ops, at : Nat, data : Seq(Nat)]
Datas(q) == [i \in 1..Len(q) |-> q[i].data]
Numbers(m) == [n \in 1..m |-> n]

RingShape(lim, q, l, h) ==
  /\ q \in Seq(TraceItems) /\ l \in Nat /\ h \in Seq(Ring!Ops)
  /\ lim > 0 => Len(q) <= lim
  /\ l = 0 \/ (l < lim /\ Len(q) = lim)

\* The data of an item is of one kind, and was added in this order.
ItemHolds(h, it) ==
  /\ Len(it.data) > 0
  /\ \A k \in 1..Len(it.data) : /\ it.data[k] \in 1..Len(h)
                                /\ h[it.data[k]] = it.op
  /\ \A k, m \in 1..Len(it.data) : k < m => it.data[k] < it.data[m]

\* The oldest slot is l + 1.
Older(l, i, j) == IF i > l THEN j > l => i < j ELSE j <= l /\ i < j

AllHold(q, h) == \A i \in 1..Len(q) : ItemHolds(h, q[i])
Apart(q) ==
  \A i, j \in 1..Len(q) :
    i # j => \A k \in 1..Len(q[i].data), m \in 1..Len(q[j].data) :
               q[i].data[k] # q[j].data[m]
InOrder(q, l) ==
  \A i, j \in 1..Len(q) :
    i # j /\ Older(l, i, j) => q[i].data[1] < q[j].data[1]
HasNewest(q, h) ==
  Len(h) > 0 => \E i \in 1..Len(q) : \E k \in 1..Len(q[i].data) :
                  q[i].data[k] = Len(h)
ItemsHold(q, l, h) ==
  AllHold(q, h) /\ Apart(q) /\ InOrder(q, l) /\ HasNewest(q, h)

\* A trace that never was full holds all that was added.
HoldsAll(lim, q, l, h) ==
  l = 0 /\ (lim = 0 \/ Len(q) < lim) =>
    FlattenSeq(Datas(q)) = Numbers(Len(h))

RingInv(lim, q, l, h) ==
  RingShape(lim, q, l, h) /\ ItemsHold(q, l, h) /\ HoldsAll(lim, q, l, h)

\* One more is added.
LEMMA OneMore ==
  ASSUME NEW h \in Seq(Ring!Ops), NEW o \in Ring!Ops
  PROVE  /\ Append(h, o) \in Seq(Ring!Ops) /\ Len(h) \in Nat
         /\ Len(Append(h, o)) = Len(h) + 1
         /\ \A n \in 1..Len(h) : Append(h, o)[n] = h[n]
         /\ Append(h, o)[Len(h) + 1] = o
         /\ Append(Numbers(Len(h)), Len(h) + 1) = Numbers(Len(h) + 1)
<1>1. /\ Append(h, o) \in Seq(Ring!Ops) /\ Len(h) \in Nat
      /\ Len(Append(h, o)) = Len(h) + 1
      /\ \A n \in 1..Len(h) : Append(h, o)[n] = h[n]
      /\ Append(h, o)[Len(h) + 1] = o
  BY AppendProperties, LenProperties
<1> DEFINE m == Len(h)
<1>2. m \in Nat
  BY <1>1
<1> HIDE DEF m
<1>3. Numbers(m) \in Seq(Nat) /\ Len(Numbers(m)) = m
      /\ Numbers(m + 1) \in Seq(Nat) /\ Len(Numbers(m + 1)) = m + 1
  BY <1>2 DEF Numbers
<1>4. /\ Append(Numbers(m), m + 1) \in Seq(Nat)
      /\ Len(Append(Numbers(m), m + 1)) = m + 1
      /\ \A i \in 1..m : Append(Numbers(m), m + 1)[i] = Numbers(m)[i]
      /\ Append(Numbers(m), m + 1)[m + 1] = m + 1
  BY <1>2, <1>3, AppendProperties
<1>5. \A i \in 1..(m + 1) : Append(Numbers(m), m + 1)[i] = Numbers(m + 1)[i]
  <2> TAKE i \in 1..(m + 1)
  <2>1. CASE i = m + 1
    BY <1>2, <1>4, <2>1 DEF Numbers
  <2>2. CASE i \in 1..m
    BY <1>2, <1>4, <2>2 DEF Numbers
  <2>3. i = m + 1 \/ i \in 1..m
    BY <1>2
  <2> QED BY <2>1, <2>2, <2>3
<1>6. Append(Numbers(m), m + 1) = Numbers(m + 1)
  BY <1>3, <1>4, <1>5, SeqEqual
<1> QED BY <1>1, <1>6 DEF m

\* What an item holds it still holds then.
LEMMA HoldsOn ==
  ASSUME NEW h \in Seq(Ring!Ops), NEW o \in Ring!Ops, NEW it \in TraceItems,
         ItemHolds(h, it)
  PROVE  ItemHolds(Append(h, o), it)
<1>1. \A k \in 1..Len(it.data) : it.data[k] \in 1..(Len(h) + 1)
  BY OneMore DEF ItemHolds
<1>2. \A k \in 1..Len(it.data) : Append(h, o)[it.data[k]] = it.op
  BY OneMore DEF ItemHolds
<1> QED BY <1>1, <1>2, OneMore DEF ItemHolds

\* The new one is merged into an item of its kind.
LEMMA HoldsMerged ==
  ASSUME NEW h \in Seq(Ring!Ops), NEW it \in TraceItems, ItemHolds(h, it),
         NEW new \in TraceItems, new.op = it.op,
         new.data = Append(it.data, Len(h) + 1)
  PROVE  /\ ItemHolds(Append(h, it.op), new)
         /\ Len(new.data) = Len(it.data) + 1 /\ new.data[1] = it.data[1]
         /\ \A k \in 1..Len(it.data) : new.data[k] = it.data[k]
         /\ new.data[Len(new.data)] = Len(h) + 1
<1> DEFINE d == new.data
           e == it.data
           n == Len(h)
           g == Append(h, it.op)
<1>1. /\ e \in Seq(Nat) /\ it.op \in Ring!Ops /\ Len(e) \in Nat \ {0}
  BY LenProperties DEF TraceItems, ItemHolds
<1>2. n \in Nat /\ n + 1 \in Nat
  BY OneMore, <1>1
<1>3. /\ d \in Seq(Nat) /\ Len(d) = Len(e) + 1
      /\ \A k \in 1..Len(e) : d[k] = e[k]
      /\ d[Len(e) + 1] = n + 1
  BY <1>1, <1>2, AppendProperties
<1>4. /\ \A k \in 1..Len(e) : e[k] \in 1..n /\ h[e[k]] = new.op
      /\ \A k, m \in 1..Len(e) : k < m => e[k] < e[m]
  BY DEF ItemHolds
<1>5. /\ Len(g) = n + 1 /\ g[n + 1] = new.op
      /\ \A k \in 1..n : g[k] = h[k]
  BY <1>1, OneMore
<1>6. d = new.data /\ e = it.data /\ n = Len(h) /\ g = Append(h, it.op)
  OBVIOUS
<1> HIDE DEF d, e, n, g
<1>7. \A k \in 1..Len(d) : k \in 1..Len(e) \/ k = Len(e) + 1
  BY ONLY <1>1, <1>3
<1>8. \A k \in 1..Len(d) : d[k] \in 1..(n + 1) /\ g[d[k]] = new.op
  <2> TAKE k \in 1..Len(d)
  <2>1. CASE k \in 1..Len(e)
    <3>1. d[k] \in 1..n /\ h[d[k]] = new.op
      BY ONLY <1>3, <1>4, <2>1
    <3> QED BY ONLY <1>2, <1>5, <3>1
  <2>2. CASE k = Len(e) + 1
    BY ONLY <1>2, <1>3, <1>5, <2>2
  <2> QED BY <1>7, <2>1, <2>2
<1>9. \A k, m \in 1..Len(d) : k < m => d[k] < d[m]
  <2> SUFFICES ASSUME NEW k \in 1..Len(d), NEW m \in 1..Len(d), k < m
               PROVE  d[k] < d[m]
    OBVIOUS
  <2>1. k \in 1..Len(e)
    BY ONLY <1>1, <1>3, k \in 1..Len(d), m \in 1..Len(d), k < m
  <2>2. d[k] = e[k] /\ e[k] \in 1..n
    BY ONLY <1>3, <1>4, <2>1
  <2>3. CASE m \in 1..Len(e)
    BY ONLY <1>3, <1>4, <2>1, <2>3, k < m
  <2>4. CASE m = Len(e) + 1
    BY ONLY <1>2, <1>3, <2>2, <2>4
  <2> QED BY <1>7, <2>3, <2>4
<1>10. ItemHolds(g, new)
  <2>1. Len(d) > 0
    BY ONLY <1>1, <1>3
  <2> QED BY <1>5, <1>8, <1>9, <2>1 DEF ItemHolds, d
<1>11. d[1] = e[1] /\ d[Len(d)] = n + 1
  BY ONLY <1>1, <1>3
<1> QED BY <1>3, <1>10, <1>11 DEF d, e, n, g

\* An item of its own.
LEMMA HoldsNew ==
  ASSUME NEW h \in Seq(Ring!Ops), NEW o \in Ring!Ops, NEW at \in Nat,
         NEW it, it = [op |-> o, at |-> at, data |-> <<Len(h) + 1>>]
  PROVE  /\ it \in TraceItems /\ ItemHolds(Append(h, o), it)
         /\ it.data = <<Len(h) + 1>> /\ Len(it.data) = 1
         /\ it.data[1] = Len(h) + 1
<1>1. Len(h) \in Nat
  BY OneMore
<1>2. /\ it \in TraceItems /\ it.data = <<Len(h) + 1>> /\ it.op = o
      /\ Len(it.data) = 1 /\ it.data[1] = Len(h) + 1
  BY <1>1 DEF TraceItems
<1> QED BY <1>1, <1>2, OneMore DEF ItemHolds

\* One element is replaced.
LEMMA Replaced ==
  ASSUME NEW S, NEW q \in Seq(S), NEW k \in 1..Len(q), NEW x \in S
  PROVE  /\ [q EXCEPT ![k] = x] \in Seq(S)
         /\ Len([q EXCEPT ![k] = x]) = Len(q)
         /\ [q EXCEPT ![k] = x][k] = x
         /\ \A i \in 1..Len(q) : i # k => [q EXCEPT ![k] = x][i] = q[i]
<1>1. k \in DOMAIN q /\ DOMAIN q = 1..Len(q) /\ Len(q) \in Nat
  BY LenProperties
<1>2. [q EXCEPT ![k] = x] \in Seq(S) /\ Len([q EXCEPT ![k] = x]) = Len(q)
  BY <1>1, ExceptSeq
<1> QED BY <1>1, <1>2

\* What is flattened, by its elements and with another one at the end.
LEMMA DatasOf ==
  ASSUME NEW q \in Seq(TraceItems)
  PROVE  /\ Datas(q) \in Seq(Seq(Nat)) /\ Len(q) \in Nat
         /\ Len(Datas(q)) = Len(q)
         /\ \A i \in 1..Len(q) : Datas(q)[i] = q[i].data /\ q[i] \in TraceItems
         /\ FlattenSeq(Datas(q)) \in Seq(Nat)
<1>1. Len(q) \in Nat /\ \A i \in 1..Len(q) : q[i] \in TraceItems
  BY LenProperties, ElementOfSeq
<1>2. \A i \in 1..Len(q) : q[i].data \in Seq(Nat)
  BY <1>1 DEF TraceItems
<1>3. Datas(q) \in Seq(Seq(Nat)) /\ Len(Datas(q)) = Len(q)
  BY <1>1, <1>2 DEF Datas
<1>4. \A i \in 1..Len(q) : Datas(q)[i] = q[i].data
  BY DEF Datas
<1>5. FlattenSeq(Datas(q)) \in Seq(Nat)
  BY <1>3, FlattenType
<1> QED BY <1>1, <1>3, <1>4, <1>5

\* Another item at the end.
LEMMA FlattenMore ==
  ASSUME NEW q \in Seq(TraceItems), NEW it \in TraceItems
  PROVE  FlattenSeq(Datas(Append(q, it))) = FlattenSeq(Datas(q)) \o it.data
<1>1. it.data \in Seq(Nat)
  BY DEF TraceItems
<1>2. /\ Append(q, it) \in Seq(TraceItems) /\ Len(q) \in Nat
      /\ Len(Append(q, it)) = Len(q) + 1
      /\ \A i \in 1..Len(q) : Append(q, it)[i] = q[i]
      /\ Append(q, it)[Len(q) + 1] = it
  BY AppendProperties, LenProperties
<1> DEFINE p == Append(q, it)
           e == Append(Datas(q), it.data)
<1>3. /\ Datas(p) \in Seq(Seq(Nat)) /\ Len(Datas(p)) = Len(q) + 1
      /\ \A i \in 1..(Len(q) + 1) : Datas(p)[i] = p[i].data
  BY <1>2, DatasOf
<1>4. /\ e \in Seq(Seq(Nat)) /\ Len(e) = Len(q) + 1
      /\ \A i \in 1..Len(q) : e[i] = Datas(q)[i]
      /\ e[Len(q) + 1] = it.data
  BY <1>1, DatasOf, AppendProperties
<1>5. \A i \in 1..(Len(q) + 1) : Datas(p)[i] = e[i]
  <2> TAKE i \in 1..(Len(q) + 1)
  <2>1. CASE i \in 1..Len(q)
    <3>1. Datas(p)[i] = p[i].data /\ p[i] = q[i] /\ e[i] = q[i].data
      BY <1>2, <1>3, <1>4, <2>1, DatasOf
    <3> QED BY <3>1
  <2>2. CASE i = Len(q) + 1
    BY <1>2, <1>3, <1>4, <2>2
  <2>3. i \in 1..Len(q) \/ i = Len(q) + 1
    BY <1>2
  <2> QED BY <2>1, <2>2, <2>3
<1> HIDE DEF p, e
<1>6. Datas(p) = e
  BY <1>3, <1>4, <1>5, SeqEqual
<1>7. FlattenSeq(Append(Datas(q), it.data)) = FlattenSeq(Datas(q)) \o it.data
  BY <1>1, DatasOf, FlattenAppend
<1> QED BY <1>6, <1>7 DEF p, e

\* All but the last element.
LEMMA Before ==
  ASSUME NEW S, NEW q \in Seq(S), NEW m \in Nat, Len(q) = m + 1
  PROVE  /\ SubSeq(q, 1, m) \in Seq(S) /\ Len(SubSeq(q, 1, m)) = m
         /\ \A i \in 1..m : SubSeq(q, 1, m)[i] = q[i]
<1>1. /\ SubSeq(q, 1, m) \in Seq(S)
      /\ Len(SubSeq(q, 1, m)) = IF 1 <= m THEN m - 1 + 1 ELSE 0
      /\ \A i \in 1..(m - 1 + 1) : SubSeq(q, 1, m)[i] = q[1 + i - 1]
  <2>1. m \in Int /\ m <= Len(q) /\ 1 \in Nat \ {0}
    OBVIOUS
  <2> QED BY <2>1, Cut
<1> QED BY <1>1

\* Merging the next number into the last item puts it at the end.
LEMMA FlattenLast ==
  ASSUME NEW q \in Seq(TraceItems), NEW p \in Seq(TraceItems), NEW m \in Nat,
         Len(q) = m + 1, Len(p) = m + 1, \A i \in 1..m : p[i] = q[i],
         NEW v \in Nat,
         p[m + 1].data = Append(q[m + 1].data, v)
  PROVE  FlattenSeq(Datas(p)) = Append(FlattenSeq(Datas(q)), v)
<1> DEFINE front == SubSeq(q, 1, m)
           it == q[m + 1]
           new == p[m + 1]
<1>1. it \in TraceItems /\ it.data \in Seq(Nat)
  <2>1. m + 1 \in 1..Len(q)
    OBVIOUS
  <2>2. it \in TraceItems
    BY <2>1, ElementOfSeq
  <2> QED BY <2>1, <2>2 DEF TraceItems
<1>2. new \in TraceItems /\ new.data = Append(it.data, v)
  <2>1. m + 1 \in 1..Len(p)
    OBVIOUS
  <2> QED BY <2>1, ElementOfSeq
<1>3. /\ front \in Seq(TraceItems) /\ Len(front) = m
      /\ \A i \in 1..m : front[i] = q[i]
  BY Before
<1>4. it = q[m + 1] /\ new = p[m + 1]
  OBVIOUS
<1> HIDE DEF front, it, new
<1>5. q = Append(front, it) /\ p = Append(front, new)
  <2>1. ASSUME NEW x \in TraceItems
        PROVE  /\ Append(front, x) \in Seq(TraceItems)
               /\ Len(Append(front, x)) = m + 1
               /\ \A i \in 1..m : Append(front, x)[i] = q[i]
               /\ Append(front, x)[m + 1] = x
    BY <1>3, AppendProperties
  <2>2. \A i \in 1..(m + 1) : i \in 1..m \/ i = m + 1
    OBVIOUS
  <2>3. q = Append(front, it)
    <3>1. \A i \in 1..Len(q) : q[i] = Append(front, it)[i]
      BY <1>1, <1>4, <2>1, <2>2
    <3> QED BY <1>1, <2>1, <3>1, SeqEqual
  <2>4. p = Append(front, new)
    <3>1. \A i \in 1..Len(p) : p[i] = Append(front, new)[i]
      BY <1>2, <1>4, <2>1, <2>2
    <3> QED BY <1>2, <1>4, <2>1, <3>1, SeqEqual
  <2> QED BY <2>3, <2>4
<1> DEFINE a == FlattenSeq(Datas(front))
           d == it.data
<1>6. a \in Seq(Nat) /\ d \in Seq(Nat)
  BY <1>1, <1>3, DatasOf
<1>7. FlattenSeq(Datas(q)) = a \o d /\ FlattenSeq(Datas(p)) = a \o Append(d, v)
  BY <1>1, <1>2, <1>3, <1>5, FlattenMore
<1> HIDE DEF a, d
<1>8. a \o Append(d, v) = Append(a \o d, v)
  <2>1. <<v>> \in Seq(Nat) /\ a \o d \in Seq(Nat)
    BY <1>6, ConcatProperties
  <2>2. Append(d, v) = d \o <<v>> /\ Append(a \o d, v) = (a \o d) \o <<v>>
    BY <1>6, <2>1, AppendIsConcat
  <2> DEFINE t == <<v>>
  <2>3. t \in Seq(Nat)
    BY <2>1
  <2> HIDE DEF t
  <2>4. (a \o d) \o t = a \o (d \o t)
    BY ONLY <1>6, <2>3
  <2> QED BY <2>2, <2>4 DEF t
<1> QED BY <1>7, <1>8

\* The first item of its kind, and each that is not merged, takes a slot.
LEMMA AppendKeeps ==
  ASSUME NEW lim \in Nat, NEW q, NEW l, NEW h, RingInv(lim, q, l, h),
         ~(lim > 0 /\ Len(q) >= lim), NEW o \in Ring!Ops, NEW at \in Nat,
         NEW it, it = [op |-> o, at |-> at, data |-> <<Len(h) + 1>>]
  PROVE  RingInv(lim, Append(q, it), l, Append(h, o))
<1> DEFINE p == Append(q, it)
           g == Append(h, o)
           m == Len(q)
           n == Len(h)
<1>1. /\ q \in Seq(TraceItems) /\ l = 0 /\ h \in Seq(Ring!Ops) /\ m \in Nat
      /\ lim > 0 => m < lim
  <2>1. m \in Nat /\ q \in Seq(TraceItems) /\ h \in Seq(Ring!Ops) /\ l \in Nat
    BY LenProperties DEF RingInv, RingShape
  <2> QED BY <2>1 DEF RingInv, RingShape
<1>2. /\ g \in Seq(Ring!Ops) /\ n \in Nat /\ Len(g) = n + 1
      /\ Append(Numbers(n), n + 1) = Numbers(n + 1)
  BY <1>1, OneMore
<1>3. /\ it \in TraceItems /\ ItemHolds(g, it)
      /\ it.data = <<n + 1>> /\ Len(it.data) = 1 /\ it.data[1] = n + 1
  BY <1>1, HoldsNew
<1>4. /\ p \in Seq(TraceItems) /\ Len(p) = m + 1 /\ p[m + 1] = it
      /\ \A i \in 1..m : p[i] = q[i]
  BY <1>1, <1>3, AppendProperties
<1>5. \A i \in 1..m : q[i] \in TraceItems
  BY <1>1, ElementOfSeq
<1> HIDE DEF p, g, m, n
<1>6. RingShape(lim, p, l, g)
  BY <1>1, <1>2, <1>4 DEF RingShape
<1>7. \A i \in 1..(m + 1) : i \in 1..m \/ i = m + 1
  BY <1>1
<1>8. \A i \in 1..m : ItemHolds(h, q[i])
  BY DEF RingInv, ItemsHold, AllHold, m
<1>9. \A i \in 1..m : \A k \in 1..Len(q[i].data) : q[i].data[k] \in 1..n
  BY <1>8 DEF ItemHolds, n
<1>10. ItemsHold(p, l, g)
  <2>1. \A i \in 1..(m + 1) : ItemHolds(g, p[i])
    <3> TAKE i \in 1..(m + 1)
    <3>1. CASE i \in 1..m
      <4>1. ItemHolds(g, q[i])
        BY <1>1, <1>5, <1>8, <3>1, HoldsOn DEF g
      <4> QED BY <1>4, <3>1, <4>1
    <3>2. CASE i = m + 1
      BY <1>3, <1>4, <3>2
    <3> QED BY <1>7, <3>1, <3>2
  <2>2. ASSUME NEW i \in 1..(m + 1), NEW j \in 1..(m + 1), i # j,
               NEW a \in 1..Len(p[i].data), NEW b \in 1..Len(p[j].data)
        PROVE  p[i].data[a] # p[j].data[b]
    <3>1. CASE i \in 1..m /\ j \in 1..m
      <4>1. p[i] = q[i] /\ p[j] = q[j]
        BY <1>4, <3>1
      <4> QED BY <2>2, <3>1, <4>1 DEF RingInv, ItemsHold, Apart, m
    <3>2. CASE i \in 1..m /\ j = m + 1
      <4>1. p[i] = q[i] /\ p[j] = it
        BY <1>4, <3>2
      <4>2. q[i].data[a] \in 1..n /\ b = 1
        BY <1>3, <1>9, <3>2, <4>1
      <4> QED BY <1>2, <1>3, <4>1, <4>2
    <3>3. CASE i = m + 1 /\ j \in 1..m
      <4>1. p[j] = q[j] /\ p[i] = it
        BY <1>4, <3>3
      <4>2. q[j].data[b] \in 1..n /\ a = 1
        BY <1>3, <1>9, <3>3, <4>1
      <4> QED BY <1>2, <1>3, <4>1, <4>2
    <3> QED BY <1>7, <2>2, <3>1, <3>2, <3>3
  <2>3. ASSUME NEW i \in 1..(m + 1), NEW j \in 1..(m + 1), i # j,
               Older(l, i, j)
        PROVE  p[i].data[1] < p[j].data[1]
    <3>1. i < j
      BY <1>1, <2>3 DEF Older
    <3>2. i \in 1..m
      BY <1>1, <3>1
    <3>3. CASE j \in 1..m
      <4>1. p[i] = q[i] /\ p[j] = q[j]
        BY <1>4, <3>2, <3>3
      <4> QED BY <2>3, <3>2, <3>3, <4>1 DEF RingInv, ItemsHold, InOrder, m
    <3>4. CASE j = m + 1
      <4>1. p[i] = q[i] /\ p[j] = it
        BY <1>4, <3>2, <3>4
      <4>2. Len(q[i].data) \in Nat
        BY <1>5, <3>2, LenProperties DEF TraceItems
      <4>3. 1 \in 1..Len(q[i].data)
        BY <1>8, <3>2, <4>2 DEF ItemHolds
      <4>4. q[i].data[1] \in 1..n
        BY <1>9, <3>2, <4>3
      <4> QED BY <1>2, <1>3, <4>1, <4>4
    <3> QED BY <1>7, <3>3, <3>4
  <2>4. \E i \in 1..(m + 1) : \E k \in 1..Len(p[i].data) :
          p[i].data[k] = Len(g)
    <3>1. m + 1 \in 1..(m + 1) /\ 1 \in 1..1
      BY <1>1
    <3>2. p[m + 1].data[1] = Len(g) /\ Len(p[m + 1].data) = 1
      BY <1>2, <1>3, <1>4
    <3> QED BY <3>1, <3>2
  <2>5. AllHold(p, g)
    BY <1>4, <2>1 DEF AllHold
  <2>6. Apart(p)
    BY <1>4, <2>2 DEF Apart
  <2>7. InOrder(p, l)
    BY <1>4, <2>3 DEF InOrder
  <2>8. HasNewest(p, g)
    BY <1>4, <2>4 DEF HasNewest
  <2> QED BY <2>5, <2>6, <2>7, <2>8 DEF ItemsHold
<1>11. HoldsAll(lim, p, l, g)
  <2>1. FlattenSeq(Datas(q)) = Numbers(n)
    BY <1>1 DEF RingInv, HoldsAll, m, n
  <2>2. FlattenSeq(Datas(p)) = FlattenSeq(Datas(q)) \o <<n + 1>>
    BY <1>1, <1>3, FlattenMore DEF p
  <2>3. Numbers(n) \o <<n + 1>> = Append(Numbers(n), n + 1)
    <3>1. Numbers(n) \in Seq(Nat) /\ n + 1 \in Nat
      BY <1>2 DEF Numbers
    <3> QED BY <3>1, AppendIsConcat
  <2> QED BY <1>2, <2>1, <2>2, <2>3 DEF HoldsAll
<1> QED BY <1>6, <1>10, <1>11 DEF RingInv, p, g

\* The index goes round.
LEMMA NextSlot ==
  ASSUME NEW lim \in Nat, NEW x \in 1..lim
  PROVE  x % lim = IF x = lim THEN 0 ELSE x
OBVIOUS

\* A full array: the oldest item makes room for the newest.
LEMMA OverwriteKeeps ==
  ASSUME NEW lim \in Nat, NEW q, NEW l, NEW h, RingInv(lim, q, l, h),
         lim > 0, Len(q) >= lim, NEW o \in Ring!Ops, NEW at \in Nat,
         NEW it, it = [op |-> o, at |-> at, data |-> <<Len(h) + 1>>]
  PROVE  RingInv(lim, [q EXCEPT ![l + 1] = it], (l + 1) % lim, Append(h, o))
<1> DEFINE p == [q EXCEPT ![l + 1] = it]
           g == Append(h, o)
           m == Len(q)
           n == Len(h)
           s == l + 1
           r == s % lim
<1>1. /\ q \in Seq(TraceItems) /\ l \in Nat /\ h \in Seq(Ring!Ops) /\ m \in Nat
      /\ m = lim /\ s \in 1..m /\ r = IF s = m THEN 0 ELSE s
  <2>1. m \in Nat /\ q \in Seq(TraceItems) /\ h \in Seq(Ring!Ops) /\ l \in Nat
    BY LenProperties DEF RingInv, RingShape
  <2>2. m = lim /\ s \in 1..lim
    BY <2>1 DEF RingInv, RingShape
  <2> HIDE DEF s, m
  <2>3. r = IF s = lim THEN 0 ELSE s
    BY <2>2, NextSlot
  <2> QED BY <2>1, <2>2, <2>3
<1>2. /\ g \in Seq(Ring!Ops) /\ n \in Nat /\ Len(g) = n + 1
  BY <1>1, OneMore
<1>3. /\ it \in TraceItems /\ ItemHolds(g, it)
      /\ it.data = <<n + 1>> /\ Len(it.data) = 1 /\ it.data[1] = n + 1
  BY <1>1, HoldsNew
<1>4. /\ p \in Seq(TraceItems) /\ Len(p) = m /\ p[s] = it
      /\ \A i \in 1..m : i # s => p[i] = q[i]
  BY <1>1, <1>3, Replaced
<1>5. \A i \in 1..m : q[i] \in TraceItems
  BY <1>1, ElementOfSeq
<1>6. s = l + 1
  OBVIOUS
<1> HIDE DEF p, g, m, n, s, r
<1>7. RingShape(lim, p, r, g)
  BY <1>1, <1>2, <1>4 DEF RingShape
<1>8. \A i \in 1..m : ItemHolds(h, q[i])
  BY DEF RingInv, ItemsHold, AllHold, m
<1>9. \A i \in 1..m : \A k \in 1..Len(q[i].data) : q[i].data[k] \in 1..n
  BY <1>8 DEF ItemHolds, n
<1>10. AllHold(p, g)
  <2>1. ASSUME NEW i \in 1..m PROVE ItemHolds(g, p[i])
    <3>1. CASE i # s
      <4>1. ItemHolds(g, q[i])
        BY <1>1, <1>5, <1>8, HoldsOn DEF g
      <4> QED BY <1>4, <3>1, <4>1
    <3>2. CASE i = s
      BY <1>3, <1>4, <3>2
    <3> QED BY <3>1, <3>2
  <2> QED BY <1>4, <2>1 DEF AllHold
<1>11. Apart(p)
  <2>1. ASSUME NEW i \in 1..m, NEW j \in 1..m, i # j,
               NEW a \in 1..Len(p[i].data), NEW b \in 1..Len(p[j].data)
        PROVE  p[i].data[a] # p[j].data[b]
    <3>1. CASE i # s /\ j # s
      <4>1. p[i] = q[i] /\ p[j] = q[j]
        BY <1>4, <3>1
      <4> QED BY <2>1, <4>1 DEF RingInv, ItemsHold, Apart, m
    <3>2. CASE j = s
      <4>1. p[i] = q[i] /\ p[j] = it
        BY <1>4, <2>1, <3>2
      <4>2. q[i].data[a] \in 1..n /\ b = 1
        BY <1>3, <1>9, <4>1
      <4> QED BY <1>2, <1>3, <4>1, <4>2
    <3>3. CASE i = s
      <4>1. p[j] = q[j] /\ p[i] = it
        BY <1>4, <2>1, <3>3
      <4>2. q[j].data[b] \in 1..n /\ a = 1
        BY <1>3, <1>9, <4>1
      <4> QED BY <1>2, <1>3, <4>1, <4>2
    <3> QED BY <3>1, <3>2, <3>3
  <2> QED BY <1>4, <2>1 DEF Apart
<1>12. InOrder(p, r)
  <2>1. ASSUME NEW i \in 1..m, NEW j \in 1..m, i # j, Older(r, i, j)
        PROVE  p[i].data[1] < p[j].data[1]
    <3>1. i # s
      BY <1>1, <2>1 DEF Older
    <3>2. p[i] = q[i]
      BY <1>4, <3>1
    <3>3. CASE j # s
      <4>1. Older(l, i, j)
        BY <1>1, <1>6, <2>1, <3>1, <3>3 DEF Older
      <4>2. p[j] = q[j]
        BY <1>4, <3>3
      <4> QED BY <2>1, <3>2, <4>1, <4>2 DEF RingInv, ItemsHold, InOrder, m
    <3>4. CASE j = s
      <4>1. p[j] = it
        BY <1>4, <3>4
      <4>2. Len(q[i].data) \in Nat
        BY <1>5, LenProperties DEF TraceItems
      <4>3. 1 \in 1..Len(q[i].data)
        BY <1>8, <4>2 DEF ItemHolds
      <4>4. q[i].data[1] \in 1..n
        BY <1>9, <4>3
      <4> QED BY <1>2, <1>3, <3>2, <4>1, <4>4
    <3> QED BY <3>3, <3>4
  <2> QED BY <1>4, <2>1 DEF InOrder
<1>13. HasNewest(p, g)
  <2>1. p[s].data[1] = Len(g) /\ 1 \in 1..Len(p[s].data) /\ s \in 1..Len(p)
    BY <1>1, <1>2, <1>3, <1>4
  <2> QED BY <2>1 DEF HasNewest
<1>14. HoldsAll(lim, p, r, g)
  BY <1>1, <1>4 DEF HoldsAll
<1> QED BY <1>7, <1>10, <1>11, <1>12, <1>13, <1>14
        DEF RingInv, ItemsHold, p, g, r, s

\* Merging into the last slot of the array, which need not be the newest.
LEMMA MergeKeeps ==
  ASSUME NEW lim \in Nat, NEW q, NEW l, NEW h, RingInv(lim, q, l, h),
         NEW c \in Nat, Len(q) = c + 1,
         NEW p \in Seq(TraceItems), Len(p) = c + 1,
         \A i \in 1..c : p[i] = q[i], p[c + 1].op = q[c + 1].op,
         p[c + 1].data = Append(q[c + 1].data, Len(h) + 1)
  PROVE  RingInv(lim, p, l, Append(h, q[c + 1].op))
<1> DEFINE it == q[c + 1]
           new == p[c + 1]
           e == it.data
           d == new.data
           g == Append(h, it.op)
           n == Len(h)
           s == c + 1
<1>1. /\ q \in Seq(TraceItems) /\ l \in Nat /\ h \in Seq(Ring!Ops)
      /\ s \in 1..s /\ s \in 1..Len(q) /\ s \in 1..Len(p)
  BY DEF RingInv, RingShape
<1>2. \A i \in 1..s : q[i] \in TraceItems /\ ItemHolds(h, q[i])
  BY <1>1, ElementOfSeq DEF RingInv, ItemsHold, AllHold
<1>3. it \in TraceItems /\ it.op \in Ring!Ops /\ ItemHolds(h, it)
  BY <1>1, <1>2 DEF TraceItems
<1>4. new \in TraceItems
  BY <1>1, ElementOfSeq
<1>5. /\ g \in Seq(Ring!Ops) /\ n \in Nat /\ Len(g) = n + 1
      /\ Append(Numbers(n), n + 1) = Numbers(n + 1)
  BY <1>1, <1>3, OneMore
<1>6. /\ ItemHolds(g, new) /\ Len(d) = Len(e) + 1 /\ d[1] = e[1]
      /\ \A k \in 1..Len(e) : d[k] = e[k]
      /\ d[Len(d)] = n + 1
  BY <1>1, <1>3, <1>4, HoldsMerged
<1>7. FlattenSeq(Datas(p)) = Append(FlattenSeq(Datas(q)), n + 1)
  <2>1. PICK v \in Nat : v = n + 1
    BY <1>5
  <2>2. q \in Seq(TraceItems) /\ p[c + 1].data = Append(q[c + 1].data, v)
    BY <1>1, <2>1
  <2> HIDE DEF n
  <2>3. FlattenSeq(Datas(p)) = Append(FlattenSeq(Datas(q)), v)
    BY ONLY <2>2, FlattenLast, Len(q) = c + 1, Len(p) = c + 1, c \in Nat,
            v \in Nat, p \in Seq(TraceItems), \A i \in 1..c : p[i] = q[i]
  <2> QED BY <2>1, <2>3
<1>8. Len(e) \in Nat \ {0}
  BY <1>3, LenProperties DEF TraceItems, ItemHolds
<1>9. /\ q[s] = it /\ p[s] = new /\ it.data = e /\ new.data = d /\ s \in Nat
      /\ Len(q) = s /\ Len(p) = s /\ \A i \in 1..s : i = s \/ p[i] = q[i]
  OBVIOUS
<1>10. /\ \A i, j \in 1..s : i # j =>
             \A a \in 1..Len(q[i].data), b \in 1..Len(q[j].data) :
               q[i].data[a] # q[j].data[b]
       /\ \A i, j \in 1..s : i # j /\ Older(l, i, j) =>
             q[i].data[1] < q[j].data[1]
       /\ l = 0 /\ (lim = 0 \/ Len(q) < lim) =>
             FlattenSeq(Datas(q)) = Numbers(n)
       /\ lim > 0 => Len(q) <= lim
       /\ l = 0 \/ (l < lim /\ Len(q) = lim)
  BY DEF RingInv, RingShape, ItemsHold, Apart, InOrder, HoldsAll
<1>11. \A i \in 1..s : \A k \in 1..Len(q[i].data) : q[i].data[k] \in 1..n
  BY <1>2 DEF ItemHolds
<1>12. \A i \in 1..s : ItemHolds(g, q[i])
  BY <1>1, <1>2, <1>3, HoldsOn
<1> HIDE DEF it, new, e, d, g, n, s
<1>13. RingShape(lim, p, l, g)
  BY ONLY <1>1, <1>5, <1>9, <1>10, p \in Seq(TraceItems) DEF RingShape
<1>14. AllHold(p, g)
  <2>1. ASSUME NEW i \in 1..s PROVE ItemHolds(g, p[i])
    BY ONLY <1>6, <1>9, <1>12, i \in 1..s
  <2> QED BY ONLY <1>9, <2>1 DEF AllHold
<1>15. \A k \in 1..Len(d) : d[k] = n + 1 \/ (k \in 1..Len(e) /\ d[k] = e[k])
  <2>1. \A k \in 1..Len(d) : k = Len(d) \/ k \in 1..Len(e)
    BY ONLY <1>6, <1>8
  <2> QED BY ONLY <1>6, <2>1
<1>16. \A i \in 1..s : \A a \in 1..Len(q[i].data), b \in 1..Len(d) :
         i # s => q[i].data[a] # d[b]
  <2> SUFFICES ASSUME NEW i \in 1..s, i # s, NEW a \in 1..Len(q[i].data),
                      NEW b \in 1..Len(d)
               PROVE  q[i].data[a] # d[b]
    OBVIOUS
  <2>1. CASE d[b] = n + 1
    <3>1. q[i].data[a] \in 1..n
      BY ONLY <1>11, i \in 1..s, a \in 1..Len(q[i].data)
    <3> QED BY ONLY <1>5, <2>1, <3>1
  <2>2. CASE b \in 1..Len(e) /\ d[b] = e[b]
    <3>1. q[i].data[a] # e[b]
      BY ONLY <1>1, <1>9, <1>10, <2>2, i \in 1..s, i # s,
              a \in 1..Len(q[i].data)
    <3> QED BY ONLY <2>2, <3>1
  <2> QED BY <1>15, <2>1, <2>2
<1>17. Apart(p)
  <2>1. ASSUME NEW i \in 1..s, NEW j \in 1..s, i # j,
               NEW a \in 1..Len(p[i].data), NEW b \in 1..Len(p[j].data)
        PROVE  p[i].data[a] # p[j].data[b]
    <3>1. CASE i # s /\ j # s
      <4>1. p[i] = q[i] /\ p[j] = q[j]
        BY ONLY <1>9, <3>1, i \in 1..s, j \in 1..s
      <4> QED BY ONLY <1>10, <2>1, <4>1
    <3>2. CASE j = s
      <4>1. p[j].data = d /\ p[i] = q[i]
        BY ONLY <1>9, <2>1, <3>2
      <4> QED BY ONLY <1>16, <2>1, <3>2, <4>1
    <3>3. CASE i = s
      <4>1. p[i].data = d /\ p[j] = q[j]
        BY ONLY <1>9, <2>1, <3>3
      <4> QED BY ONLY <1>16, <2>1, <3>3, <4>1
    <3> QED BY <3>1, <3>2, <3>3
  <2> QED BY ONLY <1>9, <2>1 DEF Apart
<1>18. \A i \in 1..s : p[i].data[1] = q[i].data[1]
  BY ONLY <1>6, <1>9
<1>19. InOrder(p, l)
  BY ONLY <1>9, <1>10, <1>18 DEF InOrder
<1>20. HasNewest(p, g)
  <2>1. p[s].data[Len(d)] = Len(g) /\ Len(d) \in 1..Len(p[s].data)
    BY ONLY <1>5, <1>6, <1>8, <1>9
  <2> QED BY ONLY <1>1, <1>9, <2>1 DEF HasNewest
<1>21. HoldsAll(lim, p, l, g)
  BY ONLY <1>5, <1>7, <1>9, <1>10 DEF HoldsAll
<1> QED BY <1>13, <1>14, <1>17, <1>19, <1>20, <1>21
        DEF RingInv, ItemsHold, g, it

---------------------------------------------------------------------------
(* What a list of items lists, one after the other. *)

\* Nothing is in a sequence of sequences twice.
Separate(q) ==
  \A i, j \in 1..Len(q) : \A a \in 1..Len(q[i]), b \in 1..Len(q[j]) :
    q[i][a] = q[j][b] => i = j /\ a = b

\* x lists the first m sequences of q, and nothing twice.
Lists(q, m, x) ==
  /\ \A i \in 1..m : \A a \in 1..Len(q[i]) :
       \E t \in 1..Len(x) : x[t] = q[i][a]
  /\ \A t \in 1..Len(x) : \E i \in 1..m : \E a \in 1..Len(q[i]) :
       x[t] = q[i][a]
  /\ \A t, u \in 1..Len(x) : x[t] = x[u] => t = u

\* One sequence more is listed.
LEMMA ListsMore ==
  ASSUME NEW S, NEW q \in Seq(Seq(S)), Separate(q), NEW m \in Nat,
         m + 1 \in 1..Len(q), NEW x \in Seq(S), Lists(q, m, x),
         NEW y, y = x \o q[m + 1]
  PROVE  Lists(q, m + 1, y)
<1> DEFINE z == q[m + 1]
           c == Len(x)
           d == Len(z)
<1>1. z \in Seq(S)
  BY ElementOfSeq
<1>2. /\ y \in Seq(S) /\ c \in Nat /\ d \in Nat /\ Len(y) = c + d
      /\ \A t \in 1..c : y[t] = x[t]
      /\ \A t \in (c + 1)..(c + d) : y[t] = z[t - c]
  BY <1>1, Joined
<1>3. /\ z = q[m + 1] /\ c = Len(x) /\ d = Len(q[m + 1]) /\ Len(q) \in Nat
  BY LenProperties
<1>4. /\ \A i \in 1..m : \A a \in 1..Len(q[i]) :
           \E t \in 1..c : x[t] = q[i][a]
      /\ \A t \in 1..c : \E i \in 1..m : \E a \in 1..Len(q[i]) :
           x[t] = q[i][a]
      /\ \A t, u \in 1..c : x[t] = x[u] => t = u
  BY DEF Lists
<1> HIDE DEF z, c, d
<1>5. \A i \in 1..(m + 1) : i \in 1..m \/ i = m + 1
  OBVIOUS
<1>6. \A t \in 1..(c + d) :
        t \in 1..c \/ (t \in (c + 1)..(c + d) /\ t - c \in 1..d)
  BY <1>2
<1>7. \A a \in 1..d : c + a \in (c + 1)..(c + d) /\ c + a - c = a
                      /\ c + a \in 1..(c + d)
  BY <1>2
<1>8. ASSUME NEW i \in 1..(m + 1), NEW a \in 1..Len(q[i])
      PROVE  \E t \in 1..Len(y) : y[t] = q[i][a]
  <2>1. CASE i \in 1..m
    <3>1. PICK t \in 1..c : x[t] = q[i][a]
      BY <1>4, <1>8, <2>1
    <3>2. t \in 1..(c + d)
      BY <1>2
    <3> QED BY <1>2, <3>1, <3>2
  <2>2. CASE i = m + 1
    <3>1. a \in 1..d
      BY <1>3, <1>8, <2>2
    <3>2. y[c + a] = z[a]
      BY <1>2, <1>7, <3>1
    <3> QED BY <1>2, <1>3, <1>7, <2>2, <3>1, <3>2
  <2> QED BY <1>5, <2>1, <2>2
<1>9. ASSUME NEW t \in 1..Len(y)
      PROVE  \E i \in 1..(m + 1) : \E a \in 1..Len(q[i]) : y[t] = q[i][a]
  <2>1. CASE t \in 1..c
    <3>1. PICK i \in 1..m : \E a \in 1..Len(q[i]) : x[t] = q[i][a]
      BY <1>4, <2>1
    <3>2. i \in 1..(m + 1)
      OBVIOUS
    <3> QED BY <1>2, <2>1, <3>1, <3>2
  <2>2. CASE t \in (c + 1)..(c + d) /\ t - c \in 1..d
    <3>1. y[t] = q[m + 1][t - c] /\ t - c \in 1..Len(q[m + 1])
      BY <1>2, <1>3, <2>2
    <3> QED BY <3>1
  <2> QED BY <1>2, <1>6, <1>9, <2>1, <2>2
<1>10. \A t \in 1..c, u \in (c + 1)..(c + d) : y[t] # y[u]
  <2> SUFFICES ASSUME NEW t \in 1..c, NEW u \in (c + 1)..(c + d),
                      y[t] = y[u]
               PROVE  FALSE
    OBVIOUS
  <2>1. PICK i \in 1..m : \E a \in 1..Len(q[i]) : x[t] = q[i][a]
    BY <1>4
  <2>2. PICK a \in 1..Len(q[i]) : x[t] = q[i][a]
    BY <2>1
  <2>3. y[u] = q[m + 1][u - c] /\ u - c \in 1..Len(q[m + 1])
    BY <1>2, <1>3
  <2>4. q[i][a] = q[m + 1][u - c] /\ i \in 1..Len(q) /\ i # m + 1
    BY <1>2, <1>3, <2>2, <2>3
  <2> QED BY <2>3, <2>4 DEF Separate
<1>11. ASSUME NEW t \in 1..Len(y), NEW u \in 1..Len(y), y[t] = y[u]
       PROVE  t = u
  <2>1. CASE t \in 1..c /\ u \in 1..c
    BY <1>2, <1>4, <1>11, <2>1
  <2>2. CASE t \in (c + 1)..(c + d) /\ u \in (c + 1)..(c + d)
    <3>1. /\ q[m + 1][t - c] = q[m + 1][u - c]
          /\ t - c \in 1..Len(q[m + 1]) /\ u - c \in 1..Len(q[m + 1])
      BY <1>2, <1>3, <1>11, <2>2
    <3>2. t - c = u - c
      BY <3>1 DEF Separate
    <3> QED BY <1>2, <2>2, <3>2
  <2>3. CASE t \in 1..c /\ u \in (c + 1)..(c + d)
    BY <1>10, <1>11, <2>3
  <2>4. CASE u \in 1..c /\ t \in (c + 1)..(c + d)
    BY <1>10, <1>11, <2>4
  <2> QED BY <1>2, <1>6, <2>1, <2>2, <2>3, <2>4
<1> QED BY <1>8, <1>9, <1>11 DEF Lists

\* FlattenSeq lists them all.
LEMMA FlattenLists ==
  ASSUME NEW S, NEW q \in Seq(Seq(S)), Separate(q)
  PROVE  Lists(q, Len(q), FlattenSeq(q))
<1> DEFINE n == Len(q)
<1>1. PICK f : Joins(S, q, n, f) /\ FlattenSeq(q) = f[n]
  BY FlattenJoins
<1>2. n \in Nat
  BY LenProperties
<1>3. /\ \A i \in 0..n : f[i] \in Seq(S)
      /\ f[0] = <<>> /\ \A i \in 1..n : f[i] = f[i - 1] \o q[i]
  BY <1>1 DEF Joins
<1> DEFINE A == {m \in 0..n : Lists(q, m, f[m])}
<1>4. 0 \in A
  <2>1. Len(f[0]) = 0
    BY <1>3
  <2>2. Lists(q, 0, f[0])
    BY <2>1 DEF Lists
  <2> QED BY <1>2, <2>2
<1>5. ASSUME NEW m \in 0..(n - 1), m \in A PROVE m + 1 \in A
  <2>1. /\ m \in Nat /\ m + 1 \in 1..n /\ m + 1 \in 0..n /\ m \in 0..n
        /\ (m + 1) - 1 = m
    BY <1>2
  <2>2. f[m] \in Seq(S) /\ f[m + 1] = f[m] \o q[m + 1] /\ Lists(q, m, f[m])
    BY <1>3, <1>5, <2>1
  <2>3. Lists(q, m + 1, f[m + 1])
    BY <2>1, <2>2, ListsMore
  <2> QED BY <2>1, <2>3
<1> HIDE DEF A, n
<1>6. \A m \in 0..n : m \in A
  BY <1>2, <1>4, <1>5, UpTo
<1>7. n \in A
  BY <1>2, <1>6
<1> QED BY <1>1, <1>7 DEF A, n

\* The items from the oldest on, and the slot of each.
ListOf(q, l) == SubSeq(q, l + 1, Len(q)) \o SubSeq(q, 1, l)
Slot(m, l, i) == IF i <= m - l THEN l + i ELSE i - (m - l)

\* Every slot is listed once, an older one earlier.
LEMMA SlotFacts ==
  ASSUME NEW m \in Nat, NEW l \in 0..m
  PROVE  /\ \A i \in 1..m : Slot(m, l, i) \in 1..m
         /\ \A s \in 1..m : \E i \in 1..m : Slot(m, l, i) = s
         /\ \A i, j \in 1..m : i < j =>
              /\ Slot(m, l, i) # Slot(m, l, j)
              /\ Older(l, Slot(m, l, i), Slot(m, l, j))
<1>1. \A i \in 1..m : Slot(m, l, i) \in 1..m
  BY DEF Slot
<1>2. ASSUME NEW s \in 1..m PROVE \E i \in 1..m : Slot(m, l, i) = s
  <2>1. CASE s > l
    <3>1. s - l \in 1..m /\ Slot(m, l, s - l) = s
      BY <2>1 DEF Slot
    <3> QED BY <3>1
  <2>2. CASE s <= l
    <3>1. s + (m - l) \in 1..m /\ Slot(m, l, s + (m - l)) = s
      BY <2>2 DEF Slot
    <3> QED BY <3>1
  <2> QED BY <2>1, <2>2
<1>3. ASSUME NEW i \in 1..m, NEW j \in 1..m, i < j
      PROVE  /\ Slot(m, l, i) # Slot(m, l, j)
             /\ Older(l, Slot(m, l, i), Slot(m, l, j))
  BY <1>3 DEF Slot, Older
<1> QED BY <1>1, <1>2, <1>3

\* What List gives at each place.
LEMMA ListFacts ==
  ASSUME NEW q \in Seq(TraceItems), NEW m \in Nat, Len(q) = m, NEW l \in 0..m
  PROVE  /\ ListOf(q, l) \in Seq(TraceItems) /\ Len(ListOf(q, l)) = m
         /\ \A i \in 1..m : ListOf(q, l)[i] = q[Slot(m, l, i)]
<1> DEFINE a == SubSeq(q, 1, l)
           b == SubSeq(q, l + 1, Len(q))
<1>1. /\ a \in Seq(TraceItems) /\ b \in Seq(TraceItems)
      /\ Len(a) = l /\ Len(b) = m - l
      /\ \A i \in 1..l : a[i] = q[i]
      /\ \A i \in 1..(m - l) : b[i] = q[l + i]
  BY CutInTwo
<1> HIDE DEF a, b
<1>2. /\ b \o a \in Seq(TraceItems) /\ Len(b \o a) = m - l + l
      /\ \A i \in 1..(m - l) : (b \o a)[i] = b[i]
      /\ \A i \in (m - l + 1)..(m - l + l) : (b \o a)[i] = a[i - (m - l)]
  <2>1. /\ b \o a \in Seq(TraceItems) /\ Len(b \o a) = Len(b) + Len(a)
        /\ \A i \in 1..Len(b) : (b \o a)[i] = b[i]
        /\ \A i \in (Len(b) + 1)..(Len(b) + Len(a)) :
             (b \o a)[i] = a[i - Len(b)]
    <3>1. a \in Seq(TraceItems) /\ b \in Seq(TraceItems)
      BY <1>1
    <3> QED BY ONLY <3>1, Joined, SMTT(30)
  <2> QED BY <1>1, <2>1
<1>3. ASSUME NEW i \in 1..m PROVE (b \o a)[i] = q[Slot(m, l, i)]
  <2>1. CASE i <= m - l
    <3>1. i \in 1..(m - l) /\ Slot(m, l, i) = l + i
      BY <2>1 DEF Slot
    <3> QED BY <1>1, <1>2, <3>1
  <2>2. CASE ~(i <= m - l)
    <3>1. /\ i \in (m - l + 1)..(m - l + l) /\ i - (m - l) \in 1..l
          /\ Slot(m, l, i) = i - (m - l)
      BY <2>2 DEF Slot
    <3> QED BY <1>1, <1>2, <3>1
  <2> QED BY <2>1, <2>2
<1>4. m - l + l = m
  OBVIOUS
<1> QED BY <1>2, <1>3, <1>4 DEF ListOf, a, b

\* What the trace promises, over its parts.
Promise(lim, q, l, h) ==
  LET L == ListOf(q, l)
      all == FlattenSeq(Datas(L))
  IN
  /\ l = 0 /\ (lim = 0 \/ Len(q) < lim) => all = Numbers(Len(h))
  /\ lim > 0 => Len(q) <= lim
  /\ h # <<>> => \E i \in 1..Len(all) : all[i] = Len(h)
  /\ \A i, j \in 1..Len(all) : all[i] = all[j] => i = j
  /\ \A i \in 1..Len(L) :
       /\ \A k \in 1..Len(L[i].data) : h[L[i].data[k]] = L[i].op
       /\ \A k \in 1..(Len(L[i].data) - 1) :
            L[i].data[k] < L[i].data[k + 1]
  /\ \A i, j \in 1..Len(L) :
       i < j => Head(L[i].data) < Head(L[j].data)

\* The invariant gives what is promised.
LEMMA RingPromise ==
  ASSUME NEW lim \in Nat, NEW q, NEW l, NEW h, RingInv(lim, q, l, h)
  PROVE  Promise(lim, q, l, h)
<1> DEFINE L == ListOf(q, l)
           m == Len(q)
           ds == Datas(L)
           all == FlattenSeq(ds)
           s == [i \in 1..m |-> Slot(m, l, i)]
<1>1. /\ q \in Seq(TraceItems) /\ m \in Nat /\ l \in 0..m
      /\ h \in Seq(Ring!Ops)
  BY LenProperties DEF RingInv, RingShape
<1>2. /\ L \in Seq(TraceItems) /\ Len(L) = m
      /\ \A i \in 1..m : L[i] = q[s[i]]
  BY <1>1, ListFacts
<1>3. /\ \A i \in 1..m : s[i] \in 1..m
      /\ \A k \in 1..m : \E i \in 1..m : s[i] = k
      /\ \A i, j \in 1..m : i < j => s[i] # s[j] /\ Older(l, s[i], s[j])
  <2>1. \A i \in 1..m : s[i] = Slot(m, l, i)
    OBVIOUS
  <2>2. m \in Nat /\ l \in 0..m
    BY <1>1
  <2> HIDE DEF s, m
  <2>3. /\ \A i \in 1..m : Slot(m, l, i) \in 1..m
        /\ \A k \in 1..m : \E i \in 1..m : Slot(m, l, i) = k
        /\ \A i, j \in 1..m : i < j =>
             /\ Slot(m, l, i) # Slot(m, l, j)
             /\ Older(l, Slot(m, l, i), Slot(m, l, j))
    BY <2>2, SlotFacts
  <2>4. \A i \in 1..m : s[i] \in 1..m
    BY <2>1, <2>3
  <2>5. \A k \in 1..m : \E i \in 1..m : s[i] = k
    BY <2>1, <2>3
  <2>6. ASSUME NEW i \in 1..m, NEW j \in 1..m, i < j
        PROVE  s[i] # s[j] /\ Older(l, s[i], s[j])
    BY <2>1, <2>3, <2>6
  <2> QED BY <2>4, <2>5, <2>6
<1>4. /\ ds \in Seq(Seq(Nat)) /\ Len(ds) = m
      /\ \A i \in 1..m : ds[i] = L[i].data /\ L[i] \in TraceItems
  BY <1>2, DatasOf
<1>5. /\ \A i \in 1..m : ItemHolds(h, q[i])
      /\ \A i, j \in 1..m : i # j =>
           \A a \in 1..Len(q[i].data), b \in 1..Len(q[j].data) :
             q[i].data[a] # q[j].data[b]
      /\ \A i, j \in 1..m : i # j /\ Older(l, i, j) =>
           q[i].data[1] < q[j].data[1]
      /\ Len(h) > 0 => \E i \in 1..m : \E k \in 1..Len(q[i].data) :
                         q[i].data[k] = Len(h)
      /\ l = 0 /\ (lim = 0 \/ m < lim) =>
           FlattenSeq(Datas(q)) = Numbers(Len(h))
      /\ lim > 0 => m <= lim
  BY DEF RingInv, RingShape, ItemsHold, AllHold, Apart, InOrder, HasNewest,
         HoldsAll
<1>6. l = 0 => L = q
  <2> SUFFICES ASSUME l = 0 PROVE L = q
    OBVIOUS
  <2>1. \A i \in 1..m : L[i] = q[i]
    BY <1>1, <1>2 DEF Slot
  <2> HIDE DEF L
  <2> QED BY <1>1, <1>2, <2>1, SeqEqual
<1> HIDE DEF L, s, ds, all, m
<1>7. \A i \in 1..m : ItemHolds(h, L[i])
  BY <1>2, <1>3, <1>5
<1>8. \A i \in 1..m : \A a, b \in 1..Len(ds[i]) :
        ds[i][a] = ds[i][b] => a = b
  <2> SUFFICES ASSUME NEW i \in 1..m, NEW a \in 1..Len(ds[i]),
                      NEW b \in 1..Len(ds[i]), ds[i][a] = ds[i][b]
               PROVE  a = b
    OBVIOUS
  <2>1. /\ a < b => ds[i][a] < ds[i][b]
        /\ b < a => ds[i][b] < ds[i][a]
        /\ ds[i][a] \in 1..Len(h)
    BY <1>4, <1>7 DEF ItemHolds
  <2> QED BY <2>1
<1>9. Separate(ds)
  <2>1. ASSUME NEW i \in 1..m, NEW j \in 1..m, i # j,
               NEW a \in 1..Len(ds[i]), NEW b \in 1..Len(ds[j])
        PROVE  ds[i][a] # ds[j][b]
    <3>1. s[i] # s[j] /\ s[i] \in 1..m /\ s[j] \in 1..m
      BY <1>3, <2>1
    <3>2. ds[i] = q[s[i]].data /\ ds[j] = q[s[j]].data
      BY <1>2, <1>4
    <3>3. PICK u \in 1..m, v \in 1..m : u = s[i] /\ v = s[j]
      BY <3>1
    <3>4. /\ u # v /\ ds[i] = q[u].data /\ ds[j] = q[v].data
          /\ a \in 1..Len(q[u].data) /\ b \in 1..Len(q[v].data)
      BY <2>1, <3>1, <3>2, <3>3
    <3>5. q[u].data[a] # q[v].data[b]
      BY <1>5, <3>4
    <3> QED BY <3>4, <3>5
  <2>2. ASSUME NEW i \in 1..m, NEW j \in 1..m,
               NEW a \in 1..Len(ds[i]), NEW b \in 1..Len(ds[j]),
               ds[i][a] = ds[j][b]
        PROVE  i = j /\ a = b
    <3>1. i = j
      BY <2>1, <2>2
    <3> QED BY <1>8, <2>2, <3>1
  <2> QED BY <1>4, <2>2 DEF Separate
<1>10. Lists(ds, m, all)
  BY <1>4, <1>9, FlattenLists DEF all
<1>11. h # <<>> => \E i \in 1..Len(all) : all[i] = Len(h)
  <2> SUFFICES ASSUME h # <<>> PROVE \E i \in 1..Len(all) : all[i] = Len(h)
    OBVIOUS
  <2>1. Len(h) > 0
    BY <1>1, TailFacts
  <2>2. PICK k \in 1..m : \E a \in 1..Len(q[k].data) : q[k].data[a] = Len(h)
    BY <1>5, <2>1
  <2>3. PICK a \in 1..Len(q[k].data) : q[k].data[a] = Len(h)
    BY <2>2
  <2>4. PICK i \in 1..m : s[i] = k
    BY <1>3
  <2>5. ds[i] = q[k].data
    BY <1>2, <1>4, <2>4
  <2>6. \E t \in 1..Len(all) : all[t] = ds[i][a]
    BY <1>10, <2>3, <2>5 DEF Lists
  <2> QED BY <2>3, <2>5, <2>6
<1>12. \A i, j \in 1..Len(all) : all[i] = all[j] => i = j
  BY <1>10 DEF Lists
<1>13. \A i \in 1..m : Len(L[i].data) \in Nat \ {0}
  <2> TAKE i \in 1..m
  <2>1. L[i].data \in Seq(Nat)
    BY <1>4 DEF TraceItems
  <2> QED BY <1>7, <2>1, LenProperties DEF ItemHolds
<1>14. \A i \in 1..m :
         /\ \A k \in 1..Len(L[i].data) : h[L[i].data[k]] = L[i].op
         /\ \A k \in 1..(Len(L[i].data) - 1) :
              L[i].data[k] < L[i].data[k + 1]
  <2> TAKE i \in 1..m
  <2>1. \A k \in 1..Len(L[i].data) : h[L[i].data[k]] = L[i].op
    BY <1>7 DEF ItemHolds
  <2>2. ASSUME NEW k \in 1..(Len(L[i].data) - 1)
        PROVE  L[i].data[k] < L[i].data[k + 1]
    <3>1. k \in 1..Len(L[i].data) /\ k + 1 \in 1..Len(L[i].data) /\ k < k + 1
      BY <1>13, <2>2
    <3> QED BY <1>7, <3>1 DEF ItemHolds
  <2> QED BY <2>1, <2>2
<1>15. \A i, j \in 1..m : i < j => Head(L[i].data) < Head(L[j].data)
  <2>1. \A i \in 1..m : Head(L[i].data) = L[i].data[1]
    <3> TAKE i \in 1..m
    <3>1. L[i].data \in Seq(Nat) /\ L[i].data # <<>>
      BY <1>4, <1>13 DEF TraceItems
    <3> QED BY <3>1, TailFacts
  <2>2. ASSUME NEW i \in 1..m, NEW j \in 1..m, i < j
        PROVE  L[i].data[1] < L[j].data[1]
    <3>1. s[i] # s[j] /\ Older(l, s[i], s[j])
          /\ s[i] \in 1..m /\ s[j] \in 1..m
      BY <1>3, <2>2
    <3> QED BY <1>2, <1>5, <3>1
  <2> QED BY <2>1, <2>2
<1>16. l = 0 /\ (lim = 0 \/ m < lim) => all = Numbers(Len(h))
  BY <1>5, <1>6 DEF all, ds
<1> QED BY <1>2, <1>5, <1>11, <1>12, <1>14, <1>15, <1>16
        DEF Promise, L, all, ds, m

---------------------------------------------------------------------------
(* The steps of the trace, with its limit or without one. *)

Adds(lim, o) ==
  LET n == Len(added) + 1
      new == [op |-> o, at |-> clock, data |-> <<n>>]
      k == Len(items)
  IN
  /\ added' = Append(added, o)
  /\ \/ /\ items # <<>> /\ items[k].op = o
        /\ items' = [items EXCEPT ![k].data = Append(@, n)]
        /\ limitIndex' = limitIndex
     \/ /\ lim > 0 /\ Len(items) >= lim
        /\ items' = [items EXCEPT ![limitIndex + 1] = new]
        /\ limitIndex' = (limitIndex + 1) % lim
     \/ /\ ~(lim > 0 /\ Len(items) >= lim)
        /\ items' = Append(items, new) /\ limitIndex' = limitIndex

\* Each of them keeps the invariant.
LEMMA AddKeeps ==
  ASSUME NEW lim \in Nat, RingInv(lim, items, limitIndex, added),
         clock \in Nat, NEW o \in Ring!Ops, Adds(lim, o)
  PROVE  RingInv(lim, items', limitIndex', added')
<1> DEFINE n == Len(added) + 1
           new == [op |-> o, at |-> clock, data |-> <<n>>]
           k == Len(items)
<1>1. items \in Seq(TraceItems) /\ added \in Seq(Ring!Ops) /\ n \in Nat
  BY LenProperties DEF RingInv, RingShape
<1>2. CASE /\ items # <<>> /\ items[k].op = o /\ added' = Append(added, o)
           /\ items' = [items EXCEPT ![k].data = Append(@, n)]
           /\ limitIndex' = limitIndex
  <2>1. PICK c \in Nat : k = c + 1
    <3>1. k \in Nat \ {0}
      BY <1>1, <1>2, TailFacts
    <3>2. k - 1 \in Nat /\ k = (k - 1) + 1
      BY <3>1
    <3> QED BY <3>2
  <2>2. c + 1 \in 1..Len(items)
    BY <2>1
  <2>3. items[c + 1] \in TraceItems
    BY <1>1, <2>2, ElementOfSeq
  <2> DEFINE d == Append(items[c + 1].data, n)
             x == [items[c + 1] EXCEPT !.data = d]
  <2>4. d \in Seq(Nat)
    BY <1>1, <2>3, AppendProperties DEF TraceItems
  <2>5. x \in TraceItems /\ x.data = d /\ x.op = items[c + 1].op
    BY <2>3, <2>4 DEF TraceItems
  <2>6. items' = [items EXCEPT ![c + 1] = x]
    BY <1>2, <2>1
  <2> HIDE DEF x, d, n
  <2>7. /\ items' \in Seq(TraceItems) /\ Len(items') = c + 1
        /\ items'[c + 1] = x
        /\ \A i \in 1..Len(items) : i # c + 1 => items'[i] = items[i]
    BY <1>1, <2>1, <2>2, <2>5, <2>6, Replaced
  <2>8. \A i \in 1..c : items'[i] = items[i]
    BY <2>1, <2>7
  <2>9. /\ items'[c + 1].op = items[c + 1].op
        /\ items'[c + 1].data = Append(items[c + 1].data, Len(added) + 1)
    BY <2>5, <2>7 DEF d, n
  <2>10. RingInv(lim, items', limitIndex, Append(added, items[c + 1].op))
    BY <2>1, <2>7, <2>8, <2>9, MergeKeeps
  <2> QED BY <1>2, <2>1, <2>10
<1>3. CASE /\ lim > 0 /\ Len(items) >= lim /\ added' = Append(added, o)
           /\ items' = [items EXCEPT ![limitIndex + 1] = new]
           /\ limitIndex' = (limitIndex + 1) % lim
  BY <1>3, OverwriteKeeps
<1>4. CASE /\ ~(lim > 0 /\ Len(items) >= lim) /\ added' = Append(added, o)
           /\ items' = Append(items, new) /\ limitIndex' = limitIndex
  BY <1>4, AppendKeeps
<1> QED BY <1>2, <1>3, <1>4 DEF Adds

TraceLimit == IF part = "unlimited" THEN 0 ELSE Limit
TraceInv ==
  clock \in Nat /\ RingInv(TraceLimit, items, limitIndex, added)

\* A run has one limit.
LEMMA LimitStays == [MCNext]_allVars => part' = part /\ TraceLimit \in Nat
BY RingAssumption
   DEF MCNext, InMux, InMain, InServer, InRing, Running, allVars, TraceLimit

\* The steps of Ring and Unlimited are such steps, or move the clock.
LEMMA RingSteps ==
  ASSUME [MCNext]_allVars, clock \in Nat
  PROVE  /\ clock' \in Nat
         /\ \/ UNCHANGED <<items, limitIndex, added>>
            \/ \E o \in Ring!Ops : Adds(TraceLimit, o)
<1>1. CASE InRing("ring", Ring!Next)
  <2>1. TraceLimit = Limit
    BY <1>1 DEF InRing, Running, TraceLimit
  <2>2. CASE Ring!Tick
    BY <2>2 DEF Ring!Tick
  <2>3. CASE \E op \in Ring!Ops : Ring!Add(op)
    <3>1. PICK o \in Ring!Ops : Ring!Add(o)
      BY <2>3
    <3>2. Adds(Limit, o) /\ clock' = clock
      BY <3>1 DEF Ring!Add, Ring!Fresh, Ring!Put, Ring!Item, Adds
    <3> QED BY <2>1, <3>2
  <2> QED BY <1>1, <2>2, <2>3 DEF InRing, Ring!Next
<1>2. CASE InRing("unlimited", Unlimited!Next)
  <2>1. TraceLimit = 0
    BY <1>2 DEF InRing, Running, TraceLimit
  <2>2. CASE Unlimited!Tick
    BY <2>2 DEF Unlimited!Tick
  <2>3. CASE \E op \in Unlimited!Ops : Unlimited!Add(op)
    <3>1. PICK o \in Ring!Ops : Unlimited!Add(o)
      BY <2>3 DEF Unlimited!Ops, Ring!Ops
    <3>2. Adds(0, o) /\ clock' = clock
      BY <3>1 DEF Unlimited!Add, Unlimited!Fresh, Unlimited!Put,
        Unlimited!Item, Adds
    <3> QED BY <2>1, <3>2
  <2> QED BY <1>2, <2>2, <2>3 DEF InRing, Unlimited!Next
<1>3. CASE UNCHANGED ringVars
  BY <1>3 DEF ringVars
<1> QED BY <1>1, <1>2, <1>3
        DEF MCNext, InMux, InMain, InServer, allVars

\* The trace in every state.
LEMMA TraceInvAlways == MCSpec => []TraceInv
<1>1. MCInit => TraceInv
  <2> SUFFICES ASSUME MCInit PROVE TraceInv
    OBVIOUS
  <2>1. items = <<>> /\ limitIndex = 0 /\ clock = 0 /\ added = <<>>
    BY DEF MCInit, Ring!Init
  <2>2. Len(<<>>) = 0 /\ \A S : <<>> \in Seq(S)
    BY EmptySeq
  <2>3. FlattenSeq(Datas(<<>>)) = Numbers(0)
    <3>1. Datas(<<>>) = <<>> /\ Numbers(0) = <<>>
      BY <2>2 DEF Datas, Numbers
    <3> QED BY <3>1, FlattenEmpty
  <2>4. RingShape(TraceLimit, <<>>, 0, <<>>)
    BY <2>2, RingAssumption DEF RingShape, TraceLimit
  <2>5. ItemsHold(<<>>, 0, <<>>)
    BY <2>2 DEF ItemsHold, AllHold, Apart, InOrder, HasNewest
  <2>6. HoldsAll(TraceLimit, <<>>, 0, <<>>)
    BY <2>2, <2>3 DEF HoldsAll
  <2> QED BY <2>1, <2>4, <2>5, <2>6 DEF TraceInv, RingInv
<1>2. TraceInv /\ [MCNext]_allVars => TraceInv'
  <2> SUFFICES ASSUME TraceInv, [MCNext]_allVars PROVE TraceInv'
    OBVIOUS
  <2>1. PICK lim \in Nat : lim = TraceLimit /\ TraceLimit' = lim
    BY LimitStays DEF TraceLimit
  <2>2. clock \in Nat /\ RingInv(lim, items, limitIndex, added)
    BY <2>1 DEF TraceInv
  <2>3. /\ clock' \in Nat
        /\ \/ UNCHANGED <<items, limitIndex, added>>
           \/ \E o \in Ring!Ops : Adds(lim, o)
    BY <2>1, <2>2, RingSteps
  <2>4. RingInv(lim, items', limitIndex', added')
    <3>1. CASE UNCHANGED <<items, limitIndex, added>>
      BY <2>2, <3>1
    <3>2. CASE \E o \in Ring!Ops : Adds(lim, o)
      BY <2>2, <3>2, AddKeeps
    <3> QED BY <2>3, <3>1, <3>2
  <2> QED BY <2>1, <2>3, <2>4 DEF TraceInv
<1> QED BY <1>1, <1>2, PTL DEF MCSpec

\* The two instances flatten alike.
LEMMA SameFlatten ==
  \A s : Ring!FlattenSeq(s) = FlattenSeq(s)
          /\ Unlimited!FlattenSeq(s) = FlattenSeq(s)
BY DEF Ring!FlattenSeq, Unlimited!FlattenSeq, FlattenSeq

\* Of whatever is added, in any seconds, a trace holds the newest, nothing
\* twice and, in every item, data of one kind in the order in which it was
\* added; one that never was full holds everything.  For any limit and none.
THEOREM TraceHoldsNewestAlways == MCSpec => []TraceHoldsNewest
<1>1. TraceInv => TraceHoldsNewest
  <2> SUFFICES ASSUME TraceInv PROVE TraceHoldsNewest
    OBVIOUS
  <2>1. TraceLimit \in Nat
    BY RingAssumption DEF TraceLimit
  <2> DEFINE L == ListOf(items, limitIndex)
             all == FlattenSeq(Datas(L))
  <2>2. /\ limitIndex = 0 /\ (TraceLimit = 0 \/ Len(items) < TraceLimit) =>
             all = [n \in 1..Len(added) |-> n]
        /\ TraceLimit > 0 => Len(items) <= TraceLimit
        /\ added # <<>> => \E i \in 1..Len(all) : all[i] = Len(added)
        /\ \A i, j \in 1..Len(all) : all[i] = all[j] => i = j
        /\ \A i \in 1..Len(L) : LET d == L[i].data IN
             /\ \A k \in 1..Len(d) : added[d[k]] = L[i].op
             /\ \A k \in 1..(Len(d) - 1) : d[k] < d[k + 1]
        /\ \A i, j \in 1..Len(L) :
             i < j => Head(L[i].data) < Head(L[j].data)
    BY <2>1, RingPromise DEF TraceInv, Promise, Numbers
  <2>3. CASE part = "unlimited"
    <3>1. TraceLimit = 0
      BY <2>3 DEF TraceLimit
    <3>2. Unlimited!List = L
      BY DEF Unlimited!List, ListOf
    <3>3. Unlimited!AllData = all
      BY <3>2, SameFlatten DEF Unlimited!AllData, Datas
    <3>4. Unlimited!TraceHoldsNewest
      <4> HIDE DEF L, all
      <4> QED BY ONLY <2>2, <3>2, <3>3, <3>1 DEF Unlimited!TraceHoldsNewest
    <3> QED BY <2>3, <3>4 DEF TraceHoldsNewest
  <2>4. CASE part # "unlimited"
    <3>1. TraceLimit = Limit
      BY <2>4 DEF TraceLimit
    <3>2. Ring!List = L
      BY DEF Ring!List, ListOf
    <3>3. Ring!AllData = all
      BY <3>2, SameFlatten DEF Ring!AllData, Datas
    <3>4. Ring!TraceHoldsNewest
      <4> HIDE DEF L, all
      <4> QED BY ONLY <2>2, <3>2, <3>3, <3>1 DEF Ring!TraceHoldsNewest
    <3> QED BY <2>4, <3>4 DEF TraceHoldsNewest
  <2> QED BY <2>3, <2>4
<1> QED BY <1>1, TraceInvAlways, PTL
=============================================================================
