---------------------------- MODULE ConnOwnership ----------------------------
(***************************************************************************)
(* What the shared listener of gnetcli_server promises about every         *)
(* connection it accepts: exactly one party owns it.  The mux owns it      *)
(* first; then it either hands it to one protocol server, for good, or     *)
(* closes it.  ListenerMux is shown to implement this specification.       *)
(***************************************************************************)

CONSTANT Conns        (* the connections that clients may open *)

VARIABLE owner        (* who answers for each connection *)

(* "client": not accepted yet; "mux": accepted, not classified or not yet
   handed over; "server": handed to a protocol server; "nobody": closed *)
Owners == {"client", "mux", "server", "nobody"}

Init == owner = [c \in Conns |-> "client"]

Move(c, from, to) ==
  /\ owner[c] = from
  /\ owner' = [owner EXCEPT ![c] = to]

Take(c)   == Move(c, "client", "mux")
Give(c)   == Move(c, "mux", "server")
Drop(c)   == Move(c, "mux", "nobody")

(* Close drops every connection the mux still owns in one step. *)
DropMany(S) ==
  /\ \A c \in S : owner[c] = "mux"
  /\ owner' = [c \in Conns |-> IF c \in S THEN "nobody" ELSE owner[c]]

Next ==
  \/ \E c \in Conns : Take(c) \/ Give(c) \/ Drop(c)
  \/ \E S \in SUBSET Conns : DropMany(S)

Spec == Init /\ [][Next]_owner

TypeOK == owner \in [Conns -> Owners]

=============================================================================
