------------------------------- MODULE Terminal -------------------------------
(***************************************************************************)
(* The other end of a CLI session, seen from GenericExecute: an            *)
(* interactive terminal that reads lines and prints tokens, and the stream *)
(* that carries the tokens back.  It is external to the repository; its    *)
(* behaviour is what GenericExecute, the device definitions and their      *)
(* recorded dialogs take into account.                                     *)
(*                                                                         *)
(* A token stands for a run of bytes that one expression of GenericCLI     *)
(* matches, or that no expression matches:                                 *)
(*   echo      a complete command line, as the echo expression expects it  *)
(*   esc       the same, with control sequences inside: the expression     *)
(*             matches only after terminal.ParseDropLastReturn             *)
(*   part      an incomplete command line (a redraw, GOP 4)                *)
(*   prompt, pager, question, cb, login                                    *)
(*   out, err  output, and output that the error expression matches        *)
(* Field n is the command that the token is about, and for question and cb *)
(* which question or callback pattern; field i numbers output tokens.      *)
(***************************************************************************)

EXTENDS Integers, Sequences

CONSTANTS
  EchoForms,   (* how lines are echoed: a subset of EchoKinds             *)
  MaxPrints,   (* bound: output tokens per command                        *)
  Asked,       (* the pager, questions and callbacks the terminal may use *)
  Quirks       (* a subset of QuirkKinds                                  *)

EchoKinds  == {"plain", "esc", "redraw"}
QuirkKinds == {"close", "logout", "echoes answers", "errors"}
AskKinds   == {"pager", "question", "cb"}
TokenKinds == AskKinds \union
              {"echo", "esc", "part", "prompt", "login", "out", "err"}

ASSUME TerminalAssumption ==
  /\ EchoForms \subseteq EchoKinds
  /\ MaxPrints \in Nat
  /\ Asked \subseteq AskKinds \X Nat
  /\ Quirks \subseteq QuirkKinds

VARIABLES
  inq,       (* lines and answers written by the client, not yet read     *)
  dev,       (* what the terminal is doing, and for which command         *)
  left,      (* output tokens it may still print for that command         *)
  wire,      (* tokens printed and not yet received by the client         *)
  closed,    (* the stream is closed: no token will be added to wire      *)
  said,      (* history: per command, its output up to the last pager and
                its output since the last pager, question or callback *)
  swallowed  (* history: commands the terminal took for an answer         *)

termVars == <<inq, dev, left, wire, closed, said, swallowed>>

Token(kind, n, i) == [k |-> kind, n |-> n, i |-> i]
Tokens == [k : TokenKinds, n : Nat, i : Nat]

(* What a client writes: a command line, a space for the pager, an answer to
   question n, or the text of callback n. *)
Input(kind, n) == [k |-> kind, n |-> n]
Inputs == [k : {"cmd", "page", "answer", "cb"}, n : Nat]

TermTypeOK ==
  /\ inq \in Seq(Inputs)
  /\ dev \in [st : {"prompt", "busy", "ask", "login"}, n : Nat]
  /\ left \in 0..MaxPrints
  /\ wire \in Seq(Tokens)
  /\ closed \in BOOLEAN
  /\ said \in Seq([kept : Seq(Tokens), recent : Seq(Tokens)])
  /\ swallowed \in SUBSET Nat

TermInit ==
  /\ inq = <<>>
  /\ dev = [st |-> "prompt", n |-> 0]
  /\ left = 0
  /\ wire = <<>>
  /\ closed = FALSE
  /\ said = <<>>
  /\ swallowed = {}

-----------------------------------------------------------------------------

Echo(form, n) ==
  CASE form = "plain"  -> <<Token("echo", n, 0)>>
    [] form = "esc"    -> <<Token("esc", n, 0)>>
    [] form = "redraw" -> <<Token("prompt", 0, 0), Token("part", n, 0),
                            Token("prompt", 0, 0), Token("echo", n, 0)>>

NothingSaid == [kept |-> <<>>, recent |-> <<>>]

Prints(tokens) == wire' = wire \o tokens

(* At its prompt the terminal reads a line.  A command is echoed and run; a
   late answer is an unknown command: the prompt is printed again. *)
TermReadsCommand ==
  /\ ~closed
  /\ dev.st = "prompt"
  /\ inq # <<>>
  /\ Head(inq).k = "cmd"
  /\ inq' = Tail(inq)
  /\ dev' = [st |-> "busy", n |-> Head(inq).n]
  /\ left' = MaxPrints
  /\ \E form \in EchoForms : Prints(Echo(form, Head(inq).n))
  /\ UNCHANGED <<closed, said, swallowed>>

TermReadsLateAnswer ==
  /\ ~closed
  /\ dev.st = "prompt"
  /\ inq # <<>>
  /\ Head(inq).k # "cmd"
  /\ inq' = Tail(inq)
  /\ Prints(<<Token("prompt", 0, 0)>>)
  /\ UNCHANGED <<dev, left, closed, said, swallowed>>

(* The terminal prints output of the command it runs. *)
TermPrints(kind) ==
  /\ ~closed
  /\ dev.st = "busy"
  /\ left > 0
  /\ kind = "err" => "errors" \in Quirks
  /\ left' = left - 1
  /\ LET token == Token(kind, dev.n, MaxPrints - left)
     IN  /\ Prints(<<token>>)
         /\ said' = [said EXCEPT ![dev.n].recent = Append(@, token)]
  /\ UNCHANGED <<inq, dev, closed, swallowed>>

(* It stops for the pager, a question or a callback pattern, and waits. *)
TermAsks(ask) ==
  /\ ~closed
  /\ dev.st = "busy"
  /\ dev' = [dev EXCEPT !.st = "ask"]
  /\ Prints(<<Token(ask[1], ask[2], 0)>>)
  /\ said' = [said EXCEPT
                ![dev.n] = [kept   |-> IF ask[1] = "pager"
                                       THEN @.kept \o @.recent ELSE @.kept,
                            recent |-> <<>>]]
  /\ UNCHANGED <<inq, left, closed, swallowed>>

(* Whatever it reads then is taken for the answer, a command line too. *)
TermReadsAnswer ==
  /\ ~closed
  /\ dev.st = "ask"
  /\ inq # <<>>
  /\ inq' = Tail(inq)
  /\ dev' = [dev EXCEPT !.st = "busy"]
  /\ LET line == Head(inq)
     IN  IF line.k = "cmd"
         THEN /\ swallowed' = swallowed \union {line.n}
              /\ \/ UNCHANGED wire
                 \/ /\ "echoes answers" \in Quirks
                    /\ Prints(<<Token("echo", line.n, 0)>>)
         ELSE UNCHANGED <<swallowed, wire>>
  /\ UNCHANGED <<left, closed, said>>

(* The command is done. *)
TermPrompts ==
  /\ ~closed
  /\ dev.st = "busy"
  /\ dev' = [dev EXCEPT !.st = "prompt"]
  /\ Prints(<<Token("prompt", 0, 0)>>)
  /\ UNCHANGED <<inq, left, closed, said, swallowed>>

(* The command ends the session; a console then shows the login prompt. *)
TermLogsOut ==
  /\ ~closed
  /\ "logout" \in Quirks
  /\ dev.st = "busy"
  /\ dev' = [dev EXCEPT !.st = "login"]
  /\ Prints(<<Token("login", 0, 0)>>)
  /\ UNCHANGED <<inq, left, closed, said, swallowed>>

(* A line at the login prompt is a user name, not echoed as a command. *)
TermReadsLogin ==
  /\ ~closed
  /\ dev.st = "login"
  /\ inq # <<>>
  /\ inq' = Tail(inq)
  /\ Prints(<<Token("login", 0, 0)>>)
  /\ UNCHANGED <<dev, left, closed, said, swallowed>>

(* The connection is lost: the reader goroutine closes the channel. *)
TermCloses ==
  /\ ~closed
  /\ "close" \in Quirks
  /\ closed' = TRUE
  /\ UNCHANGED <<inq, dev, left, wire, said, swallowed>>

TermNext ==
  \/ TermReadsCommand \/ TermReadsLateAnswer
  \/ TermPrints("out") \/ TermPrints("err")
  \/ \E ask \in Asked : TermAsks(ask)
  \/ TermReadsAnswer \/ TermPrompts
  \/ TermLogsOut \/ TermReadsLogin \/ TermCloses

=============================================================================
