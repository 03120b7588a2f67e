---------------------------- MODULE GenericExecute ----------------------------
(***************************************************************************)
(* genericcli.GenericExecute: one session of a GenericDevice that runs     *)
(* command after command over one connector, against the Terminal.         *)
(*                                                                         *)
(* A call writes the command and then loops over ReadTo with an ordered    *)
(* list of expressions: echo, prompt, pager, questions, login, callbacks.  *)
(* ReadTo returns the first expression of the list that matches the bytes  *)
(* received so far; which bytes that is depends on how the transport cut   *)
(* the stream, so the loop must tolerate a prompt that shows up before the *)
(* echo (GOP 4).  What a call leaves unread stays in the connector and is  *)
(* the first thing the next call reads.                                    *)
(*                                                                         *)
(* One turn of the loop, from a match to the next ReadTo, is one action:   *)
(* nothing else touches the connector's buffer meanwhile.                  *)
(***************************************************************************)

EXTENDS Terminal

CONSTANTS
  MaxCommands,      (* bound: commands per session                          *)
  Texts,            (* the texts that commands may have                     *)
  CmdQuestions,     (* questions the command brings an Answer for, in order *)
  Callbacks,        (* expression callbacks of the command, in order        *)
  MaxRepeated,      (* maxRepeatedQuestion, 2 in the code                   *)
  CbLimit,          (* the callback limit, 100 in the code                  *)
  LoginInsteadEOF,  (* the connector has this feature and login is set      *)
  HasCmdTimeout     (* the commands carry a command timeout                 *)

ASSUME GenericExecuteAssumption ==
  /\ MaxCommands \in Nat
  /\ CmdQuestions \in Seq(Nat)
  /\ Callbacks \in Seq(Nat)
  /\ MaxRepeated \in Nat
  /\ CbLimit \in Nat
  /\ LoginInsteadEOF \in BOOLEAN
  /\ HasCmdTimeout \in BOOLEAN

VARIABLES
  cur,        (* the command being executed, 0 between calls               *)
  issued,     (* the texts of all commands so far                          *)
  buf,        (* the connector's unread bytes                              *)
  exprs,      (* the expression list, ExprAt gives the entries             *)
  cbStart,    (* callbackPatternStart: entries before the callbacks        *)
  seenEcho,
  page,       (* the output collected so far (buffer)                      *)
  lastQ,      (* lastQuestion, 0 if none                                   *)
  repQ,       (* repeatedQuestionCount                                     *)
  cbLeft,     (* cbLimit, counting down                                    *)
  cbRun,      (* history: callbacks answered since the last other match    *)
  pendErr,    (* lastPromptBeforeEchoError is set                          *)
  asked,      (* history: the last MaxRepeated + 1 questions answered      *)
  results     (* what the calls returned                                   *)

loopVars == <<exprs, cbStart, seenEcho, page, lastQ, repQ, cbLeft, cbRun,
              pendErr, asked>>
vars == <<termVars, cur, issued, buf, loopVars, results>>

Outcomes == {"ok", "failed", "echo", "timeout", "eof", "exec", "question",
             "repeated", "cblimit", "cbindex", "write"}

Result(status, data) == [n |-> cur, st |-> status, data |-> data]

-----------------------------------------------------------------------------
(* The expression list and its matches *)

Names == {"echo", "prompt", "pager", "question", "login", "cb"}
ExprEntry(name, arg) == [name |-> name, arg |-> arg]
ExprEntries == [name : Names, arg : Nat]

Entries(name, args) == [j \in DOMAIN args |-> ExprEntry(name, args[j])]

(* Argument 0 of a question is the device's own question expression. *)
FixedExprs ==
  <<ExprEntry("echo", 0), ExprEntry("prompt", 0), ExprEntry("pager", 0)>>
  \o Entries("question", CmdQuestions) \o <<ExprEntry("question", 0)>>
  \o (IF LoginInsteadEOF THEN <<ExprEntry("login", 0)>> ELSE <<>>)

InitialExprs == FixedExprs \o Entries("cb", Callbacks)

Least(S) == CHOOSE i \in S : \A j \in S : i <= j

(* SimpleExprList.Delete for a name that one entry has: the entries behind it
   move up by one. *)
DeleteExpr(list, name) ==
  LET i == Least({j \in DOMAIN list : list[j].name = name})
  IN  SubSeq(list, 1, i - 1) \o SubSeq(list, i + 1, Len(list))

SameText(n) == issued[n] = issued[cur]

(* Positions of buf that an entry matches: the echo, the questions of the
   command and the callbacks may match anywhere; prompt, pager, the device's
   question and login expressions match at the end of what was received. *)
Occurs(e, b) ==
  LET last == IF b # <<>> /\ b[Len(b)].k = e.name THEN {Len(b)} ELSE {}
  IN  CASE e.name = "echo" ->
             {i \in DOMAIN b : b[i].k = "echo" /\ SameText(b[i].n)}
        [] e.name = "question" /\ e.arg # 0 ->
             {i \in DOMAIN b : b[i].k = "question" /\ b[i].n = e.arg}
        [] e.name = "cb" ->
             {i \in DOMAIN b : b[i].k = "cb" /\ b[i].n = e.arg}
        [] OTHER -> last

Matching  == {j \in DOMAIN exprs : Occurs(exprs[j], buf) # {}}
HasMatch  == Matching # {}
MatchId   == Least(Matching)
MatchPos  == Least(Occurs(exprs[MatchId], buf))
Before    == SubSeq(buf, 1, MatchPos - 1)
After     == SubSeq(buf, MatchPos + 1, Len(buf))
Matched   == buf[MatchPos]

(* ReadTo returned a match of the expressions called name. *)
Sees(name) == cur # 0 /\ HasMatch /\ exprs[MatchId].name = name

(* checkEcho: evaluate the terminal sequences of the bytes before the match
   and look for the echo there.  The newline that ends the echo may have been
   consumed by the expression that matched next: for a prompt the check is
   repeated with a newline appended, for a question it is not. *)
HiddenEcho(b, newlineAppended) ==
  {i \in DOMAIN b : /\ b[i].k \in {"echo", "esc"} /\ SameText(b[i].n)
                    /\ newlineAppended \/ i < Len(b)}
(* Mutant: the cut is off by one and the echo stays in the result. *)
MutDropEchoKeepsEcho(b, newlineAppended) ==
  SubSeq(b, Least(HiddenEcho(b, newlineAppended)), Len(b))

DropEcho(b, newlineAppended) ==
  SubSeq(b, Least(HiddenEcho(b, newlineAppended)) + 1, Len(b))

-----------------------------------------------------------------------------

LoopTypeOK ==
  /\ exprs \in Seq(ExprEntries)
  /\ cbStart \in Nat
  /\ seenEcho \in BOOLEAN
  /\ page \in Seq(Tokens)
  /\ lastQ \in Nat
  /\ repQ \in 0..MaxRepeated
  /\ cbLeft \in 0..CbLimit
  /\ cbRun \in 0..CbLimit
  /\ pendErr \in BOOLEAN
  /\ asked \in Seq(Nat)

Results == [n : 1..MaxCommands, st : Outcomes, data : Seq(Tokens)]

TypeOK ==
  /\ TermTypeOK
  /\ cur \in 0..MaxCommands
  /\ issued \in Seq(Texts)
  /\ buf \in Seq(Tokens)
  /\ LoopTypeOK
  /\ results \in Seq(Results)

LoopStart ==
  /\ exprs' = InitialExprs
  /\ cbStart' = Len(FixedExprs)
  /\ seenEcho' = FALSE
  /\ page' = <<>>
  /\ lastQ' = 0
  /\ repQ' = 0
  /\ cbLeft' = CbLimit
  /\ cbRun' = 0
  /\ pendErr' = FALSE
  /\ asked' = <<>>

Init ==
  /\ TermInit
  /\ cur = 0
  /\ issued = <<>>
  /\ buf = <<>>
  /\ exprs = InitialExprs
  /\ cbStart = Len(FixedExprs)
  /\ seenEcho = FALSE
  /\ page = <<>>
  /\ lastQ = 0
  /\ repQ = 0
  /\ cbLeft = CbLimit
  /\ cbRun = 0
  /\ pendErr = FALSE
  /\ asked = <<>>
  /\ results = <<>>

(* The call returns; the local variables go back to their initial values. *)
Return(status, data) ==
  /\ results' = Append(results, Result(status, data))
  /\ cur' = 0
  /\ LoopStart
  /\ UNCHANGED issued

Fail(status) == Return(status, <<>>)

Continue == UNCHANGED <<cur, issued, results>>

(* connector.Write in the loop.  It fails if the connection is gone; input
   written to a terminal whose stream broke is lost. *)
Writes(input) ==
  /\ inq' = Append(inq, input)
  /\ UNCHANGED <<dev, left, wire, closed, said, swallowed>>

WriteFails ==
  /\ closed
  /\ Fail("write")
  /\ UNCHANGED termVars

(* A call of Execute: write the command and a newline. *)
Execute(text) ==
  /\ cur = 0
  /\ Len(issued) < MaxCommands
  /\ cur' = Len(issued) + 1
  /\ issued' = Append(issued, text)
  /\ said' = Append(said, NothingSaid)
  /\ inq' = Append(inq, Input("cmd", Len(issued) + 1))
  /\ LoopStart
  /\ UNCHANGED <<dev, left, wire, closed, swallowed, buf, results>>

(* The write fails because the connection is gone. *)
ExecuteWriteFails(text) ==
  /\ cur = 0
  /\ closed
  /\ Len(issued) < MaxCommands
  /\ issued' = Append(issued, text)
  /\ said' = Append(said, NothingSaid)
  /\ results' = Append(results, [n |-> Len(issued) + 1, st |-> "write",
                                data |-> <<>>])
  /\ UNCHANGED <<inq, dev, left, wire, closed, swallowed, cur, buf, loopVars>>

(* ReadTo: no expression matches what has been received, and the channel has
   more: one or several chunks. *)
Receive ==
  /\ cur # 0
  /\ ~HasMatch
  /\ \E k \in 1..Len(wire) :
       /\ buf' = buf \o SubSeq(wire, 1, k)
       /\ wire' = SubSeq(wire, k + 1, Len(wire))
  /\ UNCHANGED <<inq, dev, left, closed, said, swallowed, loopVars>>
  /\ Continue

(* Mutant: the error saved by GOP 4 survives the echo. *)
MutSeeEchoKeepsError ==
  /\ Sees("echo")
  /\ buf' = After
  /\ seenEcho' = TRUE
  /\ exprs' = DeleteExpr(exprs, "echo")
  /\ cbStart' = cbStart - 1
  /\ UNCHANGED <<page, lastQ, repQ, cbLeft, cbRun, pendErr, asked, termVars>>
  /\ Continue

(* Mutant: the list shrinks, the start of the callbacks does not move. *)
MutSeeEchoKeepsCbStart ==
  /\ Sees("echo")
  /\ buf' = After
  /\ seenEcho' = TRUE
  /\ exprs' = DeleteExpr(exprs, "echo")
  /\ pendErr' = FALSE
  /\ UNCHANGED <<cbStart, page, lastQ, repQ, cbLeft, cbRun, asked, termVars>>
  /\ Continue

(* The echo: it and everything before it is dropped. *)
SeeEcho ==
  /\ Sees("echo")
  /\ buf' = After
  /\ seenEcho' = TRUE
  /\ exprs' = DeleteExpr(exprs, "echo")
  /\ cbStart' = cbStart - 1
  /\ pendErr' = FALSE
  /\ UNCHANGED <<page, lastQ, repQ, cbLeft, cbRun, asked, termVars>>
  /\ Continue

(* Nothing or a single byte before the first match: no echo can be there. *)
EchoMissing == ~seenEcho /\ Before = <<>>

(* Mutant: a prompt ends the call whether or not the echo was seen. *)
MutSeePromptWithoutEcho ==
  /\ Sees("prompt")
  /\ ~EchoMissing
  /\ buf' = After
  /\ Return("ok", page \o Before)
  /\ UNCHANGED termVars

(* A prompt after the echo, or with the echo hidden before it: done.  The
   output is checked for the device's error expression. *)
SeePrompt ==
  /\ Sees("prompt")
  /\ ~EchoMissing
  /\ seenEcho \/ HiddenEcho(Before, TRUE) # {}
  /\ buf' = After
  /\ LET rest == IF seenEcho THEN Before ELSE DropEcho(Before, TRUE)
         data == page \o rest
         bad  == \E i \in DOMAIN data : data[i].k = "err"
     IN  Return(IF bad THEN "failed" ELSE "ok", data)
  /\ UNCHANGED termVars

(* A prompt before the echo: the bytes before the prompt go back to the
   connector, the error is kept for the case that no echo follows (GOP 4). *)
SeePromptBeforeEcho ==
  /\ Sees("prompt")
  /\ ~EchoMissing
  /\ ~seenEcho
  /\ HiddenEcho(Before, TRUE) = {}
  /\ buf' = Before \o After
  /\ pendErr' = TRUE
  /\ UNCHANGED <<exprs, cbStart, seenEcho, page, lastQ, repQ, cbLeft, cbRun,
                 asked, termVars>>
  /\ Continue

(* Any other match without an echo ends the call. *)
SeeWithoutEcho ==
  /\ cur # 0 /\ HasMatch /\ exprs[MatchId].name # "echo"
  /\ ~seenEcho
  /\ \/ EchoMissing
     \/ exprs[MatchId].name \in {"pager", "login", "cb"}
     \/ exprs[MatchId].name = "question" /\ HiddenEcho(Before, FALSE) = {}
  /\ buf' = After
  /\ Fail("echo")
  /\ UNCHANGED termVars

(* Mutant: the output before the pager is not collected. *)
MutSeePagerLosesPage ==
  /\ Sees("pager")
  /\ seenEcho
  /\ buf' = After
  /\ \/ /\ cbRun' = 0
        /\ Writes(Input("page", 0))
        /\ UNCHANGED <<exprs, cbStart, seenEcho, page, lastQ, repQ, cbLeft,
                       pendErr, asked>>
        /\ Continue
     \/ WriteFails

(* Mutant: a pager is answered before the echo was seen. *)
MutSeePagerAnyTime ==
  /\ Sees("pager")
  /\ buf' = After
  /\ \/ /\ page' = page \o Before
        /\ cbRun' = 0
        /\ Writes(Input("page", 0))
        /\ UNCHANGED <<exprs, cbStart, seenEcho, lastQ, repQ, cbLeft, pendErr,
                       asked>>
        /\ Continue
     \/ WriteFails

(* The pager: the output before it is kept and the next page requested. *)
SeePager ==
  /\ Sees("pager")
  /\ seenEcho
  /\ buf' = After
  /\ \/ /\ page' = page \o Before
        /\ cbRun' = 0
        /\ Writes(Input("page", 0))
        /\ UNCHANGED <<exprs, cbStart, seenEcho, lastQ, repQ, cbLeft, pendErr,
                       asked>>
        /\ Continue
     \/ WriteFails

(* Mutant: the repetition counter is not incremented. *)
MutQuestionCountStuck == IF Matched.n = lastQ THEN repQ ELSE 1

(* How often the question has now been asked in a row. *)
QuestionCount == IF Matched.n = lastQ THEN repQ + 1 ELSE 1

Latest(list) == IF Len(list) > MaxRepeated + 1 THEN Tail(list) ELSE list

(* A question: the command's Answer for it is written unless the same question
   was asked too often in a row (GOP 3).  The output before it is dropped. *)
SeeQuestion ==
  /\ Sees("question")
  /\ ~EchoMissing
  /\ seenEcho \/ HiddenEcho(Before, FALSE) # {}
  /\ buf' = After
  /\ IF \A j \in DOMAIN CmdQuestions : CmdQuestions[j] # Matched.n
     THEN Fail("question") /\ UNCHANGED termVars
     ELSE IF QuestionCount > MaxRepeated
     THEN Fail("repeated") /\ UNCHANGED termVars
     ELSE \/ /\ lastQ' = Matched.n
             /\ repQ' = QuestionCount
             /\ seenEcho' = TRUE
             /\ exprs' = IF seenEcho THEN exprs ELSE DeleteExpr(exprs, "echo")
             /\ cbStart' = IF seenEcho THEN cbStart ELSE cbStart - 1
             /\ pendErr' = FALSE
             /\ cbRun' = 0
             /\ asked' = Latest(Append(asked, Matched.n))
             /\ Writes(Input("answer", Matched.n))
             /\ UNCHANGED <<page, cbLeft>>
             /\ Continue
          \/ WriteFails

(* Mutant: the callback limit is not tested. *)
MutSeeCallbackUnlimited ==
  /\ Sees("cb")
  /\ seenEcho
  /\ buf' = After
  /\ cbLeft' = cbLeft - 1
  /\ cbRun' = cbRun + 1
  /\ Writes(Input("cb", Matched.n))
  /\ UNCHANGED <<exprs, cbStart, seenEcho, page, lastQ, repQ, pendErr, asked>>
  /\ Continue

CbIndex == MatchId - cbStart

(* A callback pattern: its text, found by position in the expression list, is
   written, at most CbLimit times per call. *)
SeeCallback ==
  /\ Sees("cb")
  /\ seenEcho
  /\ buf' = After
  /\ IF cbLeft = 0
     THEN Fail("cblimit") /\ UNCHANGED termVars
     ELSE IF CbIndex \notin DOMAIN Callbacks
     THEN Fail("cbindex") /\ UNCHANGED termVars
     ELSE \/ /\ cbLeft' = cbLeft - 1
             /\ cbRun' = cbRun + 1
             /\ Writes(Input("cb", Callbacks[CbIndex]))
             /\ UNCHANGED <<exprs, cbStart, seenEcho, page, lastQ, repQ,
                            pendErr, asked>>
             /\ Continue
          \/ WriteFails

(* The login prompt of a console stands for EOF (GOP 2). *)
SeeLogin ==
  /\ Sees("login")
  /\ seenEcho
  /\ buf' = After
  /\ Fail("eof")
  /\ UNCHANGED termVars

(* The error of a failed ReadTo: a device error in the last bytes read comes
   first (timeouts only), then the echo error saved by GOP 4. *)
ReadError(status, lastRead) ==
  IF status = "timeout" /\ \E i \in DOMAIN lastRead : lastRead[i].k = "err"
  THEN "exec"
  ELSE IF pendErr THEN "echo" ELSE status

(* No match for the read timeout, or the command's deadline has passed; what
   the channel holds by then joins the unread bytes. *)
ReadTimesOut ==
  /\ cur # 0
  /\ HasCmdTimeout \/ ~HasMatch
  /\ \E k \in 0..Len(wire) :
       /\ buf' = buf \o SubSeq(wire, 1, k)
       /\ wire' = SubSeq(wire, k + 1, Len(wire))
       /\ Fail(ReadError("timeout", buf'))
  /\ UNCHANGED <<inq, dev, left, closed, said, swallowed>>

(* The channel is closed and drained: the unread bytes are dropped. *)
ReadEOF ==
  /\ cur # 0
  /\ ~HasMatch
  /\ closed
  /\ wire = <<>>
  /\ buf' = <<>>
  /\ Fail(ReadError("eof", buf))
  /\ UNCHANGED termVars

Loop ==
  \/ SeeEcho \/ SeePrompt \/ SeePromptBeforeEcho \/ SeeWithoutEcho
  \/ SeePager \/ SeeQuestion \/ SeeCallback \/ SeeLogin

(* The session ends: no more commands, and nothing under way. *)
Finished ==
  /\ cur = 0
  /\ Len(issued) = MaxCommands
  /\ UNCHANGED vars

Next ==
  \/ \E text \in Texts : Execute(text) \/ ExecuteWriteFails(text)
  \/ Receive \/ Loop \/ ReadTimesOut \/ ReadEOF
  \/ TermNext /\ UNCHANGED <<cur, issued, buf, loopVars, results>>
  \/ Finished

Spec == Init /\ [][Next]_vars

(* The goroutine runs when ReadTo has a match or the channel has data or is
   closed; timers expire.  The terminal owes nothing. *)
Fairness ==
  /\ WF_vars(Loop)
  /\ WF_vars(Receive)
  /\ WF_vars(ReadTimesOut)
  /\ WF_vars(ReadEOF)

FairSpec == Spec /\ Fairness

-----------------------------------------------------------------------------
(* What a call returns *)

Answered == {"ok", "failed"}

(* No earlier call of the session has failed. *)
Fresh(n) == \A j \in DOMAIN results :
              results[j].n < n => results[j].st \in Answered

(* While no call has failed, every result is exactly what the device printed
   for that command, less what it printed right before a question or callback
   (since the pager, question or callback before it): nothing else is lost,
   and nothing is repeated, reordered, left over from another command or part
   of the echo, however the stream is cut and wherever redraws fall. *)
ResultExact ==
  \A j \in DOMAIN results :
    LET r == results[j]
    IN  r.st \in Answered /\ Fresh(r.n) =>
          r.data = said[r.n].kept \o said[r.n].recent

(* After a failed call the late output of that command is still under way.  A
   later result holds no other command's output, because everything up to the
   command's own echo is dropped, with two exceptions: the earlier command had
   the same text, or the device took this command for an answer. *)
NoForeignOutput ==
  \A j \in DOMAIN results :
    LET r == results[j]
    IN  r.st \in Answered =>
          \/ \A i \in DOMAIN r.data : r.data[i].n = r.n
          \/ \E m \in 1..(r.n - 1) :
               issued[m] = issued[r.n] /\ ~Fresh(m + 1)
          \/ r.n \in swallowed

LastResult == results'[Len(results')]
Returns == Len(results') > Len(results) /\ cur # 0

(* GOP 4, the order of errors: an echo error is reported only if the echo was
   never seen, and once a prompt came before the echo the call does not end as
   a plain timeout or EOF. *)
EchoErrorOrder ==
  [][Returns =>
       /\ LastResult.st = "echo" => ~seenEcho
       /\ pendErr => LastResult.st \notin {"timeout", "eof"}]_vars

(* Nothing is written to the device between the command and its echo: text
   left over from an earlier command is never answered. *)
NoAnswerBeforeEcho ==
  [][cur # 0 /\ Len(inq') > Len(inq) => seenEcho']_vars

(* GOP 3: the same question is answered at most MaxRepeated times in a row. *)
RepeatedAnswersBounded ==
  Len(asked) > MaxRepeated => \E i, j \in DOMAIN asked : asked[i] # asked[j]

(* A callback pattern gets the text configured for that pattern, although the
   positions in the expression list shift when the echo is removed. *)
CallbackGetsItsText ==
  [][Sees("cb") /\ seenEcho /\ cbLeft > 0 =>
       /\ Len(inq') > Len(inq) => inq'[Len(inq')] = Input("cb", Matched.n)
       /\ Returns => LastResult.st # "cbindex"]_vars

(* What GOP 4 says of a prompt before the echo: gnetcli records the error,
   prepends the bytes and continues reading.  The code gives up at once when
   fewer than two bytes came before the prompt. *)
PromptBeforeEchoContinues ==
  [][Loop /\ Sees("prompt") /\ Returns => LastResult.st # "echo"]_vars

(* What the comment at the callback limit says: it is reset in other cases,
   so that only CbLimit callbacks in a row can exhaust it. *)
CallbackLimitIsPerRun ==
  [][Returns /\ LastResult.st = "cblimit" => cbRun = CbLimit]_vars

(* A call returns even if the device never stops asking the same question and
   never answers at all: read timeouts, GOP 3 and the callback limit end it. *)
ExecuteReturns == cur # 0 ~> cur = 0

-----------------------------------------------------------------------------
(* Refinement *)

Session == INSTANCE CommandSession
  WITH output <- [n \in DOMAIN said |-> said[n].kept \o said[n].recent],
       Errors <- Outcomes \ Answered

(* GenericExecute implements CommandSession: one result per call, in order,
   exact until the first error, and nothing of a successful command is still
   to come when its call has returned. *)
ImplementsSession == Session!Spec

=============================================================================
