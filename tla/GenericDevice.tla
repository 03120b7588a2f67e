---------------------------- MODULE GenericDevice ----------------------------
(***************************************************************************)
(* The life of a GenericDevice: Connect opens the transport only; the      *)
(* first Execute runs connectCLI, which reads the device's greeting or     *)
(* logs in by hand, then runs the automatic commands, and only then the    *)
(* user's command.  One caller, one device, one connection.                *)
(*                                                                         *)
(* A command run (GenericExecute, see that module) is reduced to what      *)
(* matters here: it writes its line and returns either a result, after the *)
(* echo of this line and a prompt behind it, or an error, at any time.     *)
(*                                                                         *)
(* The device prints tokens: login, password, passwdErr, prompt, question, *)
(* motd and ask (both match the login callbacks, only ask waits for an     *)
(* answer), and echo.  The login expressions match at the end of what was  *)
(* received, the callbacks anywhere.                                       *)
(***************************************************************************)

EXTENDS Integers, Sequences

CONSTANTS
  AutoLogins,    (* what autoLogin may be                             *)
  NPasswords,    (* passwords of the credentials                      *)
  NAuto,         (* automatic commands                                *)
  LoginTries,    (* matches that connectCLI handles, 10 in the code   *)
  MaxCalls,      (* bound: calls of Execute                           *)
  MaxGreetings   (* bound: motd, ask and question tokens of a device  *)

ASSUME GenericDeviceAssumption ==
  /\ AutoLogins \subseteq BOOLEAN
  /\ NPasswords \in Nat
  /\ NAuto \in Nat
  /\ LoginTries \in Nat \ {0}
  /\ MaxCalls \in Nat
  /\ MaxGreetings \in Nat

VARIABLES
  autoLogin,     (* the connector logs in, no manual login is forced; never
                    changes *)
  pc,            (* where the caller is                                     *)
  cliConnected,
  calls,         (* number of calls of Execute so far                       *)
  cbBefore,      (* what the callbacks come before in the list built from a
                    map, whose order is not determined *)
  tries,         (* matches that connectCLI may still handle                *)
  passwordIdx,   (* passwords sent                                          *)
  autoDone,      (* automatic commands done                                 *)
  buf,           (* received and not consumed                               *)
  results,       (* what the calls of Execute returned                      *)
  wire,          (* printed by the device, not yet received                 *)
  inq,           (* lines written, not yet read by the device               *)
  dev,           (* the device's state                                      *)
  greetings,     (* greetings it may still print                            *)
  rejected,      (* history: passwords the device has refused               *)
  misread,       (* history: kinds of lines read in a state not meant for
                    them, with that state *)
  prompted       (* history: the login ended on a prompt                    *)

callerVars == <<pc, cliConnected, calls, cbBefore, tries, passwordIdx,
                autoDone, results, prompted>>
devVars    == <<dev, greetings, rejected, misread>>
vars       == <<autoLogin, callerVars, buf, wire, inq, devVars>>

Login == {"greet", "greetPrompt", "login"}

Tokens == [k : {"login", "password", "passwdErr", "prompt", "question", "motd",
                "ask", "auto", "user"},
           n : Nat]
Lines  == [k : {"auto", "user", "name", "password", "answer"}, n : Nat]

Token(kind) == [k |-> kind, n |-> 0]
Line(kind, n) == [k |-> kind, n |-> n]

TypeOK ==
  /\ autoLogin \in AutoLogins
  /\ pc \in {"closed", "idle", "auto", "user"} \union Login
  /\ cliConnected \in BOOLEAN
  /\ calls \in 0..MaxCalls
  /\ cbBefore \subseteq {"prompt", "question"}
  /\ tries \in 0..LoginTries
  /\ passwordIdx \in 0..NPasswords
  /\ autoDone \in 0..NAuto
  /\ buf \in Seq(Tokens)
  /\ results \in Seq({"ok", "auth", "question", "nopassword", "error"})
  /\ wire \in Seq(Tokens)
  /\ inq \in Seq(Lines)
  /\ dev \in {"boot", "login", "password", "welcome", "ask", "prompt"}
  /\ greetings \in 0..MaxGreetings
  /\ rejected \in 0..NPasswords
  /\ misread \subseteq
       {"auto", "user", "name", "password", "answer"} \X
       {"login", "password", "ask", "prompt"}
  /\ prompted \in BOOLEAN

Init ==
  /\ autoLogin \in AutoLogins
  /\ pc = "closed"
  /\ cliConnected = FALSE
  /\ calls = 0
  /\ cbBefore = {}
  /\ tries = 0
  /\ passwordIdx = 0
  /\ autoDone = 0
  /\ buf = <<>>
  /\ results = <<>>
  /\ wire = <<>>
  /\ inq = <<>>
  /\ dev = IF autoLogin THEN "welcome" ELSE "boot"
  /\ greetings = MaxGreetings
  /\ rejected = 0
  /\ misread = {}
  /\ prompted = FALSE

-----------------------------------------------------------------------------
(* The device *)

Prints(kinds) == wire' = wire \o [i \in DOMAIN kinds |-> Token(kinds[i])]

DevBoots ==
  /\ dev = "boot"
  /\ \E st \in {"login", "password"} : dev' = st /\ Prints(<<st>>)
  /\ UNCHANGED <<callerVars, buf, inq, greetings, rejected, misread>>

(* A line is misread if it reaches a state that it was not written for. *)
MeantFor(line) ==
  CASE line.k = "name"     -> "login"
    [] line.k = "password" -> "password"
    [] line.k = "answer"   -> "ask"
    [] OTHER               -> "prompt"

Reads(st) ==
  /\ dev = st
  /\ inq # <<>>
  /\ inq' = Tail(inq)
  /\ misread' = IF MeantFor(Head(inq)) = st THEN misread
                ELSE misread \union {<<Head(inq).k, st>>}
  /\ UNCHANGED <<callerVars, buf>>

DevReadsName ==
  /\ Reads("login")
  /\ \/ dev' = "password" /\ Prints(<<"password">>)
     \/ dev' = "welcome" /\ UNCHANGED wire
  /\ UNCHANGED <<greetings, rejected>>

DevAccepts ==
  /\ Reads("password")
  /\ dev' = "welcome"
  /\ UNCHANGED <<wire, greetings, rejected>>

DevRejects ==
  /\ Reads("password")
  /\ rejected' = IF Head(inq).k = "password" THEN rejected + 1 ELSE rejected
  /\ \E st \in {"login", "password"} :
       /\ dev' = st
       /\ Prints(<<st>>) \/ Prints(<<"passwdErr", st>>)
  /\ UNCHANGED greetings

DevGreets ==
  /\ dev = "welcome"
  /\ greetings > 0
  /\ greetings' = greetings - 1
  /\ \E kind \in {"motd", "ask", "question"} :
       /\ Prints(<<kind>>)
       /\ dev' = IF kind = "motd" THEN "welcome" ELSE "ask"
  /\ UNCHANGED <<callerVars, buf, inq, rejected, misread>>

DevReadsAnswer ==
  /\ Reads("ask")
  /\ dev' = "welcome"
  /\ UNCHANGED <<wire, greetings, rejected>>

DevPrompts ==
  /\ dev = "welcome"
  /\ dev' = "prompt"
  /\ Prints(<<"prompt">>)
  /\ UNCHANGED <<callerVars, buf, inq, greetings, rejected, misread>>

(* At its prompt the device runs a command; other lines are unknown ones. *)
DevReadsCommand ==
  /\ Reads("prompt")
  /\ wire' = wire \o (IF Head(inq).k \in {"auto", "user"} THEN <<Head(inq)>>
                                                          ELSE <<>>)
                  \o <<Token("prompt")>>
  /\ UNCHANGED <<dev, greetings, rejected>>

Device ==
  \/ DevBoots \/ DevReadsName \/ DevAccepts \/ DevRejects
  \/ DevGreets \/ DevReadsAnswer \/ DevPrompts \/ DevReadsCommand

-----------------------------------------------------------------------------
(* Reading *)

Sees(kind) == buf # <<>> /\ buf[Len(buf)].k = kind

Callback == {i \in DOMAIN buf : buf[i].k \in {"motd", "ask"}}
FirstCallback == CHOOSE i \in Callback : \A j \in Callback : i <= j
AfterCallback == SubSeq(buf, FirstCallback + 1, Len(buf))

SeesAny(kinds) == \E kind \in kinds : Sees(kind)

Matches ==
  CASE pc = "greet"       -> SeesAny({"prompt", "question"}) \/ Callback # {}
    [] pc = "greetPrompt" -> Sees("prompt")
    [] pc = "login"       -> \/ SeesAny({"login", "password", "prompt",
                                         "passwdErr"})
                             \/ Callback # {}
    [] OTHER              -> FALSE

Receive ==
  /\ pc \in Login \union {"auto", "user"}
  /\ ~Matches
  /\ \E k \in 1..Len(wire) :
       /\ buf' = buf \o SubSeq(wire, 1, k)
       /\ wire' = SubSeq(wire, k + 1, Len(wire))
  /\ UNCHANGED <<callerVars, inq, devVars>>

-----------------------------------------------------------------------------
(* Execute, from its start to its end *)

Write(lines) == inq' = inq \o lines

Returns(result) ==
  /\ results' = Append(results, result)
  /\ pc' = "idle"
  /\ UNCHANGED inq

Answer == <<Line("answer", 0)>>

(* The login is over: the automatic commands, one after the other, then the
   user's command.  Before, other lines are written in the same step. *)
RunNext(before, done) ==
  /\ autoDone' = done
  /\ IF done < NAuto
     THEN pc' = "auto" /\ Write(before \o <<Line("auto", done + 1)>>)
     ELSE pc' = "user" /\ Write(before \o <<Line("user", calls)>>)
  /\ UNCHANGED results

(* Connect: the transport is up, the CLI is not touched. *)
Connect ==
  /\ pc = "closed"
  /\ pc' = "idle"
  /\ cliConnected' = FALSE
  /\ UNCHANGED <<calls, cbBefore, tries, passwordIdx, autoDone, results,
                 prompted, buf, wire, inq, devVars>>

(* The first Execute: cliConnected is set before anything is tried. *)
ExecuteFirst ==
  /\ pc = "idle"
  /\ calls < MaxCalls
  /\ ~cliConnected
  /\ cliConnected' = TRUE
  /\ calls' = calls + 1
  /\ IF autoLogin
     THEN pc' = "greet" /\ cbBefore' \in SUBSET {"prompt", "question"}
     ELSE pc' = "login" /\ UNCHANGED cbBefore
  /\ tries' = LoginTries
  /\ passwordIdx' = 0
  /\ autoDone' = 0
  /\ UNCHANGED <<results, prompted, buf, wire, inq, devVars>>

Execute ==
  /\ pc = "idle"
  /\ calls < MaxCalls
  /\ cliConnected
  /\ calls' = calls + 1
  /\ pc' = "user"
  /\ Write(<<Line("user", calls')>>)
  /\ UNCHANGED <<cliConnected, cbBefore, tries, passwordIdx, autoDone, results,
                 prompted, buf, wire, devVars>>

-----------------------------------------------------------------------------
(* connectCLI over a connector that logs in itself *)

GreetFrame == UNCHANGED <<cliConnected, calls, cbBefore, passwordIdx, wire,
                          devVars>>

GreetCallbackWins ==
  Callback # {} /\ ~SeesAny({"prompt", "question"} \ cbBefore)

GreetPrompt ==
  /\ pc = "greet"
  /\ Sees("prompt") /\ ~GreetCallbackWins
  /\ buf' = <<>>
  /\ prompted' = TRUE
  /\ RunNext(<<>>, 0)
  /\ UNCHANGED tries /\ GreetFrame

(* Mutant: the prompt behind the answered question is not waited for. *)
MutGreetQuestionSkipsPrompt ==
  /\ pc = "greet"
  /\ Sees("question") /\ ~GreetCallbackWins
  /\ buf' = <<>>
  /\ \/ prompted' = TRUE /\ RunNext(Answer, 0)
     \/ Returns("question") /\ UNCHANGED <<autoDone, prompted>>
  /\ UNCHANGED tries /\ GreetFrame

(* A question is answered if the default answers have one for it, and then
   only a prompt will do. *)
GreetQuestion ==
  /\ pc = "greet"
  /\ Sees("question") /\ ~GreetCallbackWins
  /\ buf' = <<>>
  /\ \/ pc' = "greetPrompt" /\ Write(Answer) /\ UNCHANGED results
     \/ Returns("question")
  /\ UNCHANGED <<tries, autoDone, prompted>> /\ GreetFrame

GreetQuestionPrompt ==
  /\ pc = "greetPrompt"
  /\ Sees("prompt")
  /\ buf' = <<>>
  /\ prompted' = TRUE
  /\ RunNext(<<>>, 0)
  /\ UNCHANGED tries /\ GreetFrame

(* A login callback is answered.  The last of LoginTries is followed by the
   commands as if the prompt had been seen. *)
GreetCallback ==
  /\ pc = "greet"
  /\ GreetCallbackWins
  /\ buf' = AfterCallback
  /\ tries' = tries - 1
  /\ IF tries = 1
     THEN RunNext(Answer, 0)
     ELSE Write(Answer) /\ UNCHANGED <<pc, autoDone, results>>
  /\ UNCHANGED prompted /\ GreetFrame

-----------------------------------------------------------------------------
(* genericLogin *)

LoginFrame == UNCHANGED <<cliConnected, calls, cbBefore, tries, wire, devVars>>

Continues(lines) == Write(lines) /\ UNCHANGED <<pc, results>>

LoginName ==
  /\ pc = "login"
  /\ Sees("login")
  /\ buf' = <<>>
  /\ Continues(<<Line("name", 0)>>)
  /\ UNCHANGED <<passwordIdx, autoDone, prompted>> /\ LoginFrame

NextPassword == <<Line("password", passwordIdx + 1)>>

(* Mutant: the passwords are not counted against the list. *)

LoginPassword ==
  /\ pc = "login"
  /\ Sees("password")
  /\ buf' = <<>>
  /\ IF passwordIdx >= NPasswords
     THEN /\ Returns(IF NPasswords = 0 THEN "nopassword" ELSE "auth")
          /\ UNCHANGED passwordIdx
     ELSE /\ passwordIdx' = passwordIdx + 1
          /\ Continues(NextPassword)
  /\ UNCHANGED <<autoDone, prompted>> /\ LoginFrame

(* Mutant: the next password is sent without waiting to be asked for it. *)
MutLoginPasswordErrorRetries ==
  /\ pc = "login"
  /\ Sees("passwdErr")
  /\ buf' = <<>>
  /\ IF passwordIdx >= NPasswords
     THEN Returns("auth") /\ UNCHANGED passwordIdx
     ELSE passwordIdx' = passwordIdx + 1 /\ Continues(NextPassword)
  /\ UNCHANGED <<autoDone, prompted>> /\ LoginFrame

(* Mutant: off by one, the last password is never tried. *)
MutLoginPasswordErrorOffByOne ==
  /\ pc = "login"
  /\ Sees("passwdErr")
  /\ buf' = <<>>
  /\ IF passwordIdx + 1 >= NPasswords
     THEN Returns("auth")
     ELSE Continues(<<>>)
  /\ UNCHANGED <<passwordIdx, autoDone, prompted>> /\ LoginFrame

LoginPasswordError ==
  /\ pc = "login"
  /\ Sees("passwdErr")
  /\ buf' = <<>>
  /\ IF passwordIdx >= NPasswords
     THEN Returns("auth")
     ELSE Continues(<<>>)
  /\ UNCHANGED <<passwordIdx, autoDone, prompted>> /\ LoginFrame

LoginCallback ==
  /\ pc = "login"
  /\ ~SeesAny({"login", "password", "prompt", "passwdErr"})
  /\ Callback # {}
  /\ buf' = AfterCallback
  /\ Continues(Answer)
  /\ UNCHANGED <<passwordIdx, autoDone, prompted>> /\ LoginFrame

LoginPrompt ==
  /\ pc = "login"
  /\ Sees("prompt")
  /\ buf' = <<>>
  /\ prompted' = TRUE
  /\ RunNext(<<>>, 0)
  /\ UNCHANGED passwordIdx /\ LoginFrame

(* The connect timeout has passed, the stream has ended or a write failed.
   cliConnected stays set: the next Execute does not log in again. *)
LoginFails ==
  /\ pc \in Login
  /\ Returns("error")
  /\ UNCHANGED <<cliConnected, calls, cbBefore, tries, passwordIdx, autoDone,
                 prompted, buf, wire, devVars>>

-----------------------------------------------------------------------------
(* Commands *)

CommandFrame == UNCHANGED <<cliConnected, calls, cbBefore, tries, passwordIdx,
                            prompted, wire, devVars>>

(* GenericExecute has a result: the echo of the line, and a prompt after it. *)
Completes(line) ==
  \E i, j \in DOMAIN buf :
    /\ buf[i] = line /\ i < j /\ buf[j].k = "prompt"
    /\ buf' = SubSeq(buf, j + 1, Len(buf))

AutoCompletes ==
  /\ pc = "auto"
  /\ Completes(Line("auto", autoDone + 1))
  /\ RunNext(<<>>, autoDone + 1)
  /\ CommandFrame

UserCompletes ==
  /\ pc = "user"
  /\ Completes(Line("user", calls))
  /\ Returns("ok")
  /\ UNCHANGED autoDone /\ CommandFrame

(* Mutant: an error of the automatic commands is dropped. *)
MutCommandFailsIgnored ==
  /\ pc \in {"auto", "user"}
  /\ IF pc = "auto"
     THEN pc' = "user" /\ Write(<<Line("user", calls)>>) /\ UNCHANGED results
     ELSE Returns("error")
  /\ UNCHANGED <<autoDone, buf>> /\ CommandFrame

(* It returns an error: ExecuteBulk stops there, and so does this call. *)
CommandFails ==
  /\ pc \in {"auto", "user"}
  /\ Returns("error")
  /\ UNCHANGED <<autoDone, buf>> /\ CommandFrame

(* The caller has made all its calls. *)
Finished ==
  /\ pc = "idle"
  /\ calls = MaxCalls
  /\ UNCHANGED <<callerVars, buf, wire, inq, devVars>>

Next ==
  /\ UNCHANGED autoLogin
  /\ \/ Connect \/ ExecuteFirst \/ Execute \/ Receive
     \/ GreetPrompt \/ GreetQuestion \/ GreetQuestionPrompt \/ GreetCallback
     \/ LoginName \/ LoginPassword \/ LoginPasswordError \/ LoginCallback
     \/ LoginPrompt \/ LoginFails
     \/ AutoCompletes \/ UserCompletes \/ CommandFails
     \/ Device \/ Finished

Spec == Init /\ [][Next]_vars

-----------------------------------------------------------------------------
(* Properties *)

Failed == \E j \in DOMAIN results : results[j] # "ok"

(* The automatic commands are all done before a user's command is written,
   unless an earlier call of Execute has failed: connectCLI is not repeated. *)
AutoBeforeUserUnlessFailed == pc = "user" => autoDone = NAuto \/ Failed

(* AuthException is raised only after the device has refused every password. *)
AuthErrorHonest ==
  \A j \in DOMAIN results : results[j] = "auth" => rejected = NPasswords

(* A password is only ever read by a password prompt, whatever the order in
   which the device asks, refuses and asks again. *)
PasswordsAtPasswordPrompt == \A m \in misread : m[1] # "password"

(* A command line, automatic or not, is read at the device's prompt, unless a
   call has failed or LoginTries callbacks were answered without a prompt. *)
CommandsAtPrompt ==
  (\E m \in misread : m[1] \in {"auto", "user"}) => Failed \/ ~prompted

(* What GOP 1 says of automatic commands: they run before any user command.
   After a failed first call the next one runs its command without them. *)
AutoBeforeUser == pc = "user" => autoDone = NAuto

=============================================================================
