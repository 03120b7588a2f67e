------------------------- MODULE GenericDeviceProofs -------------------------
(***************************************************************************)
(* Proofs about GenericDevice, for any number of automatic commands,       *)
(* passwords, login tries and calls.  The inductive invariant follows the  *)
(* caller through its calls: what it knows of the automatic commands       *)
(* between two calls is what decides where the next one starts.            *)
(***************************************************************************)

EXTENDS GenericDevice, DataLemmas

Statuses == {"ok", "auth", "question", "nopassword", "error"}

AutoSettled == autoDone = NAuto \/ Failed

(* The automatic commands are settled whenever the caller is beyond them:
   running a user's command, or between two calls once cliConnected is set. *)
IInv ==
  /\ autoDone \in 0..NAuto
  /\ results \in Seq(Statuses)
  /\ pc = "closed" => ~cliConnected
  /\ pc = "auto" => autoDone < NAuto
  /\ pc = "user" => AutoSettled
  /\ pc = "idle" /\ cliConnected => AutoSettled

(* A session starts before Connect, with nothing settled. *)
LEMMA InitIInv == Init => IInv
BY GenericDeviceAssumption, EmptySeq DEF Init, IInv

(* A call that returns an error leaves a failure behind. *)
LEMMA ErrorSettles ==
  ASSUME IInv, NEW status \in Statuses \ {"ok"}, Returns(status)
  PROVE  /\ results' \in Seq(Statuses) /\ pc' = "idle"
         /\ Failed'
<1>1. results \in Seq(Statuses) /\ results' = Append(results, status)
  BY DEF IInv, Returns
<1>2. /\ results' \in Seq(Statuses) /\ Len(results') = Len(results) + 1
      /\ results'[Len(results) + 1] = status /\ Len(results) \in Nat
  BY <1>1, AppendProperties, LenProperties
<1>3. Len(results') \in DOMAIN results' /\ results'[Len(results')] # "ok"
  BY <1>2, LenProperties
<1> QED BY <1>2, <1>3 DEF Failed, Returns

(* A call that fails keeps the invariant wherever it fails. *)
LEMMA ErrorKeepsIInv ==
  ASSUME IInv, NEW status \in Statuses \ {"ok"}, Returns(status),
         UNCHANGED autoDone
  PROVE  IInv'
BY ErrorSettles DEF IInv, AutoSettled

(* An earlier failure is never forgotten. *)
LEMMA FailureStays ==
  ASSUME IInv, Failed, NEW status \in Statuses, Returns(status)
  PROVE  Failed'
<1>1. PICK j \in DOMAIN results : results[j] # "ok"
  BY DEF Failed
<1>2. results \in Seq(Statuses) /\ results' = Append(results, status)
  BY DEF IInv, Returns
<1>3. /\ \A i \in 1..Len(results) : results'[i] = results[i]
      /\ results' \in Seq(Statuses) /\ Len(results') = Len(results) + 1
      /\ Len(results) \in Nat
  BY <1>2, AppendProperties, LenProperties
<1>4. j \in 1..Len(results) /\ j \in DOMAIN results'
  BY <1>1, <1>2, <1>3, LenProperties
<1> QED BY <1>1, <1>3, <1>4 DEF Failed

(* The next automatic command starts, or the user's once all are done. *)
LEMMA RunNextKeepsIInv ==
  ASSUME IInv, NEW before, NEW done \in 0..NAuto, RunNext(before, done)
  PROVE  IInv'
<1>1. /\ autoDone' = done /\ results' = results
      /\ done < NAuto => pc' = "auto"
      /\ ~(done < NAuto) => pc' = "user"
  BY DEF RunNext
<1>2. ~(done < NAuto) => done = NAuto
  BY GenericDeviceAssumption
<1> QED BY <1>1, <1>2 DEF IInv, AutoSettled

(* A step that keeps the caller where it is. *)
LEMMA CallerStays ==
  ASSUME IInv, UNCHANGED <<pc, autoDone, results, cliConnected>>
  PROVE  IInv'
BY DEF IInv, AutoSettled, Failed

(* Every step keeps the invariant. *)
LEMMA NextPreservesIInv ==
  ASSUME IInv, [Next]_vars
  PROVE  IInv'
<1> USE GenericDeviceAssumption
<1>0. 0 \in 0..NAuto
  OBVIOUS
<1>1. CASE Device \/ Receive \/ Finished \/ UNCHANGED vars
  <2>1. UNCHANGED callerVars
    BY <1>1 DEF Device, DevBoots, DevReadsName, DevAccepts, DevRejects,
       DevGreets, DevReadsAnswer, DevPrompts, DevReadsCommand, Reads,
       Receive, Finished, vars
  <2> QED BY <2>1, CallerStays DEF callerVars
<1>2. CASE Connect
  BY <1>2 DEF Connect, IInv
<1>3. CASE ExecuteFirst
  BY <1>3 DEF ExecuteFirst, IInv
<1>4. CASE Execute
  BY <1>4 DEF Execute, IInv, AutoSettled, Failed
<1>5. CASE GreetPrompt \/ GreetQuestionPrompt \/ LoginPrompt
  BY <1>0, <1>5, RunNextKeepsIInv
     DEF GreetPrompt, GreetQuestionPrompt, LoginPrompt
<1>6. CASE GreetQuestion
  <2>1. CASE Returns("question")
    BY <1>6, <2>1, ErrorKeepsIInv DEF GreetQuestion, Statuses
  <2>2. CASE pc' = "greetPrompt" /\ UNCHANGED results
    BY <1>6, <2>2 DEF GreetQuestion, IInv
  <2> QED BY <1>6, <2>1, <2>2 DEF GreetQuestion
<1>7. CASE GreetCallback
  <2>1. CASE RunNext(Answer, 0)
    BY <1>0, <2>1, RunNextKeepsIInv
  <2>2. CASE UNCHANGED <<pc, autoDone, results>>
    BY <1>7, <2>2, CallerStays DEF GreetCallback, GreetFrame
  <2> QED BY <1>7, <2>1, <2>2 DEF GreetCallback
<1>8. CASE LoginName \/ LoginCallback
  BY <1>8, CallerStays DEF LoginName, LoginCallback, Continues, LoginFrame
<1>9. CASE LoginPassword
  <2>1. (IF NPasswords = 0 THEN "nopassword" ELSE "auth") \in Statuses \ {"ok"}
    BY DEF Statuses
  <2>2. CASE passwordIdx >= NPasswords
    BY <1>9, <2>1, <2>2, ErrorKeepsIInv DEF LoginPassword
  <2>3. CASE ~(passwordIdx >= NPasswords)
    BY <1>9, <2>3, CallerStays DEF LoginPassword, Continues, LoginFrame
  <2> QED BY <2>2, <2>3
<1>10. CASE LoginPasswordError
  <2>1. CASE Returns("auth")
    BY <1>10, <2>1, ErrorKeepsIInv DEF LoginPasswordError, Statuses
  <2>2. CASE Continues(<<>>)
    BY <1>10, <2>2, CallerStays DEF LoginPasswordError, Continues, LoginFrame
  <2> QED BY <1>10, <2>1, <2>2 DEF LoginPasswordError
<1>11. CASE LoginFails \/ CommandFails
  BY <1>11, ErrorKeepsIInv DEF LoginFails, CommandFails, Statuses
<1>12. CASE AutoCompletes
  <2>1. autoDone + 1 \in 0..NAuto
    BY <1>12 DEF AutoCompletes, IInv
  <2> QED BY <1>12, <2>1, RunNextKeepsIInv DEF AutoCompletes
<1>13. CASE UserCompletes
  <2>1. /\ pc = "user" /\ Returns("ok") /\ "ok" \in Statuses
        /\ autoDone' = autoDone
    BY <1>13 DEF UserCompletes, Statuses
  <2>2. results' \in Seq(Statuses) /\ pc' = "idle"
    BY <2>1, AppendProperties DEF Returns, IInv
  <2>3. AutoSettled'
    BY <2>1, FailureStays DEF IInv, AutoSettled
  <2> QED BY <2>1, <2>2, <2>3 DEF IInv
<1> QED BY <1>1, <1>2, <1>3, <1>4, <1>5, <1>6, <1>7, <1>8, <1>9, <1>10,
           <1>11, <1>12, <1>13, Zenon DEF Next

(* A user's command is written only when all automatic commands are done or an
   earlier call has told its caller that it failed. *)
THEOREM AutoBeforeUserUnlessFailedAlways ==
  Spec => []AutoBeforeUserUnlessFailed
<1>1. IInv => AutoBeforeUserUnlessFailed
  BY DEF IInv, AutoSettled, AutoBeforeUserUnlessFailed
<1> QED BY <1>1, InitIInv, NextPreservesIInv, PTL DEF Spec

-----------------------------------------------------------------------------
(* The dialog between caller and device *)

Commands == {"auto", "user"}

(* Everything the device has printed that the caller has not consumed. *)
Stream == buf \o wire

Kinds(s) == {s[i].k : i \in DOMAIN s}

(* The device has just asked for st, behind errors only. *)
Asked(s, st) ==
  /\ s # <<>>
  /\ s[Len(s)].k = st
  /\ \A i \in 1..(Len(s) - 1) : s[i].k = "passwdErr"

(* The caller logs in by hand, or will. *)
LoggingIn == ~autoLogin /\ (pc = "login" \/ ~cliConnected)

PasswordInLine == IF inq # <<>> /\ inq[1].k = "password" THEN 1 ELSE 0

(* Where a login starts, and what it has left to do. *)
StartInv ==
  /\ ~cliConnected => pc \in {"closed", "idle"} /\ passwordIdx = 0
  /\ pc = "login" => ~autoLogin
  /\ pc = "greet" => tries > 0

(* A device that asks for a name or a password has one unanswered question
   under way to the caller, or one line under way to the device. *)
DialogInv ==
  LoggingIn =>
    /\ dev = "boot" => Stream = <<>> /\ inq = <<>>
    /\ dev \in {"login", "password"} =>
         \/ Asked(Stream, dev) /\ inq = <<>>
         \/ /\ Stream = <<>> /\ Len(inq) = 1
            /\ inq[1].k = IF dev = "login" THEN "name" ELSE "password"
    /\ dev \notin {"boot", "login", "password"} =>
         Kinds(Stream) \cap {"login", "password", "passwdErr"} = {}

(* A password under way is the next line that a password prompt reads, also
   after the login was given up; every other one was refused, as long as the
   device still asks. *)
PasswordInv ==
  /\ \A i \in DOMAIN inq : inq[i].k = "password" => i = 1 /\ dev = "password"
  /\ rejected + PasswordInLine <= passwordIdx
  /\ LoggingIn /\ dev \in {"boot", "login", "password"} =>
       rejected + PasswordInLine = passwordIdx

(* A prompt was printed by a device that stays at its prompt, and no command
   is under way before the login is over. *)
PromptInv ==
  /\ "prompt" \in Kinds(Stream) => dev = "prompt"
  /\ prompted => dev = "prompt" /\ \A m \in misread : m[1] \notin Commands
  /\ pc \in Login \/ ~cliConnected =>
       /\ Kinds(inq) \cap Commands = {}
       /\ \A m \in misread : m[1] \notin Commands
       /\ ~prompted

HonestInv == AuthErrorHonest /\ PasswordsAtPasswordPrompt

DInv ==
  /\ IInv /\ TypeOK /\ StartInv /\ DialogInv /\ PasswordInv /\ PromptInv
  /\ HonestInv

(* What was received or written has the kinds of its parts. *)
LEMMA KindsOfJoined ==
  ASSUME NEW S, NEW s \in Seq(S), NEW t \in Seq(S)
  PROVE  Kinds(s \o t) = Kinds(s) \union Kinds(t)
<1> DEFINE u == s \o t
<1>1. /\ u \in Seq(S) /\ Len(s) \in Nat /\ Len(t) \in Nat
      /\ Len(u) = Len(s) + Len(t)
      /\ \A j \in 1..Len(s) : u[j] = s[j]
      /\ \A j \in (Len(s) + 1)..(Len(s) + Len(t)) : u[j] = t[j - Len(s)]
  BY Joined
<1> HIDE DEF u
<1>2. /\ DOMAIN s = 1..Len(s) /\ DOMAIN t = 1..Len(t)
      /\ DOMAIN u = 1..(Len(s) + Len(t))
  BY <1>1, LenProperties
<1>3. ASSUME NEW i \in DOMAIN u PROVE u[i].k \in Kinds(s) \union Kinds(t)
  <2>1. CASE i \in 1..Len(s)
    BY <2>1, <1>1, <1>2 DEF Kinds
  <2>2. CASE i \notin 1..Len(s)
    <3>1. i \in (Len(s) + 1)..(Len(s) + Len(t)) /\ i - Len(s) \in 1..Len(t)
      BY <2>2, <1>1, <1>2
    <3> QED BY <3>1, <1>1, <1>2 DEF Kinds
  <2> QED BY <2>1, <2>2
<1>4. ASSUME NEW i \in DOMAIN s PROVE s[i].k \in Kinds(u)
  <2>1. i \in DOMAIN u /\ u[i] = s[i]
    BY <1>1, <1>2
  <2> QED BY <2>1 DEF Kinds
<1>5. ASSUME NEW i \in DOMAIN t PROVE t[i].k \in Kinds(u)
  <2>1. /\ Len(s) + i \in DOMAIN u /\ (Len(s) + i) - Len(s) = i
        /\ Len(s) + i \in (Len(s) + 1)..(Len(s) + Len(t))
    BY <1>1, <1>2
  <2>2. u[Len(s) + i] = t[i]
    BY <2>1, <1>1
  <2> QED BY <2>1, <2>2 DEF Kinds
<1>6. Kinds(u) = Kinds(s) \union Kinds(t)
  BY <1>3, <1>4, <1>5 DEF Kinds
<1> QED BY <1>6 DEF u

(* What is read of a line, or left of a buffer, has no other kinds. *)
LEMMA KindsOfRest ==
  ASSUME NEW S, NEW s \in Seq(S), NEW k \in 0..Len(s)
  PROVE  /\ SubSeq(s, k + 1, Len(s)) \in Seq(S)
         /\ Kinds(SubSeq(s, k + 1, Len(s))) \subseteq Kinds(s)
<1> DEFINE a == SubSeq(s, 1, k)
           b == SubSeq(s, k + 1, Len(s))
<1>1. s = a \o b /\ a \in Seq(S) /\ b \in Seq(S)
  BY CutInTwo
<1> HIDE DEF a, b
<1>2. Kinds(a \o b) = Kinds(a) \union Kinds(b)
  BY <1>1, KindsOfJoined
<1>3. Kinds(b) \subseteq Kinds(s)
  BY <1>1, <1>2
<1> QED BY <1>1, <1>3 DEF b

(* Short texts. *)
LEMMA KindsOfListed ==
  ASSUME NEW a, NEW b
  PROVE  /\ Kinds(<<>>) = {}
         /\ Kinds(<<a>>) = {a.k}
         /\ Kinds(<<a, b>>) = {a.k, b.k}
<1>1. DOMAIN <<a, b>> = {1, 2}
  OBVIOUS
<1> QED BY <1>1 DEF Kinds

(* The stream is made of what was received and what is under way. *)
LEMMA StreamType ==
  ASSUME TypeOK
  PROVE  /\ buf \in Seq(Tokens) /\ wire \in Seq(Tokens) /\ inq \in Seq(Lines)
         /\ Stream \in Seq(Tokens)
         /\ Kinds(Stream) = Kinds(buf) \union Kinds(wire)
<1>1. buf \in Seq(Tokens) /\ wire \in Seq(Tokens) /\ inq \in Seq(Lines)
  BY DEF TypeOK
<1> QED BY <1>1, Joined, KindsOfJoined DEF Stream

(* The device prints. *)
LEMMA StreamGrows ==
  ASSUME TypeOK, NEW new \in Seq(Tokens), wire' = wire \o new, buf' = buf
  PROVE  /\ wire' \in Seq(Tokens)
         /\ Stream' = Stream \o new
         /\ Kinds(Stream') = Kinds(Stream) \union Kinds(new)
<1>1. buf \in Seq(Tokens) /\ wire \in Seq(Tokens) /\ Stream \in Seq(Tokens)
  BY StreamType
<1>2. Stream' = buf \o (wire \o new)
  BY DEF Stream
<1>3. Stream' = Stream \o new
  <2>1. (buf \o wire) \o new = buf \o (wire \o new)
    BY ONLY <1>1
  <2> QED BY <1>2, <2>1, Zenon DEF Stream
<1>4. wire' \in Seq(Tokens)
  BY <1>1, Joined
<1>5. Kinds(Stream \o new) = Kinds(Stream) \union Kinds(new)
  BY <1>1, KindsOfJoined
<1> QED BY <1>3, <1>4, <1>5

(* What it prints in one go. *)
LEMMA Printed ==
  ASSUME NEW k, NEW l
  PROVE  /\ Prints(<<k>>) => wire' = wire \o <<Token(k)>>
         /\ Prints(<<k, l>>) => wire' = wire \o <<Token(k), Token(l)>>
<1>1. [i \in DOMAIN <<k>> |-> Token(<<k>>[i])] = <<Token(k)>>
  BY DEF Token
<1>2. [i \in DOMAIN <<k, l>> |-> Token(<<k, l>>[i])] = <<Token(k), Token(l)>>
  BY DEF Token
<1> QED BY <1>1, <1>2 DEF Prints

TokenKinds == {"login", "password", "passwdErr", "prompt", "question", "motd",
               "ask", "auto", "user"}
LineKinds == {"auto", "user", "name", "password", "answer"}

(* Tokens and lines have the types of what is printed and written. *)
LEMMA TokenType ==
  ASSUME NEW k \in TokenKinds, NEW l \in TokenKinds
  PROVE  /\ Token(k) \in Tokens /\ Token(k).k = k
         /\ <<Token(k)>> \in Seq(Tokens)
         /\ <<Token(k), Token(l)>> \in Seq(Tokens)
         /\ Kinds(<<Token(k)>>) = {k}
         /\ Kinds(<<Token(k), Token(l)>>) = {k, l}
<1>1. ASSUME NEW m \in TokenKinds PROVE Token(m) \in Tokens /\ Token(m).k = m
  BY DEF Token, Tokens, TokenKinds
<1>2. Token(k) \in Tokens /\ Token(l) \in Tokens
  BY <1>1
<1>3. \A s, t : s \in Tokens /\ t \in Tokens
                  => <<s>> \in Seq(Tokens) /\ <<s, t>> \in Seq(Tokens)
  OBVIOUS
<1> HIDE DEF Token
<1> QED BY <1>1, <1>2, <1>3, KindsOfListed

LEMMA LineType ==
  ASSUME NEW k \in LineKinds, NEW n \in Nat
  PROVE  /\ Line(k, n) \in Lines /\ Line(k, n).k = k
         /\ <<Line(k, n)>> \in Seq(Lines)
         /\ Kinds(<<Line(k, n)>>) = {k}
<1>1. Line(k, n) \in Lines /\ Line(k, n).k = k
  BY DEF Line, Lines, LineKinds
<1>2. \A s : s \in Lines => <<s>> \in Seq(Lines)
  OBVIOUS
<1> QED BY <1>1, <1>2, KindsOfListed

(* The device reads a line. *)
LEMMA LineRead ==
  ASSUME TypeOK, NEW st, Reads(st)
  PROVE  /\ Head(inq) = inq[1] /\ inq[1] \in Lines /\ inq[1].k \in LineKinds
         /\ inq[1].k \in Kinds(inq) /\ 1 \in DOMAIN inq
         /\ inq' \in Seq(Lines) /\ Len(inq') = Len(inq) - 1
         /\ Len(inq) = 1 => inq' = <<>>
         /\ Kinds(inq') \subseteq Kinds(inq)
         /\ \A i \in DOMAIN inq' : i + 1 \in DOMAIN inq /\ i + 1 # 1
                                   /\ inq'[i] = inq[i + 1]
<1>1. inq \in Seq(Lines) /\ inq # <<>> /\ inq' = Tail(inq)
  BY StreamType DEF Reads
<1>2. /\ Len(inq) \in Nat \ {0} /\ Head(inq) = inq[1] /\ inq[1] \in Lines
      /\ inq' \in Seq(Lines) /\ Len(inq') = Len(inq) - 1
      /\ \A i \in 1..(Len(inq) - 1) : inq'[i] = inq[i + 1]
  BY <1>1, TailFacts
<1>3. DOMAIN inq = 1..Len(inq) /\ DOMAIN inq' = 1..(Len(inq) - 1)
  BY <1>1, <1>2, LenProperties
<1>4. \A i \in DOMAIN inq' : i + 1 \in DOMAIN inq /\ i + 1 # 1
                             /\ inq'[i] = inq[i + 1]
  BY <1>2, <1>3
<1>5. Kinds(inq') \subseteq Kinds(inq) /\ inq[1].k \in Kinds(inq)
      /\ 1 \in DOMAIN inq
  BY <1>2, <1>3, <1>4 DEF Kinds
<1>6. inq[1].k \in LineKinds
  BY <1>2 DEF Lines, LineKinds
<1>7. Len(inq) = 1 => inq' = <<>>
  BY <1>2, EmptySeq
<1> QED BY <1>2, <1>4, <1>5, <1>6, <1>7

(* The caller consumes everything it has received. *)
LEMMA BufferEmptied ==
  ASSUME TypeOK, buf' = <<>>, wire' = wire
  PROVE  /\ Stream' = wire /\ buf' \in Seq(Tokens)
         /\ Kinds(Stream') \subseteq Kinds(Stream)
<1>1. Stream' = <<>> \o wire
  BY DEF Stream
<1>2. wire \in Seq(Tokens) /\ <<>> \in Seq(Tokens)
  BY StreamType, EmptySeq
<1>3. Stream' = wire
  BY <1>1, <1>2, ConcatEmptySeq
<1> QED BY <1>2, <1>3, StreamType

(* It consumes a part of it. *)
LEMMA BufferCut ==
  ASSUME TypeOK, NEW k \in DOMAIN buf, wire' = wire,
         buf' = SubSeq(buf, k + 1, Len(buf))
  PROVE  buf' \in Seq(Tokens) /\ Kinds(Stream') \subseteq Kinds(Stream)
<1>1. buf \in Seq(Tokens) /\ k \in 0..Len(buf)
  BY StreamType, LenProperties
<1>2. buf' \in Seq(Tokens) /\ Kinds(buf') \subseteq Kinds(buf)
  BY <1>1, KindsOfRest
<1>3. wire \in Seq(Tokens)
  BY StreamType
<1>4. Kinds(Stream') = Kinds(buf') \union Kinds(wire)
  BY <1>2, <1>3, KindsOfJoined DEF Stream
<1> QED BY <1>2, <1>4, StreamType

(* Receiving changes nothing of the stream. *)
LEMMA ReceivedStream ==
  ASSUME TypeOK, Receive
  PROVE  /\ Stream' = Stream /\ buf' \in Seq(Tokens) /\ wire' \in Seq(Tokens)
<1>1. PICK k \in 1..Len(wire) :
        /\ buf' = buf \o SubSeq(wire, 1, k)
        /\ wire' = SubSeq(wire, k + 1, Len(wire))
  BY DEF Receive
<1>2. buf \in Seq(Tokens) /\ wire \in Seq(Tokens) /\ k \in 0..Len(wire)
  BY StreamType, LenProperties
<1> DEFINE a == SubSeq(wire, 1, k)
           b == SubSeq(wire, k + 1, Len(wire))
<1>3. wire = a \o b /\ a \in Seq(Tokens) /\ b \in Seq(Tokens)
  BY <1>2, CutInTwo
<1>4. Stream' = (buf \o a) \o b
  BY <1>1 DEF Stream
<1> HIDE DEF a, b
<1>5. (buf \o a) \o b = buf \o (a \o b)
  BY <1>2, <1>3, ConcatAssociative
<1>6. buf \o a \in Seq(Tokens)
  BY <1>2, <1>3, Joined
<1> QED BY <1>1, <1>3, <1>4, <1>5, <1>6 DEF Stream, a, b

(* The caller sees the answer to what it does not consume in parts. *)
LEMMA SeenKind ==
  ASSUME TypeOK, NEW kind, Sees(kind)
  PROVE  kind \in Kinds(Stream) /\ Len(buf) \in Nat \ {0}
<1>1. buf \in Seq(Tokens) /\ buf # <<>> /\ buf[Len(buf)].k = kind
  BY StreamType DEF Sees
<1>2. Len(buf) \in Nat \ {0} /\ DOMAIN buf = 1..Len(buf)
  BY <1>1, EmptySeq, LenProperties
<1>3. kind \in Kinds(buf)
  BY <1>1, <1>2 DEF Kinds
<1> QED BY <1>2, <1>3, StreamType

(* An unanswered question is one question. *)
LEMMA AskedKinds ==
  ASSUME NEW s \in Seq(Tokens), NEW st, Asked(s, st)
  PROVE  Kinds(s) \subseteq {st, "passwdErr"}
<1>1. Len(s) \in Nat /\ DOMAIN s = 1..Len(s)
  BY LenProperties
<1>2. ASSUME NEW i \in DOMAIN s PROVE s[i].k \in {st, "passwdErr"}
  BY <1>1 DEF Asked
<1> QED BY <1>2 DEF Kinds

(* Where its tokens are: received or under way. *)
LEMMA AskedPlaces ==
  ASSUME TypeOK, NEW st, Asked(Stream, st)
  PROVE  /\ Len(buf) \in Nat /\ Len(wire) \in Nat
         /\ Len(buf) + Len(wire) > 0
         /\ \A i \in 1..Len(buf) :
              buf[i].k = IF i = Len(buf) + Len(wire) THEN st ELSE "passwdErr"
         /\ \A i \in 1..Len(wire) :
              wire[i].k = IF i = Len(wire) THEN st ELSE "passwdErr"
<1>1. buf \in Seq(Tokens) /\ wire \in Seq(Tokens) /\ Stream \in Seq(Tokens)
  BY StreamType
<1>2. /\ Len(buf) \in Nat /\ Len(wire) \in Nat
      /\ Len(Stream) = Len(buf) + Len(wire)
      /\ \A j \in 1..Len(buf) : Stream[j] = buf[j]
      /\ \A j \in (Len(buf) + 1)..(Len(buf) + Len(wire)) :
           Stream[j] = wire[j - Len(buf)]
  BY <1>1, Joined DEF Stream
<1>3. Stream # <<>> /\ Len(Stream) # 0
  BY <1>1, EmptySeq DEF Asked
<1>4. /\ Stream[Len(Stream)].k = st
      /\ \A i \in 1..(Len(Stream) - 1) : Stream[i].k = "passwdErr"
  BY DEF Asked
<1>5. ASSUME NEW i \in 1..(Len(buf) + Len(wire))
      PROVE  Stream[i].k = IF i = Len(buf) + Len(wire) THEN st
                                                       ELSE "passwdErr"
  BY <1>2, <1>4
<1>6. ASSUME NEW i \in 1..Len(wire)
      PROVE  wire[i].k = IF i = Len(wire) THEN st ELSE "passwdErr"
  <2>1. /\ Len(buf) + i \in (Len(buf) + 1)..(Len(buf) + Len(wire))
        /\ Len(buf) + i \in 1..(Len(buf) + Len(wire))
        /\ (Len(buf) + i) - Len(buf) = i
        /\ Len(buf) + i = Len(buf) + Len(wire) <=> i = Len(wire)
    BY <1>2
  <2>2. Stream[Len(buf) + i] = wire[i]
    BY <2>1, <1>2
  <2> QED BY <2>1, <2>2, <1>5
<1>7. ASSUME NEW i \in 1..Len(buf)
      PROVE  buf[i].k = IF i = Len(buf) + Len(wire) THEN st ELSE "passwdErr"
  <2>1. i \in 1..(Len(buf) + Len(wire)) /\ Stream[i] = buf[i]
    BY <1>2
  <2> QED BY <2>1, <1>5
<1> QED BY <1>2, <1>3, <1>6, <1>7

(* A question that is seen is the one that was asked, and nothing follows. *)
LEMMA QuestionSeen ==
  ASSUME TypeOK, NEW st, Asked(Stream, st), NEW kind, kind # "passwdErr",
         Sees(kind)
  PROVE  kind = st /\ wire = <<>>
<1>1. Len(buf) \in Nat \ {0} /\ buf[Len(buf)].k = kind
  BY SeenKind DEF Sees
<1>2. Len(buf) \in 1..Len(buf) /\ Len(wire) \in Nat
  BY <1>1, AskedPlaces
<1>3. Len(buf) = Len(buf) + Len(wire) /\ kind = st
  BY <1>1, <1>2, AskedPlaces
<1>4. Len(wire) = 0
  BY <1>2, <1>3, <1>1
<1> QED BY <1>3, <1>4, StreamType, EmptySeq

(* Behind a refusal that is seen the question is still under way. *)
LEMMA RefusalSeen ==
  ASSUME TypeOK, NEW st, st # "passwdErr", Asked(Stream, st),
         Sees("passwdErr")
  PROVE  Asked(wire, st)
<1>1. Len(buf) \in Nat \ {0} /\ buf[Len(buf)].k = "passwdErr"
  BY SeenKind DEF Sees
<1>2. Len(buf) \in 1..Len(buf) /\ Len(wire) \in Nat
  BY <1>1, AskedPlaces
<1>3. Len(buf) # Len(buf) + Len(wire)
  BY <1>1, <1>2, AskedPlaces
<1>4. Len(wire) \in Nat \ {0} /\ Len(wire) \in 1..Len(wire)
  BY <1>2, <1>3, <1>1
<1>5. wire # <<>>
  BY <1>4, EmptySeq
<1>6. \A i \in 1..Len(wire) :
        wire[i].k = IF i = Len(wire) THEN st ELSE "passwdErr"
  BY AskedPlaces
<1>7. wire[Len(wire)].k = st
  BY <1>4, <1>6
<1>8. \A i \in 1..(Len(wire) - 1) : wire[i].k = "passwdErr"
  BY <1>4, <1>6
<1> QED BY <1>5, <1>7, <1>8 DEF Asked

(* What the device has just printed is a question. *)
LEMMA AskedNow ==
  ASSUME NEW st \in TokenKinds
  PROVE  /\ Asked(<<Token(st)>>, st)
         /\ Asked(<<Token("passwdErr"), Token(st)>>, st)
<1>1. Token(st).k = st /\ Token("passwdErr").k = "passwdErr"
  BY DEF Token
<1>2. ASSUME NEW a, a.k = st
      PROVE  Asked(<<a>>, st)
  BY <1>2 DEF Asked
<1>3. ASSUME NEW a, NEW b, a.k = "passwdErr", b.k = st
      PROVE  Asked(<<a, b>>, st)
  BY <1>3 DEF Asked
<1> QED BY <1>1, <1>2, <1>3

(* The caller that logs in sees a question or refusal of a device that asks
   and waits. *)
LEMMA DeviceAsks ==
  ASSUME DInv, pc = "login",
         NEW kind \in {"login", "password", "passwdErr"}, Sees(kind)
  PROVE  /\ LoggingIn /\ dev \in {"login", "password"}
         /\ Asked(Stream, dev) /\ inq = <<>>
<1>1. LoggingIn /\ TypeOK
  BY DEF DInv, StartInv, LoggingIn
<1>2. kind \in Kinds(Stream)
  BY <1>1, SeenKind
<1>3. Stream # <<>>
  BY <1>2, KindsOfListed
<1>4. dev \in {"login", "password"}
  BY <1>1, <1>2, <1>3 DEF DInv, DialogInv
<1> QED BY <1>1, <1>3, <1>4 DEF DInv, DialogInv

(* Lines that are no passwords leave the password that is under way alone. *)
LEMMA LinesWritten ==
  ASSUME DInv, NEW lines \in Seq(Lines), inq' = inq \o lines, dev' = dev,
         "password" \notin Kinds(lines)
  PROVE  /\ inq' \in Seq(Lines)
         /\ Kinds(inq') = Kinds(inq) \union Kinds(lines)
         /\ PasswordInLine' = PasswordInLine
         /\ \A i \in DOMAIN inq' :
              inq'[i].k = "password" => i = 1 /\ dev' = "password"
<1>1. inq \in Seq(Lines)
  BY StreamType DEF DInv
<1>2. /\ inq' \in Seq(Lines) /\ Len(inq) \in Nat /\ Len(lines) \in Nat
      /\ Len(inq') = Len(inq) + Len(lines)
      /\ \A j \in 1..Len(inq) : inq'[j] = inq[j]
      /\ \A j \in (Len(inq) + 1)..(Len(inq) + Len(lines)) :
           inq'[j] = lines[j - Len(inq)]
  BY <1>1, Joined
<1>3. /\ DOMAIN inq = 1..Len(inq) /\ DOMAIN lines = 1..Len(lines)
      /\ DOMAIN inq' = 1..(Len(inq) + Len(lines))
  BY <1>1, <1>2, LenProperties
<1>4. ASSUME NEW i \in DOMAIN inq', inq'[i].k = "password"
      PROVE  i \in DOMAIN inq /\ inq[i].k = "password"
  <2>1. CASE i \in 1..Len(inq)
    BY <1>4, <2>1, <1>2, <1>3
  <2>2. CASE i \notin 1..Len(inq)
    <3>1. i - Len(inq) \in DOMAIN lines
          /\ i \in (Len(inq) + 1)..(Len(inq) + Len(lines))
      BY <2>2, <1>2, <1>3
    <3>2. "password" \in Kinds(lines)
      BY <3>1, <1>4, <1>2 DEF Kinds
    <3> QED BY <3>2
  <2> QED BY <2>1, <2>2
<1>5. \A i \in DOMAIN inq' :
        inq'[i].k = "password" => i = 1 /\ dev' = "password"
  BY <1>4 DEF DInv, PasswordInv
<1>6. Kinds(inq') = Kinds(inq) \union Kinds(lines)
  BY <1>1, KindsOfJoined
<1>7. /\ inq # <<>> => inq' # <<>> /\ 1 \in DOMAIN inq /\ inq'[1] = inq[1]
      /\ inq' # <<>> => 1 \in DOMAIN inq'
  BY <1>1, <1>2, <1>3, EmptySeq
<1>8. inq' # <<>> /\ inq'[1].k = "password"
        <=> inq # <<>> /\ inq[1].k = "password"
  <2>1. ASSUME inq' # <<>>, inq'[1].k = "password"
        PROVE  inq # <<>> /\ inq[1].k = "password"
    <3>1. 1 \in DOMAIN inq /\ inq[1].k = "password"
      BY <2>1, <1>4, <1>7
    <3>2. inq # <<>>
      BY <3>1, <1>3, EmptySeq
    <3> QED BY <3>1, <3>2
  <2> QED BY <2>1, <1>7
<1> QED BY <1>2, <1>5, <1>6, <1>8 DEF PasswordInLine

(* A step of the caller that sends no password. *)
LEMMA CallerKeeps ==
  ASSUME DInv, NEW lines \in Seq(Lines), inq' = inq \o lines,
         "password" \notin Kinds(lines),
         UNCHANGED <<autoLogin, dev, rejected, misread, passwordIdx>>,
         Kinds(Stream') \subseteq Kinds(Stream),
         LoggingIn' => LoggingIn,
         prompted' => prompted \/ ("prompt" \in Kinds(Stream) /\ pc \in Login),
         pc' \in Login \/ ~cliConnected' =>
           /\ pc \in Login \/ ~cliConnected
           /\ Kinds(lines) \cap Commands = {}
           /\ UNCHANGED prompted
  PROVE  PasswordInv' /\ PromptInv'
<1>1. /\ Kinds(inq') = Kinds(inq) \union Kinds(lines)
      /\ PasswordInLine' = PasswordInLine
      /\ \A i \in DOMAIN inq' :
           inq'[i].k = "password" => i = 1 /\ dev' = "password"
  BY LinesWritten
<1>2. PasswordInv'
  BY <1>1 DEF DInv, PasswordInv
<1>3. ("prompt" \in Kinds(Stream) => dev = "prompt")'
  BY DEF DInv, PromptInv
<1>4. (prompted => dev = "prompt" /\ \A m \in misread : m[1] \notin Commands)'
  BY DEF DInv, PromptInv
<1>5. (pc \in Login \/ ~cliConnected =>
         /\ Kinds(inq) \cap Commands = {}
         /\ \A m \in misread : m[1] \notin Commands
         /\ ~prompted)'
  BY <1>1 DEF DInv, PromptInv
<1> QED BY <1>2, <1>3, <1>4, <1>5 DEF PromptInv

(* A line that is no password, and none at all. *)
LEMMA NoPassword ==
  /\ <<>> \in Seq(Lines) /\ Kinds(<<>>) = {}
  /\ Answer \in Seq(Lines) /\ Kinds(Answer) = {"answer"}
<1>1. "answer" \in LineKinds /\ 0 \in Nat
  BY DEF LineKinds
<1> QED BY <1>1, LineType, KindsOfListed, EmptySeq DEF Answer

(* What the next command, automatic or not, writes. *)
LEMMA RunNextWrites ==
  ASSUME TypeOK, NEW before \in {<<>>, Answer}, NEW done \in 0..NAuto,
         RunNext(before, done)
  PROVE  /\ pc' \in {"auto", "user"} /\ autoDone' = done /\ results' = results
         /\ pc' = "auto" => done < NAuto
         /\ \E lines \in Seq(Lines) :
              inq' = inq \o lines /\ "password" \notin Kinds(lines)
<1>1. /\ before \in Seq(Lines) /\ Kinds(before) \subseteq {"answer"}
  BY NoPassword
<1>2. done \in Nat /\ calls \in Nat
  BY GenericDeviceAssumption DEF TypeOK
<1>3. PICK k \in {"auto", "user"}, n \in Nat :
        pc' = k /\ inq' = inq \o (before \o <<Line(k, n)>>)
  <2>1. CASE done < NAuto
    <3>1. done + 1 \in Nat
      BY <1>2
    <3> QED BY <2>1, <3>1 DEF RunNext, Write
  <2>2. CASE ~(done < NAuto)
    BY <2>2, <1>2 DEF RunNext, Write
  <2> QED BY <2>1, <2>2
<1>4. k \in LineKinds
  BY DEF LineKinds
<1>5. <<Line(k, n)>> \in Seq(Lines) /\ Kinds(<<Line(k, n)>>) = {k}
  BY <1>4, LineType
<1>6. before \o <<Line(k, n)>> \in Seq(Lines)
      /\ Kinds(before \o <<Line(k, n)>>) = Kinds(before) \union {k}
  <2>1. PICK l \in Seq(Lines) : l = <<Line(k, n)>> /\ Kinds(l) = {k}
    BY <1>5
  <2>2. before \o l \in Seq(Lines)
        /\ Kinds(before \o l) = Kinds(before) \union Kinds(l)
    BY <1>1, KindsOfJoined, Joined
  <2> QED BY <2>1, <2>2, Zenon
<1>7. "password" \notin Kinds(before \o <<Line(k, n)>>)
  BY <1>1, <1>6
<1> QED BY <1>3, <1>6, <1>7 DEF RunNext

(* Nothing is written: a line of nothing. *)
LEMMA NothingWritten ==
  ASSUME TypeOK, inq' = inq
  PROVE  inq' = inq \o <<>>
<1>1. inq \in Seq(Lines)
  BY StreamType
<1> QED BY <1>1, ConcatEmptySeq, EmptySeq

(* The caller consumes all it has received. *)
Consumes == buf' = <<>> /\ wire' = wire

(* A command starts, or the call of Execute returns: wherever the caller
   comes from, it is beyond the login. *)
LEMMA LeavesLogin ==
  ASSUME DInv, pc' \in {"auto", "user", "idle"}, cliConnected', cliConnected,
         UNCHANGED <<autoLogin, dev, rejected, misread, passwordIdx>>,
         Kinds(Stream') \subseteq Kinds(Stream),
         NEW lines \in Seq(Lines), inq' = inq \o lines,
         "password" \notin Kinds(lines),
         prompted' => prompted \/ ("prompt" \in Kinds(Stream) /\ pc \in Login)
  PROVE  StartInv' /\ DialogInv' /\ PasswordInv' /\ PromptInv'
<1>1. ~LoggingIn' /\ pc' \notin Login
  BY DEF LoggingIn, Login
<1>2. PasswordInv' /\ PromptInv'
  BY <1>1, CallerKeeps
<1> QED BY <1>1, <1>2 DEF StartInv, DialogInv

(* The first callback is somewhere in the buffer. *)
LEMMA CallbackConsumed ==
  ASSUME TypeOK, Callback # {}, buf' = AfterCallback, wire' = wire
  PROVE  Kinds(Stream') \subseteq Kinds(Stream) /\ buf' \in Seq(Tokens)
<1>1. Callback \subseteq Nat /\ Callback \subseteq DOMAIN buf
  <2>1. DOMAIN buf = 1..Len(buf) /\ Len(buf) \in Nat
    BY StreamType, LenProperties
  <2> QED BY <2>1 DEF Callback
<1>2. \E i \in Callback : \A j \in Callback : i <= j
  BY <1>1, LeastExists
<1>3. FirstCallback \in Callback
  BY <1>2 DEF FirstCallback
<1>4. PICK k \in DOMAIN buf : k = FirstCallback
  BY <1>1, <1>3
<1>5. buf' = SubSeq(buf, k + 1, Len(buf))
  BY <1>4 DEF AfterCallback
<1> QED BY <1>5, BufferCut

(* A call of Execute returns what it says. *)
LEMMA ReturnHonest ==
  ASSUME DInv, NEW status \in Statuses, Returns(status),
         UNCHANGED <<rejected, misread>>,
         status = "auth" => rejected = NPasswords
  PROVE  HonestInv' /\ results' \in Seq(Statuses)
<1>1. results \in Seq(Statuses) /\ results' = Append(results, status)
  BY DEF DInv, IInv, Returns
<1>2. /\ DOMAIN results = 1..Len(results) /\ Len(results) \in Nat
      /\ DOMAIN results' = 1..(Len(results) + 1)
      /\ \A j \in 1..Len(results) : results'[j] = results[j]
      /\ results'[Len(results) + 1] = status
      /\ results' \in Seq(Statuses)
  BY <1>1, Longer, LenProperties, AppendProperties
<1>3. ASSUME NEW j \in DOMAIN results', results'[j] = "auth"
      PROVE  rejected' = NPasswords
  <2>1. CASE j \in 1..Len(results)
    BY <1>2, <1>3, <2>1 DEF DInv, HonestInv, AuthErrorHonest
  <2>2. CASE j \notin 1..Len(results)
    <3>1. j = Len(results) + 1
      BY <1>2, <2>2
    <3> QED BY <3>1, <1>2, <1>3
  <2> QED BY <2>1, <2>2
<1>4. PasswordsAtPasswordPrompt'
  BY DEF DInv, HonestInv, PasswordsAtPasswordPrompt
<1> QED BY <1>2, <1>3, <1>4 DEF HonestInv, AuthErrorHonest

(* While a call goes on nothing is said of its result. *)
LEMMA GoesOnHonest ==
  ASSUME DInv, UNCHANGED <<results, rejected, misread>>
  PROVE  HonestInv' /\ results' \in Seq(Statuses)
BY DEF DInv, IInv, HonestInv, AuthErrorHonest, PasswordsAtPasswordPrompt

(* The caller is connected once it logs in or runs a command. *)
LEMMA Connected ==
  ASSUME DInv, pc \notin {"closed", "idle"}
  PROVE  cliConnected /\ (pc # "login" => ~LoggingIn)
BY DEF DInv, StartInv, LoggingIn

Kept == StartInv' /\ DialogInv' /\ PasswordInv' /\ PromptInv' /\ HonestInv'

(* Connect, and the start of the calls of Execute. *)
LEMMA StartStep ==
  ASSUME DInv, Connect \/ ExecuteFirst \/ Execute, UNCHANGED autoLogin
  PROVE  Kept /\ TypeOK'
<1> USE GenericDeviceAssumption
<1>1. UNCHANGED <<results, rejected, misread, buf, wire>>
  BY DEF Connect, ExecuteFirst, Execute, devVars
<1>4. TypeOK /\ HonestInv'
  BY <1>1, GoesOnHonest DEF DInv
<1>5. Stream' = Stream
  BY <1>1 DEF Stream
<1>6. Kinds(Stream') \subseteq Kinds(Stream)
  BY <1>5
<1>2. CASE Connect \/ ExecuteFirst
  <2>1. PICK lines \in Seq(Lines) :
          /\ inq' = inq \o lines /\ "password" \notin Kinds(lines)
          /\ Kinds(lines) \cap Commands = {}
    BY <1>4, <1>2, NoPassword, NothingWritten DEF Connect, ExecuteFirst
  <2>2. /\ UNCHANGED <<autoLogin, dev, rejected, misread, prompted>>
        /\ ~cliConnected /\ passwordIdx = 0 /\ passwordIdx' = 0
        /\ LoggingIn' => LoggingIn
    BY <1>2 DEF Connect, ExecuteFirst, devVars, DInv, IInv, StartInv,
       LoggingIn
  <2>3. PasswordInv' /\ PromptInv'
    BY <1>4, <1>6, <2>1, <2>2, CallerKeeps
  <2>4. DialogInv'
    BY <1>5, <1>2, <2>2 DEF DInv, DialogInv, Connect, ExecuteFirst
  <2>5. StartInv'
    BY <1>2, <2>2 DEF Connect, ExecuteFirst, StartInv, DInv
  <2>6. CASE Connect
    <3>1. TypeOK'
      BY <1>4, <2>6 DEF Connect, TypeOK, devVars
    <3> QED BY <1>4, <2>3, <2>4, <2>5, <3>1 DEF Kept
  <2>7. CASE ExecuteFirst
    <3>1. /\ calls' \in 0..MaxCalls /\ tries' \in 0..LoginTries
          /\ autoDone' \in 0..NAuto /\ passwordIdx' \in 0..NPasswords
      BY <1>4, <2>7 DEF ExecuteFirst, TypeOK
    <3>2. /\ cliConnected' \in BOOLEAN /\ pc' \in Login
          /\ cbBefore' \in SUBSET {"prompt", "question"}
      BY <1>4, <2>7 DEF ExecuteFirst, TypeOK, Login
    <3>3. UNCHANGED <<autoLogin, results, prompted, buf, wire, inq, devVars>>
      BY <2>7 DEF ExecuteFirst
    <3>4. TypeOK'
      BY <1>4, <3>1, <3>2, <3>3 DEF TypeOK, devVars
    <3> QED BY <1>4, <2>3, <2>4, <2>5, <3>4 DEF Kept
  <2> QED BY <1>2, <2>6, <2>7
<1>3. CASE Execute
  <2>1. calls' \in Nat /\ calls' \in 0..MaxCalls /\ "user" \in LineKinds
    BY <1>4, <1>3 DEF Execute, TypeOK, LineKinds
  <2>2. PICK lines \in Seq(Lines) :
          inq' = inq \o lines /\ "password" \notin Kinds(lines)
    <3>1. PICK n \in Nat : n = calls'
      BY <2>1
    <3>2. inq' = inq \o <<Line("user", n)>>
      BY <3>1, <1>3 DEF Execute, Write
    <3>3. /\ <<Line("user", n)>> \in Seq(Lines)
          /\ Kinds(<<Line("user", n)>>) = {"user"}
      BY <2>1, LineType
    <3> QED BY <3>2, <3>3
  <2>3. /\ pc' \in {"auto", "user", "idle"} /\ cliConnected /\ cliConnected'
        /\ UNCHANGED <<autoLogin, dev, rejected, misread, passwordIdx,
                       prompted>>
    BY <1>3 DEF Execute, devVars
  <2>6. StartInv' /\ DialogInv' /\ PasswordInv' /\ PromptInv'
    BY <1>4, <1>6, <2>2, <2>3, LeavesLogin
  <2>4. inq' \in Seq(Lines)
    BY <1>4, <2>2, Joined, StreamType
  <2>5. TypeOK'
    BY <1>4, <1>3, <2>1, <2>4 DEF Execute, TypeOK, devVars
  <2> QED BY <1>4, <2>5, <2>6 DEF Kept
<1> QED BY <1>2, <1>3

(* Receiving. *)
LEMMA ReceiveKept ==
  ASSUME DInv, Receive, UNCHANGED autoLogin
  PROVE  Kept /\ TypeOK'
<1>1. /\ Stream' = Stream /\ buf' \in Seq(Tokens) /\ wire' \in Seq(Tokens)
  BY ReceivedStream DEF DInv
<1>2. UNCHANGED <<callerVars, inq, devVars>>
  BY DEF Receive
<1>3. HonestInv'
  BY <1>2, GoesOnHonest DEF callerVars, devVars
<1>4. TypeOK'
  BY <1>1, <1>2 DEF DInv, TypeOK, callerVars, devVars
<1>5. UNCHANGED <<pc, cliConnected, passwordIdx, prompted, inq, dev,
                  rejected, misread, tries>>
  BY <1>2 DEF callerVars, devVars
<1>6. StartInv' /\ DialogInv' /\ PasswordInv' /\ PromptInv'
  BY <1>1, <1>5 DEF DInv, StartInv, DialogInv, PasswordInv, PromptInv,
     LoggingIn, PasswordInLine
<1> QED BY <1>3, <1>4, <1>6 DEF Kept

(* The steps of connectCLI over a connector that logs in itself. *)
LEMMA GreetStep ==
  ASSUME DInv, UNCHANGED autoLogin,
         GreetPrompt \/ GreetQuestion \/ GreetQuestionPrompt \/ GreetCallback
  PROVE  Kept /\ TypeOK'
<1> USE GenericDeviceAssumption
<1>1. /\ TypeOK /\ pc \in {"greet", "greetPrompt"} /\ pc \in Login
      /\ cliConnected /\ ~LoggingIn
      /\ UNCHANGED <<autoLogin, cliConnected, calls, cbBefore, passwordIdx,
                     wire, dev, greetings, rejected, misread>>
  BY Connected DEF DInv, GreetPrompt, GreetQuestion, GreetQuestionPrompt,
     GreetCallback, GreetFrame, devVars, Login
<1>2. 0 \in 0..NAuto /\ <<>> \in {<<>>, Answer} /\ Answer \in {<<>>, Answer}
  OBVIOUS
<1>3. CASE GreetPrompt \/ GreetQuestionPrompt
  <2>1. /\ RunNext(<<>>, 0) /\ Sees("prompt") /\ buf' = <<>> /\ prompted'
        /\ prompted' \in BOOLEAN /\ tries' = tries
    BY <1>3 DEF GreetPrompt, GreetQuestionPrompt
  <2>2. /\ pc' \in {"auto", "user"} /\ autoDone' = 0 /\ results' = results
    BY <1>1, <1>2, <2>1, RunNextWrites
  <2>3. PICK lines \in Seq(Lines) :
          inq' = inq \o lines /\ "password" \notin Kinds(lines)
    BY <1>1, <1>2, <2>1, RunNextWrites
  <2>4. /\ Kinds(Stream') \subseteq Kinds(Stream) /\ buf' \in Seq(Tokens)
        /\ "prompt" \in Kinds(Stream)
    BY <1>1, <2>1, BufferEmptied, SeenKind
  <2>5. StartInv' /\ DialogInv' /\ PasswordInv' /\ PromptInv'
    BY <1>1, <2>2, <2>3, <2>4, LeavesLogin
  <2>6. HonestInv'
    BY <1>1, <2>2, GoesOnHonest
  <2>7. inq' \in Seq(Lines)
    BY <1>1, <2>3, Joined, StreamType
  <2>8. TypeOK'
    BY <1>1, <2>1, <2>2, <2>4, <2>7 DEF TypeOK
  <2> QED BY <2>5, <2>6, <2>8 DEF Kept
<1>4. CASE GreetQuestion
  <2>1. /\ buf' = <<>> /\ UNCHANGED <<tries, autoDone, prompted>>
    BY <1>4 DEF GreetQuestion
  <2>2. Kinds(Stream') \subseteq Kinds(Stream) /\ buf' \in Seq(Tokens)
    BY <1>1, <2>1, BufferEmptied
  <2>3. CASE pc' = "greetPrompt" /\ Write(Answer) /\ UNCHANGED results
    <3>1. PICK lines \in Seq(Lines) :
            inq' = inq \o lines /\ Kinds(lines) = {"answer"}
      BY <2>3, NoPassword DEF Write
    <3>2. ~LoggingIn'
      BY <1>1, <2>3 DEF LoggingIn
    <3>3. PasswordInv' /\ PromptInv'
      BY <1>1, <2>1, <2>2, <3>1, <3>2, CallerKeeps DEF Commands
    <3>4. StartInv' /\ DialogInv' /\ HonestInv'
      BY <1>1, <2>3, <3>2, GoesOnHonest DEF StartInv, DialogInv
    <3>5. inq' \in Seq(Lines)
      BY <1>1, <3>1, Joined, StreamType
    <3>6. TypeOK'
      BY <1>1, <2>1, <2>2, <2>3, <3>5 DEF TypeOK, Login
    <3> QED BY <3>3, <3>4, <3>6 DEF Kept
  <2>4. CASE Returns("question")
    <3>1. "question" \in Statuses
      BY DEF Statuses
    <3>2. HonestInv' /\ results' \in Seq(Statuses)
      BY <1>1, <2>4, <3>1, ReturnHonest
    <3>3. /\ inq' = inq \o <<>> /\ pc' = "idle" /\ inq' = inq
          /\ <<>> \in Seq(Lines) /\ "password" \notin Kinds(<<>>)
      BY <1>1, <2>4, NothingWritten, NoPassword DEF Returns
    <3>4. StartInv' /\ DialogInv' /\ PasswordInv' /\ PromptInv'
      BY <1>1, <2>1, <2>2, <3>3, LeavesLogin
    <3>5. TypeOK'
      BY <1>1, <2>1, <2>2, <3>2, <3>3 DEF TypeOK, Statuses
    <3> QED BY <3>2, <3>4, <3>5 DEF Kept
  <2> QED BY <1>4, <2>3, <2>4 DEF GreetQuestion
<1>5. CASE GreetCallback
  <2>1. /\ pc = "greet" /\ Callback # {} /\ buf' = AfterCallback
        /\ tries' = tries - 1 /\ UNCHANGED prompted
    BY <1>5 DEF GreetCallback, GreetCallbackWins
  <2>2. Kinds(Stream') \subseteq Kinds(Stream) /\ buf' \in Seq(Tokens)
    BY <1>1, <2>1, CallbackConsumed
  <2>3. tries' \in 0..LoginTries
    BY <1>1, <2>1 DEF TypeOK, DInv, StartInv
  <2>4. CASE tries = 1
    <3>1. RunNext(Answer, 0)
      BY <1>5, <2>4 DEF GreetCallback
    <3>2. /\ pc' \in {"auto", "user"} /\ autoDone' = 0 /\ results' = results
      BY <1>1, <1>2, <3>1, RunNextWrites
    <3>3. PICK lines \in Seq(Lines) :
            inq' = inq \o lines /\ "password" \notin Kinds(lines)
      BY <1>1, <1>2, <3>1, RunNextWrites
    <3>4. StartInv' /\ DialogInv' /\ PasswordInv' /\ PromptInv'
      BY <1>1, <2>1, <2>2, <3>2, <3>3, LeavesLogin
    <3>5. inq' \in Seq(Lines) /\ HonestInv'
      BY <1>1, <3>2, <3>3, Joined, StreamType, GoesOnHonest
    <3>6. TypeOK'
      BY <1>1, <2>1, <2>2, <2>3, <3>2, <3>5 DEF TypeOK
    <3> QED BY <3>4, <3>5, <3>6 DEF Kept
  <2>5. CASE tries # 1
    <3>1. Write(Answer) /\ UNCHANGED <<pc, autoDone, results>>
      BY <1>5, <2>5 DEF GreetCallback
    <3>2. PICK lines \in Seq(Lines) :
            inq' = inq \o lines /\ Kinds(lines) = {"answer"}
      BY <3>1, NoPassword DEF Write
    <3>3. ~LoggingIn'
      BY <1>1, <2>1, <3>1 DEF LoggingIn
    <3>4. PasswordInv' /\ PromptInv'
      BY <1>1, <2>1, <2>2, <3>2, <3>3, CallerKeeps DEF Commands
    <3>5. tries' > 0
      BY <1>1, <2>1, <2>5 DEF TypeOK, DInv, StartInv
    <3>6. StartInv' /\ DialogInv' /\ HonestInv'
      BY <1>1, <2>1, <3>1, <3>3, <3>5, GoesOnHonest DEF StartInv, DialogInv
    <3>7. inq' \in Seq(Lines)
      BY <1>1, <3>2, Joined, StreamType
    <3>8. TypeOK'
      BY <1>1, <2>1, <2>2, <2>3, <3>1, <3>7 DEF TypeOK
    <3> QED BY <3>4, <3>6, <3>8 DEF Kept
  <2> QED BY <2>4, <2>5
<1> QED BY <1>3, <1>4, <1>5

(* A name is sent to a device that asks for one. *)
LEMMA NameStep ==
  ASSUME DInv, UNCHANGED autoLogin, LoginName
  PROVE  Kept /\ TypeOK'
<1>1. /\ TypeOK /\ pc = "login" /\ pc \in Login /\ cliConnected
      /\ Sees("login") /\ buf' = <<>>
      /\ UNCHANGED <<autoLogin, pc, cliConnected, calls, cbBefore, tries,
                     passwordIdx, autoDone, results, wire, dev, greetings,
                     rejected, misread, prompted>>
      /\ inq' = inq \o <<Line("name", 0)>>
  BY Connected DEF DInv, LoginName, LoginFrame, Continues, Write, devVars,
     Login
<1>2. /\ LoggingIn /\ dev \in {"login", "password"}
      /\ Asked(Stream, dev) /\ inq = <<>>
  BY <1>1, DeviceAsks
<1>3. dev = "login" /\ wire = <<>>
  BY <1>1, <1>2, QuestionSeen
<1>4. Stream' = <<>> /\ buf' \in Seq(Tokens)
      /\ Kinds(Stream') \subseteq Kinds(Stream)
  BY <1>1, <1>3, BufferEmptied
<1>5. "name" \in LineKinds /\ 0 \in Nat
  BY DEF LineKinds
<1>6. PICK line \in Lines : line = Line("name", 0) /\ line.k = "name"
        /\ <<line>> \in Seq(Lines) /\ Kinds(<<line>>) = {"name"}
  BY <1>5, LineType
<1>7. inq' = <<line>> /\ inq' \in Seq(Lines)
  <2>1. <<>> \o <<line>> = <<line>>
    BY <1>6, ConcatEmptySeq
  <2> QED BY <2>1, <1>1, <1>2, <1>6
<1>8. LoggingIn'
  BY <1>1, <1>2 DEF LoggingIn
<1>9. PasswordInv' /\ PromptInv'
  <2>1. PICK lines \in Seq(Lines) :
          inq' = inq \o lines /\ Kinds(lines) = {"name"}
    BY <1>1, <1>6
  <2> QED BY <2>1, <1>1, <1>2, <1>4, CallerKeeps DEF Commands
<1>10. DialogInv'
  <2>1. Len(<<line>>) = 1 /\ <<line>>[1] = line
    OBVIOUS
  <2>2. Len(inq') = 1 /\ inq'[1].k = "name"
    BY <2>1, <1>6, <1>7
  <2> QED BY <2>2, <1>1, <1>3, <1>4 DEF DialogInv
<1>11. StartInv'
  BY <1>1 DEF DInv, StartInv
<1>12. HonestInv'
  BY <1>1, GoesOnHonest
<1>13. TypeOK'
  BY <1>1, <1>4, <1>7 DEF TypeOK
<1> QED BY <1>9, <1>10, <1>11, <1>12, <1>13 DEF Kept

(* A password is sent to a device that asks for one, or there is none left. *)
LEMMA PasswordStep ==
  ASSUME DInv, UNCHANGED autoLogin, LoginPassword
  PROVE  Kept /\ TypeOK'
<1> USE GenericDeviceAssumption
<1>1. /\ TypeOK /\ pc = "login" /\ pc \in Login /\ cliConnected
      /\ Sees("password") /\ buf' = <<>>
      /\ UNCHANGED <<autoLogin, cliConnected, calls, cbBefore, tries,
                     autoDone, wire, dev, greetings, rejected, misread,
                     prompted>>
  BY Connected DEF DInv, LoginPassword, LoginFrame, devVars, Login
<1>2. /\ LoggingIn /\ dev \in {"login", "password"}
      /\ Asked(Stream, dev) /\ inq = <<>>
  BY <1>1, DeviceAsks
<1>3. dev = "password" /\ wire = <<>>
  BY <1>1, <1>2, QuestionSeen
<1>4. Stream' = <<>> /\ buf' \in Seq(Tokens)
      /\ Kinds(Stream') \subseteq Kinds(Stream)
  BY <1>1, <1>3, BufferEmptied
<1>5. /\ rejected = passwordIdx /\ PasswordInLine = 0
      /\ passwordIdx \in 0..NPasswords /\ rejected \in Nat
  BY <1>1, <1>2, <1>3 DEF DInv, PasswordInv, PasswordInLine, TypeOK
<1>6. CASE passwordIdx >= NPasswords
  <2>1. PICK status \in Statuses \ {"ok"} :
          Returns(status) /\ UNCHANGED passwordIdx
    <3>1. (IF NPasswords = 0 THEN "nopassword" ELSE "auth")
            \in Statuses \ {"ok"}
      BY DEF Statuses
    <3> QED BY <1>6, <3>1 DEF LoginPassword
  <2>2. rejected = NPasswords
    BY <1>5, <1>6
  <2>3. HonestInv' /\ results' \in Seq(Statuses)
    BY <1>1, <2>1, <2>2, ReturnHonest
  <2>4. pc' = "idle" /\ inq' = inq
    BY <2>1 DEF Returns
  <2>5. PICK lines \in Seq(Lines) :
          inq' = inq \o lines /\ "password" \notin Kinds(lines)
    BY <1>1, <2>4, NothingWritten, NoPassword
  <2>6. StartInv' /\ DialogInv' /\ PasswordInv' /\ PromptInv'
    BY <1>1, <1>4, <2>1, <2>4, <2>5, LeavesLogin
  <2>7. TypeOK'
    BY <1>1, <1>4, <2>1, <2>3, <2>4 DEF TypeOK, Statuses
  <2> QED BY <2>3, <2>6, <2>7 DEF Kept
<1>7. CASE ~(passwordIdx >= NPasswords)
  <2>1. /\ passwordIdx' = passwordIdx + 1 /\ UNCHANGED <<pc, results>>
        /\ inq' = inq \o <<Line("password", passwordIdx + 1)>>
    BY <1>7 DEF LoginPassword, Continues, Write, NextPassword
  <2>2. "password" \in LineKinds /\ passwordIdx + 1 \in Nat
        /\ passwordIdx' \in 0..NPasswords
    BY <1>5, <1>7, <2>1 DEF LineKinds
  <2>3. PICK line \in Lines :
          /\ line = Line("password", passwordIdx + 1)
          /\ line.k = "password" /\ <<line>> \in Seq(Lines)
    BY <2>2, LineType
  <2>4. inq' = <<line>>
    <3>1. <<>> \o <<line>> = <<line>>
      BY <2>3, ConcatEmptySeq
    <3> QED BY <3>1, <1>2, <2>1, <2>3
  <2>5. /\ Len(inq') = 1 /\ inq'[1].k = "password" /\ DOMAIN inq' = {1}
        /\ inq' # <<>> /\ Kinds(inq') = {"password"} /\ inq' \in Seq(Lines)
    <3>1. /\ Len(<<line>>) = 1 /\ <<line>>[1] = line
          /\ DOMAIN <<line>> = {1} /\ <<line>> # <<>>
      OBVIOUS
    <3> QED BY <3>1, <2>3, <2>4, KindsOfListed
  <2>6. LoggingIn' /\ PasswordInLine' = 1
    BY <1>1, <1>2, <2>1, <2>5 DEF LoggingIn, PasswordInLine
  <2>7. PasswordInv'
    BY <1>1, <1>3, <1>5, <2>1, <2>5, <2>6 DEF PasswordInv
  <2>8. PromptInv'
    BY <1>1, <1>4, <2>1, <2>5 DEF DInv, PromptInv, Commands
  <2>9. DialogInv'
    BY <1>1, <1>3, <1>4, <2>5 DEF DialogInv
  <2>10. StartInv' /\ HonestInv'
    BY <1>1, <2>1, GoesOnHonest DEF DInv, StartInv
  <2>11. TypeOK'
    BY <1>1, <1>4, <2>1, <2>2, <2>5 DEF TypeOK
  <2> QED BY <2>7, <2>8, <2>9, <2>10, <2>11 DEF Kept
<1> QED BY <1>6, <1>7

(* A refusal is the end after the last password, or the question behind it
   is waited for. *)
LEMMA PasswordErrorStep ==
  ASSUME DInv, UNCHANGED autoLogin, LoginPasswordError
  PROVE  Kept /\ TypeOK'
<1> USE GenericDeviceAssumption
<1>1. /\ TypeOK /\ pc = "login" /\ pc \in Login /\ cliConnected
      /\ Sees("passwdErr") /\ buf' = <<>>
      /\ UNCHANGED <<autoLogin, cliConnected, calls, cbBefore, tries,
                     passwordIdx, autoDone, wire, dev, greetings, rejected,
                     misread, prompted>>
  BY Connected DEF DInv, LoginPasswordError, LoginFrame, devVars, Login
<1>2. /\ LoggingIn /\ dev \in {"login", "password"}
      /\ Asked(Stream, dev) /\ inq = <<>>
  BY <1>1, DeviceAsks
<1>3. Asked(wire, dev)
  BY <1>1, <1>2, RefusalSeen
<1>4. Stream' = wire /\ buf' \in Seq(Tokens)
      /\ Kinds(Stream') \subseteq Kinds(Stream)
  BY <1>1, BufferEmptied
<1>5. /\ rejected = passwordIdx /\ passwordIdx \in 0..NPasswords
  BY <1>1, <1>2 DEF DInv, PasswordInv, PasswordInLine, TypeOK
<1>6. CASE passwordIdx >= NPasswords
  <2>1. Returns("auth") /\ "auth" \in Statuses
    BY <1>6 DEF LoginPasswordError, Statuses
  <2>2. rejected = NPasswords
    BY <1>5, <1>6
  <2>3. HonestInv' /\ results' \in Seq(Statuses)
    BY <1>1, <2>1, <2>2, ReturnHonest
  <2>4. pc' = "idle" /\ inq' = inq
    BY <2>1 DEF Returns
  <2>5. PICK lines \in Seq(Lines) :
          inq' = inq \o lines /\ "password" \notin Kinds(lines)
    BY <1>1, <2>4, NothingWritten, NoPassword
  <2>6. StartInv' /\ DialogInv' /\ PasswordInv' /\ PromptInv'
    BY <1>1, <1>4, <2>4, <2>5, LeavesLogin
  <2>7. TypeOK'
    BY <1>1, <1>4, <2>3, <2>4 DEF TypeOK, Statuses
  <2> QED BY <2>3, <2>6, <2>7 DEF Kept
<1>7. CASE ~(passwordIdx >= NPasswords)
  <2>1. inq' = inq \o <<>> /\ UNCHANGED <<pc, results>>
    BY <1>7 DEF LoginPasswordError, Continues, Write
  <2>2. <<>> \in Seq(Lines) /\ Kinds(<<>>) = {} /\ <<>> \o <<>> = <<>>
    BY NoPassword, EmptySeq, ConcatEmptySeq
  <2>3. inq' = <<>> /\ inq' = inq
    BY <1>2, <2>1, <2>2
  <2>4. LoggingIn'
    BY <1>1, <1>2, <2>1 DEF LoggingIn
  <2>5. PICK lines \in Seq(Lines) : inq' = inq \o lines /\ Kinds(lines) = {}
    BY <2>1, <2>2
  <2>6. PasswordInv' /\ PromptInv'
    BY <1>1, <1>2, <1>4, <2>1, <2>5, CallerKeeps
  <2>7. DialogInv'
    BY <1>1, <1>2, <1>3, <1>4, <2>3 DEF DialogInv
  <2>8. StartInv' /\ HonestInv'
    BY <1>1, <2>1, GoesOnHonest DEF DInv, StartInv
  <2>9. TypeOK'
    BY <1>1, <1>4, <2>1, <2>3 DEF TypeOK
  <2> QED BY <2>6, <2>7, <2>8, <2>9 DEF Kept
<1> QED BY <1>6, <1>7

(* A callback is answered: the device is past its questions. *)
LEMMA CallbackStep ==
  ASSUME DInv, UNCHANGED autoLogin, LoginCallback
  PROVE  Kept /\ TypeOK'
<1>1. /\ TypeOK /\ pc = "login" /\ pc \in Login /\ cliConnected /\ LoggingIn
      /\ Callback # {} /\ buf' = AfterCallback
      /\ UNCHANGED <<autoLogin, pc, cliConnected, calls, cbBefore, tries,
                     passwordIdx, autoDone, results, wire, dev, greetings,
                     rejected, misread, prompted>>
      /\ inq' = inq \o Answer
  BY Connected DEF DInv, StartInv, LoginCallback, LoginFrame, Continues,
     Write, devVars, Login, LoggingIn
<1>2. Kinds(Stream') \subseteq Kinds(Stream) /\ buf' \in Seq(Tokens)
  BY <1>1, CallbackConsumed
<1>3. Kinds(Stream) \cap {"motd", "ask"} # {}
  <2>1. PICK i \in DOMAIN buf : buf[i].k \in {"motd", "ask"}
    BY <1>1 DEF Callback
  <2>2. buf[i].k \in Kinds(buf)
    BY DEF Kinds
  <2> QED BY <1>1, <2>1, <2>2, StreamType
<1>4. dev \notin {"boot", "login", "password"}
  <2>1. Stream # <<>>
    BY <1>3, KindsOfListed
  <2>2. ~Asked(Stream, dev) \/ dev \notin {"login", "password"}
    BY <1>1, <1>3, AskedKinds, StreamType
  <2> QED BY <1>1, <2>1, <2>2 DEF DInv, DialogInv
<1>5. PICK lines \in Seq(Lines) :
        inq' = inq \o lines /\ Kinds(lines) = {"answer"}
  BY <1>1, NoPassword
<1>6. LoggingIn'
  BY <1>1 DEF LoggingIn
<1>7. PasswordInv' /\ PromptInv'
  BY <1>1, <1>2, <1>5, <1>6, CallerKeeps DEF Commands
<1>8. DialogInv'
  BY <1>1, <1>2, <1>4 DEF DInv, DialogInv
<1>9. StartInv' /\ HonestInv'
  BY <1>1, GoesOnHonest DEF DInv, StartInv
<1>10. inq' \in Seq(Lines)
  BY <1>1, <1>5, Joined, StreamType
<1>11. TypeOK'
  BY <1>1, <1>2, <1>10 DEF TypeOK
<1> QED BY <1>7, <1>8, <1>9, <1>11 DEF Kept

(* The login by hand ends at a prompt. *)
LEMMA LoginPromptStep ==
  ASSUME DInv, UNCHANGED autoLogin, LoginPrompt
  PROVE  Kept /\ TypeOK'
<1> USE GenericDeviceAssumption
<1>1. /\ TypeOK /\ pc = "login" /\ pc \in Login /\ cliConnected
      /\ Sees("prompt") /\ buf' = <<>> /\ prompted' /\ prompted' \in BOOLEAN
      /\ RunNext(<<>>, 0)
      /\ UNCHANGED <<autoLogin, cliConnected, calls, cbBefore, tries,
                     passwordIdx, wire, dev, greetings, rejected, misread>>
  BY Connected DEF DInv, LoginPrompt, LoginFrame, devVars, Login
<1>2. 0 \in 0..NAuto /\ <<>> \in {<<>>, Answer}
  OBVIOUS
<1>3. /\ pc' \in {"auto", "user"} /\ autoDone' = 0 /\ results' = results
  BY <1>1, <1>2, RunNextWrites
<1>4. PICK lines \in Seq(Lines) :
        inq' = inq \o lines /\ "password" \notin Kinds(lines)
  BY <1>1, <1>2, RunNextWrites
<1>5. /\ Kinds(Stream') \subseteq Kinds(Stream) /\ buf' \in Seq(Tokens)
      /\ "prompt" \in Kinds(Stream)
  BY <1>1, BufferEmptied, SeenKind
<1>6. StartInv' /\ DialogInv' /\ PasswordInv' /\ PromptInv'
  BY <1>1, <1>3, <1>4, <1>5, LeavesLogin
<1>7. HonestInv'
  BY <1>1, <1>3, GoesOnHonest
<1>8. inq' \in Seq(Lines)
  BY <1>1, <1>4, Joined, StreamType
<1>9. TypeOK'
  BY <1>1, <1>3, <1>5, <1>8 DEF TypeOK
<1> QED BY <1>6, <1>7, <1>9 DEF Kept

(* A login that fails, and the commands. *)
LEMMA CommandStep ==
  ASSUME DInv, UNCHANGED autoLogin,
         LoginFails \/ AutoCompletes \/ UserCompletes \/ CommandFails
  PROVE  Kept /\ TypeOK'
<1> USE GenericDeviceAssumption
<1>1. /\ TypeOK /\ cliConnected
      /\ UNCHANGED <<autoLogin, cliConnected, calls, cbBefore, tries,
                     passwordIdx, wire, dev, greetings, rejected, misread,
                     prompted>>
  BY Connected DEF DInv, LoginFails, AutoCompletes, UserCompletes,
     CommandFails, CommandFrame, devVars, Login
<1>2. Kinds(Stream') \subseteq Kinds(Stream) /\ buf' \in Seq(Tokens)
  <2>1. CASE LoginFails \/ CommandFails
    <3>1. buf' = buf
      BY <2>1 DEF LoginFails, CommandFails
    <3>2. Stream' = Stream
      BY <1>1, <3>1 DEF Stream
    <3> QED BY <1>1, <3>1, <3>2 DEF TypeOK
  <2>2. ASSUME NEW line, Completes(line)
        PROVE  Kinds(Stream') \subseteq Kinds(Stream) /\ buf' \in Seq(Tokens)
    <3>1. PICK j \in DOMAIN buf : buf' = SubSeq(buf, j + 1, Len(buf))
      BY <2>2 DEF Completes
    <3> QED BY <1>1, <3>1, BufferCut
  <2> QED BY <2>1, <2>2 DEF AutoCompletes, UserCompletes
<1>3. CASE AutoCompletes
  <2>1. /\ RunNext(<<>>, autoDone + 1) /\ autoDone + 1 \in 0..NAuto
        /\ <<>> \in {<<>>, Answer}
    BY <1>3 DEF AutoCompletes, DInv, IInv
  <2>2. /\ pc' \in {"auto", "user"} /\ autoDone' \in 0..NAuto
        /\ results' = results
    BY <1>1, <2>1, RunNextWrites
  <2>3. PICK lines \in Seq(Lines) :
          inq' = inq \o lines /\ "password" \notin Kinds(lines)
    BY <1>1, <2>1, RunNextWrites
  <2>4. StartInv' /\ DialogInv' /\ PasswordInv' /\ PromptInv'
    BY <1>1, <1>2, <2>2, <2>3, LeavesLogin
  <2>5. HonestInv'
    BY <1>1, <2>2, GoesOnHonest
  <2>6. inq' \in Seq(Lines)
    BY <1>1, <2>3, Joined, StreamType
  <2>7. TypeOK'
    BY <1>1, <1>2, <2>2, <2>6 DEF TypeOK
  <2> QED BY <2>4, <2>5, <2>7 DEF Kept
<1>4. CASE LoginFails \/ UserCompletes \/ CommandFails
  <2>1. PICK status \in {"error", "ok"} : Returns(status)
    BY <1>4 DEF LoginFails, UserCompletes, CommandFails
  <2>2. autoDone' = autoDone /\ pc' = "idle" /\ inq' = inq
    BY <1>4, <2>1 DEF LoginFails, UserCompletes, CommandFails, Returns
  <2>3. status \in Statuses /\ status # "auth"
    BY DEF Statuses
  <2>4. HonestInv' /\ results' \in Seq(Statuses)
    BY <1>1, <2>1, <2>3, ReturnHonest
  <2>5. PICK lines \in Seq(Lines) :
          inq' = inq \o lines /\ "password" \notin Kinds(lines)
    BY <1>1, <2>2, NothingWritten, NoPassword
  <2>6. StartInv' /\ DialogInv' /\ PasswordInv' /\ PromptInv'
    BY <1>1, <1>2, <2>2, <2>5, LeavesLogin
  <2>7. TypeOK'
    BY <1>1, <1>2, <2>2, <2>4 DEF TypeOK, Statuses
  <2> QED BY <2>4, <2>6, <2>7 DEF Kept
<1> QED BY <1>3, <1>4

(* What the caller keeps while the device works. *)
CallerWaits ==
  UNCHANGED <<autoLogin, pc, cliConnected, calls, cbBefore, tries,
              passwordIdx, autoDone, results, prompted, buf>>

(* The device reads a line: passwords are read where they were asked for,
   and commands at the prompt, once there was one. *)
LEMMA ReadKept ==
  ASSUME DInv, NEW st \in {"login", "password", "ask", "prompt"}, Reads(st)
  PROVE  /\ misread' \subseteq LineKinds
                        \X {"login", "password", "ask", "prompt"}
         /\ PasswordsAtPasswordPrompt'
         /\ "password" \notin Kinds(inq') /\ PasswordInLine' = 0
         /\ \A i \in DOMAIN inq' : inq'[i].k # "password"
         /\ prompted => \A m \in misread' : m[1] \notin Commands
         /\ pc \in Login \/ ~cliConnected =>
              /\ Kinds(inq') \cap Commands = {}
              /\ \A m \in misread' : m[1] \notin Commands
<1>1. /\ Head(inq) = inq[1] /\ inq[1] \in Lines /\ inq[1].k \in LineKinds
      /\ inq[1].k \in Kinds(inq) /\ 1 \in DOMAIN inq
      /\ Kinds(inq') \subseteq Kinds(inq)
      /\ \A i \in DOMAIN inq' : i + 1 \in DOMAIN inq /\ i + 1 # 1
                                /\ inq'[i] = inq[i + 1]
      /\ inq' \in Seq(Lines)
  BY LineRead DEF DInv
<1>2. /\ dev = st
      /\ misread' = IF MeantFor(inq[1]) = st THEN misread
                    ELSE misread \union {<<inq[1].k, st>>}
  BY <1>1 DEF Reads
<1>3. PICK k \in LineKinds : k = inq[1].k
  BY <1>1
<1>4. misread' = misread \/ misread' = misread \union {<<k, st>>}
  BY <1>2, <1>3
<1>5. misread' \subseteq LineKinds \X {"login", "password", "ask", "prompt"}
  BY <1>4 DEF DInv, TypeOK, LineKinds
<1>6. \A i \in DOMAIN inq' : inq'[i].k # "password"
  BY <1>1 DEF DInv, PasswordInv
<1>7. "password" \notin Kinds(inq')
  BY <1>6 DEF Kinds
<1>8. PasswordInLine' = 0
  <2>1. inq' # <<>> => 1 \in DOMAIN inq'
    <3>1. Len(inq') \in Nat /\ DOMAIN inq' = 1..Len(inq')
      BY <1>1, LenProperties
    <3>2. inq' # <<>> => Len(inq') # 0
      BY <1>1, EmptySeq
    <3> QED BY <3>1, <3>2
  <2> QED BY <2>1, <1>6 DEF PasswordInLine
<1>9. k = "password" => misread' = misread
  <2>1. k = "password" => st = "password"
    BY <1>1, <1>2, <1>3 DEF DInv, PasswordInv
  <2> QED BY <2>1, <1>2, <1>3 DEF MeantFor
<1>10. PasswordsAtPasswordPrompt'
  <2>1. \A m \in misread : m[1] # "password"
    BY DEF DInv, HonestInv, PasswordsAtPasswordPrompt
  <2>2. \A m \in misread' : m[1] # "password"
    BY <2>1, <1>4, <1>9
  <2> QED BY <2>2 DEF PasswordsAtPasswordPrompt
<1>11. ASSUME prompted
       PROVE  \A m \in misread' : m[1] \notin Commands
  <2>1. st = "prompt" /\ \A m \in misread : m[1] \notin Commands
    BY <1>2, <1>11 DEF DInv, PromptInv
  <2>2. k \in Commands => misread' = misread
    BY <2>1, <1>2, <1>3 DEF MeantFor, Commands
  <2> QED BY <2>1, <2>2, <1>4
<1>12. ASSUME pc \in Login \/ ~cliConnected
       PROVE  /\ Kinds(inq') \cap Commands = {}
              /\ \A m \in misread' : m[1] \notin Commands
  <2>1. /\ Kinds(inq) \cap Commands = {}
        /\ \A m \in misread : m[1] \notin Commands
    BY <1>12 DEF DInv, PromptInv
  <2>2. k \notin Commands
    BY <2>1, <1>1, <1>3
  <2> QED BY <2>1, <2>2, <1>1, <1>4
<1> QED BY <1>5, <1>6, <1>7, <1>8, <1>10, <1>11, <1>12

(* The device prints of its own accord. *)
LEMMA TalkStep ==
  ASSUME DInv, UNCHANGED autoLogin, DevBoots \/ DevGreets \/ DevPrompts
  PROVE  Kept /\ TypeOK'
<1> USE GenericDeviceAssumption
<1>1. /\ TypeOK /\ CallerWaits /\ UNCHANGED <<inq, rejected, misread>>
      /\ dev \in {"boot", "welcome"}
  BY DEF DInv, DevBoots, DevGreets, DevPrompts, callerVars, CallerWaits
<1>2. PICK k \in TokenKinds :
        /\ wire' = wire \o <<Token(k)>>
        /\ \/ dev = "boot" /\ k \in {"login", "password"} /\ dev' = k
           \/ /\ dev = "welcome" /\ k \in {"motd", "ask", "question"}
              /\ dev' \in {"welcome", "ask"}
           \/ dev = "welcome" /\ k = "prompt" /\ dev' = "prompt"
  BY Printed DEF DevBoots, DevGreets, DevPrompts, TokenKinds
<1>3. PICK t \in Tokens : /\ t = Token(k) /\ <<t>> \in Seq(Tokens)
                          /\ Kinds(<<t>>) = {k} /\ Asked(<<t>>, k)
  BY TokenType, AskedNow
<1>4. wire' = wire \o <<t>> /\ buf' = buf
  BY <1>1, <1>2, <1>3 DEF CallerWaits
<1>5. /\ wire' \in Seq(Tokens) /\ Stream' = Stream \o <<t>>
      /\ Kinds(Stream') = Kinds(Stream) \union {k}
  BY <1>1, <1>3, <1>4, StreamGrows
<1>6. LoggingIn' <=> LoggingIn
  BY <1>1 DEF CallerWaits, LoggingIn
<1>7. PasswordInLine' = PasswordInLine
  BY <1>1 DEF PasswordInLine
<1>8. PasswordInv'
  BY <1>1, <1>2, <1>6, <1>7 DEF DInv, PasswordInv, CallerWaits
<1>9. PromptInv'
  BY <1>1, <1>2, <1>5 DEF DInv, PromptInv, CallerWaits
<1>10. DialogInv'
  <2>1. CASE ~LoggingIn
    BY <2>1, <1>6 DEF DialogInv
  <2>2. CASE LoggingIn /\ dev = "boot"
    <3>1. Stream = <<>> /\ inq = <<>>
      BY <2>2 DEF DInv, DialogInv
    <3>2. Stream' = <<t>>
      BY <3>1, <1>3, <1>5, ConcatEmptySeq
    <3> QED BY <3>1, <3>2, <1>1, <1>2, <1>3, <2>2 DEF DialogInv
  <2>3. CASE LoggingIn /\ dev = "welcome"
    BY <2>3, <1>2, <1>5 DEF DInv, DialogInv
  <2> QED BY <2>1, <2>2, <2>3, <1>1
<1>11. StartInv' /\ HonestInv'
  BY <1>1, GoesOnHonest DEF DInv, StartInv, CallerWaits
<1>12. dev' \in {"login", "password", "welcome", "ask", "prompt"}
       /\ greetings' \in 0..MaxGreetings
  <2>1. greetings' = greetings \/ (greetings > 0 /\ greetings' = greetings - 1)
    BY DEF DevBoots, DevGreets, DevPrompts
  <2> QED BY <2>1, <1>1, <1>2 DEF TypeOK
<1>13. TypeOK'
  BY <1>1, <1>5, <1>12 DEF TypeOK, CallerWaits
<1> QED BY <1>8, <1>9, <1>10, <1>11, <1>13 DEF Kept

(* It reads a line that it asked for, in the login. *)
LEMMA LoginReadStep ==
  ASSUME DInv, UNCHANGED autoLogin, DevReadsName \/ DevAccepts \/ DevRejects
  PROVE  Kept /\ TypeOK'
<1> USE GenericDeviceAssumption
<1>1. /\ TypeOK /\ CallerWaits /\ Reads(dev) /\ dev \in {"login", "password"}
      /\ UNCHANGED greetings /\ inq # <<>>
  BY DEF DInv, DevReadsName, DevAccepts, DevRejects, Reads, callerVars,
     CallerWaits
<1>2. PICK new \in Seq(Tokens) :
        /\ wire' = wire \o new
        /\ \/ /\ dev' \in {"login", "password"} /\ Asked(new, dev')
              /\ Kinds(new) \subseteq {"login", "password", "passwdErr"}
           \/ dev' = "welcome" /\ new = <<>>
  <2>1. CASE wire' = wire /\ dev' = "welcome"
    <3>1. wire' = wire \o <<>> /\ <<>> \in Seq(Tokens)
      BY <2>1, <1>1, StreamType, ConcatEmptySeq, EmptySeq
    <3> QED BY <2>1, <3>1
  <2>2. ASSUME NEW k \in {"login", "password"}, dev' = k,
               Prints(<<k>>) \/ Prints(<<"passwdErr", k>>)
        PROVE  \E new \in Seq(Tokens) :
                 /\ wire' = wire \o new /\ Asked(new, k)
                 /\ Kinds(new) \subseteq {"login", "password", "passwdErr"}
    <3>1. k \in TokenKinds /\ "passwdErr" \in TokenKinds
      BY DEF TokenKinds
    <3>2. PICK a \in Seq(Tokens) : /\ a = <<Token(k)>> /\ Asked(a, k)
                                   /\ Kinds(a) = {k}
      BY <3>1, TokenType, AskedNow
    <3>3. PICK b \in Seq(Tokens) : /\ b = <<Token("passwdErr"), Token(k)>>
                                   /\ Asked(b, k)
                                   /\ Kinds(b) = {"passwdErr", k}
      BY <3>1, TokenType, AskedNow
    <3>4. wire' = wire \o a \/ wire' = wire \o b
      BY <2>2, <3>2, <3>3, Printed
    <3> QED BY <3>2, <3>3, <3>4
  <2>3. \/ wire' = wire /\ dev' = "welcome"
        \/ \E k \in {"login", "password"} :
             dev' = k /\ (Prints(<<k>>) \/ Prints(<<"passwdErr", k>>))
    BY DEF DevReadsName, DevAccepts, DevRejects
  <2> QED BY <2>1, <2>2, <2>3
<1>3. /\ wire' \in Seq(Tokens) /\ Stream' = Stream \o new
      /\ Kinds(Stream') = Kinds(Stream) \union Kinds(new)
  BY <1>1, <1>2, StreamGrows DEF CallerWaits
<1>4. /\ misread' \subseteq LineKinds
                     \X {"login", "password", "ask", "prompt"}
      /\ PasswordsAtPasswordPrompt'
      /\ "password" \notin Kinds(inq') /\ PasswordInLine' = 0
      /\ \A i \in DOMAIN inq' : inq'[i].k # "password"
      /\ prompted => \A m \in misread' : m[1] \notin Commands
      /\ pc \in Login \/ ~cliConnected =>
           /\ Kinds(inq') \cap Commands = {}
           /\ \A m \in misread' : m[1] \notin Commands
  <2>1. dev \in {"login", "password", "ask", "prompt"}
    BY <1>1
  <2> QED BY <2>1, <1>1, ReadKept
<1>5. /\ Head(inq) = inq[1] /\ 1 \in DOMAIN inq
      /\ inq' \in Seq(Lines) /\ (Len(inq) = 1 => inq' = <<>>)
  BY <1>1, LineRead
<1>6. LoggingIn' <=> LoggingIn
  BY <1>1 DEF CallerWaits, LoggingIn
<1>7. /\ rejected' \in {rejected, rejected + PasswordInLine}
      /\ dev' \in {"login", "password"}
           => rejected' = rejected + PasswordInLine
  <2>1. dev = "login" => PasswordInLine = 0
    BY <1>5 DEF DInv, PasswordInv, PasswordInLine
  <2>2. PasswordInLine = IF inq[1].k = "password" THEN 1 ELSE 0
    BY <1>1 DEF PasswordInLine
  <2>3. rejected \in Nat
    BY <1>1 DEF TypeOK
  <2>4. CASE DevReadsName
    BY <2>1, <2>3, <2>4 DEF DevReadsName, Reads
  <2>5. CASE DevAccepts
    BY <2>5 DEF DevAccepts
  <2>6. CASE DevRejects
    <3>1. rejected' = IF inq[1].k = "password" THEN rejected + 1 ELSE rejected
      BY <2>6, <1>5 DEF DevRejects
    <3> QED BY <3>1, <2>2, <2>3
  <2> QED BY <2>4, <2>5, <2>6
<1>8. /\ rejected \in Nat /\ PasswordInLine \in {0, 1}
      /\ passwordIdx \in 0..NPasswords
      /\ rejected + PasswordInLine <= passwordIdx
  BY <1>1 DEF TypeOK, PasswordInLine, DInv, PasswordInv
<1>9. PasswordInv'
  <2>1. PasswordInLine' = 0 /\ passwordIdx' = passwordIdx
    BY <1>1, <1>4 DEF CallerWaits
  <2>2. PICK r \in Nat, n \in {0, 1} : r = rejected /\ n = PasswordInLine
    BY <1>8
  <2>3. /\ rejected' = r \/ rejected' = r + n
        /\ dev' \in {"login", "password"} => rejected' = r + n
    BY <2>2, <1>7, Zenon
  <2>4. rejected' \in Nat /\ rejected' + 0 = rejected'
    BY <2>3
  <2>5. rejected' <= passwordIdx
    <3>1. r + n <= passwordIdx /\ passwordIdx \in Nat
      BY <2>2, <1>8
    <3> QED BY <3>1, <2>3
  <2>6. ASSUME LoggingIn', dev' \in {"boot", "login", "password"}
        PROVE  rejected' = passwordIdx
    <3>1. rejected + PasswordInLine = passwordIdx
      BY <1>1, <1>6, <2>6 DEF DInv, PasswordInv
    <3>2. dev' \in {"login", "password"}
      BY <1>2, <2>6
    <3> QED BY <3>1, <3>2, <2>2, <2>3
  <2> QED BY <2>1, <2>4, <2>5, <2>6, <1>4 DEF PasswordInv
<1>10. PromptInv'
  <2>1. dev # "prompt" /\ ~prompted /\ "prompt" \notin Kinds(Stream)
    BY <1>1 DEF DInv, PromptInv
  <2>2. "prompt" \notin Kinds(Stream')
    BY <2>1, <1>2, <1>3, KindsOfListed
  <2> QED BY <2>1, <2>2, <1>1, <1>4 DEF PromptInv, CallerWaits
<1>11. DialogInv'
  <2>1. CASE ~LoggingIn
    BY <2>1, <1>6 DEF DialogInv
  <2>2. CASE LoggingIn
    <3>1. Stream = <<>> /\ inq' = <<>>
      BY <2>2, <1>1, <1>5 DEF DInv, DialogInv
    <3>2. Stream' = new
      BY <3>1, <1>3, ConcatEmptySeq
    <3>3. CASE dev' \in {"login", "password"} /\ Asked(new, dev')
      BY <3>1, <3>2, <3>3 DEF DialogInv
    <3>4. CASE dev' = "welcome" /\ new = <<>>
      BY <3>2, <3>4, KindsOfListed DEF DialogInv
    <3> QED BY <3>3, <3>4, <1>2
  <2> QED BY <2>1, <2>2
<1>12. HonestInv'
  <2>1. AuthErrorHonest'
    <3>1. rejected' = NPasswords \/ rejected # NPasswords
      BY <1>7, <1>8
    <3>2. results' = results
      BY <1>1 DEF CallerWaits
    <3> QED BY <3>1, <3>2 DEF DInv, HonestInv, AuthErrorHonest
  <2> QED BY <2>1, <1>4 DEF HonestInv
<1>13. StartInv'
  BY <1>1 DEF DInv, StartInv, CallerWaits
<1>14. TypeOK'
  <2>1. rejected' \in 0..NPasswords
    BY <1>7, <1>8
  <2>2. dev' \in {"login", "password", "welcome"}
    BY <1>2
  <2>3. misread' \subseteq
          {"auto", "user", "name", "password", "answer"} \X
          {"login", "password", "ask", "prompt"}
    BY <1>4 DEF LineKinds
  <2> QED BY <1>1, <1>3, <1>5, <2>1, <2>2, <2>3 DEF TypeOK, CallerWaits
<1> QED BY <1>9, <1>10, <1>11, <1>12, <1>13, <1>14 DEF Kept

(* It reads an answer or a command, past the login. *)
LEMMA PromptReadStep ==
  ASSUME DInv, UNCHANGED autoLogin, DevReadsAnswer \/ DevReadsCommand
  PROVE  Kept /\ TypeOK'
<1>1. /\ TypeOK /\ CallerWaits /\ Reads(dev) /\ dev \in {"ask", "prompt"}
      /\ UNCHANGED <<greetings, rejected>>
  BY DEF DInv, DevReadsAnswer, DevReadsCommand, Reads, callerVars,
     CallerWaits
<1>2. /\ misread' \subseteq LineKinds
                     \X {"login", "password", "ask", "prompt"}
      /\ PasswordsAtPasswordPrompt'
      /\ "password" \notin Kinds(inq') /\ PasswordInLine' = 0
      /\ \A i \in DOMAIN inq' : inq'[i].k # "password"
      /\ prompted => \A m \in misread' : m[1] \notin Commands
      /\ pc \in Login \/ ~cliConnected =>
           /\ Kinds(inq') \cap Commands = {}
           /\ \A m \in misread' : m[1] \notin Commands
  <2>1. dev \in {"login", "password", "ask", "prompt"}
    BY <1>1
  <2> QED BY <2>1, <1>1, ReadKept
<1>3. /\ Head(inq) = inq[1] /\ inq[1] \in Lines /\ inq' \in Seq(Lines)
  BY <1>1, LineRead
<1>4. PICK new \in Seq(Tokens) :
        /\ wire' = wire \o new
        /\ Kinds(new) \subseteq {"auto", "user", "prompt"}
        /\ dev' = "prompt" \/ new = <<>>
        /\ dev' \in {"welcome", "prompt"}
        /\ dev = "prompt" => dev' = "prompt"
  <2>1. CASE DevReadsAnswer
    <3>1. /\ <<>> \in Seq(Tokens) /\ wire' = wire \o <<>>
          /\ Kinds(<<>>) = {}
      BY <2>1, <1>1, StreamType, ConcatEmptySeq, EmptySeq, KindsOfListed
         DEF DevReadsAnswer
    <3>2. dev = "ask" /\ dev' = "welcome"
      BY <2>1 DEF DevReadsAnswer, Reads
    <3> QED BY <3>1, <3>2
  <2>2. CASE DevReadsCommand
    <3>1. dev = "prompt" /\ dev' = "prompt"
      BY <2>2 DEF DevReadsCommand, Reads
    <3>2. PICK l \in Lines : l = inq[1]
      BY <1>3
    <3>3. PICK echo \in Seq(Tokens) :
            /\ echo = IF l.k \in {"auto", "user"} THEN <<l>> ELSE <<>>
            /\ Kinds(echo) \subseteq {"auto", "user"}
      <4>1. CASE l.k \in {"auto", "user"}
        <5>1. l \in Tokens
          BY <4>1 DEF Lines, Tokens
        <5>2. PICK t \in Tokens : t = l
          BY <5>1
        <5>3. <<t>> \in Seq(Tokens) /\ Kinds(<<t>>) = {t.k}
          BY Listed, KindsOfListed
        <5> QED BY <4>1, <5>2, <5>3
      <4>2. CASE l.k \notin {"auto", "user"}
        BY <4>2, EmptySeq, KindsOfListed
      <4> QED BY <4>1, <4>2
    <3>4. PICK p \in Seq(Tokens) : /\ p = <<Token("prompt")>>
                                   /\ Kinds(p) = {"prompt"}
      BY TokenType DEF TokenKinds
    <3>5. wire' = (wire \o echo) \o p
      <4>1. Head(inq) = l
        BY <1>3, <3>2
      <4>2. wire' = wire \o (IF l.k \in {"auto", "user"} THEN <<l>> ELSE <<>>)
                         \o <<Token("prompt")>>
        BY <2>2, <4>1 DEF DevReadsCommand
      <4> QED BY <4>2, <3>3, <3>4, Zenon
    <3>6. wire' = wire \o (echo \o p)
      <4>1. /\ wire \in Seq(Tokens) /\ echo \in Seq(Tokens)
            /\ p \in Seq(Tokens)
        BY <1>1, StreamType
      <4>2. (wire \o echo) \o p = wire \o (echo \o p)
        BY ONLY <4>1
      <4> QED BY <3>5, <4>2, Zenon
    <3>7. echo \o p \in Seq(Tokens)
          /\ Kinds(echo \o p) = Kinds(echo) \union Kinds(p)
      BY Joined, KindsOfJoined
    <3> QED BY <3>1, <3>3, <3>4, <3>6, <3>7
  <2> QED BY <2>1, <2>2
<1>5. /\ wire' \in Seq(Tokens)
      /\ Kinds(Stream') = Kinds(Stream) \union Kinds(new)
  BY <1>1, <1>4, StreamGrows DEF CallerWaits
<1>6. LoggingIn' <=> LoggingIn
  BY <1>1 DEF CallerWaits, LoggingIn
<1>7. PasswordInv'
  <2>1. rejected \in Nat /\ passwordIdx \in Nat /\ PasswordInLine \in {0, 1}
        /\ rejected + PasswordInLine <= passwordIdx
    BY <1>1, GenericDeviceAssumption DEF TypeOK, PasswordInLine, DInv,
       PasswordInv
  <2>2. rejected' + PasswordInLine' <= passwordIdx'
    BY <1>1, <1>2, <2>1 DEF CallerWaits
  <2> QED BY <1>2, <1>4, <2>2 DEF PasswordInv
<1>8. PromptInv'
  <2>1. "prompt" \in Kinds(Stream') => dev' = "prompt"
    BY <1>4, <1>5, KindsOfListed DEF DInv, PromptInv
  <2>2. prompted => dev' = "prompt"
    BY <1>4 DEF DInv, PromptInv
  <2> QED BY <2>1, <2>2, <1>1, <1>2 DEF DInv, PromptInv, CallerWaits
<1>9. DialogInv'
  BY <1>1, <1>4, <1>5, <1>6 DEF DInv, DialogInv
<1>10. HonestInv'
  <2>1. AuthErrorHonest'
    BY <1>1 DEF DInv, HonestInv, AuthErrorHonest, CallerWaits
  <2> QED BY <2>1, <1>2 DEF HonestInv
<1>11. StartInv'
  BY <1>1 DEF DInv, StartInv, CallerWaits
<1>12. TypeOK'
  <2>1. misread' \subseteq
          {"auto", "user", "name", "password", "answer"} \X
          {"login", "password", "ask", "prompt"}
    BY <1>2 DEF LineKinds
  <2> QED BY <1>1, <1>3, <1>4, <1>5, <2>1 DEF TypeOK, CallerWaits
<1> QED BY <1>7, <1>8, <1>9, <1>10, <1>11, <1>12 DEF Kept

-----------------------------------------------------------------------------
(* The invariant, and what it says of a login *)

(* Before Connect nothing was asked, written or read. *)
LEMMA InitDInv == Init => DInv
<1> SUFFICES ASSUME Init PROVE DInv
  OBVIOUS
<1> USE GenericDeviceAssumption
<1>1. /\ Stream = <<>> /\ Kinds(Stream) = {} /\ Kinds(inq) = {}
      /\ DOMAIN inq = {} /\ PasswordInLine = 0 /\ DOMAIN results = {}
  <2>1. DOMAIN <<>> = {} /\ <<>> \o <<>> = <<>>
    BY EmptySeq, ConcatEmptySeq
  <2> QED BY <2>1, KindsOfListed DEF Init, Stream, PasswordInLine
<1>2. TypeOK
  <2>1. /\ 0 \in 0..MaxCalls /\ 0 \in 0..LoginTries /\ 0 \in 0..NPasswords
        /\ 0 \in 0..NAuto /\ MaxGreetings \in 0..MaxGreetings
    OBVIOUS
  <2>2. /\ <<>> \in Seq(Tokens) /\ <<>> \in Seq(Lines)
        /\ <<>> \in Seq({"ok", "auth", "question", "nopassword", "error"})
    BY EmptySeq
  <2>3. dev \in {"boot", "welcome"}
    BY DEF Init
  <2> QED BY <2>1, <2>2, <2>3 DEF Init, TypeOK
<1>3. StartInv /\ DialogInv
  BY <1>1, KindsOfListed DEF Init, StartInv, DialogInv
<1>4. PasswordInv
  BY <1>1 DEF Init, PasswordInv
<1>5. PromptInv
  BY <1>1 DEF Init, PromptInv
<1>6. HonestInv
  BY <1>1 DEF Init, HonestInv, AuthErrorHonest, PasswordsAtPasswordPrompt
<1> QED BY <1>2, <1>3, <1>4, <1>5, <1>6, InitIInv DEF DInv

(* Every step keeps it. *)
LEMMA NextPreservesDInv ==
  ASSUME DInv, [Next]_vars
  PROVE  DInv'
<1>1. IInv'
  BY NextPreservesIInv DEF DInv
<1>2. Kept /\ TypeOK'
  <2>1. CASE Finished \/ UNCHANGED vars
    <3>1. UNCHANGED vars
      BY <2>1 DEF Finished, Next, vars
    <3>2. UNCHANGED <<autoLogin, pc, cliConnected, calls, cbBefore, tries,
                      passwordIdx, autoDone, results, prompted, buf, wire,
                      inq, dev, greetings, rejected, misread>>
      BY <3>1 DEF vars, callerVars, devVars
    <3>3. Stream' = Stream /\ PasswordInLine' = PasswordInLine
      BY <3>2 DEF Stream, PasswordInLine
    <3>4. StartInv' /\ DialogInv' /\ PasswordInv' /\ PromptInv'
      BY <3>2, <3>3 DEF DInv, StartInv, DialogInv, PasswordInv, PromptInv,
         LoggingIn
    <3>5. HonestInv' /\ TypeOK'
      BY <3>2, GoesOnHonest DEF DInv, TypeOK
    <3> QED BY <3>4, <3>5 DEF Kept
  <2>2. CASE UNCHANGED autoLogin /\ (Connect \/ ExecuteFirst \/ Execute)
    BY <2>2, StartStep
  <2>3. CASE UNCHANGED autoLogin /\ Receive
    BY <2>3, ReceiveKept
  <2>4. CASE UNCHANGED autoLogin /\ (GreetPrompt \/ GreetQuestion
                                     \/ GreetQuestionPrompt \/ GreetCallback)
    BY <2>4, GreetStep
  <2>5. CASE UNCHANGED autoLogin /\ (LoginName \/ LoginPassword
               \/ LoginPasswordError \/ LoginCallback \/ LoginPrompt)
    BY <2>5, NameStep, PasswordStep, PasswordErrorStep, CallbackStep,
       LoginPromptStep
  <2>6. CASE UNCHANGED autoLogin /\ (LoginFails \/ AutoCompletes
                                     \/ UserCompletes \/ CommandFails)
    BY <2>6, CommandStep
  <2>7. CASE UNCHANGED autoLogin /\ Device
    BY <2>7, TalkStep, LoginReadStep, PromptReadStep DEF Device
  <2> QED BY <2>1, <2>2, <2>3, <2>4, <2>5, <2>6, <2>7, Zenon DEF Next
<1> QED BY <1>1, <1>2 DEF DInv, Kept

LEMMA DialogInvariance == Spec => []DInv
BY InitDInv, NextPreservesDInv, PTL DEF Spec

(* All variables of the caller, the connection and the device keep their
   types; no more passwords are refused than there are. *)
THEOREM TypeCorrectness == Spec => []TypeOK
<1>1. DInv => TypeOK
  BY DEF DInv
<1> QED BY <1>1, DialogInvariance, PTL

(* AuthException is raised by a login by hand only after the device has
   refused every password, whatever errors it prints between its questions. *)
THEOREM AuthErrorsAreHonest == Spec => []AuthErrorHonest
<1>1. DInv => AuthErrorHonest
  BY DEF DInv, HonestInv
<1> QED BY <1>1, DialogInvariance, PTL

(* A password is read by a password prompt or not at all: also after a login
   that timed out while one was under way. *)
THEOREM PasswordsOnlyAtPasswordPrompt == Spec => []PasswordsAtPasswordPrompt
<1>1. DInv => PasswordsAtPasswordPrompt
  BY DEF DInv, HonestInv
<1> QED BY <1>1, DialogInvariance, PTL

(* A command, automatic or not, that follows a login which ended on a prompt
   is read at the device's prompt. *)
THEOREM CommandsOnlyAtPrompt == Spec => []CommandsAtPrompt
<1>1. DInv => CommandsAtPrompt
  BY DEF DInv, PromptInv, CommandsAtPrompt, Commands
<1> QED BY <1>1, DialogInvariance, PTL

=============================================================================
