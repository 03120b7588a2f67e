------------------------- MODULE GenericExecuteProofs -------------------------
(***************************************************************************)
(* Proofs about GenericExecute, for every terminal, every set of questions *)
(* and callbacks, every limit and any number of commands.                  *)
(***************************************************************************)

EXTENDS GenericExecute, DataLemmas

-----------------------------------------------------------------------------
(* The terminal keeps its types, whatever the dialog. *)

Saids == [kept : Seq(Tokens), recent : Seq(Tokens)]

(* The tokens that the terminal prints are well formed. *)
LEMMA TokenType ==
  ASSUME NEW kind \in TokenKinds, NEW n \in Nat, NEW i \in Nat
  PROVE  Token(kind, n, i) \in Tokens
BY DEF Token, Tokens

(* So is every form of echo. *)
LEMMA EchoType ==
  ASSUME NEW form \in EchoForms, NEW n \in Nat
  PROVE  Echo(form, n) \in Seq(Tokens)
<1>1. /\ Token("echo", n, 0) \in Tokens /\ Token("esc", n, 0) \in Tokens
      /\ Token("prompt", 0, 0) \in Tokens /\ Token("part", n, 0) \in Tokens
  BY TokenType DEF TokenKinds
<1>2. form \in {"plain", "esc", "redraw"}
  BY TerminalAssumption DEF EchoKinds
<1> QED BY <1>1, <1>2 DEF Echo

(* The terminal reads what clients write. *)
LEMMA TermInputType ==
  ASSUME TermTypeOK, inq # <<>>
  PROVE  /\ Head(inq).k \in {"cmd", "page", "answer", "cb"}
         /\ Head(inq).n \in Nat
         /\ Tail(inq) \in Seq(Inputs)
<1>1. Head(inq) \in Inputs /\ Tail(inq) \in Seq(Inputs)
  BY HeadTailProperties DEF TermTypeOK
<1> QED BY <1>1 DEF Inputs

(* Every step of the terminal keeps the types of its variables. *)
LEMMA TermNextType ==
  ASSUME TermTypeOK, TermNext
  PROVE  TermTypeOK'
<1> USE DEF TermTypeOK
<1>0. /\ MaxPrints \in Nat
      /\ \A ask \in Asked : ask[1] \in AskKinds /\ ask[2] \in Nat
  BY TerminalAssumption
<1>s. said \in Seq(Saids)
  BY DEF Saids
<1>1. CASE TermReadsCommand
  <2> USE <1>1 DEF TermReadsCommand
  <2>1. PICK form \in EchoForms : Prints(Echo(form, Head(inq).n))
    OBVIOUS
  <2>2. wire' \in Seq(Tokens)
    BY <2>1, TermInputType, EchoType, Joined DEF Prints
  <2> QED BY <2>2, <1>0, TermInputType
<1>2. CASE TermReadsLateAnswer
  BY <1>2, TermInputType, TokenType, Listed, Joined
     DEF TermReadsLateAnswer, Prints, TokenKinds
<1>3. ASSUME NEW kind \in {"out", "err"}, TermPrints(kind)
      PROVE  TermTypeOK'
  <2> USE <1>3 DEF TermPrints
  <2> DEFINE token == Token(kind, dev.n, MaxPrints - left)
  <2>0. dev.n \in Nat /\ MaxPrints - left \in Nat /\ kind \in TokenKinds
    BY <1>0 DEF TokenKinds
  <2>1. token \in Tokens
    BY <2>0, TokenType
  <2> HIDE DEF token
  <2>2. wire' = wire \o <<token>>
    BY DEF Prints, token
  <2>3. wire' \in Seq(Tokens)
    BY <2>1, <2>2, Listed, Joined
  <2> DEFINE new == [said[dev.n] EXCEPT
                       !.recent = Append(said[dev.n].recent, token)]
  <2>4. said' = [said EXCEPT ![dev.n] = new]
    BY DEF token
  <2>5. ASSUME dev.n \in DOMAIN said PROVE new \in Saids
    <3>1. said[dev.n] \in Saids
      BY <2>5, <1>s, InSeq
    <3>2. Append(said[dev.n].recent, token) \in Seq(Tokens)
      BY <3>1, <2>1, AppendProperties DEF Saids
    <3> QED BY <3>1, <3>2 DEF Saids
  <2> HIDE DEF new
  <2>6. said' \in Seq(Saids)
    <3>1. dev.n \in DOMAIN said => new \in Saids
      BY <2>5
    <3>2. [said EXCEPT ![dev.n] = new] \in Seq(Saids)
      BY ONLY <3>1, <1>s, ExceptType
    <3> QED BY <3>2, <2>4
  <2>7. left' \in 0..MaxPrints
    BY <1>0
  <2> QED BY <2>3, <2>6, <2>7 DEF Saids
<1>4. ASSUME NEW ask \in Asked, TermAsks(ask)
      PROVE  TermTypeOK'
  <2> USE <1>4 DEF TermAsks
  <2>1. wire' \in Seq(Tokens)
    <3>1. Token(ask[1], ask[2], 0) \in Tokens
      BY <1>0, TokenType DEF TokenKinds
    <3>2. <<Token(ask[1], ask[2], 0)>> \in Seq(Tokens)
      BY <3>1, Listed
    <3>3. wire \o <<Token(ask[1], ask[2], 0)>> \in Seq(Tokens)
      BY <3>2, Joined
    <3> QED BY <3>3 DEF Prints
  <2> DEFINE new == [kept   |-> IF ask[1] = "pager"
                                THEN said[dev.n].kept \o said[dev.n].recent
                                ELSE said[dev.n].kept,
                     recent |-> <<>>]
  <2>2. said' = [said EXCEPT ![dev.n] = new]
    OBVIOUS
  <2>3. ASSUME dev.n \in DOMAIN said PROVE new \in Saids
    <3>1. said[dev.n] \in Saids
      BY <2>3, <1>s, InSeq
    <3>2. said[dev.n].kept \o said[dev.n].recent \in Seq(Tokens)
      BY <3>1, Joined DEF Saids
    <3> QED BY <3>1, <3>2, EmptySeq DEF Saids
  <2> HIDE DEF new
  <2>4. said' \in Seq(Saids)
    <3>1. dev.n \in DOMAIN said => new \in Saids
      BY <2>3
    <3>2. [said EXCEPT ![dev.n] = new] \in Seq(Saids)
      BY ONLY <3>1, <1>s, ExceptType
    <3> QED BY <3>2, <2>2
  <2> QED BY <2>1, <2>4 DEF Saids
<1>5. CASE TermReadsAnswer
  <2> USE <1>5 DEF TermReadsAnswer
  <2>1. Token("echo", Head(inq).n, 0) \in Tokens
    BY TermInputType, TokenType DEF TokenKinds
  <2>2. wire' \in Seq(Tokens)
    <3>1. wire' = wire \/ wire' = wire \o <<Token("echo", Head(inq).n, 0)>>
      BY DEF Prints
    <3>2. wire \o <<Token("echo", Head(inq).n, 0)>> \in Seq(Tokens)
      BY <2>1, Listed, Joined
    <3> QED BY <3>1, <3>2
  <2> QED BY <2>2, TermInputType
<1>6. CASE TermPrompts
  BY <1>6, TokenType, Listed, Joined DEF TermPrompts, Prints, TokenKinds
<1>7. CASE TermLogsOut
  BY <1>7, TokenType, Listed, Joined DEF TermLogsOut, Prints, TokenKinds
<1>8. CASE TermReadsLogin
  BY <1>8, TermInputType, TokenType, Listed, Joined
     DEF TermReadsLogin, Prints, TokenKinds
<1>9. CASE TermCloses
  BY <1>9 DEF TermCloses
<1> QED BY <1>1, <1>2, <1>3, <1>4, <1>5, <1>6, <1>7, <1>8, <1>9 DEF TermNext

-----------------------------------------------------------------------------
(* The expression list *)

(* An entry of the expression list. *)
LEMMA EntryType ==
  ASSUME NEW name \in Names, NEW arg \in Nat
  PROVE  /\ ExprEntry(name, arg) \in ExprEntries
         /\ ExprEntry(name, arg).name = name
         /\ ExprEntry(name, arg).arg = arg
BY DEF ExprEntry, ExprEntries

(* The entries that share a name, in order. *)
LEMMA EntriesType ==
  ASSUME NEW name \in Names, NEW args \in Seq(Nat)
  PROVE  /\ Entries(name, args) \in Seq(ExprEntries)
         /\ Len(Entries(name, args)) = Len(args)
         /\ \A j \in 1..Len(args) : Entries(name, args)[j]
                                      = ExprEntry(name, args[j])
<1>1. Len(args) \in Nat /\ DOMAIN args = 1..Len(args)
  BY LenProperties
<1>2. \A j \in 1..Len(args) : ExprEntry(name, args[j]) \in ExprEntries
  BY ElementOfSeq, EntryType
<1>3. Entries(name, args) \in [1..Len(args) -> ExprEntries]
  BY <1>1, <1>2 DEF Entries
<1>4. Entries(name, args) \in Seq(ExprEntries)
  BY <1>1, <1>3, SeqDef
<1>5. Len(Entries(name, args)) = Len(args)
  BY <1>1, <1>3, <1>4, LenProperties
<1> QED BY <1>1, <1>4, <1>5 DEF Entries

(* The echo is the first of the fixed entries; none of them is a callback. *)
LEMMA FixedExprsFacts ==
  /\ FixedExprs \in Seq(ExprEntries)
  /\ Len(FixedExprs) \in Nat \ {0}
  /\ FixedExprs[1].name = "echo"
  /\ \A j \in 1..Len(FixedExprs) : FixedExprs[j].name # "cb"
  /\ \A j \in 2..Len(FixedExprs) : FixedExprs[j].name # "echo"
<1> DEFINE e == ExprEntry("echo", 0)
           p == ExprEntry("prompt", 0)
           g == ExprEntry("pager", 0)
           q == ExprEntry("question", 0)
           l == ExprEntry("login", 0)
<1>1. /\ e \in ExprEntries /\ e.name = "echo"
      /\ p \in ExprEntries /\ p.name = "prompt"
      /\ g \in ExprEntries /\ g.name = "pager"
      /\ q \in ExprEntries /\ q.name = "question"
      /\ l \in ExprEntries /\ l.name = "login"
  BY EntryType DEF Names
<1> HIDE DEF e, p, g, q, l
<1> DEFINE first == <<e, p, g>>
           asks  == Entries("question", CmdQuestions)
           own   == <<q>>
           login == IF LoginInsteadEOF THEN <<l>> ELSE <<>>
<1>2. /\ first \in Seq(ExprEntries) /\ Len(first) = 3
      /\ first[1].name = "echo" /\ first[2].name = "prompt"
      /\ first[3].name = "pager"
  BY <1>1, Listed
<1>3. /\ asks \in Seq(ExprEntries)
      /\ Len(asks) \in Nat
      /\ \A j \in 1..Len(asks) : asks[j].name = "question"
  <2>1. CmdQuestions \in Seq(Nat) /\ "question" \in Names
    BY GenericExecuteAssumption DEF Names
  <2>2. asks \in Seq(ExprEntries) /\ Len(asks) = Len(CmdQuestions)
    BY <2>1, EntriesType
  <2>3. \A j \in 1..Len(CmdQuestions) : 
          /\ CmdQuestions[j] \in Nat
          /\ asks[j] = ExprEntry("question", CmdQuestions[j])
    BY <2>1, EntriesType, ElementOfSeq
  <2> QED BY <2>1, <2>2, <2>3, EntryType, LenProperties
<1>4. own \in Seq(ExprEntries) /\ Len(own) = 1 /\ own[1].name = "question"
  BY <1>1, Listed
<1>5. /\ login \in Seq(ExprEntries) /\ Len(login) \in Nat
      /\ \A j \in 1..Len(login) : login[j].name = "login"
  <2>1. CASE LoginInsteadEOF
    BY <2>1, <1>1, Listed
  <2>2. CASE ~LoginInsteadEOF
    BY <2>2, EmptySeq
  <2> QED BY <2>1, <2>2
<1>6. FixedExprs = first \o asks \o own \o login
  BY DEF FixedExprs, e, p, g, q, l
<1> HIDE DEF first, asks, own, login
<1> DEFINE ab == first \o asks
           abc == ab \o own
<1>7. /\ ab \in Seq(ExprEntries)
      /\ Len(ab) = 3 + Len(asks)
      /\ \A j \in 1..3 : ab[j] = first[j]
      /\ \A j \in 4..Len(ab) : ab[j] = asks[j - 3]
  <2>1. /\ first \o asks \in Seq(ExprEntries)
        /\ Len(first) \in Nat /\ Len(asks) \in Nat
        /\ Len(first \o asks) = Len(first) + Len(asks)
        /\ \A j \in 1..Len(first) : (first \o asks)[j] = first[j]
        /\ \A j \in (Len(first) + 1)..(Len(first) + Len(asks)) :
              (first \o asks)[j] = asks[j - Len(first)]
    <3>1. first \in Seq(ExprEntries) /\ asks \in Seq(ExprEntries)
      BY <1>2, <1>3
    <3> QED BY ONLY <3>1, Joined, Zenon
  <2> QED BY <2>1, <1>2, <1>3
<1>8. \A j \in 4..Len(ab) : ab[j].name = "question"
  <2> TAKE j \in 4..Len(ab)
  <2>1. j - 3 \in 1..Len(asks)
    BY <1>3, <1>7
  <2> QED BY <2>1, <1>3, <1>7
<1> HIDE DEF ab
<1>9. /\ abc \in Seq(ExprEntries)
      /\ Len(abc) = Len(ab) + 1
      /\ \A j \in 1..Len(ab) : abc[j] = ab[j]
      /\ \A j \in (Len(ab) + 1)..(Len(ab) + 1) : abc[j] = own[j - Len(ab)]
  <2>1. /\ ab \o own \in Seq(ExprEntries)
        /\ Len(ab) \in Nat /\ Len(own) \in Nat
        /\ Len(ab \o own) = Len(ab) + Len(own)
        /\ \A j \in 1..Len(ab) : (ab \o own)[j] = ab[j]
        /\ \A j \in (Len(ab) + 1)..(Len(ab) + Len(own)) :
              (ab \o own)[j] = own[j - Len(ab)]
    BY <1>4, <1>7, Joined
  <2> QED BY <2>1, <1>4, <1>7
<1>10. \A j \in 4..Len(abc) : abc[j].name = "question"
  <2> TAKE j \in 4..Len(abc)
  <2>1. CASE j <= Len(ab)
    BY <2>1, <1>3, <1>7, <1>8, <1>9
  <2>2. CASE j = Len(ab) + 1
    BY <2>2, <1>3, <1>4, <1>7, <1>9
  <2> QED BY <2>1, <2>2, <1>3, <1>7, <1>9
<1> HIDE DEF abc
<1>11. FixedExprs = abc \o login
  BY <1>6 DEF abc, ab
<1>12. /\ FixedExprs \in Seq(ExprEntries)
       /\ Len(FixedExprs) = Len(abc) + Len(login)
       /\ \A j \in 1..Len(abc) : FixedExprs[j] = abc[j]
       /\ \A j \in (Len(abc) + 1)..Len(FixedExprs) :
            FixedExprs[j] = login[j - Len(abc)]
  <2>1. /\ abc \o login \in Seq(ExprEntries)
        /\ Len(abc) \in Nat /\ Len(login) \in Nat
        /\ Len(abc \o login) = Len(abc) + Len(login)
        /\ \A j \in 1..Len(abc) : (abc \o login)[j] = abc[j]
        /\ \A j \in (Len(abc) + 1)..(Len(abc) + Len(login)) :
              (abc \o login)[j] = login[j - Len(abc)]
    BY <1>5, <1>9, <1>11, Joined
  <2> QED BY <2>1, <1>5, <1>9, <1>11
<1>13. Len(abc) \in Nat /\ Len(abc) >= 4
  BY <1>3, <1>7, <1>9
<1>14. \A j \in 1..3 : FixedExprs[j] = first[j]
  BY <1>3, <1>7, <1>9, <1>12, <1>13
<1>15. \A j \in 4..Len(FixedExprs) :
         FixedExprs[j].name \in {"question", "login"}
  <2> TAKE j \in 4..Len(FixedExprs)
  <2>1. CASE j <= Len(abc)
    BY <2>1, <1>10, <1>12, <1>13
  <2>2. CASE j > Len(abc)
    <3>1. j - Len(abc) \in 1..Len(login)
      BY <2>2, <1>5, <1>12, <1>13
    <3> QED BY <2>2, <3>1, <1>5, <1>12, <1>13
  <2> QED BY <2>1, <2>2, <1>13
<1>16. \A j \in 1..Len(FixedExprs) : j \in 1..3 \/ j \in 4..Len(FixedExprs)
  BY <1>5, <1>12, <1>13
<1>17. first[1].name # "cb" /\ first[2].name \notin {"cb", "echo"}
       /\ first[3].name \notin {"cb", "echo"}
  BY <1>2
<1>18. \A j \in 1..Len(FixedExprs) : FixedExprs[j].name # "cb"
  BY <1>14, <1>15, <1>16, <1>17
<1>19. \A j \in 2..Len(FixedExprs) : FixedExprs[j].name # "echo"
  BY <1>5, <1>12, <1>13, <1>14, <1>15, <1>16, <1>17
<1> QED BY <1>2, <1>5, <1>12, <1>13, <1>14, <1>18, <1>19

(* The first position of a match. *)
LEMMA LeastIsLeast ==
  ASSUME NEW S, S \subseteq Nat, S # {}
  PROVE  Least(S) \in S /\ \A j \in S : Least(S) <= j
BY LeastExists DEF Least

(* The callbacks follow the fixed entries, in the order of the command. *)
LEMMA InitialExprsFacts ==
  /\ InitialExprs \in Seq(ExprEntries)
  /\ Len(InitialExprs) = Len(FixedExprs) + Len(Callbacks)
  /\ \A j \in 1..Len(FixedExprs) : InitialExprs[j] = FixedExprs[j]
  /\ \A j \in (Len(FixedExprs) + 1)..Len(InitialExprs) :
       InitialExprs[j] = ExprEntry("cb", Callbacks[j - Len(FixedExprs)])
<1> DEFINE cbs == Entries("cb", Callbacks)
<1>1. /\ cbs \in Seq(ExprEntries)
      /\ Len(cbs) = Len(Callbacks)
      /\ \A j \in 1..Len(Callbacks) : cbs[j] = ExprEntry("cb", Callbacks[j])
  BY GenericExecuteAssumption, EntriesType DEF Names
<1> HIDE DEF cbs
<1>2. FixedExprs \in Seq(ExprEntries)
  BY FixedExprsFacts
<1>3. /\ FixedExprs \o cbs \in Seq(ExprEntries)
      /\ Len(FixedExprs) \in Nat /\ Len(cbs) \in Nat
      /\ Len(FixedExprs \o cbs) = Len(FixedExprs) + Len(cbs)
      /\ \A j \in 1..Len(FixedExprs) : (FixedExprs \o cbs)[j] = FixedExprs[j]
      /\ \A j \in (Len(FixedExprs) + 1)..(Len(FixedExprs) + Len(cbs)) :
           (FixedExprs \o cbs)[j] = cbs[j - Len(FixedExprs)]
  BY <1>1, <1>2, Joined
<1>4. InitialExprs = FixedExprs \o cbs
  BY DEF InitialExprs, cbs
<1>5. ASSUME NEW j \in (Len(FixedExprs) + 1)..Len(InitialExprs)
      PROVE  InitialExprs[j] = ExprEntry("cb", Callbacks[j - Len(FixedExprs)])
  <2>1. j - Len(FixedExprs) \in 1..Len(Callbacks)
    BY <1>1, <1>3, <1>4
  <2> QED BY <2>1, <1>1, <1>3, <1>4
<1> QED BY <1>1, <1>3, <1>4, <1>5

(* The expression list once the echo was seen. *)
ShortExprs == DeleteExpr(InitialExprs, "echo")

(* Without the echo every entry is one position nearer to the front. *)
LEMMA ShortExprsFacts ==
  /\ ShortExprs \in Seq(ExprEntries)
  /\ Len(ShortExprs) = Len(InitialExprs) - 1
  /\ \A j \in 1..Len(ShortExprs) : ShortExprs[j] = InitialExprs[j + 1]
<1> DEFINE L == InitialExprs
           E == {j \in DOMAIN L : L[j].name = "echo"}
<1>1. L \in Seq(ExprEntries) /\ Len(L) \in Nat \ {0} /\ DOMAIN L = 1..Len(L)
  BY InitialExprsFacts, FixedExprsFacts, GenericExecuteAssumption,
     LenProperties
<1>2. L[1].name = "echo"
  BY InitialExprsFacts, FixedExprsFacts
<1>3. 1 \in E /\ E \subseteq 1..Len(L) /\ E \subseteq Nat
  BY <1>1, <1>2
<1> HIDE DEF E
<1>4. Least(E) = 1
  <2>1. Least(E) \in E /\ \A j \in E : Least(E) <= j
    BY <1>3, LeastIsLeast
  <2>2. Least(E) <= 1 /\ Least(E) \in 1..Len(L)
    BY <2>1, <1>3, Zenon
  <2> QED BY <2>2, <1>1
<1>5. ShortExprs = SubSeq(L, 1, 0) \o SubSeq(L, 2, Len(L))
  <2>1. ShortExprs = SubSeq(L, 1, Least(E) - 1)
                     \o SubSeq(L, Least(E) + 1, Len(L))
    BY Zenon DEF ShortExprs, DeleteExpr, E
  <2>2. Least(E) - 1 = 0 /\ Least(E) + 1 = 2
    BY <1>4
  <2> QED BY <2>1, <2>2
<1> HIDE DEF L
<1>6. SubSeq(L, 1, 0) = <<>>
  BY SubSeqEmpty
<1>7. /\ SubSeq(L, 2, Len(L)) \in Seq(ExprEntries)
      /\ Len(SubSeq(L, 2, Len(L))) = Len(L) - 1
      /\ \A i \in 1..(Len(L) - 1) : SubSeq(L, 2, Len(L))[i] = L[2 + i - 1]
  <2>1. 2 \in Nat \ {0} /\ Len(L) \in Int /\ Len(L) <= Len(L)
    BY <1>1
  <2>2. /\ SubSeq(L, 2, Len(L)) \in Seq(ExprEntries)
        /\ Len(SubSeq(L, 2, Len(L)))
             = IF 2 <= Len(L) THEN Len(L) - 2 + 1 ELSE 0
        /\ \A i \in 1..(Len(L) - 2 + 1) :
             SubSeq(L, 2, Len(L))[i] = L[2 + i - 1]
    BY <2>1, <1>1, Cut
  <2> QED BY <2>2, <1>1
<1>8. ShortExprs = SubSeq(L, 2, Len(L))
  BY <1>5, <1>6, <1>7, ConcatEmptySeq
<1>9. \A i \in 1..(Len(L) - 1) : 2 + i - 1 = i + 1
  BY <1>1
<1> QED BY <1>7, <1>8, <1>9 DEF L

-----------------------------------------------------------------------------
(* The match that ReadTo returns *)

(* An expression matches inside the buffer. *)
LEMMA OccursInside ==
  ASSUME NEW e, NEW b \in Seq(Tokens)
  PROVE  Occurs(e, b) \subseteq 1..Len(b)
<1>1. DOMAIN b = 1..Len(b) /\ Len(b) \in Nat
  BY LenProperties
<1>2. b # <<>> => Len(b) \in 1..Len(b)
  BY <1>1, EmptySeq
<1> QED BY <1>1, <1>2 DEF Occurs

(* The match is an entry of the list at a position of the buffer, and the
   bytes around it are again tokens. *)
LEMMA MatchFacts ==
  ASSUME exprs \in Seq(ExprEntries), buf \in Seq(Tokens), HasMatch
  PROVE  /\ MatchId \in 1..Len(exprs)
         /\ exprs[MatchId] \in ExprEntries
         /\ MatchPos \in Occurs(exprs[MatchId], buf)
         /\ MatchPos \in 1..Len(buf)
         /\ Matched \in Tokens
         /\ Before \in Seq(Tokens)
         /\ After \in Seq(Tokens)
<1>1. DOMAIN exprs = 1..Len(exprs) /\ Len(exprs) \in Nat /\ Len(buf) \in Nat
  BY LenProperties
<1>2. Matching \subseteq Nat /\ Matching # {}
  <2>1. Matching \subseteq 1..Len(exprs)
    BY <1>1, Zenon DEF Matching
  <2>2. Matching # {}
    BY DEF HasMatch
  <2> QED BY <2>1, <2>2
<1>3. MatchId \in Matching
  BY <1>2, LeastIsLeast DEF MatchId
<1>4. MatchId \in 1..Len(exprs) /\ Occurs(exprs[MatchId], buf) # {}
  BY <1>1, <1>3 DEF Matching
<1> DEFINE o == Occurs(exprs[MatchId], buf)
<1>5. o \subseteq 1..Len(buf) /\ o \subseteq Nat
  BY <1>1, OccursInside
<1>6. MatchPos \in o
  BY <1>4, <1>5, LeastIsLeast DEF MatchPos
<1>7. MatchPos \in 1..Len(buf)
  BY <1>5, <1>6
<1>8. Matched \in Tokens
  BY <1>7, ElementOfSeq DEF Matched
<1>9. Before \in Seq(Tokens)
  <2>1. 1 \in Nat \ {0} /\ MatchPos - 1 \in Int /\ MatchPos - 1 <= Len(buf)
    BY <1>1, <1>7
  <2> QED BY <2>1, Cut DEF Before
<1>10. After \in Seq(Tokens)
  <2>1. MatchPos + 1 \in Nat \ {0} /\ Len(buf) \in Int /\ Len(buf) <= Len(buf)
    BY <1>1, <1>7
  <2> QED BY <2>1, Cut DEF After
<1> QED BY <1>4, <1>6, <1>7, <1>8, <1>9, <1>10, ElementOfSeq

-----------------------------------------------------------------------------
(* The inductive invariant *)

(* The types of the variables that outlive a call. *)
SessionTypeOK ==
  /\ TermTypeOK
  /\ cur \in 0..MaxCommands
  /\ issued \in Seq(Texts)
  /\ buf \in Seq(Tokens)
  /\ results \in Seq(Results)

(* The list is the initial one with or without the echo, and cbStart is the
   number of entries before the callbacks. *)
ListInv ==
  /\ exprs = IF seenEcho THEN ShortExprs ELSE InitialExprs
  /\ cbStart = IF seenEcho THEN Len(FixedExprs) - 1 ELSE Len(FixedExprs)

(* The error of GOP 4 is saved only while the echo is missing. *)
ErrInv == pendErr => ~seenEcho

(* A run of callbacks is no longer than what the limit has lost. *)
LimitInv == cbRun + cbLeft <= CbLimit

(* The last repQ questions are the same one, and the one before is not. *)
RepeatInv ==
  /\ Len(asked) <= MaxRepeated + 1
  /\ asked # <<>> => repQ > 0 /\ asked[Len(asked)] = lastQ
  /\ Len(asked) > repQ => asked[Len(asked) - repQ] # lastQ

(* The local variables of the call, and all variables together. *)
LoopInv == LoopTypeOK /\ ListInv /\ ErrInv /\ LimitInv /\ RepeatInv

IInv == SessionTypeOK /\ LoopInv

(* The constants and the lists built from them. *)
LEMMA ConstTypes ==
  /\ MaxCommands \in Nat /\ MaxRepeated \in Nat /\ CbLimit \in Nat
  /\ FixedExprs \in Seq(ExprEntries) /\ Len(FixedExprs) \in Nat \ {0}
  /\ InitialExprs \in Seq(ExprEntries)
  /\ ShortExprs \in Seq(ExprEntries)
BY GenericExecuteAssumption, FixedExprsFacts, InitialExprsFacts,
   ShortExprsFacts

(* The local variables of a new call satisfy the invariant. *)
LEMMA LoopStartInv == LoopStart => LoopInv'
<1> SUFFICES ASSUME LoopStart PROVE LoopInv'
  OBVIOUS
<1>1. LoopTypeOK'
  <2>1. exprs' \in Seq(ExprEntries) /\ cbStart' \in Nat
    BY ConstTypes DEF LoopStart
  <2>2. page' \in Seq(Tokens) /\ asked' \in Seq(Nat)
    BY EmptySeq DEF LoopStart
  <2>3. /\ lastQ' \in Nat /\ repQ' \in 0..MaxRepeated
        /\ cbLeft' \in 0..CbLimit /\ cbRun' \in 0..CbLimit
    BY ConstTypes DEF LoopStart
  <2> QED BY <2>1, <2>2, <2>3 DEF LoopStart, LoopTypeOK
<1>2. ListInv' /\ ErrInv' /\ LimitInv'
  BY ConstTypes DEF LoopStart, ListInv, ErrInv, LimitInv
<1>3. RepeatInv'
  BY ConstTypes, EmptySeq DEF LoopStart, RepeatInv
<1> QED BY <1>1, <1>2, <1>3 DEF LoopInv

(* Steps that leave the local variables alone keep their invariant. *)
LEMMA LoopUnchanged == LoopInv /\ UNCHANGED loopVars => LoopInv'
BY DEF LoopInv, LoopTypeOK, ListInv, ErrInv, LimitInv, RepeatInv, loopVars

(* Steps that leave the terminal alone keep its types. *)
LEMMA TermUnchanged == TermTypeOK /\ UNCHANGED termVars => TermTypeOK'
BY DEF TermTypeOK, termVars

(* A call that returns leaves the initial values behind. *)
LEMMA ReturnInv ==
  ASSUME IInv, cur # 0, NEW status \in Outcomes, NEW data \in Seq(Tokens),
         Return(status, data)
  PROVE  /\ LoopInv'
         /\ cur' \in 0..MaxCommands
         /\ issued' \in Seq(Texts)
         /\ results' \in Seq(Results)
<1>1. LoopInv'
  BY LoopStartInv DEF Return
<1>2. cur \in 1..MaxCommands /\ cur' = 0
  BY ConstTypes DEF Return, IInv, SessionTypeOK
<1>3. Result(status, data) \in Results
  BY <1>2 DEF Result, Results
<1>4. results' \in Seq(Results)
  BY <1>3, AppendProperties DEF Return, IInv, SessionTypeOK
<1> QED BY <1>1, <1>2, <1>4, ConstTypes DEF Return, IInv, SessionTypeOK

(* So does a call that fails. *)
LEMMA FailInv ==
  ASSUME IInv, cur # 0, NEW status \in Outcomes, Fail(status)
  PROVE  /\ LoopInv'
         /\ cur' \in 0..MaxCommands
         /\ issued' \in Seq(Texts)
         /\ results' \in Seq(Results)
BY ReturnInv, EmptySeq DEF Fail

(* What the loop writes is a line that the terminal can read. *)
LEMMA WritesType ==
  ASSUME TermTypeOK, NEW kind \in {"cmd", "page", "answer", "cb"},
         NEW n \in Nat, Writes(Input(kind, n))
  PROVE  TermTypeOK'
<1>1. Input(kind, n) \in Inputs
  BY DEF Input, Inputs
<1>2. inq' \in Seq(Inputs)
  BY <1>1, AppendProperties DEF Writes, TermTypeOK
<1> QED BY <1>2 DEF Writes, TermTypeOK

(* A loop turn that goes on keeps the session's own variables. *)
LEMMA ContinueType ==
  ASSUME IInv, Continue
  PROVE  cur' \in 0..MaxCommands /\ issued' \in Seq(Texts)
         /\ results' \in Seq(Results)
BY DEF Continue, IInv, SessionTypeOK

(* A write that fails ends the call from wherever it is. *)
LEMMA WriteFailsInv ==
  ASSUME IInv, cur # 0, WriteFails, buf' \in Seq(Tokens)
  PROVE  IInv'
<1>1. TermTypeOK'
  BY TermUnchanged DEF WriteFails, IInv, SessionTypeOK
<1> QED BY <1>1, FailInv DEF WriteFails, IInv, SessionTypeOK, Outcomes

(* MatchFacts, as the invariant provides its assumptions. *)
LEMMA InvMatch ==
  ASSUME IInv, HasMatch
  PROVE  /\ MatchId \in 1..Len(exprs)
         /\ exprs[MatchId] \in ExprEntries
         /\ MatchPos \in Occurs(exprs[MatchId], buf)
         /\ MatchPos \in 1..Len(buf)
         /\ Matched \in Tokens
         /\ Before \in Seq(Tokens)
         /\ After \in Seq(Tokens)
BY MatchFacts DEF IInv, SessionTypeOK, LoopInv, LoopTypeOK

(* What is behind the fixed entries is a callback. *)
LEMMA CallbackEntry ==
  ASSUME NEW j \in 1..Len(InitialExprs), ~(j <= Len(FixedExprs))
  PROVE  /\ j - Len(FixedExprs) \in 1..Len(Callbacks)
         /\ InitialExprs[j].name = "cb"
         /\ InitialExprs[j].arg = Callbacks[j - Len(FixedExprs)]
<1>1. Len(FixedExprs) \in Nat /\ Len(Callbacks) \in Nat
  BY ConstTypes, GenericExecuteAssumption, LenProperties
<1>2. /\ j \in (Len(FixedExprs) + 1)..Len(InitialExprs)
      /\ j - Len(FixedExprs) \in 1..Len(Callbacks)
  BY <1>1, InitialExprsFacts
<1>3. InitialExprs[j] = ExprEntry("cb", Callbacks[j - Len(FixedExprs)])
  BY <1>2, InitialExprsFacts
<1> QED BY <1>2, <1>3 DEF ExprEntry

(* The echo is in the list only until it was seen. *)
LEMMA EchoSeenOnce ==
  ASSUME IInv, Sees("echo")
  PROVE  ~seenEcho
<1> SUFFICES ASSUME seenEcho PROVE FALSE
  OBVIOUS
<1>1. exprs = ShortExprs
  BY DEF IInv, LoopInv, ListInv
<1>2. MatchId \in 1..Len(ShortExprs) /\ ShortExprs[MatchId].name = "echo"
  BY <1>1, InvMatch DEF Sees
<1> DEFINE m == MatchId + 1
<1>3. InitialExprs[m].name = "echo" /\ m \in 2..Len(InitialExprs)
  BY <1>2, ShortExprsFacts, InitialExprsFacts, LenProperties
<1> HIDE DEF m
<1>4. CASE m <= Len(FixedExprs)
  BY <1>3, <1>4, ConstTypes, InitialExprsFacts, FixedExprsFacts
<1>5. CASE ~(m <= Len(FixedExprs))
  <2>1. m \in 1..Len(InitialExprs)
    BY <1>3
  <2> QED BY <2>1, <1>3, <1>5, CallbackEntry
<1> QED BY <1>4, <1>5

(* A callback that matched after the echo is at its place in the command. *)
LEMMA CallbackPlace ==
  ASSUME IInv, Sees("cb"), seenEcho
  PROVE  /\ CbIndex \in 1..Len(Callbacks)
         /\ exprs[MatchId].arg = Callbacks[CbIndex]
         /\ Matched.n = Callbacks[CbIndex]
<1>1. exprs = ShortExprs /\ cbStart = Len(FixedExprs) - 1
  BY DEF IInv, LoopInv, ListInv
<1>2. MatchId \in 1..Len(ShortExprs) /\ ShortExprs[MatchId].name = "cb"
  BY <1>1, InvMatch DEF Sees
<1> DEFINE m == MatchId + 1
<1>3. /\ InitialExprs[m].name = "cb" /\ m \in 1..Len(InitialExprs)
      /\ exprs[MatchId] = InitialExprs[m]
  BY <1>1, <1>2, ShortExprsFacts, InitialExprsFacts, LenProperties
<1>4. CbIndex = m - Len(FixedExprs)
  BY <1>1, <1>2, ConstTypes DEF CbIndex
<1> HIDE DEF m
<1>5. ~(m <= Len(FixedExprs))
  BY <1>3, ConstTypes, InitialExprsFacts, FixedExprsFacts
<1>6. /\ m - Len(FixedExprs) \in 1..Len(Callbacks)
      /\ InitialExprs[m].arg = Callbacks[m - Len(FixedExprs)]
  BY <1>3, <1>5, CallbackEntry
<1>7. exprs[MatchId].arg = Callbacks[CbIndex] /\ exprs[MatchId].name = "cb"
  BY <1>1, <1>2, <1>3, <1>4, <1>6
<1>8. Matched.n = exprs[MatchId].arg
  <2>1. MatchPos \in Occurs(exprs[MatchId], buf)
    BY InvMatch DEF Sees
  <2> QED BY <2>1, <1>7 DEF Occurs, Matched
<1> QED BY <1>4, <1>6, <1>7, <1>8

-----------------------------------------------------------------------------
(* Every step keeps the invariant *)

(* A new session: nothing issued, nothing received, no call under way. *)
LEMMA InitInv == Init => IInv
<1> SUFFICES ASSUME Init PROVE IInv
  OBVIOUS
<1>1. TermTypeOK
  <2>1. inq \in Seq(Inputs) /\ wire \in Seq(Tokens) /\ said \in Seq(Saids)
    BY EmptySeq DEF Init, TermInit
  <2>2. left \in 0..MaxPrints
    BY TerminalAssumption DEF Init, TermInit
  <2>3. dev \in [st : {"prompt", "busy", "ask", "login"}, n : Nat]
    BY DEF Init, TermInit
  <2> QED BY <2>1, <2>2, <2>3 DEF Init, TermInit, TermTypeOK, Saids
<1>2. LoopTypeOK
  <2>1. exprs \in Seq(ExprEntries) /\ cbStart \in Nat
    BY ConstTypes DEF Init
  <2>2. page \in Seq(Tokens) /\ asked \in Seq(Nat)
    BY EmptySeq DEF Init
  <2>3. /\ lastQ \in Nat /\ repQ \in 0..MaxRepeated
        /\ cbLeft \in 0..CbLimit /\ cbRun \in 0..CbLimit
    BY ConstTypes DEF Init
  <2> QED BY <2>1, <2>2, <2>3 DEF Init, LoopTypeOK
<1>3. ListInv /\ ErrInv /\ LimitInv
  BY ConstTypes DEF Init, ListInv, ErrInv, LimitInv
<1>4. RepeatInv
  BY ConstTypes, EmptySeq DEF Init, RepeatInv
<1> QED BY <1>1, <1>2, <1>3, <1>4, ConstTypes, EmptySeq
        DEF Init, IInv, SessionTypeOK, LoopInv

(* A call starts with fresh local variables and one more command. *)
LEMMA ExecuteInv ==
  ASSUME IInv, NEW text \in Texts, Execute(text)
  PROVE  IInv'
<1> USE DEF Execute
<1>1. LoopInv'
  BY LoopStartInv
<1>2. /\ TermTypeOK /\ issued \in Seq(Texts) /\ buf' \in Seq(Tokens)
      /\ results' \in Seq(Results) /\ Len(issued) \in Nat
  BY LenProperties DEF IInv, SessionTypeOK
<1>3. issued' \in Seq(Texts)
  BY <1>2, AppendProperties
<1>4. cur' \in 0..MaxCommands
  BY <1>2, ConstTypes
<1>5. NothingSaid \in Saids
  BY EmptySeq DEF NothingSaid, Saids
<1>6. said \in Seq(Saids)
  BY <1>2 DEF TermTypeOK, Saids
<1>7. said' \in Seq(Saids)
  BY <1>5, <1>6, AppendProperties
<1>8. Input("cmd", Len(issued) + 1) \in Inputs
  BY <1>2 DEF Input, Inputs
<1>9. inq' \in Seq(Inputs)
  BY <1>2, <1>8, AppendProperties DEF TermTypeOK
<1>10. TermTypeOK'
  BY <1>2, <1>7, <1>9 DEF TermTypeOK, Saids
<1> QED BY <1>1, <1>2, <1>3, <1>4, <1>10 DEF IInv, SessionTypeOK

(* A call whose first write fails only leaves a result. *)
LEMMA ExecuteWriteFailsInv ==
  ASSUME IInv, NEW text \in Texts, ExecuteWriteFails(text)
  PROVE  IInv'
<1> USE DEF ExecuteWriteFails
<1>1. LoopInv'
  BY LoopUnchanged DEF IInv
<1>2. /\ TermTypeOK /\ issued \in Seq(Texts) /\ buf' \in Seq(Tokens)
      /\ results \in Seq(Results) /\ Len(issued) \in Nat
      /\ cur' \in 0..MaxCommands
  BY LenProperties DEF IInv, SessionTypeOK
<1>3. issued' \in Seq(Texts)
  BY <1>2, AppendProperties
<1>4. [n |-> Len(issued) + 1, st |-> "write", data |-> <<>>] \in Results
  BY <1>2, ConstTypes, EmptySeq DEF Results, Outcomes
<1>5. results' \in Seq(Results)
  BY <1>2, <1>4, AppendProperties
<1>6. NothingSaid \in Saids
  BY EmptySeq DEF NothingSaid, Saids
<1>7. said \in Seq(Saids)
  BY <1>2 DEF TermTypeOK, Saids
<1>8. said' \in Seq(Saids)
  BY <1>6, <1>7, AppendProperties
<1>9. TermTypeOK'
  BY <1>2, <1>8 DEF TermTypeOK, Saids
<1> QED BY <1>1, <1>2, <1>3, <1>5, <1>9 DEF IInv, SessionTypeOK

(* What is received stays a sequence of tokens, on both sides of the cut. *)
LEMMA ReceivedType ==
  ASSUME buf \in Seq(Tokens), wire \in Seq(Tokens), NEW k \in 0..Len(wire)
  PROVE  /\ buf \o SubSeq(wire, 1, k) \in Seq(Tokens)
         /\ SubSeq(wire, k + 1, Len(wire)) \in Seq(Tokens)
<1>1. Len(wire) \in Nat /\ k \in Int /\ k + 1 \in Nat \ {0} /\ k <= Len(wire)
  BY LenProperties
<1>2. SubSeq(wire, 1, k) \in Seq(Tokens)
  BY <1>1, Cut
<1>3. SubSeq(wire, k + 1, Len(wire)) \in Seq(Tokens)
  BY <1>1, Cut
<1> QED BY <1>2, <1>3, Joined

(* Receiving moves tokens from the stream to the buffer. *)
LEMMA ReceiveInv ==
  ASSUME IInv, Receive
  PROVE  IInv'
<1> USE DEF Receive
<1>1. PICK k \in 1..Len(wire) :
        /\ buf' = buf \o SubSeq(wire, 1, k)
        /\ wire' = SubSeq(wire, k + 1, Len(wire))
  OBVIOUS
<1>2. buf \in Seq(Tokens) /\ wire \in Seq(Tokens) /\ k \in 0..Len(wire)
  BY LenProperties DEF IInv, SessionTypeOK, TermTypeOK
<1>3. buf' \in Seq(Tokens) /\ wire' \in Seq(Tokens)
  BY <1>1, <1>2, ReceivedType
<1>4. TermTypeOK'
  BY <1>3 DEF IInv, SessionTypeOK, TermTypeOK
<1>5. LoopInv'
  BY LoopUnchanged DEF IInv
<1> QED BY <1>3, <1>4, <1>5, ContinueType DEF IInv, SessionTypeOK

(* Whichever error of a failed ReadTo comes first, it is an outcome. *)
LEMMA ReadErrorType ==
  ASSUME NEW status \in {"timeout", "eof"}, NEW lastRead
  PROVE  ReadError(status, lastRead) \in Outcomes
BY DEF ReadError, Outcomes

(* A timeout ends the call and may receive before it does. *)
LEMMA ReadTimesOutInv ==
  ASSUME IInv, ReadTimesOut
  PROVE  IInv'
<1> USE DEF ReadTimesOut
<1>1. PICK k \in 0..Len(wire) :
        /\ buf' = buf \o SubSeq(wire, 1, k)
        /\ wire' = SubSeq(wire, k + 1, Len(wire))
        /\ Fail(ReadError("timeout", buf'))
  OBVIOUS
<1>2. buf \in Seq(Tokens) /\ wire \in Seq(Tokens)
  BY DEF IInv, SessionTypeOK, TermTypeOK
<1>3. buf' \in Seq(Tokens) /\ wire' \in Seq(Tokens)
  BY <1>1, <1>2, ReceivedType
<1>4. TermTypeOK'
  BY <1>3 DEF IInv, SessionTypeOK, TermTypeOK
<1>5. ReadError("timeout", buf') \in Outcomes
  BY ReadErrorType
<1> QED BY <1>1, <1>3, <1>4, <1>5, FailInv DEF IInv, SessionTypeOK

(* EOF ends the call and empties the buffer. *)
LEMMA ReadEOFInv ==
  ASSUME IInv, ReadEOF
  PROVE  IInv'
<1> USE DEF ReadEOF
<1>1. ReadError("eof", buf) \in Outcomes
  BY ReadErrorType
<1>2. TermTypeOK'
  BY TermUnchanged DEF IInv, SessionTypeOK
<1> QED BY <1>1, <1>2, FailInv, EmptySeq DEF IInv, SessionTypeOK

-----------------------------------------------------------------------------
(* The turns of the loop *)

(* The echo shortens the list once, and clears the saved error. *)
LEMMA SeeEchoInv ==
  ASSUME IInv, SeeEcho
  PROVE  IInv'
<1> USE DEF SeeEcho
<1>1. ~seenEcho /\ HasMatch
  BY EchoSeenOnce DEF Sees
<1>2. exprs' = ShortExprs /\ cbStart' = Len(FixedExprs) - 1
  BY <1>1 DEF IInv, LoopInv, ListInv, ShortExprs
<1>3. exprs' \in Seq(ExprEntries) /\ cbStart' \in Nat
  BY <1>2, ConstTypes
<1>4. LoopTypeOK'
  BY <1>3 DEF IInv, LoopInv, LoopTypeOK
<1>5. ListInv' /\ ErrInv' /\ LimitInv' /\ RepeatInv'
  BY <1>2 DEF IInv, LoopInv, ListInv, ErrInv, LimitInv, RepeatInv
<1>6. TermTypeOK'
  BY TermUnchanged DEF IInv, SessionTypeOK
<1> QED BY <1>1, <1>4, <1>5, <1>6, InvMatch, ContinueType
        DEF IInv, SessionTypeOK, LoopInv

(* What is left of a text once the hidden echo is cut off. *)
LEMMA DropEchoType ==
  ASSUME NEW b \in Seq(Tokens), NEW appended, HiddenEcho(b, appended) # {}
  PROVE  DropEcho(b, appended) \in Seq(Tokens)
<1> DEFINE h == HiddenEcho(b, appended)
<1>1. Len(b) \in Nat /\ DOMAIN b = 1..Len(b)
  BY LenProperties
<1>2. h \subseteq 1..Len(b)
  BY <1>1, Zenon DEF HiddenEcho
<1>3. Least(h) \in h
  BY <1>1, <1>2, LeastIsLeast
<1>4. Least(h) + 1 \in Nat \ {0}
  BY <1>1, <1>2, <1>3
<1>5. SubSeq(b, Least(h) + 1, Len(b)) \in Seq(Tokens)
  BY <1>1, <1>4, Cut
<1> QED BY <1>5 DEF DropEcho

(* A prompt after the echo ends the call with the output collected so far. *)
LEMMA SeePromptReturns ==
  ASSUME IInv, SeePrompt
  PROVE  \E status \in {"ok", "failed"}, data \in Seq(Tokens) :
           Return(status, data)
<1> USE DEF SeePrompt
<1> DEFINE rest == IF seenEcho THEN Before ELSE DropEcho(Before, TRUE)
           data == page \o rest
           bad  == \E i \in DOMAIN data : data[i].k = "err"
<1>1. HasMatch
  BY DEF Sees
<1>2. Before \in Seq(Tokens)
  BY <1>1, InvMatch
<1>3. rest \in Seq(Tokens)
  BY <1>2, DropEchoType
<1>4. page \in Seq(Tokens)
  BY DEF IInv, LoopInv, LoopTypeOK
<1>5. data \in Seq(Tokens)
  BY <1>3, <1>4, Joined
<1>6. Return(IF bad THEN "failed" ELSE "ok", data)
  OBVIOUS
<1> HIDE DEF data, bad
<1> QED BY <1>5, <1>6

(* The call that returns its output. *)
LEMMA SeePromptInv ==
  ASSUME IInv, SeePrompt
  PROVE  IInv'
<1>1. cur # 0 /\ HasMatch /\ buf' = After /\ UNCHANGED termVars
  BY DEF SeePrompt, Sees
<1>2. buf' \in Seq(Tokens)
  BY <1>1, InvMatch
<1>3. PICK status \in {"ok", "failed"}, data \in Seq(Tokens) :
        Return(status, data)
  BY SeePromptReturns
<1>4. status \in Outcomes
  BY DEF Outcomes
<1>5. TermTypeOK'
  BY <1>1, TermUnchanged DEF IInv, SessionTypeOK
<1> QED BY <1>1, <1>2, <1>3, <1>4, <1>5, ReturnInv DEF IInv, SessionTypeOK

(* A prompt before the echo saves an error that the echo may still clear. *)
LEMMA SeePromptBeforeEchoInv ==
  ASSUME IInv, SeePromptBeforeEcho
  PROVE  IInv'
<1> USE DEF SeePromptBeforeEcho
<1>1. HasMatch
  BY DEF Sees
<1>2. buf' \in Seq(Tokens)
  BY <1>1, InvMatch, Joined
<1>3. LoopTypeOK'
  BY DEF IInv, LoopInv, LoopTypeOK
<1>4. ListInv' /\ ErrInv' /\ LimitInv' /\ RepeatInv'
  BY DEF IInv, LoopInv, ListInv, ErrInv, LimitInv, RepeatInv
<1>5. TermTypeOK'
  BY TermUnchanged DEF IInv, SessionTypeOK
<1> QED BY <1>2, <1>3, <1>4, <1>5, ContinueType
        DEF IInv, SessionTypeOK, LoopInv

(* A match that came instead of the echo ends the call. *)
LEMMA SeeWithoutEchoInv ==
  ASSUME IInv, SeeWithoutEcho
  PROVE  IInv'
<1> USE DEF SeeWithoutEcho
<1>1. buf' \in Seq(Tokens)
  BY InvMatch
<1>2. TermTypeOK'
  BY TermUnchanged DEF IInv, SessionTypeOK
<1>3. "echo" \in Outcomes
  BY DEF Outcomes
<1> QED BY <1>1, <1>2, <1>3, FailInv DEF IInv, SessionTypeOK

(* A pager resets the run of callbacks and extends the page. *)
LEMMA SeePagerInv ==
  ASSUME IInv, SeePager
  PROVE  IInv'
<1> USE DEF SeePager
<1>1. cur # 0 /\ HasMatch
  BY DEF Sees
<1>2. buf' \in Seq(Tokens) /\ Before \in Seq(Tokens)
  BY <1>1, InvMatch
<1>3. CASE WriteFails
  BY <1>1, <1>2, <1>3, WriteFailsInv
<1>4. CASE ~WriteFails
  <2>1. /\ page' = page \o Before
        /\ cbRun' = 0
        /\ Writes(Input("page", 0))
        /\ UNCHANGED <<exprs, cbStart, seenEcho, lastQ, repQ, cbLeft, pendErr,
                       asked>>
        /\ Continue
    BY <1>4
  <2>2. page' \in Seq(Tokens)
    <3>1. page \in Seq(Tokens)
      BY DEF IInv, LoopInv, LoopTypeOK
    <3> QED BY <3>1, <1>2, <2>1, Joined
  <2>3. cbRun' \in 0..CbLimit /\ LimitInv'
    BY <2>1, ConstTypes DEF IInv, LoopInv, LoopTypeOK, LimitInv
  <2>4. LoopTypeOK' /\ ListInv' /\ ErrInv' /\ RepeatInv'
    BY <2>1, <2>2, <2>3
       DEF IInv, LoopInv, LoopTypeOK, ListInv, ErrInv, RepeatInv
  <2>5. TermTypeOK'
    BY <2>1, WritesType DEF IInv, SessionTypeOK
  <2> QED BY <1>2, <2>1, <2>3, <2>4, <2>5, ContinueType
          DEF IInv, SessionTypeOK, LoopInv
<1> QED BY <1>3, <1>4

(* A callback moves one unit from the limit to the run. *)
LEMMA SeeCallbackInv ==
  ASSUME IInv, SeeCallback
  PROVE  IInv'
<1> USE DEF SeeCallback
<1>1. cur # 0 /\ HasMatch
  BY DEF Sees
<1>2. buf' \in Seq(Tokens)
  BY <1>1, InvMatch
<1>3. CbIndex \in 1..Len(Callbacks) /\ DOMAIN Callbacks = 1..Len(Callbacks)
      /\ Callbacks[CbIndex] \in Nat
  BY CallbackPlace, GenericExecuteAssumption, LenProperties, ElementOfSeq
<1>4. CASE cbLeft = 0
  <2>1. "cblimit" \in Outcomes
    BY DEF Outcomes
  <2>2. TermTypeOK'
    BY <1>4, TermUnchanged DEF IInv, SessionTypeOK
  <2> QED BY <1>1, <1>2, <1>4, <2>1, <2>2, FailInv DEF IInv, SessionTypeOK
<1>5. CASE WriteFails
  BY <1>1, <1>2, <1>5, WriteFailsInv
<1>6. CASE cbLeft # 0 /\ ~WriteFails
  <2>1. /\ cbLeft' = cbLeft - 1
        /\ cbRun' = cbRun + 1
        /\ Writes(Input("cb", Callbacks[CbIndex]))
        /\ UNCHANGED <<exprs, cbStart, seenEcho, page, lastQ, repQ,
                       pendErr, asked>>
        /\ Continue
    BY <1>3, <1>6
  <2>2. cbLeft' \in 0..CbLimit /\ cbRun' \in 0..CbLimit /\ LimitInv'
    BY <1>6, <2>1, ConstTypes DEF IInv, LoopInv, LoopTypeOK, LimitInv
  <2>3. LoopTypeOK'
    BY <2>1, <2>2 DEF IInv, LoopInv, LoopTypeOK
  <2>4. ListInv' /\ ErrInv' /\ RepeatInv'
    BY <2>1 DEF IInv, LoopInv, ListInv, ErrInv, RepeatInv
  <2>5. TermTypeOK'
    BY <1>3, <2>1, WritesType DEF IInv, SessionTypeOK
  <2> QED BY <1>2, <2>1, <2>2, <2>3, <2>4, <2>5, ContinueType
          DEF IInv, SessionTypeOK, LoopInv
<1> QED BY <1>4, <1>5, <1>6

(* A login prompt ends the call. *)
LEMMA SeeLoginInv ==
  ASSUME IInv, SeeLogin
  PROVE  IInv'
<1> USE DEF SeeLogin
<1>1. cur # 0 /\ HasMatch
  BY DEF Sees
<1>2. buf' \in Seq(Tokens)
  BY <1>1, InvMatch
<1>3. TermTypeOK'
  BY TermUnchanged DEF IInv, SessionTypeOK
<1>4. "eof" \in Outcomes
  BY DEF Outcomes
<1> QED BY <1>1, <1>2, <1>3, <1>4, FailInv DEF IInv, SessionTypeOK

(* The window of the last questions after one more. *)
LEMMA LatestType ==
  ASSUME NEW list \in Seq(Nat), NEW q \in Nat, Len(list) <= MaxRepeated + 1
  PROVE  /\ Latest(Append(list, q)) \in Seq(Nat)
         /\ Latest(Append(list, q)) # <<>>
         /\ \E d \in {0, 1} :
              /\ Len(Latest(Append(list, q))) = Len(list) + 1 - d
              /\ Len(list) + 1 - d <= MaxRepeated + 1
              /\ \A i \in 1..(Len(list) + 1 - d) :
                   Latest(Append(list, q))[i] = Append(list, q)[i + d]
<1> DEFINE A == Append(list, q)
<1>1. /\ A \in Seq(Nat) /\ A # <<>> /\ Len(A) = Len(list) + 1
      /\ Len(list) \in Nat
  <2>1. /\ Append(list, q) \in Seq(Nat) /\ Append(list, q) # <<>>
        /\ Len(Append(list, q)) = Len(list) + 1
    <3>1. ASSUME NEW s \in Seq(Nat), NEW e \in Nat
          PROVE  /\ Append(s, e) \in Seq(Nat) /\ Append(s, e) # <<>>
                 /\ Len(Append(s, e)) = Len(s) + 1
      BY AppendProperties, SMT
    <3> QED BY <3>1
  <2>2. Len(list) \in Nat
    BY LenProperties
  <2> QED BY <2>1, <2>2
<1> HIDE DEF A
<1>2. CASE Len(A) > MaxRepeated + 1
  <2>1. /\ Tail(A) \in Seq(Nat) /\ Len(Tail(A)) = Len(A) - 1
        /\ \A i \in 1..Len(Tail(A)) : Tail(A)[i] = A[i + 1]
    BY <1>1, HeadTailProperties
  <2>2. Latest(A) = Tail(A)
    BY <1>2 DEF Latest
  <2>3. Len(list) >= 1
    BY <1>1, <1>2, ConstTypes
  <2>4. Latest(A) # <<>>
    BY <1>1, <2>1, <2>2, <2>3, EmptySeq
  <2>5. /\ Len(Latest(A)) = Len(list) + 1 - 1
        /\ Len(list) + 1 - 1 <= MaxRepeated + 1
        /\ \A i \in 1..(Len(list) + 1 - 1) : Latest(A)[i] = A[i + 1]
    BY <1>1, <2>1, <2>2, ConstTypes
  <2> QED BY <2>1, <2>2, <2>4, <2>5 DEF A
<1>3. CASE ~(Len(A) > MaxRepeated + 1)
  <2>1. Latest(A) = A
    BY <1>3 DEF Latest
  <2>2. /\ Len(Latest(A)) = Len(list) + 1 - 0
        /\ Len(list) + 1 - 0 <= MaxRepeated + 1
        /\ \A i \in 1..(Len(list) + 1 - 0) : Latest(A)[i] = A[i + 0]
    BY <1>1, <1>3, <2>1, ConstTypes
  <2> QED BY <1>1, <2>1, <2>2 DEF A
<1> QED BY <1>2, <1>3

(* Counting back from the end of the window, before and after it moved. *)
LEMMA BackPosition ==
  ASSUME NEW n \in Nat, NEW d \in {0, 1}, NEW r \in Nat \ {0},
         n + 1 - d > r
  PROVE  /\ n + 1 - d - r \in 1..(n + 1 - d)
         /\ n + 1 - d - r + d = n + 1 - r
         /\ n + 1 - r \in 1..n
OBVIOUS

(* Counting a question keeps the relation of the count to the window. *)
LEMMA RepeatStep ==
  ASSUME IInv, NEW q \in Nat,
         lastQ' = q,
         repQ' = (IF q = lastQ THEN repQ + 1 ELSE 1),
         repQ' <= MaxRepeated,
         asked' = Latest(Append(asked, q))
  PROVE  RepeatInv' /\ asked' \in Seq(Nat) /\ repQ' \in 0..MaxRepeated
<1>1. /\ asked \in Seq(Nat) /\ Len(asked) \in Nat /\ repQ \in Nat
      /\ Len(asked) <= MaxRepeated + 1
      /\ asked # <<>> => repQ > 0 /\ asked[Len(asked)] = lastQ
      /\ Len(asked) > repQ => asked[Len(asked) - repQ] # lastQ
  BY LenProperties, ConstTypes
     DEF IInv, LoopInv, LoopTypeOK, RepeatInv
<1> DEFINE A == Append(asked, q)
           n == Len(asked)
<1>2. /\ \A i \in 1..n : A[i] = asked[i]
      /\ A[n + 1] = q
  BY <1>1, AppendProperties
<1>3. asked' \in Seq(Nat) /\ asked' # <<>>
  BY <1>1, LatestType
<1>4. PICK d \in {0, 1} :
        /\ Len(asked') = n + 1 - d
        /\ n + 1 - d <= MaxRepeated + 1
        /\ \A i \in 1..(n + 1 - d) : asked'[i] = A[i + d]
  BY <1>1, LatestType
<1> HIDE DEF A, n
<1>5. n \in Nat /\ n + 1 - d \in Nat \ {0}
  <2>1. n \in Nat
    BY <1>1 DEF n
  <2>2. Len(asked') # 0 /\ Len(asked') \in Nat
    BY <1>3, EmptySeq, LenProperties
  <2> QED BY <2>1, <2>2, <1>4
<1>6. asked'[Len(asked')] = lastQ'
  <2>1. n + 1 - d \in 1..(n + 1 - d) /\ (n + 1 - d) + d = n + 1
    BY <1>5
  <2> QED BY <2>1, <1>2, <1>4
<1>7. ASSUME Len(asked') > repQ'
      PROVE  asked'[Len(asked') - repQ'] # lastQ'
  <2> DEFINE p == Len(asked') - repQ'
  <2>0. repQ' \in Nat \ {0}
    <3>1. CASE q = lastQ
      BY <3>1, <1>1
    <3>2. CASE q # lastQ
      BY <3>2
    <3> QED BY <3>1, <3>2
  <2>1. n + 1 - d > repQ' /\ p = n + 1 - d - repQ'
    <3>1. Len(asked') = n + 1 - d
      BY <1>4
    <3>2. Len(asked') > repQ'
      BY <1>7
    <3>3. p = n + 1 - d - repQ'
      BY <3>1, <1>5, <2>0
    <3> QED BY <3>1, <3>2, <3>3, Zenon
  <2> HIDE DEF p
  <2>2. /\ p \in 1..(n + 1 - d)
        /\ p + d = n + 1 - repQ'
        /\ n + 1 - repQ' \in 1..n
    BY <2>0, <2>1, <1>5, BackPosition
  <2>3. asked'[p] = asked[n + 1 - repQ']
    <3>1. asked'[p] = A[p + d]
      BY <2>2, <1>4
    <3> QED BY <3>1, <2>2, <1>2
  <2>4. CASE q = lastQ
    <3>1. n + 1 - repQ' = n - repQ /\ n > repQ
      BY <2>2, <2>4, <1>1, <1>5
    <3> QED BY <3>1, <2>3, <2>4, <1>1 DEF n, p
  <2>5. CASE q # lastQ
    <3>1. n + 1 - repQ' = n /\ asked # <<>>
      BY <2>2, <2>5, <1>1, <1>5, EmptySeq DEF n
    <3> QED BY <3>1, <2>3, <2>5, <1>1 DEF n, p
  <2> QED BY <2>4, <2>5
<1>8. repQ' \in 0..MaxRepeated /\ repQ' > 0
  BY <1>1, ConstTypes
<1>9. Len(asked') <= MaxRepeated + 1
  BY <1>4
<1> QED BY <1>3, <1>6, <1>7, <1>8, <1>9 DEF RepeatInv

(* A question shortens the list like the echo, and is counted. *)
LEMMA SeeQuestionInv ==
  ASSUME IInv, SeeQuestion
  PROVE  IInv'
<1> USE DEF SeeQuestion
<1>1. cur # 0 /\ HasMatch
  BY DEF Sees
<1>2. buf' \in Seq(Tokens) /\ Matched.n \in Nat
  BY <1>1, InvMatch DEF Tokens
<1>3. CASE WriteFails
  BY <1>1, <1>2, <1>3, WriteFailsInv
<1>4. CASE (Fail("question") \/ Fail("repeated")) /\ UNCHANGED termVars
  <2>1. "question" \in Outcomes /\ "repeated" \in Outcomes
    BY DEF Outcomes
  <2>2. TermTypeOK'
    BY <1>4, TermUnchanged DEF IInv, SessionTypeOK
  <2> QED BY <1>1, <1>2, <1>4, <2>1, <2>2, FailInv DEF IInv, SessionTypeOK
<1>5. CASE /\ ~(QuestionCount > MaxRepeated)
           /\ lastQ' = Matched.n
           /\ repQ' = QuestionCount
           /\ seenEcho' = TRUE
           /\ exprs' = IF seenEcho THEN exprs ELSE DeleteExpr(exprs, "echo")
           /\ cbStart' = IF seenEcho THEN cbStart ELSE cbStart - 1
           /\ pendErr' = FALSE
           /\ cbRun' = 0
           /\ asked' = Latest(Append(asked, Matched.n))
           /\ Writes(Input("answer", Matched.n))
           /\ UNCHANGED <<page, cbLeft>>
           /\ Continue
  <2>1. QuestionCount \in Nat
    BY <1>2, ConstTypes DEF QuestionCount, IInv, LoopInv, LoopTypeOK
  <2>2. RepeatInv' /\ asked' \in Seq(Nat) /\ repQ' \in 0..MaxRepeated
    BY <1>2, <1>5, <2>1, ConstTypes, RepeatStep DEF QuestionCount
  <2>3. exprs' = ShortExprs /\ cbStart' = Len(FixedExprs) - 1
    BY <1>5, ConstTypes DEF IInv, LoopInv, ListInv, ShortExprs
  <2>4. cbRun' \in 0..CbLimit /\ LimitInv'
    <3>1. cbRun' = 0 /\ cbLeft' = cbLeft
      BY <1>5
    <3>2. CbLimit \in Nat /\ cbLeft \in 0..CbLimit
      BY ConstTypes DEF IInv, LoopInv, LoopTypeOK
    <3> QED BY <3>1, <3>2 DEF LimitInv
  <2>5. LoopTypeOK'
    <3>1. exprs' \in Seq(ExprEntries) /\ cbStart' \in Nat
      BY <2>3, ConstTypes
    <3>2. /\ seenEcho' \in BOOLEAN /\ page' \in Seq(Tokens) /\ lastQ' \in Nat
          /\ cbLeft' \in 0..CbLimit /\ pendErr' \in BOOLEAN
      <4>1. /\ seenEcho' = TRUE /\ page' = page /\ lastQ' = Matched.n
            /\ cbLeft' = cbLeft /\ pendErr' = FALSE
        BY <1>5
      <4>2. page \in Seq(Tokens) /\ cbLeft \in 0..CbLimit
        BY DEF IInv, LoopInv, LoopTypeOK
      <4> QED BY <4>1, <4>2, <1>2
    <3> QED BY <3>1, <3>2, <2>2, <2>4 DEF LoopTypeOK
  <2>6. ListInv' /\ ErrInv'
    BY <1>5, <2>3 DEF ListInv, ErrInv
  <2>7. TermTypeOK'
    BY <1>2, <1>5, WritesType DEF IInv, SessionTypeOK
  <2> QED BY <1>2, <1>5, <2>2, <2>4, <2>5, <2>6, <2>7, ContinueType
          DEF IInv, SessionTypeOK, LoopInv
<1> QED BY <1>3, <1>4, <1>5

(* Every turn of the loop keeps the invariant. *)
LEMMA LoopStepInv ==
  ASSUME IInv, Loop
  PROVE  IInv'
BY SeeEchoInv, SeePromptInv, SeePromptBeforeEchoInv, SeeWithoutEchoInv,
   SeePagerInv, SeeQuestionInv, SeeCallbackInv, SeeLoginInv DEF Loop

(* The terminal does not touch the session, the session does not stutter
   into anything else. *)
LEMMA Invariance ==
  ASSUME IInv, [Next]_vars
  PROVE  IInv'
<1>1. CASE \E text \in Texts : Execute(text) \/ ExecuteWriteFails(text)
  BY <1>1, ExecuteInv, ExecuteWriteFailsInv
<1>2. CASE Receive \/ ReadTimesOut \/ ReadEOF
  BY <1>2, ReceiveInv, ReadTimesOutInv, ReadEOFInv
<1>3. CASE Loop
  BY <1>3, LoopStepInv
<1>4. CASE TermNext /\ UNCHANGED <<cur, issued, buf, loopVars, results>>
  BY <1>4, TermNextType, LoopUnchanged DEF IInv, SessionTypeOK
<1>5. CASE UNCHANGED vars
  BY <1>5, TermUnchanged, LoopUnchanged DEF IInv, SessionTypeOK, vars
<1> QED BY <1>1, <1>2, <1>3, <1>4, <1>5, Zenon DEF Next, Finished

(* The inductive invariant holds in every state of the session. *)
LEMMA Inductive == Spec => []IInv
BY InitInv, Invariance, PTL DEF Spec

-----------------------------------------------------------------------------
(* The theorems *)

(* Every variable of the session and of the terminal keeps its type, whatever
   the dialog: in particular the counters of GOP 3 and of the callback limit
   stay within their limits and no match is cut outside the buffer. *)
THEOREM TypeCorrectness == Spec => []TypeOK
<1>1. IInv => TypeOK
  BY DEF IInv, SessionTypeOK, LoopInv, TypeOK
<1> QED BY <1>1, Inductive, PTL

(* GOP 3: at most maxRepeatedQuestion answers in a row go to the same
   question, whatever questions the device mixes. *)
THEOREM RepeatedAnswersAreBounded == Spec => []RepeatedAnswersBounded
<1>1. IInv => RepeatedAnswersBounded
  <2> SUFFICES ASSUME IInv, Len(asked) > MaxRepeated
               PROVE  \E i, j \in DOMAIN asked : asked[i] # asked[j]
    BY DEF RepeatedAnswersBounded
  <2>1. /\ asked \in Seq(Nat) /\ repQ \in 0..MaxRepeated /\ MaxRepeated \in Nat
        /\ Len(asked) \in Nat /\ DOMAIN asked = 1..Len(asked)
    BY ConstTypes, LenProperties DEF IInv, LoopInv, LoopTypeOK
  <2>2. asked # <<>> /\ Len(asked) > repQ
    BY <2>1, EmptySeq
  <2>3. /\ asked[Len(asked)] = lastQ /\ repQ > 0
        /\ asked[Len(asked) - repQ] # lastQ
    BY <2>2 DEF IInv, LoopInv, RepeatInv
  <2>4. Len(asked) \in 1..Len(asked) /\ Len(asked) - repQ \in 1..Len(asked)
    BY <2>1, <2>2, <2>3
  <2> QED BY <2>1, <2>3, <2>4
<1> QED BY <1>1, Inductive, PTL

(* A step that returns no result is no return. *)
LEMMA NoReturn ==
  ASSUME IInv, results' = results \/ cur = 0
  PROVE  ~Returns
<1>1. Len(results) \in Nat
  BY LenProperties DEF IInv, SessionTypeOK
<1> QED BY <1>1 DEF Returns

(* What a call returned is the last result. *)
LEMMA ReturnStatus ==
  ASSUME IInv, cur # 0, NEW status, NEW data \in Seq(Tokens),
         status \in Outcomes, Return(status, data)
  PROVE  LastResult.st = status
<1>1. cur \in 1..MaxCommands
  BY ConstTypes DEF IInv, SessionTypeOK
<1>2. Result(status, data) \in Results /\ Result(status, data).st = status
  BY <1>1 DEF Result, Results
<1>3. results \in Seq(Results)
  BY DEF IInv, SessionTypeOK
<1>4. results' = Append(results, Result(status, data))
  BY DEF Return
<1> QED BY <1>2, <1>3, <1>4, AppendProperties DEF LastResult

(* The same for an error. *)
LEMMA FailStatus ==
  ASSUME IInv, cur # 0, NEW status \in Outcomes, Fail(status)
  PROVE  LastResult.st = status
BY ReturnStatus, EmptySeq DEF Fail

(* The terminal only takes input away. *)
LEMMA TermTakesInput ==
  ASSUME IInv, TermNext
  PROVE  ~(Len(inq') > Len(inq))
<1>1. inq \in Seq(Inputs) /\ Len(inq) \in Nat
  BY LenProperties DEF IInv, SessionTypeOK, TermTypeOK
<1>2. inq' = inq \/ (inq # <<>> /\ inq' = Tail(inq))
  BY DEF TermNext, TermReadsCommand, TermReadsLateAnswer, TermPrints, TermAsks,
         TermReadsAnswer, TermPrompts, TermLogsOut, TermReadsLogin, TermCloses
<1>3. inq # <<>> => Len(Tail(inq)) = Len(inq) - 1
  BY <1>1, HeadTailProperties
<1> QED BY <1>1, <1>2, <1>3

(* GOP 4 in one step: how each turn of the loop may end the call. *)
LEMMA ErrorOrderStep ==
  ASSUME IInv, [Next]_vars, Returns
  PROVE  /\ LastResult.st = "echo" => ~seenEcho
         /\ pendErr => LastResult.st \notin {"timeout", "eof"}
<1> DEFINE Goal == /\ LastResult.st = "echo" => ~seenEcho
                   /\ pendErr => LastResult.st \notin {"timeout", "eof"}
<1> SUFFICES Goal
  OBVIOUS
<1>1. cur # 0 /\ results' # results
  BY NoReturn
<1>2. pendErr => ~seenEcho
  BY DEF IInv, LoopInv, ErrInv
<1>3. CASE WriteFails
  <2>1. LastResult.st = "write"
    BY <1>1, <1>3, FailStatus DEF WriteFails, Outcomes
  <2> QED BY <2>1
<1>4. CASE SeePrompt
  <2>1. PICK status \in {"ok", "failed"}, data \in Seq(Tokens) :
          Return(status, data)
    BY <1>4, SeePromptReturns
  <2>2. LastResult.st = status
    BY <1>1, <2>1, ReturnStatus DEF Outcomes
  <2> QED BY <2>2
<1>5. CASE SeeWithoutEcho
  <2>1. LastResult.st = "echo" /\ ~seenEcho
    BY <1>1, <1>5, FailStatus DEF SeeWithoutEcho, Outcomes
  <2> QED BY <2>1
<1>6. CASE SeeQuestion
  <2>1. Fail("question") \/ Fail("repeated") \/ WriteFails
    BY <1>1, <1>6 DEF SeeQuestion, Continue
  <2>2. ASSUME NEW status \in {"question", "repeated"}, Fail(status)
        PROVE  Goal
    <3>1. LastResult.st = status
      BY <1>1, <2>2, FailStatus DEF Outcomes
    <3> QED BY <3>1
  <2> QED BY <2>1, <2>2, <1>3
<1>7. CASE SeeCallback
  <2>1. Fail("cblimit") \/ Fail("cbindex") \/ WriteFails
    BY <1>1, <1>7 DEF SeeCallback, Continue
  <2>2. ASSUME NEW status \in {"cblimit", "cbindex"}, Fail(status)
        PROVE  Goal
    <3>1. LastResult.st = status
      BY <1>1, <2>2, FailStatus DEF Outcomes
    <3> QED BY <3>1
  <2> QED BY <2>1, <2>2, <1>3
<1>8. CASE SeeLogin
  <2>1. LastResult.st = "eof" /\ seenEcho
    BY <1>1, <1>8, FailStatus DEF SeeLogin, Outcomes
  <2> QED BY <2>1, <1>2
<1>9. CASE SeePager
  BY <1>1, <1>3, <1>9 DEF SeePager, Continue
<1>10. CASE ReadTimesOut
  <2>1. Fail(ReadError("timeout", buf'))
    BY <1>10 DEF ReadTimesOut
  <2>2. LastResult.st = ReadError("timeout", buf')
    BY <1>1, <2>1, FailStatus, ReadErrorType
  <2> QED BY <2>2, <1>2 DEF ReadError
<1>11. CASE ReadEOF
  <2>1. LastResult.st = ReadError("eof", buf)
    BY <1>1, <1>11, FailStatus, ReadErrorType DEF ReadEOF
  <2> QED BY <2>1, <1>2 DEF ReadError
<1>12. ~(SeeEcho \/ SeePromptBeforeEcho \/ Receive \/ UNCHANGED vars)
  BY <1>1 DEF SeeEcho, SeePromptBeforeEcho, Receive, Continue, vars
<1>13. ~(\E text \in Texts : Execute(text) \/ ExecuteWriteFails(text))
  BY <1>1 DEF Execute, ExecuteWriteFails
<1> QED BY <1>1, <1>4, <1>5, <1>6, <1>7, <1>8, <1>9, <1>10, <1>11, <1>12,
           <1>13, Zenon DEF Next, Loop, Finished

(* GOP 4: the error kept for a prompt before the echo is reported unless the
   echo follows, and never after it. *)
THEOREM EchoErrorOrderAlways == Spec => EchoErrorOrder
<1>1. IInv /\ [Next]_vars =>
        [Returns => /\ LastResult.st = "echo" => ~seenEcho
                    /\ pendErr => LastResult.st \notin {"timeout", "eof"}]_vars
  BY ErrorOrderStep
<1> QED BY <1>1, Inductive, PTL DEF Spec, EchoErrorOrder

(* What the loop writes, it writes after the echo. *)
LEMMA AnswerStep ==
  ASSUME IInv, [Next]_vars, cur # 0, Len(inq') > Len(inq)
  PROVE  seenEcho'
<1>1. inq' # inq
  <2>1. Len(inq) \in Nat
    BY LenProperties DEF IInv, SessionTypeOK, TermTypeOK
  <2> QED BY <2>1
<1>2. ~WriteFails
  BY <1>1 DEF WriteFails, termVars
<1>3. CASE SeePager
  BY <1>2, <1>3 DEF SeePager
<1>4. CASE SeeQuestion
  BY <1>1, <1>2, <1>4 DEF SeeQuestion, termVars
<1>5. CASE SeeCallback
  BY <1>1, <1>2, <1>5 DEF SeeCallback, termVars
<1>6. ~(SeeEcho \/ SeePrompt \/ SeePromptBeforeEcho \/ SeeWithoutEcho
        \/ SeeLogin \/ Receive \/ ReadTimesOut \/ ReadEOF \/ UNCHANGED vars)
  BY <1>1 DEF SeeEcho, SeePrompt, SeePromptBeforeEcho, SeeWithoutEcho,
     SeeLogin, Receive, ReadTimesOut, ReadEOF, vars, termVars
<1>7. ~(\E text \in Texts : Execute(text) \/ ExecuteWriteFails(text))
  BY DEF Execute, ExecuteWriteFails
<1>8. ~TermNext
  BY TermTakesInput
<1> QED BY <1>3, <1>4, <1>5, <1>6, <1>7, <1>8, Zenon DEF Next, Loop, Finished

(* Nothing is answered between a command and its echo: text left over from an
   earlier command is not answered. *)
THEOREM NoAnswerBeforeEchoAlways == Spec => NoAnswerBeforeEcho
<1>1. IInv /\ [Next]_vars =>
        [cur # 0 /\ Len(inq') > Len(inq) => seenEcho']_vars
  BY AnswerStep
<1> QED BY <1>1, Inductive, PTL DEF Spec, NoAnswerBeforeEcho

(* The turn that answers a callback pattern. *)
LEMMA CallbackStep ==
  ASSUME IInv, [Next]_vars, Sees("cb"), seenEcho, cbLeft > 0
  PROVE  /\ Len(inq') > Len(inq) => inq'[Len(inq')] = Input("cb", Matched.n)
         /\ Returns => LastResult.st # "cbindex"
<1> DEFINE Goal ==
      /\ Len(inq') > Len(inq) => inq'[Len(inq')] = Input("cb", Matched.n)
      /\ Returns => LastResult.st # "cbindex"
<1> SUFFICES Goal
  OBVIOUS
<1>0. /\ cur # 0 /\ HasMatch /\ exprs[MatchId].name = "cb"
      /\ inq \in Seq(Inputs) /\ Len(inq) \in Nat
  BY LenProperties DEF Sees, IInv, SessionTypeOK, TermTypeOK
<1>1. ASSUME NEW status \in Outcomes \ {"cbindex"}, Fail(status), inq' = inq
      PROVE  Goal
  <2>1. LastResult.st = status
    BY <1>0, <1>1, FailStatus
  <2> QED BY <2>1, <1>0, <1>1
<1>2. CASE SeeCallback
  <2>1. CbIndex \in DOMAIN Callbacks /\ Callbacks[CbIndex] = Matched.n
        /\ Matched.n \in Nat
    BY CallbackPlace, GenericExecuteAssumption, LenProperties, ElementOfSeq
  <2>2. CASE WriteFails
    BY <1>1, <2>2 DEF WriteFails, termVars, Outcomes
  <2>3. CASE Writes(Input("cb", Callbacks[CbIndex])) /\ Continue
    <3>1. Input("cb", Matched.n) \in Inputs
      BY <2>1 DEF Input, Inputs
    <3>2. inq' = Append(inq, Input("cb", Matched.n))
      BY <2>1, <2>3 DEF Writes
    <3>3. inq'[Len(inq')] = Input("cb", Matched.n)
      BY <1>0, <3>1, <3>2, AppendProperties
    <3>4. ~Returns
      BY <2>3, NoReturn DEF Continue
    <3> QED BY <3>3, <3>4
  <2>4. cbLeft # 0
    BY DEF IInv, LoopInv, LoopTypeOK
  <2> QED BY <1>2, <2>1, <2>2, <2>3, <2>4 DEF SeeCallback
<1>3. CASE ReadTimesOut
  <2>1. Fail(ReadError("timeout", buf')) /\ inq' = inq
    BY <1>3 DEF ReadTimesOut
  <2>2. ReadError("timeout", buf') \in Outcomes \ {"cbindex"}
    BY DEF ReadError, Outcomes
  <2> QED BY <1>1, <2>1, <2>2
<1>4. CASE TermNext /\ UNCHANGED <<cur, issued, buf, loopVars, results>>
  BY <1>4, NoReturn, TermTakesInput
<1>5. CASE UNCHANGED vars
  BY <1>0, <1>5, NoReturn DEF vars, termVars
<1>6. ~(SeeEcho \/ SeePrompt \/ SeePromptBeforeEcho \/ SeeWithoutEcho
        \/ SeeLogin \/ SeePager \/ SeeQuestion \/ Receive \/ ReadEOF)
  BY <1>0 DEF SeeEcho, SeePrompt, SeePromptBeforeEcho, SeeWithoutEcho,
     SeeLogin, SeePager, SeeQuestion, Sees, Receive, ReadEOF
<1>7. ~(\E text \in Texts : Execute(text) \/ ExecuteWriteFails(text))
  BY <1>0 DEF Execute, ExecuteWriteFails
<1> QED BY <1>2, <1>3, <1>4, <1>5, <1>6, <1>7, Zenon DEF Next, Loop, Finished

(* A callback pattern gets its own text, for every list of callbacks and
   questions, whether or not the echo has been removed from the list. *)
THEOREM CallbackGetsItsTextAlways == Spec => CallbackGetsItsText
<1>1. IInv /\ [Next]_vars =>
        [Sees("cb") /\ seenEcho /\ cbLeft > 0 =>
           /\ Len(inq') > Len(inq) => inq'[Len(inq')] = Input("cb", Matched.n)
           /\ Returns => LastResult.st # "cbindex"]_vars
  BY CallbackStep
<1> QED BY <1>1, Inductive, PTL DEF Spec, CallbackGetsItsText

-----------------------------------------------------------------------------
(***************************************************************************)
(* What the results of GenericExecute contain, for every terminal and for  *)
(* any number of commands: ResultExact and NoForeignOutput, and that       *)
(* GenericExecute implements CommandSession.                               *)
(*                                                                         *)
(* The invariant follows a command from the client to its result: it waits *)
(* in line, the terminal begins with it and its echo travels to the        *)
(* client, then its output, then what the terminal stopped for.  Behind    *)
(* the echo of the running command there is nothing else on its way.       *)
(***************************************************************************)

(* The inductive invariant *)

(* What is on its way to the client, read or not. *)
Ahead == buf \o wire

(* What a command line looks like in the stream. *)
IsEcho(t) == t.k \in {"echo", "esc"}

(* The commands before which no call has failed. *)
Sound == {n \in Nat : Fresh(n)}

(* The commands that NoForeignOutput says nothing about. *)
Exempt ==
  {n \in 1..Len(issued) :
     \/ \E m \in 1..(n - 1) : issued[m] = issued[n] /\ m + 1 \notin Sound
     \/ n \in swallowed}

(* The commands whose output may still come: the call is running, or it has
   failed, or one before it has. *)
Late == {n \in 1..Len(issued) : n = cur \/ n + 1 \notin Sound}

(* Calls and results are numbered in order. *)
CountInv ==
  /\ Len(said) = Len(issued)
  /\ dev.n <= Len(issued)
  /\ \A j \in DOMAIN results : results[j].n = j
  /\ \/ cur = 0 /\ Len(results) = Len(issued)
     \/ cur = Len(issued) /\ Len(results) + 1 = Len(issued)

(* The lines that wait for the terminal are in the order of their commands. *)
LineInv ==
  \A i \in DOMAIN inq :
    inq[i].k = "cmd" =>
      /\ inq[i].n \in Late /\ inq[i].n > dev.n
      /\ \A j \in 1..(i - 1) : inq[j].k = "cmd" => inq[j].n < inq[i].n

(* Only such commands are worked on, wait in line or have an echo on its
   way. *)
LateInv ==
  /\ dev.st \in {"busy", "ask"} => dev.n \in Late
  /\ LineInv
  /\ \A t \in Range(buf) \union Range(wire) : IsEcho(t) => t.n \in Late

(* A command taken for an answer was written after a call had failed. *)
SwallowInv == swallowed \cap Sound = {}

(* The terminal has not begun with the command. *)
NotBegun ==
  /\ ~seenEcho /\ page = <<>> /\ said[cur] = NothingSaid
  /\ \A t \in Range(buf) \union Range(wire) : IsEcho(t) => t.n # cur

InLine ==
  /\ NotBegun
  /\ inq # <<>> /\ inq[Len(inq)] = Input("cmd", cur)

LoggedOut == NotBegun /\ dev.st = "login" /\ inq = <<>>

(* The output o of the command since the page is on its way, and behind it
   what the terminal stopped for. *)
Running(o, rest) ==
  /\ dev.st = "busy" /\ inq = <<>> /\ rest = o
  /\ said[cur] = [kept |-> page, recent |-> o]

Asking(o, rest) ==
  /\ dev.st = "ask" /\ inq = <<>>
  /\ \E t \in Tokens :
       /\ t.k \in AskKinds /\ rest = Append(o, t)
       /\ said[cur] = [kept   |-> IF t.k = "pager" THEN page \o o ELSE page,
                       recent |-> <<>>]

Over(o, rest) ==
  /\ dev.st \in {"prompt", "login"} /\ inq = <<>>
  /\ rest = Append(o, Token(dev.st, 0, 0))
  /\ said[cur] = [kept |-> page, recent |-> o]

AnswerWaits(rest) ==
  /\ dev.st = "ask" /\ Len(inq) = 1 /\ inq[1].k # "cmd"
  /\ rest = <<>> /\ seenEcho
  /\ said[cur] = [kept |-> page, recent |-> <<>>]

Body(o) == \A t \in Range(o) : t.k \in {"out", "err"} /\ t.n = cur

Owed(rest) ==
  \/ \E o \in Seq(Tokens) :
       Body(o) /\ (Running(o, rest) \/ Asking(o, rest) \/ Over(o, rest))
  \/ AnswerWaits(rest)

(* The first echo of the running command is at p, 0 if it was read. *)
EchoAt(p) ==
  IF seenEcho THEN p = 0
  ELSE /\ page = <<>>
       /\ p \in 1..Len(Ahead) /\ IsEcho(Ahead[p]) /\ Ahead[p].n = cur
       /\ \A i \in 1..(p - 1) : IsEcho(Ahead[i]) => Ahead[i].n # cur

Begun ==
  /\ dev.n = cur
  /\ \A t \in Range(page) : t.n = cur
  /\ \E p \in 0..Len(Ahead), rest \in Seq(Tokens) :
       /\ EchoAt(p) /\ Owed(rest)
       /\ rest = SubSeq(Ahead, p + 1, Len(Ahead))

CallInv == cur # 0 /\ cur \notin Exempt => InLine \/ LoggedOut \/ Begun

ResultInv ==
  \A j \in DOMAIN results :
    results[j].st \in Answered =>
      /\ j \in Sound => results[j].data = said[j].kept \o said[j].recent
      /\ j \notin Exempt => \A t \in Range(results[j].data) : t.n = j

SInv == CountInv /\ LateInv /\ SwallowInv /\ CallInv /\ ResultInv

-----------------------------------------------------------------------------
(* Sound and late commands *)

(* The types that the invariant of the expression list leaves. *)
LEMMA Typed ==
  ASSUME IInv
  PROVE  /\ inq \in Seq(Inputs) /\ Len(inq) \in Nat
         /\ DOMAIN inq = 1..Len(inq)
         /\ dev \in [st : {"prompt", "busy", "ask", "login"}, n : Nat]
         /\ left \in 0..MaxPrints
         /\ wire \in Seq(Tokens) /\ Len(wire) \in Nat
         /\ buf \in Seq(Tokens) /\ Len(buf) \in Nat
         /\ page \in Seq(Tokens)
         /\ said \in Seq(Saids) /\ Len(said) \in Nat
         /\ DOMAIN said = 1..Len(said)
         /\ issued \in Seq(Texts) /\ Len(issued) \in Nat
         /\ results \in Seq(Results) /\ Len(results) \in Nat
         /\ DOMAIN results = 1..Len(results)
         /\ cur \in Nat /\ seenEcho \in BOOLEAN
         /\ swallowed \subseteq Nat
<1> USE DEF IInv, SessionTypeOK, TermTypeOK, LoopInv, LoopTypeOK
<1>1. said \in Seq(Saids)
  BY DEF Saids
<1>2. cur \in Nat
  BY GenericExecuteAssumption
<1> QED BY <1>1, <1>2, LenProperties

(* The numbers among them. *)
LEMMA Counts ==
  ASSUME IInv
  PROVE  /\ cur \in Nat /\ dev.n \in Nat
         /\ Len(inq) \in Nat /\ Len(said) \in Nat /\ Len(issued) \in Nat
         /\ Len(results) \in Nat /\ Len(buf) \in Nat /\ Len(wire) \in Nat
         /\ DOMAIN inq = 1..Len(inq) /\ DOMAIN said = 1..Len(said)
         /\ DOMAIN results = 1..Len(results)
<1>1. dev.n \in Nat
  BY Typed
<1> QED BY <1>1, Typed, Zenon

(* Once a call has failed it has failed. *)
LEMMA SoundShrinks ==
  ASSUME IInv, results' = results \/ \E r : results' = Append(results, r)
  PROVE  Sound' \subseteq Sound
<1>1. results \in Seq(Results) /\ DOMAIN results = 1..Len(results)
      /\ Len(results) \in Nat
  BY Typed
<1>2. CASE results' = results
  BY <1>2 DEF Sound, Fresh
<1>3. ASSUME NEW r, results' = Append(results, r)
      PROVE  Sound' \subseteq Sound
  <2>1. /\ Len(Append(results, r)) = Len(results) + 1
        /\ \A i \in 1..Len(results) : Append(results, r)[i] = results[i]
        /\ DOMAIN Append(results, r) = 1..(Len(results) + 1)
    BY <1>1
  <2>2. \A j \in DOMAIN results : j \in DOMAIN results'
                                  /\ results'[j] = results[j]
    <3> TAKE j \in DOMAIN results
    <3>1. j \in 1..Len(results) /\ j \in 1..(Len(results) + 1)
      BY <1>1
    <3> QED BY ONLY <3>1, <2>1, <1>3
  <2> QED BY <2>2 DEF Sound, Fresh
<1> QED BY <1>2, <1>3

(* A command before a sound one is sound, and so is the one after a sound
   one that was answered. *)
LEMMA SoundNeighbours ==
  ASSUME IInv, NEW n \in Sound
  PROVE  /\ \A m \in Nat : m <= n => m \in Sound
         /\ CountInv /\ n \in DOMAIN results /\ results[n].st \in Answered
              => n + 1 \in Sound
<1>1. \A j \in DOMAIN results : results[j].n \in Nat
  <2> TAKE j \in DOMAIN results
  <2>1. results[j] \in Results
    BY Typed, InSeq
  <2> QED BY <2>1, GenericExecuteAssumption DEF Results
<1>2. n \in Nat /\ n + 1 \in Nat
  BY DEF Sound
<1>3. ASSUME NEW m \in Nat, m <= n PROVE m \in Sound
  BY <1>1, <1>2, <1>3 DEF Sound, Fresh
<1>4. ASSUME CountInv, n \in DOMAIN results, results[n].st \in Answered
      PROVE  n + 1 \in Sound
  <2>1. ASSUME NEW j \in DOMAIN results, results[j].n < n + 1
        PROVE  results[j].st \in Answered
    <3>1. results[j].n = j
      BY <1>4 DEF CountInv
    <3>2. CASE j = n
      BY <3>2, <1>4
    <3>3. CASE j # n
      BY <3>1, <3>3, <2>1, <1>1, <1>2 DEF Sound, Fresh
    <3> QED BY <3>2, <3>3
  <2> QED BY <2>1, <1>2 DEF Sound, Fresh
<1> QED BY <1>3, <1>4

(* NoForeignOutput has no exceptions among the sound commands. *)
LEMMA SoundNotExempt ==
  ASSUME IInv, SwallowInv
  PROVE  Sound \cap Exempt = {}
<1> SUFFICES ASSUME NEW n \in Sound, n \in Exempt PROVE FALSE
  OBVIOUS
<1>1. n \in Nat /\ n \notin swallowed
  BY DEF SwallowInv, Sound
<1>2. PICK m \in 1..(n - 1) : m + 1 \notin Sound
  BY <1>1 DEF Exempt
<1>3. m + 1 \in Nat /\ m + 1 <= n
  BY <1>1
<1> QED BY <1>2, <1>3, SoundNeighbours

(* An exception stays an exception. *)
LEMMA ExemptGrows ==
  ASSUME IInv, results' = results \/ \E r : results' = Append(results, r),
         issued' = issued \/ \E t \in Texts : issued' = Append(issued, t),
         swallowed \subseteq swallowed'
  PROVE  Exempt \subseteq Exempt'
<1>1. Sound' \subseteq Sound
  BY SoundShrinks
<1>2. issued \in Seq(Texts) /\ Len(issued) \in Nat
  BY Typed
<1>3. /\ Len(issued') \in Nat /\ Len(issued) <= Len(issued')
      /\ \A n \in 1..Len(issued) : issued'[n] = issued[n]
  <2>1. CASE issued' = issued
    BY <2>1, <1>2
  <2>2. ASSUME NEW t \in Texts, issued' = Append(issued, t)
        PROVE  <1>3!:
    BY <2>2, <1>2, AppendProperties
  <2> QED BY <2>1, <2>2
<1>4. ASSUME NEW n \in Exempt PROVE n \in Exempt'
  <2>1. n \in 1..Len(issued) /\ n \in 1..Len(issued')
    BY <1>2, <1>3 DEF Exempt
  <2>2. CASE n \in swallowed
    BY <2>1, <2>2 DEF Exempt
  <2>3. CASE n \notin swallowed
    <3>1. PICK m \in 1..(n - 1) : issued[m] = issued[n] /\ m + 1 \notin Sound
      BY <2>3, <1>4 DEF Exempt
    <3>2. m \in 1..Len(issued) /\ issued'[m] = issued'[n]
      BY <3>1, <2>1, <1>2, <1>3
    <3> QED BY <3>1, <3>2, <2>1, <1>1 DEF Exempt
  <2> QED BY <2>2, <2>3
<1> QED BY <1>4

(* A late command stays late unless its call has just returned. *)
LEMMA LateGrows ==
  ASSUME IInv, results' = results \/ \E r : results' = Append(results, r),
         issued' = issued \/ \E t \in Texts : issued' = Append(issued, t),
         NEW n \in Late, n # cur \/ cur' = cur
  PROVE  n \in Late'
<1>1. Sound' \subseteq Sound
  BY SoundShrinks
<1>2. issued \in Seq(Texts) /\ Len(issued) \in Nat
  BY Typed
<1>3. Len(issued') \in Nat /\ Len(issued) <= Len(issued')
  BY <1>2, AppendProperties
<1> QED BY <1>1, <1>2, <1>3 DEF Late

-----------------------------------------------------------------------------
(* The terminal *)

(* The variables of the client. *)
ClientStill == UNCHANGED <<cur, issued, buf, loopVars, results>>

(* The last token of an echo is the command line, and the only one in it. *)
LEMMA EchoFacts ==
  ASSUME NEW form \in EchoForms, NEW n \in Nat
  PROVE  LET e == Echo(form, n)
         IN  /\ e \in Seq(Tokens) /\ Len(e) \in Nat \ {0}
             /\ e[Len(e)].n = n /\ IsEcho(e[Len(e)])
             /\ \A i \in 1..(Len(e) - 1) : ~IsEcho(e[i])
             /\ \A t \in Range(e) : IsEcho(t) => t.n = n
<1>1. Echo(form, n) \in Seq(Tokens)
  BY EchoType
<1>2. form \in {"plain", "esc", "redraw"}
  BY TerminalAssumption DEF EchoKinds
<1>3. CASE form = "plain"
  BY <1>1, <1>3 DEF Echo, Token, IsEcho, Range
<1>4. CASE form = "esc"
  BY <1>1, <1>4 DEF Echo, Token, IsEcho, Range
<1>5. CASE form = "redraw"
  <2> DEFINE e == Echo(form, n)
  <2>1. e = <<Token("prompt", 0, 0), Token("part", n, 0),
              Token("prompt", 0, 0), Token("echo", n, 0)>>
    BY <1>5 DEF Echo
  <2>2. /\ Len(e) = 4 /\ DOMAIN e = 1..4
        /\ e[1] = Token("prompt", 0, 0) /\ e[2] = Token("part", n, 0)
        /\ e[3] = Token("prompt", 0, 0) /\ e[4] = Token("echo", n, 0)
    BY <2>1
  <2> HIDE DEF e
  <2>3. /\ ~IsEcho(e[1]) /\ ~IsEcho(e[2]) /\ ~IsEcho(e[3])
        /\ IsEcho(e[4]) /\ e[4].n = n
    BY <2>2 DEF IsEcho, Token
  <2>4. \A i \in 1..4 : i = 1 \/ i = 2 \/ i = 3 \/ i = 4
    OBVIOUS
  <2>5. /\ \A i \in 1..(Len(e) - 1) : ~IsEcho(e[i])
        /\ \A t \in Range(e) : IsEcho(t) => t.n = n
    BY <2>2, <2>3, <2>4 DEF Range
  <2> QED BY <1>1, <2>2, <2>3, <2>5 DEF e
<1> QED BY <1>2, <1>3, <1>4, <1>5

(* The token that a step of the terminal prints, if it prints one. *)
LEMMA OneToken ==
  ASSUME NEW kind \in TokenKinds, NEW n \in Nat, NEW i \in Nat
  PROVE  LET t == Token(kind, n, i)
         IN  /\ t \in Tokens /\ t.k = kind /\ t.n = n
             /\ <<t>> \in Seq(Tokens) /\ Range(<<t>>) = {t}
<1>1. Token(kind, n, i) \in Tokens
  BY TokenType
<1> QED BY <1>1, Listed DEF Token, Range

(* The token that it stops with. *)
LEMMA AskToken ==
  ASSUME NEW ask \in Asked
  PROVE  LET t == Token(ask[1], ask[2], 0)
         IN  t \in Tokens /\ t.k = ask[1] /\ <<t>> \in Seq(Tokens)
<1>1. ask[1] \in AskKinds /\ ask[2] \in Nat
  BY TerminalAssumption
<1>2. PICK kind \in TokenKinds, n \in Nat : kind = ask[1] /\ n = ask[2]
  BY <1>1 DEF TokenKinds
<1>3. 0 \in Nat
  OBVIOUS
<1>4. /\ Token(kind, n, 0) \in Tokens /\ Token(kind, n, 0).k = kind
      /\ <<Token(kind, n, 0)>> \in Seq(Tokens)
  BY <1>3, OneToken, Zenon
<1> QED BY <1>2, <1>4

(* What it prints is behind everything else. *)
LEMMA AheadExtended ==
  ASSUME IInv, NEW new \in Seq(Tokens)
  PROVE  (buf \o wire) \o new = buf \o (wire \o new)
<1>1. buf \in Seq(Tokens) /\ wire \in Seq(Tokens)
  BY Typed
<1> QED BY ONLY <1>1, new \in Seq(Tokens)

(* The history of a command whose output goes on. *)
LEMMA SaidMore ==
  ASSUME NEW s, NEW k, NEW r, NEW t, s = [kept |-> k, recent |-> r]
  PROVE  [s EXCEPT !.recent = Append(s.recent, t)]
           = [kept |-> k, recent |-> Append(r, t)]
OBVIOUS

(* What the terminal reads from the line of a client. *)
LEMMA HeadOfLine ==
  ASSUME IInv, inq # <<>>
  PROVE  /\ Head(inq) = inq[1] /\ inq[1] \in Inputs /\ Len(inq) \in Nat \ {0}
         /\ Tail(inq) \in Seq(Inputs) /\ Len(Tail(inq)) = Len(inq) - 1
         /\ DOMAIN Tail(inq) = 1..(Len(inq) - 1)
         /\ \A i \in 1..(Len(inq) - 1) : Tail(inq)[i] = inq[i + 1]
<1>1. inq \in Seq(Inputs)
  BY Typed
<1>2. /\ Head(inq) = inq[1] /\ inq[1] \in Inputs /\ Len(inq) \in Nat \ {0}
      /\ Tail(inq) \in Seq(Inputs) /\ Len(Tail(inq)) = Len(inq) - 1
      /\ \A i \in 1..(Len(inq) - 1) : Tail(inq)[i] = inq[i + 1]
  BY <1>1, TailFacts
<1>3. DOMAIN Tail(inq) = 1..Len(Tail(inq))
  BY <1>2, LenProperties
<1> QED BY <1>2, <1>3

(* The history of a command changes only while the terminal works on it. *)
LEMMA TermSaid ==
  ASSUME IInv, TermNext
  PROVE  /\ Len(said') = Len(said)
         /\ \A n \in 1..Len(said) :
              said'[n] # said[n] => n = dev.n /\ dev.st = "busy"
<1>1. said \in Seq(Saids) /\ Len(said) \in Nat /\ DOMAIN said = 1..Len(said)
  BY Typed
<1>2. CASE UNCHANGED said
  BY <1>2
<1>3. ASSUME NEW r, said' = [said EXCEPT ![dev.n] = r], dev.st = "busy"
      PROVE  Len(said') = Len(said)
             /\ \A n \in 1..Len(said) :
                  said'[n] # said[n] => n = dev.n /\ dev.st = "busy"
  <2>1. DOMAIN said' = DOMAIN said
        /\ \A n \in DOMAIN said : n # dev.n => said'[n] = said[n]
    BY <1>3
  <2>2. Len(said') = Len(said)
    <3>1. said' \in Seq(Saids)
      BY TermNextType, LenProperties
         DEF TermTypeOK, Saids, IInv, SessionTypeOK
    <3> QED BY <3>1, <2>1, <1>1, SameLength
  <2> QED BY <2>1, <2>2, <1>1, <1>3
<1>4. \/ UNCHANGED said
      \/ \E r : said' = [said EXCEPT ![dev.n] = r] /\ dev.st = "busy"
  BY DEF TermNext, TermReadsCommand, TermReadsLateAnswer, TermPrints,
         TermAsks, TermReadsAnswer, TermPrompts, TermLogsOut, TermReadsLogin,
         TermCloses
<1> QED BY <1>2, <1>3, <1>4

(* Where the terminal is after a step, and what it prints: at most one
   command line, the one that it takes from the line. *)
LEMMA TermPrinted ==
  ASSUME IInv, TermNext
  PROVE  \E new \in Seq(Tokens) :
           /\ wire' = wire \o new
           /\ \A t \in Range(new) :
                IsEcho(t) => /\ inq # <<>> /\ inq[1].k = "cmd"
                             /\ t.n = inq[1].n /\ inq' = Tail(inq)
<1> DEFINE P(new) == /\ wire' = wire \o new
                     /\ \A t \in Range(new) :
                          IsEcho(t) => /\ inq # <<>> /\ inq[1].k = "cmd"
                                       /\ t.n = inq[1].n /\ inq' = Tail(inq)
<1> SUFFICES \E new \in Seq(Tokens) : P(new)
  OBVIOUS
<1>1. wire \in Seq(Tokens) /\ dev.n \in Nat
      /\ MaxPrints \in Nat /\ left \in 0..MaxPrints
  BY Typed, TerminalAssumption
<1>2. ASSUME UNCHANGED wire PROVE \E new \in Seq(Tokens) : P(new)
  <2>1. <<>> \in Seq(Tokens) /\ wire \o <<>> = wire /\ Range(<<>>) = {}
    BY <1>1, EmptySeq, ConcatEmptySeq DEF Range
  <2>2. P(<<>>)
    BY <2>1, <1>2
  <2> QED BY <2>1, <2>2
<1>3. ASSUME NEW kind \in TokenKinds \ {"echo", "esc"}, NEW n \in Nat,
             NEW i \in Nat, Prints(<<Token(kind, n, i)>>)
      PROVE  \E new \in Seq(Tokens) : P(new)
  <2> DEFINE t == Token(kind, n, i)
  <2>1. /\ <<t>> \in Seq(Tokens) /\ Range(<<t>>) = {t} /\ ~IsEcho(t)
        /\ wire' = wire \o <<t>>
    BY <1>3, OneToken DEF IsEcho, Prints
  <2> HIDE DEF t
  <2>2. P(<<t>>)
    BY <2>1
  <2> QED BY <2>1, <2>2
<1> HIDE DEF P
<1>4. CASE TermReadsCommand
  <2> USE <1>4 DEF TermReadsCommand
  <2>1. PICK form \in EchoForms : Prints(Echo(form, Head(inq).n))
    OBVIOUS
  <2>2. Head(inq) = inq[1] /\ inq[1].n \in Nat
    BY HeadOfLine DEF Inputs
  <2> DEFINE e == Echo(form, inq[1].n)
  <2>3. e \in Seq(Tokens) /\ \A t \in Range(e) : IsEcho(t) => t.n = inq[1].n
    BY <2>2, EchoFacts
  <2>4. wire' = wire \o e /\ inq # <<>> /\ inq[1].k = "cmd" /\ inq' = Tail(inq)
    BY <2>1, <2>2 DEF Prints
  <2> HIDE DEF e
  <2>5. P(e)
    BY <2>3, <2>4 DEF P
  <2> QED BY <2>3, <2>5
<1>5. CASE TermReadsLateAnswer
  <2>1. "prompt" \in TokenKinds \ {"echo", "esc"}
    BY DEF TokenKinds
  <2> QED BY <2>1, <1>5, <1>3 DEF TermReadsLateAnswer
<1>6. ASSUME NEW kind \in {"out", "err"}, TermPrints(kind)
      PROVE  \E new \in Seq(Tokens) : P(new)
  <2>1. kind \in TokenKinds \ {"echo", "esc"} /\ MaxPrints - left \in Nat
    BY <1>1 DEF TokenKinds
  <2>2. Prints(<<Token(kind, dev.n, MaxPrints - left)>>)
    BY <1>6 DEF TermPrints
  <2> QED BY <2>1, <2>2, <1>1, <1>3
<1>7. ASSUME NEW ask \in Asked, TermAsks(ask)
      PROVE  \E new \in Seq(Tokens) : P(new)
  <2>1. ask[1] \in TokenKinds \ {"echo", "esc"} /\ ask[2] \in Nat
    BY TerminalAssumption DEF TokenKinds, AskKinds
  <2>2. Prints(<<Token(ask[1], ask[2], 0)>>)
    BY <1>7 DEF TermAsks
  <2> QED BY <2>1, <2>2, <1>3
<1>8. CASE TermReadsAnswer
  <2> USE <1>8 DEF TermReadsAnswer
  <2>1. CASE UNCHANGED wire
    BY <2>1, <1>2
  <2>2. CASE ~UNCHANGED wire
    <3>1. /\ Head(inq).k = "cmd" /\ Prints(<<Token("echo", Head(inq).n, 0)>>)
          /\ inq # <<>> /\ inq' = Tail(inq)
      BY <2>2
    <3>2. Head(inq) = inq[1] /\ inq[1].n \in Nat
      BY <3>1, HeadOfLine DEF Inputs
    <3> DEFINE t == Token("echo", inq[1].n, 0)
    <3>3. <<t>> \in Seq(Tokens) /\ Range(<<t>>) = {t} /\ t.n = inq[1].n
      <4>1. "echo" \in TokenKinds /\ 0 \in Nat
        BY DEF TokenKinds
      <4> QED BY ONLY <4>1, <3>2, OneToken
    <3>4. wire' = wire \o <<t>>
      BY <3>1, <3>2 DEF Prints
    <3> HIDE DEF t
    <3>5. P(<<t>>)
      BY <3>1, <3>2, <3>3, <3>4 DEF P
    <3> QED BY <3>3, <3>5
  <2> QED BY <2>1, <2>2
<1>9. CASE TermPrompts
  <2>1. "prompt" \in TokenKinds \ {"echo", "esc"}
    BY DEF TokenKinds
  <2> QED BY <2>1, <1>9, <1>3 DEF TermPrompts
<1>10. CASE TermLogsOut \/ TermReadsLogin
  <2>1. "login" \in TokenKinds \ {"echo", "esc"}
    BY DEF TokenKinds
  <2> QED BY <2>1, <1>10, <1>3 DEF TermLogsOut, TermReadsLogin
<1>11. CASE TermCloses
  BY <1>11, <1>2 DEF TermCloses
<1> QED
  BY <1>4, <1>5, <1>6, <1>7, <1>8, <1>9, <1>10, <1>11 DEF TermNext

(* What the terminal works on, and what it takes from the line. *)
LEMMA TermDev ==
  ASSUME IInv, TermNext
  PROVE  /\ \/ dev'.n = dev.n
               /\ (dev'.st \in {"busy", "ask"} => dev.st \in {"busy", "ask"})
            \/ /\ inq # <<>> /\ inq[1].k = "cmd" /\ inq' = Tail(inq)
               /\ dev'.n = inq[1].n
         /\ inq' = inq \/ (inq # <<>> /\ inq' = Tail(inq))
         /\ \/ swallowed' = swallowed
            \/ /\ dev.st = "ask" /\ inq # <<>> /\ inq[1].k = "cmd"
               /\ swallowed' = swallowed \union {inq[1].n}
<1>1. dev \in [st : {"prompt", "busy", "ask", "login"}, n : Nat]
  BY Typed
<1>2. inq # <<>> => Head(inq) = inq[1]
  BY HeadOfLine
<1>3. CASE TermReadsCommand
  BY <1>2, <1>3 DEF TermReadsCommand
<1>4. CASE TermReadsLateAnswer \/ TermReadsLogin \/ TermCloses
  BY <1>4 DEF TermReadsLateAnswer, TermReadsLogin, TermCloses
<1>5. CASE \E kind \in {"out", "err"} : TermPrints(kind)
  BY <1>5 DEF TermPrints
<1>6. CASE \E ask \in Asked : TermAsks(ask)
  BY <1>1, <1>6 DEF TermAsks
<1>7. CASE TermReadsAnswer
  BY <1>1, <1>2, <1>7 DEF TermReadsAnswer
<1>8. CASE TermPrompts \/ TermLogsOut
  <2>1. dev'.n = dev.n /\ dev.st = "busy"
    BY <1>1, <1>8 DEF TermPrompts, TermLogsOut
  <2>2. inq' = inq /\ swallowed' = swallowed
    BY <1>8 DEF TermPrompts, TermLogsOut
  <2> QED BY <2>1, <2>2
<1> QED BY <1>3, <1>4, <1>5, <1>6, <1>7, <1>8 DEF TermNext

(* The same calls are late: the terminal returns nothing to the caller. *)
LEMMA StillLate ==
  ClientStill => Late' = Late /\ Sound' = Sound
BY DEF ClientStill, Late, Sound, Fresh

(* The running command is the last one and has no result yet. *)
LEMMA CurIsLast ==
  ASSUME IInv, CountInv
  PROVE  /\ cur # 0 => cur = Len(issued)
         /\ Len(said) = Len(issued)
         /\ \A j \in DOMAIN results : j # cur /\ j \in 1..Len(said)
         /\ cur \in Nat /\ Len(issued) \in Nat
<1>1. /\ cur \in Nat /\ Len(issued) \in Nat /\ Len(results) \in Nat
      /\ DOMAIN results = 1..Len(results)
  BY Counts, Zenon
<1>2. /\ Len(said) = Len(issued)
      /\ \/ cur = 0 /\ Len(results) = Len(issued)
         \/ cur = Len(issued) /\ Len(results) + 1 = Len(issued)
  BY DEF CountInv
<1> QED BY <1>1, <1>2

LEMMA TermCount ==
  ASSUME IInv, CountInv, LateInv, TermNext, ClientStill
  PROVE  CountInv'
<1>1. Len(said') = Len(said)
  BY TermSaid
<1>2. dev'.n <= Len(issued)
  <2>1. CASE dev'.n = dev.n
    BY <2>1 DEF CountInv
  <2>2. CASE inq # <<>> /\ inq[1].k = "cmd" /\ dev'.n = inq[1].n
    <3>1. 1 \in DOMAIN inq
      BY <2>2, HeadOfLine, Counts
    <3>2. inq[1].n \in Late
      BY <2>2, <3>1 DEF LateInv, LineInv
    <3> QED BY <2>2, <3>2, Counts DEF Late
  <2> QED BY <2>1, <2>2, TermDev
<1> QED BY <1>1, <1>2 DEF CountInv, ClientStill

LEMMA TermLine ==
  ASSUME IInv, LineInv, TermNext, ClientStill
  PROVE  LineInv'
<1>1. Late' = Late
  BY StillLate
<1>2. CASE inq' = inq /\ dev'.n = dev.n
  BY <1>1, <1>2 DEF LineInv
<1>3. CASE /\ inq # <<>> /\ inq' = Tail(inq)
           /\ dev'.n = dev.n \/ (inq[1].k = "cmd" /\ dev'.n = inq[1].n)
  <2>1. /\ Len(inq) \in Nat \ {0} /\ DOMAIN inq' = 1..(Len(inq) - 1)
        /\ \A i \in 1..(Len(inq) - 1) : inq'[i] = inq[i + 1]
        /\ DOMAIN inq = 1..Len(inq)
    BY <1>3, HeadOfLine, Typed
  <2> SUFFICES ASSUME NEW i \in DOMAIN inq', inq'[i].k = "cmd"
               PROVE  /\ inq'[i].n \in Late /\ inq'[i].n > dev'.n
                      /\ \A j \in 1..(i - 1) :
                           inq'[j].k = "cmd" => inq'[j].n < inq'[i].n
    BY <1>1 DEF LineInv
  <2>2. i + 1 \in DOMAIN inq /\ inq'[i] = inq[i + 1] /\ 1 \in 1..i
    BY <2>1
  <2>3. /\ inq[i + 1].n \in Late /\ inq[i + 1].n > dev.n
        /\ \A j \in 1..i : inq[j].k = "cmd" => inq[j].n < inq[i + 1].n
    <3> DEFINE k == i + 1
    <3>1. k \in DOMAIN inq /\ inq[k].k = "cmd"
      BY <2>2
    <3> HIDE DEF k
    <3>2. /\ inq[k].n \in Late /\ inq[k].n > dev.n
          /\ \A j \in 1..(k - 1) : inq[j].k = "cmd" => inq[j].n < inq[k].n
      BY <3>1 DEF LineInv
    <3>3. 1..(k - 1) = 1..i
      BY <2>1 DEF k
    <3> QED BY <3>2, <3>3 DEF k
  <2>4. inq'[i].n \in Late
    BY <2>2, <2>3
  <2>5. inq'[i].n > dev'.n
    <3>1. CASE dev'.n = dev.n
      BY <3>1, <2>2, <2>3
    <3>2. CASE inq[1].k = "cmd" /\ dev'.n = inq[1].n
      <4>1. inq[1].n < inq[i + 1].n
        BY <3>2, <2>2, <2>3
      <4>2. 1 \in DOMAIN inq /\ inq[1].n \in Nat /\ inq[i + 1].n \in Nat
        <5>1. inq[1] \in Inputs /\ 1 \in DOMAIN inq
          BY <2>1, HeadOfLine, Counts
        <5>2. inq[i + 1].n \in Late
          BY <2>1, <2>2, <2>3
        <5> QED BY <5>1, <5>2, Counts DEF Inputs, Late
      <4> QED BY <4>1, <4>2, <3>2, <2>2
    <3> QED BY <3>1, <3>2, <1>3
  <2>6. ASSUME NEW j \in 1..(i - 1), inq'[j].k = "cmd"
        PROVE  inq'[j].n < inq'[i].n
    <3>1. j + 1 \in 1..i /\ inq'[j] = inq[j + 1]
      BY <2>1
    <3> QED BY <3>1, <2>2, <2>3, <2>6
  <2> QED BY <2>4, <2>5, <2>6
<1>4. \/ inq' = inq /\ dev'.n = dev.n
      \/ /\ inq # <<>> /\ inq' = Tail(inq)
         /\ dev'.n = dev.n \/ (inq[1].k = "cmd" /\ dev'.n = inq[1].n)
  BY TermDev, Zenon
<1> QED BY <1>2, <1>3, <1>4

LEMMA TermLate ==
  ASSUME IInv, LateInv, TermNext, ClientStill
  PROVE  LateInv'
<1>1. Late' = Late
  BY StillLate
<1>2. LineInv'
  BY TermLine DEF LateInv
<1>3. ASSUME inq # <<>>, inq[1].k = "cmd" PROVE inq[1].n \in Late
  <2>1. 1 \in DOMAIN inq
    BY <1>3, HeadOfLine, Typed
  <2> QED BY <1>3, <2>1 DEF LateInv, LineInv
<1>4. dev'.st \in {"busy", "ask"} => dev'.n \in Late
  BY <1>3, TermDev DEF LateInv
<1>5. ASSUME NEW t \in Range(buf') \union Range(wire'), IsEcho(t)
      PROVE  t.n \in Late
  <2>1. PICK new \in Seq(Tokens) :
          /\ wire' = wire \o new
          /\ \A u \in Range(new) :
               IsEcho(u) => inq # <<>> /\ inq[1].k = "cmd" /\ u.n = inq[1].n
    BY TermPrinted
  <2>2. Range(wire') = Range(wire) \union Range(new)
    BY <2>1, Typed, RangeConcatenation
  <2>3. Range(buf') = Range(buf)
    BY DEF ClientStill
  <2> QED BY <1>3, <1>5, <2>1, <2>2, <2>3 DEF LateInv
<1> QED BY <1>1, <1>2, <1>4, <1>5 DEF LateInv

(* A command that the terminal takes for an answer comes after the one that
   has stopped for it, and the call of that one has failed. *)
LEMMA TermSwallows ==
  ASSUME IInv, CountInv, LateInv, SwallowInv, TermNext, ClientStill
  PROVE  SwallowInv'
<1>1. Sound' = Sound
  BY StillLate
<1>2. CASE swallowed' = swallowed
  BY <1>1, <1>2 DEF SwallowInv
<1>3. CASE /\ dev.st = "ask" /\ inq # <<>> /\ inq[1].k = "cmd"
           /\ swallowed' = swallowed \union {inq[1].n}
  <2> DEFINE m == inq[1].n
  <2>1. 1 \in DOMAIN inq
    BY <1>3, HeadOfLine, Typed
  <2>2. m \in Late /\ m > dev.n /\ m \in 1..Len(issued)
    BY <1>3, <2>1 DEF LateInv, LineInv, Late
  <2>3. dev.n \in 1..Len(issued) /\ (dev.n = cur \/ dev.n + 1 \notin Sound)
    BY <1>3 DEF LateInv, Late
  <2>4. dev.n # cur
    BY <2>2, <2>3, CurIsLast
  <2>5. dev.n + 1 <= m /\ dev.n + 1 \in Nat
    BY <2>2, <2>3, Counts
  <2>6. m \notin Sound
    BY <2>3, <2>4, <2>5, SoundNeighbours
  <2> QED BY <1>1, <1>3, <2>6 DEF SwallowInv
<1> QED BY <1>2, <1>3, TermDev

(* What a sound command has printed does not change after its call. *)
LEMMA TermResults ==
  ASSUME IInv, CountInv, LateInv, ResultInv, TermNext, ClientStill
  PROVE  ResultInv'
<1>1. Sound' = Sound /\ results' = results
  BY StillLate DEF ClientStill
<1>2. Exempt \subseteq Exempt'
  BY ExemptGrows, TermDev DEF ClientStill
<1> SUFFICES ASSUME NEW j \in DOMAIN results, results[j].st \in Answered
             PROVE  /\ j \in Sound => results[j].data
                                        = said'[j].kept \o said'[j].recent
                    /\ j \notin Exempt' =>
                         \A t \in Range(results[j].data) : t.n = j
  BY <1>1 DEF ResultInv
<1>3. ASSUME j \in Sound PROVE said'[j] = said[j]
  <2>1. j + 1 \in Sound
    BY <1>3, SoundNeighbours
  <2>2. j # cur /\ j \in 1..Len(said)
    BY CurIsLast
  <2>3. j \notin Late
    BY <2>1, <2>2 DEF Late
  <2> QED BY <2>2, <2>3, TermSaid DEF LateInv
<1> QED BY <1>2, <1>3 DEF ResultInv

(* A command in line waits there until the terminal reads it, echoes it at
   its prompt, swallows it as an answer or takes it for a user name. *)
LEMMA TermInLine ==
  ASSUME IInv, CountInv, LateInv, TermNext, ClientStill, cur # 0, InLine
  PROVE  InLine' \/ LoggedOut' \/ Begun' \/ cur \in Exempt'
<1> DEFINE L == Len(inq)
<1>1. /\ inq # <<>> /\ L \in Nat \ {0} /\ DOMAIN inq = 1..L
      /\ inq[L] = Input("cmd", cur)
  BY HeadOfLine, Counts DEF InLine
<1>2. inq[L].k = "cmd" /\ inq[L].n = cur
  BY <1>1 DEF Input
<1>3. /\ cur > dev.n /\ cur \in Nat /\ dev.n \in Nat
      /\ \A j \in 1..(L - 1) : inq[j].k = "cmd" => inq[j].n < cur
  <2>1. L \in DOMAIN inq
    BY <1>1
  <2> QED BY <2>1, <1>2, Counts DEF LateInv, LineInv
<1>4. UNCHANGED <<cur, issued, buf, seenEcho, page, results>>
  BY DEF ClientStill, loopVars
<1>5. said'[cur] = said[cur]
  <2>1. cur \in 1..Len(said)
    BY CurIsLast
  <2> QED BY <2>1, <1>3, TermSaid
<1>6. PICK new \in Seq(Tokens) :
        /\ wire' = wire \o new
        /\ \A t \in Range(new) :
             IsEcho(t) => /\ inq # <<>> /\ inq[1].k = "cmd"
                          /\ t.n = inq[1].n /\ inq' = Tail(inq)
  BY TermPrinted
<1> HIDE DEF L
<1>7. CASE inq' = inq
  <2>1. \A t \in Range(new) : ~IsEcho(t)
    <3>1. Len(Tail(inq)) # Len(inq)
      BY <1>1, HeadOfLine
    <3> QED BY <3>1, <1>6, <1>7
  <2>2. Range(wire') = Range(wire) \union Range(new)
    BY <1>6, Typed, RangeConcatenation
  <2>3. NotBegun'
    BY <2>1, <2>2, <1>4, <1>5 DEF InLine, NotBegun
  <2> QED BY <2>3, <1>4, <1>7 DEF InLine
<1>8. CASE inq' = Tail(inq) /\ L # 1
  <2>1. /\ Len(inq') = L - 1 /\ L - 1 \in 1..(L - 1)
        /\ \A i \in 1..(L - 1) : inq'[i] = inq[i + 1]
    BY <1>1, <1>8, HeadOfLine DEF L
  <2>2. inq' # <<>> /\ inq'[Len(inq')] = inq[L]
    <3>1. L - 1 + 1 = L /\ L - 1 # 0
      BY <1>1, <1>8
    <3>2. Len(inq') # 0
      BY <3>1, <2>1
    <3> QED BY <2>1, <3>1, <3>2, EmptySeq
  <2>3. \A t \in Range(new) : IsEcho(t) => t.n # cur
    <3>1. 1 \in 1..(L - 1)
      BY <2>1
    <3>2. inq[1].k = "cmd" => inq[1].n # cur
      BY <3>1, <1>3
    <3> QED BY <3>2, <1>6
  <2>4. Range(wire') = Range(wire) \union Range(new)
    BY <1>6, Typed, RangeConcatenation
  <2>5. NotBegun'
    BY <2>3, <2>4, <1>4, <1>5 DEF InLine, NotBegun
  <2> QED BY <2>2, <2>5, <1>1, <1>4 DEF InLine
<1>9. CASE inq' = Tail(inq) /\ L = 1
  <2>1. Head(inq) = Input("cmd", cur) /\ Tail(inq) = <<>>
    <3>1. Head(inq) = inq[1] /\ Tail(inq) \in Seq(Inputs)
          /\ Len(Tail(inq)) = 0
      BY <1>1, <1>9, HeadOfLine DEF L
    <3> QED BY <3>1, <1>1, <1>9, EmptySeq
  <2>2. Head(inq).k = "cmd" /\ Head(inq).n = cur
    BY <2>1 DEF Input
  <2>3. CASE TermReadsCommand
    <3>1. PICK form \in EchoForms : Prints(Echo(form, cur))
      BY <2>2, <2>3 DEF TermReadsCommand
    <3> DEFINE e == Echo(form, cur)
               p == Len(Ahead) + Len(e)
    <3>2. /\ e \in Seq(Tokens) /\ Len(e) \in Nat \ {0}
          /\ e[Len(e)].n = cur /\ IsEcho(e[Len(e)])
          /\ \A i \in 1..(Len(e) - 1) : ~IsEcho(e[i])
      BY <1>3, EchoFacts
    <3>3. wire' = wire \o e
      BY <3>1 DEF Prints
    <3> HIDE DEF e
    <3>4. /\ Ahead \in Seq(Tokens) /\ Len(Ahead) \in Nat
          /\ Ahead' = Ahead \o e /\ Len(Ahead') = Len(Ahead) + Len(e)
          /\ \A i \in 1..Len(Ahead) : Ahead'[i] = Ahead[i]
          /\ \A i \in (Len(Ahead) + 1)..(Len(Ahead) + Len(e)) :
               Ahead'[i] = e[i - Len(Ahead)]
          /\ Range(Ahead) = Range(buf) \union Range(wire)
      <4>1. Ahead \in Seq(Tokens) /\ Len(Ahead) \in Nat
            /\ Range(Ahead) = Range(buf) \union Range(wire)
        BY Typed, ConcatProperties, LenProperties, RangeConcatenation
           DEF Ahead
      <4>2. Ahead' = Ahead \o e
        <5>1. (buf \o wire) \o e = buf \o (wire \o e)
          BY <3>2, AheadExtended
        <5> QED BY <5>1, <3>3, <1>4 DEF Ahead
      <4> QED BY <4>1, <4>2, <3>2, Joined
    <3>5. /\ p \in 1..Len(Ahead') /\ p \in 0..Len(Ahead')
          /\ p - Len(Ahead) = Len(e)
          /\ p \in (Len(Ahead) + 1)..(Len(Ahead) + Len(e))
      BY <3>2, <3>4
    <3>6. Ahead'[p] = e[Len(e)]
      BY <3>4, <3>5
    <3>7. ASSUME NEW i \in 1..(p - 1), IsEcho(Ahead'[i])
          PROVE  Ahead'[i].n # cur
      <4>1. CASE i <= Len(Ahead)
        <5>1. i \in 1..Len(Ahead) /\ Ahead[i] \in Range(Ahead)
          BY <4>1, <3>4, LenProperties DEF Range
        <5> QED BY <5>1, <3>4, <3>7 DEF InLine, NotBegun
      <4>2. CASE i > Len(Ahead)
        <5>1. /\ i \in (Len(Ahead) + 1)..(Len(Ahead) + Len(e))
              /\ i - Len(Ahead) \in 1..(Len(e) - 1)
          BY <4>2, <3>2, <3>4
        <5>2. Ahead'[i] = e[i - Len(Ahead)]
          BY <5>1, <3>4
        <5> QED BY <5>1, <5>2, <3>2, <3>7
      <4> QED BY <4>1, <4>2, <3>4
    <3>8. SubSeq(Ahead', p + 1, Len(Ahead')) = <<>>
      <4>1. p + 1 \in Int /\ Len(Ahead') \in Int /\ Len(Ahead') < p + 1
        BY <3>2, <3>4
      <4> QED BY <4>1, SubSeqEmpty
    <3>9. dev' = [st |-> "busy", n |-> cur] /\ inq' = <<>>
      BY <2>1, <2>2, <2>3 DEF TermReadsCommand
    <3>10. /\ seenEcho' = FALSE /\ page' = <<>> /\ cur' = cur
           /\ said'[cur'] = [kept |-> <<>>, recent |-> <<>>]
      BY <1>4, <1>5 DEF InLine, NotBegun, NothingSaid
    <3>11. Owed(<<>>)'
      <4>1. Body(<<>>)' /\ <<>> \in Seq(Tokens)
        BY EmptySeq DEF Body, Range
      <4>2. Running(<<>>, <<>>)'
        BY <3>9, <3>10 DEF Running
      <4> QED BY <4>1, <4>2 DEF Owed
    <3>12. PICK r \in 0..Len(Ahead') : r = p
      BY <3>5
    <3>13. EchoAt(r)'
      BY <3>12, <3>2, <3>5, <3>6, <3>7, <3>10 DEF EchoAt
    <3>14. <<>> \in Seq(Tokens) /\ \A t \in Range(page') : t.n = cur
      BY <3>10, EmptySeq DEF Range
    <3>15. dev'.n = cur'
      BY <3>9, <3>10
    <3>16. <<>> = SubSeq(Ahead', r + 1, Len(Ahead'))
      BY <3>8, <3>12
    <3> HIDE DEF p
    <3> QED BY <3>10, <3>11, <3>13, <3>14, <3>15, <3>16 DEF Begun
  <2>4. CASE TermReadsAnswer
    <3>1. cur \in swallowed'
      BY <2>2, <2>4 DEF TermReadsAnswer
    <3>2. cur \in 1..Len(issued)
      BY CurIsLast
    <3> QED BY <3>1, <3>2, <1>4 DEF Exempt
  <2>5. CASE TermReadsLogin
    <3>1. wire' = wire \o <<Token("login", 0, 0)>> /\ dev' = dev
          /\ dev.st = "login"
      BY <2>5 DEF TermReadsLogin, Prints
    <3>2. "login" \in TokenKinds /\ 0 \in Nat
      BY DEF TokenKinds
    <3> DEFINE t == Token("login", 0, 0)
    <3>3. t \in Tokens /\ t.k = "login" /\ <<t>> \in Seq(Tokens)
          /\ Range(<<t>>) = {t}
      BY ONLY <3>2, OneToken
    <3> HIDE DEF t
    <3>4. Range(wire') = Range(wire) \union {t}
      <4>1. PICK w \in Seq(Tokens) : w = <<t>> /\ Range(w) = {t}
        BY <3>3
      <4>2. wire' = wire \o w /\ wire \in Seq(Tokens)
        BY <3>1, <4>1, Typed DEF t
      <4>3. Range(wire \o w) = Range(wire) \union Range(w)
        BY <4>2, RangeConcatenation
      <4>4. Range(w) = {t}
        BY <4>1
      <4> QED BY <4>2, <4>3, <4>4, Zenon
    <3>5. NotBegun'
      BY <3>3, <3>4, <1>4, <1>5 DEF InLine, NotBegun, IsEcho
    <3> QED BY <3>1, <3>5, <2>1, <1>9 DEF LoggedOut
  <2>6. CASE inq' = inq
    BY <2>6, <1>7
  <2>7. ~TermReadsLateAnswer
    BY <2>2 DEF TermReadsLateAnswer
  <2>8. \/ inq' = inq
        \/ TermReadsCommand \/ TermReadsAnswer \/ TermReadsLogin
    BY <2>7 DEF TermNext, TermPrints, TermAsks, TermPrompts, TermLogsOut,
                TermCloses
  <2> QED BY <2>3, <2>4, <2>5, <2>6, <2>8
<1> QED BY <1>7, <1>8, <1>9, TermDev

(* After a logout the terminal reads no command. *)
LEMMA TermLoggedOut ==
  ASSUME IInv, CountInv, TermNext, ClientStill, cur # 0, LoggedOut
  PROVE  LoggedOut'
<1>1. TermCloses
  BY DEF LoggedOut, TermNext, TermReadsCommand, TermReadsLateAnswer,
         TermPrints, TermAsks, TermReadsAnswer, TermPrompts, TermLogsOut,
         TermReadsLogin
<1> QED BY <1>1 DEF TermCloses, LoggedOut, NotBegun, ClientStill, loopVars

(* What is on its way is made of tokens, and a step of the terminal adds to
   it at the far end. *)
LEMMA AheadFacts ==
  ASSUME IInv
  PROVE  /\ Ahead \in Seq(Tokens) /\ Len(Ahead) = Len(buf) + Len(wire)
         /\ Len(Ahead) \in Nat /\ Len(buf) \in Nat /\ Len(wire) \in Nat
         /\ Range(Ahead) = Range(buf) \union Range(wire)
         /\ \A i \in 1..Len(buf) : Ahead[i] = buf[i]
         /\ \A i \in (Len(buf) + 1)..(Len(buf) + Len(wire)) :
              Ahead[i] = wire[i - Len(buf)]
         /\ \A i \in 1..Len(Ahead) : Ahead[i] \in Range(Ahead)
                                     /\ Ahead[i] \in Tokens
<1>1. buf \in Seq(Tokens) /\ wire \in Seq(Tokens)
  BY Typed
<1>2. /\ buf \o wire \in Seq(Tokens)
      /\ Len(buf) \in Nat /\ Len(wire) \in Nat
      /\ Len(buf \o wire) = Len(buf) + Len(wire)
      /\ \A j \in 1..Len(buf) : (buf \o wire)[j] = buf[j]
      /\ \A j \in (Len(buf) + 1)..(Len(buf) + Len(wire)) :
           (buf \o wire)[j] = wire[j - Len(buf)]
  BY <1>1, Joined
<1>3. Range(buf \o wire) = Range(buf) \union Range(wire)
  BY <1>1, RangeConcatenation
<1>4. \A i \in 1..Len(Ahead) : Ahead[i] \in Range(Ahead)
                               /\ Ahead[i] \in Tokens
  <2>1. Ahead \in Seq(Tokens)
    BY <1>2 DEF Ahead
  <2> QED BY <2>1, LenProperties, ElementOfSeq DEF Range
<1> QED BY <1>2, <1>3, <1>4 DEF Ahead

LEMMA AheadGrows ==
  ASSUME IInv, ClientStill, NEW new \in Seq(Tokens), wire' = wire \o new,
         NEW p \in 0..Len(Ahead), EchoAt(p),
         NEW rest \in Seq(Tokens), rest = SubSeq(Ahead, p + 1, Len(Ahead))
  PROVE  /\ p \in 0..Len(Ahead') /\ EchoAt(p)'
         /\ rest \o new \in Seq(Tokens)
         /\ rest \o new = SubSeq(Ahead', p + 1, Len(Ahead'))
<1>1. /\ Ahead \in Seq(Tokens) /\ Len(Ahead) \in Nat
      /\ buf \in Seq(Tokens) /\ wire \in Seq(Tokens)
  BY AheadFacts, Typed
<1>2. UNCHANGED <<cur, buf, seenEcho, page>>
  BY DEF ClientStill, loopVars
<1>3. Ahead' = Ahead \o new
  <2>1. (buf \o wire) \o new = buf \o (wire \o new)
    BY AheadExtended
  <2> QED BY <2>1, <1>2 DEF Ahead
<1>4. SubSeq(Ahead', p + 1, Len(Ahead')) = rest \o new
  BY <1>1, <1>3, CutJoined
<1>5. /\ Len(Ahead') = Len(Ahead) + Len(new) /\ Len(new) \in Nat
      /\ \A i \in 1..Len(Ahead) : Ahead'[i] = Ahead[i]
  BY <1>1, <1>3, Joined
<1>6. p \in 0..Len(Ahead')
  BY <1>1, <1>5
<1>7. rest \o new \in Seq(Tokens)
  BY Joined
<1>8. EchoAt(p)'
  <2>1. CASE seenEcho
    BY <2>1, <1>2 DEF EchoAt
  <2>2. CASE ~seenEcho
    <3>1. /\ page = <<>> /\ p \in 1..Len(Ahead)
          /\ IsEcho(Ahead[p]) /\ Ahead[p].n = cur
          /\ \A i \in 1..(p - 1) : IsEcho(Ahead[i]) => Ahead[i].n # cur
      BY <2>2 DEF EchoAt
    <3>2. p \in 1..Len(Ahead') /\ \A i \in 1..(p - 1) : i \in 1..Len(Ahead)
      BY <3>1, <1>1, <1>5
    <3> QED BY <3>1, <3>2, <2>2, <1>2, <1>5 DEF EchoAt
  <2> QED BY <2>1, <2>2
<1> QED BY <1>4, <1>6, <1>7, <1>8

(* The terminal works on the running command: what it prints belongs to it,
   and what it stops for is the last thing it prints. *)
LEMMA OwedGrows ==
  ASSUME IInv, CountInv, TermNext, ClientStill, cur # 0, dev.n = cur,
         NEW rest \in Seq(Tokens), Owed(rest)
  PROVE  /\ dev'.n = cur
         /\ \E new \in Seq(Tokens) : wire' = wire \o new /\ Owed(rest \o new)'
<1>1. /\ UNCHANGED <<cur, buf, seenEcho, page>>
      /\ cur \in 1..Len(said) /\ cur \in Nat
      /\ said[cur] \in Saids /\ wire \in Seq(Tokens) /\ page \in Seq(Tokens)
      /\ dev \in [st : {"prompt", "busy", "ask", "login"}, n : Nat]
      /\ DOMAIN said = 1..Len(said)
  <2>1. UNCHANGED <<cur, buf, seenEcho, page>>
    BY DEF ClientStill, loopVars
  <2>2. cur \in 1..Len(said) /\ cur \in Nat
    BY CurIsLast
  <2> QED BY <2>1, <2>2, Typed, ElementOfSeq
<1>2. CASE TermCloses
  <2>1. <<>> \in Seq(Tokens) /\ wire \o <<>> = wire /\ rest \o <<>> = rest
    BY <1>1, EmptySeq, ConcatEmptySeq
  <2>2. UNCHANGED <<inq, dev, wire, said>>
    BY <1>2 DEF TermCloses
  <2>3. Owed(rest)'
    BY <2>2, <1>1 DEF Owed, Body, Running, Asking, Over, AnswerWaits
  <2> QED BY <2>1, <2>2, <2>3
<1>3. CASE AnswerWaits(rest) /\ ~TermCloses
  <2>1. /\ dev.st = "ask" /\ Len(inq) = 1 /\ inq[1].k # "cmd"
        /\ rest = <<>> /\ seenEcho
        /\ said[cur] = [kept |-> page, recent |-> <<>>]
    BY <1>3 DEF AnswerWaits
  <2>2. TermReadsAnswer
    BY <2>1, <1>3 DEF TermNext, TermReadsCommand, TermReadsLateAnswer,
       TermPrints, TermAsks, TermPrompts, TermLogsOut, TermReadsLogin
  <2>3. Head(inq) = inq[1] /\ Tail(inq) = <<>>
    <3>1. inq # <<>>
      BY <2>2 DEF TermReadsAnswer
    <3>2. Tail(inq) \in Seq(Inputs) /\ Len(Tail(inq)) = 0
      BY <3>1, <2>1, HeadOfLine
    <3> QED BY <3>1, <3>2, HeadOfLine, EmptySeq
  <2>4. wire' = wire /\ said' = said /\ inq' = <<>>
    BY <2>1, <2>2, <2>3 DEF TermReadsAnswer
  <2>5. dev'.st = "busy" /\ dev'.n = cur
    BY <2>2, <1>1 DEF TermReadsAnswer
  <2>6. <<>> \in Seq(Tokens) /\ wire \o <<>> = wire /\ rest \o <<>> = <<>>
    BY <1>1, <2>1, EmptySeq, ConcatEmptySeq
  <2>7. Running(<<>>, <<>>)' /\ Body(<<>>)'
    BY <2>1, <2>4, <2>5, <1>1 DEF Running, Body, Range
  <2>8. Owed(<<>>)'
    BY <2>6, <2>7 DEF Owed
  <2> QED BY <2>4, <2>5, <2>6, <2>8
<1>4. CASE ~AnswerWaits(rest) /\ ~TermCloses
  <2>1. PICK o \in Seq(Tokens) :
          Body(o) /\ (Running(o, rest) \/ Asking(o, rest) \/ Over(o, rest))
    BY <1>4 DEF Owed
  <2>2. Running(o, rest)
    <3>1. inq = <<>>
      BY <2>1 DEF Running, Asking, Over
    <3>2. dev.st = "busy"
      BY <3>1, <1>4 DEF TermNext, TermReadsCommand, TermReadsLateAnswer,
         TermPrints, TermAsks, TermReadsAnswer, TermPrompts, TermLogsOut,
         TermReadsLogin
    <3> QED BY <2>1, <3>2 DEF Asking, Over
  <2>3. /\ dev.st = "busy" /\ inq = <<>> /\ rest = o
        /\ said[cur] = [kept |-> page, recent |-> rest]
    BY <2>2 DEF Running
  <2>4. ASSUME NEW kind \in {"out", "err"}, TermPrints(kind)
        PROVE  /\ dev'.n = cur
               /\ \E new \in Seq(Tokens) :
                    wire' = wire \o new /\ Owed(rest \o new)'
    <3>1. kind \in TokenKinds /\ \E i \in Nat : i = MaxPrints - left
      BY Typed, TerminalAssumption DEF TokenKinds
    <3>2. PICK t \in Tokens :
            /\ t = Token(kind, cur, MaxPrints - left)
            /\ t.k = kind /\ t.n = cur /\ <<t>> \in Seq(Tokens)
            /\ Range(<<t>>) = {t}
      <4>1. PICK i \in Nat : i = MaxPrints - left
        BY <3>1
      <4> DEFINE t == Token(kind, cur, i)
      <4>2. /\ t \in Tokens /\ t.k = kind /\ t.n = cur
            /\ <<t>> \in Seq(Tokens) /\ Range(<<t>>) = {t}
        BY <3>1, <1>1, OneToken
      <4>3. t = Token(kind, cur, MaxPrints - left)
        BY <4>1
      <4> HIDE DEF t
      <4> QED BY <4>2, <4>3
    <3>3. wire' = wire \o <<t>> /\ inq' = inq /\ dev' = dev
          /\ said' = [said EXCEPT ![cur].recent = Append(@, t)]
      BY <2>4, <3>2 DEF TermPrints, Prints
    <3>4. said'[cur] = [kept |-> page, recent |-> Append(rest, t)]
      <4>1. said'[cur] = [said[cur] EXCEPT
                            !.recent = Append(said[cur].recent, t)]
        BY <3>3, <1>1
      <4>2. said[cur] = [kept |-> page, recent |-> rest]
        BY <2>3
      <4>3. [said[cur] EXCEPT !.recent = Append(said[cur].recent, t)]
              = [kept |-> page, recent |-> Append(rest, t)]
        <5>1. PICK s : s = said[cur]
          OBVIOUS
        <5>2. [s EXCEPT !.recent = Append(s.recent, t)]
                = [kept |-> page, recent |-> Append(rest, t)]
          BY <5>1, <4>2, SaidMore
        <5> QED BY <5>1, <5>2, Zenon
      <4> QED BY <4>1, <4>3, Zenon
    <3>5. Append(rest, t) = rest \o <<t>> /\ Append(rest, t) \in Seq(Tokens)
      <4>1. Append(rest, t) = rest \o <<t>>
        <5>1. t \in Tokens /\ rest \in Seq(Tokens)
          BY <3>2
        <5> QED BY ONLY <5>1
      <4>2. Append(rest, t) \in Seq(Tokens)
        BY <3>2, AppendProperties, Zenon
      <4> QED BY <4>1, <4>2
    <3>6. Body(Append(rest, t))'
      <4>1. Range(Append(rest, t)) = Range(rest) \union {t}
        <5>1. PICK w \in Seq(Tokens) : w = <<t>> /\ Range(w) = {t}
          BY <3>2
        <5>2. Range(rest \o w) = Range(rest) \union Range(w)
          BY RangeConcatenation
        <5> QED BY <5>1, <5>2, <3>5, Zenon
      <4>2. \A u \in Range(rest) : u.k \in {"out", "err"} /\ u.n = cur
        BY <2>1, <2>3 DEF Body
      <4> QED BY <4>1, <4>2, <3>2, <1>1 DEF Body
    <3>7. Running(Append(rest, t), Append(rest, t))'
      BY <3>3, <3>4, <2>3, <1>1 DEF Running
    <3>8. Owed(Append(rest, t))'
      BY <3>5, <3>6, <3>7 DEF Owed
    <3>9. dev'.n = cur
      BY <3>3
    <3> QED BY <3>2, <3>3, <3>5, <3>8, <3>9
  <2>5. ASSUME NEW ask \in Asked, TermAsks(ask)
        PROVE  /\ dev'.n = cur
               /\ \E new \in Seq(Tokens) :
                    wire' = wire \o new /\ Owed(rest \o new)'
    <3>1. ask[1] \in AskKinds /\ ask[1] \in TokenKinds /\ ask[2] \in Nat
      BY TerminalAssumption DEF TokenKinds
    <3>2. PICK t \in Tokens :
            /\ t = Token(ask[1], ask[2], 0)
            /\ t.k = ask[1] /\ <<t>> \in Seq(Tokens)
      BY AskToken
    <3>3. wire' = wire \o <<t>> /\ inq' = inq
          /\ dev' = [dev EXCEPT !.st = "ask"]
          /\ said' = [said EXCEPT
                ![dev.n] = [kept   |-> IF ask[1] = "pager"
                                       THEN @.kept \o @.recent ELSE @.kept,
                            recent |-> <<>>]]
      BY <2>5, <3>2 DEF TermAsks, Prints
    <3>4. dev'.st = "ask" /\ dev'.n = cur
      BY <3>3, <1>1
    <3>5. said'[cur] = [kept   |-> IF t.k = "pager" THEN page \o rest
                                   ELSE page,
                        recent |-> <<>>]
      <4>1. said'[cur] = [kept   |-> IF ask[1] = "pager"
                                     THEN said[cur].kept \o said[cur].recent
                                     ELSE said[cur].kept,
                          recent |-> <<>>]
        BY <3>3, <1>1
      <4>2. said[cur].kept = page /\ said[cur].recent = rest
        BY <2>3
      <4>3. t.k = ask[1]
        BY <3>2
      <4> QED BY ONLY <4>1, <4>2, <4>3
    <3>6. Append(rest, t) = rest \o <<t>>
      BY <3>2, AppendIsConcat
    <3>7. Body(rest)'
      BY <2>1, <2>3, <1>1 DEF Body
    <3>8. Asking(rest, Append(rest, t))'
      BY <3>1, <3>2, <3>3, <3>4, <3>5, <2>3, <1>1 DEF Asking
    <3>9. Owed(Append(rest, t))'
      BY <3>7, <3>8 DEF Owed
    <3> QED BY <3>2, <3>3, <3>4, <3>6, <3>9
  <2>6. ASSUME TermPrompts \/ TermLogsOut
        PROVE  /\ dev'.n = cur
               /\ \E new \in Seq(Tokens) :
                    wire' = wire \o new /\ Owed(rest \o new)'
    <3>1. PICK st \in {"prompt", "login"} :
            /\ dev' = [dev EXCEPT !.st = st]
            /\ Prints(<<Token(st, 0, 0)>>)
            /\ inq' = inq /\ said' = said
      BY <2>6 DEF TermPrompts, TermLogsOut
    <3>2. st \in TokenKinds /\ 0 \in Nat
      BY DEF TokenKinds
    <3>3. PICK t \in Tokens :
            t = Token(st, 0, 0) /\ <<t>> \in Seq(Tokens)
      BY <3>2, OneToken
    <3>4. dev'.st = st /\ dev'.n = cur
      BY <3>1, <1>1
    <3>5. wire' = wire \o <<t>>
      BY <3>1, <3>3 DEF Prints
    <3>6. Append(rest, t) = rest \o <<t>>
      BY <3>3, AppendIsConcat
    <3>7. Body(rest)'
      BY <2>1, <2>3, <1>1 DEF Body
    <3>8. Over(rest, Append(rest, t))'
      BY <3>1, <3>3, <3>4, <2>3, <1>1 DEF Over
    <3>9. Owed(Append(rest, t))'
      BY <3>7, <3>8 DEF Owed
    <3> QED BY <3>3, <3>4, <3>5, <3>6, <3>9
  <2>7. \/ TermPrints("out") \/ TermPrints("err")
        \/ \E ask \in Asked : TermAsks(ask)
        \/ TermPrompts \/ TermLogsOut
    BY <2>3, <1>4 DEF TermNext, TermReadsCommand, TermReadsLateAnswer,
       TermReadsAnswer, TermReadsLogin
  <2> QED BY <2>4, <2>5, <2>6, <2>7
<1> QED BY <1>2, <1>3, <1>4

LEMMA TermBegun ==
  ASSUME IInv, CountInv, TermNext, ClientStill, cur # 0, Begun
  PROVE  Begun'
<1>1. PICK p \in 0..Len(Ahead), rest \in Seq(Tokens) :
        /\ EchoAt(p) /\ Owed(rest)
        /\ rest = SubSeq(Ahead, p + 1, Len(Ahead))
  BY DEF Begun
<1>2. dev.n = cur /\ \A t \in Range(page) : t.n = cur
  BY DEF Begun
<1>3. dev'.n = cur
      /\ \E new \in Seq(Tokens) : wire' = wire \o new /\ Owed(rest \o new)'
  BY <1>1, <1>2, OwedGrows
<1>4. PICK new \in Seq(Tokens) : wire' = wire \o new /\ Owed(rest \o new)'
  BY <1>3
<1>5. /\ p \in 0..Len(Ahead') /\ EchoAt(p)'
      /\ rest \o new \in Seq(Tokens)
      /\ rest \o new = SubSeq(Ahead', p + 1, Len(Ahead'))
  BY <1>1, <1>4, AheadGrows
<1>6. UNCHANGED <<cur, page>>
  BY DEF ClientStill, loopVars
<1> QED BY <1>2, <1>3, <1>4, <1>5, <1>6 DEF Begun

(* Every step of the terminal. *)
LEMMA TermStep ==
  ASSUME IInv, SInv, TermNext, ClientStill
  PROVE  SInv'
<1> USE DEF SInv
<1>1. CountInv' /\ LateInv' /\ SwallowInv' /\ ResultInv'
  BY TermCount, TermLate, TermSwallows, TermResults
<1>2. CallInv'
  <2>1. cur' = cur
    BY DEF ClientStill
  <2>2. Exempt \subseteq Exempt'
    BY ExemptGrows, TermDev DEF ClientStill
  <2> SUFFICES ASSUME cur # 0, cur \notin Exempt'
               PROVE  InLine' \/ LoggedOut' \/ Begun'
    BY <2>1 DEF CallInv
  <2>3. InLine \/ LoggedOut \/ Begun
    BY <2>2 DEF CallInv
  <2> QED BY <2>3, TermInLine, TermLoggedOut, TermBegun
<1> QED BY <1>1, <1>2

-----------------------------------------------------------------------------
(* The client *)

(* What is on its way only gets less while the client works. *)
Fewer == Range(buf') \union Range(wire')
           \subseteq Range(buf) \union Range(wire)

(* A step in a call: what it may write is no command. *)
LEMMA Continued ==
  ASSUME IInv, SInv, cur # 0, Continue, UNCHANGED <<dev, said, swallowed>>,
         inq' = inq \/ \E x \in Inputs : x.k # "cmd" /\ inq' = Append(inq, x),
         Fewer,
         cur \notin Exempt => InLine' \/ LoggedOut' \/ Begun'
  PROVE  SInv'
<1> USE DEF SInv
<1>1. Late' = Late /\ Sound' = Sound /\ Exempt' = Exempt
  BY DEF Continue, Late, Sound, Fresh, Exempt
<1>2. UNCHANGED <<cur, issued, results>>
  BY DEF Continue
<1>3. CountInv' /\ SwallowInv' /\ ResultInv'
  BY <1>1, <1>2 DEF CountInv, SwallowInv, ResultInv
<1>4. LineInv'
  <2>1. CASE inq' = inq
    BY <2>1, <1>1 DEF LineInv, LateInv
  <2>2. ASSUME NEW x \in Inputs, x.k # "cmd", inq' = Append(inq, x)
        PROVE  LineInv'
    <3>1. inq \in Seq(Inputs) /\ Len(inq) \in Nat /\ DOMAIN inq = 1..Len(inq)
      BY Typed
    <3>2. /\ Append(inq, x) \in Seq(Inputs)
          /\ Len(Append(inq, x)) = Len(inq) + 1
          /\ \A i \in 1..Len(inq) : Append(inq, x)[i] = inq[i]
          /\ Append(inq, x)[Len(inq) + 1] = x
      BY <3>1, AppendProperties
    <3>3. DOMAIN inq' = 1..(Len(inq) + 1)
      BY <2>2, <3>2, LenProperties, SMTT(30)
    <3>4. ASSUME NEW i \in DOMAIN inq', inq'[i].k = "cmd"
          PROVE  /\ i \in DOMAIN inq /\ inq'[i] = inq[i]
                 /\ \A j \in 1..(i - 1) : inq'[j] = inq[j]
      <4>1. i # Len(inq) + 1
        BY <2>2, <3>2, <3>4
      <4>2. i \in 1..Len(inq) /\ \A j \in 1..(i - 1) : j \in 1..Len(inq)
        BY <4>1, <3>1, <3>3
      <4> QED BY <4>2, <2>2, <3>1, <3>2
    <3>5. \A i \in DOMAIN inq :
            inq[i].k = "cmd" =>
              /\ inq[i].n \in Late /\ inq[i].n > dev.n
              /\ \A j \in 1..(i - 1) : inq[j].k = "cmd" => inq[j].n < inq[i].n
      BY DEF LineInv, LateInv
    <3>6. dev' = dev
      OBVIOUS
    <3> SUFFICES ASSUME NEW i \in DOMAIN inq', inq'[i].k = "cmd"
                 PROVE  /\ inq'[i].n \in Late /\ inq'[i].n > dev.n
                        /\ \A j \in 1..(i - 1) :
                             inq'[j].k = "cmd" => inq'[j].n < inq'[i].n
      BY <1>1, <3>6 DEF LineInv
    <3> QED BY <3>4, <3>5
  <2> QED BY <2>1, <2>2
<1>5. LateInv'
  BY <1>1, <1>4 DEF LateInv, Fewer
<1>6. CallInv'
  BY <1>1, <1>2 DEF CallInv
<1> QED BY <1>3, <1>5, <1>6

(* A call returns: either something of it may still come, or its result is
   exact and nothing is left of it. *)
LEMMA Returned ==
  ASSUME IInv, SInv, cur # 0, UNCHANGED <<inq, dev, said, swallowed, issued>>,
         Fewer, cur' = 0,
         NEW r, results' = Append(results, r), r.n = cur,
         r.st \in Answered /\ cur \in Sound =>
           /\ r.data = said[cur].kept \o said[cur].recent
           /\ dev.st \notin {"busy", "ask"} /\ inq = <<>>
           /\ buf' = <<>> /\ wire' = <<>>,
         r.st \in Answered /\ cur \notin Exempt =>
           \A t \in Range(r.data) : t.n = cur
  PROVE  SInv'
<1> USE DEF SInv
<1>1. /\ DOMAIN results' = 1..(Len(results) + 1)
      /\ Len(results') = Len(results) + 1
      /\ \A j \in 1..Len(results) : results'[j] = results[j]
      /\ results'[Len(results) + 1] = r
      /\ Len(results) \in Nat /\ DOMAIN results = 1..Len(results)
  <2>1. results \in Seq(Results)
    BY Typed, SMTT(30)
  <2> QED BY <2>1
<1>2. /\ cur = Len(issued) /\ cur \in Nat \ {0} /\ cur = Len(results) + 1
      /\ Len(said) = Len(issued)
  BY <1>1, Counts DEF CountInv
<1>3. Sound' \subseteq Sound /\ Exempt \subseteq Exempt'
  BY SoundShrinks, ExemptGrows
<1>4. r.st \notin Answered \/ cur \notin Sound => cur + 1 \notin Sound'
  <2>1. ASSUME r.st \notin Answered PROVE cur + 1 \notin Sound'
    <3>1. PICK c \in Nat : c = cur + 1
      BY <1>2
    <3>2. cur \in DOMAIN results' /\ results'[cur] = r
      BY <1>1, <1>2
    <3>3. results'[cur].n < c /\ results'[cur].st \notin Answered
      BY <3>1, <3>2, <2>1, <1>2
    <3>4. ~Fresh(c)'
      BY <3>2, <3>3 DEF Fresh
    <3>5. c \notin Sound'
      BY <3>4 DEF Sound
    <3> QED BY <3>1, <3>5
  <2>2. ASSUME cur \notin Sound PROVE cur + 1 \notin Sound'
    <3>1. cur + 1 \in Sound => cur \in Sound
      BY <1>2, SoundNeighbours
    <3> QED BY <3>1, <2>2, <1>3
  <2> QED BY <2>1, <2>2
<1>5. CountInv'
  <2>1. \A j \in DOMAIN results' : results'[j].n = j
    BY <1>1, <1>2 DEF CountInv
  <2> QED BY <2>1, <1>1, <1>2 DEF CountInv
<1>6. SwallowInv'
  BY <1>3 DEF SwallowInv
<1>7. LateInv'
  <2>1. CASE r.st \in Answered /\ cur \in Sound
    <3>1. /\ dev'.st \notin {"busy", "ask"} /\ inq' = <<>>
          /\ buf' = <<>> /\ wire' = <<>>
      BY <2>1
    <3>2. DOMAIN inq' = {} /\ Range(buf') = {} /\ Range(wire') = {}
      BY <3>1 DEF Range
    <3> QED BY <3>1, <3>2 DEF LateInv, LineInv
  <2>2. CASE r.st \notin Answered \/ cur \notin Sound
    <3>1. cur \in Late'
      <4>1. cur + 1 \notin Sound'
        BY <2>2, <1>4
      <4> QED BY <4>1, <1>2 DEF Late
    <3>2. Late \subseteq Late'
      BY <3>1, LateGrows
    <3>3. LineInv'
      BY <3>2 DEF LateInv, LineInv
    <3> QED BY <3>2, <3>3 DEF LateInv, Fewer
  <2> QED BY <2>1, <2>2
<1>8. CallInv'
  BY DEF CallInv
<1>9. ResultInv'
  <2> SUFFICES ASSUME NEW j \in DOMAIN results', results'[j].st \in Answered
               PROVE  /\ j \in Sound' => results'[j].data
                                           = said[j].kept \o said[j].recent
                      /\ j \notin Exempt' =>
                           \A t \in Range(results'[j].data) : t.n = j
    BY DEF ResultInv
  <2>1. CASE j = cur
    BY <2>1, <1>1, <1>2, <1>3
  <2>2. CASE j # cur
    <3>1. j \in DOMAIN results /\ results'[j] = results[j]
      BY <2>2, <1>1, <1>2
    <3> QED BY <3>1, <1>3 DEF ResultInv
  <2> QED BY <2>1, <2>2
<1> QED BY <1>5, <1>6, <1>7, <1>8, <1>9

(* A call that fails returns no data. *)
LEMMA Failed ==
  ASSUME IInv, SInv, cur # 0, UNCHANGED <<inq, dev, said, swallowed>>,
         Fewer, \E st \in Outcomes \ Answered : Fail(st)
  PROVE  SInv'
<1>1. PICK st \in Outcomes \ Answered : Fail(st)
  OBVIOUS
<1>2. PICK r : r = Result(st, <<>>)
  OBVIOUS
<1>3. /\ cur' = 0 /\ issued' = issued /\ results' = Append(results, r)
      /\ r.n = cur /\ r.st \notin Answered
  BY <1>1, <1>2 DEF Fail, Return, Result
<1> QED BY <1>3, Returned

(* What ReadTo has matched, and where. *)
LEMMA MatchKind ==
  ASSUME IInv, HasMatch
  PROVE  LET name == exprs[MatchId].name
         IN  /\ Matched.k = name /\ name \in Names
             /\ name \in {"prompt", "pager", "login"} => MatchPos = Len(buf)
             /\ name = "echo" => SameText(Matched.n)
<1>1. /\ exprs[MatchId] \in ExprEntries
      /\ MatchPos \in Occurs(exprs[MatchId], buf)
  BY InvMatch
<1> DEFINE e == exprs[MatchId]
<1>2. e.name \in Names
  BY <1>1 DEF ExprEntries
<1> HIDE DEF e
<1>3. MatchPos \in Occurs(e, buf)
  BY <1>1 DEF e
<1>4. CASE e.name = "echo"
  <2>1. Occurs(e, buf) = {i \in DOMAIN buf :
                            buf[i].k = "echo" /\ SameText(buf[i].n)}
    BY <1>4 DEF Occurs
  <2>2. buf[MatchPos].k = "echo" /\ SameText(buf[MatchPos].n)
    BY <2>1, <1>3
  <2> QED BY <2>2, <1>2, <1>4 DEF Matched, e
<1>5. CASE e.name = "question" /\ e.arg # 0
  <2>1. Occurs(e, buf) = {i \in DOMAIN buf :
                            buf[i].k = "question" /\ buf[i].n = e.arg}
    BY <1>5 DEF Occurs
  <2>2. buf[MatchPos].k = "question"
    BY <2>1, <1>3
  <2> QED BY <2>2, <1>2, <1>5 DEF Matched, e
<1>6. CASE e.name = "cb"
  <2>1. Occurs(e, buf) = {i \in DOMAIN buf :
                            buf[i].k = "cb" /\ buf[i].n = e.arg}
    BY <1>6 DEF Occurs
  <2>2. buf[MatchPos].k = "cb"
    BY <2>1, <1>3
  <2> QED BY <2>2, <1>2, <1>6 DEF Matched, e
<1>7. CASE e.name \notin {"echo", "cb"} /\ ~(e.name = "question" /\ e.arg # 0)
  <2>1. Occurs(e, buf) = IF buf # <<>> /\ buf[Len(buf)].k = e.name
                         THEN {Len(buf)} ELSE {}
    BY <1>7 DEF Occurs
  <2>2. MatchPos = Len(buf) /\ buf[Len(buf)].k = e.name
    BY <2>1, <1>3
  <2> QED BY <2>2, <1>2, <1>7 DEF Matched, e
<1> QED BY <1>2, <1>4, <1>5, <1>6, <1>7 DEF e

(* The buffer around the match. *)
LEMMA AroundMatch ==
  ASSUME IInv, HasMatch
  PROVE  /\ MatchPos \in 1..Len(buf) /\ MatchPos \in Nat
         /\ Len(buf) \in Nat /\ buf \in Seq(Tokens)
         /\ Before \in Seq(Tokens) /\ Len(Before) = MatchPos - 1
         /\ \A i \in 1..(MatchPos - 1) : Before[i] = buf[i]
         /\ After \in Seq(Tokens) /\ Len(After) = Len(buf) - MatchPos
         /\ \A i \in 1..(Len(buf) - MatchPos) : After[i] = buf[MatchPos + i]
         /\ Range(Before) \subseteq Range(buf)
         /\ Range(After) \subseteq Range(buf)
         /\ Matched \in Range(buf) /\ Matched = buf[MatchPos]
<1>1. MatchPos \in 1..Len(buf) /\ buf \in Seq(Tokens) /\ Len(buf) \in Nat
  BY InvMatch, Typed
<1>2. PICK k \in 0..Len(buf) : k = MatchPos - 1
  BY <1>1
<1>3. PICK m \in 0..Len(buf) : m = MatchPos
  BY <1>1
<1>4. /\ Before = SubSeq(buf, 1, k) /\ Range(Before) \subseteq Range(buf)
      /\ Before \in Seq(Tokens) /\ Len(Before) = k
      /\ \A i \in 1..k : Before[i] = buf[i]
  <2>1. Before = SubSeq(buf, 1, k)
    BY <1>2 DEF Before
  <2>2. /\ SubSeq(buf, 1, k) \in Seq(Tokens) /\ Len(SubSeq(buf, 1, k)) = k
        /\ \A i \in 1..k : SubSeq(buf, 1, k)[i] = buf[i]
    BY <1>1, CutInTwo
  <2>3. Range(SubSeq(buf, 1, k)) \subseteq Range(buf)
    BY <1>1, RangeParts
  <2> QED BY <2>1, <2>2, <2>3
<1>5. /\ After = SubSeq(buf, m + 1, Len(buf))
      /\ Range(After) \subseteq Range(buf)
      /\ After \in Seq(Tokens) /\ Len(After) = Len(buf) - m
      /\ \A i \in 1..(Len(buf) - m) : After[i] = buf[m + i]
  <2>1. After = SubSeq(buf, m + 1, Len(buf))
    BY <1>3 DEF After
  <2>2. LET a == SubSeq(buf, m + 1, Len(buf))
        IN  /\ a \in Seq(Tokens) /\ Len(a) = Len(buf) - m
            /\ \A i \in 1..(Len(buf) - m) : a[i] = buf[m + i]
    BY <1>1, CutInTwo
  <2>3. Range(SubSeq(buf, m + 1, Len(buf))) \subseteq Range(buf)
    BY <1>1, RangeParts
  <2> QED BY <2>1, <2>2, <2>3
<1>6. Matched \in Range(buf) /\ Matched = buf[MatchPos]
  BY <1>1, LenProperties DEF Matched, Range
<1> QED BY <1>1, <1>2, <1>3, <1>4, <1>5, <1>6

(* A command line of the same text is the running command's own. *)
LEMMA EchoIsOwn ==
  ASSUME IInv, SInv, cur # 0, cur \notin Exempt,
         NEW t \in Range(buf) \union Range(wire), IsEcho(t), SameText(t.n)
  PROVE  t.n = cur
<1>1. t.n \in Late
  BY DEF SInv, LateInv
<1>2. cur = Len(issued) /\ cur \in Nat
  BY CurIsLast DEF SInv
<1> SUFFICES ASSUME t.n # cur PROVE FALSE
  OBVIOUS
<1>3. t.n \in 1..(cur - 1) /\ t.n + 1 \notin Sound
  BY <1>1, <1>2 DEF Late
<1>4. issued[t.n] = issued[cur] /\ cur \in 1..Len(issued)
  BY <1>2 DEF SameText
<1> QED BY <1>3, <1>4 DEF Exempt

(* Before the terminal has begun with the command there is none. *)
LEMMA NoEchoYet ==
  ASSUME IInv, SInv, cur # 0, cur \notin Exempt, NotBegun,
         NEW t \in Range(buf) \union Range(wire), IsEcho(t)
  PROVE  ~SameText(t.n)
BY EchoIsOwn DEF NotBegun

(* Behind the echo there is none either. *)
LEMMA OwedNoEcho ==
  ASSUME NEW rest \in Seq(Tokens), Owed(rest), NEW i \in 1..Len(rest)
  PROVE  ~IsEcho(rest[i])
<1>1. CASE AnswerWaits(rest)
  BY <1>1, EmptySeq DEF AnswerWaits
<1>2. CASE ~AnswerWaits(rest)
  <2>1. PICK o \in Seq(Tokens) :
          Body(o) /\ (Running(o, rest) \/ Asking(o, rest) \/ Over(o, rest))
    BY <1>2 DEF Owed
  <2>2. \A j \in 1..Len(o) : ~IsEcho(o[j])
    BY <2>1, LenProperties DEF Body, Range, IsEcho
  <2>3. CASE Running(o, rest)
    BY <2>2, <2>3 DEF Running
  <2>4. CASE Asking(o, rest) \/ Over(o, rest)
    <3>1. PICK t : ~IsEcho(t) /\ rest = Append(o, t)
      BY <2>4 DEF Asking, Over, IsEcho, AskKinds, Token
    <3>2. /\ Len(o) \in Nat /\ Len(rest) = Len(o) + 1
          /\ \A j \in 1..Len(o) : rest[j] = o[j]
          /\ rest[Len(o) + 1] = t
      BY <3>1, LenProperties
    <3> QED BY <3>1, <3>2, <2>2
  <2> QED BY <2>1, <2>3, <2>4
<1> QED BY <1>1, <1>2

(* So the echo that the client looks for is at one place only. *)
LEMMA EchoPlace ==
  ASSUME IInv, SInv, cur # 0, cur \notin Exempt, ~seenEcho,
         NEW p \in 0..Len(Ahead), EchoAt(p),
         NEW rest \in Seq(Tokens), Owed(rest),
         rest = SubSeq(Ahead, p + 1, Len(Ahead)),
         NEW i \in 1..Len(Ahead)
  PROVE  IsEcho(Ahead[i]) /\ SameText(Ahead[i].n) <=> i = p
<1>1. /\ p \in 1..Len(Ahead)
      /\ IsEcho(Ahead[p]) /\ Ahead[p].n = cur
      /\ \A j \in 1..(p - 1) : IsEcho(Ahead[j]) => Ahead[j].n # cur
  BY DEF EchoAt
<1>2. SameText(cur)
  BY DEF SameText
<1>3. ASSUME IsEcho(Ahead[i]), SameText(Ahead[i].n) PROVE i = p
  <2>1. Ahead[i] \in Range(buf) \union Range(wire)
    BY AheadFacts
  <2>2. Ahead[i].n = cur
    BY <2>1, <1>3, EchoIsOwn
  <2>3. ~(i < p)
    <3>1. i < p => i \in 1..(p - 1)
      BY AheadFacts
    <3> QED BY <3>1, <2>2, <1>1, <1>3
  <2>4. ~(i > p)
    <3> SUFFICES ASSUME i > p PROVE FALSE
      OBVIOUS
    <3>1. /\ Len(rest) = Len(Ahead) - p
          /\ \A j \in 1..(Len(Ahead) - p) : rest[j] = Ahead[p + j]
      <4>1. Ahead \in Seq(Tokens)
        BY AheadFacts
      <4>2. LET b == SubSeq(Ahead, p + 1, Len(Ahead))
            IN  /\ Len(b) = Len(Ahead) - p
                /\ \A j \in 1..(Len(Ahead) - p) : b[j] = Ahead[p + j]
        BY <4>1, CutInTwo
      <4> QED BY <4>2
    <3>2. i - p \in 1..Len(rest) /\ p + (i - p) = i
      BY <3>1, AheadFacts
    <3>3. rest[i - p] = Ahead[i]
      BY <3>1, <3>2
    <3> QED BY <3>2, <3>3, <1>3, OwedNoEcho
  <2> QED BY <2>3, <2>4, AheadFacts
<1> QED BY <1>1, <1>2, <1>3

(* What an expression other than the echo matches behind the echo is what the
   terminal stopped for, and the output of the command is before it. *)
LEMMA Stops ==
  ASSUME IInv, SInv, cur # 0, HasMatch, exprs[MatchId].name # "echo",
         NEW p \in 0..Len(Ahead), p < MatchPos,
         NEW rest \in Seq(Tokens), Owed(rest),
         rest = SubSeq(Ahead, p + 1, Len(Ahead))
  PROVE  /\ MatchPos = Len(buf) /\ After = <<>> /\ wire = <<>> /\ inq = <<>>
         /\ \E o \in Seq(Tokens) :
              /\ Body(o) /\ Len(o) = MatchPos - 1 - p
              /\ \A i \in 1..Len(o) : o[i] = buf[p + i]
              /\ \/ /\ dev.st = "ask" /\ Matched.k \in AskKinds
                    /\ said[cur] = [kept   |-> IF Matched.k = "pager"
                                               THEN page \o o ELSE page,
                                    recent |-> <<>>]
                 \/ /\ dev.st \in {"prompt", "login"} /\ Matched.k = dev.st
                    /\ said[cur] = [kept |-> page, recent |-> o]
<1>1. /\ MatchPos \in 1..Len(buf) /\ MatchPos \in Nat /\ Len(buf) \in Nat
      /\ Matched = buf[MatchPos]
  BY AroundMatch
<1>2. Matched.k \notin {"out", "err"}
  BY MatchKind DEF Names
<1>3. /\ Len(Ahead) = Len(buf) + Len(wire) /\ Len(wire) \in Nat
      /\ Ahead \in Seq(Tokens)
      /\ \A i \in 1..Len(buf) : Ahead[i] = buf[i]
  BY AheadFacts
<1>4. /\ Len(rest) = Len(Ahead) - p
      /\ \A i \in 1..(Len(Ahead) - p) : rest[i] = Ahead[p + i]
  BY <1>3, CutInTwo
<1> DEFINE m == MatchPos - p
<1>5. m \in 1..Len(rest) /\ p + m = MatchPos
  BY <1>1, <1>3, <1>4
<1>6. rest[m] = Matched
  <2>1. rest[m] = Ahead[p + m]
    BY <1>4, <1>5
  <2> QED BY <2>1, <1>1, <1>3, <1>5
<1> HIDE DEF m
<1>7. PICK o \in Seq(Tokens) :
        Body(o) /\ (Running(o, rest) \/ Asking(o, rest) \/ Over(o, rest))
  <2>1. ~AnswerWaits(rest)
    <3>1. rest = <<>> => Len(rest) = 0
      BY EmptySeq
    <3> QED BY <3>1, <1>5 DEF AnswerWaits
  <2> QED BY <2>1 DEF Owed
<1>8. \A i \in 1..Len(o) : o[i].k \in {"out", "err"}
  BY <1>7, LenProperties DEF Body, Range
<1>9. ~Running(o, rest)
  BY <1>2, <1>5, <1>6, <1>8 DEF Running
<1>10. PICK t : rest = Append(o, t)
                /\ \/ /\ t.k \in AskKinds /\ dev.st = "ask" /\ inq = <<>>
                      /\ said[cur] = [kept   |-> IF t.k = "pager"
                                                 THEN page \o o ELSE page,
                                      recent |-> <<>>]
                   \/ /\ dev.st \in {"prompt", "login"} /\ inq = <<>>
                      /\ t.k = dev.st
                      /\ said[cur] = [kept |-> page, recent |-> o]
  <2>1. CASE Asking(o, rest)
    BY <2>1 DEF Asking
  <2>2. CASE Over(o, rest)
    <3>1. Token(dev.st, 0, 0).k = dev.st
      BY DEF Token
    <3> QED BY <2>2, <3>1 DEF Over
  <2> QED BY <2>1, <2>2, <1>7, <1>9
<1>11. /\ Len(o) \in Nat /\ Len(rest) = Len(o) + 1
       /\ \A i \in 1..Len(o) : rest[i] = o[i]
       /\ rest[Len(o) + 1] = t
  <2>1. rest = Append(o, t)
    BY <1>10
  <2>2. /\ Len(o) \in Nat /\ Len(Append(o, t)) = Len(o) + 1
        /\ \A i \in 1..Len(o) : Append(o, t)[i] = o[i]
        /\ Append(o, t)[Len(o) + 1] = t
    BY Longer
  <2> QED BY <2>1, <2>2
<1>12. m = Len(o) + 1 /\ t = Matched
  <2>1. m \notin 1..Len(o)
    BY <1>2, <1>6, <1>8, <1>11
  <2>2. m = Len(o) + 1
    BY <2>1, <1>5, <1>11
  <2>3. rest[m] = t
    BY ONLY <2>2, <1>11
  <2> QED BY <2>2, <2>3, <1>6
<1>13. Len(wire) = 0 /\ MatchPos = Len(buf) /\ Len(o) = MatchPos - 1 - p
  BY <1>1, <1>3, <1>4, <1>5, <1>11, <1>12
<1>14. wire = <<>> /\ After = <<>>
  <2>1. Len(After) = 0 /\ After \in Seq(Tokens)
    BY <1>1, <1>13, AroundMatch
  <2> QED BY <2>1, <1>13, Typed, EmptySeq
<1>15. ASSUME NEW i \in 1..Len(o) PROVE o[i] = buf[p + i]
  <2>1. i \in 1..(Len(Ahead) - p) /\ p + i \in 1..Len(buf)
    BY <1>1, <1>3, <1>4, <1>11, <1>13
  <2>2. rest[i] = Ahead[p + i] /\ Ahead[p + i] = buf[p + i]
    BY <2>1, <1>3, <1>4
  <2> QED BY <2>2, <1>11
<1> QED BY <1>7, <1>10, <1>12, <1>13, <1>14, <1>15

(* Once the echo was seen the terminal has begun with the command. *)
LEMMA SeenBegun ==
  ASSUME IInv, SInv, cur # 0, cur \notin Exempt, seenEcho
  PROVE  /\ Begun /\ Owed(Ahead) /\ Ahead \in Seq(Tokens) /\ EchoAt(0)
         /\ 0 \in 0..Len(Ahead) /\ Ahead = SubSeq(Ahead, 0 + 1, Len(Ahead))
<1>1. Begun
  BY DEF SInv, CallInv, InLine, LoggedOut, NotBegun
<1>2. PICK p \in 0..Len(Ahead), rest \in Seq(Tokens) :
        /\ EchoAt(p) /\ Owed(rest)
        /\ rest = SubSeq(Ahead, p + 1, Len(Ahead))
  BY <1>1 DEF Begun
<1>3. p = 0
  BY <1>2 DEF EchoAt
<1>4. Ahead \in Seq(Tokens) /\ Len(Ahead) \in Nat
  BY AheadFacts
<1>5. SubSeq(Ahead, 1, Len(Ahead)) = Ahead
  BY <1>4, SubSeqFull
<1>6. rest = Ahead
  BY <1>2, <1>3, <1>5
<1> QED BY <1>1, <1>2, <1>3, <1>4, <1>5, <1>6

(* A step that changes neither side's state leaves what is owed. *)
LEMMA OwedKept ==
  ASSUME NEW rest \in Seq(Tokens), Owed(rest),
         UNCHANGED <<inq, dev, cur, page, said>>,
         seenEcho => seenEcho'
  PROVE  Owed(rest)'
BY DEF Owed, Body, Running, Asking, Over, AnswerWaits

(* The client has answered what the terminal stopped for. *)
LEMMA AnswerWritten ==
  ASSUME IInv, NEW x \in Inputs, x.k # "cmd", Writes(x),
         seenEcho', cur' = cur, dev.n = cur, buf' = <<>>, wire = <<>>,
         dev.st = "ask", inq = <<>>,
         said[cur] = [kept |-> page', recent |-> <<>>],
         \A t \in Range(page') : t.n = cur
  PROVE  Begun'
<1>1. inq' = Append(inq, x)
  BY DEF Writes
<1>2. UNCHANGED <<dev, wire, said>>
  BY DEF Writes
<1>3. Len(inq') = 1 /\ inq'[1] = x
  BY <1>1
<1>4. AnswerWaits(<<>>)'
  BY <1>1, <1>2, <1>3 DEF AnswerWaits
<1>5. Owed(<<>>)' /\ <<>> \in Seq(Tokens)
  BY <1>4, EmptySeq DEF Owed
<1>6. Ahead' = <<>>
  <2>1. <<>> \o <<>> = <<>>
    BY EmptySeq, ConcatEmptySeq
  <2> QED BY <2>1, <1>2 DEF Ahead
<1>7. 0 \in 0..Len(Ahead') /\ <<>> = SubSeq(Ahead', 0 + 1, Len(Ahead'))
  BY <1>6, SubSeqEmpty
<1>8. EchoAt(0)'
  BY DEF EchoAt
<1> QED BY <1>2, <1>5, <1>7, <1>8 DEF Begun

-----------------------------------------------------------------------------
(* The turns of the loop *)

(* What the turns take out of the buffer. *)
LEMMA BufferShrinks ==
  ASSUME IInv, HasMatch, wire' = wire
  PROVE  /\ buf' = After => Fewer
         /\ buf' = Before \o After => Fewer
<1>1. /\ Range(Before) \subseteq Range(buf)
      /\ Range(After) \subseteq Range(buf)
      /\ Before \in Seq(Tokens) /\ After \in Seq(Tokens)
  BY AroundMatch
<1>2. Range(Before \o After) = Range(Before) \union Range(After)
  BY <1>1, RangeConcatenation
<1> QED BY <1>1, <1>2 DEF Fewer

(* The terminal has begun with the command that has its text echoed. *)
LEMMA EchoBegun ==
  ASSUME IInv, SInv, cur # 0, cur \notin Exempt,
         NEW i \in 1..Len(buf), IsEcho(buf[i]), SameText(buf[i].n)
  PROVE  Begun
<1>1. buf[i] \in Range(buf)
  BY Typed, LenProperties DEF Range
<1>2. ~NotBegun
  BY <1>1, NoEchoYet
<1> QED BY <1>2 DEF SInv, CallInv, InLine, LoggedOut

(* The echo: what is owed is now all that is on its way. *)
LEMMA SeeEchoStep ==
  ASSUME IInv, SInv, SeeEcho
  PROVE  SInv'
<1> USE DEF SeeEcho
<1>1. cur # 0 /\ HasMatch /\ exprs[MatchId].name = "echo" /\ ~seenEcho
  BY EchoSeenOnce DEF Sees
<1>2. UNCHANGED <<dev, said, swallowed, inq, wire, page, cur>>
  BY DEF termVars, Continue
<1>3. ASSUME cur \notin Exempt PROVE Begun'
  <2>1. /\ MatchPos \in 1..Len(buf) /\ Matched = buf[MatchPos]
        /\ buf \in Seq(Tokens) /\ Len(buf) \in Nat
    BY <1>1, AroundMatch
  <2>2. IsEcho(buf[MatchPos]) /\ SameText(buf[MatchPos].n)
    BY <1>1, <2>1, MatchKind DEF IsEcho
  <2>3. Begun
    BY <1>1, <1>3, <2>1, <2>2, EchoBegun
  <2>4. PICK p \in 0..Len(Ahead), rest \in Seq(Tokens) :
          /\ EchoAt(p) /\ Owed(rest)
          /\ rest = SubSeq(Ahead, p + 1, Len(Ahead))
    BY <2>3 DEF Begun
  <2>5. MatchPos \in 1..Len(Ahead) /\ Ahead[MatchPos] = buf[MatchPos]
    BY <2>1, AheadFacts
  <2>6. MatchPos = p
    BY <1>1, <1>3, <2>2, <2>4, <2>5, EchoPlace
  <2>7. PICK k \in 0..Len(buf) : k = p
    BY <2>1, <2>6
  <2>8. SubSeq(Ahead, k + 1, Len(Ahead)) = SubSeq(buf, k + 1, Len(buf)) \o wire
    <3>1. buf \in Seq(Tokens) /\ wire \in Seq(Tokens)
      BY Typed
    <3>2. SubSeq(buf \o wire, k + 1, Len(buf \o wire))
            = SubSeq(buf, k + 1, Len(buf)) \o wire
      BY <3>1, CutJoined
    <3> QED BY <3>2 DEF Ahead
  <2>9. Ahead' = rest
    <3>1. After = SubSeq(buf, k + 1, Len(buf))
      BY <2>6, <2>7 DEF After
    <3> QED BY <3>1, <2>4, <2>7, <2>8, <1>2 DEF Ahead
  <2>10. /\ Len(Ahead') \in Nat /\ 0 \in 0..Len(Ahead')
         /\ rest = SubSeq(Ahead', 0 + 1, Len(Ahead'))
    <3>1. SubSeq(rest, 1, Len(rest)) = rest /\ Len(rest) \in Nat
      BY SubSeqFull, LenProperties
    <3> QED BY <3>1, <2>9
  <2>11. Owed(rest)'
    BY <1>2, <2>4, OwedKept
  <2>12. EchoAt(0)'
    BY DEF EchoAt
  <2>13. dev'.n = cur' /\ \A t \in Range(page') : t.n = cur'
    BY <1>2, <2>3 DEF Begun
  <2> QED BY <2>10, <2>11, <2>12, <2>13 DEF Begun
<1>4. Fewer
  BY <1>1, <1>2, BufferShrinks
<1> QED BY <1>1, <1>2, <1>3, <1>4, Continued

(* What is behind the last position of the buffer. *)
LEMMA HiddenEchoFacts ==
  ASSUME IInv, SInv, HasMatch, cur # 0, cur \notin Exempt, ~seenEcho,
         NEW newlineAppended \in BOOLEAN,
         HiddenEcho(Before, newlineAppended) # {}
  PROVE  /\ Begun
         /\ \A p \in 0..Len(Ahead), rest \in Seq(Tokens) :
              /\ EchoAt(p) /\ Owed(rest)
              /\ rest = SubSeq(Ahead, p + 1, Len(Ahead))
              => HiddenEcho(Before, newlineAppended) = {p} /\ p < MatchPos
<1> DEFINE H == HiddenEcho(Before, newlineAppended)
<1>1. /\ Before \in Seq(Tokens) /\ Len(Before) = MatchPos - 1
      /\ MatchPos \in 1..Len(buf) /\ Len(buf) \in Nat
      /\ \A i \in 1..(MatchPos - 1) : Before[i] = buf[i]
  BY AroundMatch
<1>2. ASSUME NEW i \in H
      PROVE  /\ i \in 1..(MatchPos - 1) /\ i \in 1..Len(buf)
             /\ i \in 1..Len(Ahead) /\ Ahead[i] = buf[i]
             /\ IsEcho(buf[i]) /\ SameText(buf[i].n)
  <2>1. i \in DOMAIN Before /\ IsEcho(Before[i]) /\ SameText(Before[i].n)
    BY DEF HiddenEcho, IsEcho
  <2>2. i \in 1..(MatchPos - 1) /\ i \in 1..Len(buf)
    BY <2>1, <1>1, LenProperties
  <2> QED BY <2>1, <2>2, <1>1, AheadFacts
<1>3. PICK h : h \in H
  OBVIOUS
<1> HIDE DEF H
<1>4. Begun
  BY <1>2, <1>3, EchoBegun
<1>5. ASSUME NEW p \in 0..Len(Ahead), NEW rest \in Seq(Tokens),
             EchoAt(p), Owed(rest), rest = SubSeq(Ahead, p + 1, Len(Ahead))
      PROVE  H = {p} /\ p < MatchPos
  <2>1. \A i \in H : i = p
    <3> TAKE i \in H
    <3> QED BY <1>2, <1>5, EchoPlace
  <2>2. H = {p}
    BY <2>1, <1>3
  <2> QED BY <2>2, <1>1, <1>2
<1> QED BY <1>4, <1>5 DEF H

(* A match behind the echo, seen or hidden: the terminal has stopped, nothing
   else is on its way, and between the echo and the match is what the command
   has printed. *)
LEMMA Stopped ==
  ASSUME IInv, SInv, cur # 0, cur \notin Exempt, HasMatch,
         exprs[MatchId].name # "echo", NEW newlineAppended \in BOOLEAN,
         seenEcho \/ HiddenEcho(Before, newlineAppended) # {}
  PROVE  /\ After = <<>> /\ wire = <<>> /\ inq = <<>>
         /\ dev.n = cur /\ (\A t \in Range(page) : t.n = cur)
         /\ LET o == IF seenEcho THEN Before
                     ELSE DropEcho(Before, newlineAppended)
            IN  /\ o \in Seq(Tokens) /\ Body(o)
                /\ \/ /\ dev.st = "ask" /\ Matched.k \in AskKinds
                      /\ said[cur] = [kept   |-> IF Matched.k = "pager"
                                                 THEN page \o o ELSE page,
                                      recent |-> <<>>]
                   \/ /\ dev.st \in {"prompt", "login"} /\ Matched.k = dev.st
                      /\ said[cur] = [kept |-> page, recent |-> o]
<1> DEFINE d == IF seenEcho THEN Before ELSE DropEcho(Before, newlineAppended)
<1>1. /\ Before \in Seq(Tokens) /\ Len(Before) = MatchPos - 1
      /\ MatchPos \in 1..Len(buf) /\ Len(buf) \in Nat
      /\ \A i \in 1..(MatchPos - 1) : Before[i] = buf[i]
  BY AroundMatch
<1>2. Begun
  <2>1. CASE seenEcho
    BY <2>1, SeenBegun
  <2>2. CASE ~seenEcho
    BY <2>2, HiddenEchoFacts
  <2> QED BY <2>1, <2>2
<1>3. PICK p \in 0..Len(Ahead), rest \in Seq(Tokens) :
        /\ EchoAt(p) /\ Owed(rest)
        /\ rest = SubSeq(Ahead, p + 1, Len(Ahead))
  BY <1>2 DEF Begun
<1>4. /\ p \in 0..(MatchPos - 1)
      /\ d \in Seq(Tokens) /\ Len(d) = MatchPos - 1 - p
      /\ \A i \in 1..(MatchPos - 1 - p) : d[i] = buf[p + i]
  <2>1. CASE seenEcho
    <3>1. p = 0 /\ d = Before
      BY <2>1, <1>3 DEF EchoAt
    <3> HIDE DEF d
    <3>2. MatchPos - 1 - p = MatchPos - 1
          /\ \A i \in 1..(MatchPos - 1) : p + i = i
      BY <3>1, <1>1
    <3>3. p \in 0..(MatchPos - 1)
      BY <3>1, <1>1
    <3> QED BY <3>1, <3>2, <3>3, <1>1
  <2>2. CASE ~seenEcho
    <3>1. HiddenEcho(Before, newlineAppended) = {p} /\ p < MatchPos
      BY <2>2, <1>3, HiddenEchoFacts
    <3>2. Least({p}) = p
      <4>1. p \in Nat
        BY AheadFacts
      <4>2. {p} \subseteq Nat /\ {p} # {}
        BY <4>1
      <4>3. Least({p}) \in {p}
        BY <4>2, LeastIsLeast
      <4> QED BY <4>3
    <3>3. d = SubSeq(Before, p + 1, Len(Before))
      BY <2>2, <3>1, <3>2 DEF DropEcho
    <3>4. p \in 0..(MatchPos - 1) /\ p \in 0..Len(Before)
      BY <3>1, <1>1, AheadFacts
    <3> DEFINE c == SubSeq(Before, p + 1, Len(Before))
    <3>5. /\ c \in Seq(Tokens) /\ Len(c) = Len(Before) - p
          /\ \A i \in 1..(Len(Before) - p) : c[i] = Before[p + i]
      BY <3>4, <1>1, CutInTwo
    <3>6. d = c
      BY <3>3
    <3> HIDE DEF c, d
    <3>7. ASSUME NEW i \in 1..(MatchPos - 1 - p) PROVE d[i] = buf[p + i]
      <4>1. p + i \in 1..(MatchPos - 1) /\ i \in 1..(Len(Before) - p)
        BY <3>4, <1>1
      <4>2. d[i] = Before[p + i]
        BY <4>1, <3>5, <3>6
      <4> QED BY <4>1, <4>2, <1>1
    <3> QED BY <3>4, <3>5, <3>6, <3>7, <1>1
  <2> QED BY <2>1, <2>2
<1> HIDE DEF d
<1>5. p < MatchPos
  BY <1>1, <1>4
<1>6. /\ After = <<>> /\ wire = <<>> /\ inq = <<>>
      /\ \E o \in Seq(Tokens) :
           /\ Body(o) /\ Len(o) = MatchPos - 1 - p
           /\ \A i \in 1..Len(o) : o[i] = buf[p + i]
           /\ \/ /\ dev.st = "ask" /\ Matched.k \in AskKinds
                 /\ said[cur] = [kept   |-> IF Matched.k = "pager"
                                            THEN page \o o ELSE page,
                                 recent |-> <<>>]
              \/ /\ dev.st \in {"prompt", "login"} /\ Matched.k = dev.st
                 /\ said[cur] = [kept |-> page, recent |-> o]
  BY <1>3, <1>5, Stops
<1>7. PICK o \in Seq(Tokens) :
        /\ Body(o) /\ Len(o) = MatchPos - 1 - p
        /\ \A i \in 1..Len(o) : o[i] = buf[p + i]
        /\ \/ /\ dev.st = "ask" /\ Matched.k \in AskKinds
              /\ said[cur] = [kept   |-> IF Matched.k = "pager"
                                         THEN page \o o ELSE page,
                              recent |-> <<>>]
           \/ /\ dev.st \in {"prompt", "login"} /\ Matched.k = dev.st
              /\ said[cur] = [kept |-> page, recent |-> o]
  BY <1>6
<1>8. o = d
  <2>1. Len(o) = Len(d)
    BY <1>4, <1>7
  <2>2. \A i \in 1..Len(o) : o[i] = d[i]
    BY <1>4, <1>7
  <2> QED BY <2>1, <2>2, <1>4, SeqEqual
<1>9. dev.n = cur /\ \A t \in Range(page) : t.n = cur
  BY <1>2 DEF Begun
<1> QED BY <1>6, <1>7, <1>8, <1>9 DEF d

(* A prompt behind the echo: the result is what the command has printed. *)
LEMMA SeePromptStep ==
  ASSUME IInv, SInv, SeePrompt
  PROVE  SInv'
<1> USE DEF SeePrompt
<1>1. cur # 0 /\ HasMatch /\ exprs[MatchId].name = "prompt"
  BY DEF Sees
<1>2. UNCHANGED <<inq, dev, said, swallowed, wire>>
  BY DEF termVars
<1> DEFINE o    == IF seenEcho THEN Before ELSE DropEcho(Before, TRUE)
           data == page \o o
<1>3. \E r :
        /\ cur' = 0 /\ issued' = issued /\ results' = Append(results, r)
        /\ r.n = cur /\ r.data = data
  <2> DEFINE bad == \E i \in DOMAIN data : data[i].k = "err"
  <2>1. Return(IF bad THEN "failed" ELSE "ok", data)
    OBVIOUS
  <2> HIDE DEF bad, data
  <2>2. PICK st : Return(st, data)
    BY <2>1
  <2>3. PICK r : r = Result(st, data)
    OBVIOUS
  <2>4. cur' = 0 /\ issued' = issued /\ results' = Append(results, r)
    BY <2>2, <2>3 DEF Return
  <2>5. r.n = cur /\ r.data = data
    BY <2>3 DEF Result
  <2> QED BY <2>4, <2>5
<1>4. ASSUME cur \notin Exempt
      PROVE  /\ data = said[cur].kept \o said[cur].recent
             /\ dev.st = "prompt" /\ inq = <<>> /\ After = <<>> /\ wire = <<>>
             /\ \A t \in Range(data) : t.n = cur
  <2>1. seenEcho \/ HiddenEcho(Before, TRUE) # {}
    OBVIOUS
  <2>2. /\ After = <<>> /\ wire = <<>> /\ inq = <<>>
        /\ dev.n = cur /\ (\A t \in Range(page) : t.n = cur)
        /\ o \in Seq(Tokens) /\ Body(o)
        /\ \/ dev.st = "ask" /\ Matched.k \in AskKinds
           \/ /\ dev.st \in {"prompt", "login"} /\ Matched.k = dev.st
              /\ said[cur] = [kept |-> page, recent |-> o]
    BY <1>1, <1>4, <2>1, Stopped
  <2> HIDE DEF o
  <2>3. Matched.k = "prompt"
    BY <1>1, MatchKind
  <2>4. dev.st = "prompt" /\ said[cur] = [kept |-> page, recent |-> o]
    BY <2>2, <2>3 DEF AskKinds
  <2>5. Range(page \o o) = Range(page) \union Range(o)
    BY <2>2, Typed, RangeConcatenation
  <2>6. \A t \in Range(data) : t.n = cur
    BY <2>2, <2>5 DEF Body
  <2>7. data = said[cur].kept \o said[cur].recent
    BY <2>4
  <2> QED BY <2>2, <2>4, <2>6, <2>7
<1> HIDE DEF data
<1>5. cur \in Sound => cur \notin Exempt
  BY SoundNotExempt DEF SInv
<1>6. Fewer
  BY <1>1, <1>2, BufferShrinks
<1>7. PICK r :
        /\ cur' = 0 /\ issued' = issued /\ results' = Append(results, r)
        /\ r.n = cur /\ r.data = data
  BY <1>3
<1> QED BY <1>1, <1>2, <1>4, <1>5, <1>6, <1>7, Returned

(* A step that takes nothing of the command's leaves it in its line. *)
LEMMA LineKept ==
  ASSUME Fewer, UNCHANGED <<seenEcho, page, said, cur, inq, dev>>
  PROVE  /\ InLine => InLine'
         /\ LoggedOut => LoggedOut'
BY DEF Fewer, InLine, LoggedOut, NotBegun

(* The command begins where it did, with what is owed, if a prompt before its
   echo is taken out. *)
LEMMA PromptTaken ==
  ASSUME IInv, SInv, SeePromptBeforeEcho, cur # 0, HasMatch,
         exprs[MatchId].name = "prompt", Begun
  PROVE  Begun'
<1> USE DEF SeePromptBeforeEcho
<1>1. UNCHANGED <<dev, said, inq, wire, page, cur, seenEcho>> /\ ~seenEcho
  BY DEF termVars, Continue
<1>2. /\ MatchPos = Len(buf) /\ Matched.k = "prompt"
      /\ MatchPos \in 1..Len(buf) /\ Len(buf) \in Nat
      /\ Matched = buf[MatchPos]
      /\ Before \in Seq(Tokens) /\ Len(Before) = MatchPos - 1
      /\ \A i \in 1..(MatchPos - 1) : Before[i] = buf[i]
      /\ After \in Seq(Tokens) /\ Len(After) = Len(buf) - MatchPos
  BY MatchKind, AroundMatch
<1>3. buf' = Before
  <2>1. After = <<>>
    BY <1>2, EmptySeq
  <2> QED BY <2>1, <1>2, ConcatEmptySeq
<1>4. PICK p \in 0..Len(Ahead), rest \in Seq(Tokens) :
        /\ EchoAt(p) /\ Owed(rest)
        /\ rest = SubSeq(Ahead, p + 1, Len(Ahead))
  BY DEF Begun
<1>5. /\ p \in 1..Len(Ahead) /\ page = <<>>
      /\ IsEcho(Ahead[p]) /\ Ahead[p].n = cur
      /\ \A i \in 1..(p - 1) : IsEcho(Ahead[i]) => Ahead[i].n # cur
  BY <1>1, <1>4 DEF EchoAt
<1>6. /\ Len(Ahead) = Len(buf) + Len(wire) /\ Len(wire) \in Nat
      /\ Ahead \in Seq(Tokens) /\ wire \in Seq(Tokens)
      /\ \A i \in 1..Len(buf) : Ahead[i] = buf[i]
      /\ \A i \in (Len(buf) + 1)..(Len(buf) + Len(wire)) :
           Ahead[i] = wire[i - Len(buf)]
  <2>1. buf \in Seq(Tokens) /\ wire \in Seq(Tokens)
    BY Typed
  <2> QED BY <2>1, Joined DEF Ahead
<1>7. /\ Ahead' \in Seq(Tokens) /\ Len(Ahead') = Len(Ahead) - 1
      /\ \A i \in 1..(Len(buf) - 1) : Ahead'[i] = Ahead[i]
      /\ \A i \in Len(buf)..(Len(Ahead) - 1) : Ahead'[i] = Ahead[i + 1]
  <2> DEFINE a == Before \o wire
  <2>1. /\ a \in Seq(Tokens) /\ Len(a) = Len(Before) + Len(wire)
        /\ \A i \in 1..Len(Before) : a[i] = Before[i]
        /\ \A i \in (Len(Before) + 1)..(Len(Before) + Len(wire)) :
             a[i] = wire[i - Len(Before)]
    <3>1. Before \in Seq(Tokens) /\ wire \in Seq(Tokens)
      BY <1>2, <1>6
    <3> QED BY ONLY <3>1, Joined
  <2>2. Ahead' = a
    BY <1>1, <1>3 DEF Ahead
  <2> HIDE DEF a
  <2>3. ASSUME NEW i \in 1..(Len(buf) - 1) PROVE a[i] = Ahead[i]
    <3>1. i \in 1..(MatchPos - 1) /\ i \in 1..Len(buf) /\ i \in 1..Len(Before)
      BY <1>2
    <3> QED BY <3>1, <1>2, <1>6, <2>1
  <2>4. ASSUME NEW i \in Len(buf)..(Len(Ahead) - 1) PROVE a[i] = Ahead[i + 1]
    <3>1. /\ i + 1 \in (Len(buf) + 1)..(Len(buf) + Len(wire))
          /\ i \in (Len(Before) + 1)..(Len(Before) + Len(wire))
          /\ (i + 1) - Len(buf) = i - Len(Before)
      BY <1>2, <1>6
    <3>2. Ahead[i + 1] = wire[(i + 1) - Len(buf)]
      BY <3>1, <1>6
    <3>3. a[i] = wire[i - Len(Before)]
      BY <3>1, <2>1
    <3> QED BY <3>1, <3>2, <3>3
  <2> QED BY <2>1, <2>2, <2>3, <2>4, <1>2, <1>6
<1>8. p > Len(buf)
  <2> SUFFICES ASSUME p <= Len(buf) PROVE FALSE
    BY <1>2, <1>5, <1>6
  <2>1. p \in 1..Len(buf) /\ IsEcho(buf[p]) /\ buf[p].n = cur
    BY <1>2, <1>5, <1>6
  <2>2. p # Len(buf)
    BY <2>1, <1>2 DEF IsEcho
  <2>3. p \in 1..(MatchPos - 1) /\ p \in DOMAIN Before /\ Before[p] = buf[p]
    BY <2>1, <2>2, <1>2, LenProperties
  <2>4. p \in HiddenEcho(Before, TRUE)
    BY <2>1, <2>3 DEF HiddenEcho, IsEcho, SameText
  <2> QED BY <2>4
<1>9. PICK q \in Nat : p = q + 1 /\ q >= Len(buf)
  <2>1. p - 1 \in Nat /\ p = (p - 1) + 1 /\ p - 1 >= Len(buf)
    BY <1>2, <1>5, <1>8
  <2> QED BY <2>1
<1>10. q \in 1..Len(Ahead') /\ Len(Ahead') \in Nat /\ q \in 0..Len(Ahead')
  BY <1>2, <1>5, <1>6, <1>7, <1>9
<1>11. EchoAt(q)'
  <2>1. Ahead'[q] = Ahead[p]
    BY <1>2, <1>5, <1>6, <1>7, <1>9
  <2>2. ASSUME NEW i \in 1..(q - 1), IsEcho(Ahead'[i])
        PROVE  Ahead'[i].n # cur
    <3>1. CASE i < Len(buf)
      <4>1. i \in 1..(Len(buf) - 1) /\ i \in 1..(p - 1)
        BY <3>1, <1>2, <1>9
      <4>2. Ahead'[i] = Ahead[i]
        BY <4>1, <1>7
      <4> QED BY <4>1, <4>2, <2>2, <1>5
    <3>2. CASE i >= Len(buf)
      <4>1. i \in Len(buf)..(Len(Ahead) - 1) /\ i + 1 \in 1..(p - 1)
        BY <3>2, <1>2, <1>5, <1>6, <1>9
      <4>2. Ahead'[i] = Ahead[i + 1]
        BY <4>1, <1>7
      <4> QED BY <4>1, <4>2, <2>2, <1>5
    <3> QED BY <3>1, <3>2, <1>2
  <2> QED BY <2>1, <2>2, <1>1, <1>5, <1>10 DEF EchoAt, IsEcho
<1>12. rest = SubSeq(Ahead', q + 1, Len(Ahead'))
  <2> DEFINE new == SubSeq(Ahead', q + 1, Len(Ahead'))
  <2>1. /\ Len(rest) = Len(Ahead) - p
        /\ \A i \in 1..(Len(Ahead) - p) : rest[i] = Ahead[p + i]
    <3>1. LET b == SubSeq(Ahead, p + 1, Len(Ahead))
          IN  /\ Len(b) = Len(Ahead) - p
              /\ \A i \in 1..(Len(Ahead) - p) : b[i] = Ahead[p + i]
      BY <1>6, CutInTwo
    <3> QED BY <3>1, <1>4
  <2>2. /\ new \in Seq(Tokens) /\ Len(new) = Len(Ahead') - q
        /\ \A i \in 1..(Len(Ahead') - q) : new[i] = Ahead'[q + i]
    BY <1>7, <1>10, CutInTwo
  <2> HIDE DEF new
  <2>3. Len(new) = Len(rest) /\ Len(rest) \in Nat
    BY <2>1, <2>2, <1>5, <1>6, <1>7, <1>9, LenProperties
  <2>4. ASSUME NEW i \in 1..Len(rest) PROVE rest[i] = new[i]
    <3>1. /\ i \in 1..(Len(Ahead) - p) /\ i \in 1..(Len(Ahead') - q)
          /\ q + i \in Len(buf)..(Len(Ahead) - 1) /\ (q + i) + 1 = p + i
      BY <2>1, <2>2, <2>3, <1>2, <1>5, <1>6, <1>7, <1>9
    <3>2. rest[i] = Ahead[p + i] /\ new[i] = Ahead'[q + i]
      BY <3>1, <2>1, <2>2
    <3>3. Ahead'[q + i] = Ahead[(q + i) + 1]
      BY <3>1, <1>7
    <3> QED BY <3>1, <3>2, <3>3
  <2>5. rest = new
    BY <2>2, <2>3, <2>4, SeqEqual
  <2> QED BY <2>5 DEF new
<1>13. Owed(rest)'
  BY <1>1, <1>4, OwedKept
<1>14. dev'.n = cur' /\ \A t \in Range(page') : t.n = cur'
  BY <1>1 DEF Begun
<1> QED BY <1>10, <1>11, <1>12, <1>13, <1>14 DEF Begun

(* A prompt before the echo: the bytes before it are read again. *)
LEMMA SeePromptBeforeEchoStep ==
  ASSUME IInv, SInv, SeePromptBeforeEcho
  PROVE  SInv'
<1> USE DEF SeePromptBeforeEcho
<1>1. cur # 0 /\ HasMatch /\ exprs[MatchId].name = "prompt"
  BY DEF Sees
<1>2. UNCHANGED <<dev, said, swallowed, inq, wire, page, cur, seenEcho>>
  BY DEF termVars, Continue
<1>3. Fewer
  BY <1>1, <1>2, BufferShrinks
<1>4. ASSUME cur \notin Exempt PROVE InLine' \/ LoggedOut' \/ Begun'
  <2>1. InLine \/ LoggedOut \/ Begun
    BY <1>1, <1>4 DEF SInv, CallInv
  <2> QED BY <2>1, <1>1, <1>2, <1>3, LineKept, PromptTaken
<1> QED BY <1>1, <1>2, <1>3, <1>4, Continued

(* A turn that ends the call with an error. *)
LEMMA TurnFails ==
  ASSUME IInv, SInv, cur # 0, HasMatch, buf' = After, UNCHANGED termVars,
         \E st \in Outcomes \ Answered : Fail(st)
  PROVE  SInv'
<1>1. UNCHANGED <<dev, said, swallowed, inq, wire>>
  BY DEF termVars
<1>2. Fewer
  BY <1>1, BufferShrinks
<1> QED BY <1>1, <1>2, Failed

(* A write that fails is such a turn. *)
LEMMA WriteFailsStep ==
  ASSUME IInv, SInv, cur # 0, HasMatch, buf' = After, WriteFails
  PROVE  SInv'
<1>1. "write" \in Outcomes \ Answered
  BY DEF Outcomes, Answered
<1> QED BY <1>1, TurnFails DEF WriteFails

(* No echo where one had to be. *)
LEMMA SeeWithoutEchoStep ==
  ASSUME IInv, SInv, SeeWithoutEcho
  PROVE  SInv'
<1>1. "echo" \in Outcomes \ Answered
  BY DEF Outcomes, Answered
<1> QED BY <1>1, TurnFails DEF SeeWithoutEcho

(* The login prompt of a console. *)
LEMMA SeeLoginStep ==
  ASSUME IInv, SInv, SeeLogin
  PROVE  SInv'
<1>1. "eof" \in Outcomes \ Answered
  BY DEF Outcomes, Answered
<1> QED BY <1>1, TurnFails DEF SeeLogin, Sees

(* An answer to what the terminal stopped for. *)
LEMMA AnsweredStep ==
  ASSUME IInv, SInv, cur # 0, HasMatch, exprs[MatchId].name \in AskKinds,
         seenEcho \/ HiddenEcho(Before, FALSE) # {},
         exprs[MatchId].name = "pager" => seenEcho,
         buf' = After, Continue, NEW x \in Inputs, x.k # "cmd", Writes(x),
         seenEcho',
         page' = IF exprs[MatchId].name = "pager" THEN page \o Before ELSE page
  PROVE  SInv'
<1>1. UNCHANGED <<dev, said, swallowed, wire, cur>> /\ inq' = Append(inq, x)
  BY DEF Writes, Continue
<1>2. Fewer
  BY <1>1, BufferShrinks
<1>3. ASSUME cur \notin Exempt PROVE Begun'
  <2> DEFINE o == IF seenEcho THEN Before ELSE DropEcho(Before, FALSE)
  <2>1. exprs[MatchId].name # "echo" /\ Matched.k = exprs[MatchId].name
        /\ exprs[MatchId].name \notin {"prompt", "login"}
    BY MatchKind DEF AskKinds
  <2>2. /\ After = <<>> /\ wire = <<>> /\ inq = <<>>
        /\ dev.n = cur /\ (\A t \in Range(page) : t.n = cur)
        /\ o \in Seq(Tokens) /\ Body(o)
        /\ \/ /\ dev.st = "ask" /\ Matched.k \in AskKinds
              /\ said[cur] = [kept   |-> IF Matched.k = "pager"
                                         THEN page \o o ELSE page,
                              recent |-> <<>>]
           \/ /\ dev.st \in {"prompt", "login"} /\ Matched.k = dev.st
              /\ said[cur] = [kept |-> page, recent |-> o]
    BY <1>3, <2>1, Stopped
  <2>3. exprs[MatchId].name = "pager" => o = Before
    OBVIOUS
  <2> HIDE DEF o
  <2>4. dev.st = "ask" /\ said[cur] = [kept |-> page', recent |-> <<>>]
    BY <2>1, <2>2, <2>3
  <2>5. \A t \in Range(page') : t.n = cur
    <3>1. Range(page \o o) = Range(page) \union Range(o)
      BY <2>2, Typed, RangeConcatenation
    <3>2. page' = page \o o \/ page' = page
      BY <2>3
    <3> QED BY <3>1, <3>2, <2>2 DEF Body
  <2> QED BY <2>2, <2>4, <2>5, <1>1, AnswerWritten
<1> QED BY <1>1, <1>2, <1>3, Continued

(* The pager. *)
LEMMA SeePagerStep ==
  ASSUME IInv, SInv, SeePager
  PROVE  SInv'
<1>1. cur # 0 /\ HasMatch /\ exprs[MatchId].name = "pager" /\ seenEcho
      /\ buf' = After
  BY DEF SeePager, Sees
<1>2. CASE WriteFails
  BY <1>1, <1>2, WriteFailsStep
<1>3. CASE ~WriteFails
  <2>1. /\ Writes(Input("page", 0)) /\ Continue /\ seenEcho'
        /\ page' = page \o Before
    BY <1>1, <1>3 DEF SeePager
  <2>2. /\ Input("page", 0) \in Inputs /\ Input("page", 0).k # "cmd"
        /\ "pager" \in AskKinds
    BY DEF Input, Inputs, AskKinds
  <2> QED BY <1>1, <2>1, <2>2, AnsweredStep
<1> QED BY <1>2, <1>3

(* A question. *)
LEMMA SeeQuestionStep ==
  ASSUME IInv, SInv, SeeQuestion
  PROVE  SInv'
<1>1. cur # 0 /\ HasMatch /\ exprs[MatchId].name = "question"
      /\ (seenEcho \/ HiddenEcho(Before, FALSE) # {}) /\ buf' = After
  BY DEF SeeQuestion, Sees
<1>2. {"question", "repeated"} \subseteq Outcomes \ Answered
  BY DEF Outcomes, Answered
<1>3. \/ WriteFails
      \/ (Fail("question") \/ Fail("repeated")) /\ UNCHANGED termVars
      \/ /\ Writes(Input("answer", Matched.n)) /\ Continue /\ seenEcho'
         /\ page' = page
  BY DEF SeeQuestion
<1>4. CASE WriteFails
  BY <1>1, <1>4, WriteFailsStep
<1>5. CASE (Fail("question") \/ Fail("repeated")) /\ UNCHANGED termVars
  BY <1>1, <1>2, <1>5, TurnFails
<1>6. CASE /\ Writes(Input("answer", Matched.n)) /\ Continue /\ seenEcho'
           /\ page' = page
  <2>1. Matched.n \in Nat
    BY <1>1, InvMatch DEF Tokens
  <2>2. /\ Input("answer", Matched.n) \in Inputs
        /\ Input("answer", Matched.n).k # "cmd" /\ "question" \in AskKinds
    BY <2>1 DEF Input, Inputs, AskKinds
  <2> QED BY <1>1, <1>6, <2>2, AnsweredStep
<1> QED BY <1>3, <1>4, <1>5, <1>6

(* A callback. *)
LEMMA SeeCallbackStep ==
  ASSUME IInv, SInv, SeeCallback
  PROVE  SInv'
<1>1. cur # 0 /\ HasMatch /\ exprs[MatchId].name = "cb" /\ seenEcho
      /\ buf' = After /\ Sees("cb")
  BY DEF SeeCallback, Sees
<1>2. {"cblimit", "cbindex"} \subseteq Outcomes \ Answered
  BY DEF Outcomes, Answered
<1>3. \/ WriteFails
      \/ (Fail("cblimit") \/ Fail("cbindex")) /\ UNCHANGED termVars
      \/ /\ Writes(Input("cb", Callbacks[CbIndex])) /\ Continue /\ seenEcho'
         /\ page' = page
  BY <1>1 DEF SeeCallback
<1>4. CASE WriteFails
  BY <1>1, <1>4, WriteFailsStep
<1>5. CASE (Fail("cblimit") \/ Fail("cbindex")) /\ UNCHANGED termVars
  BY <1>1, <1>2, <1>5, TurnFails
<1>6. CASE /\ Writes(Input("cb", Callbacks[CbIndex])) /\ Continue /\ seenEcho'
           /\ page' = page
  <2>1. Callbacks[CbIndex] \in Nat
    BY <1>1, CallbackPlace, GenericExecuteAssumption, InSeq, LenProperties
  <2>2. /\ Input("cb", Callbacks[CbIndex]) \in Inputs
        /\ Input("cb", Callbacks[CbIndex]).k # "cmd" /\ "cb" \in AskKinds
    BY <2>1 DEF Input, Inputs, AskKinds
  <2> QED BY <1>1, <1>6, <2>2, AnsweredStep
<1> QED BY <1>3, <1>4, <1>5, <1>6

(* Every turn of the loop. *)
LEMMA LoopStep ==
  ASSUME IInv, SInv, Loop
  PROVE  SInv'
BY SeeEchoStep, SeePromptStep, SeePromptBeforeEchoStep, SeeWithoutEchoStep,
   SeePagerStep, SeeQuestionStep, SeeCallbackStep, SeeLoginStep DEF Loop

-----------------------------------------------------------------------------
(* Reads and calls *)

(* Receiving moves what is on its way, and loses nothing. *)
LEMMA Moved ==
  ASSUME IInv, NEW k \in 0..Len(wire),
         buf' = buf \o SubSeq(wire, 1, k),
         wire' = SubSeq(wire, k + 1, Len(wire))
  PROVE  Fewer /\ Ahead' = Ahead
<1>1. buf \in Seq(Tokens) /\ wire \in Seq(Tokens)
  BY Typed
<1> DEFINE a == SubSeq(wire, 1, k)
           b == SubSeq(wire, k + 1, Len(wire))
<1>2. a \in Seq(Tokens) /\ b \in Seq(Tokens) /\ wire = a \o b
  BY <1>1, CutInTwo
<1>3. Range(a) \subseteq Range(wire) /\ Range(b) \subseteq Range(wire)
  BY <1>1, RangeParts
<1>4. buf' = buf \o a /\ wire' = b
  OBVIOUS
<1> HIDE DEF a, b
<1>5. Range(buf \o a) = Range(buf) \union Range(a)
  BY ONLY <1>1, <1>2, RangeConcatenation
<1>6. Fewer
  BY <1>3, <1>4, <1>5 DEF Fewer
<1>7. (buf \o a) \o b = buf \o (a \o b)
  BY ONLY <1>1, <1>2
<1> QED BY <1>2, <1>4, <1>6, <1>7 DEF Ahead

LEMMA ReceiveStep ==
  ASSUME IInv, SInv, Receive
  PROVE  SInv'
<1>1. /\ cur # 0 /\ Continue
      /\ UNCHANGED <<inq, dev, said, swallowed, cur, seenEcho, page>>
  BY DEF Receive, Continue, loopVars
<1>2. Fewer /\ Ahead' = Ahead
  <2>1. PICK k \in 1..Len(wire) :
          /\ buf' = buf \o SubSeq(wire, 1, k)
          /\ wire' = SubSeq(wire, k + 1, Len(wire))
    BY DEF Receive
  <2>2. k \in 0..Len(wire)
    BY Counts
  <2> QED BY <2>1, <2>2, Moved
<1>3. ASSUME Begun PROVE Begun'
  <2>1. PICK p \in 0..Len(Ahead), rest \in Seq(Tokens) :
          /\ EchoAt(p) /\ Owed(rest)
          /\ rest = SubSeq(Ahead, p + 1, Len(Ahead))
    BY <1>3 DEF Begun
  <2>2. Owed(rest)'
    BY <1>1, <2>1, OwedKept
  <2>3. EchoAt(p)'
    BY <1>1, <1>2, <2>1 DEF EchoAt
  <2> QED BY <1>1, <1>2, <1>3, <2>1, <2>2, <2>3 DEF Begun
<1>4. cur \notin Exempt => InLine' \/ LoggedOut' \/ Begun'
  <2>1. cur \notin Exempt => InLine \/ LoggedOut \/ Begun
    BY <1>1 DEF SInv, CallInv
  <2> QED BY <2>1, <1>1, <1>2, <1>3, LineKept
<1> QED BY <1>1, <1>2, <1>4, Continued

(* A read that fails. *)
LEMMA ReadErrorFails ==
  ASSUME NEW status \in {"timeout", "eof"}, NEW lastRead
  PROVE  ReadError(status, lastRead) \in Outcomes \ Answered
BY DEF ReadError, Outcomes, Answered

LEMMA ReadTimesOutStep ==
  ASSUME IInv, SInv, ReadTimesOut
  PROVE  SInv'
<1>1. cur # 0 /\ UNCHANGED <<inq, dev, said, swallowed>>
  BY DEF ReadTimesOut
<1>2. PICK k \in 0..Len(wire) :
        /\ buf' = buf \o SubSeq(wire, 1, k)
        /\ wire' = SubSeq(wire, k + 1, Len(wire))
        /\ Fail(ReadError("timeout", buf'))
  BY DEF ReadTimesOut
<1>3. Fewer
  BY <1>2, Moved
<1>4. \E st \in Outcomes \ Answered : Fail(st)
  BY <1>2, ReadErrorFails
<1> QED BY <1>1, <1>3, <1>4, Failed

LEMMA ReadEOFStep ==
  ASSUME IInv, SInv, ReadEOF
  PROVE  SInv'
<1>1. cur # 0 /\ UNCHANGED <<inq, dev, said, swallowed, wire>> /\ buf' = <<>>
  BY DEF ReadEOF, termVars
<1>2. Fewer
  BY <1>1 DEF Fewer, Range
<1>3. \E st \in Outcomes \ Answered : Fail(st)
  BY ReadErrorFails DEF ReadEOF
<1> QED BY <1>1, <1>2, <1>3, Failed

(* A call adds a command and an empty history. *)
LEMMA NewCommand ==
  ASSUME IInv, CountInv, cur = 0, NEW text, NEW n, n = Len(issued) + 1,
         issued' = Append(issued, text), said' = Append(said, NothingSaid)
  PROVE  /\ Len(issued') = n /\ Len(said') = n /\ Len(said) = Len(issued)
         /\ \A m \in 1..Len(issued) : said'[m] = said[m]
         /\ said'[n] = NothingSaid /\ Len(issued) \in Nat
         /\ Len(results) = Len(issued) /\ dev.n <= Len(issued)
<1>1. issued \in Seq(Texts) /\ said \in Seq(Saids)
  BY Typed, SMTT(30)
<1>2. /\ Len(issued) \in Nat /\ Len(results) \in Nat
      /\ Len(said) = Len(issued) /\ dev.n <= Len(issued)
      /\ \/ Len(results) = Len(issued)
         \/ 0 = Len(issued) /\ Len(results) + 1 = Len(issued)
  BY Counts DEF CountInv
<1>3. Len(results) = Len(issued)
  BY ONLY <1>2
<1>4. Len(issued') = Len(issued) + 1
  BY <1>1, Longer
<1>5. /\ Len(said') = Len(said) + 1
      /\ \A m \in 1..Len(said) : said'[m] = said[m]
      /\ said'[Len(said) + 1] = NothingSaid
  BY <1>1, Longer
<1> QED BY <1>2, <1>3, <1>4, <1>5

(* Between calls every late command has returned. *)
LEMMA LateHasReturned ==
  ASSUME IInv, SInv, cur = 0,
         results' = results \/ (\E r : results' = Append(results, r)),
         NEW text \in Texts, issued' = Append(issued, text)
  PROVE  /\ Late \subseteq Late'
         /\ \A n \in Late : n \in 1..Len(issued)
         /\ \A t \in Range(buf) \union Range(wire) :
              IsEcho(t) => t.n \in Late
         /\ \A i \in DOMAIN inq : inq[i].k = "cmd" => inq[i].n \in Late
<1>1. \A n \in Late : n \in 1..Len(issued) /\ n # cur
  BY Counts DEF Late
<1>2. ASSUME NEW n \in Late PROVE n \in Late'
  BY <1>1, <1>2, LateGrows
<1> QED BY <1>1, <1>2 DEF SInv, LateInv, LineInv

(* A command is written: it is the last one in line. *)
LEMMA ExecuteStep ==
  ASSUME IInv, SInv, NEW text \in Texts, Execute(text)
  PROVE  SInv'
<1> USE DEF Execute, SInv
<1>1. PICK n \in Nat : n = Len(issued) + 1
  BY Counts
<1>2. /\ cur' = n /\ inq' = Append(inq, Input("cmd", n))
      /\ UNCHANGED <<dev, wire, buf, results, swallowed>>
      /\ seenEcho' = FALSE /\ page' = <<>> /\ cur = 0
  BY <1>1 DEF LoopStart
<1>3. /\ Len(issued') = n /\ Len(said') = n /\ Len(said) = Len(issued)
      /\ \A m \in 1..Len(issued) : said'[m] = said[m]
      /\ said'[n] = NothingSaid /\ Len(issued) \in Nat
      /\ Len(results) = Len(issued) /\ dev.n <= Len(issued)
  BY <1>1, <1>2, NewCommand
<1>4. Sound' = Sound
  BY <1>2 DEF Sound, Fresh
<1>5. Exempt \subseteq Exempt'
  BY <1>2, ExemptGrows
<1>6. CountInv'
  BY <1>1, <1>2, <1>3, Counts DEF CountInv
<1>7. /\ Late \subseteq Late'
      /\ \A m \in Late : m \in 1..Len(issued)
      /\ \A t \in Range(buf) \union Range(wire) : IsEcho(t) => t.n \in Late
      /\ \A i \in DOMAIN inq : inq[i].k = "cmd" => inq[i].n \in Late
  BY <1>2, LateHasReturned
<1>8. /\ Len(inq) \in Nat /\ DOMAIN inq = 1..Len(inq)
      /\ DOMAIN inq' = 1..(Len(inq) + 1)
      /\ \A i \in 1..Len(inq) : inq'[i] = inq[i]
      /\ inq'[Len(inq) + 1] = Input("cmd", n)
      /\ Len(inq') = Len(inq) + 1
  <2>1. inq \in Seq(Inputs)
    BY Typed
  <2> QED BY <2>1, <1>2, Longer, Counts
<1>9. LineInv'
  <2> SUFFICES ASSUME NEW i \in DOMAIN inq', inq'[i].k = "cmd"
               PROVE  /\ inq'[i].n \in Late' /\ inq'[i].n > dev'.n
                      /\ \A j \in 1..(i - 1) :
                           inq'[j].k = "cmd" => inq'[j].n < inq'[i].n
    BY DEF LineInv
  <2>1. CASE i \in 1..Len(inq)
    <3>1. inq'[i] = inq[i] /\ \A j \in 1..(i - 1) : inq'[j] = inq[j]
      BY <2>1, <1>8
    <3> QED BY <3>1, <2>1, <1>2, <1>7, <1>8 DEF LateInv, LineInv
  <2>2. CASE i = Len(inq) + 1
    <3>1. inq'[i].n = n
      BY <2>2, <1>8 DEF Input
    <3>2. n \in Late'
      BY <1>1, <1>2, <1>3 DEF Late
    <3>3. n > dev'.n
      BY <1>1, <1>2, <1>3, Counts
    <3>4. ASSUME NEW j \in 1..(i - 1), inq'[j].k = "cmd"
          PROVE  inq'[j].n < n
      <4>1. j \in 1..Len(inq)
        BY <2>2, <1>8
      <4>2. inq[j].n \in 1..Len(issued)
        BY <4>1, <3>4, <1>7, <1>8
      <4> QED BY <4>1, <4>2, <1>1, <1>3, <1>8
    <3> QED BY <3>1, <3>2, <3>3, <3>4
  <2> QED BY <2>1, <2>2, <1>8
<1>10. LateInv'
  <2>1. dev.st \in {"busy", "ask"} => dev.n \in Late'
    BY <1>7 DEF LateInv
  <2> QED BY <2>1, <1>2, <1>7, <1>9 DEF LateInv
<1>11. SwallowInv'
  BY <1>2, <1>4 DEF SwallowInv
<1>12. InLine'
  <2>1. ASSUME NEW t \in Range(buf) \union Range(wire), IsEcho(t)
        PROVE  t.n # n
    BY <2>1, <1>1, <1>3, <1>7
  <2>2. NotBegun'
    BY <2>1, <1>2, <1>3 DEF NotBegun
  <2>3. inq' # <<>>
    BY <1>8, EmptySeq
  <2> QED BY <2>2, <2>3, <1>2, <1>8 DEF InLine
<1>13. ResultInv'
  <2>1. \A j \in DOMAIN results : j \in 1..Len(issued)
    BY <1>3, Counts
  <2> QED BY <2>1, <1>2, <1>3, <1>4, <1>5 DEF ResultInv
<1> QED BY <1>6, <1>10, <1>11, <1>12, <1>13 DEF CallInv

(* The write of a command fails: the call has a result, and no command. *)
LEMMA ExecuteWriteFailsStep ==
  ASSUME IInv, SInv, NEW text \in Texts, ExecuteWriteFails(text)
  PROVE  SInv'
<1> USE DEF ExecuteWriteFails, SInv
<1>1. PICK n \in Nat : n = Len(issued) + 1
  BY Counts
<1>2. PICK r : r = [n |-> n, st |-> "write", data |-> <<>>]
  OBVIOUS
<1>3. /\ UNCHANGED <<inq, dev, wire, buf, swallowed, cur>> /\ cur = 0
      /\ results' = Append(results, r)
      /\ r.n = n /\ r.st \notin Answered
  BY <1>1, <1>2 DEF Answered
<1>4. /\ Len(issued') = n /\ Len(said') = n /\ Len(said) = Len(issued)
      /\ \A m \in 1..Len(issued) : said'[m] = said[m]
      /\ Len(issued) \in Nat
      /\ Len(results) = Len(issued) /\ dev.n <= Len(issued)
  BY <1>1, <1>3, NewCommand
<1>5. /\ DOMAIN results' = 1..n /\ Len(results') = n
      /\ \A j \in 1..Len(issued) : results'[j] = results[j]
      /\ results'[n] = r /\ DOMAIN results = 1..Len(issued)
  <2>1. results \in Seq(Results)
    BY Typed
  <2>2. /\ DOMAIN results' = 1..(Len(results) + 1)
        /\ Len(results') = Len(results) + 1
        /\ \A j \in 1..Len(results) : results'[j] = results[j]
        /\ results'[Len(results) + 1] = r
    BY <2>1, <1>3, Longer
  <2> QED BY <2>2, <1>1, <1>4, Counts
<1>6. Sound' \subseteq Sound /\ Exempt \subseteq Exempt'
  BY <1>3, SoundShrinks, ExemptGrows
<1>7. CountInv'
  <2>1. \A j \in DOMAIN results' : results'[j].n = j
    <3> TAKE j \in DOMAIN results'
    <3>1. j \in 1..Len(issued) \/ j = n
      BY <1>1, <1>4, <1>5
    <3> QED BY <3>1, <1>3, <1>5 DEF CountInv
  <2>2. dev'.n <= n
    BY <1>1, <1>3, <1>4, Counts
  <2> QED BY <2>1, <2>2, <1>3, <1>4, <1>5 DEF CountInv
<1>8. Late \subseteq Late'
  BY <1>3, LateHasReturned
<1>9. LateInv'
  <2>1. LineInv'
    BY <1>3, <1>8 DEF LateInv, LineInv
  <2> QED BY <2>1, <1>3, <1>8 DEF LateInv
<1>10. SwallowInv'
  BY <1>3, <1>6 DEF SwallowInv
<1>11. CallInv'
  BY <1>3 DEF CallInv
<1>12. ResultInv'
  <2>1. ASSUME NEW j \in DOMAIN results', results'[j].st \in Answered
        PROVE  /\ j \in DOMAIN results /\ results'[j] = results[j]
               /\ said'[j] = said[j]
    <3>1. j \in 1..Len(issued) \/ j = n
      BY <1>1, <1>4, <1>5
    <3> QED BY <3>1, <2>1, <1>3, <1>4, <1>5
  <2> QED BY <2>1, <1>6 DEF ResultInv
<1> QED BY <1>7, <1>9, <1>10, <1>11, <1>12

(* Nothing happens. *)
LEMMA Stuttering ==
  ASSUME SInv, UNCHANGED vars
  PROVE  SInv'
<1> USE DEF vars, termVars, loopVars
<1>1. /\ Late' = Late /\ Sound' = Sound /\ Exempt' = Exempt /\ Ahead' = Ahead
  BY DEF Late, Sound, Fresh, Exempt, Ahead
<1>2. CountInv' /\ SwallowInv' /\ ResultInv'
  BY <1>1 DEF SInv, CountInv, SwallowInv, ResultInv
<1>3. LateInv'
  BY <1>1 DEF SInv, LateInv, LineInv
<1>4. CallInv'
  <2>1. (InLine <=> InLine') /\ (LoggedOut <=> LoggedOut')
    BY DEF InLine, LoggedOut, NotBegun
  <2>2. \A p, rest : (EchoAt(p) <=> EchoAt(p)') /\ (Owed(rest) <=> Owed(rest)')
    BY <1>1 DEF EchoAt, Owed, Body, Running, Asking, Over, AnswerWaits
  <2>3. Begun <=> Begun'
    BY <2>2, <1>1 DEF Begun
  <2> QED BY <2>1, <2>3, <1>1 DEF SInv, CallInv
<1> QED BY <1>2, <1>3, <1>4 DEF SInv

-----------------------------------------------------------------------------
(* The invariant *)

(* At first there is no command and nothing on its way. *)
LEMMA SessionStarts == Init => SInv
<1> SUFFICES ASSUME Init PROVE SInv
  OBVIOUS
<1> USE DEF Init, TermInit
<1>1. /\ Len(<<>>) = 0 /\ DOMAIN <<>> = {} /\ Range(<<>>) = {}
  BY EmptySeq DEF Range
<1>2. CountInv
  BY <1>1 DEF CountInv
<1>3. LateInv
  BY <1>1 DEF LateInv, LineInv
<1>4. SwallowInv /\ CallInv /\ ResultInv
  BY <1>1 DEF SwallowInv, CallInv, ResultInv
<1> QED BY <1>2, <1>3, <1>4 DEF SInv

(* Every step of the client and of the terminal. *)
LEMMA SessionStep ==
  ASSUME IInv, SInv, [Next]_vars
  PROVE  SInv'
<1>1. CASE UNCHANGED vars
  BY <1>1, Stuttering
<1>2. ASSUME NEW text \in Texts, Execute(text) \/ ExecuteWriteFails(text)
      PROVE  SInv'
  BY <1>2, ExecuteStep, ExecuteWriteFailsStep
<1>3. CASE Receive \/ Loop \/ ReadTimesOut \/ ReadEOF
  BY <1>3, ReceiveStep, LoopStep, ReadTimesOutStep, ReadEOFStep
<1>4. CASE TermNext /\ UNCHANGED <<cur, issued, buf, loopVars, results>>
  BY <1>4, TermStep DEF ClientStill
<1> QED BY <1>1, <1>2, <1>3, <1>4 DEF Next, Finished

(* The results of a session, and what is on its way to the next one, hold in
   every state that the client and the terminal reach together. *)
LEMMA SessionInductive == Spec => [](IInv /\ SInv)
<1>1. Init => IInv /\ SInv
  BY InitInv, SessionStarts
<1>2. IInv /\ SInv /\ [Next]_vars => (IInv /\ SInv)'
  BY Invariance, SessionStep
<1> QED BY <1>1, <1>2, PTL DEF Spec

(* The result at j is the one of command j. *)
LEMMA ResultNumbers ==
  ASSUME IInv, SInv, NEW j \in DOMAIN results
  PROVE  results[j].n = j /\ j \in Nat /\ j \in 1..Len(results)
<1>1. results[j].n = j
  BY DEF SInv, CountInv
<1>2. DOMAIN results = 1..Len(results) /\ Len(results) \in Nat
  BY Counts
<1>3. j \in 1..Len(results)
  BY <1>2
<1> QED BY <1>1, <1>2, <1>3

(* Execute returns, as long as no call of the session has failed, exactly
   what the device printed for the command, less what it printed right before
   a question or callback: for every way of cutting the stream, every redraw
   of the command line and every quirk of the device. *)
THEOREM ResultsAreExact == Spec => []ResultExact
<1>1. IInv /\ SInv => ResultExact
  <2> SUFFICES ASSUME IInv, SInv, NEW j \in DOMAIN results,
                      results[j].st \in Answered, Fresh(results[j].n)
               PROVE  results[j].data = said[results[j].n].kept
                                          \o said[results[j].n].recent
    BY DEF ResultExact
  <2>1. results[j].n = j /\ j \in Nat
    BY ResultNumbers
  <2>2. j \in Sound
    BY <2>1 DEF Sound
  <2> QED BY <2>1, <2>2 DEF SInv, ResultInv
<1> QED BY <1>1, SessionInductive, PTL

(* After a failed call, too, a result holds no output of another command,
   unless an earlier failed or abandoned command had the same text or the
   device took the command for an answer. *)
THEOREM NoForeignOutputEver == Spec => []NoForeignOutput
<1>1. IInv /\ SInv => NoForeignOutput
  <2> SUFFICES ASSUME IInv, SInv, NEW j \in DOMAIN results,
                      results[j].st \in Answered
               PROVE  LET r == results[j]
                      IN  \/ \A i \in DOMAIN r.data : r.data[i].n = r.n
                          \/ \E m \in 1..(r.n - 1) :
                               issued[m] = issued[r.n] /\ ~Fresh(m + 1)
                          \/ r.n \in swallowed
    BY DEF NoForeignOutput
  <2>1. results[j].n = j /\ j \in Nat
    BY ResultNumbers
  <2>2. CASE j \in Exempt
    <3>1. CASE j \in swallowed
      BY <3>1, <2>1
    <3>2. CASE j \notin swallowed
      <4>1. PICK m \in 1..(j - 1) : issued[m] = issued[j] /\ m + 1 \notin Sound
        BY <3>2, <2>2 DEF Exempt
      <4>2. PICK c \in Nat : c = m + 1
        BY <2>1
      <4>3. ~Fresh(c)
        BY <4>1, <4>2 DEF Sound
      <4>4. ~Fresh(m + 1)
        BY <4>2, <4>3, Zenon
      <4> QED BY <4>1, <4>4, <2>1
    <3> QED BY <3>1, <3>2
  <2>3. CASE j \notin Exempt
    <3>1. \A t \in Range(results[j].data) : t.n = j
      BY <2>3 DEF SInv, ResultInv
    <3> QED BY <3>1, <2>1 DEF Range
  <2> QED BY <2>2, <2>3
<1> QED BY <1>1, SessionInductive, PTL

-----------------------------------------------------------------------------
(* GenericExecute implements CommandSession *)

(* What the device has to say, as CommandSession sees it. *)
Output == [n \in DOMAIN said |-> said[n].kept \o said[n].recent]

(* A function on 1..n is a list of that length. *)
LEMMA ListLength ==
  ASSUME NEW n \in Nat, NEW f, f = [i \in 1..n |-> f[i]]
  PROVE  Len(f) = n
<1>1. f \in [1..n -> {f[i] : i \in 1..n}]
  OBVIOUS
<1>2. f \in Seq({f[i] : i \in 1..n}) /\ DOMAIN f = 1..n
  BY <1>1, IsASeq
<1>3. Len(f) \in Nat /\ DOMAIN f = 1..Len(f)
  BY <1>2, LenProperties
<1>4. [i \in 1..n |-> 0] \in Seq({0}) /\ DOMAIN [i \in 1..n |-> 0] = 1..n
  BY IsASeq
<1>5. Len([i \in 1..n |-> 0]) = n
  OBVIOUS
<1> QED BY <1>2, <1>4, <1>5, SameLength

(* It is a list, with one entry for each command. *)
LEMMA OutputType ==
  ASSUME IInv
  PROVE  /\ Output \in Seq(Seq(Tokens)) /\ Len(Output) = Len(said)
         /\ DOMAIN Output = 1..Len(said)
<1>1. said \in Seq(Saids) /\ Len(said) \in Nat /\ DOMAIN said = 1..Len(said)
  BY Typed
<1>2. ASSUME NEW n \in DOMAIN said
      PROVE  said[n].kept \o said[n].recent \in Seq(Tokens)
  <2>1. said[n] \in Saids
    BY <1>1, InSeq
  <2>2. said[n].kept \in Seq(Tokens) /\ said[n].recent \in Seq(Tokens)
    BY <2>1 DEF Saids
  <2> QED BY <2>2, ConcatProperties
<1>3. Output \in [1..Len(said) -> Seq(Tokens)]
  BY <1>1, <1>2 DEF Output
<1> QED BY <1>1, <1>3, LenProperties, IsASeq

(* A new command has nothing to say yet. *)
LEMMA OutputOfNewCommand ==
  ASSUME IInv, said' = Append(said, NothingSaid)
  PROVE  Output' = Append(Output, <<>>)
<1>1. said \in Seq(Saids) /\ Len(said) \in Nat
  BY Typed
<1>2. /\ Output \in Seq(Seq(Tokens)) /\ Len(Output) = Len(said)
      /\ DOMAIN Output = 1..Len(said)
  BY OutputType
<1>3. /\ DOMAIN said' = 1..(Len(said) + 1)
      /\ \A n \in 1..Len(said) : said'[n] = said[n]
      /\ said'[Len(said) + 1] = NothingSaid
  BY <1>1, Longer
<1>4. /\ DOMAIN Append(Output, <<>>) = 1..(Len(said) + 1)
      /\ \A n \in 1..Len(said) : Append(Output, <<>>)[n] = Output[n]
      /\ Append(Output, <<>>)[Len(said) + 1] = <<>>
  BY <1>2, Longer
<1>5. ASSUME NEW n \in 1..(Len(said) + 1)
      PROVE  Output'[n] = Append(Output, <<>>)[n]
  <2>1. Output'[n] = said'[n].kept \o said'[n].recent
    BY <1>3 DEF Output
  <2>2. CASE n \in 1..Len(said)
    <3>1. Output[n] = said[n].kept \o said[n].recent
      BY <2>2, <1>2 DEF Output
    <3> QED BY <3>1, <2>1, <2>2, <1>3, <1>4
  <2>3. CASE n = Len(said) + 1
    <3>1. <<>> \o <<>> = <<>>
      BY EmptySeq, ConcatEmptySeq
    <3>2. said'[n].kept = <<>> /\ said'[n].recent = <<>>
      BY <2>3, <1>3 DEF NothingSaid
    <3>3. Output'[n] = <<>>
      BY <3>1, <3>2, <2>1
    <3> QED BY <3>3, <2>3, <1>4
  <2>4. n \in 1..Len(said) \/ n = Len(said) + 1
    BY <1>1
  <2> QED BY <2>2, <2>3, <2>4, Zenon
<1> DEFINE a == Append(Output, <<>>)
<1>6. DOMAIN Output' = 1..(Len(said) + 1)
  BY <1>3 DEF Output
<1>7. Output' = [n \in 1..(Len(said) + 1) |-> Output'[n]]
  BY <1>6 DEF Output
<1>8. a = [n \in 1..(Len(said) + 1) |-> a[n]]
  <2>1. a \in Seq(Seq(Tokens))
    BY <1>2, EmptySeq, AppendProperties
  <2>2. a \in [1..Len(a) -> Seq(Tokens)] /\ DOMAIN a = 1..Len(a)
    BY <2>1, LenProperties
  <2> HIDE DEF a
  <2>3. a = [n \in DOMAIN a |-> a[n]]
    BY <2>2
  <2> QED BY <2>3, <1>4 DEF a
<1> QED BY <1>5, <1>7, <1>8

(* Nothing was called yet. *)
LEMMA SessionInit == Init => Session!Init
<1> SUFFICES ASSUME Init PROVE Session!Init
  OBVIOUS
<1>1. Output = <<>>
  BY EmptySeq DEF Init, TermInit, Output
<1> QED BY <1>1 DEF Init, Session!Init, Output

(* A call. *)
LEMMA CallMaps ==
  ASSUME IInv, SInv, NEW text \in Texts,
         Execute(text) \/ ExecuteWriteFails(text)
  PROVE  Session!Call(text)
<1>1. /\ cur = 0 /\ issued' = Append(issued, text)
      /\ said' = Append(said, NothingSaid)
      /\ \/ cur' = Len(issued) + 1 /\ UNCHANGED results
         \/ /\ results' = Append(results, [n |-> Len(issued) + 1,
                                           st |-> "write", data |-> <<>>])
            /\ UNCHANGED cur
  BY DEF Execute, ExecuteWriteFails
<1>2. Output' = Append(Output, <<>>)
  BY <1>1, OutputOfNewCommand
<1>3. "write" \in Outcomes \ Answered
  BY DEF Outcomes, Answered
<1> QED BY <1>1, <1>2, <1>3 DEF Session!Call, Output

(* A session in which every call was answered is not suspect. *)
LEMMA SuspectMeans ==
  ASSUME IInv, SInv, ~Session!Suspect, NEW n \in Nat
  PROVE  n \in Sound
<1>1. ASSUME NEW j \in DOMAIN results PROVE results[j].st \in Answered
  <2>1. results[j] \in Results
    BY Typed, InSeq
  <2>2. results[j].st \in Outcomes
    BY <2>1 DEF Results
  <2> QED BY <2>2 DEF Session!Suspect
<1> QED BY <1>1 DEF Sound, Fresh

(* The terminal works on the running command, or the session is suspect. *)
LEMMA TerminalMaps ==
  ASSUME IInv, SInv, TermNext, ClientStill
  PROVE  Session!DeviceTalks \/ UNCHANGED Session!vars
<1>1. UNCHANGED <<cur, issued, results>>
  BY DEF ClientStill
<1>2. /\ Len(said') = Len(said)
      /\ \A n \in 1..Len(said) :
           said'[n] # said[n] => n = dev.n /\ dev.st = "busy"
  BY TermSaid
<1>3. said \in Seq(Saids) /\ said' \in Seq(Saids)
  BY Typed, TermNextType
     DEF IInv, SessionTypeOK, TermTypeOK, Saids
<1>4. /\ DOMAIN Output = 1..Len(said) /\ Len(Output) = Len(said)
      /\ DOMAIN Output' = 1..Len(said) /\ Len(Output') = Len(said)
      /\ DOMAIN said = 1..Len(said) /\ DOMAIN said' = 1..Len(said)
  <2>1. /\ Len(said) \in Nat /\ DOMAIN said = 1..Len(said)
        /\ DOMAIN said' = 1..Len(said)
    BY <1>2, <1>3, LenProperties
  <2>2. DOMAIN Output = DOMAIN said /\ DOMAIN Output' = DOMAIN said'
    BY DEF Output
  <2>3. /\ Output = [n \in 1..Len(said) |-> Output[n]]
        /\ Output' = [n \in 1..Len(said) |-> Output'[n]]
    BY <2>1 DEF Output
  <2>4. Len(Output) = Len(said) /\ Len(Output') = Len(said)
    BY <2>1, <2>3, ListLength
  <2> QED BY <2>1, <2>2, <2>4
<1>5. CASE UNCHANGED said
  BY <1>1, <1>5 DEF Session!vars
<1>6. CASE ~UNCHANGED said
  <2>1. dev.st = "busy" /\ dev.n \in Late
    <3>1. \E n \in 1..Len(said) : said'[n] # said[n]
      <4> SUFFICES ASSUME \A n \in 1..Len(said) : said'[n] = said[n]
                   PROVE  FALSE
        OBVIOUS
      <4> QED BY <1>2, <1>3, <1>6, SeqEqual
    <3> QED BY <3>1, <1>2 DEF SInv, LateInv
  <2>2. ASSUME NEW n \in 1..Len(said), n # dev.n
        PROVE  Output'[n] = Output[n]
    BY <2>2, <1>2, <1>4 DEF Output
  <2>3. CASE dev.n = cur
    <3>1. cur # 0
      BY <2>1, <2>3 DEF Late
    <3> QED BY <3>1, <2>2, <2>3, <1>1, <1>4 DEF Session!DeviceTalks, Output
  <2>4. CASE dev.n # cur
    <3>1. dev.n + 1 \notin Sound /\ dev.n + 1 \in Nat
      BY <2>1, <2>4, Counts DEF Late
    <3>2. Session!Suspect
      BY <3>1, SuspectMeans
    <3> QED BY <3>2, <1>1, <1>4 DEF Session!DeviceTalks, Output
  <2> QED BY <2>3, <2>4
<1> QED BY <1>5, <1>6

(* A call that returns: what it returns is exact in a sound session because
   the invariant holds after the step. *)
LEMMA ReturnMaps ==
  ASSUME IInv, SInv, SInv', cur # 0, UNCHANGED said,
         NEW status \in Outcomes, NEW data, Return(status, data),
         status \in Answered \/ data = <<>>
  PROVE  Session!Return
<1>1. PICK r : r = Result(status, data)
  OBVIOUS
<1>2. /\ r.n = cur /\ r.st = status /\ r.data = data
      /\ r = [n |-> cur, st |-> status, data |-> data]
  BY <1>1 DEF Result
<1>3. /\ cur' = 0 /\ UNCHANGED issued /\ results' = Append(results, r)
  BY <1>1 DEF Return
<1>4. /\ DOMAIN results' = 1..(Len(results) + 1)
      /\ Len(results') = Len(results) + 1
      /\ \A j \in 1..Len(results) : results'[j] = results[j]
      /\ results'[Len(results) + 1] = r
      /\ Len(results) \in Nat /\ DOMAIN results = 1..Len(results)
  <2>1. results \in Seq(Results)
    BY Typed
  <2> QED BY <2>1, <1>3, Longer, LenProperties
<1>5. /\ cur = Len(results) + 1 /\ cur \in Nat /\ cur \in 1..Len(said)
      /\ DOMAIN said = 1..Len(said)
  <2>1. /\ Len(said) = Len(issued) /\ cur = Len(issued)
        /\ Len(results) + 1 = Len(issued)
    BY DEF SInv, CountInv
  <2>2. DOMAIN said = 1..Len(said)
    BY Counts
  <2>3. cur = Len(results) + 1 /\ Len(said) = cur
    BY ONLY <2>1
  <2>4. cur \in Nat /\ cur \in 1..cur
    BY <2>3, <1>4
  <2>5. cur \in 1..Len(said)
    BY <2>3, <2>4, Zenon
  <2> QED BY <2>2, <2>3, <2>4, <2>5
<1>6. results'[Len(results')] = r
  BY <1>4
<1>7. ASSUME status \in Answered, ~Session!Suspect
      PROVE  data = Output[cur]
  <2>1. cur \in Sound
    BY <1>5, <1>7, SuspectMeans
  <2>2. PICK c \in Nat : c = cur
    BY <1>5
  <2>3. Fresh(c)'
    <3> SUFFICES ASSUME NEW j \in DOMAIN results', results'[j].n < c
                 PROVE  results'[j].st \in Answered
      BY DEF Fresh
    <3>1. results'[j].n = j
      BY DEF SInv, CountInv
    <3>2. j \in 1..Len(results) /\ results'[j] = results[j]
      BY <3>1, <2>2, <1>4, <1>5
    <3> QED BY <3>1, <3>2, <2>1, <2>2, <1>4 DEF Sound, Fresh
  <2>4. c \in Sound'
    BY <2>3 DEF Sound
  <2>5. c \in DOMAIN results' /\ results'[c] = r
    BY <2>2, <1>4, <1>5
  <2>6. r.data = said'[c].kept \o said'[c].recent
    BY <2>4, <2>5, <1>2, <1>7 DEF SInv, ResultInv
  <2> QED BY <2>2, <2>6, <1>2, <1>5 DEF Output
<1>8. Output' = Output
  BY DEF Output
<1>9. /\ status \in Answered \union (Outcomes \ Answered)
      /\ status \in Outcomes \ Answered => r.data = <<>>
      /\ status \in Answered /\ ~Session!Suspect => r.data = Output[cur]
  BY <1>2, <1>7
<1>10. results' = Append(results, [n |-> cur, st |-> status, data |-> r.data])
  BY <1>2, <1>3
<1> QED BY <1>3, <1>6, <1>8, <1>9, <1>10 DEF Session!Return, Output

(* A turn of the loop, or a read that fails, goes on or returns. *)
LEMMA TurnEffect ==
  ASSUME IInv, Loop \/ ReadTimesOut \/ ReadEOF
  PROVE  /\ cur # 0 /\ UNCHANGED said
         /\ \/ Continue
            \/ \E status \in Outcomes : \E data :
                 /\ Return(status, data)
                 /\ status \in Answered \/ data = <<>>
<1> DEFINE Effect ==
      /\ cur # 0 /\ UNCHANGED said
      /\ \/ Continue
         \/ \E status \in Outcomes : \E data :
              Return(status, data) /\ (status \in Answered \/ data = <<>>)
<1>1. ASSUME NEW st \in Outcomes, Fail(st), cur # 0, UNCHANGED said
      PROVE  Effect
  BY <1>1 DEF Fail
<1> HIDE DEF Effect
<1>2. "write" \in Outcomes /\ "echo" \in Outcomes /\ "eof" \in Outcomes
      /\ "question" \in Outcomes /\ "repeated" \in Outcomes
      /\ "cblimit" \in Outcomes /\ "cbindex" \in Outcomes
  BY DEF Outcomes
<1>3. ASSUME NEW x, Writes(x), Continue, cur # 0 PROVE Effect
  BY <1>3 DEF Writes, Effect
<1>4. ASSUME WriteFails, cur # 0 PROVE Effect
  BY <1>1, <1>2, <1>4 DEF WriteFails, termVars
<1>5. ASSUME SeeEcho \/ SeePromptBeforeEcho PROVE Effect
  BY <1>5 DEF SeeEcho, SeePromptBeforeEcho, Sees, termVars, Effect
<1>6. ASSUME SeePrompt PROVE Effect
  <2>1. PICK status \in {"ok", "failed"}, data \in Seq(Tokens) :
           Return(status, data)
    BY <1>6, SeePromptReturns
  <2>2. status \in Outcomes /\ status \in Answered
    BY DEF Outcomes, Answered
  <2>3. cur # 0 /\ UNCHANGED said
    BY <1>6 DEF SeePrompt, Sees, termVars
  <2> QED BY <2>1, <2>2, <2>3 DEF Effect
<1>7. ASSUME SeeWithoutEcho \/ SeeLogin PROVE Effect
  BY <1>1, <1>2, <1>7 DEF SeeWithoutEcho, SeeLogin, Sees, termVars
<1>8. ASSUME SeePager PROVE Effect
  <2>1. cur # 0
        /\ (WriteFails \/ (Writes(Input("page", 0)) /\ Continue))
    BY <1>8 DEF SeePager, Sees
  <2> QED BY <2>1, <1>3, <1>4
<1>9. ASSUME SeeQuestion PROVE Effect
  <2>1. /\ cur # 0
        /\ \/ WriteFails
           \/ Writes(Input("answer", Matched.n)) /\ Continue
           \/ (Fail("question") \/ Fail("repeated")) /\ UNCHANGED said
    BY <1>9 DEF SeeQuestion, Sees, termVars
  <2> QED BY <2>1, <1>1, <1>2, <1>3, <1>4
<1>10. ASSUME SeeCallback PROVE Effect
  <2>1. /\ cur # 0
        /\ \/ WriteFails
           \/ Writes(Input("cb", Callbacks[CbIndex])) /\ Continue
           \/ (Fail("cblimit") \/ Fail("cbindex")) /\ UNCHANGED said
    BY <1>10 DEF SeeCallback, Sees, termVars
  <2> QED BY <2>1, <1>1, <1>2, <1>3, <1>4
<1>11. ASSUME ReadTimesOut \/ ReadEOF PROVE Effect
  <2>1. /\ cur # 0 /\ UNCHANGED said
        /\ \/ Fail(ReadError("timeout", buf')) \/ Fail(ReadError("eof", buf))
    BY <1>11 DEF ReadTimesOut, ReadEOF, termVars
  <2>2. ReadError("timeout", buf') \in Outcomes
        /\ ReadError("eof", buf) \in Outcomes
    BY ReadErrorType
  <2> QED BY <2>1, <2>2, <1>1
<1> QED BY <1>5, <1>6, <1>7, <1>8, <1>9, <1>10, <1>11 DEF Loop, Effect

(* Every step maps to a step of CommandSession or to a stutter. *)
LEMMA StepMaps ==
  ASSUME IInv, SInv, [Next]_vars
  PROVE  [Session!Next]_(Session!vars)
<1>1. SInv'
  BY SessionStep
<1>2. ASSUME NEW text \in Texts, Execute(text) \/ ExecuteWriteFails(text)
      PROVE  Session!Next
  BY <1>2, CallMaps DEF Session!Next
<1>3. ASSUME Continue, UNCHANGED said PROVE UNCHANGED Session!vars
  BY <1>3 DEF Continue, Session!vars
<1>4. CASE UNCHANGED vars
  BY <1>3, <1>4 DEF vars, termVars, Continue
<1>5. CASE Receive
  BY <1>3, <1>5 DEF Receive
<1>6. CASE Loop \/ ReadTimesOut \/ ReadEOF
  <2>1. CASE Continue
    BY <2>1, <1>3, <1>6, TurnEffect
  <2>2. CASE ~Continue
    <3>1. Session!Return
      BY <2>2, <1>1, <1>6, TurnEffect, ReturnMaps
    <3> QED BY <3>1 DEF Session!Next
  <2> QED BY <2>1, <2>2
<1>7. CASE TermNext /\ UNCHANGED <<cur, issued, buf, loopVars, results>>
  BY <1>7, TerminalMaps DEF ClientStill, Session!Next
<1> QED BY <1>2, <1>4, <1>5, <1>6, <1>7 DEF Next, Finished

(* GenericExecute implements CommandSession: every call returns once and in
   order, with exactly the output of its command while no call has failed,
   and then nothing of a finished command is still to come. *)
THEOREM ImplementsCommandSession == Spec => ImplementsSession
<1>1. IInv /\ SInv /\ [Next]_vars => [Session!Next]_(Session!vars)
  BY StepMaps
<1> QED BY <1>1, SessionInit, SessionInductive, PTL
        DEF Spec, ImplementsSession, Session!Spec

=============================================================================
