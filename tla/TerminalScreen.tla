---------------------------- MODULE TerminalScreen ----------------------------
(***************************************************************************)
(* package terminal (parser.go): Parse evaluates control sequences in      *)
(* place, by cutting them and what they erase out of the data that it is   *)
(* reading.  Positions are 1-based: pos counts the bytes consumed.         *)
(* Shown is what the same output comes to without any cutting.             *)
(***************************************************************************)
EXTENDS Naturals, Integers, SequencesExt, FiniteSetsExt

CONSTANTS Phrases,    \* what a device prints: sequences of bytes
          MaxPhrases  \* bound: how many of them

VARIABLES printed,     \* the phrases
          data, pos,   \* of the Parser
          lastNewline, \* 0 when there is none
          status       \* "parses", "done", "error" or "panics"

screenVars == <<printed, data, pos, lastNewline, status>>

Parameters == {"0", "1", "2", "?"}
Intermediates == {" "}

Bytes == UNION {Range(p) : p \in Phrases}

ScreenInit ==
  /\ printed \in UNION {[1..k -> Phrases] : k \in 0..MaxPhrases}
  /\ \A k \in 1..(Len(printed) - 1) : printed[k] # <<"ESC">>  \* cut off
  /\ data = FlattenSeq(printed) /\ data \in Seq(Bytes)
  /\ pos = 0 /\ lastNewline = 0 /\ status = "parses"

\* sliceEdit
Without(begin, finish) ==
  SubSeq(data, 1, begin - 1) \o SubSeq(data, finish + 1, Len(data))

Parses == status = "parses" /\ pos < Len(data)
Here == pos + 1
Byte(i) == IF i <= Len(data) THEN data[i] ELSE "end"

Continue(newData, consumed) ==
  /\ data' = newData /\ pos' = consumed
  /\ UNCHANGED <<printed, lastNewline, status>>
Ends(how) ==
  /\ status' = how /\ UNCHANGED <<printed, data, pos, lastNewline>>

---------------------------------------------------------------------------
\* ESC and one byte, of which only ESC > is known.
ShortEscape ==
  /\ Parses /\ Byte(Here) = "ESC" /\ Byte(Here + 1) # "["
  /\ CASE Byte(Here + 1) = "end" -> Ends("error")
       [] Byte(Here + 1) = ">" -> Continue(Without(Here, Here + 1), pos)
       [] OTHER -> Continue(data, pos + 2)

\* The first byte at or after i that is not in S.
After(S, i) == Min({k \in i..(Len(data) + 1) : Byte(k) \notin S})

\* strconv.Atoi of the parameters, or -1
Atoi(s) ==
  LET value == [d \in {"0", "1", "2"} |-> CASE d = "0" -> 0 [] d = "1" -> 1
                                            [] d = "2" -> 2]
  IN IF s = <<>> \/ Range(s) \ DOMAIN value # {} THEN -1
     ELSE FoldLeft(LAMBDA n, d : 10 * n + value[d], 0, s)

\* CSI: its parameters and its final byte, which stands at the end.
End == After(Intermediates, After(Parameters, Here + 2))
Final == Byte(End)
Parameter == SubSeq(data, Here + 2, After(Parameters, Here + 2) - 1)
Left == IF Atoi(Parameter) = 0 THEN 1 ELSE Atoi(Parameter)
Csi == Parses /\ Byte(Here) = "ESC" /\ Byte(Here + 1) = "["

\* CUB: erases to the left, but not behind the last newline.
CursorBack ==
  /\ Csi /\ Final = "D"
  /\ IF Left \notin Nat THEN Ends("error")
     ELSE LET begin == IF lastNewline + 1 > Here - Left THEN lastNewline + 1
                       ELSE Here - Left
          IN Continue(Without(begin, End), begin - 1)

\* ELINE, SGR; CUP, ED; and the private modes with parameter ?1.
Known == Final \in {"K", "H"} \/ (Final = "l" /\ Parameter = <<"?", "1">>)
Ignored ==
  /\ Csi /\ Known
  /\ Continue(Without(Here, End), pos)

\* No final byte, or one that is not known.
Unknown ==
  /\ Csi /\ Final # "D" /\ ~Known
  /\ Ends("error")

Newlines(n) == {i \in 1..n : data[i] = "NL"}

\* RETURN: what the line shows so far goes, and the newline before it is
\* read once more; a return before a newline or another return stays.
Return ==
  /\ Parses /\ Byte(Here) = "CR"
  /\ IF Byte(Here + 1) \in {"NL", "CR"} THEN Continue(data, Here)
     ELSE IF Newlines(pos) = {} THEN Continue(Without(1, Here), 0)
     ELSE Continue(Without(Max(Newlines(pos)) + 1, Here),
                   Max(Newlines(pos)) - 1)

\* A mutation: the limit is the start of the data, not of the line.
BackspaceAnywhere ==
  /\ Parses /\ Byte(Here) = "BS"
  /\ IF pos = 0 THEN Ends("panics")
     ELSE Continue(Without(pos, Here), pos - 1)

\* BS: with nothing before it, slices.Delete panics.
Backspace ==
  /\ Parses /\ Byte(Here) = "BS"
  /\ IF pos = 0 THEN Ends("panics")
     ELSE IF data[pos] = "NL" THEN Continue(Without(Here, Here), pos)
     ELSE Continue(Without(pos, Here), pos - 1)

Newline ==
  /\ Parses /\ Byte(Here) = "NL"
  /\ pos' = Here /\ lastNewline' = Here
  /\ UNCHANGED <<printed, data, status>>

Other ==
  /\ Parses /\ Byte(Here) \notin {"ESC", "CR", "BS", "NL"}
  /\ Continue(data, Here)

\* The end of ParseDropLastReturn: a line that ends with a return goes.
Parsed ==
  /\ status = "parses" /\ pos >= Len(data)
  /\ LET n == Len(data)
     IN data' = IF n = 0 \/ Byte(n) # "CR" THEN data
                ELSE IF Newlines(n) = {} THEN <<>>
                ELSE SubSeq(data, 1, Max(Newlines(n)))
  /\ status' = "done" /\ UNCHANGED <<printed, pos, lastNewline>>

ScreenNext == \/ ShortEscape \/ CursorBack \/ Ignored \/ Unknown \/ Return
              \/ Backspace \/ Newline \/ Other \/ Parsed
ScreenSpec == ScreenInit /\ [][ScreenNext]_screenVars

---------------------------------------------------------------------------
(* What the phrases show: lines that are over, and the line that is        *)
(* printed.  A phrase is one character, one sequence or ESC with a byte.   *)

Shorter(s, k) == SubSeq(s, 1, Len(s) - k)
Show(shown, k) ==
  LET p == printed[k]
      follows == IF k < Len(printed) THEN printed[k + 1][1] ELSE "end"
      line == shown.line
      Line(l) == [shown EXCEPT !.line = l]
      back == CASE p[3] = "2" -> 2 [] p[3] = "1" -> 1 [] p[3] = "0" -> 1
                [] OTHER -> -1
  IN CASE shown.status # "done" -> shown
       [] p = <<"NL">> ->
            [shown EXCEPT !.over = @ \o line \o p, !.line = <<>>]
       [] p = <<"CR">> -> Line(IF follows \in {"NL", "CR"} THEN line \o p
                               ELSE <<>>)
       [] p = <<"BS">> ->
            IF line # <<>> THEN Line(Shorter(line, 1))
            ELSE IF shown.over = <<>> THEN [shown EXCEPT !.status = "panics"]
            ELSE shown
       [] Len(p) > 2 /\ Last(p) = "D" ->
            IF back < 0 THEN [shown EXCEPT !.status = "error"]
            ELSE Line(Shorter(line, IF back > Len(line) THEN Len(line)
                                    ELSE back))
       [] \/ Len(p) > 2 /\ Last(p) \in {"K", "H"}
          \/ p \in {<<"ESC", ">">>, <<"ESC", "[", "?", "1", "l">>} -> shown
       [] \/ Len(p) > 2 /\ Last(p) \notin {"D", "K", "H"}
          \/ p = <<"ESC">> -> [shown EXCEPT !.status = "error"]
       [] OTHER -> Line(line \o p)

Shown == FoldLeft(Show, [over |-> <<>>, line |-> <<>>, status |-> "done"],
                  [k \in DOMAIN printed |-> k])

\* However the cuts overlap, the result is what the output shows, Parse fails
\* where it must, and it panics only on a backspace with nothing before it.
ResultIsShown ==
  status # "parses" =>
    /\ status = Shown.status
    /\ status = "done" => data = Shown.over \o Shown.line

\* A line that is over is never changed again: no cut goes behind the last
\* newline (CUB, RETURN, BS).
LinesStay ==
  [][/\ lastNewline <= Len(data')
     /\ \A i \in 1..lastNewline : data'[i] = data[i]]_screenVars

\* Reading goes on to the end: each step leaves less to read, but for the
\* newline that is read again.
Terminates ==
  [][status' = "parses" =>
       \/ Len(data') - pos' < Len(data) - pos
       \/ Len(data') - pos' = Len(data) - pos /\ Byte(Here)' = "NL"
          /\ Byte(Here) = "CR"]_screenVars

ScreenExact == []ResultIsShown /\ LinesStay /\ Terminates
=============================================================================
