------------------------------- MODULE Rfc2217 -------------------------------
(***************************************************************************)
(* The RFC 2217 connector (rfc2217.go): the dial, the telnet options that  *)
(* are requested at the start, and the reader, which takes the stream byte *)
(* by byte, answers negotiations and gives everything else to the channel. *)
(* How the channel is read is in StreamReader.                             *)
(***************************************************************************)
EXTENDS Naturals, SequencesExt

CONSTANTS Addresses,   \* how many addresses the connector was given
          MaxPhrases   \* bound: what the access server says

VARIABLES conn,        \* "dialing", "open", "failed", "closed"
          dialed,      \* the endpoints tried
          stream,      \* bytes from the access server, not read
          mode, telnetCommand,   \* of the reader
          given,       \* bytes sent over the channel
          expected,    \* expectedTelnet
          sentOptions, \* what sendTelnetOption wrote, after the requests
          said         \* what the access server has said, a sequence

rfcVars == <<conn, dialed, stream, mode, telnetCommand, given, expected,
             sentOptions, said>>

Option(o, yes, ackYes, ackNo) ==
  [option |-> o, sendYes |-> yes, ackYes |-> ackYes, ackNo |-> ackNo,
   state |-> "REQUESTED"]

\* The options of Init in state REQUESTED; BINARY, both ways, is INACTIVE
\* and never becomes an expected one.
Requested ==
  <<Option("ECHO", "DO", "WILL", "WONT"), Option("SGA", "WILL", "DO", "DONT"),
    Option("SGA", "DO", "WILL", "WONT"), Option("COM", "DO", "WILL", "WONT"),
    Option("COM", "WILL", "DO", "DONT")>>

RfcInit ==
  /\ conn = "dialing" /\ dialed = <<>>
  /\ stream = <<>> /\ mode = "normal" /\ telnetCommand = "none"
  /\ given = <<>> /\ expected = <<>> /\ sentOptions = <<>> /\ said = <<>>

\* One try for each address, and each goes to the host.
Dial ==
  /\ conn = "dialing"
  /\ dialed' = Append(dialed, "host")
  /\ \/ conn' = "open" /\ expected' = Requested
     \/ /\ conn' = IF Len(dialed') >= Addresses THEN "failed" ELSE "dialing"
        /\ UNCHANGED expected
  /\ UNCHANGED <<stream, mode, telnetCommand, given, sentOptions, said>>

\* telnetOption.process: the option after the command, and what is sent.  A
\* refusal that is sent has no command: only its send_no is filled in.
process(item, command) ==
  CASE command = item.ackYes /\ item.state = "REQUESTED" ->
         [item |-> [item EXCEPT !.state = "ACTIVE"], sends |-> <<>>]
    [] command = item.ackYes /\ item.state = "INACTIVE" ->
         [item |-> [item EXCEPT !.state = "ACTIVE"],
          sends |-> <<<<item.sendYes, item.option>>>>]
    [] command = item.ackNo /\ item.state = "REQUESTED" ->
         [item |-> [item EXCEPT !.state = "INACTIVE"], sends |-> <<>>]
    [] command = item.ackNo /\ item.state = "ACTIVE" ->
         [item |-> [item EXCEPT !.state = "INACTIVE"],
          sends |-> <<<<"NUL", item.option>>>>]
    [] OTHER -> [item |-> item, sends |-> <<>>]

\* negotiateOption: every expected option with that number looks at the
\* command, as a copy; what is not expected is refused.
negotiateOption(command, option) ==
  LET concerned == {k \in DOMAIN expected : expected[k].option = option}
      answers == FlattenSeq([k \in DOMAIN expected |->
                               IF k \in concerned
                               THEN process(expected[k], command).sends
                               ELSE <<>>])
  IN /\ sentOptions' = sentOptions \o
          (IF concerned # {} THEN answers
           ELSE CASE command = "WILL" -> <<<<"WONT", option>>>>
                  [] command = "DO" -> <<<<"DONT", option>>>>
                  [] OTHER -> <<>>)
     /\ UNCHANGED expected

Commands == {"DO", "DONT", "WILL", "WONT"}

\* One byte of the reader.  The buffer of a sub-negotiation is empty when
\* one starts and only grows when it is not, so its bytes go to the channel.
reader ==
  /\ conn = "open" /\ stream # <<>>
  /\ stream' = Tail(stream)
  /\ LET b == Head(stream)
         To(m) == mode' = m
     IN CASE mode = "normal" ->
               /\ To(IF b = "IAC" THEN "iac" ELSE "normal")
               /\ given' = IF b = "IAC" THEN given ELSE Append(given, b)
               /\ UNCHANGED <<telnetCommand, expected, sentOptions>>
          [] mode = "iac" /\ b \in Commands ->
               /\ To("negotiate") /\ telnetCommand' = b
               /\ UNCHANGED <<given, expected, sentOptions>>
          [] mode = "iac" /\ b \notin Commands ->
               /\ To("normal")
               /\ given' = IF b = "IAC" THEN Append(given, b) ELSE given
               /\ UNCHANGED <<telnetCommand, expected, sentOptions>>
          [] mode = "negotiate" ->
               /\ To("normal") /\ negotiateOption(telnetCommand, b)
               /\ UNCHANGED <<given, telnetCommand>>
  /\ UNCHANGED <<conn, dialed, said>>

Close ==
  /\ conn = "open" /\ conn' = "closed"
  /\ UNCHANGED <<dialed, stream, mode, telnetCommand, given, expected,
                 sentOptions, said>>

\* The access server (external): data, a 0xff of the device, a negotiation,
\* a sub-negotiation, another command.
Phrases ==
  {[kind |-> "data", bytes |-> <<"d">>],
   [kind |-> "ff", bytes |-> <<"IAC", "IAC">>],
   [kind |-> "sub", bytes |-> <<"IAC", "SB", "COM", "s", "IAC", "SE">>],
   [kind |-> "command", bytes |-> <<"IAC", "NOP">>]}
  \cup {[kind |-> "option", bytes |-> <<"IAC", c, o>>] :
          c \in Commands, o \in {"ECHO", "SGA", "COM", "BINARY"}}

Says ==
  /\ conn = "open" /\ Len(said) < MaxPhrases
  /\ \E p \in Phrases : said' = Append(said, p)
                        /\ stream' = stream \o p.bytes
  /\ UNCHANGED <<conn, dialed, mode, telnetCommand, given, expected,
                 sentOptions>>

RfcNext == Dial \/ reader \/ Close \/ Says
RfcSpec == RfcInit /\ [][RfcNext]_rfcVars

---------------------------------------------------------------------------
\* What a phrase shows to the reader of the console, and what it asks for.
Shows(p) == CASE p.kind = "data" -> p.bytes [] p.kind = "ff" -> <<"IAC">>
              [] p.kind = "sub" -> <<"COM", "s">> [] OTHER -> <<>>
Refused(p) ==
  IF /\ p.kind = "option" /\ p.bytes[3] = "BINARY"
     /\ p.bytes[2] \in {"DO", "WILL"}
  THEN <<<<IF p.bytes[2] = "DO" THEN "DONT" ELSE "WONT", "BINARY">>>>
  ELSE <<>>
All(Op(_)) == FlattenSeq([k \in DOMAIN said |-> Op(said[k])])

\* The bytes of the device come through in order and once, whatever is
\* negotiated between them and wherever the stream is cut; all that is added
\* is the text of sub-negotiations (reader).
DataExact ==
  /\ IsPrefix(given, All(Shows))
  /\ conn = "open" /\ stream = <<>> => given = All(Shows)

\* An option is refused once for each time it is asked for, and an answer to
\* a request of ours is never answered: the negotiation cannot go on forever.
NegotiationEnds ==
  /\ IsPrefix(sentOptions, All(Refused))
  /\ conn = "open" /\ stream = <<>> => sentOptions = All(Refused)

Rfc2217Exact == DataExact /\ NegotiationEnds
=============================================================================
