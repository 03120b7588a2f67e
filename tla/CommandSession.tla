---------------------------- MODULE CommandSession ----------------------------
(***************************************************************************)
(* What a user of a Device relies on: a session is a sequence of calls,    *)
(* one at a time; each call returns once, with the output of that command  *)
(* or with an error.  After the first error the session is suspect: calls  *)
(* still return one by one, but what they contain is no longer promised.   *)
(* GenericExecute is shown to implement this specification.                *)
(***************************************************************************)

EXTENDS Integers, Sequences

CONSTANTS
  Texts,     (* texts that commands may have        *)
  Answered,  (* outcomes that carry a device answer *)
  Errors     (* outcomes that do not                *)

VARIABLES
  cur,      (* the command being executed, 0 between calls                  *)
  issued,   (* the texts of all commands so far                             *)
  output,   (* what the device has to say to each command                   *)
  results   (* what the calls returned                                      *)

vars == <<cur, issued, output, results>>

Init ==
  /\ cur = 0
  /\ issued = <<>>
  /\ output = <<>>
  /\ results = <<>>

Suspect == \E j \in DOMAIN results : results[j].st \in Errors

Call(text) ==
  /\ cur = 0
  /\ issued' = Append(issued, text)
  /\ output' = Append(output, <<>>)
  /\ \/ cur' = Len(issued) + 1 /\ UNCHANGED results
     \/ /\ \E st \in Errors :
             results' = Append(results, [n |-> Len(issued) + 1, st |-> st,
                                         data |-> <<>>])
        /\ UNCHANGED cur

(* In a sound session the device talks about the running command only, and
   only while the call is under way: a finished call leaves nothing behind. *)
DeviceTalks ==
  /\ Len(output') = Len(output)
  /\ Suspect \/ /\ cur # 0
                /\ \A n \in DOMAIN output : n # cur => output'[n] = output[n]
  /\ UNCHANGED <<cur, issued, results>>

Return ==
  /\ cur # 0
  /\ cur' = 0
  /\ \E st \in Answered \union Errors :
       LET r == results'[Len(results')]
       IN  /\ results' = Append(results,
                                [n |-> cur, st |-> st, data |-> r.data])
           /\ st \in Errors => r.data = <<>>
           /\ st \in Answered /\ ~Suspect => r.data = output[cur]
  /\ UNCHANGED <<issued, output>>

Next == (\E text \in Texts : Call(text)) \/ DeviceTalks \/ Return

Spec == Init /\ [][Next]_vars

=============================================================================
