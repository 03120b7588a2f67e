----------------------------- MODULE TraceRing -----------------------------
(***************************************************************************)
(* The bounded trace of what was written to and read from a device: Add    *)
(* merges data into the last item of the array when it is of the same kind *)
(* and fresh, or takes the next slot; List gives the items from the oldest *)
(* slot on.  Data is numbered in the order in which it is added.           *)
(***************************************************************************)
EXTENDS Naturals, Sequences, SequencesExt

CONSTANTS Limit,    \* of items, 0 for no limit
          MaxAdds, MaxClock

VARIABLES items,      \* m.data: operation, second in which it began, data
          limitIndex,
          clock,      \* in seconds
          added       \* operation of everything that was added (history)

traceVars == <<items, limitIndex, clock, added>>
Ops == {"write", "read"}

Init == items = <<>> /\ limitIndex = 0 /\ clock = 0 /\ added = <<>>

Tick ==
  /\ clock < MaxClock /\ clock' = clock + 1
  /\ UNCHANGED <<items, limitIndex, added>>

Fresh(op) ==
  items # <<>> /\ items[Len(items)].op = op /\ items[Len(items)].at = clock

Item(op, n) == [op |-> op, at |-> clock, data |-> <<n>>]

\* Mutant of Put: the index does not go back to the first slot.
PutRunsOff(op, n) ==
  IF Limit > 0 /\ Len(items) >= Limit
  THEN /\ items' = [i \in 1..Len(items) |->
                      IF i = limitIndex + 1 THEN Item(op, n) ELSE items[i]]
       /\ limitIndex' = IF limitIndex + 1 > Limit THEN 0 ELSE limitIndex + 1
  ELSE items' = Append(items, Item(op, n)) /\ UNCHANGED limitIndex

\* A full array is overwritten from its oldest slot on.
Put(op, n) ==
  IF Limit > 0 /\ Len(items) >= Limit
  THEN /\ items' = [items EXCEPT ![limitIndex + 1] = Item(op, n)]
       /\ limitIndex' = (limitIndex + 1) % Limit
  ELSE items' = Append(items, Item(op, n)) /\ UNCHANGED limitIndex

Add(op) ==
  /\ Len(added) < MaxAdds /\ added' = Append(added, op)
  /\ LET n == Len(added) + 1 IN
       IF Fresh(op)
       THEN /\ items' = [items EXCEPT ![Len(items)].data = Append(@, n)]
            /\ UNCHANGED limitIndex
       ELSE Put(op, n)
  /\ UNCHANGED clock

Next == Tick \/ \E op \in Ops : Add(op)

Spec == Init /\ [][Next]_traceVars

\* List: the items from limitIndex on, then those before it.
List ==
  SubSeq(items, limitIndex + 1, Len(items)) \o SubSeq(items, 1, limitIndex)

---------------------------------------------------------------------------

AllData == FlattenSeq([i \in 1..Len(List) |-> List[i].data])

\* A trace that never was full holds everything, in order.  A full one holds
\* the newest data, nothing twice, in every item data of one kind in order,
\* and no fewer items than its limit; the last slot of the array is merged
\* into also when it is no longer the newest, so that only the items that
\* were not merged into it are sure to be in order.
TraceHoldsNewest ==
  /\ limitIndex = 0 /\ (Limit = 0 \/ Len(items) < Limit) =>
       AllData = [n \in 1..Len(added) |-> n]
  /\ Limit > 0 => Len(items) <= Limit
  /\ added # <<>> => \E i \in 1..Len(AllData) : AllData[i] = Len(added)
  /\ \A i, j \in 1..Len(AllData) : AllData[i] = AllData[j] => i = j
  /\ \A i \in 1..Len(List) : LET d == List[i].data IN
       /\ \A k \in 1..Len(d) : added[d[k]] = List[i].op
       /\ \A k \in 1..(Len(d) - 1) : d[k] < d[k + 1]
  /\ \A i, j \in 1..Len(List) :
       i < j => Head(List[i].data) < Head(List[j].data)
=============================================================================
