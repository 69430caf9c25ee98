----------------------------- MODULE RecencyList -----------------------------
(***************************************************************************)
(* What a cache with least-recently-used replacement promises: its items   *)
(* in the order of their last use, where room is made only at the old end. *)
(***************************************************************************)
EXTENDS Integers, Sequences

CONSTANTS Item, None

VARIABLES
  order,  \* the items, the least recently used first
  last    \* the item used last

Init == order = <<>> /\ last = None

RemoveAt(s, i) == [j \in 1 .. Len(s) - 1 |-> IF j < i THEN s[j] ELSE s[j + 1]]

\* s without x, which it has at most once.
Without(s, x) ==
  IF \E i \in 1 .. Len(s) : s[i] = x
  THEN RemoveAt(s, CHOOSE i \in 1 .. Len(s) : s[i] = x)
  ELSE s

\* Using x makes it the newest; to make room the n oldest leave before.
Use(x) ==
  /\ last' = x
  /\ \E n \in 0 .. Len(order) :
       order' = Append(Without(SubSeq(order, n + 1, Len(order)), x), x)

Clear == order' = <<>> /\ last' = None

Next == Clear \/ \E x \in Item : Use(x)

Spec == Init /\ [][Next]_<<order, last>>

=============================================================================
