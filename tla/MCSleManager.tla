---------------------------- MODULE MCSleManager ----------------------------
(* SleManager on small instances: the forward service alone, with an operator
   or with a fault, and beside a return service. *)
EXTENDS SleManager

Bounded(who, r, d, f) == [names |-> who, requests |-> r, data |-> d, faults |-> f]

Single == {Bounded({"cltu"}, 1, 2, 0), Bounded({"cltu"}, 0, 2, 1)}

Pair == {Bounded({"raf", "cltu"}, 0, 0, 1)}

SinglesAndPair == Single \cup Pair

PairWithoutFaults == {Bounded({"raf", "cltu"}, 0, 0, 0)}
=============================================================================
