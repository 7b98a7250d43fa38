----------------------------- MODULE ModuloList -----------------------------
(***************************************************************************)
(* The list of the deframing processor that keeps sequence counts in order *)
(* across their rollover, class ModuloList of deframe_packet_processor.py: *)
(* two sorted lists, of which everything in the second, beta, follows      *)
(* everything in the first, alpha.                                         *)
(***************************************************************************)
EXTENDS Integers, Sequences, FiniteSets, SequencesExt

CONSTANT Modulo  \* 16384 in the code

ASSUME ModuloAssumption == Modulo \in Nat /\ Modulo >= 3

SeqCounts == 0 .. Modulo - 1

alpha_value == Modulo \div 3
beta_value == 2 * alpha_value

\* There need not be a beta list; without one `beta` is empty.
EmptyList == [alpha |-> <<>>, beta |-> <<>>, has_beta |-> FALSE]

\* How many values of a list come before val.
Below(list, val) == Cardinality({i \in DOMAIN list : list[i] < val})

\* A sorted list after append and sort, and after remove of a value in it.
Inserted(list, val) == InsertAt(list, Below(list, val) + 1, val)
Removed(list, val) == RemoveAt(list, Below(list, val) + 1)

\* A low count follows the high ones, once there was a high one. A middle count ends the
\* round: what is left in the alpha list is dropped.
add_value(list, val) ==
  CASE val < alpha_value /\ list.has_beta ->
         [list EXCEPT !.beta = Inserted(@, val)]
    [] val < alpha_value /\ ~list.has_beta ->
         [list EXCEPT !.alpha = Inserted(@, val)]
    [] alpha_value <= val /\ val < beta_value ->
         [ alpha |-> Inserted(IF list.has_beta THEN list.beta ELSE list.alpha, val),
           beta |-> <<>>,
           has_beta |-> FALSE ]
    [] beta_value <= val ->
         [list EXCEPT !.alpha = Inserted(@, val), !.has_beta = TRUE]

get_size(list) == Len(list.alpha) + Len(list.beta)

\* get_next_value looks at the alpha list only and returns None when it is empty.
HasNext(list) == list.alpha # <<>>

get_next_value(list) == Head(list.alpha)

remove_value(list, val) ==
  IF Contains(list.alpha, val) THEN [list EXCEPT !.alpha = Removed(@, val)]
  ELSE [list EXCEPT !.beta = Removed(@, val)]
============================================================================
