----------------------------- MODULE FrameRelay -----------------------------
(* What a return service promises about the frames of the provider: they
   reach the frame port in the order they were offered, each at most once,
   and none that was not offered.  A frame may be left out. *)
EXTENDS Naturals, Sequences

VARIABLES offered,  \* how many frames the provider has offered: 1 .. offered
          relayed   \* the frames at the frame port, in their order

vars == <<offered, relayed>>

Init == offered = 0 /\ relayed = <<>>

Last == IF relayed = <<>> THEN 0 ELSE relayed[Len(relayed)]

Offer == \E n \in 1 .. 2 : offered' = offered + n /\ UNCHANGED relayed

\* One or more offered frames that follow the last one relayed.
Relay ==
  /\ \E f \in Last + 1 .. offered :
       \/ relayed' = Append(relayed, f)
       \/ \E g \in f + 1 .. offered : relayed' = relayed \o <<f, g>>
  /\ UNCHANGED offered

Next == Offer \/ Relay

Spec == Init /\ [][Next]_vars
=============================================================================
