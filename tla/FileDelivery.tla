---------------------------- MODULE FileDelivery ----------------------------
(***************************************************************************)
(* What an unacknowledged file transfer promises: the destination holds no *)
(* file or one that passes for the file that was offered, unless the last  *)
(* delivery failed on the way and left a part of it. If only the file      *)
(* itself passes, that is the offered file, whole and alone.               *)
(***************************************************************************)
CONSTANTS
  Files,
  NoFile,
  Passes(_, _),   \* the first file cannot be told from the second
  Part(_, _)      \* the first file is what is left of the second

VARIABLES offered, delivered, failed

vars == <<offered, delivered, failed>>

Init == offered = NoFile /\ delivered = NoFile /\ failed = FALSE

Offer ==
  /\ offered = NoFile
  /\ offered' \in Files
  /\ UNCHANGED <<delivered, failed>>

Deliver ==
  /\ offered # NoFile
  /\ Passes(delivered', offered)
  /\ failed' = FALSE
  /\ UNCHANGED offered

Fail ==
  /\ offered # NoFile
  /\ delivered' = delivered \/ Part(delivered', offered)
  /\ failed' = TRUE
  /\ UNCHANGED offered

Next == Offer \/ Deliver \/ Fail

Spec == Init /\ [][Next]_vars
============================================================================
