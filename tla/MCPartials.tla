------------------------------ MODULE MCPartials ------------------------------
(* Partials with a small modulus and history. *)
EXTENDS Partials
============================================================================
