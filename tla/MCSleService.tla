---------------------------- MODULE MCSleService ----------------------------
(* SleService on small instances. *)
EXTENDS SleService
=============================================================================
