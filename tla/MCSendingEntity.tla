-------------------------- MODULE MCSendingEntity --------------------------
(* SendingEntity on files of up to three words, sent in segments of two. *)
EXTENDS SendingEntity

MCFiles == {<<>>, <<1>>, <<1, 2>>, <<2, 1, 1>>}
MCModulus == 4
============================================================================
