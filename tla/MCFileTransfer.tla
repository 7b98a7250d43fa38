--------------------------- MODULE MCFileTransfer ---------------------------
(* FileTransfer on small files sent in segments of two words. *)
EXTENDS FileTransfer

CONSTANT HandlerCodesUsed

\* <<3>> is not text. The checksum of <<4, 0, 0>> does not tell whether its end is missing.
MCFiles == {<<>>, <<1, 2, 4>>, <<3>>, <<4, 0, 0>>}

ASSUME \A words \in MCFiles : ChecksumTells(words) <=> words # <<4, 0, 0>>

MCReceiverHandlers == {[c \in FaultConditions |-> h] : h \in HandlerCodesUsed}
============================================================================
