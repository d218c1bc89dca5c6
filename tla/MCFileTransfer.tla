--------------------------- MODULE MCFileTransfer ---------------------------
(* Instances of FileTransfer: the file is the sequence 1, 2, ..., FileLen,   *)
(* every unit different, so that a lost, repeated or swapped unit shows.     *)
EXTENDS FileTransfer

CONSTANT FileLen

MCSource == [i \in 1..FileLen |-> i]
=============================================================================
