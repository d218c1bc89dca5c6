------------------------------ MODULE FileCopy ------------------------------
(***************************************************************************)
(* What a tunnel promises for one file: the receiver's copy only grows, is *)
(* a prefix of the source at every moment, and is closed only when it is   *)
(* complete or when an error has occurred; without an error it is closed.  *)
(***************************************************************************)
EXTENDS Naturals, Sequences, SequencesExt

CONSTANT Source

VARIABLES out,      \* the receiver's copy
          open,     \* it is still being written
          faulted   \* an error has occurred somewhere

vars == <<out, open, faulted>>

Init == out = <<>> /\ open = TRUE /\ faulted = FALSE

Extends(new) == IsPrefix(out, new) /\ IsPrefix(new, Source)

Copy == open /\ Extends(out') /\ UNCHANGED <<open, faulted>>

Close ==
  /\ open /\ Extends(out')
  /\ open' = FALSE
  /\ (faulted => faulted') /\ faulted' \in BOOLEAN
  /\ out' = Source \/ faulted'

Fault == faulted' = TRUE /\ UNCHANGED <<out, open>>

Next == Copy \/ Close \/ Fault

Spec == Init /\ [][Next]_vars /\ <>(faulted \/ ~open)
=============================================================================
