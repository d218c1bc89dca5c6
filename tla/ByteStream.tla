----------------------------- MODULE ByteStream -----------------------------
(***************************************************************************)
(* What PseudoTcp (src/talk/p2p/base/pseudotcp.cc) promises to the tunnel  *)
(* above it: a bounded pipe. Bytes come out in the order they went in,     *)
(* each of them once; no more than Capacity of them are inside; and unless *)
(* the connection breaks or stalls for good, all of them come out. The     *)
(* file has FileLen bytes, and a byte is known by its position.            *)
(***************************************************************************)
EXTENDS Integers, Sequences

CONSTANTS FileLen, Capacity

VARIABLES
  written,      \* how many bytes went in
  read,         \* the bytes that came out
  broken,       \* an end has closed
  stalled       \* an end could not send and has nothing to wait for

vars == <<written, read, broken>>

Init == written = 0 /\ read = <<>> /\ broken = FALSE

Write == \E n \in written + 1 .. FileLen :
  /\ n - Len(read) <= Capacity
  /\ written' = n
  /\ UNCHANGED <<read, broken>>

Read == \E n \in Len(read) + 1 .. written :
  /\ read' = [i \in 1..n |-> i]
  /\ UNCHANGED <<written, broken>>

Break == broken' = TRUE /\ UNCHANGED <<written, read>>

Next == Write \/ Read \/ Break

\* A stall changes nothing of the pipe; it only excuses one that stays.
Spec ==
  /\ Init /\ [][Next]_vars
  /\ <>(broken \/ Len(read) = FileLen) \/ <>[]stalled
=============================================================================
