---------------------------- MODULE MessageQueues ----------------------------
(***************************************************************************)
(* MessageQueue::Clear (src/talk/base/messagequeue.cc) takes the messages  *)
(* of one handler out of a queue and leaves the order of the others as it  *)
(* is. The components that clear their queue share the operator; it is     *)
(* written as a recursive function so that it can be reasoned about.       *)
(***************************************************************************)
EXTENDS Naturals, Sequences

\* What is left of the first n messages of s, for every n.
Kept(s, S) ==
  LET k[n \in 0..Len(s)] ==
        IF n = 0 THEN <<>>
        ELSE IF s[n] \in S THEN k[n - 1] ELSE Append(k[n - 1], s[n])
  IN k

\* s without the messages of S
Without(s, S) == Kept(s, S)[Len(s)]
=============================================================================
