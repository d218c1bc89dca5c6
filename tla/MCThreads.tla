----------------------------- MODULE MCThreads -----------------------------
(* The instances of Threads that TLC checks. *)
EXTENDS Threads

CONSTANTS a, b, c

MCThreads == {a, b, c}

\* a knows both others, and they know a; a and c call on their own.
Star(send) ==
  [callers |-> {a, c}, running |-> {a, b, c}, post |-> 0, delay |-> 0, send |-> send,
   deeds |-> 0, ticks |-> 0, links |-> {<<a, a>>, <<a, b>>, <<b, a>>, <<a, c>>, <<c, a>>}]

\* A program and its worker, each of which may call itself and the other
Pair(post, delay, send, deeds, ticks) ==
  [callers |-> {a}, running |-> {a, b}, post |-> post, delay |-> delay, send |-> send,
   deeds |-> deeds, ticks |-> ticks, links |-> {a, b} \X {a, b}]

MCScenarios ==
  {Star(3), Pair(1, 0, 2, 0, 0), Pair(1, 0, 1, 1, 0), Pair(0, 2, 0, 0, 1), Pair(0, 1, 0, 1, 1)}
QuitScenarios == {Pair(1, 0, 0, 1, 0)}
=============================================================================
