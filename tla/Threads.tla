------------------------------ MODULE Threads ------------------------------
(***************************************************************************)
(* Thread and MessageQueue of talk/base: the loop that runs every part of  *)
(* the program, and the calls (Post, PostDelayed, Send, Clear, Quit) with  *)
(* which handlers and other threads reach it.                              *)
(*                                                                         *)
(* A thread is a stack of calls.  The lowest is its loop around Get (Loop  *)
(* or ProcessMessages); above it are the handlers it runs and the calls    *)
(* these are in the middle of.  A section under crit_ is one step, and so  *)
(* is each unlocked access to fStop_ and has_sends_.  What a handler does  *)
(* is a choice; what the program does before its loop is the handler of    *)
(* message 0.                                                              *)
(***************************************************************************)
EXTENDS Integers, Sequences, FiniteSetsExt, SequencesExt, MessageQueues

CONSTANTS
  Threads,
  Scenarios,   \* the settings that are checked: which threads run, which of them (callers)
               \* make calls before their loops, which pairs <<t, q>> are such that t knows
               \* the thread q (links), and the bounds: the calls of Post, PostDelayed and
               \* Send, the deeds (calls of Clear and Quit) and the ticks of the clock
  Delays,      \* the delays of PostDelayed
  TimeSpace,   \* Time() is a counter modulo TimeSpace (2^32 in the code)
  Start        \* the clock at the start

ASSUME ThreadsAssumption ==
  /\ Scenarios \subseteq
       [callers : SUBSET Threads, running : SUBSET Threads, links : SUBSET (Threads \X Threads),
        post : Nat, delay : Nat, send : Nat, deeds : Nat, ticks : Nat]
  /\ \E c \in Scenarios : \A d \in Scenarios : d.ticks <= c.ticks
  /\ Start \in Nat
  /\ TimeSpace \in Nat \ {0} /\ TimeSpace % 2 = 0
  /\ Delays \subseteq 0..(TimeSpace \div 2 - 1)

VARIABLES
  msg,      \* every message made so far, in the order of the calls
  queue,    \* of a thread: msgq_, dmsgq_, sendlist_, has_sends_, fStop_, and its SocketServer's wake-up
  stack,    \* the calls a thread is in, the innermost last
  wait,     \* of a thread in Get: msCurrent and the end of its Wait
  now,      \* the clock, which does not wrap; the code sees now % TimeSpace
  budget    \* the scenario, with what is left of its bounds

vars == <<msg, queue, stack, wait, now, budget>>

Ids == DOMAIN msg
MaxMessages == Max({c.post + c.delay + c.send : c \in Scenarios})

End == now + budget.ticks
Forever == Start + Max({c.ticks : c \in Scenarios}) + TimeSpace

---------------------------------------------------------------------------
(* Stacks, wake-ups and messages                                            *)

Frame(at, m) == [at |-> at, m |-> m, waited |-> FALSE]

Top(t) == Last(stack[t])
InGet(t) == stack[t][1].at

Push(s, f) == Append(s, f)
Pop(s) == Front(s)
GoTo(s, at) == [s EXCEPT ![Len(s)].at = at]

\* SocketServer::WakeUp.  The byte stays in the Signaler's pipe until a Wait reads it.
WakeUp(qs, t) == [qs EXCEPT ![t].wake = TRUE]

NewMessage(how, t, q, due) ==
  [how |-> how, from |-> t, to |-> q, due |-> due, st |-> "calling",
   ready |-> FALSE, early |-> FALSE]

\* The 32-bit time of a delayed message (msTrigger_), and the test of two times
Trigger(m) == msg[m].due % TimeSpace
TimeIsLater(earlier, later) ==
  (later - earlier) % TimeSpace \in 1..(TimeSpace \div 2 - 1)

InHandler(t) == Top(t).at = "handle"

---------------------------------------------------------------------------
(* The calls a handler makes                                                *)

\* fStop_ is read before crit_ is taken: the message is made and pushed in two steps.
Call(t, q, new, at) ==
  /\ InHandler(t) /\ budget[new.how] > 0
  /\ IF queue[q].fStop
     THEN /\ msg' = Append(msg, [new EXCEPT !.st = "dropped"])
          /\ UNCHANGED stack
     ELSE /\ msg' = Append(msg, new)
          /\ stack' = [stack EXCEPT ![t] = Push(@, Frame(at, Len(msg) + 1))]
  /\ budget' = [budget EXCEPT ![new.how] = @ - 1]
  /\ UNCHANGED <<queue, wait, now>>

Post(t, q) == Call(t, q, NewMessage("post", t, q, now), "push")

PostDelayed(t, q, d) == Call(t, q, NewMessage("delay", t, q, now + d), "push")

\* Send to another thread queues the message; to the current one it calls the handler.
Send(t, q) == Call(t, q, NewMessage("send", t, q, now), IF q = t THEN "handle" ELSE "enqueue")

\* (mutant) delayed messages are kept in the order of the calls.
SoonerInCallOrder(m, x) == FALSE

\* The order of the priority queue: by the raw 32-bit trigger, and messages of one
\* time in the order of the calls of push.
Sooner(m, x) == Trigger(m) < Trigger(x)

\* dmsgq_ is kept in the order in which its messages are popped.
Place(d, m) ==
  CHOOSE p \in 0..Len(d) :
    /\ \A i \in 1..p : ~Sooner(m, d[i])
    /\ p < Len(d) => Sooner(m, d[p + 1])

Insert(d, m) ==
  SubSeq(d, 1, Place(d, m)) \o <<m>> \o SubSeq(d, Place(d, m) + 1, Len(d))

PushMessage(t) ==
  LET m == Top(t).m
      q == msg[m].to
  IN /\ Top(t).at = "push"
     /\ queue' = WakeUp(IF msg[m].how = "post" THEN [queue EXCEPT ![q].msgq = Append(@, m)]
                        ELSE [queue EXCEPT ![q].dmsgq = Insert(@, m)], q)
     /\ msg' = [msg EXCEPT ![m].st = "queued", ![m].early = ~queue[q].fStop]
     /\ stack' = [stack EXCEPT ![t] = Pop(@)]
     /\ UNCHANGED <<wait, now, budget>>

EnqueueSend(t) ==
  LET m == Top(t).m
      q == msg[m].to
  IN /\ Top(t).at = "enqueue"
     /\ queue' = [queue EXCEPT ![q].sendlist = Append(@, m), ![q].has_sends = TRUE]
     /\ msg' = [msg EXCEPT ![m].st = "queued", ![m].early = ~queue[q].fStop]
     /\ stack' = [stack EXCEPT ![t] = GoTo(@, "signal")]
     /\ UNCHANGED <<wait, now, budget>>

\* The WakeUp of Send, after crit_ is released
SignalSend(t) ==
  /\ Top(t).at = "signal"
  /\ queue' = WakeUp(queue, msg[Top(t).m].to)
  /\ stack' = [stack EXCEPT ![t] = GoTo(@, "sent")]
  /\ UNCHANGED <<msg, wait, now, budget>>

\* ReceiveSends reads has_sends_ without the lock, and runs its loop if it is set.
ReceiveSends(t, s) ==
  IF queue[t].has_sends THEN Push(s, Frame("receive", 0)) ELSE s

\* (mutant) Send returns after one Wait, whatever woke it.
CheckReadyOnce(t) ==
  /\ Top(t).at = "sent"
  /\ IF msg[Top(t).m].ready \/ Top(t).waited
     THEN /\ stack' = [stack EXCEPT ![t] = Pop(@)]
          /\ queue' = IF Top(t).waited THEN WakeUp(queue, t) ELSE queue
     ELSE /\ stack' = [stack EXCEPT ![t] = ReceiveSends(t, GoTo(@, "wait"))]
          /\ UNCHANGED queue
  /\ UNCHANGED <<msg, wait, now, budget>>

\* (mutant) the wake-ups that Send read are not given back.
CheckReadyQuietly(t) ==
  /\ Top(t).at = "sent"
  /\ stack' = [stack EXCEPT ![t] = IF msg[Top(t).m].ready THEN Pop(@)
                                   ELSE ReceiveSends(t, GoTo(@, "wait"))]
  /\ UNCHANGED <<msg, queue, wait, now, budget>>

\* (mutant) a thread that waits for a reply does not serve what is sent to it.
CheckReadyDeaf(t) ==
  /\ Top(t).at = "sent"
  /\ stack' = [stack EXCEPT ![t] = IF msg[Top(t).m].ready THEN Pop(@) ELSE GoTo(@, "wait")]
  /\ queue' = IF msg[Top(t).m].ready /\ Top(t).waited THEN WakeUp(queue, t) ELSE queue
  /\ UNCHANGED <<msg, wait, now, budget>>

\* The condition of the wait loop of Send
CheckReady(t) ==
  /\ Top(t).at = "sent"
  /\ IF msg[Top(t).m].ready
     THEN /\ stack' = [stack EXCEPT ![t] = Pop(@)]
          /\ queue' = IF Top(t).waited THEN WakeUp(queue, t) ELSE queue
     ELSE /\ stack' = [stack EXCEPT ![t] = ReceiveSends(t, GoTo(@, "wait"))]
          /\ UNCHANGED queue
  /\ UNCHANGED <<msg, wait, now, budget>>

\* Wait(kForever, false) in Send: only a wake-up ends it.
WaitForReply(t) ==
  /\ Len(stack[t]) > 1 /\ Top(t).at = "wait" /\ queue[t].wake
  /\ queue' = [queue EXCEPT ![t].wake = FALSE]
  /\ stack' = [stack EXCEPT ![t] =
                 [GoTo(@, "sent") EXCEPT ![Len(stack[t])].waited = TRUE]]
  /\ UNCHANGED <<msg, wait, now, budget>>

\* Clear of a message of queue q, which may be in any of its lists.  The sender
\* of a Send is released.
Clear(t, q, m) ==
  LET sent == Contains(queue[q].sendlist, m)
      left == [queue EXCEPT ![q].msgq = Without(@, {m}), ![q].dmsgq = Without(@, {m}),
                            ![q].sendlist = Without(@, {m})]
  IN /\ InHandler(t) /\ budget.deeds > 0
     /\ msg[m].to = q /\ msg[m].st = "queued"
     /\ queue' = IF sent THEN WakeUp(left, msg[m].from) ELSE left
     /\ msg' = [msg EXCEPT ![m].st = "cleared", ![m].ready = sent]
     /\ budget' = [budget EXCEPT !.deeds = @ - 1]
     /\ UNCHANGED <<stack, wait, now>>

\* Quit sets fStop_ and wakes the thread, without the lock.
Quit(t, q) ==
  /\ InHandler(t) /\ budget.deeds > 0
  /\ queue' = WakeUp([queue EXCEPT ![q].fStop = TRUE], q)
  /\ budget' = [budget EXCEPT !.deeds = @ - 1]
  /\ UNCHANGED <<msg, stack, wait, now>>

\* A handler returns: to Dispatch, to a direct Send, or to ReceiveSends, which
\* then releases the sender.
Return(t) ==
  LET m == Top(t).m
      received == stack[t][Len(stack[t]) - 1].at = "receive"
  IN /\ InHandler(t)
     /\ stack' = [stack EXCEPT ![t] = Pop(@)]
     /\ msg' = IF m = 0 THEN msg
               ELSE [msg EXCEPT ![m].st = "handled", ![m].ready = received]
     /\ queue' = IF received THEN WakeUp(queue, msg[m].from) ELSE queue
     /\ UNCHANGED <<wait, now, budget>>

---------------------------------------------------------------------------
(* ReceiveSends and Get                                                     *)

\* The loop of ReceiveSends, under crit_
ReceiveSend(t) ==
  /\ Top(t).at = "receive"
  /\ IF queue[t].sendlist = <<>>
     THEN /\ queue' = [queue EXCEPT ![t].has_sends = FALSE]
          /\ stack' = [stack EXCEPT ![t] = Pop(@)]
          /\ UNCHANGED msg
     ELSE LET m == Head(queue[t].sendlist)
          IN /\ queue' = [queue EXCEPT ![t].sendlist = Tail(@)]
             /\ stack' = [stack EXCEPT ![t] = Push(@, Frame("handle", m))]
             /\ msg' = [msg EXCEPT ![m].st = "handling"]
  /\ UNCHANGED <<wait, now, budget>>

\* (mutant) the time read is rounded up.
GetBeginRounded(t) ==
  /\ Top(t).at = "get"
  /\ wait' = [wait EXCEPT ![t].cur = now + 1]
  /\ stack' = [stack EXCEPT ![t] = ReceiveSends(t, GoTo(@, "take"))]
  /\ UNCHANGED <<msg, queue, now, budget>>

\* The head of Get's loop: the time is read and sent messages are received.
GetBegin(t) ==
  /\ Top(t).at = "get"
  /\ wait' = [wait EXCEPT ![t].cur = now]
  /\ stack' = [stack EXCEPT ![t] = ReceiveSends(t, GoTo(@, "take"))]
  /\ UNCHANGED <<msg, queue, now, budget>>

\* How many messages of dmsgq_ are popped: up to the first that is later than cur
DueCount(s, cur) ==
  CHOOSE n \in 0..Len(s) :
    /\ \A i \in 1..n : ~TimeIsLater(cur % TimeSpace, Trigger(s[i]))
    /\ n < Len(s) => TimeIsLater(cur % TimeSpace, Trigger(s[n + 1]))

\* The locked part of Get: triggered messages join msgq_, whose front is dispatched.
Take(t) ==
  LET s == queue[t].dmsgq
      n == DueCount(s, wait[t].cur)
      rest == SubSeq(s, n + 1, Len(s))
      all == queue[t].msgq \o SubSeq(s, 1, n)
      next == IF rest = <<>> THEN Forever
              ELSE (msg[Head(rest)].due - wait[t].cur) % TimeSpace
  IN /\ Top(t).at = "take"
     /\ IF all = <<>>
        THEN /\ queue' = [queue EXCEPT ![t].dmsgq = rest]
             /\ stack' = [stack EXCEPT ![t] = GoTo(@, "check")]
             /\ UNCHANGED msg
        ELSE /\ queue' = [queue EXCEPT ![t].dmsgq = rest, ![t].msgq = Tail(all)]
             /\ stack' = [stack EXCEPT ![t] = Push(GoTo(@, "get"), Frame("handle", Head(all)))]
             /\ msg' = [msg EXCEPT ![Head(all)].st = "handling"]
     /\ wait' = [wait EXCEPT ![t] = [cur |-> Start, next |-> IF all = <<>> THEN next ELSE Forever]]
     /\ UNCHANGED <<now, budget>>

\* fStop_ is read after crit_ is released.
CheckStop(t) ==
  /\ Top(t).at = "check"
  /\ IF queue[t].fStop
     THEN /\ stack' = [stack EXCEPT ![t] = GoTo(@, "ended")]
          /\ wait' = [wait EXCEPT ![t].next = Forever]
     ELSE /\ stack' = [stack EXCEPT ![t] = GoTo(@, "wait")]
          /\ wait' = [wait EXCEPT ![t].next = IF @ = Forever THEN @ ELSE now + @]
  /\ UNCHANGED <<msg, queue, now, budget>>

\* Wait in Get ends on a wake-up or after cmsNext.
WaitInGet(t) ==
  /\ Len(stack[t]) = 1 /\ Top(t).at = "wait"
  /\ queue[t].wake \/ now >= wait[t].next
  /\ queue' = [queue EXCEPT ![t].wake = FALSE]
  /\ stack' = [stack EXCEPT ![t] = GoTo(@, "get")]
  /\ wait' = [wait EXCEPT ![t].next = Forever]
  /\ UNCHANGED <<msg, now, budget>>

Tick ==
  /\ budget.ticks > 0
  /\ now' = now + 1
  /\ budget' = [budget EXCEPT !.ticks = @ - 1]
  /\ UNCHANGED <<msg, queue, stack, wait>>

---------------------------------------------------------------------------

Init ==
  /\ msg = <<>>
  /\ queue = [t \in Threads |-> [msgq |-> <<>>, dmsgq |-> <<>>, sendlist |-> <<>>,
                                 has_sends |-> FALSE, fStop |-> FALSE, wake |-> FALSE]]
  /\ wait = [t \in Threads |-> [cur |-> Start, next |-> Forever]]
  /\ now = Start
  /\ budget \in Scenarios
  /\ stack = [t \in Threads |->
                CASE t \in budget.callers -> <<Frame("get", 0), Frame("handle", 0)>>
                  [] t \in budget.running \ budget.callers -> <<Frame("get", 0)>>
                  [] OTHER -> <<Frame("ended", 0)>>]

HandlerCall(t) ==
  \E q \in Threads :
    /\ <<t, q>> \in budget.links
    /\ \/ Post(t, q) \/ Send(t, q) \/ Quit(t, q)
       \/ \E d \in Delays : PostDelayed(t, q, d)
       \/ \E m \in Ids : Clear(t, q, m)

Run(t) ==
  \/ PushMessage(t) \/ EnqueueSend(t) \/ SignalSend(t) \/ CheckReady(t) \/ WaitForReply(t)
  \/ Return(t) \/ ReceiveSend(t)
  \/ GetBegin(t) \/ Take(t) \/ CheckStop(t) \/ WaitInGet(t)

Next == Tick \/ \E t \in Threads : HandlerCall(t) \/ Run(t)

\* Every thread is scheduled, its handlers return, and time passes.
Fairness == WF_vars(Tick) /\ \A t \in Threads : WF_vars(Run(t))

Spec == Init /\ [][Next]_vars /\ Fairness

---------------------------------------------------------------------------
(* Properties                                                               *)

Places == {"get", "take", "check", "wait", "ended", "handle", "push", "enqueue", "signal",
           "sent", "receive"}
States == {"calling", "queued", "handling", "handled", "cleared", "dropped"}

\* Type invariant; a list holds a message once, and Get never runs ahead of the clock.
TypeOK ==
  /\ msg \in Seq([how : {"post", "delay", "send"}, from : Threads, to : Threads,
                  due : Start..Forever, st : States, ready : BOOLEAN, early : BOOLEAN])
  /\ \A t \in Threads :
       /\ \A l \in {"msgq", "dmsgq", "sendlist"} : queue[t][l] \in Seq(Ids) /\ IsInjective(queue[t][l])
       /\ {queue[t].has_sends, queue[t].fStop, queue[t].wake} \subseteq BOOLEAN
       /\ stack[t] # <<>> /\ InGet(t) \in {"get", "take", "check", "wait", "ended"}
       /\ stack[t] \in Seq([at : Places, m : Ids \union {0}, waited : BOOLEAN])
       /\ wait[t] \in [cur : Start..now, next : Nat]
  /\ now \in Start..Forever
  /\ \A left \in {"post", "delay", "send", "deeds", "ticks"} : budget[left] \in Nat

\* A Send that is queued or being handled still has its caller waiting: *ready is a
\* variable of the caller's frame (thread.cc 401-421), written by another thread
\* after the handler, or by Clear.
ReadyAlive ==
  \A m \in Ids :
    (msg[m].how = "send" /\ msg[m].from # msg[m].to /\ msg[m].st \in {"queued", "handling"}) =>
      \E i \in DOMAIN stack[msg[m].from] :
        LET f == stack[msg[m].from][i]
        IN f.m = m /\ f.at \in {"signal", "sent", "wait"}

\* A thread asleep with no wake-up pending has nothing to do: no posted message, no
\* quit, no reply it waits for, and a send only while its sender is about to wake it
\* (thread.cc 413-437: the wake-ups a Send consumes are given back).
NoLostWake ==
  \A t \in Threads :
    (Top(t).at = "wait" /\ ~queue[t].wake) =>
      /\ \A i \in 1..Len(queue[t].sendlist) :
           LET m == queue[t].sendlist[i] IN Top(msg[m].from) = Frame("signal", m)
      /\ Len(stack[t]) = 1 => queue[t].msgq = <<>> /\ ~queue[t].fStop
      /\ Len(stack[t]) > 1 => ~msg[Top(t).m].ready

\* The clock's bound comes before the end of the thread's Wait.
WaitsPastEnd(t) == wait[t].next \in (End + 1)..(Forever - 1) /\ Top(t).at = "wait"

\* No call is left hanging while no thread quits.  Two threads never wait for each
\* other: while it waits for a reply a thread serves what is sent to it (thread.cc
\* 418-422), so a Send is answered although its handler, or the handler of what it
\* serves meanwhile, sends back; and a posted message is handled once it is due,
\* although the wake-up that announced it was read by the Wait of a Send (424-437).
CallsSettle ==
  \A m \in 1..MaxMessages :
    (m \in Ids /\ msg[m].due <= End)
      ~> (m \in Ids /\ (\/ msg[m].st \in {"handled", "cleared"}
                        \/ \E q \in Threads : queue[q].fStop \/ WaitsPastEnd(q)))

\* Get takes exactly the delayed messages that are due when it read the time, and
\* the soonest first (messagequeue.cc 193-200; "sorted by trigger time",
\* messagequeue.h 153): a message that is not due never holds back one that is.
TimersInOrder ==
  [][\A t \in Threads :
       Top(t).at = "take" /\ stack'[t] # stack[t] =>
         \A m \in ToSet(queue[t].dmsgq) :
           Contains(queue'[t].dmsgq, m) <=> msg[m].due > wait[t].cur]_vars

\* "any pending Sends and *ready* Posts ... will be delivered before Get (or Peek)
\* returns false" (messagequeue.h 180-185): when a loop has ended, nothing is left
\* in its queue that was there before Quit.
QuitDelivers ==
  \A t \in Threads : InGet(t) = "ended" =>
    \A m \in ToSet(queue[t].msgq) \union ToSet(queue[t].sendlist) : ~msg[m].early
=============================================================================
