---------------------------- MODULE ThreadsProofs ----------------------------
(***************************************************************************)
(* Theorems about Threads, for any threads, scenarios, delays and clocks.  *)
(***************************************************************************)
EXTENDS Threads, QueueTheorems

-----------------------------------------------------------------------------
(* The inductive invariant.                                                *)

Message == [how : {"post", "delay", "send"}, from : Threads, to : Threads, due : Start..Forever,
            st : States, ready : BOOLEAN, early : BOOLEAN]

MessagesOK ==
  /\ msg \in Seq(Message)
  /\ \A m \in Ids : msg[m].ready => msg[m].st \in {"handled", "cleared"}

\* The messages of a queue are queued, each once and in the list for its kind.
Distinct(s) == \A m \in Held(s) : Once(s, m)

QueueRecord ==
  [msgq : Seq(Nat), dmsgq : Seq(Nat), sendlist : Seq(Nat), has_sends : BOOLEAN, fStop : BOOLEAN,
   wake : BOOLEAN]

QueueOK(t, M, q) ==
  /\ q \in QueueRecord
  /\ \A m \in Held(q.msgq) \cup Held(q.dmsgq) :
       m \in DOMAIN M /\ M[m].to = t /\ M[m].st = "queued" /\ M[m].how # "send"
  /\ \A m \in Held(q.sendlist) :
       m \in DOMAIN M /\ M[m].to = t /\ M[m].st = "queued" /\ M[m].how = "send" /\ M[m].from # t
  /\ Distinct(q.msgq) /\ Distinct(q.dmsgq) /\ Distinct(q.sendlist)
  /\ Held(q.msgq) \cap Held(q.dmsgq) = {}
  /\ ~q.has_sends => q.sendlist = <<>>

\* The stack of a thread: what may stand on what, and what the message of a frame has
\* come to.
Bottom == {"get", "take", "check", "wait", "ended"}
Calls == {"push", "enqueue", "signal", "sent", "wait"}

FrameRecord == [at : Places, m : Nat, waited : BOOLEAN]

Dispatched(t, k) ==
  k.to = t /\ (k.st = "handling" \/ (k.st = "calling" /\ k.from = t /\ k.how = "send"))

FrameOK(t, M, s, i) ==
  /\ s[i].at \in Calls \cup {"handle", "receive"}
  /\ s[i].waited => s[i].at \in {"sent", "wait"}
  /\ s[i].at = "receive" => s[i].m = 0 /\ (s[i - 1].at = "take" \/ (i > 2 /\ s[i - 1].at = "wait"))
  /\ s[i].at = "handle" =>
       /\ s[i - 1].at \in {"get", "receive", "handle"}
       /\ s[i].m # 0 => s[i].m \in DOMAIN M /\ Dispatched(t, M[s[i].m])
       /\ s[i - 1].at = "receive" => s[i].m # 0 /\ M[s[i].m].how = "send" /\ M[s[i].m].from # t
  /\ s[i].at \in Calls => s[i - 1].at = "handle" /\ s[i].m \in DOMAIN M /\ M[s[i].m].from = t
  /\ s[i].at = "push" => M[s[i].m].how # "send" /\ M[s[i].m].st = "calling"
  /\ s[i].at \in Calls \ {"push"} => M[s[i].m].how = "send" /\ M[s[i].m].to # t
  /\ s[i].at = "enqueue" => M[s[i].m].st = "calling"

StackOK(t, M, s) ==
  /\ s \in Seq(FrameRecord) /\ s # <<>>
  /\ s[1].at \in Bottom /\ s[1].m = 0 /\ ~s[1].waited
  /\ \A i \in 2..Len(s) : FrameOK(t, M, s, i)
  /\ \A i, j \in 2..Len(s) :
       s[i].at = "handle" /\ s[j].at = "handle" /\ s[i].m = s[j].m /\ s[i].m # 0 => i = j

ClockOK ==
  /\ budget \in [callers : SUBSET Threads, running : SUBSET Threads,
                 links : SUBSET (Threads \X Threads), post : Nat, delay : Nat, send : Nat,
                 deeds : Nat, ticks : Nat]
  /\ now \in Nat /\ Start <= now /\ now + budget.ticks + TimeSpace <= Forever
  /\ wait \in [Threads -> [cur : Start..now, next : Nat]]

ThreadsInv ==
  /\ MessagesOK /\ ClockOK
  /\ DOMAIN queue = Threads /\ \A t \in Threads : QueueOK(t, msg, queue[t])
  /\ DOMAIN stack = Threads /\ \A t \in Threads : StackOK(t, msg, stack[t])

\* A thread that will not look at its sends before it sleeps has none, or a wake-up is
\* there or about to come.
SendsHeard(t) ==
  Top(t).at \in {"take", "check", "wait"} =>
    \A m \in Held(queue[t].sendlist) : queue[t].wake \/ Top(msg[m].from) = Frame("signal", m)

\* The same of what was posted, and of fStop_, and of a reply: a Send further up the stack
\* that has read a wake-up gives it back.
PostsHeard(t) ==
  /\ InGet(t) \in {"check", "wait"} /\ queue[t].msgq # <<>> => queue[t].wake
  /\ InGet(t) = "wait" /\ queue[t].fStop => queue[t].wake
RepliesHeard(t) ==
  \A i \in 2..Len(stack[t]) :
    stack[t][i].at = "wait" /\ msg[stack[t][i].m].ready =>
      queue[t].wake \/ \E j \in (i + 1)..Len(stack[t]) : stack[t][j].waited

WakeInv == \A t \in Threads : SendsHeard(t) /\ PostsHeard(t) /\ RepliesHeard(t)

-----------------------------------------------------------------------------
(* Stacks.                                                                 *)

\* A stack without its top.
LEMMA StackPop ==
  ASSUME NEW t, NEW M, NEW s, StackOK(t, M, s), Len(s) > 1
  PROVE  /\ StackOK(t, M, Pop(s)) /\ Len(Pop(s)) = Len(s) - 1
         /\ \A i \in 1..(Len(s) - 1) : Pop(s)[i] = s[i]
<1>1. PICK n \in Nat : n = Len(s) /\ n > 1 /\ s \in Seq(FrameRecord)
  BY DEF StackOK
<1> DEFINE u == Pop(s)
<1>2. u \in Seq(FrameRecord) /\ Len(u) = n - 1 /\ \A i \in 1..(n - 1) : u[i] = s[i]
  BY <1>1 DEF Pop, Front
<1> HIDE DEF u
<1>3. u # <<>> /\ u[1] = s[1]
  BY <1>1, <1>2
<1>4. ASSUME NEW i \in 2..Len(u) PROVE FrameOK(t, M, u, i)
  <2>1. i \in 2..n /\ i \in 1..(n - 1) /\ i - 1 \in 1..(n - 1)
    BY <1>1, <1>2
  <2>2. u[i] = s[i] /\ u[i - 1] = s[i - 1] /\ FrameOK(t, M, s, i)
    BY <1>1, <1>2, <2>1 DEF StackOK
  <2> QED BY <2>2 DEF FrameOK
<1>5. \A i, j \in 2..Len(u) :
       u[i].at = "handle" /\ u[j].at = "handle" /\ u[i].m = u[j].m /\ u[i].m # 0 => i = j
  <2>1. \A i \in 2..Len(u) : i \in 2..n /\ u[i] = s[i]
    BY <1>1, <1>2
  <2> QED BY <1>1, <2>1 DEF StackOK
<1>6. StackOK(t, M, u)
  BY <1>2, <1>3, <1>4, <1>5 DEF StackOK
<1> QED BY <1>1, <1>2, <1>6 DEF u

\* A sequence of S stays one when an element is replaced.
LEMMA SeqPut ==
  ASSUME NEW S, NEW s \in Seq(S), NEW n \in 1..Len(s), NEW e \in S
  PROVE  [s EXCEPT ![n] = e] \in Seq(S)
OBVIOUS

\* A stack whose top has moved on.
SetTop(s, f) == [s EXCEPT ![Len(s)] = f]

\* The top of a stack moves on to another call.
LEMMA StackTop ==
  ASSUME NEW t, NEW M, NEW s, StackOK(t, M, s), NEW f \in FrameRecord,
         Len(s) > 1, f.at # "handle", FrameOK(t, M, SetTop(s, f), Len(s))
  PROVE  LET u == SetTop(s, f)
         IN /\ StackOK(t, M, u) /\ Len(u) = Len(s) /\ u[Len(s)] = f
            /\ \A i \in 1..(Len(s) - 1) : u[i] = s[i]
<1> DEFINE u == SetTop(s, f)
<1>0. u = [s EXCEPT ![Len(s)] = f] /\ FrameOK(t, M, u, Len(s))
  BY DEF SetTop
<1> HIDE DEF u
<1>1. PICK n \in Nat : n = Len(s) /\ n >= 1 /\ s \in Seq(FrameRecord) /\ s # <<>>
  BY DEF StackOK
<1>2. /\ u \in Seq(FrameRecord) /\ Len(u) = n /\ u[n] = f /\ u # <<>>
      /\ \A i \in 1..(n - 1) : u[i] = s[i]
  BY <1>0, <1>1
<1>3. u[1].at \in Bottom /\ u[1].m = 0 /\ ~u[1].waited
  <2>1. CASE n = 1
    BY <1>1, <1>2, <2>1
  <2>2. CASE n > 1
    <3>1. 1 \in 1..(n - 1)
      BY <2>2
    <3>2. u[1] = s[1]
      BY <1>2, <3>1
    <3> QED BY <3>2 DEF StackOK
  <2> QED BY <1>1, <2>1, <2>2
<1>4. ASSUME NEW i \in 2..n PROVE FrameOK(t, M, u, i)
  <2>1. CASE i = n
    BY <1>0, <1>1, <2>1
  <2>2. CASE i # n
    <3>1. i \in 1..(n - 1) /\ i - 1 \in 1..(n - 1)
      BY <2>2
    <3>2. u[i] = s[i] /\ u[i - 1] = s[i - 1] /\ FrameOK(t, M, s, i)
      BY <1>1, <1>2, <3>1 DEF StackOK
    <3> QED BY <3>2 DEF FrameOK
  <2> QED BY <2>1, <2>2
<1>5. \A i, j \in 2..n :
       u[i].at = "handle" /\ u[j].at = "handle" /\ u[i].m = u[j].m /\ u[i].m # 0 => i = j
  <2>1. \A i \in 2..n : u[i].at = "handle" => u[i] = s[i]
    <3> SUFFICES ASSUME NEW i \in 2..n, u[i].at = "handle" PROVE u[i] = s[i]
      OBVIOUS
    <3>1. i # n
      BY <1>1, <1>2
    <3>2. i \in 1..(n - 1)
      BY <3>1
    <3> QED BY <1>2, <3>2
  <2>2. \A i, j \in 2..n :
       s[i].at = "handle" /\ s[j].at = "handle" /\ s[i].m = s[j].m /\ s[i].m # 0 => i = j
    BY <1>1 DEF StackOK
  <2> QED BY <2>1, <2>2
<1>6. StackOK(t, M, u)
  BY <1>2, <1>3, <1>4, <1>5 DEF StackOK
<1> QED BY <1>1, <1>2, <1>6 DEF u

\* A stack with a new top.
LEMMA StackPush ==
  ASSUME NEW t, NEW M, NEW s, StackOK(t, M, s), NEW f \in FrameRecord,
         NEW u, u = Push(s, f), FrameOK(t, M, u, Len(s) + 1),
         f.at = "handle" /\ f.m # 0 => \A i \in 2..Len(s) : s[i].at = "handle" => s[i].m # f.m
  PROVE  /\ StackOK(t, M, u) /\ Len(u) = Len(s) + 1 /\ u[Len(u)] = f
         /\ \A i \in 1..Len(s) : u[i] = s[i]
<1>1. PICK n \in Nat : n = Len(s) /\ n >= 1 /\ s \in Seq(FrameRecord) /\ s # <<>>
  BY DEF StackOK
<1>2. /\ u \in Seq(FrameRecord) /\ Len(u) = n + 1 /\ u[n + 1] = f /\ u # <<>>
      /\ \A i \in 1..n : u[i] = s[i]
  BY <1>1 DEF Push
<1>3. u[1].at \in Bottom /\ u[1].m = 0 /\ ~u[1].waited
  <2>1. u[1] = s[1]
    BY <1>1, <1>2
  <2> QED BY <2>1 DEF StackOK
<1>4. ASSUME NEW i \in 2..(n + 1) PROVE FrameOK(t, M, u, i)
  <2>1. CASE i = n + 1
    BY <1>1, <2>1
  <2>2. CASE i # n + 1
    <3>1. i \in 2..n /\ i \in 1..n /\ i - 1 \in 1..n
      BY <2>2
    <3>2. u[i] = s[i] /\ u[i - 1] = s[i - 1] /\ FrameOK(t, M, s, i)
      BY <1>1, <1>2, <3>1 DEF StackOK
    <3> QED BY <3>2 DEF FrameOK
  <2> QED BY <2>1, <2>2
<1>5. ASSUME NEW i \in 2..(n + 1), NEW j \in 2..(n + 1),
             u[i].at = "handle", u[j].at = "handle", u[i].m = u[j].m, u[i].m # 0
      PROVE  i = j
  <2>1. \A k \in 2..(n + 1) : k # n + 1 => k \in 2..n /\ u[k] = s[k]
    BY <1>2
  <2>2. \A k, l \in 2..n :
       s[k].at = "handle" /\ s[l].at = "handle" /\ s[k].m = s[l].m /\ s[k].m # 0 => k = l
    BY <1>1 DEF StackOK
  <2>3. f.at = "handle" /\ f.m # 0 => \A k \in 2..n : s[k].at = "handle" => s[k].m # f.m
    BY <1>1
  <2> QED BY <1>2, <1>5, <2>1, <2>2, <2>3
<1>6. StackOK(t, M, u)
  BY <1>2, <1>3, <1>4, <1>5 DEF StackOK
<1> QED BY <1>1, <1>2, <1>6

\* The messages go on from M to N, with the same calls behind them.
SameCalls(M, N) ==
  /\ DOMAIN M \subseteq DOMAIN N
  /\ \A m \in DOMAIN M : N[m].how = M[m].how /\ N[m].from = M[m].from /\ N[m].to = M[m].to

\* The frames whose message is at rest while they stand.
Holding == {"push", "enqueue", "handle"}

\* A stack is as it was when the messages it holds are.
LEMMA StackKept ==
  ASSUME NEW t, NEW M, NEW s, StackOK(t, M, s), NEW N, SameCalls(M, N),
         \A i \in 2..Len(s) : s[i].at \in Holding /\ s[i].m \in DOMAIN M => N[s[i].m].st = M[s[i].m].st
  PROVE  StackOK(t, N, s)
<1>1. ASSUME NEW i \in 2..Len(s) PROVE FrameOK(t, N, s, i)
  <2>1. FrameOK(t, M, s, i)
    BY DEF StackOK
  <2> QED BY <2>1 DEF FrameOK, SameCalls, Holding, Dispatched, Calls
<1> QED BY <1>1 DEF StackOK

\* A queue is as it was when its messages are.
LEMMA QueueKept ==
  ASSUME NEW t, NEW M, NEW q, QueueOK(t, M, q), NEW N, SameCalls(M, N),
         \A m \in DOMAIN M : M[m].st = "queued" /\ M[m].to = t => N[m].st = M[m].st
  PROVE  QueueOK(t, N, q)
BY DEF QueueOK, SameCalls

\* A message is held by one frame.
LEMMA OneHolder ==
  ASSUME NEW M, NEW t, NEW s, StackOK(t, M, s), NEW i \in 2..Len(s),
         NEW u, NEW w, StackOK(u, M, w), NEW j \in 2..Len(w),
         s[i].at \in Holding, w[j].at \in Holding, s[i].m = w[j].m, s[i].m # 0,
         t = u => s = w
  PROVE  t = u /\ (s[i].at = "handle" => i = j) /\ (i = Len(s) => i = j)
<1>1. FrameOK(t, M, s, i) /\ FrameOK(u, M, w, j)
  BY DEF StackOK
<1>2. t = u
  BY <1>1 DEF FrameOK, Holding, Dispatched, Calls
<1>3. s[i].at = "handle" <=> w[j].at = "handle"
  BY <1>1 DEF FrameOK, Holding, Dispatched, Calls
<1>4. s[i].at = "handle" => i = j
  BY <1>2, <1>3 DEF StackOK
<1>5. s[i].at # "handle" /\ i = Len(s) => i = j
  <2> SUFFICES ASSUME s[i].at # "handle", i = Len(s), i # j PROVE FALSE
    OBVIOUS
  <2>1. s = w /\ j + 1 \in 2..Len(s)
    <3>1. Len(s) \in Nat
      BY DEF StackOK
    <3> QED BY <1>2, <3>1
  <2>2. FrameOK(t, M, s, j + 1)
    BY <2>1 DEF StackOK
  <2>3. s[(j + 1) - 1] = s[j]
    OBVIOUS
  <2> QED BY <1>3, <2>1, <2>2, <2>3 DEF FrameOK, Holding, Calls
<1> QED BY <1>2, <1>4, <1>5

-----------------------------------------------------------------------------
(* Messages.                                                               *)

\* Only message x has gone on.
Touched(M, N, x) ==
  SameCalls(M, N) /\ DOMAIN N = DOMAIN M /\ \A m \in DOMAIN M : m # x => N[m] = M[m]

\* The types of the state, and of the top of a stack.
LEMMA StateTypes ==
  ASSUME ThreadsInv
  PROVE  /\ msg \in Seq(Message) /\ Len(msg) \in Nat /\ Ids = 1..Len(msg)
         /\ \A m \in Ids : msg[m] \in Message /\ m \in Nat /\ m # 0
         /\ \A t \in Threads :
              /\ stack[t] \in Seq(FrameRecord) /\ Len(stack[t]) \in Nat /\ Len(stack[t]) >= 1
              /\ Top(t) = stack[t][Len(stack[t])] /\ Top(t) \in FrameRecord
              /\ StackOK(t, msg, stack[t]) /\ QueueOK(t, msg, queue[t]) /\ queue[t] \in QueueRecord
              /\ Len(stack[t]) > 1 => FrameOK(t, msg, stack[t], Len(stack[t]))
              /\ Len(stack[t]) = 1 => Top(t).at \in Bottom /\ Top(t).m = 0 /\ ~Top(t).waited
<1>1. msg \in Seq(Message) /\ Len(msg) \in Nat /\ Ids = 1..Len(msg)
  BY DEF ThreadsInv, MessagesOK, Ids
<1>2. \A m \in Ids : msg[m] \in Message /\ m \in Nat /\ m # 0
  BY <1>1
<1>3. ASSUME NEW t \in Threads
      PROVE  /\ stack[t] \in Seq(FrameRecord) /\ Len(stack[t]) \in Nat /\ Len(stack[t]) >= 1
             /\ Top(t) = stack[t][Len(stack[t])] /\ Top(t) \in FrameRecord
             /\ StackOK(t, msg, stack[t]) /\ QueueOK(t, msg, queue[t]) /\ queue[t] \in QueueRecord
             /\ Len(stack[t]) > 1 => FrameOK(t, msg, stack[t], Len(stack[t]))
             /\ Len(stack[t]) = 1 => Top(t).at \in Bottom /\ Top(t).m = 0 /\ ~Top(t).waited
  <2>1. StackOK(t, msg, stack[t]) /\ QueueOK(t, msg, queue[t])
    BY DEF ThreadsInv
  <2>2. stack[t] \in Seq(FrameRecord) /\ stack[t] # <<>> /\ Len(stack[t]) \in Nat
    BY <2>1 DEF StackOK
  <2>3. Len(stack[t]) >= 1 /\ stack[t][Len(stack[t])] \in FrameRecord
    BY <2>2
  <2>4. Top(t) = stack[t][Len(stack[t])]
    BY DEF Top, Last
  <2>5. Len(stack[t]) > 1 => FrameOK(t, msg, stack[t], Len(stack[t]))
    BY <2>1, <2>2 DEF StackOK
  <2>6. Len(stack[t]) = 1 => Top(t).at \in Bottom /\ Top(t).m = 0 /\ ~Top(t).waited
    BY <2>1, <2>4 DEF StackOK
  <2>7. queue[t] \in QueueRecord
    BY <2>1 DEF QueueOK
  <2> QED BY <2>1, <2>2, <2>3, <2>4, <2>5, <2>6, <2>7
<1> QED BY <1>1, <1>2, <1>3

\* A queued message of t that goes on is in no frame and in no other queue.
LEMMA TouchQueued ==
  ASSUME ThreadsInv, NEW t \in Threads, NEW x \in Ids, msg[x].st = "queued", msg[x].to = t,
         NEW N, Touched(msg, N, x)
  PROVE  /\ \A u \in Threads : StackOK(u, N, stack[u])
         /\ \A u \in Threads : u # t => QueueOK(u, N, queue[u])
<1>1. SameCalls(msg, N) /\ \A m \in DOMAIN msg : m # x => N[m] = msg[m]
  BY DEF Touched
<1>2. ASSUME NEW u \in Threads PROVE StackOK(u, N, stack[u])
  <2>1. StackOK(u, msg, stack[u])
    BY StateTypes
  <2>2. ASSUME NEW i \in 2..Len(stack[u]), stack[u][i].at \in Holding, stack[u][i].m \in DOMAIN msg
        PROVE  N[stack[u][i].m].st = msg[stack[u][i].m].st
    <3>1. FrameOK(u, msg, stack[u], i)
      BY <2>1 DEF StackOK
    <3>2. 0 \notin DOMAIN msg
      BY StateTypes DEF Ids
    <3>3. stack[u][i].m # x
      BY <2>2, <3>1, <3>2 DEF FrameOK, Holding, Dispatched
    <3> QED BY <1>1, <2>2, <3>3
  <2> QED BY <1>1, <2>1, <2>2, StackKept
<1>3. ASSUME NEW u \in Threads, u # t PROVE QueueOK(u, N, queue[u])
  <2>1. QueueOK(u, msg, queue[u])
    BY StateTypes
  <2>2. \A m \in DOMAIN msg : msg[m].st = "queued" /\ msg[m].to = u => N[m].st = msg[m].st
    BY <1>1, <1>3
  <2> QED BY <1>1, <2>1, <2>2, QueueKept
<1> QED BY <1>2, <1>3

\* A message that t holds at the top of its stack and that goes on is in no other frame and
\* in no queue.
LEMMA TouchHeld ==
  ASSUME ThreadsInv, NEW t \in Threads, Len(stack[t]) > 1, Top(t).at \in Holding,
         NEW x \in Ids, x = Top(t).m, NEW N, Touched(msg, N, x)
  PROVE  /\ \A u \in Threads : QueueOK(u, N, queue[u])
         /\ \A u \in Threads : u # t => StackOK(u, N, stack[u])
         /\ StackOK(t, N, Pop(stack[t]))
         /\ \A s : /\ StackOK(t, msg, s) /\ Len(s) = Len(stack[t]) /\ s[Len(s)].at \notin Holding
                   /\ \A i \in 1..(Len(s) - 1) : s[i] = stack[t][i]
                   => StackOK(t, N, s)
<1>1. SameCalls(msg, N) /\ \A m \in DOMAIN msg : m # x => N[m] = msg[m]
  BY DEF Touched
<1>2. PICK n \in Nat : /\ n = Len(stack[t]) /\ n > 1 /\ n \in 2..Len(stack[t]) /\ x # 0
                       /\ StackOK(t, msg, stack[t]) /\ FrameOK(t, msg, stack[t], n)
                       /\ stack[t][n].at \in Holding /\ stack[t][n].m = x
  BY StateTypes
<1>3. msg[x].st # "queued"
  BY <1>2 DEF FrameOK, Holding, Dispatched
<1>4. ASSUME NEW u \in Threads PROVE QueueOK(u, N, queue[u])
  <2>1. QueueOK(u, msg, queue[u])
    BY StateTypes
  <2>2. \A m \in DOMAIN msg : msg[m].st = "queued" /\ msg[m].to = u => N[m].st = msg[m].st
    BY <1>1, <1>3
  <2> QED BY <1>1, <2>1, <2>2, QueueKept
<1>5. ASSUME NEW u \in Threads, NEW j \in 2..Len(stack[u]), stack[u][j].at \in Holding,
             stack[u][j].m = x
      PROVE  u = t /\ j = n
  <2>1. StackOK(u, msg, stack[u])
    BY StateTypes
  <2>2. t = u /\ (n = Len(stack[t]) => n = j)
    BY <1>2, <1>5, <2>1, OneHolder
  <2> QED BY <1>2, <2>2
<1>6. ASSUME NEW u \in Threads, u # t PROVE StackOK(u, N, stack[u])
  <2>1. StackOK(u, msg, stack[u])
    BY StateTypes
  <2>2. ASSUME NEW i \in 2..Len(stack[u]), stack[u][i].at \in Holding, stack[u][i].m \in DOMAIN msg
        PROVE  N[stack[u][i].m].st = msg[stack[u][i].m].st
    BY <1>1, <1>5, <1>6, <2>2
  <2> QED BY <1>1, <2>1, <2>2, StackKept
<1>7. ASSUME NEW s, StackOK(t, msg, s), Len(s) <= n, Len(s) = n => s[n].at \notin Holding,
             \A i \in 1..(n - 1) : i <= Len(s) => s[i] = stack[t][i]
      PROVE  StackOK(t, N, s)
  <2>1. Len(s) \in Nat
    BY <1>7 DEF StackOK
  <2>2. ASSUME NEW i \in 2..Len(s), s[i].at \in Holding, s[i].m \in DOMAIN msg
        PROVE  N[s[i].m].st = msg[s[i].m].st
    <3>1. i # n
      BY <1>2, <1>7, <2>1, <2>2
    <3>2. i \in 1..(n - 1) /\ i \in 2..Len(stack[t])
      BY <1>2, <1>7, <2>1, <3>1
    <3>3. s[i] = stack[t][i]
      BY <1>7, <2>1, <3>2
    <3>4. s[i].m # x
      BY <1>5, <2>2, <3>1, <3>2, <3>3
    <3> QED BY <1>1, <2>2, <3>4
  <2> QED BY <1>1, <1>7, <2>2, StackKept
<1>8. StackOK(t, N, Pop(stack[t]))
  <2>1. /\ StackOK(t, msg, Pop(stack[t])) /\ Len(Pop(stack[t])) = n - 1
        /\ \A i \in 1..(n - 1) : Pop(stack[t])[i] = stack[t][i]
    <3> DEFINE w == stack[t]
    <3>1. StackOK(t, msg, w) /\ Len(w) > 1 /\ Len(w) = n
      BY <1>2
    <3> HIDE DEF w
    <3>2. /\ StackOK(t, msg, Pop(w)) /\ Len(Pop(w)) = Len(w) - 1
          /\ \A i \in 1..(Len(w) - 1) : Pop(w)[i] = w[i]
      BY <3>1, StackPop
    <3> QED BY <3>1, <3>2 DEF w
  <2>2. n - 1 <= n /\ n - 1 # n
    OBVIOUS
  <2> QED BY <1>7, <2>1, <2>2
<1>9. ASSUME NEW s, StackOK(t, msg, s), Len(s) = Len(stack[t]), s[Len(s)].at \notin Holding,
             \A i \in 1..(Len(s) - 1) : s[i] = stack[t][i]
      PROVE  StackOK(t, N, s)
  BY <1>2, <1>7, <1>9
<1> QED BY <1>4, <1>6, <1>8, <1>9

\* One message gets another state.
Marked(m, st, b, e) == [msg EXCEPT ![m] = [msg[m] EXCEPT !.st = st, !.ready = b, !.early = e]]

\* A message that is marked stays the same call, and no other changes.
LEMMA TouchOne ==
  ASSUME ThreadsInv, NEW x \in Ids, NEW st \in States, NEW b \in BOOLEAN, NEW e \in BOOLEAN,
         msg' = Marked(x, st, b, e), b = FALSE \/ st \in {"handled", "cleared"}
  PROVE  /\ Touched(msg, msg', x) /\ SameCalls(msg, msg') /\ Ids' = Ids /\ MessagesOK'
         /\ msg'[x].st = st /\ msg'[x].ready = b /\ \A m \in Ids : m # x => msg'[m] = msg[m]
<1> DEFINE k == [msg[x] EXCEPT !.st = st, !.ready = b, !.early = e]
<1>1. msg \in Seq(Message) /\ x \in 1..Len(msg) /\ msg[x] \in Message /\ x \in DOMAIN msg
  BY StateTypes DEF Ids
<1>2. /\ k \in Message /\ k.how = msg[x].how /\ k.from = msg[x].from /\ k.to = msg[x].to
      /\ k.st = st /\ k.ready = b
  BY <1>1 DEF Message
<1>3. msg' = [msg EXCEPT ![x] = k]
  BY DEF Marked
<1> HIDE DEF k
<1>4. /\ msg' \in Seq(Message) /\ DOMAIN msg' = DOMAIN msg /\ msg'[x] = k
      /\ \A m \in DOMAIN msg : m # x => msg'[m] = msg[m]
  BY <1>1, <1>2, <1>3
<1>5. Touched(msg, msg', x) /\ SameCalls(msg, msg')
  BY <1>1, <1>2, <1>4 DEF Touched, SameCalls
<1>6. \A m \in Ids' : msg'[m].ready => msg'[m].st \in {"handled", "cleared"}
  <2> SUFFICES ASSUME NEW m \in Ids', msg'[m].ready PROVE msg'[m].st \in {"handled", "cleared"}
    OBVIOUS
  <2>1. m \in DOMAIN msg
    BY <1>4 DEF Ids
  <2>2. CASE m = x
    BY <1>2, <1>4, <2>2
  <2>3. CASE m # x
    BY <1>4, <2>1, <2>3 DEF ThreadsInv, MessagesOK, Ids
  <2> QED BY <2>2, <2>3
<1> QED BY <1>2, <1>4, <1>5, <1>6 DEF MessagesOK, Ids

-----------------------------------------------------------------------------
(* Queues.                                                                 *)

\* A queue holds nothing twice exactly when it holds each message at most once.
LEMMA DistinctOnce ==
  ASSUME NEW s
  PROVE  Distinct(s) <=> \A x : Once(s, x)
BY DEF Distinct, Held, Once

\* The first position in T.
LEMMA FirstIn ==
  ASSUME NEW N \in Nat, NEW T
  PROVE  \E n \in 0..N : (\A i \in 1..n : i \notin T) /\ (n < N => n + 1 \in T)
<1>1. CASE \A i \in 1..N : i \notin T
  BY <1>1
<1>2. CASE ~\A i \in 1..N : i \notin T
  <2> DEFINE S == {i \in 1..N : i \in T}
  <2>1. S \subseteq Nat /\ S # {}
    BY <1>2
  <2>2. PICK x \in S : \A y \in S : x <= y
    <3> HIDE DEF S
    <3> QED BY <2>1, LeastElement
  <2>3. x - 1 \in 0..N /\ (x - 1) + 1 = x /\ x \in T
    OBVIOUS
  <2>4. ASSUME NEW i \in 1..(x - 1) PROVE i \notin T
    <3>1. i \in 1..N /\ ~(x <= i)
      BY <2>3
    <3> QED BY <2>2, <3>1
  <2> QED BY <2>3, <2>4
<1> QED BY <1>1, <1>2

\* The two parts of a queue.
LEMMA SplitQueue ==
  ASSUME NEW M, NEW d \in Seq(M), NEW p \in 0..Len(d)
  PROVE  /\ SubSeq(d, 1, p) \in Seq(M) /\ SubSeq(d, p + 1, Len(d)) \in Seq(M)
         /\ Held(d) = Held(SubSeq(d, 1, p)) \cup Held(SubSeq(d, p + 1, Len(d)))
         /\ Distinct(d) => /\ Distinct(SubSeq(d, 1, p)) /\ Distinct(SubSeq(d, p + 1, Len(d)))
                           /\ Held(SubSeq(d, 1, p)) \cap Held(SubSeq(d, p + 1, Len(d))) = {}
<1> DEFINE a == SubSeq(d, 1, p)
           b == SubSeq(d, p + 1, Len(d))
<1>1. PICK n \in Nat : n = Len(d) /\ p \in 0..n
  OBVIOUS
<1>2. a \in Seq(M) /\ Len(a) = p /\ \A i \in 1..p : a[i] = d[i]
  BY <1>1
<1>3. b \in Seq(M) /\ Len(b) = n - p /\ \A i \in 1..(n - p) : b[i] = d[p + i]
  <2>1. b \in Seq(M)
    BY <1>1
  <2>2. Len(b) = n - p
    BY <1>1
  <2>3. \A i \in 1..(n - p) : b[i] = d[p + i]
    BY <1>1
  <2> QED BY <2>1, <2>2, <2>3
<1> HIDE DEF a, b
<1>4. Held(d) = Held(a) \cup Held(b)
  <2>1. ASSUME NEW i \in 1..n PROVE d[i] \in Held(a) \cup Held(b)
    <3>1. CASE i <= p
      BY <1>2, <3>1 DEF Held
    <3>2. CASE i > p
      <4>1. i - p \in 1..(n - p) /\ p + (i - p) = i
        BY <1>1, <3>2
      <4>2. b[i - p] = d[i]
        BY <1>3, <4>1
      <4> QED BY <1>3, <4>1, <4>2 DEF Held
    <3> QED BY <1>1, <3>1, <3>2
  <2>2. ASSUME NEW i \in 1..p PROVE a[i] \in Held(d)
    BY <1>1, <1>2 DEF Held
  <2>3. ASSUME NEW i \in 1..(n - p) PROVE b[i] \in Held(d)
    <3>1. p + i \in 1..n
      BY <1>1
    <3> QED BY <1>1, <1>3, <3>1 DEF Held
  <2>4. Held(d) \subseteq Held(a) \cup Held(b)
    BY <1>1, <2>1 DEF Held
  <2>5. Held(a) \subseteq Held(d)
    BY <1>2, <2>2 DEF Held
  <2>6. Held(b) \subseteq Held(d)
    BY <1>3, <2>3 DEF Held
  <2> QED BY <2>4, <2>5, <2>6
<1>5. ASSUME Distinct(d) PROVE Distinct(a) /\ Distinct(b) /\ Held(a) \cap Held(b) = {}
  <2>0. \A i, j \in 1..n : d[i] = d[j] => i = j
    BY <1>1, <1>5, DistinctOnce DEF Once
  <2>1. \A i, j \in 1..p : a[i] = a[j] => i = j
    BY <1>1, <1>2, <2>0
  <2>2. \A i, j \in 1..(n - p) : b[i] = b[j] => i = j
    <3> SUFFICES ASSUME NEW i \in 1..(n - p), NEW j \in 1..(n - p), b[i] = b[j] PROVE i = j
      OBVIOUS
    <3>1. p + i \in 1..n /\ p + j \in 1..n
      BY <1>1
    <3>2. p + i = p + j
      BY <1>3, <2>0, <3>1
    <3> QED BY <1>1, <3>2
  <2>3. ASSUME NEW i \in 1..p, NEW j \in 1..(n - p), a[i] = b[j] PROVE FALSE
    <3>1. i \in 1..n /\ p + j \in 1..n /\ i # p + j
      BY <1>1
    <3> QED BY <1>2, <1>3, <2>0, <2>3, <3>1
  <2> QED BY <1>2, <1>3, <2>1, <2>2, <2>3 DEF Distinct, Once, Held
<1> QED BY <1>2, <1>3, <1>4, <1>5 DEF a, b

\* The priority queue with another message.
LEMMA InsertQueue ==
  ASSUME NEW d \in Seq(Nat), NEW m \in Nat
  PROVE  /\ Insert(d, m) \in Seq(Nat) /\ Held(Insert(d, m)) = Held(d) \cup {m}
         /\ Distinct(d) /\ m \notin Held(d) => Distinct(Insert(d, m))
<1> DEFINE T == {i \in 1..Len(d) : Sooner(m, d[i])}
           p == Place(d, m)
<1>1. \E n \in 0..Len(d) : /\ \A i \in 1..n : ~Sooner(m, d[i])
                           /\ n < Len(d) => Sooner(m, d[n + 1])
  <2>1. PICK n \in 0..Len(d) : (\A i \in 1..n : i \notin T) /\ (n < Len(d) => n + 1 \in T)
    <3>1. Len(d) \in Nat
      OBVIOUS
    <3> HIDE DEF T
    <3> QED BY <3>1, FirstIn
  <2> QED BY <2>1
<1>2. p \in 0..Len(d)
  BY <1>1 DEF Place
<1>3. Insert(d, m) = SubSeq(d, 1, p) \o <<m>> \o SubSeq(d, p + 1, Len(d))
  BY DEF Insert
<1> HIDE DEF p
<1> DEFINE a == SubSeq(d, 1, p)
           c == <<m>>
           b == SubSeq(d, p + 1, Len(d))
<1>4. /\ a \in Seq(Nat) /\ b \in Seq(Nat) /\ Held(d) = Held(a) \cup Held(b)
      /\ Distinct(d) => Distinct(a) /\ Distinct(b) /\ Held(a) \cap Held(b) = {}
  BY <1>2, SplitQueue
<1>5. c \in Seq(Nat) /\ Held(c) = {m} /\ \A x : Once(c, x)
  BY ShortQueues
<1>6. Insert(d, m) = a \o c \o b
  BY <1>3
<1> HIDE DEF a, b, c
<1>7. /\ a \o c \o b \in Seq(Nat) /\ Held(a \o c \o b) = Held(a) \cup Held(c) \cup Held(b)
      /\ \A x : /\ Once(a, x) /\ Once(c, x) /\ Once(b, x)
                /\ x \in Held(a) => x \notin Held(c) /\ x \notin Held(b)
                /\ x \in Held(c) => x \notin Held(b)
                => Once(a \o c \o b, x)
  BY <1>4, <1>5, ThreeQueues
<1>8. ASSUME Distinct(d), m \notin Held(d) PROVE Distinct(a \o c \o b)
  <2>1. (\A x : Once(a, x)) /\ (\A x : Once(b, x))
    BY <1>4, <1>8, DistinctOnce
  <2>2. \A x : Once(a \o c \o b, x)
    BY <1>4, <1>5, <1>7, <1>8, <2>1
  <2> QED BY <2>2, DistinctOnce
<1> QED BY <1>4, <1>5, <1>6, <1>7, <1>8

\* WakeUp only sets the flag of one thread.
LEMMA WakeUpFacts ==
  ASSUME NEW M, NEW qs, DOMAIN qs = Threads, NEW u \in Threads, QueueOK(u, M, qs[u]), NEW w \in Threads
  PROVE  LET k == WakeUp(qs, w)[u]
         IN /\ DOMAIN WakeUp(qs, w) = Threads /\ QueueOK(u, M, k)
            /\ k.msgq = qs[u].msgq /\ k.dmsgq = qs[u].dmsgq /\ k.sendlist = qs[u].sendlist
            /\ k.has_sends = qs[u].has_sends /\ k.fStop = qs[u].fStop
            /\ u # w => k = qs[u]
            /\ u = w => k.wake = TRUE
<1> DEFINE k == [qs[w] EXCEPT !.wake = TRUE]
<1>1. qs[u] \in QueueRecord
  BY DEF QueueOK
<1>2. WakeUp(qs, w) = [qs EXCEPT ![w] = k]
  BY DEF WakeUp
<1> HIDE DEF k
<1>3. /\ DOMAIN WakeUp(qs, w) = Threads /\ WakeUp(qs, w)[w] = k
      /\ u # w => WakeUp(qs, w)[u] = qs[u]
  BY <1>2
<1>4. CASE u = w
  <2>1. /\ k \in QueueRecord /\ k.msgq = qs[u].msgq /\ k.dmsgq = qs[u].dmsgq
        /\ k.sendlist = qs[u].sendlist /\ k.has_sends = qs[u].has_sends /\ k.fStop = qs[u].fStop
        /\ k.wake = TRUE
    BY <1>1, <1>4 DEF QueueRecord, k
  <2>2. QueueOK(u, M, k)
    BY <2>1 DEF QueueOK
  <2> QED BY <1>3, <1>4, <2>1, <2>2
<1>5. CASE u # w
  BY <1>3, <1>5
<1> QED BY <1>4, <1>5

-----------------------------------------------------------------------------
(* What a step of t does to the other threads.                             *)

Waiting == {"signal", "sent", "wait"}

\* The callers that are waited for stay, when t drops none of them.
LEMMA ReadyKept ==
  ASSUME ReadyAlive, ThreadsInv, NEW t \in Threads, SameCalls(msg, msg'),
         \A u \in Threads : u # t => stack'[u] = stack[u],
         \A m \in Ids' : m \in Ids /\ msg'[m].st \in {"queued", "handling"}
                           => \/ msg[m].st \in {"queued", "handling"}
                              \/ msg'[m].from = msg'[m].to
                              \/ msg'[m].how # "send"
                              \/ /\ msg'[m].from = t
                                 /\ \E i \in DOMAIN stack'[t] :
                                      stack'[t][i].m = m /\ stack'[t][i].at \in Waiting,
         \A m \in Ids' : m \notin Ids => msg'[m].st \notin {"queued", "handling"},
         \A i \in 1..Len(stack[t]) :
           /\ stack[t][i].at \in Waiting /\ stack[t][i].m \in Ids
           /\ msg'[stack[t][i].m].st \in {"queued", "handling"}
           => \E j \in DOMAIN stack'[t] :
                stack'[t][j].m = stack[t][i].m /\ stack'[t][j].at \in Waiting
  PROVE  ReadyAlive'
<1> SUFFICES ASSUME NEW m \in Ids', msg'[m].how = "send", msg'[m].from # msg'[m].to,
                    msg'[m].st \in {"queued", "handling"}
             PROVE  \E i \in DOMAIN stack'[msg'[m].from] :
                      /\ stack'[msg'[m].from][i].m = m
                      /\ stack'[msg'[m].from][i].at \in {"signal", "sent", "wait"}
  BY DEF ReadyAlive
<1>1. m \in Ids
  OBVIOUS
<1>2. /\ msg'[m].how = msg[m].how /\ msg'[m].from = msg[m].from /\ msg'[m].to = msg[m].to
      /\ msg[m].from \in Threads
  <2>1. msg[m] \in Message
    BY <1>1, StateTypes
  <2> QED BY <1>1, <2>1 DEF SameCalls, Ids, Message
<1>3. CASE msg[m].st \in {"queued", "handling"}
  <2>1. PICK i \in DOMAIN stack[msg[m].from] :
          stack[msg[m].from][i].m = m /\ stack[msg[m].from][i].at \in {"signal", "sent", "wait"}
    BY <1>1, <1>2, <1>3 DEF ReadyAlive
  <2>2. CASE msg[m].from # t
    <3>1. stack'[msg[m].from] = stack[msg[m].from]
      BY <1>2, <2>2
    <3> QED BY <1>2, <2>1, <3>1
  <2>3. CASE msg[m].from = t
    <3>1. i \in 1..Len(stack[t])
      BY <2>3, StateTypes
    <3>2. \E j \in DOMAIN stack'[t] : stack'[t][j].m = m /\ stack'[t][j].at \in Waiting
      BY <1>1, <2>1, <2>3, <3>1 DEF Waiting
    <3> QED BY <1>2, <2>3, <3>2 DEF Waiting
  <2> QED BY <2>2, <2>3
<1>4. CASE msg[m].st \notin {"queued", "handling"}
  BY <1>1, <1>4 DEF Waiting
<1> QED BY <1>3, <1>4

\* The other threads hear what they have to, when t takes no wake-up from them.
LEMMA WakeKept ==
  ASSUME WakeInv, ThreadsInv, NEW t \in Threads, SameCalls(msg, msg'),
         \A u \in Threads : u # t => stack'[u] = stack[u],
         \A u \in Threads : u # t => (queue[u].wake => queue'[u].wake),
         \A u \in Threads : u # t =>
           \A m \in Held(queue'[u].sendlist) :
             \/ m \in Held(queue[u].sendlist)
             \/ m \in Ids /\ msg[m].from = t /\ Top(t)' = Frame("signal", m),
         \A u \in Threads : u # t => (queue'[u].msgq # <<>> => queue[u].msgq # <<>> \/ queue'[u].wake),
         \A u \in Threads : u # t => (queue'[u].fStop => queue[u].fStop \/ queue'[u].wake),
         Top(t).at = "signal" => queue'[msg[Top(t).m].to].wake,
         \A m \in Ids : msg'[m].ready => msg[m].ready \/ queue'[msg[m].from].wake
  PROVE  \A u \in Threads : u # t => SendsHeard(u)' /\ PostsHeard(u)' /\ RepliesHeard(u)'
<1> SUFFICES ASSUME NEW u \in Threads, u # t
             PROVE  SendsHeard(u)' /\ PostsHeard(u)' /\ RepliesHeard(u)'
  OBVIOUS
<1>0. /\ SendsHeard(u) /\ PostsHeard(u) /\ RepliesHeard(u) /\ stack'[u] = stack[u]
      /\ queue[u].wake => queue'[u].wake
      /\ QueueOK(u, msg, queue[u]) /\ StackOK(u, msg, stack[u])
  BY StateTypes DEF WakeInv
<1>1. Top(u)' = Top(u) /\ InGet(u)' = InGet(u)
  BY <1>0 DEF Top, InGet, Last
<1>2. SendsHeard(u)'
  <2> SUFFICES ASSUME Top(u)'.at \in {"take", "check", "wait"}, NEW m \in Held(queue'[u].sendlist)
               PROVE  queue'[u].wake \/ Top(msg[m].from)' = Frame("signal", m)
    BY DEF SendsHeard, Frame
  <2>1. CASE m \in Held(queue[u].sendlist)
    <3>1. queue[u].wake \/ Top(msg[m].from) = Frame("signal", m)
      BY <1>0, <1>1, <2>1 DEF SendsHeard
    <3>2. m \in DOMAIN msg /\ msg[m].to = u /\ msg'[m].from = msg[m].from
      BY <1>0, <2>1 DEF QueueOK, SameCalls
    <3>3. msg[m].from \in Threads
      <4>1. msg[m] \in Message
        BY <3>2, StateTypes DEF Ids
      <4> QED BY <4>1 DEF Message
    <3>4. CASE Top(msg[m].from) = Frame("signal", m) /\ msg[m].from = t
      <4>1. Top(t).at = "signal" /\ Top(t).m = m
        BY <3>4 DEF Frame
      <4> QED BY <3>2, <4>1
    <3>5. CASE Top(msg[m].from) = Frame("signal", m) /\ msg[m].from # t
      <4>1. stack'[msg[m].from] = stack[msg[m].from]
        BY <3>3, <3>5
      <4>2. stack'[msg'[m].from] = stack[msg[m].from]
        BY <3>2, <4>1
      <4> QED BY <3>2, <3>5, <4>2 DEF Top, Last
    <3> QED BY <1>0, <3>1, <3>4, <3>5
  <2>2. CASE m \in Ids /\ msg[m].from = t /\ Top(t)' = Frame("signal", m)
    <3>1. msg'[m].from = t
      BY <2>2 DEF SameCalls, Ids
    <3>2. Top(msg[m].from)' = Frame("signal", m)
      BY <2>2, <3>1 DEF Top
    <3> QED BY <3>2
  <2> QED BY <2>1, <2>2
<1>3. PostsHeard(u)'
  BY <1>0, <1>1 DEF PostsHeard
<1>4. RepliesHeard(u)'
  <2> SUFFICES ASSUME NEW i \in 2..Len(stack[u]), stack[u][i].at = "wait",
                      msg'[stack[u][i].m].ready
               PROVE  queue'[u].wake \/ \E j \in (i + 1)..Len(stack[u]) : stack[u][j].waited
    BY <1>0 DEF RepliesHeard
  <2>1. stack[u][i].m \in Ids /\ msg[stack[u][i].m].from = u
    BY <1>0 DEF StackOK, FrameOK, Calls, Ids
  <2>2. msg[stack[u][i].m].ready \/ queue'[u].wake
    BY <2>1
  <2> QED BY <1>0, <2>2 DEF RepliesHeard
<1> QED BY <1>2, <1>3, <1>4

\* What is proved of every step.
Preserved == ThreadsInv' /\ (WakeInv => WakeInv') /\ (ReadyAlive => ReadyAlive')

\* The replies t waits for, after a step of t that only changes the top of its stack.
LEMMA RepliesOwn ==
  ASSUME ThreadsInv, NEW t \in Threads, RepliesHeard(t), queue[t].wake => queue'[t].wake,
         \A m \in Ids : msg'[m].ready => msg[m].ready \/ queue'[msg[m].from].wake,
         \A i \in 2..Len(stack'[t]) : stack'[t][i].at = "wait" =>
           \/ /\ i \in 2..Len(stack[t]) /\ stack[t][i] = stack'[t][i]
              /\ \A j \in (i + 1)..Len(stack[t]) : stack[t][j].waited =>
                   queue'[t].wake \/ \E k \in (i + 1)..Len(stack'[t]) : stack'[t][k].waited
           \/ ~msg'[stack'[t][i].m].ready
  PROVE  RepliesHeard(t)'
<1> SUFFICES ASSUME NEW i \in 2..Len(stack'[t]), stack'[t][i].at = "wait",
                    msg'[stack'[t][i].m].ready
             PROVE  queue'[t].wake \/ \E j \in (i + 1)..Len(stack'[t]) : stack'[t][j].waited
  BY DEF RepliesHeard
<1>1. /\ i \in 2..Len(stack[t]) /\ stack[t][i] = stack'[t][i]
      /\ \A j \in (i + 1)..Len(stack[t]) : stack[t][j].waited =>
           queue'[t].wake \/ \E k \in (i + 1)..Len(stack'[t]) : stack'[t][k].waited
  OBVIOUS
<1>2. stack[t][i].m \in Ids /\ msg[stack[t][i].m].from = t
  <2>1. StackOK(t, msg, stack[t])
    BY StateTypes
  <2> QED BY <1>1, <2>1 DEF StackOK, FrameOK, Calls, Ids
<1>3. msg[stack[t][i].m].ready \/ queue'[t].wake
  BY <1>1, <1>2
<1>4. CASE msg[stack[t][i].m].ready
  <2>1. queue[t].wake \/ \E j \in (i + 1)..Len(stack[t]) : stack[t][j].waited
    BY <1>1, <1>4 DEF RepliesHeard
  <2> QED BY <1>1, <2>1
<1> QED BY <1>3, <1>4

\* A thread in a handler has at least two frames.
LEMMA InHandlerDeep ==
  ASSUME ThreadsInv, NEW t \in Threads, Top(t).at \notin Bottom
  PROVE  /\ Len(stack[t]) > 1 /\ Len(stack[t]) \in 2..Len(stack[t])
         /\ FrameOK(t, msg, stack[t], Len(stack[t]))
<1>1. PICK n \in Nat : n = Len(stack[t])
  BY StateTypes
<1>2. n >= 1 /\ n # 1
  BY <1>1, StateTypes
<1>3. n > 1
  BY <1>2
<1>4. FrameOK(t, msg, stack[t], Len(stack[t]))
  BY <1>1, <1>3, StateTypes
<1> QED BY <1>1, <1>3, <1>4

\* Post, PostDelayed and Send make a message.
LEMMA CallKept ==
  ASSUME ThreadsInv, NEW t \in Threads, NEW q \in Threads, NEW how \in {"post", "delay", "send"},
         NEW due \in Start..Forever, NEW at, Call(t, q, NewMessage(how, t, q, due), at),
         how # "send" => at = "push",
         how = "send" => at = IF q = t THEN "handle" ELSE "enqueue"
  PROVE  Preserved
<1> DEFINE s == stack[t]
           n == Len(s)
           x == Len(msg) + 1
           new == NewMessage(how, t, q, due)
           k == IF queue[q].fStop THEN [new EXCEPT !.st = "dropped"] ELSE new
           f == Frame(at, x)
<1>0. /\ msg \in Seq(Message) /\ Len(msg) \in Nat /\ Ids = 1..Len(msg) /\ n \in Nat /\ n > 1
      /\ s \in Seq(FrameRecord) /\ StackOK(t, msg, s) /\ s[n] = Top(t) /\ Top(t).at = "handle"
  <2>1. Top(t).at = "handle"
    BY DEF Call, InHandler
  <2>2. n > 1
    BY <2>1, InHandlerDeep DEF Bottom
  <2> QED BY <2>1, <2>2, StateTypes
<1>1. /\ msg' = Append(msg, k)
      /\ stack' = IF queue[q].fStop THEN stack ELSE [stack EXCEPT ![t] = Push(s, f)]
      /\ budget' = [budget EXCEPT ![how] = @ - 1] /\ budget[how] > 0
      /\ queue' = queue /\ wait' = wait /\ now' = now
  BY DEF Call, NewMessage
<1>2. /\ k \in Message /\ k.how = how /\ k.from = t /\ k.to = q /\ ~k.ready
      /\ k.st \in {"calling", "dropped"} /\ (~queue[q].fStop => k.st = "calling")
  BY DEF NewMessage, Message, States
<1> HIDE DEF k, new
<1>3. /\ msg' \in Seq(Message) /\ Ids' = Ids \cup {x} /\ x \notin Ids /\ msg'[x] = k /\ x \in Nat
      /\ x # 0 /\ \A m \in Ids : msg'[m] = msg[m]
  <2>1. msg' \in Seq(Message) /\ Len(msg') = x /\ msg'[x] = k /\ \A m \in 1..Len(msg) : msg'[m] = msg[m]
    BY <1>0, <1>1, <1>2
  <2>2. Ids' = 1..x
    BY <2>1 DEF Ids
  <2> QED BY <1>0, <2>1, <2>2
<1>4. SameCalls(msg, msg')
  BY <1>3 DEF SameCalls, Ids
<1>5. MessagesOK'
  BY <1>2, <1>3 DEF MessagesOK, ThreadsInv
<1>6. \A u \in Threads : QueueOK(u, msg', queue'[u])
  <2> SUFFICES ASSUME NEW u \in Threads PROVE QueueOK(u, msg', queue[u])
    BY <1>1
  <2>1. QueueOK(u, msg, queue[u])
    BY StateTypes
  <2> QED BY <1>3, <1>4, <2>1, QueueKept DEF Ids
<1>7. \A u \in Threads : StackOK(u, msg', stack[u])
  <2> SUFFICES ASSUME NEW u \in Threads PROVE StackOK(u, msg', stack[u])
    OBVIOUS
  <2>1. StackOK(u, msg, stack[u])
    BY StateTypes
  <2> QED BY <1>3, <1>4, <2>1, StackKept DEF Ids
<1>8. ClockOK'
  <2>1. budget' \in [callers : SUBSET Threads, running : SUBSET Threads,
                 links : SUBSET (Threads \X Threads), post : Nat, delay : Nat, send : Nat,
                 deeds : Nat, ticks : Nat] /\ budget'.ticks = budget.ticks
    <3>1. /\ budget \in [callers : SUBSET Threads, running : SUBSET Threads,
                 links : SUBSET (Threads \X Threads), post : Nat, delay : Nat, send : Nat,
                 deeds : Nat, ticks : Nat]
      BY DEF ThreadsInv, ClockOK
    <3>2. CASE how = "post"
      <4>1. budget' = [budget EXCEPT !.post = budget.post - 1] /\ budget.post > 0
        BY <1>1, <3>1, <3>2
      <4>2. budget.post \in Nat
        BY <3>1
      <4>3. budget.post - 1 \in Nat
        BY <4>1, <4>2
      <4> QED BY <3>1, <4>1, <4>3
    <3>3. CASE how = "delay"
      <4>1. budget' = [budget EXCEPT !.delay = budget.delay - 1] /\ budget.delay > 0
        BY <1>1, <3>1, <3>3
      <4>2. budget.delay \in Nat
        BY <3>1
      <4>3. budget.delay - 1 \in Nat
        BY <4>1, <4>2
      <4> QED BY <3>1, <4>1, <4>3
    <3>4. CASE how = "send"
      <4>1. budget' = [budget EXCEPT !.send = budget.send - 1] /\ budget.send > 0
        BY <1>1, <3>1, <3>4
      <4>2. budget.send \in Nat
        BY <3>1
      <4>3. budget.send - 1 \in Nat
        BY <4>1, <4>2
      <4> QED BY <3>1, <4>1, <4>3
    <3> QED BY <3>2, <3>3, <3>4
  <2> QED BY <1>1, <2>1 DEF ThreadsInv, ClockOK
<1>9. /\ DOMAIN stack' = Threads /\ DOMAIN queue' = Threads
      /\ \A u \in Threads : u # t => stack'[u] = stack[u]
      /\ stack'[t] = IF queue[q].fStop THEN s ELSE Push(s, f)
  BY <1>1 DEF ThreadsInv
<1>10. f \in FrameRecord /\ f.at = at /\ f.m = x /\ ~f.waited /\ at \in {"push", "handle", "enqueue"}
  BY <1>3 DEF Frame, FrameRecord, Places
<1> HIDE DEF f
<1>11. /\ StackOK(t, msg', stack'[t]) /\ Len(stack'[t]) >= n /\ Len(stack'[t]) \in Nat
       /\ \A i \in 1..n : stack'[t][i] = s[i]
       /\ \A i \in (n + 1)..Len(stack'[t]) : stack'[t][i].at \in {"push", "handle", "enqueue"}
       /\ stack'[t][Len(stack'[t])].at \in {"push", "handle", "enqueue"}
  <2>1. CASE queue[q].fStop
    BY <1>0, <1>7, <1>9, <2>1
  <2>2. CASE ~queue[q].fStop
    <3> DEFINE w == Push(s, f)
    <3>1. w[n + 1] = f /\ w[n] = s[n]
      BY <1>0, <1>10 DEF Push
    <3>2. FrameOK(t, msg', w, n + 1)
      <4>1. (n + 1) - 1 = n
        BY <1>0
      <4>2. w[n + 1].at \in Calls \cup {"handle", "receive"}
        BY <1>10, <3>1 DEF Calls
      <4>3. x \in DOMAIN msg' /\ msg'[x].from = t /\ msg'[x].st = "calling" /\ msg'[x].how = how
            /\ msg'[x].to = q
        BY <1>2, <1>3, <2>2 DEF Ids
      <4> HIDE DEF w, x, n, s
      <4> QED BY <1>0, <1>10, <3>1, <4>1, <4>2, <4>3 DEF FrameOK, Calls, Dispatched
    <3>3. \A i \in 2..n : s[i].m # x \/ s[i].at # "handle"
      <4> SUFFICES ASSUME NEW i \in 2..n, s[i].at = "handle", s[i].m = x PROVE FALSE
        OBVIOUS
      <4>1. FrameOK(t, msg, s, i)
        BY <1>0 DEF StackOK
      <4>2. x \in DOMAIN msg
        BY <1>3, <4>1 DEF FrameOK
      <4> QED BY <1>3, <4>2 DEF Ids
    <3>4. StackOK(t, msg', s)
      BY <1>7
    <3>5. /\ StackOK(t, msg', w) /\ Len(w) = n + 1 /\ w[Len(w)] = f /\ \A i \in 1..n : w[i] = s[i]
      <4> HIDE DEF s, x
      <4> QED BY <1>10, <3>2, <3>3, <3>4, StackPush
    <3>6. stack'[t] = w
      BY <1>9, <2>2
    <3> QED BY <1>0, <1>10, <3>5, <3>6
  <2> QED BY <2>1, <2>2
<1>12. ThreadsInv'
  <2>1. \A u \in Threads : StackOK(u, msg', stack'[u])
    BY <1>7, <1>9, <1>11
  <2> QED BY <1>5, <1>6, <1>8, <1>9, <2>1 DEF ThreadsInv
<1>13. ASSUME ReadyAlive PROVE ReadyAlive'
  <2>1. \A m \in Ids' : m \in Ids => msg'[m].st = msg[m].st
    BY <1>3
  <2>2. \A m \in Ids' : m \notin Ids => msg'[m].st \notin {"queued", "handling"}
    BY <1>2, <1>3
  <2>3. \A i \in 1..n : i \in DOMAIN stack'[t] /\ stack'[t][i] = s[i]
    <3>1. stack'[t] \in Seq(FrameRecord)
      BY <1>11 DEF StackOK
    <3> QED BY <1>0, <1>11, <3>1
  <2> QED BY <1>4, <1>9, <1>13, <2>1, <2>2, <2>3, ReadyKept
<1>14. ASSUME WakeInv PROVE WakeInv'
  <2>1. \A m \in Ids : msg'[m].ready => msg[m].ready
    BY <1>3
  <2>2. \A u \in Threads : u # t => SendsHeard(u)' /\ PostsHeard(u)' /\ RepliesHeard(u)'
    BY <1>0, <1>1, <1>4, <1>9, <1>14, <2>1, WakeKept
  <2>3. Top(t)'.at \in {"push", "handle", "enqueue"} /\ InGet(t)' = InGet(t)
    BY <1>0, <1>11 DEF Top, Last, InGet
  <2>4. SendsHeard(t)'
    BY <2>3 DEF SendsHeard
  <2>5. PostsHeard(t)'
    BY <1>1, <1>14, <2>3 DEF PostsHeard, WakeInv
  <2>6. RepliesHeard(t)'
    <3>1. ASSUME NEW i \in 2..Len(stack'[t]), stack'[t][i].at = "wait"
          PROVE  /\ i \in 2..n /\ s[i] = stack'[t][i]
                 /\ \A j \in (i + 1)..n : s[j].waited => \E l \in (i + 1)..Len(stack'[t]) : stack'[t][l].waited
      <4>1. PICK a, b \in Nat : a = n /\ b = Len(stack'[t]) /\ a <= b
        BY <1>0, <1>11
      <4> HIDE DEF n, s
      <4>2. i \in 2..a /\ i \in 1..a
        <5>1. i \in 2..b /\ i \notin (a + 1)..b
          BY <1>11, <3>1, <4>1
        <5> QED BY <4>1, <5>1
      <4>3. \A j \in (i + 1)..a : j \in (i + 1)..b /\ j \in 1..a
        BY <4>1, <4>2
      <4>4. \A j \in 1..a : stack'[t][j] = s[j]
        BY <1>11, <4>1
      <4>5. \A j \in (i + 1)..a : s[j].waited => \E l \in (i + 1)..b : stack'[t][l].waited
        BY <4>3, <4>4
      <4> QED BY <4>1, <4>2, <4>4, <4>5
    <3> QED BY <1>1, <1>14, <2>1, <3>1, RepliesOwn DEF WakeInv
  <2> QED BY <2>2, <2>4, <2>5, <2>6 DEF WakeInv
<1> QED BY <1>12, <1>13, <1>14 DEF Preserved

\* The bottom of a stack in Get shows where the thread is, and nothing else does.
LEMMA Depth ==
  ASSUME ThreadsInv, NEW t \in Threads
  PROVE  /\ Len(stack[t]) > 1 => InGet(t) \in {"get", "take"}
         /\ Top(t).at \in Bottom \ {"wait"} => Len(stack[t]) = 1
         /\ Len(stack[t]) = 1 => stack[t][1] = Top(t) /\ InGet(t) = Top(t).at /\ InGet(t) \in Bottom
<1>1. PICK n \in Nat : n = Len(stack[t])
  BY StateTypes
<1>2. n >= 1 /\ StackOK(t, msg, stack[t])
  BY <1>1, StateTypes
<1>3. ASSUME n > 1 PROVE InGet(t) \in {"get", "take"} /\ Top(t).at \notin Bottom \ {"wait"}
  <2>1. 2 \in 2..n /\ n \in 2..n /\ 2 - 1 = 1 /\ ~(2 > 2)
    BY <1>3
  <2>2. FrameOK(t, msg, stack[t], 2) /\ FrameOK(t, msg, stack[t], n)
    BY <1>1, <1>2, <2>1 DEF StackOK
  <2>3. InGet(t) \in Bottom
    BY <1>2 DEF StackOK, InGet
  <2>4. InGet(t) \in {"get", "take"}
    BY <2>1, <2>2, <2>3 DEF FrameOK, InGet, Calls, Bottom
  <2>5. Top(t) = stack[t][n]
    BY <1>1, StateTypes
  <2>6. stack[t][n].at \in Calls \cup {"handle", "receive"}
    BY <2>2 DEF FrameOK
  <2> QED BY <2>4, <2>5, <2>6 DEF Calls, Bottom
<1>4. ASSUME n = 1 PROVE stack[t][1] = Top(t) /\ InGet(t) = Top(t).at /\ InGet(t) \in Bottom
  <2>1. Top(t) = stack[t][1]
    BY <1>1, <1>4, StateTypes
  <2> QED BY <1>2, <2>1 DEF InGet, StackOK
<1>5. n > 1 \/ n = 1
  BY <1>2
<1> QED BY <1>1, <1>3, <1>4, <1>5

\* What a step changes of the stack of t: what is above its k-th frame.
Above(t, k) ==
  /\ k \in Nat /\ k <= Len(stack[t]) /\ k <= Len(stack'[t]) /\ Len(stack'[t]) \in Nat
  /\ stack'[t] \in Seq(FrameRecord) /\ Len(stack'[t]) >= 1
  /\ DOMAIN stack' = Threads /\ \A u \in Threads : u # t => stack'[u] = stack[u]
  /\ \A i \in 1..k : stack'[t][i] = stack[t][i]

\* The callers that are waited for stay below the frames that a step changes.
LEMMA ReadyBelow ==
  ASSUME ThreadsInv, ReadyAlive, NEW t \in Threads, NEW k, Above(t, k), SameCalls(msg, msg'), Ids' = Ids,
         \A m \in Ids : msg'[m].st \in {"queued", "handling"} =>
           \/ msg[m].st \in {"queued", "handling"} \/ msg'[m].how # "send"
           \/ msg'[m].from = msg'[m].to
           \/ /\ msg'[m].from = t
              /\ \E i \in 1..Len(stack'[t]) : stack'[t][i].m = m /\ stack'[t][i].at \in Waiting,
         \A i \in (k + 1)..Len(stack[t]) :
           /\ stack[t][i].at \in Waiting /\ stack[t][i].m \in Ids
           /\ msg'[stack[t][i].m].st \in {"queued", "handling"}
           => \E j \in 1..Len(stack'[t]) : stack'[t][j].m = stack[t][i].m /\ stack'[t][j].at \in Waiting
  PROVE  ReadyAlive'
<1>1. DOMAIN stack'[t] = 1..Len(stack'[t]) /\ Len(stack[t]) \in Nat
  BY StateTypes DEF Above
<1>2. ASSUME NEW i \in 1..Len(stack[t]), stack[t][i].at \in Waiting, stack[t][i].m \in Ids,
             msg'[stack[t][i].m].st \in {"queued", "handling"}
      PROVE  \E j \in DOMAIN stack'[t] : stack'[t][j].m = stack[t][i].m /\ stack'[t][j].at \in Waiting
  <2>1. CASE i <= k
    <3>1. i \in 1..k /\ i \in 1..Len(stack'[t])
      BY <1>1, <2>1 DEF Above
    <3> QED BY <1>1, <1>2, <3>1 DEF Above
  <2>2. CASE i > k
    <3>1. i \in (k + 1)..Len(stack[t])
      BY <1>1, <2>2 DEF Above
    <3> QED BY <1>1, <1>2, <3>1
  <2> QED BY <1>1, <2>1, <2>2 DEF Above
<1>3. \A u \in Threads : u # t => stack'[u] = stack[u]
  BY DEF Above
<1> QED BY <1>1, <1>2, <1>3, ReadyKept

\* The replies that t waits for below the frames that a step changes.
LEMMA RepliesBelow ==
  ASSUME ThreadsInv, NEW t \in Threads, RepliesHeard(t), NEW k, Above(t, k),
         queue[t].wake => queue'[t].wake,
         \A m \in Ids : msg'[m].ready => msg[m].ready \/ queue'[msg[m].from].wake,
         \A i \in (k + 1)..Len(stack'[t]) :
           i >= 2 /\ stack'[t][i].at = "wait" => ~msg'[stack'[t][i].m].ready,
         \A j \in (k + 1)..Len(stack[t]) : stack[t][j].waited =>
           queue'[t].wake \/ \E l \in (k + 1)..Len(stack'[t]) : stack'[t][l].waited
  PROVE  RepliesHeard(t)'
<1>1. Len(stack[t]) \in Nat /\ Len(stack'[t]) \in Nat /\ k \in Nat /\ k <= Len(stack[t])
      /\ k <= Len(stack'[t]) /\ \A i \in 1..k : stack'[t][i] = stack[t][i]
  BY StateTypes DEF Above
<1>2. ASSUME NEW i \in 2..Len(stack'[t]), stack'[t][i].at = "wait"
      PROVE  \/ /\ i \in 2..Len(stack[t]) /\ stack[t][i] = stack'[t][i]
                /\ \A j \in (i + 1)..Len(stack[t]) : stack[t][j].waited =>
                     queue'[t].wake \/ \E l \in (i + 1)..Len(stack'[t]) : stack'[t][l].waited
             \/ ~msg'[stack'[t][i].m].ready
  <2>1. CASE i > k
    <3>1. i \in (k + 1)..Len(stack'[t]) /\ i >= 2
      BY <1>1, <2>1
    <3> QED BY <1>2, <3>1
  <2>2. CASE i <= k
    <3>1. i \in 2..Len(stack[t]) /\ i \in 1..k
      BY <1>1, <2>2
    <3>2. ASSUME NEW j \in (i + 1)..Len(stack[t]), stack[t][j].waited
          PROVE  queue'[t].wake \/ \E l \in (i + 1)..Len(stack'[t]) : stack'[t][l].waited
      <4>1. CASE j <= k
        <5>1. j \in 1..k /\ j \in (i + 1)..Len(stack'[t])
          BY <1>1, <4>1
        <5>2. stack'[t][j].waited
          BY <1>1, <3>2, <5>1
        <5> QED BY <5>1, <5>2
      <4>2. CASE j > k
        <5>1. j \in (k + 1)..Len(stack[t])
          BY <1>1, <4>2
        <5>2. \A l \in (k + 1)..Len(stack'[t]) : l \in (i + 1)..Len(stack'[t])
          BY <1>1, <2>2
        <5> QED BY <3>2, <5>1, <5>2
      <4> QED BY <1>1, <4>1, <4>2
    <3> QED BY <1>1, <3>1, <3>2
  <2> QED BY <1>1, <2>1, <2>2
<1> QED BY <1>2, RepliesOwn

-----------------------------------------------------------------------------
(* How a step changes the stack of its thread.                             *)

\* A call returns.
LEMMA Popped ==
  ASSUME ThreadsInv, NEW t \in Threads, Len(stack[t]) > 1,
         stack' = [stack EXCEPT ![t] = Pop(@)]
  PROVE  /\ stack'[t] = Pop(stack[t]) /\ StackOK(t, msg, stack'[t])
         /\ Len(stack'[t]) = Len(stack[t]) - 1 /\ Above(t, Len(stack[t]) - 1)
         /\ Top(t)' = stack[t][Len(stack[t]) - 1] /\ InGet(t)' = InGet(t)
<1>1. PICK n \in Nat : n = Len(stack[t])
  BY StateTypes
<1>2. n > 1 /\ StackOK(t, msg, stack[t]) /\ DOMAIN stack = Threads
  BY <1>1, StateTypes DEF ThreadsInv
<1>3. stack'[t] = Pop(stack[t]) /\ DOMAIN stack' = Threads /\ \A u \in Threads : u # t => stack'[u] = stack[u]
  BY <1>2
<1>4. /\ StackOK(t, msg, Pop(stack[t])) /\ Len(Pop(stack[t])) = n - 1
      /\ \A i \in 1..(n - 1) : Pop(stack[t])[i] = stack[t][i]
  <2> DEFINE w == stack[t]
  <2>1. StackOK(t, msg, w) /\ Len(w) > 1 /\ Len(w) = n
    BY <1>1, <1>2
  <2> HIDE DEF w
  <2>2. /\ StackOK(t, msg, Pop(w)) /\ Len(Pop(w)) = Len(w) - 1
        /\ \A i \in 1..(Len(w) - 1) : Pop(w)[i] = w[i]
    BY <2>1, StackPop
  <2> QED BY <2>1, <2>2 DEF w
<1>5. n - 1 \in Nat /\ n - 1 >= 1 /\ n - 1 <= n /\ 1 \in 1..(n - 1) /\ n - 1 \in 1..(n - 1)
  BY <1>2
<1>6. Pop(stack[t]) \in Seq(FrameRecord)
  BY <1>4 DEF StackOK
<1>7. Above(t, n - 1)
  BY <1>1, <1>3, <1>4, <1>5, <1>6 DEF Above
<1>8. Top(t)' = stack[t][n - 1] /\ InGet(t)' = InGet(t)
  <2>1. stack'[t][n - 1] = stack[t][n - 1] /\ Len(stack'[t]) = n - 1 /\ stack'[t][1] = stack[t][1]
    BY <1>3, <1>4, <1>5
  <2> QED BY <2>1 DEF Top, Last, InGet
<1> QED BY <1>1, <1>3, <1>4, <1>7, <1>8

\* The stack of t becomes w, which differs from it above its k-th frame.
Stacked(t, w) == stack' = [stack EXCEPT ![t] = w]

SameBelow(t, w, k) ==
  /\ k \in Nat /\ k <= Len(stack[t]) /\ k <= Len(w) /\ Len(w) >= 1
  /\ \A i \in 1..k : w[i] = stack[t][i]

\* What such a stack means for the frames, the top and Get of t.
LEMMA Replaced ==
  ASSUME ThreadsInv, NEW t \in Threads, NEW w \in Seq(FrameRecord), Stacked(t, w),
         NEW k, SameBelow(t, w, k)
  PROVE  /\ stack'[t] = w /\ Top(t)' = w[Len(w)] /\ InGet(t)' = w[1].at
         /\ Above(t, k) /\ (k >= 1 => InGet(t)' = InGet(t))
<1>1. stack'[t] = w /\ DOMAIN stack' = Threads /\ \A u \in Threads : u # t => stack'[u] = stack[u]
  BY DEF ThreadsInv, Stacked
<1>2. Top(t)' = w[Len(w)] /\ InGet(t)' = w[1].at
  BY <1>1 DEF Top, Last, InGet
<1>3. Above(t, k)
  BY <1>1 DEF Above, SameBelow
<1>4. k >= 1 => w[1] = stack[t][1]
  <2>1. k >= 1 => 1 \in 1..k
    BY DEF SameBelow
  <2> QED BY <2>1 DEF SameBelow
<1> QED BY <1>1, <1>2, <1>3, <1>4 DEF InGet

\* The innermost call of a Send goes on.
LEMMA SendMoved ==
  ASSUME ThreadsInv, NEW t \in Threads, Len(stack[t]) > 1, Top(t).at \in Calls \ {"push"},
         NEW f \in FrameRecord, f.m = Top(t).m, f.at \in Waiting,
         f.waited = FALSE \/ f.at \in {"sent", "wait"}
  PROVE  LET w == SetTop(stack[t], f)
         IN /\ StackOK(t, msg, w) /\ w \in Seq(FrameRecord) /\ Len(w) = Len(stack[t])
            /\ w[Len(stack[t])] = f /\ \A i \in 1..(Len(stack[t]) - 1) : w[i] = stack[t][i]
<1> DEFINE s == stack[t]
           w == SetTop(s, f)
<1>1. PICK n \in Nat : n = Len(s)
  BY StateTypes
<1>2. /\ n > 1 /\ n # 1 /\ StackOK(t, msg, s) /\ FrameOK(t, msg, s, n) /\ Top(t) = s[n]
      /\ s \in Seq(FrameRecord)
  BY <1>1, StateTypes
<1>3. w[n] = f /\ w[n - 1] = s[n - 1]
  BY <1>1, <1>2 DEF SetTop
<1> HIDE DEF w
<1>4. FrameOK(t, msg, w, n)
  BY <1>2, <1>3 DEF FrameOK, Waiting, Calls
<1>5. f.at # "handle"
  BY DEF Waiting
<1> HIDE DEF s
<1>6. FrameOK(t, msg, SetTop(s, f), Len(s)) /\ Len(s) > 1
  BY <1>1, <1>2, <1>4 DEF w
<1>7. LET u == SetTop(s, f)
      IN /\ StackOK(t, msg, u) /\ Len(u) = Len(s) /\ u[Len(s)] = f
         /\ \A i \in 1..(Len(s) - 1) : u[i] = s[i]
  BY <1>2, <1>5, <1>6, StackTop
<1> QED BY <1>7 DEF s, StackOK

\* Get goes on.
LEMMA GetMoved ==
  ASSUME ThreadsInv, NEW t \in Threads, Len(stack[t]) = 1, NEW at \in Bottom,
         NEW w, w = GoTo(stack[t], at)
  PROVE  /\ StackOK(t, msg, w) /\ w \in Seq(FrameRecord) /\ Len(w) = 1 /\ w[1] = Frame(at, 0)
         /\ w[1].at = at
<1> DEFINE s == stack[t]
           f == [s[1] EXCEPT !.at = at]
<1>1. StackOK(t, msg, s) /\ s \in Seq(FrameRecord) /\ s[1] \in FrameRecord /\ Len(s) = 1
  BY StateTypes
<1>2. f \in FrameRecord /\ f.at = at /\ f.m = 0 /\ f.waited = FALSE /\ f = Frame(at, 0)
  <2>1. s[1].m = 0 /\ ~s[1].waited
    BY <1>1 DEF StackOK
  <2>2. at \in Places
    BY DEF Bottom, Places
  <2>3. f \in FrameRecord /\ f.at = at /\ f.m = 0 /\ ~f.waited
    BY <1>1, <2>1, <2>2 DEF FrameRecord
  <2>4. f.waited = FALSE
    BY <1>1, <2>3 DEF FrameRecord
  <2> HIDE DEF f
  <2>5. f = [at |-> f.at, m |-> f.m, waited |-> f.waited]
    BY <2>3 DEF FrameRecord
  <2> QED BY <2>3, <2>4, <2>5 DEF Frame
<1>3. w = [s EXCEPT ![1] = f]
  BY <1>1 DEF GoTo
<1> HIDE DEF s, f
<1>4. StackOK(t, msg, w) /\ Len(w) = Len(s) /\ w[Len(s)] = f
  <2>1. w \in Seq(FrameRecord) /\ Len(w) = 1 /\ w[1] = f /\ w # <<>>
    <3>1. f \in FrameRecord /\ s \in Seq(FrameRecord) /\ Len(s) = 1
      BY <1>1, <1>2
    <3>2. 1 \in 1..Len(s) /\ DOMAIN s = 1..Len(s)
      BY <3>1
    <3>3. w \in Seq(FrameRecord)
      <4>1. [s EXCEPT ![1] = f] \in Seq(FrameRecord)
        BY <3>1, <3>2, SeqPut
      <4> QED BY <1>3, <4>1
    <3>4. Len(w) = 1
      <4>1. DOMAIN w = DOMAIN s
        BY <1>3
      <4>2. DOMAIN w = 1..Len(w) /\ Len(w) \in Nat
        BY <3>3
      <4> QED BY <3>1, <3>2, <4>1, <4>2
    <3>5. w[1] = f
      BY <1>3, <3>2
    <3> QED BY <3>3, <3>4, <3>5
  <2>2. 2..Len(w) = {}
    BY <2>1
  <2>3. w[1].at \in Bottom /\ w[1].m = 0 /\ ~w[1].waited
    BY <1>2, <2>1
  <2> QED BY <1>1, <2>1, <2>2, <2>3 DEF StackOK
<1> QED BY <1>1, <1>2, <1>4 DEF StackOK

\* ReceiveSends begins, or has nothing to do.
LEMMA Received ==
  ASSUME ThreadsInv, NEW t \in Threads, NEW w, StackOK(t, msg, w),
         Len(w) = 1 => w[1].at = "take", Len(w) > 1 => w[Len(w)].at = "wait"
  PROVE  LET u == ReceiveSends(t, w)
         IN /\ StackOK(t, msg, u) /\ u \in Seq(FrameRecord) /\ Len(u) >= Len(w) /\ Len(u) \in Nat
            /\ \A i \in 1..Len(w) : u[i] = w[i]
            /\ \A i \in (Len(w) + 1)..Len(u) : u[i].at = "receive"
            /\ \/ ~queue[t].has_sends /\ u = w
               \/ u[Len(u)].at = "receive"
<1> DEFINE f == Frame("receive", 0)
<1>1. PICK n \in Nat : n = Len(w)
  BY DEF StackOK
<1>2. n >= 1 /\ w \in Seq(FrameRecord)
  BY <1>1 DEF StackOK
<1>3. CASE ~queue[t].has_sends
  <2>1. ReceiveSends(t, w) = w
    BY <1>3 DEF ReceiveSends
  <2> QED BY <1>1, <1>2, <1>3, <2>1
<1>4. CASE queue[t].has_sends
  <2> DEFINE u == Push(w, f)
  <2>1. ReceiveSends(t, w) = u
    BY <1>4 DEF ReceiveSends
  <2>2. f \in FrameRecord /\ f.at = "receive" /\ f.m = 0 /\ ~f.waited
    BY DEF Frame, FrameRecord, Places
  <2> HIDE DEF f
  <2>3. u[n + 1] = f /\ u[(n + 1) - 1] = w[n]
    BY <1>1, <1>2, <2>2 DEF Push
  <2>4. w[n].at = "take" \/ (n + 1 > 2 /\ w[n].at = "wait")
    BY <1>1, <1>2
  <2> HIDE DEF u
  <2>5. FrameOK(t, msg, u, n + 1)
    BY <2>2, <2>3, <2>4 DEF FrameOK, Calls
  <2>6. u = Push(w, f)
    BY DEF u
  <2>7. /\ StackOK(t, msg, u) /\ Len(u) = Len(w) + 1 /\ u[Len(u)] = f /\ \A i \in 1..Len(w) : u[i] = w[i]
    BY <1>1, <2>2, <2>5, <2>6, StackPush
  <2>8. u \in Seq(FrameRecord)
    BY <2>7 DEF StackOK
  <2>9. \A i \in (Len(w) + 1)..Len(u) : u[i].at = "receive"
    BY <1>1, <2>2, <2>7
  <2> QED BY <1>1, <2>1, <2>2, <2>7, <2>8, <2>9
<1> QED BY <1>3, <1>4

\* The frame that a call goes on in.
LEMMA GoToTop ==
  ASSUME ThreadsInv, NEW t \in Threads, NEW at \in Places
  PROVE  LET f == [Top(t) EXCEPT !.at = at]
         IN /\ GoTo(stack[t], at) = SetTop(stack[t], f)
            /\ f \in FrameRecord /\ f.at = at /\ f.m = Top(t).m /\ f.waited = Top(t).waited
<1>1. Top(t) = stack[t][Len(stack[t])] /\ Top(t) \in FrameRecord
  BY StateTypes
<1>2. GoTo(stack[t], at) = SetTop(stack[t], [Top(t) EXCEPT !.at = at])
  BY <1>1 DEF GoTo, SetTop
<1> QED BY <1>1, <1>2 DEF FrameRecord

\* The message and the place of a Send.
LEMMA SendTop ==
  ASSUME ThreadsInv, NEW t \in Threads, Len(stack[t]) > 1, Top(t).at \in Calls
  PROVE  /\ Top(t).m \in Ids /\ msg[Top(t).m] \in Message /\ msg[Top(t).m].from = t
         /\ msg[Top(t).m].to \in Threads /\ (Top(t).at # "push" => msg[Top(t).m].how = "send")
         /\ (Top(t).at # "push" => msg[Top(t).m].to # t)
         /\ stack[t][Len(stack[t]) - 1].at = "handle"
         /\ (Top(t).at \notin {"sent", "wait"} => Top(t).waited = FALSE)
<1>1. FrameOK(t, msg, stack[t], Len(stack[t])) /\ Top(t) = stack[t][Len(stack[t])] /\ Top(t) \in FrameRecord
  BY StateTypes
<1>2. Top(t).m \in Ids /\ msg[Top(t).m].from = t /\ stack[t][Len(stack[t]) - 1].at = "handle"
  BY <1>1 DEF FrameOK, Ids
<1>3. msg[Top(t).m] \in Message /\ msg[Top(t).m].to \in Threads
  <2>1. msg[Top(t).m] \in Message
    BY <1>2, StateTypes
  <2> QED BY <2>1 DEF Message
<1>4. Top(t).at # "push" => msg[Top(t).m].how = "send" /\ msg[Top(t).m].to # t
  BY <1>1 DEF FrameOK
<1>5. Top(t).at \notin {"sent", "wait"} => Top(t).waited = FALSE
  <2>1. Top(t).at \notin {"sent", "wait"} => ~Top(t).waited
    BY <1>1 DEF FrameOK
  <2> QED BY <1>1, <2>1 DEF FrameRecord
<1> QED BY <1>2, <1>3, <1>4, <1>5

\* A step that makes nothing of any message.
LEMMA SameMessages ==
  ASSUME ThreadsInv, msg' = msg
  PROVE  /\ SameCalls(msg, msg') /\ Ids' = Ids /\ MessagesOK'
         /\ \A m \in Ids : msg'[m] = msg[m]
BY DEF SameCalls, Ids, ThreadsInv, MessagesOK

\* A step that changes no message, and of the stacks that of t above its k-th frame.
LEMMA LightStep ==
  ASSUME ThreadsInv, NEW t \in Threads, NEW k, Above(t, k), msg' = msg, ClockOK',
         DOMAIN queue' = Threads, \A u \in Threads : QueueOK(u, msg, queue'[u]),
         StackOK(t, msg, stack'[t])
  PROVE  ThreadsInv'
<1>1. MessagesOK'
  BY SameMessages
<1>2. \A u \in Threads : StackOK(u, msg', stack'[u])
  <2> SUFFICES ASSUME NEW u \in Threads PROVE StackOK(u, msg, stack'[u])
    OBVIOUS
  <2>1. CASE u = t
    BY <2>1
  <2>2. CASE u # t
    <3>1. stack'[u] = stack[u] /\ StackOK(u, msg, stack[u])
      BY <2>2, StateTypes DEF Above
    <3> QED BY <3>1
  <2> QED BY <2>1, <2>2
<1>3. DOMAIN stack' = Threads
  BY DEF Above
<1> QED BY <1>1, <1>2, <1>3 DEF ThreadsInv

\* The queues when all that happens to them is a wake-up.
LEMMA WokenUp ==
  ASSUME ThreadsInv, NEW q \in Threads, queue' = WakeUp(queue, q)
  PROVE  /\ DOMAIN queue' = Threads /\ queue'[q].wake = TRUE
         /\ \A u \in Threads :
              /\ QueueOK(u, msg, queue'[u]) /\ queue'[u].msgq = queue[u].msgq
              /\ queue'[u].sendlist = queue[u].sendlist /\ queue'[u].fStop = queue[u].fStop
              /\ u # q => queue'[u] = queue[u]
<1>1. DOMAIN queue = Threads
  BY DEF ThreadsInv
<1>2. ASSUME NEW u \in Threads
      PROVE  /\ DOMAIN queue' = Threads /\ QueueOK(u, msg, queue'[u]) /\ queue'[u].msgq = queue[u].msgq
             /\ queue'[u].sendlist = queue[u].sendlist /\ queue'[u].fStop = queue[u].fStop
             /\ u # q => queue'[u] = queue[u]
             /\ u = q => queue'[u].wake = TRUE
  <2>1. QueueOK(u, msg, queue[u])
    BY StateTypes
  <2>2. LET k == WakeUp(queue, q)[u]
        IN /\ DOMAIN WakeUp(queue, q) = Threads /\ QueueOK(u, msg, k)
           /\ k.msgq = queue[u].msgq /\ k.dmsgq = queue[u].dmsgq /\ k.sendlist = queue[u].sendlist
           /\ k.has_sends = queue[u].has_sends /\ k.fStop = queue[u].fStop
           /\ u # q => k = queue[u]
           /\ u = q => k.wake = TRUE
    BY <1>1, <2>1, WakeUpFacts
  <2> QED BY <2>2
<1> QED BY <1>2

\* Send wakes the thread it has sent to.
LEMMA SignalSendKept ==
  ASSUME ThreadsInv, NEW t \in Threads, SignalSend(t)
  PROVE  Preserved
<1> DEFINE n == Len(stack[t])
           f == [Top(t) EXCEPT !.at = "sent"]
           w == GoTo(stack[t], "sent")
           x == Top(t).m
           q == msg[x].to
<1>1. /\ Top(t).at = "signal" /\ queue' = WakeUp(queue, q) /\ stack' = [stack EXCEPT ![t] = w]
      /\ msg' = msg /\ wait' = wait /\ now' = now /\ budget' = budget
  BY DEF SignalSend
<1>2. n > 1 /\ n \in Nat /\ n - 1 \in Nat /\ n - 1 <= n
  <2>1. n > 1 /\ n \in Nat
    BY <1>1, InHandlerDeep, StateTypes DEF Bottom
  <2> QED BY <2>1
<1>3. x \in Ids /\ msg[x].from = t /\ q \in Threads /\ Top(t).waited = FALSE
  BY <1>1, <1>2, SendTop DEF Calls
<1>4. /\ w = SetTop(stack[t], f) /\ f \in FrameRecord /\ f.at = "sent" /\ f.m = x
      /\ f.waited = Top(t).waited
  BY GoToTop DEF Places
<1> HIDE DEF f, w
<1>5. /\ StackOK(t, msg, w) /\ w \in Seq(FrameRecord) /\ Len(w) = n /\ w[Len(w)] = f
      /\ \A i \in 1..(n - 1) : w[i] = stack[t][i]
  <2>1. Top(t).at \in Calls \ {"push"} /\ f.at \in Waiting /\ f.at \in {"sent", "wait"}
    BY <1>1, <1>4 DEF Calls, Waiting
  <2>2. /\ StackOK(t, msg, w) /\ w \in Seq(FrameRecord) /\ Len(w) = Len(stack[t])
        /\ w[Len(stack[t])] = f /\ \A i \in 1..(Len(stack[t]) - 1) : w[i] = stack[t][i]
    BY <1>2, <1>4, <2>1, SendMoved
  <2> QED BY <2>2
<1>6. stack'[t] = w /\ Above(t, n - 1) /\ Top(t)' = f /\ InGet(t)' = InGet(t)
  <2>1. n - 1 >= 1 /\ Len(w) >= 1 /\ n - 1 <= Len(w)
    BY <1>2, <1>5
  <2>2. Stacked(t, w) /\ SameBelow(t, w, n - 1)
    BY <1>1, <1>2, <1>5, <2>1 DEF Stacked, SameBelow
  <2> QED BY <1>5, <2>1, <2>2, Replaced
<1>7. /\ DOMAIN queue' = Threads /\ queue'[q].wake = TRUE
      /\ \A u \in Threads :
           /\ QueueOK(u, msg, queue'[u]) /\ queue'[u].msgq = queue[u].msgq
           /\ queue'[u].sendlist = queue[u].sendlist /\ queue'[u].fStop = queue[u].fStop
           /\ u # q => queue'[u] = queue[u]
  BY <1>1, <1>3, WokenUp
<1>8. \A u \in Threads : queue[u].wake => queue'[u].wake
  BY <1>7
<1>9. ThreadsInv'
  <2>1. ClockOK'
    BY <1>1 DEF ThreadsInv, ClockOK
  <2>2. StackOK(t, msg, stack'[t])
    BY <1>5, <1>6
  <2> QED BY <1>1, <1>6, <1>7, <2>1, <2>2, LightStep
<1>10. SameCalls(msg, msg') /\ Ids' = Ids /\ \A m \in Ids : msg'[m] = msg[m]
  BY <1>1, SameMessages
<1>11. \A i \in n..n : i = n /\ stack[t][i] = Top(t) /\ (n - 1) + 1 = n /\ n \in 1..Len(w) /\ w[n] = f
  BY <1>2, <1>5, StateTypes
<1>12. ASSUME ReadyAlive PROVE ReadyAlive'
  <2>1. \A i \in ((n - 1) + 1)..n : \E j \in 1..Len(stack'[t]) :
          stack'[t][j].m = stack[t][i].m /\ stack'[t][j].at \in Waiting
    BY <1>2, <1>4, <1>6, <1>11 DEF Waiting
  <2> QED BY <1>6, <1>10, <1>12, <2>1, ReadyBelow
<1>13. ASSUME WakeInv PROVE WakeInv'
  <2>1. \A m \in Ids : msg'[m].ready => msg[m].ready
    BY <1>10
  <2>2. \A u \in Threads : u # t => SendsHeard(u)' /\ PostsHeard(u)' /\ RepliesHeard(u)'
    <3>1. \A u \in Threads : u # t => stack'[u] = stack[u]
      BY <1>6 DEF Above
    <3> QED BY <1>7, <1>8, <1>10, <1>13, <2>1, <3>1, WakeKept
  <2>3. SendsHeard(t)'
    BY <1>4, <1>6 DEF SendsHeard
  <2>4. PostsHeard(t)'
    BY <1>6, <1>7, <1>8, <1>13 DEF PostsHeard, WakeInv
  <2>5. RepliesHeard(t)'
    <3>1. \A i \in ((n - 1) + 1)..Len(stack'[t]) : stack'[t][i] = f
      BY <1>2, <1>5, <1>6
    <3>2. \A i \in ((n - 1) + 1)..n : ~stack[t][i].waited
      BY <1>2, <1>3, <1>11
    <3>3. RepliesHeard(t)
      BY <1>13 DEF WakeInv
    <3> QED BY <1>4, <1>6, <1>8, <2>1, <3>1, <3>2, <3>3, RepliesBelow
  <2> QED BY <2>2, <2>3, <2>4, <2>5 DEF WakeInv
<1> QED BY <1>9, <1>12, <1>13 DEF Preserved

\* A step of t that changes no message, and no queue but for wake-ups.
Quiet(t) ==
  /\ msg' = msg /\ DOMAIN queue' = Threads
  /\ \A u \in Threads :
       /\ QueueOK(u, msg, queue'[u]) /\ queue'[u].msgq = queue[u].msgq
       /\ queue'[u].sendlist = queue[u].sendlist /\ queue'[u].fStop = queue[u].fStop
       /\ queue[u].wake => queue'[u].wake

\* Such a step keeps the invariant when t itself still hears what it must.
LEMMA QuietKept ==
  ASSUME ThreadsInv, NEW t \in Threads, Quiet(t), ClockOK', NEW k, Above(t, k), StackOK(t, msg, stack'[t]),
         Top(t).at # "signal",
         ReadyAlive => ReadyAlive', WakeInv => SendsHeard(t)' /\ PostsHeard(t)' /\ RepliesHeard(t)'
  PROVE  Preserved
<1>1. ThreadsInv'
  BY LightStep DEF Quiet
<1>2. SameCalls(msg, msg') /\ \A m \in Ids : msg'[m] = msg[m]
  BY SameMessages DEF Quiet
<1>3. ASSUME WakeInv PROVE WakeInv'
  <2>1. \A u \in Threads : u # t => SendsHeard(u)' /\ PostsHeard(u)' /\ RepliesHeard(u)'
    <3>1. \A u \in Threads : u # t => stack'[u] = stack[u]
      BY DEF Above
    <3>2. \A u \in Threads :
            /\ queue'[u].msgq = queue[u].msgq /\ queue'[u].sendlist = queue[u].sendlist
            /\ queue'[u].fStop = queue[u].fStop /\ (queue[u].wake => queue'[u].wake)
      BY DEF Quiet
    <3> QED BY <1>2, <1>3, <3>1, <3>2, WakeKept
  <2> QED BY <1>3, <2>1 DEF WakeInv
<1> QED BY <1>1, <1>3 DEF Preserved

\* The wait loop of Send: the reply is there, or the thread serves its sends and waits.
LEMMA CheckReadyKept ==
  ASSUME ThreadsInv, NEW t \in Threads, CheckReady(t)
  PROVE  Preserved
<1> DEFINE n == Len(stack[t])
           x == Top(t).m
<1>1. Top(t).at = "sent" /\ msg' = msg /\ wait' = wait /\ now' = now /\ budget' = budget
  BY DEF CheckReady
<1>2. n > 1 /\ n \in Nat /\ n - 1 \in Nat /\ n - 1 <= n
  <2>1. n > 1 /\ n \in Nat
    BY <1>1, InHandlerDeep, StateTypes DEF Bottom
  <2> QED BY <2>1
<1>3. x \in Ids /\ msg[x].from = t /\ stack[t][n - 1].at = "handle" /\ msg[x] \in Message
  BY <1>1, <1>2, SendTop DEF Calls
<1>4. ClockOK'
  BY <1>1 DEF ThreadsInv, ClockOK
<1>5. InGet(t) \in {"get", "take"} /\ stack[t][n] = Top(t)
  BY <1>2, Depth, StateTypes
<1>6. SameCalls(msg, msg') /\ Ids' = Ids /\ \A m \in Ids : msg'[m] = msg[m]
  BY <1>1, SameMessages
<1>7. CASE msg[x].ready
  <2>1. stack' = [stack EXCEPT ![t] = Pop(@)] /\ queue' = IF Top(t).waited THEN WakeUp(queue, t) ELSE queue
    BY <1>7 DEF CheckReady
  <2>2. /\ StackOK(t, msg, stack'[t]) /\ Len(stack'[t]) = n - 1 /\ Above(t, n - 1)
        /\ Top(t)'.at = "handle" /\ InGet(t)' = InGet(t)
    BY <1>2, <1>3, <2>1, Popped
  <2>3. Quiet(t) /\ (Top(t).waited => queue'[t].wake)
    <3>1. CASE Top(t).waited
      <4>1. queue' = WakeUp(queue, t)
        BY <2>1, <3>1
      <4>2. /\ DOMAIN queue' = Threads /\ queue'[t].wake = TRUE
            /\ \A u \in Threads :
                 /\ QueueOK(u, msg, queue'[u]) /\ queue'[u].msgq = queue[u].msgq
                 /\ queue'[u].sendlist = queue[u].sendlist /\ queue'[u].fStop = queue[u].fStop
                 /\ u # t => queue'[u] = queue[u]
        BY <4>1, WokenUp
      <4> QED BY <1>1, <4>2 DEF Quiet
    <3>2. CASE ~Top(t).waited
      <4>1. queue' = queue
        BY <2>1, <3>2
      <4> QED BY <1>1, <3>2, <4>1, StateTypes DEF Quiet, ThreadsInv
    <3> QED BY <3>1, <3>2
  <2>4. \A i \in ((n - 1) + 1)..n : i = n /\ stack[t][i] = Top(t)
    BY <1>2, <1>5
  <2>5. ReadyAlive => ReadyAlive'
    <3> SUFFICES ASSUME ReadyAlive PROVE ReadyAlive'
      OBVIOUS
    <3>1. msg'[x].st \notin {"queued", "handling"}
      BY <1>3, <1>6, <1>7 DEF ThreadsInv, MessagesOK
    <3> QED BY <1>6, <2>2, <2>4, <3>1, ReadyBelow
  <2>6. WakeInv => SendsHeard(t)' /\ PostsHeard(t)' /\ RepliesHeard(t)'
    <3> SUFFICES ASSUME WakeInv PROVE SendsHeard(t)' /\ PostsHeard(t)' /\ RepliesHeard(t)'
      OBVIOUS
    <3>1. SendsHeard(t)' /\ PostsHeard(t)'
      BY <1>5, <2>2 DEF SendsHeard, PostsHeard
    <3>2. RepliesHeard(t) /\ (queue[t].wake => queue'[t].wake)
      BY <2>3 DEF WakeInv, Quiet
    <3>3. \A i \in ((n - 1) + 1)..Len(stack'[t]) : FALSE
      BY <1>2, <2>2
    <3> QED BY <1>6, <2>2, <2>3, <2>4, <3>1, <3>2, <3>3, RepliesBelow
  <2> QED BY <1>1, <1>4, <2>2, <2>3, <2>5, <2>6, QuietKept
<1>8. CASE ~msg[x].ready
  <2> DEFINE f == [Top(t) EXCEPT !.at = "wait"]
             w == GoTo(stack[t], "wait")
             v == ReceiveSends(t, w)
  <2>1. stack' = [stack EXCEPT ![t] = v] /\ queue' = queue
    BY <1>8 DEF CheckReady
  <2>2. w = SetTop(stack[t], f) /\ f \in FrameRecord /\ f.at = "wait" /\ f.m = x /\ f.waited = Top(t).waited
    BY GoToTop DEF Places
  <2> HIDE DEF f, w, v
  <2>3. /\ StackOK(t, msg, w) /\ w \in Seq(FrameRecord) /\ Len(w) = n /\ w[n] = f
        /\ \A i \in 1..(n - 1) : w[i] = stack[t][i]
    <3>1. Top(t).at \in Calls \ {"push"} /\ f.at \in Waiting /\ f.at \in {"sent", "wait"}
      BY <1>1, <2>2 DEF Calls, Waiting
    <3> QED BY <1>2, <2>2, <3>1, SendMoved
  <2>4. /\ StackOK(t, msg, v) /\ v \in Seq(FrameRecord) /\ Len(v) >= n /\ Len(v) \in Nat
        /\ \A i \in 1..n : v[i] = w[i]
        /\ \A i \in (n + 1)..Len(v) : v[i].at = "receive"
        /\ (~queue[t].has_sends /\ v = w) \/ v[Len(v)].at = "receive"
    <3>1. Len(w) # 1 /\ w[Len(w)].at = "wait"
      BY <1>2, <2>2, <2>3
    <3> QED BY <2>3, <3>1, Received DEF v
  <2>5. /\ stack'[t] = v /\ Above(t, n - 1) /\ Top(t)' = v[Len(v)] /\ InGet(t)' = InGet(t)
    <3>1. n - 1 >= 1 /\ Len(v) >= 1 /\ n - 1 <= Len(v) /\ \A i \in 1..(n - 1) : v[i] = stack[t][i]
      BY <1>2, <2>3, <2>4
    <3>2. Stacked(t, v) /\ SameBelow(t, v, n - 1)
      BY <1>2, <2>1, <3>1 DEF Stacked, SameBelow
    <3> QED BY <2>4, <3>1, <3>2, Replaced
  <2>6. Quiet(t)
    BY <1>1, <2>1, StateTypes DEF Quiet, ThreadsInv
  <2>7. /\ \A i \in ((n - 1) + 1)..n : i = n /\ stack[t][i] = Top(t)
        /\ n \in 1..Len(v) /\ n \in ((n - 1) + 1)..Len(v) /\ v[n] = f
    BY <1>2, <1>5, <2>3, <2>4
  <2>8. ReadyAlive => ReadyAlive'
    <3> SUFFICES ASSUME ReadyAlive PROVE ReadyAlive'
      OBVIOUS
    <3>1. \A i \in ((n - 1) + 1)..n : \E j \in 1..Len(stack'[t]) :
            stack'[t][j].m = stack[t][i].m /\ stack'[t][j].at \in Waiting
      BY <2>2, <2>5, <2>7 DEF Waiting
    <3> QED BY <1>6, <2>5, <3>1, ReadyBelow
  <2>9. WakeInv => SendsHeard(t)' /\ PostsHeard(t)' /\ RepliesHeard(t)'
    <3> SUFFICES ASSUME WakeInv PROVE SendsHeard(t)' /\ PostsHeard(t)' /\ RepliesHeard(t)'
      OBVIOUS
    <3>1. SendsHeard(t)'
      <4>1. CASE v[Len(v)].at = "receive"
        BY <2>5, <4>1 DEF SendsHeard
      <4>2. CASE ~queue[t].has_sends
        <5>1. QueueOK(t, msg, queue[t])
          BY StateTypes
        <5>2. Held(queue'[t].sendlist) = {}
          BY <2>1, <4>2, <5>1, ShortQueues DEF QueueOK
        <5> QED BY <5>2 DEF SendsHeard
      <4> QED BY <2>4, <4>1, <4>2
    <3>2. PostsHeard(t)'
      BY <1>5, <2>5 DEF PostsHeard
    <3>3. RepliesHeard(t)'
      <4>1. \A i \in ((n - 1) + 1)..Len(stack'[t]) :
              i >= 2 /\ stack'[t][i].at = "wait" => ~msg'[stack'[t][i].m].ready
        <5> SUFFICES ASSUME NEW i \in ((n - 1) + 1)..Len(stack'[t]), stack'[t][i].at = "wait"
                     PROVE  ~msg'[stack'[t][i].m].ready
          OBVIOUS
        <5>1. i = n \/ i \in (n + 1)..Len(v)
          BY <1>2, <2>4, <2>5
        <5>2. i = n
          BY <2>4, <2>5, <5>1
        <5> QED BY <1>3, <1>6, <1>8, <2>2, <2>5, <2>7, <5>2
      <4>2. \A j \in ((n - 1) + 1)..n : stack[t][j].waited =>
              \E l \in ((n - 1) + 1)..Len(stack'[t]) : stack'[t][l].waited
        BY <2>2, <2>5, <2>7
      <4>3. RepliesHeard(t) /\ (queue[t].wake => queue'[t].wake)
        BY <2>1 DEF WakeInv
      <4> QED BY <1>6, <2>5, <4>1, <4>2, <4>3, RepliesBelow
    <3> QED BY <3>1, <3>2, <3>3
  <2>10. StackOK(t, msg, stack'[t])
    BY <2>4, <2>5
  <2> QED BY <1>1, <1>4, <2>5, <2>6, <2>8, <2>9, <2>10, QuietKept
<1> QED BY <1>7, <1>8

\* One queue is another.
LEMMA QueueSet ==
  ASSUME ThreadsInv, NEW q \in Threads, NEW k, NEW M,
         queue' = [queue EXCEPT ![q] = k], QueueOK(q, M, k),
         \A u \in Threads : u # q => QueueOK(u, M, queue[u])
  PROVE  /\ DOMAIN queue' = Threads /\ queue'[q] = k /\ \A u \in Threads : u # q => queue'[u] = queue[u]
         /\ \A u \in Threads : QueueOK(u, M, queue'[u])
<1>1. /\ DOMAIN queue' = Threads /\ queue'[q] = k /\ \A u \in Threads : u # q => queue'[u] = queue[u]
  BY DEF ThreadsInv
<1> QED BY <1>1

\* A step of a thread that is in Get changes no call that is waited for.
LEMMA GetReady ==
  ASSUME ThreadsInv, ReadyAlive, NEW t \in Threads, Len(stack[t]) = 1, Above(t, 0),
         SameCalls(msg, msg'), Ids' = Ids,
         \A m \in Ids : msg'[m].st \in {"queued", "handling"} =>
           msg[m].st \in {"queued", "handling"} \/ msg'[m].how # "send"
  PROVE  ReadyAlive'
<1>1. Top(t).m = 0 /\ stack[t][1] = Top(t)
  BY Depth, StateTypes
<1>2. \A i \in (0 + 1)..Len(stack[t]) : stack[t][i].m \notin Ids
  BY <1>1, StateTypes
<1> QED BY <1>2, ReadyBelow

\* The Wait of a Send reads the wake-up.
LEMMA WaitForReplyKept ==
  ASSUME ThreadsInv, NEW t \in Threads, WaitForReply(t)
  PROVE  Preserved
<1> DEFINE n == Len(stack[t])
           x == Top(t).m
           w == [GoTo(stack[t], "sent") EXCEPT ![n].waited = TRUE]
           f == [Top(t) EXCEPT !.at = "sent", !.waited = TRUE]
           k == [queue[t] EXCEPT !.wake = FALSE]
<1>1. /\ n > 1 /\ Top(t).at = "wait" /\ queue' = [queue EXCEPT ![t] = k] /\ stack' = [stack EXCEPT ![t] = w]
      /\ msg' = msg /\ wait' = wait /\ now' = now /\ budget' = budget
  BY DEF WaitForReply
<1>2. n \in Nat /\ n - 1 \in Nat /\ n - 1 <= n /\ n - 1 >= 1
  <2>1. n \in Nat
    BY StateTypes
  <2> QED BY <1>1, <2>1
<1>3. x \in Ids /\ msg[x].from = t
  BY <1>1, SendTop DEF Calls
<1>4. Top(t) = stack[t][n] /\ Top(t) \in FrameRecord /\ stack[t] \in Seq(FrameRecord)
  BY StateTypes
<1>5. w = SetTop(stack[t], f) /\ f \in FrameRecord /\ f.at = "sent" /\ f.m = x /\ f.waited = TRUE
  <2>1. f \in FrameRecord /\ f.at = "sent" /\ f.m = x /\ f.waited = TRUE
    BY <1>4 DEF FrameRecord, Places
  <2>2. w = SetTop(stack[t], f)
    BY <1>1, <1>2, <1>4 DEF GoTo, SetTop
  <2> QED BY <2>1, <2>2
<1>6. QueueOK(t, msg, k) /\ k.sendlist = queue[t].sendlist
  <2>1. QueueOK(t, msg, queue[t]) /\ queue[t] \in QueueRecord
    BY StateTypes
  <2>2. /\ k \in QueueRecord /\ k.msgq = queue[t].msgq /\ k.dmsgq = queue[t].dmsgq
        /\ k.sendlist = queue[t].sendlist /\ k.has_sends = queue[t].has_sends
    BY <2>1 DEF QueueRecord
  <2> HIDE DEF k
  <2> QED BY <2>1, <2>2 DEF QueueOK
<1> HIDE DEF f, w, k
<1>7. /\ DOMAIN queue' = Threads /\ queue'[t] = k /\ \A u \in Threads : u # t => queue'[u] = queue[u]
      /\ \A u \in Threads : QueueOK(u, msg, queue'[u])
  <2>1. \A u \in Threads : QueueOK(u, msg, queue[u])
    BY StateTypes
  <2> QED BY <1>1, <1>6, <2>1, QueueSet
<1>8. /\ StackOK(t, msg, w) /\ w \in Seq(FrameRecord) /\ Len(w) = n /\ w[n] = f
      /\ \A i \in 1..(n - 1) : w[i] = stack[t][i]
  <2>1. Top(t).at \in Calls \ {"push"} /\ f.at \in Waiting /\ f.at \in {"sent", "wait"}
    BY <1>1, <1>5 DEF Calls, Waiting
  <2> QED BY <1>1, <1>5, <2>1, SendMoved
<1>9. /\ stack'[t] = w /\ Above(t, n - 1) /\ Top(t)' = f /\ InGet(t)' = InGet(t)
  <2>1. Stacked(t, w) /\ SameBelow(t, w, n - 1)
    BY <1>1, <1>2, <1>8 DEF Stacked, SameBelow
  <2> QED BY <1>2, <1>8, <2>1, Replaced
<1>10. ThreadsInv'
  <2>1. ClockOK'
    BY <1>1 DEF ThreadsInv, ClockOK
  <2>2. StackOK(t, msg, stack'[t])
    BY <1>8, <1>9
  <2> QED BY <1>1, <1>7, <1>9, <2>1, <2>2, LightStep
<1>11. SameCalls(msg, msg') /\ Ids' = Ids /\ \A m \in Ids : msg'[m] = msg[m]
  BY <1>1, SameMessages
<1>12. ASSUME ReadyAlive PROVE ReadyAlive'
  <2>1. n \in 1..Len(stack'[t]) /\ stack'[t][n] = f
    BY <1>2, <1>8, <1>9
  <2>2. \A i \in ((n - 1) + 1)..n : stack[t][i] = Top(t)
    BY <1>2, <1>4
  <2>3. \A i \in ((n - 1) + 1)..n : \E j \in 1..Len(stack'[t]) :
          stack'[t][j].m = stack[t][i].m /\ stack'[t][j].at \in Waiting
    BY <1>5, <2>1, <2>2 DEF Waiting
  <2> QED BY <1>9, <1>11, <1>12, <2>3, ReadyBelow
<1>13. ASSUME WakeInv PROVE WakeInv'
  <2>1. \A u \in Threads : u # t => SendsHeard(u)' /\ PostsHeard(u)' /\ RepliesHeard(u)'
    <3>1. \A u \in Threads : u # t => stack'[u] = stack[u]
      BY <1>9 DEF Above
    <3> QED BY <1>1, <1>7, <1>11, <1>13, <3>1, WakeKept
  <2>2. SendsHeard(t)'
    BY <1>5, <1>9 DEF SendsHeard
  <2>3. PostsHeard(t)'
    BY <1>1, <1>9, Depth DEF PostsHeard
  <2>4. RepliesHeard(t)'
    <3> SUFFICES ASSUME NEW i \in 2..Len(stack'[t]), stack'[t][i].at = "wait"
                 PROVE  \E j \in (i + 1)..Len(stack'[t]) : stack'[t][j].waited
      BY DEF RepliesHeard
    <3>1. i # n
      BY <1>5, <1>8, <1>9
    <3>2. n \in (i + 1)..Len(stack'[t]) /\ stack'[t][n].waited
      BY <1>2, <1>5, <1>8, <1>9, <3>1
    <3> QED BY <3>2
  <2> QED BY <2>1, <2>2, <2>3, <2>4 DEF WakeInv
<1> QED BY <1>10, <1>12, <1>13 DEF Preserved

\* Quit.
LEMMA QuitKept ==
  ASSUME ThreadsInv, NEW t \in Threads, NEW q \in Threads, Quit(t, q)
  PROVE  Preserved
<1> DEFINE k == [queue[q] EXCEPT !.fStop = TRUE, !.wake = TRUE]
<1>1. /\ Top(t).at = "handle" /\ budget.deeds > 0 /\ budget' = [budget EXCEPT !.deeds = @ - 1]
      /\ msg' = msg /\ stack' = stack /\ wait' = wait /\ now' = now
      /\ queue' = WakeUp([queue EXCEPT ![q].fStop = TRUE], q)
  BY DEF Quit, InHandler
<1>2. queue' = [queue EXCEPT ![q] = k]
  BY <1>1 DEF WakeUp, ThreadsInv
<1>3. /\ QueueOK(q, msg, k) /\ k.sendlist = queue[q].sendlist /\ k.msgq = queue[q].msgq
      /\ k.wake = TRUE
  <2>1. QueueOK(q, msg, queue[q]) /\ queue[q] \in QueueRecord
    BY StateTypes
  <2>2. /\ k \in QueueRecord /\ k.msgq = queue[q].msgq /\ k.dmsgq = queue[q].dmsgq
        /\ k.sendlist = queue[q].sendlist /\ k.has_sends = queue[q].has_sends /\ k.wake = TRUE
    BY <2>1 DEF QueueRecord
  <2> HIDE DEF k
  <2> QED BY <2>1, <2>2 DEF QueueOK
<1> HIDE DEF k
<1>4. /\ DOMAIN queue' = Threads /\ queue'[q] = k /\ \A u \in Threads : u # q => queue'[u] = queue[u]
      /\ \A u \in Threads : QueueOK(u, msg, queue'[u])
  <2>1. \A u \in Threads : QueueOK(u, msg, queue[u])
    BY StateTypes
  <2> QED BY <1>2, <1>3, <2>1, QueueSet
<1>5. ClockOK'
  <2>1. /\ budget \in [callers : SUBSET Threads, running : SUBSET Threads,
                 links : SUBSET (Threads \X Threads), post : Nat, delay : Nat, send : Nat,
                 deeds : Nat, ticks : Nat]
        /\ budget.deeds \in Nat
    BY DEF ThreadsInv, ClockOK
  <2>2. budget.deeds - 1 \in Nat /\ budget' = [budget EXCEPT !.deeds = budget.deeds - 1]
    BY <1>1, <2>1
  <2>3. /\ budget' \in [callers : SUBSET Threads, running : SUBSET Threads,
                 links : SUBSET (Threads \X Threads), post : Nat, delay : Nat, send : Nat,
                 deeds : Nat, ticks : Nat]
        /\ budget'.ticks = budget.ticks
    BY <2>1, <2>2
  <2> QED BY <1>1, <2>3 DEF ThreadsInv, ClockOK
<1>6. Above(t, Len(stack[t])) /\ StackOK(t, msg, stack'[t])
  BY <1>1, StateTypes DEF Above, ThreadsInv
<1>7. ThreadsInv'
  BY <1>1, <1>4, <1>5, <1>6, LightStep
<1>8. ReadyAlive => ReadyAlive'
  BY <1>1 DEF ReadyAlive, Ids
<1>9. SameCalls(msg, msg') /\ \A m \in Ids : msg'[m] = msg[m]
  BY <1>1, SameMessages
<1>10. Top(t)' = Top(t) /\ InGet(t)' = InGet(t)
  BY <1>1 DEF Top, InGet
<1>11. /\ \A u \in Threads : queue[u].wake => queue'[u].wake
       /\ \A u \in Threads : queue'[u].fStop => queue[u].fStop \/ queue'[u].wake
       /\ \A u \in Threads : queue'[u].sendlist = queue[u].sendlist /\ queue'[u].msgq = queue[u].msgq
  BY <1>3, <1>4
<1>12. ASSUME WakeInv PROVE WakeInv'
  <2>1. \A u \in Threads : u # t => SendsHeard(u)' /\ PostsHeard(u)' /\ RepliesHeard(u)'
    <3>1. \A u \in Threads : stack'[u] = stack[u]
      BY <1>1
    <3> QED BY <1>1, <1>9, <1>11, <1>12, <3>1, WakeKept
  <2>2. SendsHeard(t)'
    BY <1>1, <1>10 DEF SendsHeard
  <2>3. PostsHeard(t)'
    BY <1>10, <1>11, <1>12 DEF PostsHeard, WakeInv
  <2>4. RepliesHeard(t)'
    BY <1>1, <1>11, <1>12 DEF RepliesHeard, WakeInv
  <2> QED BY <2>1, <2>2, <2>3, <2>4 DEF WakeInv
<1> QED BY <1>7, <1>8, <1>12 DEF Preserved

\* The clock's last value.
LEMMA ForeverType ==
  /\ Forever \in Nat
  /\ \A c \in Scenarios : Start + c.ticks + TimeSpace <= Forever
<1> DEFINE T == {c.ticks : c \in Scenarios}
<1>1. PICK c \in Scenarios : \A d \in Scenarios : d.ticks <= c.ticks
  BY ThreadsAssumption
<1>2. \A d \in Scenarios : d.ticks \in Nat
  BY ThreadsAssumption
<1>3. c.ticks \in T /\ \A y \in T : c.ticks >= y
  BY <1>1, <1>2
<1>4. Max(T) \in T /\ \A y \in T : Max(T) >= y
  <2> HIDE DEF T
  <2> QED BY <1>3 DEF Max
<1>5. Forever = Start + Max(T) + TimeSpace
  BY DEF Forever
<1>6. Start \in Nat /\ TimeSpace \in Nat /\ Max(T) \in Nat
  BY <1>2, <1>4, ThreadsAssumption
<1>7. ASSUME NEW d \in Scenarios PROVE d.ticks <= Max(T) /\ d.ticks \in Nat
  <2>1. d.ticks \in T /\ d.ticks \in Nat
    BY <1>2
  <2> HIDE DEF T
  <2> QED BY <1>4, <1>6, <2>1
<1> HIDE DEF T
<1> QED BY <1>5, <1>6, <1>7

\* What t has not heard of its sends is as it was.
LEMMA SendsStill ==
  ASSUME ThreadsInv, NEW t \in Threads, NEW k, Above(t, k), SendsHeard(t), msg' = msg,
         Top(t).at \in {"take", "check", "wait"},
         queue'[t].sendlist = queue[t].sendlist, queue'[t].wake = queue[t].wake
  PROVE  SendsHeard(t)'
<1> SUFFICES ASSUME NEW m \in Held(queue'[t].sendlist)
             PROVE  queue'[t].wake \/ Top(msg[m].from)' = Frame("signal", m)
  BY DEF SendsHeard, Frame
<1>1. queue[t].wake \/ Top(msg[m].from) = Frame("signal", m)
  BY DEF SendsHeard
<1>2. m \in Held(queue[t].sendlist) /\ QueueOK(t, msg, queue[t])
  BY StateTypes
<1>3. m \in Ids /\ msg[m].from # t
  BY <1>2 DEF QueueOK, Ids
<1>4. msg[m].from \in Threads
  <2>1. msg[m] \in Message
    BY <1>3, StateTypes
  <2> QED BY <2>1 DEF Message
<1>5. stack'[msg[m].from] = stack[msg[m].from]
  BY <1>3, <1>4 DEF Above
<1>6. Top(msg[m].from)' = Top(msg[m].from)
  BY <1>5 DEF Top
<1> QED BY <1>1, <1>6

\* A step of Get: t has one frame, and v for its stack afterwards.
LEMMA GetStep ==
  ASSUME ThreadsInv, NEW t \in Threads, Len(stack[t]) = 1, NEW v \in Seq(FrameRecord), Len(v) >= 1,
         Stacked(t, v)
  PROVE  stack'[t] = v /\ Above(t, 0) /\ Top(t)' = v[Len(v)] /\ InGet(t)' = v[1].at
<1>1. SameBelow(t, v, 0)
  BY DEF SameBelow
<1> QED BY <1>1, Replaced

\* Get begins.
LEMMA GetBeginKept ==
  ASSUME ThreadsInv, NEW t \in Threads, GetBegin(t)
  PROVE  Preserved
<1> DEFINE w == GoTo(stack[t], "take")
           v == ReceiveSends(t, w)
<1>1. /\ Top(t).at = "get" /\ stack' = [stack EXCEPT ![t] = v] /\ wait' = [wait EXCEPT ![t].cur = now]
      /\ queue' = queue /\ msg' = msg /\ now' = now /\ budget' = budget
  BY DEF GetBegin
<1>2. Len(stack[t]) = 1
  BY <1>1, Depth DEF Bottom
<1>3. StackOK(t, msg, w) /\ w \in Seq(FrameRecord) /\ Len(w) = 1 /\ w[1].at = "take"
  <2>1. "take" \in Bottom
    BY DEF Bottom
  <2> QED BY <1>2, <2>1, GetMoved
<1> HIDE DEF w
<1>4. /\ StackOK(t, msg, v) /\ v \in Seq(FrameRecord) /\ Len(v) >= 1 /\ Len(v) \in Nat
      /\ \A i \in 1..1 : v[i] = w[i]
      /\ \A i \in (1 + 1)..Len(v) : v[i].at = "receive"
      /\ (~queue[t].has_sends /\ v = w) \/ v[Len(v)].at = "receive"
  <2>1. /\ Len(w) = 1 => w[1].at = "take"
        /\ Len(w) > 1 => w[Len(w)].at = "wait"
    BY <1>3
  <2>2. /\ StackOK(t, msg, v) /\ v \in Seq(FrameRecord) /\ Len(v) >= Len(w) /\ Len(v) \in Nat
        /\ \A i \in 1..Len(w) : v[i] = w[i]
        /\ \A i \in (Len(w) + 1)..Len(v) : v[i].at = "receive"
        /\ \/ ~queue[t].has_sends /\ v = w
           \/ v[Len(v)].at = "receive"
    BY <1>3, <2>1, Received
  <2> HIDE DEF v
  <2> QED BY <1>3, <2>2
<1> HIDE DEF v
<1>5. stack'[t] = v /\ Above(t, 0) /\ Top(t)' = v[Len(v)] /\ InGet(t)' = "take"
  <2>1. Stacked(t, v) /\ v[1].at = "take"
    BY <1>1, <1>3, <1>4 DEF Stacked
  <2>2. v \in Seq(FrameRecord) /\ Len(v) >= 1
    BY <1>4
  <2>3. Stacked(t, v)
    BY <2>1
  <2>4. stack'[t] = v /\ Above(t, 0) /\ Top(t)' = v[Len(v)] /\ InGet(t)' = v[1].at
    BY <1>2, <2>2, <2>3, GetStep
  <2> QED BY <2>1, <2>4
<1>6. ClockOK'
  <2>1. wait \in [Threads -> [cur : Start..now, next : Nat]] /\ now \in Start..now
    BY ThreadsAssumption DEF ThreadsInv, ClockOK
  <2>2. wait' \in [Threads -> [cur : Start..now, next : Nat]]
    BY <1>1, <2>1
  <2> QED BY <1>1, <2>2 DEF ThreadsInv, ClockOK
<1>7. Quiet(t)
  BY <1>1, StateTypes DEF Quiet, ThreadsInv
<1>8. ReadyAlive => ReadyAlive'
  <2>1. SameCalls(msg, msg') /\ Ids' = Ids
    BY <1>1, SameMessages
  <2> QED BY <1>1, <1>2, <1>5, <2>1, GetReady
<1>9. WakeInv => SendsHeard(t)' /\ PostsHeard(t)' /\ RepliesHeard(t)'
  <2>1. SendsHeard(t)'
    <3>1. CASE v[Len(v)].at = "receive"
      BY <1>5, <3>1 DEF SendsHeard
    <3>2. CASE ~queue[t].has_sends
      <4>1. QueueOK(t, msg, queue[t])
        BY StateTypes
      <4>2. Held(queue'[t].sendlist) = {}
        BY <1>1, <3>2, <4>1, ShortQueues DEF QueueOK
      <4> QED BY <4>2 DEF SendsHeard
    <3> QED BY <1>4, <3>1, <3>2
  <2>2. PostsHeard(t)'
    BY <1>5 DEF PostsHeard
  <2>3. RepliesHeard(t)'
    BY <1>4, <1>5 DEF RepliesHeard
  <2> QED BY <2>1, <2>2, <2>3
<1>10. StackOK(t, msg, stack'[t])
  BY <1>4, <1>5
<1> QED BY <1>1, <1>5, <1>6, <1>7, <1>8, <1>9, <1>10, QuietKept

\* Get looks at fStop_ after it has found its queue empty.
LEMMA CheckStopKept ==
  ASSUME ThreadsInv, NEW t \in Threads, CheckStop(t)
  PROVE  Preserved
<1> DEFINE at == IF queue[t].fStop THEN "ended" ELSE "wait"
           w == GoTo(stack[t], at)
<1>1. /\ Top(t).at = "check" /\ stack' = [stack EXCEPT ![t] = w]
      /\ queue' = queue /\ msg' = msg /\ now' = now /\ budget' = budget
  BY DEF CheckStop
<1>2. Len(stack[t]) = 1 /\ InGet(t) = "check"
  BY <1>1, Depth DEF Bottom
<1>3. StackOK(t, msg, w) /\ w \in Seq(FrameRecord) /\ Len(w) = 1 /\ w[1].at = at
  <2>1. at \in Bottom
    BY DEF Bottom
  <2> QED BY <1>2, <2>1, GetMoved
<1> HIDE DEF w
<1>4. stack'[t] = w /\ Above(t, 0) /\ Top(t)'.at = at /\ InGet(t)' = at
  <2>1. Stacked(t, w)
    BY <1>1 DEF Stacked
  <2>2. w \in Seq(FrameRecord) /\ Len(w) >= 1
    BY <1>3
  <2>3. stack'[t] = w /\ Above(t, 0) /\ Top(t)' = w[Len(w)] /\ InGet(t)' = w[1].at
    BY <1>2, <2>1, <2>2, GetStep
  <2> QED BY <1>3, <2>3
<1>5. ClockOK'
  <2>1. wait \in [Threads -> [cur : Start..now, next : Nat]] /\ now \in Nat
    BY DEF ThreadsInv, ClockOK
  <2>2. Forever \in Nat
    BY ForeverType
  <2>3. PICK k \in Nat : wait' = [wait EXCEPT ![t].next = k]
    <3>1. wait[t].next \in Nat
      BY <2>1
    <3>2. CASE queue[t].fStop
      BY <2>2, <3>2 DEF CheckStop
    <3>3. CASE ~queue[t].fStop
      <4>1. wait' = [wait EXCEPT ![t].next = IF wait[t].next = Forever THEN wait[t].next ELSE now + wait[t].next]
        BY <2>1, <3>3 DEF CheckStop
      <4>2. now + wait[t].next \in Nat
        BY <2>1, <3>1
      <4> QED BY <3>1, <4>1, <4>2
    <3> QED BY <3>2, <3>3
  <2>4. wait' \in [Threads -> [cur : Start..now, next : Nat]]
    BY <2>1, <2>3
  <2> QED BY <1>1, <2>4 DEF ThreadsInv, ClockOK
<1>6. Quiet(t)
  BY <1>1, StateTypes DEF Quiet, ThreadsInv
<1>7. ReadyAlive => ReadyAlive'
  <2>1. SameCalls(msg, msg') /\ Ids' = Ids
    BY <1>1, SameMessages
  <2> QED BY <1>1, <1>2, <1>4, <2>1, GetReady
<1>8. WakeInv => SendsHeard(t)' /\ PostsHeard(t)' /\ RepliesHeard(t)'
  <2> SUFFICES ASSUME WakeInv PROVE SendsHeard(t)' /\ PostsHeard(t)' /\ RepliesHeard(t)'
    OBVIOUS
  <2>1. SendsHeard(t)'
    BY <1>1, <1>4, SendsStill DEF WakeInv
  <2>2. PostsHeard(t)'
    BY <1>1, <1>2, <1>4 DEF PostsHeard, WakeInv
  <2>3. RepliesHeard(t)'
    <3>1. Len(stack'[t]) = 1
      BY <1>3, <1>4
    <3>2. 2..Len(stack'[t]) = {}
      BY <3>1
    <3> QED BY <3>2 DEF RepliesHeard
  <2> QED BY <2>1, <2>2, <2>3
<1>9. StackOK(t, msg, stack'[t])
  BY <1>3, <1>4
<1> QED BY <1>1, <1>4, <1>5, <1>6, <1>7, <1>8, <1>9, QuietKept

\* The Wait of Get ends, and reads the wake-up if there is one.
LEMMA WaitInGetKept ==
  ASSUME ThreadsInv, NEW t \in Threads, WaitInGet(t)
  PROVE  Preserved
<1> DEFINE w == GoTo(stack[t], "get")
           k == [queue[t] EXCEPT !.wake = FALSE]
<1>1. /\ Len(stack[t]) = 1 /\ stack' = [stack EXCEPT ![t] = w] /\ queue' = [queue EXCEPT ![t] = k]
      /\ wait' = [wait EXCEPT ![t].next = Forever]
      /\ msg' = msg /\ now' = now /\ budget' = budget /\ Top(t).at = "wait"
  BY DEF WaitInGet
<1>2. StackOK(t, msg, w) /\ w \in Seq(FrameRecord) /\ Len(w) = 1 /\ w[1].at = "get"
  <2>1. "get" \in Bottom
    BY DEF Bottom
  <2> QED BY <1>1, <2>1, GetMoved
<1> HIDE DEF w
<1>3. stack'[t] = w /\ Above(t, 0) /\ Top(t)'.at = "get" /\ InGet(t)' = "get"
  <2>1. Stacked(t, w) /\ Len(w) >= 1 /\ Len(stack[t]) = 1
    BY <1>1, <1>2 DEF Stacked
  <2> QED BY <1>2, <2>1, GetStep
<1>4. ClockOK'
  <2>1. wait \in [Threads -> [cur : Start..now, next : Nat]]
    BY DEF ThreadsInv, ClockOK
  <2>2. Forever \in Nat
    BY ForeverType
  <2>3. wait' \in [Threads -> [cur : Start..now, next : Nat]]
    BY <1>1, <2>1, <2>2
  <2> QED BY <1>1, <2>3 DEF ThreadsInv, ClockOK
<1>5. QueueOK(t, msg, k)
  <2>1. QueueOK(t, msg, queue[t]) /\ queue[t] \in QueueRecord
    BY StateTypes
  <2>2. /\ k \in QueueRecord /\ k.msgq = queue[t].msgq /\ k.dmsgq = queue[t].dmsgq
        /\ k.sendlist = queue[t].sendlist /\ k.has_sends = queue[t].has_sends
    BY <2>1 DEF QueueRecord
  <2> HIDE DEF k
  <2> QED BY <2>1, <2>2 DEF QueueOK
<1> HIDE DEF k
<1>6. /\ DOMAIN queue' = Threads /\ queue'[t] = k /\ \A u \in Threads : u # t => queue'[u] = queue[u]
      /\ \A u \in Threads : QueueOK(u, msg, queue'[u])
  <2>1. \A u \in Threads : QueueOK(u, msg, queue[u])
    BY StateTypes
  <2> QED BY <1>1, <1>5, <2>1, QueueSet
<1>7. ThreadsInv'
  <2>1. StackOK(t, msg, stack'[t])
    BY <1>2, <1>3
  <2> QED BY <1>1, <1>3, <1>4, <1>6, <2>1, LightStep
<1>8. SameCalls(msg, msg') /\ Ids' = Ids /\ \A m \in Ids : msg'[m] = msg[m]
  BY <1>1, SameMessages
<1>9. ReadyAlive => ReadyAlive'
  BY <1>1, <1>3, <1>8, GetReady
<1>10. ASSUME WakeInv PROVE WakeInv'
  <2>1. \A u \in Threads : u # t => SendsHeard(u)' /\ PostsHeard(u)' /\ RepliesHeard(u)'
    <3>1. \A u \in Threads : u # t => stack'[u] = stack[u]
      BY <1>3 DEF Above
    <3> QED BY <1>1, <1>6, <1>8, <1>10, <3>1, WakeKept
  <2>2. SendsHeard(t)' /\ PostsHeard(t)'
    BY <1>3 DEF SendsHeard, PostsHeard
  <2>3. RepliesHeard(t)'
    <3>1. Len(stack'[t]) = 1
      BY <1>2, <1>3
    <3>2. 2..Len(stack'[t]) = {}
      BY <3>1
    <3> QED BY <3>2 DEF RepliesHeard
  <2> QED BY <2>1, <2>2, <2>3 DEF WakeInv
<1> QED BY <1>7, <1>9, <1>10 DEF Preserved

\* Time passes.
LEMMA TickKept ==
  ASSUME ThreadsInv, Tick
  PROVE  Preserved
<1>1. /\ budget.ticks > 0 /\ now' = now + 1 /\ budget' = [budget EXCEPT !.ticks = budget.ticks - 1]
      /\ msg' = msg /\ queue' = queue /\ stack' = stack /\ wait' = wait
  BY DEF Tick
<1>2. ClockOK'
  <2>1. /\ budget \in [callers : SUBSET Threads, running : SUBSET Threads,
                 links : SUBSET (Threads \X Threads), post : Nat, delay : Nat, send : Nat,
                 deeds : Nat, ticks : Nat]
        /\ budget.ticks \in Nat /\ now \in Nat /\ Start <= now
        /\ now + budget.ticks + TimeSpace <= Forever
        /\ wait \in [Threads -> [cur : Start..now, next : Nat]]
    BY DEF ThreadsInv, ClockOK
  <2>2. Start \in Nat /\ TimeSpace \in Nat /\ Forever \in Nat
    BY ThreadsAssumption, ForeverType
  <2>3. budget.ticks - 1 \in Nat /\ now' \in Nat /\ Start <= now'
        /\ now' + (budget.ticks - 1) + TimeSpace <= Forever
    BY <1>1, <2>1, <2>2
  <2>4. /\ budget' \in [callers : SUBSET Threads, running : SUBSET Threads,
                 links : SUBSET (Threads \X Threads), post : Nat, delay : Nat, send : Nat,
                 deeds : Nat, ticks : Nat]
        /\ budget'.ticks = budget.ticks - 1
    BY <1>1, <2>1, <2>3
  <2>5. Start..now \subseteq Start..now'
    BY <1>1, <2>1, <2>2
  <2>6. wait' \in [Threads -> [cur : Start..now', next : Nat]]
    BY <1>1, <2>1, <2>5
  <2> QED BY <2>3, <2>4, <2>6 DEF ClockOK
<1>3. ThreadsInv'
  BY <1>1, <1>2 DEF ThreadsInv, MessagesOK, Ids
<1>4. WakeInv => WakeInv'
  BY <1>1 DEF WakeInv, SendsHeard, PostsHeard, RepliesHeard, Top, InGet
<1>5. ReadyAlive => ReadyAlive'
  BY <1>1 DEF ReadyAlive, Ids
<1> QED BY <1>3, <1>4, <1>5 DEF Preserved

-----------------------------------------------------------------------------
(* The steps that make something of a message.                             *)

\* The parts of the invariant, after a step of t.
LEMMA StepTogether ==
  ASSUME NEW t \in Threads, NEW k, Above(t, k), MessagesOK', ClockOK',
         DOMAIN queue' = Threads, \A u \in Threads : QueueOK(u, msg', queue'[u]),
         StackOK(t, msg', stack'[t]), \A u \in Threads : u # t => StackOK(u, msg', stack[u])
  PROVE  ThreadsInv'
<1>1. \A u \in Threads : StackOK(u, msg', stack'[u])
  <2> SUFFICES ASSUME NEW u \in Threads PROVE StackOK(u, msg', stack'[u])
    OBVIOUS
  <2>1. CASE u = t
    BY <2>1
  <2>2. CASE u # t
    <3>1. stack'[u] = stack[u] /\ StackOK(u, msg', stack[u])
      BY <2>2 DEF Above
    <3> QED BY <3>1
  <2> QED BY <2>1, <2>2
<1>2. DOMAIN stack' = Threads
  BY DEF Above
<1> QED BY <1>1, <1>2 DEF ThreadsInv

\* A message behind the others in its queue.
LEMMA QueueAdd ==
  ASSUME ThreadsInv, NEW q \in Threads, NEW m \in Ids, QueueOK(q, msg', queue[q]), Ids' = Ids,
         msg[m].st # "queued", msg'[m].st = "queued", msg'[m].to = q, msg'[m].how # "send"
  PROVE  LET a == [queue[q] EXCEPT !.msgq = Append(@, m), !.wake = TRUE]
             d == [queue[q] EXCEPT !.dmsgq = Insert(@, m), !.wake = TRUE]
         IN /\ QueueOK(q, msg', a) /\ a.sendlist = queue[q].sendlist /\ a.fStop = queue[q].fStop
            /\ a.wake = TRUE
            /\ QueueOK(q, msg', d) /\ d.sendlist = queue[q].sendlist /\ d.fStop = queue[q].fStop
            /\ d.wake = TRUE
<1> DEFINE a == [queue[q] EXCEPT !.msgq = Append(@, m), !.wake = TRUE]
           d == [queue[q] EXCEPT !.dmsgq = Insert(@, m), !.wake = TRUE]
           k == queue[q]
<1>1. /\ QueueOK(q, msg, k) /\ k \in QueueRecord /\ k.msgq \in Seq(Nat) /\ k.dmsgq \in Seq(Nat)
      /\ m \in Nat /\ m \in DOMAIN msg'
  BY StateTypes DEF QueueRecord, Ids
<1>2. m \notin Held(k.msgq) /\ m \notin Held(k.dmsgq)
  BY <1>1 DEF QueueOK
<1>3. /\ Append(k.msgq, m) \in Seq(Nat) /\ Held(Append(k.msgq, m)) = Held(k.msgq) \cup {m}
      /\ Distinct(Append(k.msgq, m))
  <2> HIDE DEF k
  <2>1. \A x : Once(k.msgq, x)
    BY <1>1, DistinctOnce DEF QueueOK
  <2>2. /\ Append(k.msgq, m) \in Seq(Nat) /\ Held(Append(k.msgq, m)) = Held(k.msgq) \cup {m}
        /\ \A x : Once(k.msgq, x) /\ ~(x = m /\ m \in Held(k.msgq)) => Once(Append(k.msgq, m), x)
    BY <1>1, AppendQueue
  <2>3. \A x : Once(Append(k.msgq, m), x)
    BY <1>2, <2>1, <2>2
  <2> QED BY <2>2, <2>3, DistinctOnce
<1>4. /\ Insert(k.dmsgq, m) \in Seq(Nat) /\ Held(Insert(k.dmsgq, m)) = Held(k.dmsgq) \cup {m}
      /\ Distinct(Insert(k.dmsgq, m))
  <2> HIDE DEF k
  <2>1. Distinct(k.dmsgq)
    BY <1>1 DEF QueueOK
  <2> QED BY <1>1, <1>2, <2>1, InsertQueue
<1>5. /\ a \in QueueRecord /\ a.msgq = Append(k.msgq, m) /\ a.dmsgq = k.dmsgq
      /\ a.sendlist = k.sendlist /\ a.has_sends = k.has_sends /\ a.fStop = k.fStop /\ a.wake = TRUE
  BY <1>1, <1>3 DEF QueueRecord
<1>6. /\ d \in QueueRecord /\ d.dmsgq = Insert(k.dmsgq, m) /\ d.msgq = k.msgq
      /\ d.sendlist = k.sendlist /\ d.has_sends = k.has_sends /\ d.fStop = k.fStop /\ d.wake = TRUE
  BY <1>1, <1>4 DEF QueueRecord
<1> HIDE DEF a, d
<1>7. QueueOK(q, msg', a)
  BY <1>1, <1>2, <1>3, <1>5 DEF QueueOK
<1>8. QueueOK(q, msg', d)
  BY <1>1, <1>2, <1>4, <1>6 DEF QueueOK
<1> QED BY <1>5, <1>6, <1>7, <1>8 DEF a, d

\* A posted message is pushed.
LEMMA PushMessageKept ==
  ASSUME ThreadsInv, NEW t \in Threads, PushMessage(t)
  PROVE  Preserved
<1> DEFINE n == Len(stack[t])
           x == Top(t).m
           q == msg[x].to
           e == ~queue[q].fStop
           a == [queue[q] EXCEPT !.msgq = Append(@, x), !.wake = TRUE]
           d == [queue[q] EXCEPT !.dmsgq = Insert(@, x), !.wake = TRUE]
           k == IF msg[x].how = "post" THEN a ELSE d
<1>1. /\ Top(t).at = "push" /\ stack' = [stack EXCEPT ![t] = Pop(@)]
      /\ wait' = wait /\ now' = now /\ budget' = budget
  BY DEF PushMessage
<1>2. n > 1 /\ n \in Nat /\ n - 1 \in Nat /\ n - 1 <= n
  <2>1. n > 1 /\ n \in Nat
    BY <1>1, InHandlerDeep, StateTypes DEF Bottom
  <2> QED BY <2>1
<1>3. /\ x \in Ids /\ msg[x] \in Message /\ msg[x].from = t /\ q \in Threads
      /\ stack[t][n - 1].at = "handle" /\ Top(t).waited = FALSE
  BY <1>1, <1>2, SendTop DEF Calls
<1>4. msg[x].how # "send" /\ msg[x].st = "calling" /\ stack[t][n] = Top(t)
  <2>1. FrameOK(t, msg, stack[t], n) /\ stack[t][n] = Top(t)
    BY <1>2, StateTypes
  <2> QED BY <1>1, <2>1 DEF FrameOK
<1>5. msg[x].ready = FALSE
  BY <1>3, <1>4 DEF ThreadsInv, MessagesOK, Message
<1>6. msg' = Marked(x, "queued", FALSE, e)
  <2>1. msg' = [msg EXCEPT ![x] = [msg[x] EXCEPT !.st = "queued", !.early = e]]
    BY <1>3 DEF PushMessage, Ids
  <2>2. [msg[x] EXCEPT !.st = "queued", !.early = e]
          = [msg[x] EXCEPT !.st = "queued", !.ready = FALSE, !.early = e]
    BY <1>3, <1>5 DEF Message
  <2> QED BY <2>1, <2>2 DEF Marked
<1>7. queue' = [queue EXCEPT ![q] = k]
  <2>1. DOMAIN queue = Threads
    BY DEF ThreadsInv
  <2>2. CASE msg[x].how = "post"
    BY <1>3, <2>1, <2>2 DEF PushMessage, WakeUp
  <2>3. CASE msg[x].how # "post"
    BY <1>3, <2>1, <2>3 DEF PushMessage, WakeUp
  <2> QED BY <2>2, <2>3
<1>8. e \in BOOLEAN /\ "queued" \in States
  BY DEF States
<1> HIDE DEF e
<1>9. /\ Touched(msg, msg', x) /\ SameCalls(msg, msg') /\ Ids' = Ids /\ MessagesOK'
      /\ msg'[x].st = "queued" /\ msg'[x].ready = FALSE /\ \A m \in Ids : m # x => msg'[m] = msg[m]
  BY <1>3, <1>6, <1>8, TouchOne
<1>10. msg'[x].to = q /\ msg'[x].how # "send"
  BY <1>3, <1>4, <1>9 DEF SameCalls, Ids
<1>11. /\ \A u \in Threads : QueueOK(u, msg', queue[u])
       /\ \A u \in Threads : u # t => StackOK(u, msg', stack[u])
       /\ StackOK(t, msg', Pop(stack[t]))
  BY <1>1, <1>2, <1>3, <1>9, TouchHeld DEF Holding
<1>12. /\ QueueOK(q, msg', k) /\ k.sendlist = queue[q].sendlist /\ k.fStop = queue[q].fStop
       /\ k.wake = TRUE
  <2>1. QueueOK(q, msg', queue[q]) /\ msg[x].st # "queued"
    BY <1>3, <1>4, <1>11
  <2> HIDE DEF x, q
  <2>2. /\ QueueOK(q, msg', a) /\ a.sendlist = queue[q].sendlist /\ a.fStop = queue[q].fStop
        /\ a.wake = TRUE
        /\ QueueOK(q, msg', d) /\ d.sendlist = queue[q].sendlist /\ d.fStop = queue[q].fStop
        /\ d.wake = TRUE
    BY <1>3, <1>9, <1>10, <2>1, QueueAdd
  <2> QED BY <2>2
<1> HIDE DEF k
<1>13. /\ DOMAIN queue' = Threads /\ queue'[q] = k /\ \A u \in Threads : u # q => queue'[u] = queue[u]
       /\ \A u \in Threads : QueueOK(u, msg', queue'[u])
  BY <1>3, <1>7, <1>11, <1>12, QueueSet
<1>14. /\ stack'[t] = Pop(stack[t]) /\ Len(stack'[t]) = n - 1 /\ Above(t, n - 1)
       /\ Top(t)'.at = "handle" /\ InGet(t)' = InGet(t)
  BY <1>1, <1>2, <1>3, Popped
<1>15. ThreadsInv'
  <2>1. ClockOK'
    BY <1>1 DEF ThreadsInv, ClockOK
  <2>2. StackOK(t, msg', stack'[t])
    BY <1>11, <1>14
  <2> QED BY <1>9, <1>11, <1>13, <1>14, <2>1, <2>2, StepTogether
<1>16. \A i \in ((n - 1) + 1)..n : i = n /\ stack[t][i] = Top(t)
  BY <1>2, <1>4
<1>17. ASSUME ReadyAlive PROVE ReadyAlive'
  <2>1. \A m \in Ids : msg'[m].st = msg[m].st \/ msg'[m].how # "send"
    BY <1>9, <1>10
  <2>2. \A i \in ((n - 1) + 1)..n : stack[t][i].at \notin Waiting
    BY <1>1, <1>16 DEF Waiting
  <2> QED BY <1>9, <1>14, <1>17, <2>1, <2>2, ReadyBelow
<1>18. ASSUME WakeInv PROVE WakeInv'
  <2>1. \A m \in Ids : msg'[m].ready => msg[m].ready
    BY <1>9
  <2>2. \A u \in Threads :
          /\ queue'[u].sendlist = queue[u].sendlist /\ queue'[u].fStop = queue[u].fStop
          /\ queue[u].wake => queue'[u].wake
          /\ queue'[u].msgq # <<>> => queue[u].msgq # <<>> \/ queue'[u].wake
    BY <1>12, <1>13
  <2>3. \A u \in Threads : u # t => SendsHeard(u)' /\ PostsHeard(u)' /\ RepliesHeard(u)'
    <3>1. \A u \in Threads : u # t => stack'[u] = stack[u]
      BY <1>14 DEF Above
    <3> QED BY <1>1, <1>9, <1>18, <2>1, <2>2, <3>1, WakeKept
  <2>4. SendsHeard(t)'
    BY <1>14 DEF SendsHeard
  <2>5. PostsHeard(t)'
    BY <1>2, <1>14, Depth DEF PostsHeard
  <2>6. RepliesHeard(t)'
    <3>1. \A i \in ((n - 1) + 1)..Len(stack'[t]) : FALSE
      BY <1>2, <1>14
    <3>2. \A i \in ((n - 1) + 1)..n : ~stack[t][i].waited
      BY <1>3, <1>16
    <3>3. RepliesHeard(t)
      BY <1>18 DEF WakeInv
    <3> QED BY <1>14, <2>1, <2>2, <3>1, <3>2, <3>3, RepliesBelow
  <2> QED BY <2>3, <2>4, <2>5, <2>6 DEF WakeInv
<1> QED BY <1>15, <1>17, <1>18 DEF Preserved

\* A Send is put in the list of the thread it is for.
LEMMA EnqueueSendKept ==
  ASSUME ThreadsInv, NEW t \in Threads, EnqueueSend(t)
  PROVE  Preserved
<1> DEFINE n == Len(stack[t])
           x == Top(t).m
           q == msg[x].to
           e == ~queue[q].fStop
           f == [Top(t) EXCEPT !.at = "signal"]
           w == GoTo(stack[t], "signal")
           k == [queue[q] EXCEPT !.sendlist = Append(@, x), !.has_sends = TRUE]
<1>1. /\ Top(t).at = "enqueue" /\ stack' = [stack EXCEPT ![t] = w]
      /\ wait' = wait /\ now' = now /\ budget' = budget
  BY DEF EnqueueSend
<1>2. n > 1 /\ n \in Nat /\ n - 1 \in Nat /\ n - 1 <= n /\ n - 1 >= 1
  <2>1. n > 1 /\ n \in Nat
    BY <1>1, InHandlerDeep, StateTypes DEF Bottom
  <2> QED BY <2>1
<1>3. /\ x \in Ids /\ msg[x] \in Message /\ msg[x].from = t /\ q \in Threads
      /\ msg[x].how = "send" /\ q # t /\ Top(t).waited = FALSE
  BY <1>1, <1>2, SendTop DEF Calls
<1>4. msg[x].st = "calling" /\ stack[t][n] = Top(t)
  <2>1. FrameOK(t, msg, stack[t], n) /\ stack[t][n] = Top(t)
    BY <1>2, StateTypes
  <2> QED BY <1>1, <2>1 DEF FrameOK
<1>5. msg[x].ready = FALSE
  BY <1>3, <1>4 DEF ThreadsInv, MessagesOK, Message
<1>6. msg' = Marked(x, "queued", FALSE, e)
  <2>1. msg' = [msg EXCEPT ![x] = [msg[x] EXCEPT !.st = "queued", !.early = e]]
    BY <1>3 DEF EnqueueSend, Ids
  <2>2. [msg[x] EXCEPT !.st = "queued", !.early = e]
          = [msg[x] EXCEPT !.st = "queued", !.ready = FALSE, !.early = e]
    BY <1>3, <1>5 DEF Message
  <2> QED BY <2>1, <2>2 DEF Marked
<1>7. queue' = [queue EXCEPT ![q] = k]
  BY <1>3 DEF EnqueueSend, ThreadsInv
<1>8. e \in BOOLEAN /\ "queued" \in States
  BY DEF States
<1> HIDE DEF e
<1>9. /\ Touched(msg, msg', x) /\ SameCalls(msg, msg') /\ Ids' = Ids /\ MessagesOK'
      /\ msg'[x].st = "queued" /\ msg'[x].ready = FALSE /\ \A m \in Ids : m # x => msg'[m] = msg[m]
  BY <1>3, <1>6, <1>8, TouchOne
<1>10. msg'[x].to = q /\ msg'[x].how = "send" /\ msg'[x].from = t
  BY <1>3, <1>9 DEF SameCalls, Ids
<1>11. /\ w = SetTop(stack[t], f) /\ f \in FrameRecord /\ f.at = "signal" /\ f.m = x
       /\ f.waited = FALSE
  BY <1>3, GoToTop DEF Places
<1>12. f = Frame("signal", x)
  <2> HIDE DEF f, x
  <2>1. f = [at |-> f.at, m |-> f.m, waited |-> f.waited]
    BY <1>11 DEF FrameRecord
  <2> QED BY <1>11, <2>1 DEF Frame
<1> HIDE DEF f, w
<1>13. /\ StackOK(t, msg, w) /\ w \in Seq(FrameRecord) /\ Len(w) = n /\ w[n] = f
       /\ \A i \in 1..(n - 1) : w[i] = stack[t][i]
  <2>1. Top(t).at \in Calls \ {"push"} /\ f.at \in Waiting
    BY <1>1, <1>11 DEF Calls, Waiting
  <2> QED BY <1>2, <1>11, <2>1, SendMoved
<1>14. /\ \A u \in Threads : QueueOK(u, msg', queue[u])
       /\ \A u \in Threads : u # t => StackOK(u, msg', stack[u])
       /\ StackOK(t, msg', w)
  <2>1. /\ \A u \in Threads : QueueOK(u, msg', queue[u])
        /\ \A u \in Threads : u # t => StackOK(u, msg', stack[u])
        /\ \A s : /\ StackOK(t, msg, s) /\ Len(s) = Len(stack[t]) /\ s[Len(s)].at \notin Holding
                  /\ \A i \in 1..(Len(s) - 1) : s[i] = stack[t][i]
                  => StackOK(t, msg', s)
    BY <1>1, <1>2, <1>3, <1>9, TouchHeld DEF Holding
  <2>2. w[Len(w)].at \notin Holding /\ Len(w) = Len(stack[t]) /\ \A i \in 1..(Len(w) - 1) : w[i] = stack[t][i]
    BY <1>11, <1>13 DEF Holding
  <2> QED BY <1>13, <2>1, <2>2
<1>15. /\ QueueOK(q, msg', k) /\ k.msgq = queue[q].msgq /\ k.fStop = queue[q].fStop
       /\ k.wake = queue[q].wake /\ Held(k.sendlist) = Held(queue[q].sendlist) \cup {x}
  <2> DEFINE s == queue[q].sendlist
  <2>1. /\ QueueOK(q, msg, queue[q]) /\ QueueOK(q, msg', queue[q]) /\ queue[q] \in QueueRecord
        /\ s \in Seq(Nat) /\ x \in Nat /\ x \in DOMAIN msg'
    BY <1>3, <1>9, <1>14, StateTypes DEF QueueRecord, Ids
  <2>2. x \notin Held(s)
    BY <1>4, <2>1 DEF QueueOK
  <2>3. (\A y : Once(s, y))
    BY <2>1, DistinctOnce DEF QueueOK
  <2>4. Append(s, x) \in Seq(Nat) /\ Held(Append(s, x)) = Held(s) \cup {x} /\ Distinct(Append(s, x))
    <3> HIDE DEF s, x
    <3>1. /\ Append(s, x) \in Seq(Nat) /\ Held(Append(s, x)) = Held(s) \cup {x}
          /\ \A y : Once(s, y) /\ ~(y = x /\ x \in Held(s)) => Once(Append(s, x), y)
      BY <2>1, AppendQueue
    <3>2. \A y : Once(Append(s, x), y)
      BY <2>2, <2>3, <3>1
    <3> QED BY <3>1, <3>2, DistinctOnce
  <2>5. /\ k \in QueueRecord /\ k.sendlist = Append(s, x) /\ k.msgq = queue[q].msgq
        /\ k.dmsgq = queue[q].dmsgq /\ k.has_sends = TRUE /\ k.fStop = queue[q].fStop
        /\ k.wake = queue[q].wake
    BY <2>1, <2>4 DEF QueueRecord
  <2> HIDE DEF k, s
  <2>6. QueueOK(q, msg', k)
    <3>1. \A m \in Held(k.sendlist) :
            /\ m \in DOMAIN msg' /\ msg'[m].to = q /\ msg'[m].st = "queued"
            /\ msg'[m].how = "send" /\ msg'[m].from # q
      <4>1. x \in DOMAIN msg' /\ msg'[x].from # q
        BY <1>3, <1>10, <2>1
      <4>2. \A m \in Held(s) : /\ m \in DOMAIN msg' /\ msg'[m].to = q /\ msg'[m].st = "queued"
                                /\ msg'[m].how = "send" /\ msg'[m].from # q
        BY <2>1 DEF QueueOK, s
      <4>3. Held(k.sendlist) = Held(s) \cup {x}
        BY <2>4, <2>5
      <4> QED BY <1>9, <1>10, <4>1, <4>2, <4>3
    <3>2. Distinct(k.sendlist) /\ k.has_sends
      BY <2>4, <2>5
    <3> HIDE DEF q
    <3> QED BY <2>1, <2>5, <3>1, <3>2 DEF QueueOK
  <2> QED BY <2>4, <2>5, <2>6 DEF s
<1> HIDE DEF k
<1>16. /\ DOMAIN queue' = Threads /\ queue'[q] = k /\ \A u \in Threads : u # q => queue'[u] = queue[u]
       /\ \A u \in Threads : QueueOK(u, msg', queue'[u])
  BY <1>3, <1>7, <1>14, <1>15, QueueSet
<1>17. /\ stack'[t] = w /\ Above(t, n - 1) /\ Top(t)' = f /\ InGet(t)' = InGet(t)
  <2>1. Stacked(t, w) /\ SameBelow(t, w, n - 1)
    BY <1>1, <1>2, <1>13 DEF Stacked, SameBelow
  <2> QED BY <1>2, <1>13, <2>1, Replaced
<1>18. ThreadsInv'
  <2>1. ClockOK'
    BY <1>1 DEF ThreadsInv, ClockOK
  <2>2. StackOK(t, msg', stack'[t])
    BY <1>14, <1>17
  <2> QED BY <1>9, <1>14, <1>16, <1>17, <2>1, <2>2, StepTogether
<1>19. /\ \A i \in ((n - 1) + 1)..n : i = n /\ stack[t][i] = Top(t)
       /\ n \in 1..Len(stack'[t]) /\ stack'[t][n] = f
  BY <1>2, <1>4, <1>13, <1>17
<1>20. ASSUME ReadyAlive PROVE ReadyAlive'
  <2>1. \A m \in Ids : \/ msg'[m].st = msg[m].st
                       \/ /\ msg'[m].from = t
                          /\ \E i \in 1..Len(stack'[t]) : stack'[t][i].m = m /\ stack'[t][i].at \in Waiting
    BY <1>9, <1>10, <1>11, <1>19 DEF Waiting
  <2>2. \A i \in ((n - 1) + 1)..n : stack[t][i].at \notin Waiting
    BY <1>1, <1>19 DEF Waiting
  <2> QED BY <1>9, <1>17, <1>20, <2>1, <2>2, ReadyBelow
<1>21. ASSUME WakeInv PROVE WakeInv'
  <2>1. \A m \in Ids : msg'[m].ready => msg[m].ready
    BY <1>9
  <2>2. \A u \in Threads :
          /\ queue'[u].msgq = queue[u].msgq /\ queue'[u].fStop = queue[u].fStop
          /\ queue[u].wake => queue'[u].wake
          /\ \A m \in Held(queue'[u].sendlist) :
               \/ m \in Held(queue[u].sendlist)
               \/ m \in Ids /\ msg[m].from = t /\ Top(t)' = Frame("signal", m)
    BY <1>3, <1>12, <1>15, <1>16, <1>17
  <2>3. \A u \in Threads : u # t => SendsHeard(u)' /\ PostsHeard(u)' /\ RepliesHeard(u)'
    <3>1. \A u \in Threads : u # t => stack'[u] = stack[u]
      BY <1>17 DEF Above
    <3> QED BY <1>1, <1>9, <1>21, <2>1, <2>2, <3>1, WakeKept
  <2>4. SendsHeard(t)'
    BY <1>11, <1>17 DEF SendsHeard
  <2>5. PostsHeard(t)'
    BY <1>2, <1>17, Depth DEF PostsHeard
  <2>6. RepliesHeard(t)'
    <3>1. \A i \in ((n - 1) + 1)..Len(stack'[t]) : stack'[t][i] = f
      BY <1>2, <1>13, <1>17, <1>19
    <3>2. \A i \in ((n - 1) + 1)..n : ~stack[t][i].waited
      BY <1>3, <1>19
    <3>3. RepliesHeard(t)
      BY <1>21 DEF WakeInv
    <3> QED BY <1>11, <1>17, <2>1, <2>2, <3>1, <3>2, <3>3, RepliesBelow
  <2> QED BY <2>3, <2>4, <2>5, <2>6 DEF WakeInv
<1> QED BY <1>18, <1>20, <1>21 DEF Preserved

\* A handler returns.
LEMMA ReturnKept ==
  ASSUME ThreadsInv, NEW t \in Threads, Return(t)
  PROVE  Preserved
<1> DEFINE n == Len(stack[t])
           x == Top(t).m
           received == stack[t][n - 1].at = "receive"
           q == msg[x].from
<1>1. /\ Top(t).at = "handle" /\ stack' = [stack EXCEPT ![t] = Pop(@)]
      /\ wait' = wait /\ now' = now /\ budget' = budget
  BY DEF Return, InHandler
<1>2. n > 1 /\ n \in Nat /\ n - 1 \in Nat /\ n - 1 <= n
  <2>1. n > 1 /\ n \in Nat
    BY <1>1, InHandlerDeep, StateTypes DEF Bottom
  <2> QED BY <2>1
<1>3. /\ stack[t][n - 1].at \in {"get", "receive", "handle"} /\ Top(t).waited = FALSE
      /\ received => x # 0
      /\ x # 0 => x \in Ids
      /\ stack[t][n] = Top(t)
  <2>1. FrameOK(t, msg, stack[t], n) /\ stack[t][n] = Top(t) /\ Top(t) \in FrameRecord
    BY <1>2, StateTypes
  <2>2. ~Top(t).waited
    BY <1>1, <2>1 DEF FrameOK
  <2>3. Top(t).waited = FALSE
    BY <2>1, <2>2 DEF FrameRecord
  <2> QED BY <1>1, <2>1, <2>3 DEF FrameOK, Ids
<1>4. /\ stack'[t] = Pop(stack[t]) /\ Len(stack'[t]) = n - 1 /\ Above(t, n - 1)
      /\ Top(t)'.at \in {"get", "receive", "handle"} /\ InGet(t)' = InGet(t) /\ StackOK(t, msg, stack'[t])
  BY <1>1, <1>2, <1>3, Popped
<1>5. ClockOK'
  BY <1>1 DEF ThreadsInv, ClockOK
<1>6. \A i \in ((n - 1) + 1)..n : i = n /\ stack[t][i] = Top(t)
  BY <1>2, <1>3
<1>7. /\ SameCalls(msg, msg') /\ Ids' = Ids /\ MessagesOK'
      /\ \A u \in Threads : QueueOK(u, msg', queue[u])
      /\ \A u \in Threads : u # t => StackOK(u, msg', stack[u])
      /\ StackOK(t, msg', stack'[t])
      /\ \A m \in Ids : msg'[m].st = msg[m].st \/ msg'[m].st = "handled"
      /\ \A m \in Ids : msg'[m].ready => msg[m].ready \/ (received /\ m = x)
  <2>1. CASE x = 0
    <3>1. msg' = msg
      BY <2>1 DEF Return
    <3>2. SameCalls(msg, msg') /\ Ids' = Ids /\ MessagesOK'
      BY <3>1, SameMessages
    <3>3. \A u \in Threads : QueueOK(u, msg, queue[u]) /\ StackOK(u, msg, stack[u])
      BY StateTypes
    <3> QED BY <1>4, <3>1, <3>2, <3>3
  <2>2. CASE x # 0
    <3>1. x \in Ids /\ msg[x] \in Message
      BY <1>3, <2>2, StateTypes
    <3>2. msg' = Marked(x, "handled", received, msg[x].early)
      <4>1. msg' = [msg EXCEPT ![x] = [msg[x] EXCEPT !.st = "handled", !.ready = received]]
        BY <2>2, <3>1 DEF Return, Ids
      <4>2. [msg[x] EXCEPT !.st = "handled", !.ready = received]
              = [msg[x] EXCEPT !.st = "handled", !.ready = received, !.early = msg[x].early]
        BY <3>1 DEF Message
      <4> QED BY <4>1, <4>2 DEF Marked
    <3>3. received \in BOOLEAN /\ msg[x].early \in BOOLEAN /\ "handled" \in States
      BY <3>1 DEF Message, States
    <3> HIDE DEF received
    <3>4. /\ Touched(msg, msg', x) /\ SameCalls(msg, msg') /\ Ids' = Ids /\ MessagesOK'
          /\ msg'[x].st = "handled" /\ msg'[x].ready = received
          /\ \A m \in Ids : m # x => msg'[m] = msg[m]
      BY <3>1, <3>2, <3>3, TouchOne
    <3>5. /\ \A u \in Threads : QueueOK(u, msg', queue[u])
          /\ \A u \in Threads : u # t => StackOK(u, msg', stack[u])
          /\ StackOK(t, msg', Pop(stack[t]))
      BY <1>1, <1>2, <3>1, <3>4, TouchHeld DEF Holding
    <3> QED BY <1>4, <3>4, <3>5
  <2> QED BY <2>1, <2>2
<1>8. /\ DOMAIN queue' = Threads /\ \A u \in Threads : QueueOK(u, msg', queue'[u])
      /\ \A u \in Threads :
           /\ queue'[u].msgq = queue[u].msgq /\ queue'[u].sendlist = queue[u].sendlist
           /\ queue'[u].fStop = queue[u].fStop /\ (queue[u].wake => queue'[u].wake)
      /\ received => queue'[q].wake
  <2>1. CASE ~received
    <3>1. queue' = queue
      BY <2>1 DEF Return
    <3> QED BY <1>7, <2>1, <3>1 DEF ThreadsInv
  <2>2. CASE received
    <3>1. queue' = WakeUp(queue, q) /\ q \in Threads
      <4>1. x \in Ids
        BY <1>3, <2>2
      <4>2. msg[x] \in Message
        BY <4>1, StateTypes
      <4> QED BY <2>2, <4>2 DEF Return, Message
    <3>2. DOMAIN queue = Threads
      BY DEF ThreadsInv
    <3>3. ASSUME NEW u \in Threads
          PROVE  /\ DOMAIN queue' = Threads /\ QueueOK(u, msg', queue'[u])
                 /\ queue'[u].msgq = queue[u].msgq /\ queue'[u].sendlist = queue[u].sendlist
                 /\ queue'[u].fStop = queue[u].fStop /\ (queue[u].wake => queue'[u].wake)
                 /\ u = q => queue'[u].wake
      <4>1. QueueOK(u, msg', queue[u])
        BY <1>7
      <4> HIDE DEF q
      <4>2. LET k == WakeUp(queue, q)[u]
            IN /\ DOMAIN WakeUp(queue, q) = Threads /\ QueueOK(u, msg', k)
               /\ k.msgq = queue[u].msgq /\ k.dmsgq = queue[u].dmsgq /\ k.sendlist = queue[u].sendlist
               /\ k.has_sends = queue[u].has_sends /\ k.fStop = queue[u].fStop
               /\ u # q => k = queue[u]
               /\ u = q => k.wake = TRUE
        BY <3>1, <3>2, <4>1, WakeUpFacts
      <4> QED BY <3>1, <4>2
    <3> QED BY <3>1, <3>3
  <2> QED BY <2>1, <2>2
<1>9. ThreadsInv'
  BY <1>4, <1>5, <1>7, <1>8, StepTogether
<1>10. ASSUME ReadyAlive PROVE ReadyAlive'
  <2>1. \A m \in Ids : msg'[m].st \in {"queued", "handling"} => msg[m].st \in {"queued", "handling"}
    BY <1>7
  <2>2. \A i \in ((n - 1) + 1)..n : stack[t][i].at \notin Waiting
    BY <1>1, <1>6 DEF Waiting
  <2> QED BY <1>4, <1>7, <1>10, <2>1, <2>2, ReadyBelow
<1>11. ASSUME WakeInv PROVE WakeInv'
  <2>1. \A m \in Ids : msg'[m].ready => msg[m].ready \/ queue'[msg[m].from].wake
    BY <1>7, <1>8
  <2>2. \A u \in Threads : u # t => SendsHeard(u)' /\ PostsHeard(u)' /\ RepliesHeard(u)'
    <3>1. \A u \in Threads : u # t => stack'[u] = stack[u]
      BY <1>4 DEF Above
    <3> QED BY <1>1, <1>7, <1>8, <1>11, <2>1, <3>1, WakeKept
  <2>3. SendsHeard(t)'
    BY <1>4 DEF SendsHeard
  <2>4. PostsHeard(t)'
    BY <1>2, <1>4, Depth DEF PostsHeard
  <2>5. RepliesHeard(t)'
    <3>1. \A i \in ((n - 1) + 1)..Len(stack'[t]) : FALSE
      BY <1>2, <1>4
    <3>2. \A i \in ((n - 1) + 1)..n : ~stack[t][i].waited
      BY <1>3, <1>6
    <3>3. RepliesHeard(t) /\ (queue[t].wake => queue'[t].wake)
      BY <1>8, <1>11 DEF WakeInv
    <3> QED BY <1>4, <2>1, <3>1, <3>2, <3>3, RepliesBelow
  <2> QED BY <2>2, <2>3, <2>4, <2>5 DEF WakeInv
<1> QED BY <1>9, <1>10, <1>11 DEF Preserved

\* A queue that holds nothing is empty.
LEMMA EmptyQueue ==
  ASSUME NEW s \in Seq(Nat)
  PROVE  Held(s) = {} <=> s = <<>>
<1>1. PICK n \in Nat : n = Len(s)
  OBVIOUS
<1>2. CASE n = 0
  <2>1. Len(s) = 0
    BY <1>1, <1>2
  <2>2. s = <<>>
    BY <2>1
  <2> QED BY <2>2, ShortQueues
<1>3. CASE n # 0
  <2>1. 1 \in 1..Len(s) /\ s # <<>>
    BY <1>1, <1>3
  <2>2. s[1] \in Held(s)
    BY <2>1 DEF Held
  <2> QED BY <2>1, <2>2
<1> QED BY <1>2, <1>3

\* A list without one of its messages.
LEMMA ClearedList ==
  ASSUME NEW s \in Seq(Nat), NEW m, Distinct(s)
  PROVE  LET c == Without(s, {m})
         IN /\ c \in Seq(Nat) /\ Held(c) = Held(s) \ {m} /\ Distinct(c) /\ (s = <<>> => c = <<>>)
<1> DEFINE c == Without(s, {m})
<1>1. c \in Seq(Nat) /\ Held(c) = Held(s) \ {m} /\ \A x : Once(s, x) => Once(c, x)
  BY WithoutQueue
<1> HIDE DEF c
<1>2. Distinct(c)
  BY <1>1, DistinctOnce
<1>3. s = <<>> => c = <<>>
  BY <1>1, EmptyQueue
<1> QED BY <1>1, <1>2, <1>3 DEF c

\* Clear takes a message out of a queue, and releases the caller of a Send.
LEMMA ClearKept ==
  ASSUME ThreadsInv, NEW t \in Threads, NEW q \in Threads, NEW x \in Ids, Clear(t, q, x)
  PROVE  Preserved
<1> DEFINE n == Len(stack[t])
           sent == Contains(queue[q].sendlist, x)
           p == msg[x].from
           k == [queue[q] EXCEPT !.msgq = Without(@, {x}), !.dmsgq = Without(@, {x}),
                                 !.sendlist = Without(@, {x})]
           left == [queue EXCEPT ![q] = k]
<1>1. /\ Top(t).at = "handle" /\ budget.deeds > 0 /\ budget' = [budget EXCEPT !.deeds = budget.deeds - 1]
      /\ msg[x].to = q /\ msg[x].st = "queued"
      /\ stack' = stack /\ wait' = wait /\ now' = now
  BY DEF Clear, InHandler
<1>2. n > 1 /\ n \in Nat
  BY <1>1, InHandlerDeep, StateTypes DEF Bottom
<1>3. /\ msg[x] \in Message /\ p \in Threads /\ msg[x].early \in BOOLEAN /\ sent \in BOOLEAN
      /\ "cleared" \in States
  <2>1. msg[x] \in Message
    BY StateTypes
  <2> QED BY <2>1 DEF Message, Contains, States
<1>4. queue' = IF sent THEN WakeUp(left, p) ELSE left
  <2>1. [queue EXCEPT ![q].msgq = Without(@, {x}), ![q].dmsgq = Without(@, {x}),
                      ![q].sendlist = Without(@, {x})] = left
    BY DEF ThreadsInv
  <2> QED BY <2>1 DEF Clear
<1>5. msg' = Marked(x, "cleared", sent, msg[x].early)
  <2>1. msg' = [msg EXCEPT ![x] = [msg[x] EXCEPT !.st = "cleared", !.ready = sent]]
    BY DEF Clear, Ids
  <2>2. [msg[x] EXCEPT !.st = "cleared", !.ready = sent]
          = [msg[x] EXCEPT !.st = "cleared", !.ready = sent, !.early = msg[x].early]
    BY <1>3 DEF Message
  <2> QED BY <2>1, <2>2 DEF Marked
<1> HIDE DEF sent
<1>6. /\ Touched(msg, msg', x) /\ SameCalls(msg, msg') /\ Ids' = Ids /\ MessagesOK'
      /\ msg'[x].st = "cleared" /\ msg'[x].ready = sent
      /\ \A m \in Ids : m # x => msg'[m] = msg[m]
  BY <1>3, <1>5, TouchOne
<1>7. /\ \A u \in Threads : StackOK(u, msg', stack[u])
      /\ \A u \in Threads : u # q => QueueOK(u, msg', queue[u])
  BY <1>1, <1>6, TouchQueued
<1>8. /\ QueueOK(q, msg', k) /\ k.wake = queue[q].wake /\ k.fStop = queue[q].fStop
      /\ Held(k.sendlist) \subseteq Held(queue[q].sendlist)
      /\ queue[q].msgq = <<>> => k.msgq = <<>>
  <2> DEFINE Q == queue[q]
             A == Without(Q.msgq, {x})
             D == Without(Q.dmsgq, {x})
             S == Without(Q.sendlist, {x})
  <2>1. /\ QueueOK(q, msg, Q) /\ Q \in QueueRecord /\ Q.msgq \in Seq(Nat) /\ Q.dmsgq \in Seq(Nat)
        /\ Q.sendlist \in Seq(Nat) /\ Distinct(Q.msgq) /\ Distinct(Q.dmsgq) /\ Distinct(Q.sendlist)
    BY StateTypes DEF QueueRecord, QueueOK
  <2>2. A \in Seq(Nat) /\ Held(A) = Held(Q.msgq) \ {x} /\ Distinct(A) /\ (Q.msgq = <<>> => A = <<>>)
    <3> HIDE DEF Q
    <3> QED BY <2>1, ClearedList
  <2>3. D \in Seq(Nat) /\ Held(D) = Held(Q.dmsgq) \ {x} /\ Distinct(D)
    <3> HIDE DEF Q
    <3> QED BY <2>1, ClearedList
  <2>4. S \in Seq(Nat) /\ Held(S) = Held(Q.sendlist) \ {x} /\ Distinct(S) /\ (Q.sendlist = <<>> => S = <<>>)
    <3> HIDE DEF Q
    <3> QED BY <2>1, ClearedList
  <2>5. k = [Q EXCEPT !.msgq = A, !.dmsgq = D, !.sendlist = S]
    OBVIOUS
  <2> HIDE DEF k, A, D, S
  <2>6. /\ k \in QueueRecord /\ k.msgq = A /\ k.dmsgq = D /\ k.sendlist = S
        /\ k.has_sends = Q.has_sends /\ k.fStop = Q.fStop /\ k.wake = Q.wake
    BY <2>1, <2>2, <2>3, <2>4, <2>5 DEF QueueRecord
  <2>7. \A m \in Ids : m # x => m \in DOMAIN msg' /\ msg'[m] = msg[m]
    BY <1>6 DEF Ids
  <2>8. \A m \in Held(k.msgq) \cup Held(k.dmsgq) :
          m \in DOMAIN msg' /\ msg'[m].to = q /\ msg'[m].st = "queued" /\ msg'[m].how # "send"
    <3>1. \A m \in Held(k.msgq) \cup Held(k.dmsgq) : m # x /\ m \in Held(Q.msgq) \cup Held(Q.dmsgq)
      BY <2>2, <2>3, <2>6
    <3> QED BY <2>1, <2>7, <3>1 DEF QueueOK, Ids
  <2>9. \A m \in Held(k.sendlist) :
          /\ m \in DOMAIN msg' /\ msg'[m].to = q /\ msg'[m].st = "queued"
          /\ msg'[m].how = "send" /\ msg'[m].from # q
    <3>1. \A m \in Held(k.sendlist) : m # x /\ m \in Held(Q.sendlist)
      BY <2>4, <2>6
    <3> QED BY <2>1, <2>7, <3>1 DEF QueueOK, Ids
  <2>10. Held(k.msgq) \cap Held(k.dmsgq) = {} /\ (~k.has_sends => k.sendlist = <<>>)
    BY <2>1, <2>2, <2>3, <2>4, <2>6 DEF QueueOK
  <2>11. QueueOK(q, msg', k)
    BY <2>2, <2>3, <2>4, <2>6, <2>8, <2>9, <2>10 DEF QueueOK
  <2> QED BY <2>2, <2>4, <2>6, <2>11
<1> HIDE DEF k
<1>9. ASSUME NEW u \in Threads
      PROVE  /\ DOMAIN left = Threads /\ QueueOK(u, msg', left[u])
             /\ Held(left[u].sendlist) \subseteq Held(queue[u].sendlist)
             /\ (queue[u].msgq = <<>> => left[u].msgq = <<>>)
             /\ left[u].fStop = queue[u].fStop /\ left[u].wake = queue[u].wake
  <2>1. DOMAIN left = Threads /\ left[q] = k /\ (u # q => left[u] = queue[u])
    BY DEF ThreadsInv
  <2> HIDE DEF left
  <2>2. CASE u = q
    BY <1>8, <2>1, <2>2
  <2>3. CASE u # q
    BY <1>7, <2>1, <2>3
  <2> QED BY <2>2, <2>3
<1> HIDE DEF left
<1>10. ASSUME NEW u \in Threads
       PROVE  /\ DOMAIN queue' = Threads /\ QueueOK(u, msg', queue'[u])
              /\ Held(queue'[u].sendlist) \subseteq Held(queue[u].sendlist)
              /\ queue[u].msgq = <<>> => queue'[u].msgq = <<>>
              /\ queue'[u].fStop = queue[u].fStop
              /\ queue[u].wake => queue'[u].wake
              /\ sent /\ u = p => queue'[u].wake
  <2>1. CASE ~sent
    BY <1>4, <1>9, <2>1
  <2>2. CASE sent
    <3>1. queue' = WakeUp(left, p)
      BY <1>4, <2>2
    <3>2. DOMAIN left = Threads /\ QueueOK(u, msg', left[u]) /\ p \in Threads
      BY <1>3, <1>9
    <3> HIDE DEF p
    <3>3. LET c == WakeUp(left, p)[u]
          IN /\ DOMAIN WakeUp(left, p) = Threads /\ QueueOK(u, msg', c)
             /\ c.msgq = left[u].msgq /\ c.dmsgq = left[u].dmsgq /\ c.sendlist = left[u].sendlist
             /\ c.has_sends = left[u].has_sends /\ c.fStop = left[u].fStop
             /\ u # p => c = left[u]
             /\ u = p => c.wake = TRUE
      BY <3>2, WakeUpFacts
    <3> QED BY <1>9, <3>1, <3>3
  <2> QED BY <2>1, <2>2
<1>11. DOMAIN queue' = Threads
  BY <1>10
<1>12. ClockOK'
  <2>1. /\ budget \in [callers : SUBSET Threads, running : SUBSET Threads,
                 links : SUBSET (Threads \X Threads), post : Nat, delay : Nat, send : Nat,
                 deeds : Nat, ticks : Nat]
        /\ budget.deeds \in Nat
    BY DEF ThreadsInv, ClockOK
  <2>2. budget.deeds - 1 \in Nat
    BY <1>1, <2>1
  <2>3. /\ budget' \in [callers : SUBSET Threads, running : SUBSET Threads,
                 links : SUBSET (Threads \X Threads), post : Nat, delay : Nat, send : Nat,
                 deeds : Nat, ticks : Nat]
        /\ budget'.ticks = budget.ticks
    BY <1>1, <2>1, <2>2
  <2> QED BY <1>1, <2>3 DEF ThreadsInv, ClockOK
<1>13. Above(t, n) /\ Top(t)' = Top(t) /\ InGet(t)' = InGet(t)
  BY <1>1, StateTypes DEF Above, ThreadsInv, Top, InGet
<1>14. ThreadsInv'
  <2>1. StackOK(t, msg', stack'[t])
    BY <1>1, <1>7
  <2> QED BY <1>6, <1>7, <1>10, <1>11, <1>12, <1>13, <2>1, StepTogether
<1>15. \A i \in (n + 1)..n : FALSE
  BY <1>2
<1>16. ASSUME ReadyAlive PROVE ReadyAlive'
  <2>1. \A m \in Ids : msg'[m].st \in {"queued", "handling"} => msg[m].st \in {"queued", "handling"}
    BY <1>6
  <2> QED BY <1>6, <1>13, <1>15, <1>16, <2>1, ReadyBelow
<1>17. ASSUME WakeInv PROVE WakeInv'
  <2>1. \A m \in Ids : msg'[m].ready => msg[m].ready \/ queue'[msg[m].from].wake
    <3> SUFFICES ASSUME NEW m \in Ids, msg'[m].ready PROVE msg[m].ready \/ queue'[msg[m].from].wake
      OBVIOUS
    <3>1. CASE m = x
      BY <1>3, <1>6, <1>10, <3>1
    <3>2. CASE m # x
      BY <1>6, <3>2
    <3> QED BY <3>1, <3>2
  <2>2. \A u \in Threads : u # t => SendsHeard(u)' /\ PostsHeard(u)' /\ RepliesHeard(u)'
    <3>1. \A u \in Threads : stack'[u] = stack[u]
      BY <1>1
    <3> QED BY <1>1, <1>6, <1>10, <1>17, <2>1, <3>1, WakeKept
  <2>3. SendsHeard(t)'
    BY <1>1, <1>13 DEF SendsHeard
  <2>4. PostsHeard(t)'
    BY <1>2, <1>13, Depth DEF PostsHeard
  <2>5. RepliesHeard(t)'
    <3>1. RepliesHeard(t) /\ (queue[t].wake => queue'[t].wake)
      BY <1>10, <1>17 DEF WakeInv
    <3>2. Len(stack'[t]) = n
      BY <1>1
    <3> QED BY <1>13, <1>15, <2>1, <3>1, <3>2, RepliesBelow
  <2> QED BY <2>2, <2>3, <2>4, <2>5 DEF WakeInv
<1> QED BY <1>14, <1>16, <1>17 DEF Preserved

\* ReceiveSends takes a message out of its list, or ends.
LEMMA ReceiveSendKept ==
  ASSUME ThreadsInv, NEW t \in Threads, ReceiveSend(t)
  PROVE  Preserved
<1> DEFINE n == Len(stack[t])
           S == queue[t].sendlist
<1>1. Top(t).at = "receive" /\ wait' = wait /\ now' = now /\ budget' = budget
  BY DEF ReceiveSend
<1>2. n > 1 /\ n \in Nat /\ n - 1 \in Nat /\ n - 1 <= n
  <2>1. n > 1 /\ n \in Nat
    BY <1>1, InHandlerDeep, StateTypes DEF Bottom
  <2> QED BY <2>1
<1>3. stack[t][n] = Top(t) /\ Top(t).waited = FALSE
  <2>1. FrameOK(t, msg, stack[t], n) /\ stack[t][n] = Top(t) /\ Top(t) \in FrameRecord
    BY <1>2, StateTypes
  <2>2. ~Top(t).waited
    BY <1>1, <2>1 DEF FrameOK
  <2> QED BY <2>1, <2>2 DEF FrameRecord
<1>4. ClockOK'
  BY <1>1 DEF ThreadsInv, ClockOK
<1>5. InGet(t) \in {"get", "take"}
  BY <1>2, Depth
<1>6. QueueOK(t, msg, queue[t]) /\ queue[t] \in QueueRecord /\ S \in Seq(Nat)
  BY StateTypes DEF QueueRecord
<1>7. CASE S = <<>>
  <2> DEFINE k == [queue[t] EXCEPT !.has_sends = FALSE]
  <2>1. /\ queue' = [queue EXCEPT ![t] = k] /\ stack' = [stack EXCEPT ![t] = Pop(@)] /\ msg' = msg
    BY <1>7 DEF ReceiveSend
  <2>2. /\ StackOK(t, msg, stack'[t]) /\ Len(stack'[t]) = n - 1 /\ Above(t, n - 1)
        /\ InGet(t)' = InGet(t)
    BY <1>2, <2>1, Popped
  <2>3. /\ k \in QueueRecord /\ k.msgq = queue[t].msgq /\ k.dmsgq = queue[t].dmsgq
        /\ k.sendlist = S /\ k.fStop = queue[t].fStop /\ k.wake = queue[t].wake
    BY <1>6 DEF QueueRecord
  <2> HIDE DEF k
  <2>4. QueueOK(t, msg, k)
    BY <1>6, <1>7, <2>3 DEF QueueOK
  <2>5. /\ DOMAIN queue' = Threads /\ queue'[t] = k /\ \A u \in Threads : u # t => queue'[u] = queue[u]
        /\ \A u \in Threads : QueueOK(u, msg, queue'[u])
    <3>1. \A u \in Threads : QueueOK(u, msg, queue[u])
      BY StateTypes
    <3> QED BY <2>1, <2>4, <3>1, QueueSet
  <2>6. Quiet(t)
    BY <2>1, <2>3, <2>5 DEF Quiet
  <2>7. SameCalls(msg, msg') /\ Ids' = Ids /\ \A m \in Ids : msg'[m] = msg[m]
    BY <2>1, SameMessages
  <2>8. \A i \in ((n - 1) + 1)..n : stack[t][i] = Top(t)
    BY <1>2, <1>3
  <2>9. ReadyAlive => ReadyAlive'
    <3>1. \A i \in ((n - 1) + 1)..n : stack[t][i].at \notin Waiting
      BY <1>1, <2>8 DEF Waiting
    <3> QED BY <2>2, <2>7, <3>1, ReadyBelow
  <2>10. WakeInv => SendsHeard(t)' /\ PostsHeard(t)' /\ RepliesHeard(t)'
    <3> SUFFICES ASSUME WakeInv PROVE SendsHeard(t)' /\ PostsHeard(t)' /\ RepliesHeard(t)'
      OBVIOUS
    <3>1. SendsHeard(t)'
      <4>1. Held(queue'[t].sendlist) = {}
        BY <1>7, <2>3, <2>5, ShortQueues
      <4> QED BY <4>1 DEF SendsHeard
    <3>2. PostsHeard(t)'
      BY <1>5, <2>2 DEF PostsHeard
    <3>3. RepliesHeard(t)'
      <4>1. \A i \in ((n - 1) + 1)..Len(stack'[t]) : FALSE
        BY <1>2, <2>2
      <4>2. \A i \in ((n - 1) + 1)..n : ~stack[t][i].waited
        BY <1>3, <2>8
      <4>3. RepliesHeard(t) /\ (queue[t].wake => queue'[t].wake)
        BY <2>6 DEF WakeInv, Quiet
      <4> QED BY <2>2, <2>7, <4>1, <4>2, <4>3, RepliesBelow
    <3> QED BY <3>1, <3>2, <3>3
  <2> QED BY <1>1, <1>4, <2>2, <2>6, <2>9, <2>10, QuietKept
<1>8. CASE S # <<>>
  <2> DEFINE x == Head(S)
             k == [queue[t] EXCEPT !.sendlist = Tail(@)]
             f == Frame("handle", x)
             w == Push(stack[t], f)
  <2>1. /\ queue' = [queue EXCEPT ![t] = k] /\ stack' = [stack EXCEPT ![t] = w]
        /\ msg' = [msg EXCEPT ![x].st = "handling"]
    BY <1>8 DEF ReceiveSend
  <2>2. /\ Tail(S) \in Seq(Nat) /\ x \in Nat /\ Held(S) = {x} \cup Held(Tail(S))
        /\ \A y : Once(S, y) => Once(Tail(S), y) /\ (y = x => y \notin Held(Tail(S)))
    <3> HIDE DEF S
    <3> QED BY <1>6, <1>8, TailQueue
  <2>3. Distinct(Tail(S)) /\ x \notin Held(Tail(S))
    <3>1. \A y : Once(S, y)
      BY <1>6, DistinctOnce DEF QueueOK
    <3> HIDE DEF S, x
    <3> QED BY <2>2, <3>1, DistinctOnce
  <2>4. /\ x \in Ids /\ msg[x].to = t /\ msg[x].st = "queued" /\ msg[x].how = "send" /\ msg[x].from # t
        /\ msg[x] \in Message /\ x # 0
    <3>1. x \in Held(S)
      BY <2>2
    <3>2. x \in Ids /\ msg[x].to = t /\ msg[x].st = "queued" /\ msg[x].how = "send" /\ msg[x].from # t
      BY <1>6, <3>1 DEF QueueOK, Ids
    <3> QED BY <3>2, StateTypes
  <2>5. msg[x].ready = FALSE /\ msg[x].early \in BOOLEAN /\ "handling" \in States
    BY <2>4 DEF ThreadsInv, MessagesOK, Message, States
  <2>6. msg' = Marked(x, "handling", FALSE, msg[x].early)
    <3> HIDE DEF x
    <3>1. msg' = [msg EXCEPT ![x] = [msg[x] EXCEPT !.st = "handling"]]
      BY <2>1, <2>4 DEF Ids
    <3>2. [msg[x] EXCEPT !.st = "handling"]
            = [msg[x] EXCEPT !.st = "handling", !.ready = FALSE, !.early = msg[x].early]
      BY <2>4, <2>5 DEF Message
    <3> QED BY <3>1, <3>2 DEF Marked
  <2>7. /\ k \in QueueRecord /\ k.msgq = queue[t].msgq /\ k.dmsgq = queue[t].dmsgq
        /\ k.sendlist = Tail(S) /\ k.fStop = queue[t].fStop /\ k.wake = queue[t].wake
        /\ k.has_sends = queue[t].has_sends
    BY <1>6, <2>2 DEF QueueRecord
  <2> HIDE DEF k, x
  <2>8. /\ Touched(msg, msg', x) /\ SameCalls(msg, msg') /\ Ids' = Ids /\ MessagesOK'
        /\ msg'[x].st = "handling" /\ msg'[x].ready = FALSE
        /\ \A m \in Ids : m # x => msg'[m] = msg[m]
    BY <2>4, <2>5, <2>6, TouchOne
  <2>9. /\ \A u \in Threads : StackOK(u, msg', stack[u])
        /\ \A u \in Threads : u # t => QueueOK(u, msg', queue[u])
    BY <2>4, <2>8, TouchQueued
  <2>10. QueueOK(t, msg', k)
    <3>1. \A m \in Ids : m # x => m \in DOMAIN msg' /\ msg'[m] = msg[m]
      BY <2>8 DEF Ids
    <3>2. \A m \in Held(k.sendlist) :
            /\ m \in DOMAIN msg' /\ msg'[m].to = t /\ msg'[m].st = "queued"
            /\ msg'[m].how = "send" /\ msg'[m].from # t
      <4>1. \A m \in Held(k.sendlist) : m # x /\ m \in Held(S)
        BY <2>2, <2>3, <2>7
      <4> QED BY <1>6, <3>1, <4>1 DEF QueueOK, Ids
    <3>3. \A m \in Held(k.msgq) \cup Held(k.dmsgq) :
            m \in DOMAIN msg' /\ msg'[m].to = t /\ msg'[m].st = "queued" /\ msg'[m].how # "send"
      <4>1. \A m \in Held(k.msgq) \cup Held(k.dmsgq) :
              m \in Ids /\ msg[m].to = t /\ msg[m].st = "queued" /\ msg[m].how # "send"
        BY <1>6, <2>7 DEF QueueOK, Ids
      <4>2. \A m \in Held(k.msgq) \cup Held(k.dmsgq) : m # x
        BY <2>4, <4>1
      <4> QED BY <3>1, <4>1, <4>2
    <3>4. ~k.has_sends => k.sendlist = <<>>
      BY <1>6, <1>8, <2>7 DEF QueueOK
    <3> QED BY <1>6, <2>3, <2>7, <3>2, <3>3, <3>4 DEF QueueOK
  <2>11. /\ DOMAIN queue' = Threads /\ queue'[t] = k /\ \A u \in Threads : u # t => queue'[u] = queue[u]
         /\ \A u \in Threads : QueueOK(u, msg', queue'[u])
    BY <2>1, <2>9, <2>10, QueueSet
  <2>12. f \in FrameRecord /\ f.at = "handle" /\ f.m = x /\ ~f.waited
    BY <2>2 DEF Frame, FrameRecord, Places
  <2> HIDE DEF f
  <2>13. /\ StackOK(t, msg', w) /\ Len(w) = n + 1 /\ w[Len(w)] = f /\ \A i \in 1..n : w[i] = stack[t][i]
    <3> DEFINE s == stack[t]
    <3>1. StackOK(t, msg', s) /\ s \in Seq(FrameRecord) /\ Len(s) = n /\ s[n].at = "receive"
      BY <1>1, <1>3, <2>9, StateTypes
    <3>2. w[n + 1] = f /\ w[(n + 1) - 1] = s[n]
      BY <1>2, <2>12, <3>1 DEF Push
    <3>3. FrameOK(t, msg', w, n + 1)
      <4>1. x \in DOMAIN msg' /\ msg'[x].to = t /\ msg'[x].st = "handling" /\ msg'[x].how = "send"
            /\ msg'[x].from # t
        BY <2>4, <2>8 DEF Ids, SameCalls
      <4> HIDE DEF w, s, n
      <4> QED BY <2>4, <2>12, <3>1, <3>2, <4>1 DEF FrameOK, Calls, Dispatched
    <3>4. \A i \in 2..n : s[i].at = "handle" => s[i].m # f.m
      <4> SUFFICES ASSUME NEW i \in 2..n, s[i].at = "handle", s[i].m = x PROVE FALSE
        BY <2>12
      <4>1. FrameOK(t, msg, s, i)
        BY StateTypes DEF StackOK
      <4> QED BY <2>4, <4>1 DEF FrameOK, Dispatched
    <3> HIDE DEF s
    <3>5. /\ StackOK(t, msg', Push(s, f)) /\ Len(Push(s, f)) = Len(s) + 1
          /\ Push(s, f)[Len(Push(s, f))] = f /\ \A i \in 1..Len(s) : Push(s, f)[i] = s[i]
      <4>1. FrameOK(t, msg', Push(s, f), Len(s) + 1) /\ \A i \in 2..Len(s) : s[i].at = "handle" => s[i].m # f.m
        BY <3>1, <3>3, <3>4 DEF s
      <4> QED BY <2>12, <3>1, <4>1, StackPush
    <3> QED BY <3>1, <3>5 DEF s
  <2> HIDE DEF w
  <2>14. stack'[t] = w /\ Above(t, n) /\ Top(t)' = f /\ InGet(t)' = InGet(t) /\ Len(stack'[t]) = n + 1
    <3>1. w \in Seq(FrameRecord)
      BY <2>13 DEF StackOK
    <3>2. Stacked(t, w) /\ SameBelow(t, w, n) /\ n >= 1
      BY <1>2, <2>1, <2>13 DEF Stacked, SameBelow
    <3> QED BY <2>13, <3>1, <3>2, Replaced
  <2>15. ThreadsInv'
    <3>1. StackOK(t, msg', stack'[t])
      BY <2>13, <2>14
    <3> QED BY <1>4, <2>8, <2>9, <2>11, <2>14, <3>1, StepTogether
  <2>16. \A i \in (n + 1)..n : FALSE
    BY <1>2
  <2>17. ASSUME ReadyAlive PROVE ReadyAlive'
    <3>1. \A m \in Ids : msg'[m].st \in {"queued", "handling"} => msg[m].st \in {"queued", "handling"}
      BY <2>4, <2>8
    <3> QED BY <2>8, <2>14, <2>16, <2>17, <3>1, ReadyBelow
  <2>18. ASSUME WakeInv PROVE WakeInv'
    <3>1. \A m \in Ids : msg'[m].ready => msg[m].ready
      BY <2>8
    <3>2. \A u \in Threads : u # t => SendsHeard(u)' /\ PostsHeard(u)' /\ RepliesHeard(u)'
      <4>1. \A u \in Threads : u # t => stack'[u] = stack[u]
        BY <2>14 DEF Above
      <4> QED BY <1>1, <2>8, <2>11, <2>18, <3>1, <4>1, WakeKept
    <3>3. SendsHeard(t)'
      BY <2>12, <2>14 DEF SendsHeard
    <3>4. PostsHeard(t)'
      BY <1>5, <2>14 DEF PostsHeard
    <3>5. RepliesHeard(t)'
      <4>1. \A i \in (n + 1)..Len(stack'[t]) : stack'[t][i] = f
        BY <1>2, <2>13, <2>14
      <4>2. RepliesHeard(t) /\ (queue[t].wake => queue'[t].wake)
        BY <2>7, <2>11, <2>18 DEF WakeInv
      <4> QED BY <2>12, <2>14, <2>16, <3>1, <4>1, <4>2, RepliesBelow
    <3> QED BY <3>2, <3>3, <3>4, <3>5 DEF WakeInv
  <2> QED BY <2>15, <2>17, <2>18 DEF Preserved
<1> QED BY <1>7, <1>8

\* What Get finds: the messages that are due, and the rest of the delayed ones.
LEMMA TakenParts ==
  ASSUME ThreadsInv, NEW t \in Threads
  PROVE  LET s == queue[t].dmsgq
             n == DueCount(s, wait[t].cur)
             rest == SubSeq(s, n + 1, Len(s))
             all == queue[t].msgq \o SubSeq(s, 1, n)
         IN /\ rest \in Seq(Nat) /\ Distinct(rest) /\ Held(rest) \subseteq Held(s)
            /\ all \in Seq(Nat) /\ Distinct(all) /\ Held(all) \subseteq Held(s) \cup Held(queue[t].msgq)
            /\ Held(all) \cap Held(rest) = {}
            /\ all = <<>> => queue[t].msgq = <<>>
<1> DEFINE s == queue[t].dmsgq
           q == queue[t].msgq
           cur == wait[t].cur
           n == DueCount(s, cur)
           due == SubSeq(s, 1, n)
           rest == SubSeq(s, n + 1, Len(s))
           T == {i \in 1..Len(s) : TimeIsLater(cur % TimeSpace, Trigger(s[i]))}
<1>1. /\ s \in Seq(Nat) /\ q \in Seq(Nat) /\ Distinct(s) /\ Distinct(q) /\ Held(q) \cap Held(s) = {}
  BY StateTypes DEF QueueOK, QueueRecord
<1>2. \E i \in 0..Len(s) : /\ \A j \in 1..i : ~TimeIsLater(cur % TimeSpace, Trigger(s[j]))
                           /\ i < Len(s) => TimeIsLater(cur % TimeSpace, Trigger(s[i + 1]))
  <2>1. PICK i \in 0..Len(s) : (\A j \in 1..i : j \notin T) /\ (i < Len(s) => i + 1 \in T)
    <3>1. Len(s) \in Nat
      BY <1>1
    <3> HIDE DEF T, s
    <3> QED BY <3>1, FirstIn
  <2>2. Len(s) \in Nat
    BY <1>1
  <2>3. \A j \in 1..i : j \in 1..Len(s)
    BY <2>2
  <2> HIDE DEF s, cur
  <2> QED BY <2>1, <2>3
<1> HIDE DEF s, q, cur
<1>3. n \in 0..Len(s)
  BY <1>2 DEF DueCount
<1> HIDE DEF n
<1>4. /\ due \in Seq(Nat) /\ rest \in Seq(Nat) /\ Held(s) = Held(due) \cup Held(rest)
      /\ Distinct(due) /\ Distinct(rest) /\ Held(due) \cap Held(rest) = {}
  BY <1>1, <1>3, SplitQueue
<1> HIDE DEF due, rest
<1>5. /\ q \o due \in Seq(Nat) /\ Held(q \o due) = Held(q) \cup Held(due)
      /\ \A x : Once(q, x) /\ Once(due, x) /\ ~(x \in Held(q) /\ x \in Held(due)) => Once(q \o due, x)
  BY <1>1, <1>4, ConcatQueues
<1>6. Distinct(q \o due)
  <2>1. (\A x : Once(q, x)) /\ (\A x : Once(due, x))
    BY <1>1, <1>4, DistinctOnce
  <2>2. \A x : Once(q \o due, x)
    BY <1>1, <1>4, <1>5, <2>1
  <2> QED BY <2>2, DistinctOnce
<1>7. q \o due = <<>> => q = <<>>
  <2>1. q \o due = <<>> => Held(q \o due) = {}
    BY ShortQueues
  <2>2. q \o due = <<>> => Held(q) = {}
    BY <1>5, <2>1
  <2> QED BY <1>1, <2>2, EmptyQueue
<1>8. /\ Held(rest) \subseteq Held(s) /\ Held(q \o due) \subseteq Held(s) \cup Held(q)
      /\ Held(q \o due) \cap Held(rest) = {}
  BY <1>1, <1>4, <1>5
<1> QED BY <1>4, <1>5, <1>6, <1>7, <1>8 DEF due, rest, n, s, q, cur

\* The locked part of Get.
LEMMA TakeKept ==
  ASSUME ThreadsInv, NEW t \in Threads, Take(t)
  PROVE  Preserved
<1> DEFINE s == queue[t].dmsgq
           q == queue[t].msgq
           n == DueCount(s, wait[t].cur)
           rest == SubSeq(s, n + 1, Len(s))
           all == queue[t].msgq \o SubSeq(s, 1, n)
           next == IF rest = <<>> THEN Forever
                   ELSE (msg[Head(rest)].due - wait[t].cur) % TimeSpace
<1>1. /\ Top(t).at = "take" /\ now' = now /\ budget' = budget
      /\ wait' = [wait EXCEPT ![t] = [cur |-> Start, next |-> IF all = <<>> THEN next ELSE Forever]]
  BY DEF Take
<1>2. Len(stack[t]) = 1
  BY <1>1, Depth DEF Bottom
<1>3. /\ all = <<>> => /\ queue' = [queue EXCEPT ![t].dmsgq = rest]
                       /\ stack' = [stack EXCEPT ![t] = GoTo(@, "check")] /\ msg' = msg
      /\ all # <<>> => /\ queue' = [queue EXCEPT ![t].dmsgq = rest, ![t].msgq = Tail(all)]
                       /\ stack' = [stack EXCEPT ![t] = Push(GoTo(@, "get"), Frame("handle", Head(all)))]
                       /\ msg' = [msg EXCEPT ![Head(all)].st = "handling"]
  BY DEF Take
<1>4. /\ rest \in Seq(Nat) /\ Distinct(rest) /\ Held(rest) \subseteq Held(s)
      /\ all \in Seq(Nat) /\ Distinct(all) /\ Held(all) \subseteq Held(s) \cup Held(q)
      /\ Held(all) \cap Held(rest) = {}
      /\ all = <<>> => q = <<>>
  BY TakenParts
<1>5. next \in Nat
  <2>1. Forever \in Nat /\ TimeSpace \in Nat \ {0}
    BY ForeverType, ThreadsAssumption
  <2>2. CASE rest = <<>>
    BY <2>1, <2>2
  <2>3. CASE rest # <<>>
    <3>1. Head(rest) \in Held(rest)
      <4> HIDE DEF rest
      <4> QED BY <1>4, <2>3, TailQueue
    <3>2. Head(rest) \in Held(s) /\ QueueOK(t, msg, queue[t])
      BY <1>4, <3>1, StateTypes
    <3> HIDE DEF rest
    <3>3. Head(rest) \in Ids
      BY <3>2 DEF QueueOK, Ids
    <3>4. msg[Head(rest)].due \in Int /\ wait[t].cur \in Int
      <4>1. msg[Head(rest)] \in Message /\ wait[t] \in [cur : Start..now, next : Nat]
        BY <3>3, StateTypes DEF ThreadsInv, ClockOK
      <4> QED BY <4>1 DEF Message
    <3>5. (msg[Head(rest)].due - wait[t].cur) % TimeSpace \in Nat
      BY <2>1, <3>4
    <3> QED BY <2>3, <3>5
  <2> QED BY <2>2, <2>3
<1> HIDE DEF rest, all, next
<1>6. ClockOK'
  <2>1. wait \in [Threads -> [cur : Start..now, next : Nat]] /\ now \in Nat /\ Start <= now
    BY DEF ThreadsInv, ClockOK
  <2>2. Start \in Start..now /\ Forever \in Nat
    BY <2>1, ForeverType, ThreadsAssumption
  <2>3. [cur |-> Start, next |-> IF all = <<>> THEN next ELSE Forever] \in [cur : Start..now, next : Nat]
    BY <1>5, <2>2
  <2>4. wait' \in [Threads -> [cur : Start..now, next : Nat]]
    BY <1>1, <2>1, <2>3
  <2> QED BY <1>1, <2>4 DEF ThreadsInv, ClockOK
<1>7. /\ QueueOK(t, msg, queue[t]) /\ queue[t] \in QueueRecord /\ s \in Seq(Nat) /\ q \in Seq(Nat)
      /\ \A m \in Held(s) \cup Held(q) :
           m \in Ids /\ msg[m].to = t /\ msg[m].st = "queued" /\ msg[m].how # "send"
  <2>1. QueueOK(t, msg, queue[t]) /\ queue[t] \in QueueRecord
    BY StateTypes
  <2>2. s \in Seq(Nat) /\ q \in Seq(Nat)
    BY <2>1 DEF QueueRecord
  <2> QED BY <2>1, <2>2 DEF QueueOK, Ids
<1>8. CASE all = <<>>
  <2> DEFINE w == GoTo(stack[t], "check")
             k == [queue[t] EXCEPT !.dmsgq = rest]
  <2>1. queue' = [queue EXCEPT ![t] = k] /\ stack' = [stack EXCEPT ![t] = w] /\ msg' = msg
    BY <1>3, <1>8
  <2>2. StackOK(t, msg, w) /\ w \in Seq(FrameRecord) /\ Len(w) = 1 /\ w[1].at = "check"
    <3>1. "check" \in Bottom
      BY DEF Bottom
    <3> QED BY <1>2, <3>1, GetMoved
  <2> HIDE DEF w
  <2>3. stack'[t] = w /\ Above(t, 0) /\ Top(t)'.at = "check" /\ InGet(t)' = "check"
    <3>1. Stacked(t, w) /\ Len(w) >= 1 /\ Len(stack[t]) = 1
      BY <1>2, <2>1, <2>2 DEF Stacked
    <3> QED BY <2>2, <3>1, GetStep
  <2>4. /\ k \in QueueRecord /\ k.msgq = q /\ k.dmsgq = rest /\ k.sendlist = queue[t].sendlist
        /\ k.has_sends = queue[t].has_sends /\ k.fStop = queue[t].fStop /\ k.wake = queue[t].wake
    BY <1>4, <1>7 DEF QueueRecord
  <2> HIDE DEF k
  <2>5. QueueOK(t, msg, k)
    BY <1>4, <1>7, <2>4 DEF QueueOK
  <2>6. /\ DOMAIN queue' = Threads /\ queue'[t] = k /\ \A u \in Threads : u # t => queue'[u] = queue[u]
        /\ \A u \in Threads : QueueOK(u, msg, queue'[u])
    <3>1. \A u \in Threads : QueueOK(u, msg, queue[u])
      BY StateTypes
    <3> QED BY <2>1, <2>5, <3>1, QueueSet
  <2>7. Quiet(t)
    BY <2>1, <2>4, <2>6 DEF Quiet
  <2>8. ReadyAlive => ReadyAlive'
    <3>1. SameCalls(msg, msg') /\ Ids' = Ids
      BY <2>1, SameMessages
    <3> QED BY <1>2, <2>1, <2>3, <3>1, GetReady
  <2>9. WakeInv => SendsHeard(t)' /\ PostsHeard(t)' /\ RepliesHeard(t)'
    <3> SUFFICES ASSUME WakeInv PROVE SendsHeard(t)' /\ PostsHeard(t)' /\ RepliesHeard(t)'
      OBVIOUS
    <3>1. SendsHeard(t)'
      BY <1>1, <2>1, <2>3, <2>4, <2>6, SendsStill DEF WakeInv
    <3>2. PostsHeard(t)'
      BY <1>4, <1>8, <2>3, <2>4, <2>6 DEF PostsHeard
    <3>3. RepliesHeard(t)'
      <4>1. Len(stack'[t]) = 1
        BY <2>2, <2>3
      <4>2. 2..Len(stack'[t]) = {}
        BY <4>1
      <4> QED BY <4>2 DEF RepliesHeard
    <3> QED BY <3>1, <3>2, <3>3
  <2>10. StackOK(t, msg, stack'[t])
    BY <2>2, <2>3
  <2> QED BY <1>1, <1>6, <2>3, <2>7, <2>8, <2>9, <2>10, QuietKept
<1>9. CASE all # <<>>
  <2> DEFINE x == Head(all)
             k == [queue[t] EXCEPT !.dmsgq = rest, !.msgq = Tail(all)]
             f == Frame("handle", x)
             w == GoTo(stack[t], "get")
             v == Push(w, f)
  <2>1. /\ queue' = [queue EXCEPT ![t] = k] /\ stack' = [stack EXCEPT ![t] = v]
        /\ msg' = [msg EXCEPT ![x].st = "handling"]
    BY <1>3, <1>9 DEF ThreadsInv
  <2>2. /\ Tail(all) \in Seq(Nat) /\ x \in Nat /\ Held(all) = {x} \cup Held(Tail(all))
        /\ \A y : Once(all, y) => Once(Tail(all), y) /\ (y = x => y \notin Held(Tail(all)))
    BY <1>4, <1>9, TailQueue
  <2>3. Distinct(Tail(all)) /\ x \notin Held(Tail(all))
    <3>1. \A y : Once(all, y)
      BY <1>4, DistinctOnce
    <3> HIDE DEF x
    <3> QED BY <2>2, <3>1, DistinctOnce
  <2>4. /\ x \in Ids /\ msg[x].to = t /\ msg[x].st = "queued" /\ msg[x].how # "send"
        /\ msg[x] \in Message /\ x # 0
    <3>1. x \in Held(s) \cup Held(q)
      BY <1>4, <2>2
    <3>2. x \in Ids /\ msg[x].to = t /\ msg[x].st = "queued" /\ msg[x].how # "send"
      BY <1>7, <3>1
    <3> QED BY <3>2, StateTypes
  <2>5. msg[x].ready = FALSE /\ msg[x].early \in BOOLEAN /\ "handling" \in States
    BY <2>4 DEF ThreadsInv, MessagesOK, Message, States
  <2>6. msg' = Marked(x, "handling", FALSE, msg[x].early)
    <3> HIDE DEF x
    <3>1. msg' = [msg EXCEPT ![x] = [msg[x] EXCEPT !.st = "handling"]]
      BY <2>1, <2>4 DEF Ids
    <3>2. [msg[x] EXCEPT !.st = "handling"]
            = [msg[x] EXCEPT !.st = "handling", !.ready = FALSE, !.early = msg[x].early]
      BY <2>4, <2>5 DEF Message
    <3> QED BY <3>1, <3>2 DEF Marked
  <2>7. /\ k \in QueueRecord /\ k.msgq = Tail(all) /\ k.dmsgq = rest
        /\ k.sendlist = queue[t].sendlist /\ k.fStop = queue[t].fStop /\ k.wake = queue[t].wake
        /\ k.has_sends = queue[t].has_sends
    BY <1>4, <1>7, <2>2 DEF QueueRecord
  <2> HIDE DEF k, x
  <2>8. /\ Touched(msg, msg', x) /\ SameCalls(msg, msg') /\ Ids' = Ids /\ MessagesOK'
        /\ msg'[x].st = "handling" /\ msg'[x].ready = FALSE
        /\ \A m \in Ids : m # x => msg'[m] = msg[m]
    BY <2>4, <2>5, <2>6, TouchOne
  <2>9. /\ \A u \in Threads : StackOK(u, msg', stack[u])
        /\ \A u \in Threads : u # t => QueueOK(u, msg', queue[u])
    BY <2>4, <2>8, TouchQueued
  <2>10. QueueOK(t, msg', k)
    <3>1. \A m \in Ids : m # x => m \in DOMAIN msg' /\ msg'[m] = msg[m]
      BY <2>8 DEF Ids
    <3>2. \A m \in Held(k.sendlist) :
            /\ m \in DOMAIN msg' /\ msg'[m].to = t /\ msg'[m].st = "queued"
            /\ msg'[m].how = "send" /\ msg'[m].from # t
      <4>1. \A m \in Held(k.sendlist) :
              /\ m \in Ids /\ msg[m].to = t /\ msg[m].st = "queued"
              /\ msg[m].how = "send" /\ msg[m].from # t
        BY <1>7, <2>7 DEF QueueOK, Ids
      <4>2. \A m \in Held(k.sendlist) : m # x
        BY <2>4, <4>1
      <4> QED BY <3>1, <4>1, <4>2
    <3>3. \A m \in Held(k.msgq) \cup Held(k.dmsgq) :
            m \in DOMAIN msg' /\ msg'[m].to = t /\ msg'[m].st = "queued" /\ msg'[m].how # "send"
      <4>1. \A m \in Held(k.msgq) \cup Held(k.dmsgq) : m # x /\ m \in Held(s) \cup Held(q)
        BY <1>4, <2>2, <2>3, <2>7
      <4> QED BY <1>7, <3>1, <4>1
    <3>4. (~k.has_sends => k.sendlist = <<>>) /\ Distinct(k.sendlist)
      BY <1>7, <2>7 DEF QueueOK
    <3>5. Distinct(k.msgq) /\ Distinct(k.dmsgq) /\ Held(k.msgq) \cap Held(k.dmsgq) = {}
      BY <1>4, <2>2, <2>3, <2>7
    <3> QED BY <2>7, <3>2, <3>3, <3>4, <3>5 DEF QueueOK
  <2>11. /\ DOMAIN queue' = Threads /\ queue'[t] = k /\ \A u \in Threads : u # t => queue'[u] = queue[u]
         /\ \A u \in Threads : QueueOK(u, msg', queue'[u])
    BY <2>1, <2>9, <2>10, QueueSet
  <2>12. f \in FrameRecord /\ f.at = "handle" /\ f.m = x /\ ~f.waited
    BY <2>2 DEF Frame, FrameRecord, Places
  <2>13. StackOK(t, msg, w) /\ w \in Seq(FrameRecord) /\ Len(w) = 1 /\ w[1].at = "get"
    <3>1. "get" \in Bottom
      BY DEF Bottom
    <3> QED BY <1>2, <3>1, GetMoved
  <2> HIDE DEF f, w
  <2>14. StackOK(t, msg', v) /\ Len(v) = 2 /\ v[2] = f /\ v[1] = w[1] /\ v \in Seq(FrameRecord)
    <3>0. \A i \in 2..Len(w) : FALSE
      BY <2>13
    <3>1. StackOK(t, msg', w)
      BY <2>8, <2>13, <3>0, StackKept
    <3>2. v[2] = f /\ v[1] = w[1]
      <4>1. f \in FrameRecord /\ w \in Seq(FrameRecord) /\ Len(w) = 1
        BY <2>12, <2>13
      <4> QED BY <4>1 DEF Push
    <3>3. FrameOK(t, msg', v, 2)
      <4>1. x \in DOMAIN msg' /\ msg'[x].to = t /\ msg'[x].st = "handling"
        BY <2>4, <2>8 DEF Ids, SameCalls
      <4>2. 2 - 1 = 1
        OBVIOUS
      <4> HIDE DEF v
      <4> QED BY <2>4, <2>12, <2>13, <3>2, <4>1, <4>2 DEF FrameOK, Calls, Dispatched
    <3>4. FrameOK(t, msg', Push(w, f), Len(w) + 1)
      BY <2>13, <3>3
    <3>5. StackOK(t, msg', Push(w, f)) /\ Len(Push(w, f)) = Len(w) + 1
      BY <2>12, <3>0, <3>1, <3>4, StackPush
    <3>6. Push(w, f) \in Seq(FrameRecord)
      BY <3>5 DEF StackOK
    <3> QED BY <2>13, <3>2, <3>5, <3>6
  <2> HIDE DEF v
  <2>15. stack'[t] = v /\ Above(t, 0) /\ Top(t)' = f /\ InGet(t)' = "get"
    <3>1. Stacked(t, v) /\ Len(v) >= 1 /\ Len(stack[t]) = 1 /\ v[Len(v)] = f /\ v[1].at = "get"
      BY <1>2, <2>1, <2>13, <2>14 DEF Stacked
    <3> QED BY <2>14, <3>1, GetStep
  <2>16. ThreadsInv'
    <3>1. StackOK(t, msg', stack'[t])
      BY <2>14, <2>15
    <3> QED BY <1>6, <2>8, <2>9, <2>11, <2>15, <3>1, StepTogether
  <2>17. ASSUME ReadyAlive PROVE ReadyAlive'
    <3>1. \A m \in Ids : msg'[m].st \in {"queued", "handling"} => msg[m].st \in {"queued", "handling"}
      BY <2>4, <2>8
    <3> QED BY <1>2, <2>8, <2>15, <2>17, <3>1, GetReady
  <2>18. ASSUME WakeInv PROVE WakeInv'
    <3>1. \A m \in Ids : msg'[m].ready => msg[m].ready
      BY <2>8
    <3>2. \A u \in Threads : u # t => SendsHeard(u)' /\ PostsHeard(u)' /\ RepliesHeard(u)'
      <4>1. \A u \in Threads : u # t => stack'[u] = stack[u]
        BY <2>15 DEF Above
      <4> QED BY <1>1, <2>8, <2>11, <2>18, <3>1, <4>1, WakeKept
    <3>3. SendsHeard(t)' /\ PostsHeard(t)'
      BY <2>12, <2>15 DEF SendsHeard, PostsHeard
    <3>4. RepliesHeard(t)'
      <4>1. \A i \in 2..Len(stack'[t]) : stack'[t][i].at = "handle"
        <5>1. Len(stack'[t]) = 2 /\ stack'[t][2].at = "handle"
          BY <2>12, <2>14, <2>15
        <5>2. \A i \in 2..2 : i = 2
          OBVIOUS
        <5> QED BY <5>1, <5>2
      <4> QED BY <4>1 DEF RepliesHeard
    <3> QED BY <3>2, <3>3, <3>4 DEF WakeInv
  <2> QED BY <2>16, <2>17, <2>18 DEF Preserved
<1> QED BY <1>8, <1>9

-----------------------------------------------------------------------------
(* The theorems.                                                           *)

\* The invariant holds at the start.
LEMMA InitThreads == Init => ThreadsInv /\ WakeInv /\ ReadyAlive
<1> SUFFICES ASSUME Init PROVE ThreadsInv /\ WakeInv /\ ReadyAlive
  OBVIOUS
<1>1. Ids = {} /\ msg = <<>>
  BY DEF Init, Ids
<1>2. MessagesOK
  BY <1>1 DEF MessagesOK
<1>3. ClockOK
  <2>1. /\ budget \in Scenarios /\ now = Start
        /\ wait = [t \in Threads |-> [cur |-> Start, next |-> Forever]]
    BY DEF Init
  <2>2. budget \in [callers : SUBSET Threads, running : SUBSET Threads,
                 links : SUBSET (Threads \X Threads), post : Nat, delay : Nat, send : Nat,
                 deeds : Nat, ticks : Nat]
    BY <2>1, ThreadsAssumption
  <2>3. Forever \in Nat /\ Start \in Nat /\ Start + budget.ticks + TimeSpace <= Forever
    BY <2>1, ForeverType, ThreadsAssumption
  <2>4. wait \in [Threads -> [cur : Start..now, next : Nat]]
    BY <2>1, <2>3
  <2> QED BY <2>1, <2>2, <2>3, <2>4 DEF ClockOK
<1>4. ASSUME NEW t \in Threads
      PROVE  /\ QueueOK(t, msg, queue[t]) /\ queue[t].msgq = <<>> /\ queue[t].sendlist = <<>>
             /\ queue[t].fStop = FALSE
  <2>1. queue[t] = [msgq |-> <<>>, dmsgq |-> <<>>, sendlist |-> <<>>,
                    has_sends |-> FALSE, fStop |-> FALSE, wake |-> FALSE]
    BY DEF Init
  <2>2. /\ queue[t] \in QueueRecord /\ queue[t].msgq = <<>> /\ queue[t].dmsgq = <<>>
        /\ queue[t].sendlist = <<>> /\ queue[t].fStop = FALSE
    BY <2>1 DEF QueueRecord
  <2>3. Held(<<>>) = {}
    BY ShortQueues
  <2> QED BY <2>2, <2>3 DEF QueueOK, Distinct
<1>5. ASSUME NEW t \in Threads
      PROVE  StackOK(t, msg, stack[t]) /\ \A i \in 2..Len(stack[t]) : stack[t][i].at = "handle"
  <2>1. \/ stack[t] = <<Frame("get", 0), Frame("handle", 0)>>
        \/ \E at \in {"get", "ended"} : stack[t] = <<Frame(at, 0)>>
    BY DEF Init
  <2>2. ASSUME NEW at \in {"get", "ended", "handle"}
        PROVE  /\ Frame(at, 0) \in FrameRecord /\ Frame(at, 0).at = at /\ Frame(at, 0).m = 0
               /\ ~Frame(at, 0).waited
    BY DEF Frame, FrameRecord, Places
  <2>3. CASE stack[t] = <<Frame("get", 0), Frame("handle", 0)>>
    <3> DEFINE f == Frame("get", 0)
               g == Frame("handle", 0)
    <3>1. /\ f \in FrameRecord /\ f.at = "get" /\ f.m = 0 /\ ~f.waited
          /\ g \in FrameRecord /\ g.at = "handle" /\ g.m = 0 /\ ~g.waited
      BY <2>2
    <3>2. stack[t] = <<f, g>>
      BY <2>3
    <3> HIDE DEF f, g
    <3>3. /\ stack[t] \in Seq(FrameRecord) /\ Len(stack[t]) = 2 /\ stack[t] # <<>>
          /\ stack[t][1] = f /\ stack[t][2] = g
      BY <3>1, <3>2
    <3>4. \A i \in 2..Len(stack[t]) : i = 2
      BY <3>3
    <3>5. FrameOK(t, msg, stack[t], 2)
      <4>1. 2 - 1 = 1
        OBVIOUS
      <4> QED BY <3>1, <3>3, <4>1 DEF FrameOK, Calls
    <3> QED BY <3>1, <3>3, <3>4, <3>5 DEF StackOK, Bottom
  <2>4. ASSUME NEW at \in {"get", "ended"}, stack[t] = <<Frame(at, 0)>>
        PROVE  StackOK(t, msg, stack[t]) /\ \A i \in 2..Len(stack[t]) : stack[t][i].at = "handle"
    <3> DEFINE f == Frame(at, 0)
    <3>1. f \in FrameRecord /\ f.at \in Bottom /\ f.m = 0 /\ ~f.waited
      BY <2>2 DEF Bottom
    <3>2. stack[t] = <<f>>
      BY <2>4
    <3> HIDE DEF f
    <3>3. stack[t] \in Seq(FrameRecord) /\ Len(stack[t]) = 1 /\ stack[t] # <<>> /\ stack[t][1] = f
      BY <3>1, <3>2
    <3>4. 2..Len(stack[t]) = {}
      BY <3>3
    <3> QED BY <3>1, <3>3, <3>4 DEF StackOK
  <2> QED BY <2>1, <2>3, <2>4
<1>6. ThreadsInv
  <2>1. DOMAIN queue = Threads /\ DOMAIN stack = Threads
    BY DEF Init
  <2> QED BY <1>2, <1>3, <1>4, <1>5, <2>1 DEF ThreadsInv
<1>7. WakeInv
  <2> SUFFICES ASSUME NEW t \in Threads PROVE SendsHeard(t) /\ PostsHeard(t) /\ RepliesHeard(t)
    BY DEF WakeInv
  <2>1. SendsHeard(t)
    BY <1>4, ShortQueues DEF SendsHeard
  <2>2. PostsHeard(t)
    BY <1>4 DEF PostsHeard
  <2>3. RepliesHeard(t)
    BY <1>5 DEF RepliesHeard
  <2> QED BY <2>1, <2>2, <2>3
<1>8. ReadyAlive
  BY <1>1 DEF ReadyAlive
<1> QED BY <1>6, <1>7, <1>8

\* Every step keeps it.
LEMMA NextThreads ==
  ASSUME ThreadsInv, [Next]_vars
  PROVE  Preserved
<1>1. CASE UNCHANGED vars
  BY <1>1 DEF vars, Preserved, ThreadsInv, MessagesOK, ClockOK, Ids, WakeInv, SendsHeard, PostsHeard,
              RepliesHeard, Top, InGet, ReadyAlive
<1>2. CASE Tick
  BY <1>2, TickKept
<1>3. ASSUME NEW t \in Threads, HandlerCall(t) PROVE Preserved
  <2>1. PICK q \in Threads : \/ Post(t, q) \/ Send(t, q) \/ Quit(t, q)
                             \/ \E d \in Delays : PostDelayed(t, q, d)
                             \/ \E m \in Ids : Clear(t, q, m)
    BY <1>3 DEF HandlerCall
  <2>2. /\ now \in Nat /\ Start \in Nat /\ Forever \in Nat /\ TimeSpace \in Nat \ {0} /\ Start <= now
        /\ now + TimeSpace <= Forever
    <3>1. /\ now \in Nat /\ Start <= now /\ now + budget.ticks + TimeSpace <= Forever
          /\ budget.ticks \in Nat
      BY DEF ThreadsInv, ClockOK
    <3>2. Start \in Nat /\ Forever \in Nat /\ TimeSpace \in Nat \ {0}
      BY ForeverType, ThreadsAssumption
    <3> QED BY <3>1, <3>2
  <2>3. now \in Start..Forever
    BY <2>2
  <2>4. CASE Post(t, q)
    <3>1. Call(t, q, NewMessage("post", t, q, now), "push")
      BY <2>4 DEF Post
    <3> QED BY <2>3, <3>1, CallKept
  <2>5. CASE Send(t, q)
    <3>1. Call(t, q, NewMessage("send", t, q, now), IF q = t THEN "handle" ELSE "enqueue")
      BY <2>5 DEF Send
    <3> QED BY <2>3, <3>1, CallKept
  <2>6. CASE Quit(t, q)
    BY <2>6, QuitKept
  <2>7. ASSUME NEW d \in Delays, PostDelayed(t, q, d) PROVE Preserved
    <3>1. Call(t, q, NewMessage("delay", t, q, now + d), "push")
      BY <2>7 DEF PostDelayed
    <3>2. d \in 0..(TimeSpace \div 2 - 1)
      BY ThreadsAssumption
    <3>3. now + d \in Start..Forever
      BY <2>2, <3>2
    <3> QED BY <3>1, <3>3, CallKept
  <2>8. ASSUME NEW m \in Ids, Clear(t, q, m) PROVE Preserved
    BY <2>8, ClearKept
  <2> QED BY <2>1, <2>4, <2>5, <2>6, <2>7, <2>8
<1>4. ASSUME NEW t \in Threads, Run(t) PROVE Preserved
  <2>1. CASE PushMessage(t) \/ EnqueueSend(t) \/ SignalSend(t) \/ CheckReady(t) \/ WaitForReply(t)
    BY <2>1, PushMessageKept, EnqueueSendKept, SignalSendKept, CheckReadyKept, WaitForReplyKept
  <2>2. CASE Return(t) \/ ReceiveSend(t)
    BY <2>2, ReturnKept, ReceiveSendKept
  <2>3. CASE GetBegin(t) \/ Take(t) \/ CheckStop(t) \/ WaitInGet(t)
    BY <2>3, GetBeginKept, TakeKept, CheckStopKept, WaitInGetKept
  <2> QED BY <1>4, <2>1, <2>2, <2>3 DEF Run
<1> QED BY <1>1, <1>2, <1>3, <1>4 DEF Next

\* The invariant is an invariant of the specification.
THEOREM ThreadsInvariant == Spec => [](ThreadsInv /\ WakeInv /\ ReadyAlive)
<1>1. Init => ThreadsInv /\ WakeInv /\ ReadyAlive
  BY InitThreads
<1>2. ThreadsInv /\ WakeInv /\ ReadyAlive /\ [Next]_vars => (ThreadsInv /\ WakeInv /\ ReadyAlive)'
  BY NextThreads DEF Preserved
<1> QED BY <1>1, <1>2, PTL DEF Spec

\* Every list of a queue holds a message once, every stack stands on a frame of Get, and the
\* time that Get has read is never ahead of the clock (messagequeue.cc, thread.cc).
THEOREM TypeCorrect == Spec => []TypeOK
<1>1. ASSUME ThreadsInv PROVE TypeOK
  <2>1. msg \in Seq([how : {"post", "delay", "send"}, from : Threads, to : Threads,
                  due : Start..Forever, st : States, ready : BOOLEAN, early : BOOLEAN])
    BY <1>1 DEF ThreadsInv, MessagesOK, Message
  <2>2. ASSUME NEW t \in Threads
        PROVE  /\ \A l \in {"msgq", "dmsgq", "sendlist"} : queue[t][l] \in Seq(Ids) /\ IsInjective(queue[t][l])
               /\ {queue[t].has_sends, queue[t].fStop, queue[t].wake} \subseteq BOOLEAN
               /\ stack[t] # <<>> /\ InGet(t) \in {"get", "take", "check", "wait", "ended"}
               /\ stack[t] \in Seq([at : Places, m : Ids \union {0}, waited : BOOLEAN])
               /\ wait[t] \in [cur : Start..now, next : Nat]
    <3>1. /\ QueueOK(t, msg, queue[t]) /\ queue[t] \in QueueRecord /\ StackOK(t, msg, stack[t])
          /\ wait[t] \in [cur : Start..now, next : Nat]
      BY <1>1, StateTypes DEF ThreadsInv, ClockOK
    <3>2. {queue[t].has_sends, queue[t].fStop, queue[t].wake} \subseteq BOOLEAN
      BY <3>1 DEF QueueRecord
    <3>3. stack[t] # <<>> /\ InGet(t) \in {"get", "take", "check", "wait", "ended"}
      BY <3>1 DEF StackOK, InGet, Bottom
    <3>4. ASSUME NEW s \in Seq(Nat), Distinct(s), \A m \in Held(s) : m \in Ids
          PROVE  s \in Seq(Ids) /\ IsInjective(s)
      <4>1. \A i \in 1..Len(s) : s[i] \in Ids
        BY <3>4 DEF Held
      <4>2. \A i, j \in 1..Len(s) : s[i] = s[j] => i = j
        BY <3>4, DistinctOnce DEF Once
      <4>3. DOMAIN s = 1..Len(s) /\ s = [i \in 1..Len(s) |-> s[i]] /\ Len(s) \in Nat
        OBVIOUS
      <4>4. s \in Seq(Ids)
        BY <4>1, <4>3
      <4> QED BY <4>2, <4>3, <4>4 DEF IsInjective
    <3>5. \A l \in {"msgq", "dmsgq", "sendlist"} : queue[t][l] \in Seq(Ids) /\ IsInjective(queue[t][l])
      <4>1. queue[t].msgq \in Seq(Nat) /\ queue[t].dmsgq \in Seq(Nat) /\ queue[t].sendlist \in Seq(Nat)
        BY <3>1 DEF QueueRecord
      <4>2. /\ Distinct(queue[t].msgq) /\ Distinct(queue[t].dmsgq) /\ Distinct(queue[t].sendlist)
            /\ \A m \in Held(queue[t].msgq) : m \in Ids
            /\ \A m \in Held(queue[t].dmsgq) : m \in Ids
            /\ \A m \in Held(queue[t].sendlist) : m \in Ids
        BY <3>1 DEF QueueOK, Ids
      <4>3. queue[t].msgq \in Seq(Ids) /\ IsInjective(queue[t].msgq)
        BY <3>4, <4>1, <4>2
      <4>4. queue[t].dmsgq \in Seq(Ids) /\ IsInjective(queue[t].dmsgq)
        BY <3>4, <4>1, <4>2
      <4>5. queue[t].sendlist \in Seq(Ids) /\ IsInjective(queue[t].sendlist)
        BY <3>4, <4>1, <4>2
      <4> QED BY <4>3, <4>4, <4>5
    <3>6. stack[t] \in Seq([at : Places, m : Ids \union {0}, waited : BOOLEAN])
      <4>1. ASSUME NEW i \in 1..Len(stack[t])
            PROVE  stack[t][i] \in [at : Places, m : Ids \union {0}, waited : BOOLEAN]
        <5>1. stack[t][i] \in FrameRecord /\ Len(stack[t]) \in Nat
          BY <3>1 DEF StackOK
        <5>2. stack[t][i].m \in Ids \union {0}
          <6>1. CASE i = 1
            BY <3>1, <6>1 DEF StackOK
          <6>2. CASE i # 1
            <7>1. i \in 2..Len(stack[t])
              BY <5>1, <6>2
            <7>2. FrameOK(t, msg, stack[t], i)
              BY <3>1, <7>1 DEF StackOK
            <7> QED BY <7>2 DEF FrameOK, Ids, Calls
          <6> QED BY <6>1, <6>2
        <5> QED BY <5>1, <5>2 DEF FrameRecord
      <4>2. DOMAIN stack[t] = 1..Len(stack[t]) /\ Len(stack[t]) \in Nat
            /\ stack[t] = [i \in 1..Len(stack[t]) |-> stack[t][i]]
        BY <3>1 DEF StackOK
      <4>3. ASSUME NEW R, NEW s, DOMAIN s = 1..Len(s) /\ Len(s) \in Nat,
                   s = [i \in 1..Len(s) |-> s[i]], \A i \in 1..Len(s) : s[i] \in R
            PROVE  s \in Seq(R)
        <5>1. s \in [1..Len(s) -> R]
          BY <4>3
        <5> QED BY <4>3, <5>1
      <4> QED BY <4>1, <4>2, <4>3
    <3> QED BY <3>1, <3>2, <3>3, <3>5, <3>6
  <2>3. now \in Start..Forever
    <3>1. /\ now \in Nat /\ Start <= now /\ now + budget.ticks + TimeSpace <= Forever
          /\ budget.ticks \in Nat
      BY <1>1 DEF ThreadsInv, ClockOK
    <3>2. Start \in Nat /\ Forever \in Nat /\ TimeSpace \in Nat
      BY ForeverType, ThreadsAssumption
    <3> QED BY <3>1, <3>2
  <2>4. \A left \in {"post", "delay", "send", "deeds", "ticks"} : budget[left] \in Nat
    BY <1>1 DEF ThreadsInv, ClockOK
  <2> QED BY <2>1, <2>2, <2>3, <2>4 DEF TypeOK
<1> QED BY <1>1, ThreadsInvariant, PTL

\* While a Send is queued or handled its caller is still in Send (thread.cc 401-421), so the
\* flag that ReceiveSends or Clear sets is in a live frame, with any number of threads and
\* any nesting of Sends.
THEOREM AlwaysReadyAlive == Spec => []ReadyAlive
BY ThreadsInvariant, PTL

\* No thread sleeps without a wake-up while it has a message, a quit or a reply to see
\* (thread.cc 413-437), with any number of threads and any nesting of Sends.
THEOREM NoWakeupLost == Spec => []NoLostWake
<1>1. ASSUME ThreadsInv, WakeInv PROVE NoLostWake
  <2> SUFFICES ASSUME NEW t \in Threads, Top(t).at = "wait", ~queue[t].wake
               PROVE  /\ \A i \in 1..Len(queue[t].sendlist) :
                           Top(msg[queue[t].sendlist[i]].from) = Frame("signal", queue[t].sendlist[i])
                      /\ Len(stack[t]) = 1 => queue[t].msgq = <<>> /\ ~queue[t].fStop
                      /\ Len(stack[t]) > 1 => ~msg[Top(t).m].ready
    BY DEF NoLostWake
  <2>1. SendsHeard(t) /\ PostsHeard(t) /\ RepliesHeard(t)
    BY <1>1 DEF WakeInv
  <2>2. \A i \in 1..Len(queue[t].sendlist) :
          Top(msg[queue[t].sendlist[i]].from) = Frame("signal", queue[t].sendlist[i])
    BY <2>1 DEF SendsHeard, Held
  <2>3. Len(stack[t]) = 1 => queue[t].msgq = <<>> /\ ~queue[t].fStop
    BY <1>1, <2>1, Depth DEF PostsHeard
  <2>4. ASSUME Len(stack[t]) > 1 PROVE ~msg[Top(t).m].ready
    <3>1. PICK n \in Nat : n = Len(stack[t]) /\ Top(t) = stack[t][n]
      BY <1>1, StateTypes
    <3>2. n \in 2..n /\ \A j \in (n + 1)..n : FALSE
      BY <2>4, <3>1
    <3> QED BY <2>1, <3>1, <3>2 DEF RepliesHeard
  <2> QED BY <2>2, <2>3, <2>4
<1> QED BY <1>1, ThreadsInvariant, PTL

-----------------------------------------------------------------------------
(* Delayed messages, while the clock does not wrap.                        *)

\* No time wraps, and all times of a run lie within half of the range of the 32-bit clock, which
\* TimeIsLater takes for granted.
NoClockWrap ==
  \A c \in Scenarios, d \in Delays \cup {0} :
    Start + c.ticks + d < TimeSpace /\ c.ticks + d < TimeSpace \div 2

\* The priority queue is in the order of the times, and no time is beyond those bounds.
InOrder(M, d) == \A i, j \in 1..Len(d) : i < j => M[d[i]].due <= M[d[j]].due

Exact(x) == x < TimeSpace /\ x - Start < TimeSpace \div 2

TimerInv ==
  /\ \A m \in Ids : Exact(msg[m].due)
  /\ \A t \in Threads : InOrder(msg, queue[t].dmsgq)

\* A time that has not wrapped is its own 32-bit time, and of two such times that are not too far
\* apart TimeIsLater tells which is later.
LEMMA ExactTimes ==
  ASSUME NEW a \in Nat, NEW b \in Nat, a < TimeSpace, b < TimeSpace, a - b <= TimeSpace \div 2,
         b - a < TimeSpace \div 2
  PROVE  /\ a % TimeSpace = a /\ b % TimeSpace = b
         /\ TimeIsLater(a % TimeSpace, b % TimeSpace) <=> b > a
<1>1. TimeSpace \in Nat /\ TimeSpace > 0 /\ TimeSpace = (TimeSpace \div 2) + (TimeSpace \div 2)
  BY ThreadsAssumption
<1>2. a % TimeSpace = a /\ b % TimeSpace = b
  BY <1>1
<1>3. PICK h \in Nat : h = TimeSpace \div 2
  BY <1>1
<1>4. CASE b > a
  <2>1. (b - a) % TimeSpace = b - a
    BY <1>1, <1>4
  <2>2. b - a \in 1..(h - 1)
    BY <1>3, <1>4
  <2> QED BY <1>2, <1>3, <1>4, <2>1, <2>2 DEF TimeIsLater
<1>5. CASE ~(b > a)
  <2>1. CASE a = b
    <3>1. (b - a) % TimeSpace = 0
      BY <1>1, <2>1
    <3> QED BY <1>2, <1>5, <3>1 DEF TimeIsLater
  <2>2. CASE a # b
    <3>1. (b - a) % TimeSpace = (b - a) + TimeSpace
      BY <1>1, <1>5, <2>2
    <3>2. ~((b - a) + TimeSpace \in 1..(h - 1))
      BY <1>1, <1>3
    <3> QED BY <1>2, <1>3, <1>5, <3>1, <3>2 DEF TimeIsLater
  <2> QED BY <2>1, <2>2
<1> QED BY <1>2, <1>4, <1>5

\* Two times of a run.
LEMMA ExactPair ==
  ASSUME NEW a \in Nat, NEW b \in Nat, Start <= a, Start <= b, Exact(a), Exact(b)
  PROVE  a < TimeSpace /\ b < TimeSpace /\ a - b <= TimeSpace \div 2 /\ b - a < TimeSpace \div 2
<1>1. PICK h \in Nat : h = TimeSpace \div 2
  BY ThreadsAssumption
<1>2. a < TimeSpace /\ b < TimeSpace /\ a - Start < h /\ b - Start < h /\ Start \in Nat
  BY <1>1, ThreadsAssumption DEF Exact
<1>3. a - b <= h /\ b - a < h
  BY <1>2
<1> QED BY <1>1, <1>2, <1>3

\* A queue behind another, place by place.
LEMMA ConcatPlaces ==
  ASSUME NEW M, NEW s \in Seq(M), NEW t \in Seq(M)
  PROVE  /\ Len(s \o t) = Len(s) + Len(t)
         /\ \A i \in 1..Len(s) : (s \o t)[i] = s[i]
         /\ \A i \in 1..Len(t) : (s \o t)[Len(s) + i] = t[i]
OBVIOUS

\* A time that has not wrapped is its own 32-bit time.
LEMMA SmallTime ==
  ASSUME NEW a \in Nat, a < TimeSpace
  PROVE  a % TimeSpace = a
BY ThreadsAssumption

\* The clock never passes the end of the longest scenario.
LEMMA ClockBound ==
  ASSUME ThreadsInv, NoClockWrap
  PROVE  /\ now \in Nat /\ Start \in Nat /\ TimeSpace \in Nat /\ Start <= now /\ Exact(now)
         /\ \A d \in Delays : d \in Nat /\ Exact(now + d)
<1>1. PICK c \in Scenarios : \A d \in Scenarios : d.ticks <= c.ticks
  BY ThreadsAssumption
<1>2. Forever = Start + c.ticks + TimeSpace
  <2> DEFINE T == {d.ticks : d \in Scenarios}
  <2>1. \A d \in Scenarios : d.ticks \in Nat
    BY ThreadsAssumption
  <2>2. c.ticks \in T /\ \A y \in T : c.ticks >= y /\ y \in Nat
    BY <1>1, <2>1
  <2>3. Max(T) \in T /\ \A y \in T : Max(T) >= y
    <3> HIDE DEF T
    <3> QED BY <2>2 DEF Max
  <2>4. Max(T) = c.ticks
    <3> HIDE DEF T
    <3> QED BY <2>2, <2>3
  <2> QED BY <2>4 DEF Forever
<1>3. /\ now \in Nat /\ Start <= now /\ now + budget.ticks + TimeSpace <= Forever
      /\ budget.ticks \in Nat /\ c.ticks \in Nat /\ Start \in Nat /\ TimeSpace \in Nat
  BY ThreadsAssumption DEF ThreadsInv, ClockOK
<1>4. now <= Start + c.ticks
  BY <1>2, <1>3
<1>5. \A d \in Delays \cup {0} : Start + c.ticks + d < TimeSpace /\ c.ticks + d < TimeSpace \div 2
  BY DEF NoClockWrap
<1>6. \A d \in Delays : d \in Nat
  BY ThreadsAssumption
<1>7. TimeSpace \div 2 \in Nat
  BY <1>3
<1>8. ASSUME NEW d \in Delays \cup {0} PROVE Exact(now + d)
  <2>1. d \in Nat /\ Start + c.ticks + d < TimeSpace /\ c.ticks + d < TimeSpace \div 2
    BY <1>5, <1>6
  <2> QED BY <1>3, <1>4, <1>7, <2>1 DEF Exact
<1>9. Exact(now)
  <2>1. 0 \in Delays \cup {0}
    OBVIOUS
  <2>2. Exact(now + 0)
    BY <1>8, <2>1
  <2>3. now + 0 = now
    BY <1>3
  <2> QED BY <2>2, <2>3
<1> QED BY <1>3, <1>6, <1>8, <1>9

\* The priority queue with another message, put behind the last that is not later.
LEMMA InsertInOrder ==
  ASSUME NEW d \in Seq(Nat), NEW m \in Nat, InOrder(msg, d),
         \A x \in Held(d) \cup {m} : msg[x].due \in Nat /\ msg[x].due < TimeSpace
  PROVE  InOrder(msg, Insert(d, m))
<1> DEFINE T == {i \in 1..Len(d) : Sooner(m, d[i])}
           p == Place(d, m)
<1>0. PICK n \in Nat : n = Len(d)
  OBVIOUS
<1>1. \E k \in 0..Len(d) : /\ \A i \in 1..k : ~Sooner(m, d[i])
                           /\ k < Len(d) => Sooner(m, d[k + 1])
  <2>1. PICK k \in 0..Len(d) : (\A i \in 1..k : i \notin T) /\ (k < Len(d) => k + 1 \in T)
    <3> HIDE DEF T
    <3> QED BY <1>0, FirstIn
  <2> QED BY <2>1
<1>2. /\ p \in 0..Len(d) /\ \A i \in 1..p : ~Sooner(m, d[i])
      /\ p < Len(d) => Sooner(m, d[p + 1])
  BY <1>1 DEF Place
<1>3. Insert(d, m) = SubSeq(d, 1, p) \o <<m>> \o SubSeq(d, p + 1, Len(d))
  BY DEF Insert
<1> HIDE DEF p
<1>4. \A x \in Held(d) \cup {m} : Trigger(x) = msg[x].due
  <2> SUFFICES ASSUME NEW x \in Held(d) \cup {m} PROVE msg[x].due % TimeSpace = msg[x].due
    BY DEF Trigger
  <2>1. PICK a \in Nat : a = msg[x].due
    OBVIOUS
  <2> QED BY <2>1, SmallTime
<1>5. \A i \in 1..n : d[i] \in Held(d)
  BY <1>0 DEF Held
<1>6. \A i \in 1..p : msg[d[i]].due <= msg[m].due
  BY <1>0, <1>2, <1>4, <1>5 DEF Sooner
<1>7. \A i \in (p + 1)..n : msg[m].due <= msg[d[i]].due
  <2> SUFFICES ASSUME NEW i \in (p + 1)..n PROVE msg[m].due <= msg[d[i]].due
    OBVIOUS
  <2>1. p < n /\ p + 1 \in 1..n /\ i \in 1..n /\ (p + 1 < i \/ p + 1 = i)
    BY <1>0, <1>2
  <2>2. msg[m].due < msg[d[p + 1]].due
    BY <1>0, <1>2, <1>4, <1>5, <2>1 DEF Sooner
  <2>3. msg[d[p + 1]].due <= msg[d[i]].due
    BY <1>0, <1>5, <2>1 DEF InOrder
  <2> QED BY <1>5, <2>1, <2>2, <2>3
<1> DEFINE c == Insert(d, m)
<1>8. /\ Len(c) = n + 1
      /\ \A i \in 1..p : c[i] = d[i]
      /\ c[p + 1] = m
      /\ \A i \in (p + 2)..(n + 1) : c[i] = d[i - 1]
  <2> DEFINE a == SubSeq(d, 1, p)
             b == SubSeq(d, p + 1, Len(d))
             e == a \o <<m>>
  <2>1. a \in Seq(Nat) /\ Len(a) = p /\ \A i \in 1..p : a[i] = d[i]
    <3>1. p \in Nat /\ p <= Len(d)
      BY <1>0, <1>2
    <3> QED BY <3>1
  <2>2. b \in Seq(Nat) /\ Len(b) = n - p
    BY <1>0, <1>2
  <2>3. \A i \in 1..(n - p) : b[i] = d[p + i]
    BY <1>0, <1>2
  <2>4. c = e \o b
    BY <1>3
  <2> HIDE DEF a, b, c
  <2>5. e \in Seq(Nat) /\ Len(e) = p + 1 /\ e[p + 1] = m /\ \A i \in 1..p : e[i] = d[i]
    BY <1>2, <2>1
  <2> HIDE DEF e
  <2>6. /\ Len(c) = (p + 1) + (n - p) /\ \A i \in 1..(p + 1) : c[i] = e[i]
        /\ \A i \in 1..(n - p) : c[(p + 1) + i] = b[i]
    <3>1. /\ Len(e \o b) = Len(e) + Len(b) /\ \A i \in 1..Len(e) : (e \o b)[i] = e[i]
          /\ \A i \in 1..Len(b) : (e \o b)[Len(e) + i] = b[i]
      <4>1. e \in Seq(Nat) /\ b \in Seq(Nat)
        BY <2>2, <2>5
      <4> QED BY <4>1, ConcatPlaces
    <3> QED BY <2>2, <2>4, <2>5, <3>1, Zenon
  <2>7. Len(c) = n + 1 /\ c[p + 1] = m /\ \A i \in 1..p : c[i] = d[i]
    BY <1>0, <1>2, <2>5, <2>6
  <2>8. ASSUME NEW i \in (p + 2)..(n + 1) PROVE c[i] = d[i - 1]
    <3>1. /\ (i - (p + 1)) \in 1..(n - p) /\ (p + 1) + (i - (p + 1)) = i
          /\ p + (i - (p + 1)) = i - 1
      BY <1>0, <1>2
    <3>2. c[(p + 1) + (i - (p + 1))] = b[i - (p + 1)] /\ b[i - (p + 1)] = d[p + (i - (p + 1))]
      BY <2>3, <2>6, <3>1
    <3> QED BY <3>1, <3>2
  <2> QED BY <2>7, <2>8
<1> HIDE DEF c
<1>9. \A i \in 1..(n + 1) :
        \/ i \in 1..p /\ c[i] = d[i]
        \/ i = p + 1 /\ c[i] = m
        \/ i \in (p + 2)..(n + 1) /\ i - 1 \in (p + 1)..n /\ c[i] = d[i - 1]
  <2>1. \A i \in 1..(n + 1) : i \in 1..p \/ i = p + 1 \/ (i \in (p + 2)..(n + 1) /\ i - 1 \in (p + 1)..n)
    BY <1>0, <1>2
  <2> QED BY <1>8, <2>1
<1>10. ASSUME NEW i \in 1..(n + 1), NEW j \in 1..(n + 1), i < j PROVE msg[c[i]].due <= msg[c[j]].due
  <2>1. CASE i \in 1..p /\ c[i] = d[i]
    <3>1. CASE j \in 1..p /\ c[j] = d[j]
      <4>1. i \in 1..n /\ j \in 1..n
        BY <1>0, <1>2, <2>1, <3>1
      <4> QED BY <1>0, <1>10, <2>1, <3>1, <4>1 DEF InOrder
    <3>2. CASE j = p + 1 /\ c[j] = m
      BY <1>6, <2>1, <3>2
    <3>3. CASE j - 1 \in (p + 1)..n /\ c[j] = d[j - 1]
      <4>1. i \in 1..n /\ j - 1 \in 1..n /\ i < j - 1
        BY <1>0, <1>2, <2>1, <3>3
      <4> QED BY <1>0, <2>1, <3>3, <4>1 DEF InOrder
    <3> QED BY <1>9, <3>1, <3>2, <3>3
  <2>2. CASE i = p + 1 /\ c[i] = m
    <3>1. j - 1 \in (p + 1)..n /\ c[j] = d[j - 1]
      BY <1>0, <1>2, <1>9, <1>10, <2>2
    <3> QED BY <1>7, <2>2, <3>1
  <2>3. CASE i - 1 \in (p + 1)..n /\ c[i] = d[i - 1]
    <3>1. j - 1 \in (p + 1)..n /\ c[j] = d[j - 1] /\ i - 1 < j - 1
      BY <1>0, <1>2, <1>9, <1>10, <2>3
    <3>2. i - 1 \in 1..n /\ j - 1 \in 1..n
      BY <1>0, <1>2, <2>3, <3>1
    <3> QED BY <1>0, <2>3, <3>1, <3>2 DEF InOrder
  <2> QED BY <1>9, <2>1, <2>2, <2>3
<1> QED BY <1>8, <1>10 DEF InOrder, c

\* A priority queue that messages are taken out of stays in order.
LEMMA WithoutInOrder ==
  ASSUME NEW d \in Seq(Nat), NEW S, InOrder(msg, d)
  PROVE  InOrder(msg, Without(d, S))
<1> DEFINE t == Without(d, S)
           n == Len(d)
           k == Len(t)
<1>1. t \in Seq(Nat)
  BY WithoutPicks
<1>2. PICK h : Picks(t, d, n, S, h)
  BY WithoutPicks
<1> HIDE DEF t
<1>3. n \in Nat /\ k \in Nat
  BY <1>1
<1>4. /\ \A i \in 1..k : h[i] \in 1..n /\ t[i] = d[h[i]]
      /\ \A i, j \in 1..k : i < j => h[i] < h[j]
  BY <1>2 DEF Picks
<1>5. ASSUME NEW i \in 1..k, NEW j \in 1..k, i < j PROVE msg[t[i]].due <= msg[t[j]].due
  <2>1. h[i] \in 1..n /\ h[j] \in 1..n /\ h[i] < h[j] /\ t[i] = d[h[i]] /\ t[j] = d[h[j]]
    BY <1>4, <1>5
  <2> QED BY <2>1 DEF InOrder
<1> QED BY <1>5 DEF InOrder, t

\* So does its end.
LEMMA RestInOrder ==
  ASSUME NEW d \in Seq(Nat), NEW p \in 0..Len(d), InOrder(msg, d)
  PROVE  InOrder(msg, SubSeq(d, p + 1, Len(d)))
<1>1. PICK n \in Nat : n = Len(d) /\ p \in 0..n
  OBVIOUS
<1> DEFINE b == SubSeq(d, p + 1, Len(d))
<1>2. Len(b) = n - p
  BY <1>1
<1>3. \A i \in 1..(n - p) : b[i] = d[p + i]
  BY <1>1
<1> HIDE DEF b
<1>4. ASSUME NEW i \in 1..(n - p), NEW j \in 1..(n - p), i < j PROVE msg[b[i]].due <= msg[b[j]].due
  <2>1. p + i \in 1..n /\ p + j \in 1..n /\ p + i < p + j
    BY <1>1, <1>4
  <2> QED BY <1>1, <1>3, <2>1 DEF InOrder
<1> QED BY <1>2, <1>4 DEF InOrder, b

\* What a step does with the times, and with a priority queue.
SameTimes ==
  /\ Ids \subseteq Ids' /\ \A m \in Ids : msg'[m].due = msg[m].due
  /\ \A m \in Ids' : m \in Ids \/ Exact(msg'[m].due)

Reordered(u) ==
  LET d == queue[u].dmsgq
      e == queue'[u].dmsgq
  IN \/ e = d
     \/ \E m \in Ids : e = Insert(d, m) \/ e = Without(d, {m})
     \/ \E p \in 0..Len(d) : e = SubSeq(d, p + 1, Len(d))

\* Such a step keeps the times in order.
LEMMA TimersKept ==
  ASSUME ThreadsInv, TimerInv, SameTimes, \A u \in Threads : Reordered(u)
  PROVE  TimerInv'
<1>1. \A m \in Ids' : Exact(msg'[m].due)
  BY DEF SameTimes, TimerInv
<1>2. ASSUME NEW u \in Threads PROVE InOrder(msg', queue'[u].dmsgq)
  <2> DEFINE d == queue[u].dmsgq
             e == queue'[u].dmsgq
  <2>1. d \in Seq(Nat) /\ Len(d) \in Nat /\ Held(d) \subseteq Ids
    BY StateTypes DEF QueueOK, QueueRecord, Ids
  <2>2. InOrder(msg, d)
    BY DEF TimerInv
  <2>3. \A x \in Ids : x \in Nat /\ msg[x].due \in Nat /\ msg[x].due < TimeSpace
    BY StateTypes, ThreadsAssumption DEF TimerInv, Exact, Message
  <2>4. \/ e = d
        \/ \E m \in Ids : e = Insert(d, m) \/ e = Without(d, {m})
        \/ \E p \in 0..Len(d) : e = SubSeq(d, p + 1, Len(d))
    BY DEF Reordered
  <2> HIDE DEF d, e
  <2>5. InOrder(msg, e) /\ Held(e) \subseteq Ids
    <3>1. CASE e = d
      BY <2>1, <2>2, <3>1
    <3>2. ASSUME NEW m \in Ids, e = Insert(d, m) PROVE InOrder(msg, e) /\ Held(e) \subseteq Ids
      <4>1. \A x \in Held(d) \cup {m} : msg[x].due \in Nat /\ msg[x].due < TimeSpace
        BY <2>1, <2>3
      <4>2. m \in Nat
        BY <2>3
      <4>3. InOrder(msg, Insert(d, m))
        BY <2>1, <2>2, <4>1, <4>2, InsertInOrder
      <4>4. Held(Insert(d, m)) = Held(d) \cup {m}
        BY <2>1, <4>2, InsertQueue
      <4> QED BY <2>1, <3>2, <4>3, <4>4
    <3>3. ASSUME NEW m \in Ids, e = Without(d, {m}) PROVE InOrder(msg, e) /\ Held(e) \subseteq Ids
      <4>1. InOrder(msg, Without(d, {m}))
        BY <2>1, <2>2, WithoutInOrder
      <4>2. Held(Without(d, {m})) = Held(d) \ {m}
        BY <2>1, WithoutQueue
      <4> QED BY <2>1, <3>3, <4>1, <4>2
    <3>4. ASSUME NEW p \in 0..Len(d), e = SubSeq(d, p + 1, Len(d))
          PROVE  InOrder(msg, e) /\ Held(e) \subseteq Ids
      <4>1. InOrder(msg, SubSeq(d, p + 1, Len(d)))
        BY <2>1, <2>2, RestInOrder
      <4>2. Held(d) = Held(SubSeq(d, 1, p)) \cup Held(SubSeq(d, p + 1, Len(d)))
        BY <2>1, SplitQueue
      <4> QED BY <2>1, <3>4, <4>1, <4>2
    <3> QED BY <2>4, <3>1, <3>2, <3>3, <3>4
  <2>6. \A i \in 1..Len(e) : msg'[e[i]].due = msg[e[i]].due
    BY <2>5 DEF Held, SameTimes
  <2>7. InOrder(msg', e)
    BY <2>5, <2>6 DEF InOrder
  <2> QED BY <2>7 DEF e
<1> QED BY <1>1, <1>2 DEF TimerInv

\* A step that marks one message changes no time.
LEMMA MarkedTimes ==
  ASSUME ThreadsInv, NEW x, NEW k, msg' = [msg EXCEPT ![x] = k], k.due = msg[x].due
  PROVE  SameTimes
BY StateTypes DEF SameTimes, Ids

\* How many messages are popped.
LEMMA DueCountFacts ==
  ASSUME NEW s \in Seq(Nat), NEW cur
  PROVE  LET n == DueCount(s, cur)
         IN /\ n \in 0..Len(s) /\ \A i \in 1..n : ~TimeIsLater(cur % TimeSpace, Trigger(s[i]))
            /\ n < Len(s) => TimeIsLater(cur % TimeSpace, Trigger(s[n + 1]))
<1> DEFINE T == {i \in 1..Len(s) : TimeIsLater(cur % TimeSpace, Trigger(s[i]))}
<1>1. Len(s) \in Nat
  OBVIOUS
<1>2. PICK i \in 0..Len(s) : (\A j \in 1..i : j \notin T) /\ (i < Len(s) => i + 1 \in T)
  <2> HIDE DEF T
  <2> QED BY <1>1, FirstIn
<1>3. \A j \in 1..i : j \in 1..Len(s)
  BY <1>1
<1>4. \E n \in 0..Len(s) : /\ \A j \in 1..n : ~TimeIsLater(cur % TimeSpace, Trigger(s[j]))
                           /\ n < Len(s) => TimeIsLater(cur % TimeSpace, Trigger(s[n + 1]))
  BY <1>2, <1>3
<1> QED BY <1>4 DEF DueCount

\* The priority queues after the steps that leave them alone.
LEMMA SameQueues ==
  ASSUME ThreadsInv,
         \/ queue' = queue
         \/ \E w : queue' = WakeUp(queue, w)
         \/ \E w, b : queue' = [queue EXCEPT ![w].wake = b]
         \/ \E w, b : queue' = [queue EXCEPT ![w].has_sends = b]
         \/ \E w : queue' = WakeUp([queue EXCEPT ![w].fStop = TRUE], w)
         \/ \E w, l : queue' = [queue EXCEPT ![w].sendlist = l]
         \/ \E w, l : queue' = [queue EXCEPT ![w].sendlist = l, ![w].has_sends = TRUE]
  PROVE  \A u \in Threads : Reordered(u)
<1>1. \A u \in Threads : queue[u] \in QueueRecord
  BY StateTypes
<1>2. DOMAIN queue = Threads
  BY DEF ThreadsInv
<1>3. ASSUME NEW u \in Threads PROVE queue'[u].dmsgq = queue[u].dmsgq
  <2>1. CASE queue' = queue
    BY <2>1
  <2>2. ASSUME NEW w, queue' = WakeUp(queue, w) PROVE queue'[u].dmsgq = queue[u].dmsgq
    BY <1>1, <1>2, <2>2 DEF WakeUp, QueueRecord
  <2>3. ASSUME NEW w, NEW b, queue' = [queue EXCEPT ![w].wake = b]
        PROVE  queue'[u].dmsgq = queue[u].dmsgq
    BY <1>1, <1>2, <2>3 DEF QueueRecord
  <2>4. ASSUME NEW w, NEW b, queue' = [queue EXCEPT ![w].has_sends = b]
        PROVE  queue'[u].dmsgq = queue[u].dmsgq
    BY <1>1, <1>2, <2>4 DEF QueueRecord
  <2>5. ASSUME NEW w, queue' = WakeUp([queue EXCEPT ![w].fStop = TRUE], w)
        PROVE  queue'[u].dmsgq = queue[u].dmsgq
    BY <1>1, <1>2, <2>5 DEF WakeUp, QueueRecord
  <2>6. ASSUME NEW w, NEW l, queue' = [queue EXCEPT ![w].sendlist = l]
        PROVE  queue'[u].dmsgq = queue[u].dmsgq
    BY <1>1, <1>2, <2>6 DEF QueueRecord
  <2>7. ASSUME NEW w, NEW l, queue' = [queue EXCEPT ![w].sendlist = l, ![w].has_sends = TRUE]
        PROVE  queue'[u].dmsgq = queue[u].dmsgq
    BY <1>1, <1>2, <2>7 DEF QueueRecord
  <2> QED BY <2>1, <2>2, <2>3, <2>4, <2>5, <2>6, <2>7
<1> QED BY <1>3 DEF Reordered

\* The calls of a handler.
LEMMA CallTimely ==
  ASSUME ThreadsInv, NEW t \in Threads, NEW q \in Threads, NEW how, NEW due \in Nat, NEW at,
         Exact(due), Call(t, q, NewMessage(how, t, q, due), at)
  PROVE  SameTimes /\ \A u \in Threads : Reordered(u)
<1>1. PICK k : msg' = Append(msg, k) /\ k.due = due
  BY DEF Call, NewMessage
<1>2. msg \in Seq(Message) /\ Len(msg) \in Nat
  BY StateTypes
<1>3. /\ Ids' = 1..(Len(msg) + 1) /\ Ids = 1..Len(msg) /\ msg'[Len(msg) + 1] = k
      /\ \A m \in Ids : msg'[m] = msg[m]
  BY <1>1, <1>2 DEF Ids
<1>4. SameTimes
  BY <1>1, <1>2, <1>3 DEF SameTimes
<1>5. queue' = queue
  BY DEF Call
<1> QED BY <1>4, <1>5, SameQueues

\* Every step is one that keeps the times in order.
LEMMA NextTimely ==
  ASSUME ThreadsInv, NoClockWrap, [Next]_vars
  PROVE  SameTimes /\ \A u \in Threads : Reordered(u)
<1> DEFINE Q == \A u \in Threads : Reordered(u)
<1>0. msg' = msg => SameTimes
  BY DEF SameTimes, Ids
<1>1. CASE UNCHANGED vars \/ Tick
  <2>1. msg' = msg /\ queue' = queue
    BY <1>1 DEF vars, Tick
  <2> QED BY <1>0, <2>1, SameQueues
<1>2. ASSUME NEW t \in Threads, HandlerCall(t) PROVE SameTimes /\ Q
  <2>1. PICK q \in Threads : \/ Post(t, q) \/ Send(t, q) \/ Quit(t, q)
                             \/ \E d \in Delays : PostDelayed(t, q, d)
                             \/ \E m \in Ids : Clear(t, q, m)
    BY <1>2 DEF HandlerCall
  <2>2. now \in Nat /\ Exact(now) /\ \A d \in Delays : d \in Nat /\ Exact(now + d)
    BY ClockBound
  <2>3. CASE Post(t, q) \/ Send(t, q)
    BY <2>2, <2>3, CallTimely DEF Post, Send
  <2>4. ASSUME NEW d \in Delays, PostDelayed(t, q, d) PROVE SameTimes /\ Q
    <3>1. now + d \in Nat /\ Exact(now + d)
      BY <2>2
    <3>2. Call(t, q, NewMessage("delay", t, q, now + d), "push")
      BY <2>4 DEF PostDelayed
    <3> QED BY <3>1, <3>2, CallTimely
  <2>5. CASE Quit(t, q)
    <3>1. msg' = msg /\ queue' = WakeUp([queue EXCEPT ![q].fStop = TRUE], q)
      BY <2>5 DEF Quit
    <3> QED BY <1>0, <3>1, SameQueues
  <2>6. ASSUME NEW m \in Ids, Clear(t, q, m) PROVE SameTimes /\ Q
    <3> DEFINE k == [msg[m] EXCEPT !.st = "cleared", !.ready = Contains(queue[q].sendlist, m)]
               left == [queue EXCEPT ![q].msgq = Without(@, {m}), ![q].dmsgq = Without(@, {m}),
                                     ![q].sendlist = Without(@, {m})]
    <3>1. msg' = [msg EXCEPT ![m] = k] /\ (queue' = WakeUp(left, msg[m].from) \/ queue' = left)
      BY <2>6 DEF Clear, Ids
    <3>2. k.due = msg[m].due
      BY StateTypes DEF Message
    <3> HIDE DEF k
    <3>3. SameTimes
      BY <3>1, <3>2, MarkedTimes
    <3>4. \A u \in Threads : queue[u] \in QueueRecord
      BY StateTypes
    <3>5. DOMAIN queue = Threads
      BY DEF ThreadsInv
    <3>6. \A u \in Threads : left[u].dmsgq = IF u = q THEN Without(queue[u].dmsgq, {m}) ELSE queue[u].dmsgq
      BY <3>4, <3>5 DEF QueueRecord
    <3>7. DOMAIN left = Threads /\ \A u \in Threads : "wake" \in DOMAIN left[u] /\ "dmsgq" \in DOMAIN left[u]
      BY <3>4, <3>5 DEF QueueRecord
    <3> HIDE DEF left
    <3>8. \A u \in Threads : WakeUp(left, msg[m].from)[u].dmsgq = left[u].dmsgq
      BY <3>7 DEF WakeUp
    <3>9. ASSUME NEW u \in Threads PROVE Reordered(u)
      BY <3>1, <3>6, <3>8 DEF Reordered
    <3> QED BY <3>3, <3>9
  <2> QED BY <2>1, <2>3, <2>4, <2>5, <2>6
<1>3. ASSUME NEW t \in Threads, Run(t) PROVE SameTimes /\ Q
  <2>1. CASE PushMessage(t)
    <3> DEFINE m == Top(t).m
               q == msg[m].to
               k == [msg[m] EXCEPT !.st = "queued", !.early = ~queue[q].fStop]
    <3>1. m \in Ids /\ msg[m] \in Message /\ q \in Threads
      <4>1. Top(t).at = "push"
        BY <2>1 DEF PushMessage
      <4>2. Len(stack[t]) > 1
        BY <4>1, InHandlerDeep DEF Bottom
      <4> QED BY <4>1, <4>2, SendTop DEF Calls
    <3>2. msg' = [msg EXCEPT ![m] = k]
      BY <2>1, <3>1 DEF PushMessage, Ids
    <3>3. k.due = msg[m].due
      BY <3>1 DEF Message
    <3>4. SameTimes
      <4> HIDE DEF k
      <4> QED BY <3>2, <3>3, MarkedTimes
    <3>5. queue' = WakeUp(IF msg[m].how = "post" THEN [queue EXCEPT ![q].msgq = Append(@, m)]
                          ELSE [queue EXCEPT ![q].dmsgq = Insert(@, m)], q)
      BY <2>1 DEF PushMessage
    <3>6. \A u \in Threads : queue[u] \in QueueRecord
      BY StateTypes
    <3>7. DOMAIN queue = Threads
      BY DEF ThreadsInv
    <3> HIDE DEF m, q
    <3>8. ASSUME NEW u \in Threads
          PROVE  queue'[u].dmsgq = queue[u].dmsgq \/ queue'[u].dmsgq = Insert(queue[u].dmsgq, m)
      <4>1. CASE msg[m].how = "post"
        BY <3>1, <3>5, <3>6, <3>7, <4>1 DEF WakeUp, QueueRecord
      <4>2. CASE msg[m].how # "post"
        BY <3>1, <3>5, <3>6, <3>7, <4>2 DEF WakeUp, QueueRecord
      <4> QED BY <4>1, <4>2
    <3>9. Q
      BY <3>1, <3>8 DEF Reordered
    <3> QED BY <3>4, <3>9
  <2>2. CASE EnqueueSend(t)
    <3> DEFINE m == Top(t).m
               q == msg[m].to
               k == [msg[m] EXCEPT !.st = "queued", !.early = ~queue[q].fStop]
    <3>1. m \in Ids /\ msg[m] \in Message
      <4>1. Top(t).at = "enqueue"
        BY <2>2 DEF EnqueueSend
      <4>2. Len(stack[t]) > 1
        BY <4>1, InHandlerDeep DEF Bottom
      <4> QED BY <4>1, <4>2, SendTop DEF Calls
    <3>2. msg' = [msg EXCEPT ![m] = k]
      BY <2>2, <3>1 DEF EnqueueSend, Ids
    <3>3. k.due = msg[m].due
      BY <3>1 DEF Message
    <3>4. SameTimes
      <4> HIDE DEF k
      <4> QED BY <3>2, <3>3, MarkedTimes
    <3>5. PICK l : queue' = [queue EXCEPT ![q].sendlist = l, ![q].has_sends = TRUE]
      BY <2>2 DEF EnqueueSend
    <3> QED BY <3>4, <3>5, SameQueues
  <2>3. CASE SignalSend(t) \/ CheckReady(t) \/ WaitForReply(t) \/ GetBegin(t) \/ CheckStop(t) \/ WaitInGet(t)
    <3>1. msg' = msg
      BY <2>3 DEF SignalSend, CheckReady, WaitForReply, GetBegin, CheckStop, WaitInGet
    <3>2. \/ queue' = queue
          \/ \E w : queue' = WakeUp(queue, w)
          \/ \E w, b : queue' = [queue EXCEPT ![w].wake = b]
      BY <2>3 DEF SignalSend, CheckReady, WaitForReply, GetBegin, CheckStop, WaitInGet
    <3> QED BY <1>0, <3>1, <3>2, SameQueues
  <2>4. CASE Return(t)
    <3> DEFINE m == Top(t).m
               k == [msg[m] EXCEPT !.st = "handled",
                                   !.ready = stack[t][Len(stack[t]) - 1].at = "receive"]
    <3>1. msg' = msg \/ (m # 0 /\ msg' = [msg EXCEPT ![m] = k])
      BY <2>4 DEF Return
    <3>2. queue' = queue \/ \E w : queue' = WakeUp(queue, w)
      BY <2>4 DEF Return
    <3>3. m # 0 => m \in Ids
      <4>1. Top(t).at = "handle"
        BY <2>4 DEF Return, InHandler
      <4>2. Len(stack[t]) > 1
        BY <4>1, InHandlerDeep DEF Bottom
      <4> QED BY <4>1, <4>2, StateTypes DEF FrameOK, Ids
    <3>4. m # 0 => k.due = msg[m].due
      BY <3>3, StateTypes DEF Message
    <3>5. SameTimes
      <4> HIDE DEF k, m
      <4> QED BY <1>0, <3>1, <3>4, MarkedTimes
    <3> QED BY <3>2, <3>5, SameQueues
  <2>5. CASE ReceiveSend(t)
    <3>1. CASE queue[t].sendlist = <<>>
      <4>1. msg' = msg /\ queue' = [queue EXCEPT ![t].has_sends = FALSE]
        BY <2>5, <3>1 DEF ReceiveSend
      <4> QED BY <1>0, <4>1, SameQueues
    <3>2. CASE queue[t].sendlist # <<>>
      <4> DEFINE m == Head(queue[t].sendlist)
                 k == [msg[m] EXCEPT !.st = "handling"]
      <4>1. msg' = [msg EXCEPT ![m] = k] /\ queue' = [queue EXCEPT ![t].sendlist = Tail(@)]
        BY <2>5, <3>2 DEF ReceiveSend
      <4>2. m \in Ids
        <5>1. queue[t].sendlist \in Seq(Nat) /\ Held(queue[t].sendlist) \subseteq Ids
          BY StateTypes DEF QueueOK, QueueRecord, Ids
        <5>2. m \in Held(queue[t].sendlist)
          BY <3>2, <5>1, TailQueue
        <5> QED BY <5>1, <5>2
      <4>3. k.due = msg[m].due
        BY <4>2, StateTypes DEF Message
      <4>4. SameTimes
        <5> HIDE DEF k
        <5> QED BY <4>1, <4>3, MarkedTimes
      <4>5. PICK l : queue' = [queue EXCEPT ![t].sendlist = l]
        BY <4>1
      <4> QED BY <4>4, <4>5, SameQueues
    <3> QED BY <3>1, <3>2
  <2>6. CASE Take(t)
    <3> DEFINE s == queue[t].dmsgq
               n == DueCount(s, wait[t].cur)
               rest == SubSeq(s, n + 1, Len(s))
               all == queue[t].msgq \o SubSeq(s, 1, n)
               k == [msg[Head(all)] EXCEPT !.st = "handling"]
    <3>1. \/ msg' = msg /\ queue' = [queue EXCEPT ![t].dmsgq = rest]
          \/ /\ all # <<>> /\ msg' = [msg EXCEPT ![Head(all)] = k]
             /\ queue' = [queue EXCEPT ![t].dmsgq = rest, ![t].msgq = Tail(all)]
      BY <2>6 DEF Take
    <3>2. all \in Seq(Nat) /\ Held(all) \subseteq Held(s) \cup Held(queue[t].msgq)
      BY TakenParts
    <3>3. s \in Seq(Nat) /\ Held(s) \subseteq Ids /\ Held(queue[t].msgq) \subseteq Ids
      BY StateTypes DEF QueueOK, QueueRecord, Ids
    <3>4. n \in 0..Len(s)
      <4> HIDE DEF s
      <4> QED BY <3>3, DueCountFacts
    <3> HIDE DEF all
    <3>5. all # <<>> => Head(all) \in Ids
      <4>1. all # <<>> => Head(all) \in Held(all)
        BY <3>2, TailQueue
      <4> QED BY <3>2, <3>3, <4>1
    <3>6. all # <<>> => k.due = msg[Head(all)].due
      BY <3>5, StateTypes DEF Message
    <3>7. SameTimes
      <4> HIDE DEF k
      <4> QED BY <1>0, <3>1, <3>6, MarkedTimes
    <3>8. \A u \in Threads : queue[u] \in QueueRecord
      BY StateTypes
    <3>9. DOMAIN queue = Threads
      BY DEF ThreadsInv
    <3>10. ASSUME NEW u \in Threads PROVE queue'[u].dmsgq = IF u = t THEN rest ELSE queue[u].dmsgq
      <4> HIDE DEF rest
      <4> QED BY <3>1, <3>8, <3>9 DEF QueueRecord
    <3>11. Q
      <4> HIDE DEF n
      <4> QED BY <3>4, <3>10 DEF Reordered
    <3> QED BY <3>7, <3>11
  <2> QED BY <1>3, <2>1, <2>2, <2>3, <2>4, <2>5, <2>6 DEF Run
<1> QED BY <1>1, <1>2, <1>3 DEF Next

\* A thread that stands at the lock of Get goes on by taking what is due.
LEMMA OnlyTake ==
  ASSUME ThreadsInv, [Next]_vars, NEW t \in Threads, Top(t).at = "take", stack'[t] # stack[t]
  PROVE  Take(t)
<1>0. DOMAIN stack = Threads
  BY DEF ThreadsInv
<1>1. CASE UNCHANGED vars \/ Tick
  BY <1>1 DEF vars, Tick
<1>2. ASSUME NEW u \in Threads, HandlerCall(u) PROVE FALSE
  <2>1. InHandler(u) /\ (stack' = stack \/ \E w : stack' = [stack EXCEPT ![u] = w])
    <3>1. PICK q \in Threads : \/ Post(u, q) \/ Send(u, q) \/ Quit(u, q)
                               \/ \E d \in Delays : PostDelayed(u, q, d)
                               \/ \E m \in Ids : Clear(u, q, m)
      BY <1>2 DEF HandlerCall
    <3>2. CASE Post(u, q) \/ Send(u, q) \/ \E d \in Delays : PostDelayed(u, q, d)
      <4>1. PICK new, at : Call(u, q, new, at)
        BY <3>2 DEF Post, Send, PostDelayed
      <4> QED BY <4>1 DEF Call
    <3>3. CASE Quit(u, q) \/ \E m \in Ids : Clear(u, q, m)
      BY <3>3 DEF Quit, Clear
    <3> QED BY <3>1, <3>2, <3>3
  <2>2. u # t
    BY <2>1 DEF InHandler
  <2> QED BY <1>0, <2>1, <2>2
<1>3. ASSUME NEW u \in Threads, Run(u) PROVE Take(t)
  <2>1. stack' = stack \/ \E w : stack' = [stack EXCEPT ![u] = w]
    BY <1>3 DEF Run, PushMessage, EnqueueSend, SignalSend, CheckReady, WaitForReply, Return,
                ReceiveSend, GetBegin, Take, CheckStop, WaitInGet
  <2>2. u = t
    BY <1>0, <2>1
  <2>3. Take(u) \/ Top(u).at # "take"
    BY <1>3 DEF Run, PushMessage, EnqueueSend, SignalSend, CheckReady, WaitForReply, Return,
                ReceiveSend, GetBegin, CheckStop, WaitInGet, InHandler
  <2> QED BY <2>2, <2>3
<1> QED BY <1>1, <1>2, <1>3 DEF Next

\* What Take leaves in the priority queue is what is not due.
LEMMA TakesDue ==
  ASSUME ThreadsInv, TimerInv, NoClockWrap, NEW t \in Threads, Take(t), NEW m \in ToSet(queue[t].dmsgq)
  PROVE  Contains(queue'[t].dmsgq, m) <=> msg[m].due > wait[t].cur
<1> DEFINE s == queue[t].dmsgq
           cur == wait[t].cur
           n == DueCount(s, cur)
           rest == SubSeq(s, n + 1, Len(s))
<1>1. queue'[t].dmsgq = rest
  <2>1. queue[t] \in QueueRecord /\ DOMAIN queue = Threads
    BY StateTypes DEF ThreadsInv
  <2>2. PICK l : \/ queue' = [queue EXCEPT ![t].dmsgq = rest]
                 \/ queue' = [queue EXCEPT ![t].dmsgq = rest, ![t].msgq = l]
    BY DEF Take
  <2> HIDE DEF rest
  <2> QED BY <2>1, <2>2 DEF QueueRecord
<1>2. s \in Seq(Nat) /\ Len(s) \in Nat /\ Held(s) \subseteq Ids /\ Distinct(s)
  BY StateTypes DEF QueueOK, QueueRecord, Ids
<1>3. cur \in Nat /\ Start \in Nat /\ TimeSpace \in Nat /\ Start <= cur /\ Exact(cur)
  <2>1. cur \in Start..now
    BY DEF ThreadsInv, ClockOK
  <2>2. TimeSpace \div 2 \in Nat
    BY ThreadsAssumption
  <2> HIDE DEF cur
  <2> QED BY <2>1, <2>2, ClockBound DEF Exact
<1>4. \A i \in 1..Len(s) : msg[s[i]].due \in Nat /\ Start <= msg[s[i]].due /\ Exact(msg[s[i]].due)
  <2>1. \A x \in Ids : msg[x].due \in Nat /\ Start <= msg[x].due /\ Exact(msg[x].due)
    BY StateTypes, ThreadsAssumption DEF TimerInv, Message
  <2> QED BY <1>2, <2>1 DEF Held
<1>5. InOrder(msg, s)
  BY DEF TimerInv
<1>6. m \in Held(s)
  BY <1>2 DEF ToSet, Held
<1> HIDE DEF s, cur
<1>7. /\ n \in 0..Len(s) /\ \A i \in 1..n : ~TimeIsLater(cur % TimeSpace, Trigger(s[i]))
      /\ n < Len(s) => TimeIsLater(cur % TimeSpace, Trigger(s[n + 1]))
  BY <1>2, DueCountFacts
<1> HIDE DEF n
<1>8. \A i \in 1..Len(s) : TimeIsLater(cur % TimeSpace, Trigger(s[i])) <=> msg[s[i]].due > cur
  <2> SUFFICES ASSUME NEW i \in 1..Len(s)
               PROVE  TimeIsLater(cur % TimeSpace, Trigger(s[i])) <=> msg[s[i]].due > cur
    OBVIOUS
  <2>1. PICK b \in Nat : b = msg[s[i]].due /\ Start <= b /\ Exact(b)
    BY <1>4
  <2>2. /\ cur < TimeSpace /\ b < TimeSpace /\ cur - b <= TimeSpace \div 2
        /\ b - cur < TimeSpace \div 2
    BY <1>3, <2>1, ExactPair
  <2>3. TimeIsLater(cur % TimeSpace, b % TimeSpace) <=> b > cur
    BY <1>3, <2>2, ExactTimes
  <2> QED BY <2>1, <2>3 DEF Trigger
<1>9. \A i \in 1..n : ~(msg[s[i]].due > cur)
  BY <1>2, <1>7, <1>8
<1>10. \A i \in (n + 1)..Len(s) : msg[s[i]].due > cur
  <2> SUFFICES ASSUME NEW i \in (n + 1)..Len(s) PROVE msg[s[i]].due > cur
    OBVIOUS
  <2>1. n < Len(s) /\ n + 1 \in 1..Len(s) /\ i \in 1..Len(s) /\ (n + 1 < i \/ n + 1 = i)
    BY <1>2, <1>7
  <2>2. msg[s[n + 1]].due > cur
    BY <1>7, <1>8, <2>1
  <2>3. n + 1 < i => msg[s[n + 1]].due <= msg[s[i]].due
    BY <1>5, <2>1 DEF InOrder
  <2> QED BY <1>3, <1>4, <2>1, <2>2, <2>3
<1> DEFINE a == SubSeq(s, 1, n)
<1>11. \A x \in Held(a) : ~(msg[x].due > cur)
  <2>1. Len(a) = n /\ \A i \in 1..n : a[i] = s[i]
    BY <1>2, <1>7
  <2> HIDE DEF a
  <2> QED BY <1>9, <2>1 DEF Held
<1>12. \A x \in Held(rest) : msg[x].due > cur
  <2>1. Len(rest) = Len(s) - n
    BY <1>2, <1>7
  <2>2. \A i \in 1..(Len(s) - n) : rest[i] = s[n + i]
    BY <1>2, <1>7
  <2>3. \A i \in 1..(Len(s) - n) : n + i \in (n + 1)..Len(s)
    BY <1>2, <1>7
  <2> HIDE DEF rest
  <2> QED BY <1>10, <2>1, <2>2, <2>3 DEF Held
<1>13. Held(s) = Held(a) \cup Held(rest)
  BY <1>2, <1>7, SplitQueue
<1>14. m \in Held(rest) <=> msg[m].due > cur
  BY <1>6, <1>11, <1>12, <1>13
<1>15. Contains(rest, m) <=> m \in Held(rest)
  BY DEF Contains, Held
<1> QED BY <1>1, <1>14, <1>15 DEF cur

\* Get takes exactly the delayed messages that are due at the time it has read, so that one that
\* is not due never holds back one that is (messagequeue.cc 193-200), in every run that fits into
\* half of the range of the 32-bit clock and ends before the clock wraps.
THEOREM AlwaysTimersInOrder == NoClockWrap => (Spec => TimersInOrder)
<1> SUFFICES ASSUME NoClockWrap PROVE Spec => TimersInOrder
  OBVIOUS
<1>1. Init => TimerInv
  <2> SUFFICES ASSUME Init PROVE TimerInv
    OBVIOUS
  <2>1. Ids = {}
    BY DEF Init, Ids
  <2>2. \A t \in Threads : queue[t].dmsgq = <<>>
    BY DEF Init
  <2> QED BY <2>1, <2>2 DEF TimerInv, InOrder
<1>2. ThreadsInv /\ TimerInv /\ [Next]_vars => TimerInv'
  BY NextTimely, TimersKept
<1>3. ThreadsInv /\ TimerInv /\ [Next]_vars =>
        [\A t \in Threads :
           Top(t).at = "take" /\ stack'[t] # stack[t] =>
             \A m \in ToSet(queue[t].dmsgq) :
               Contains(queue'[t].dmsgq, m) <=> msg[m].due > wait[t].cur]_vars
  BY OnlyTake, TakesDue
<1> QED BY <1>1, <1>2, <1>3, ThreadsInvariant, PTL DEF Spec, TimersInOrder
=============================================================================
