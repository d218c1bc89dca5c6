---------------------------- MODULE SyncerProofs ----------------------------
(***************************************************************************)
(* Theorems about Syncer, for every set of files and of scenarios, every   *)
(* file length and every capacity of a tunnel.                             *)
(***************************************************************************)
EXTENDS Syncer, QueueTheorems, FiniteSetTheorems, FunctionTheorems

-----------------------------------------------------------------------------
(* The inductive invariants.                                               *)

Closes(s) == {i \in 1..Len(s) : s[i].mask = "IN_CLOSE_WRITE"}
Writing == {f \in Files : writer[f] # "closed"}

\* Every tunnel has been paid for with a write of its own: the files being
\* written, the events under way and the tunnels opened are never more than
\* the writes.
Counted ==
  /\ IsFiniteSet(Writing)
  /\ opened + Cardinality(Closes(batch)) + Cardinality(Closes(kq)) + Cardinality(Writing) <= writes
  /\ writes <= env.writes

\* The close of a written file is reported with its name.
Named ==
  \A e \in Held(kq) \cup Held(batch) : e.mask = "IN_CLOSE_WRITE" => e.name \in Files

\* Tunnels are opened in their order: nothing is known of a later one.
Fresh ==
  /\ \A t \in Tunnels : t > opened =>
       /\ cst[t] = "none" /\ sst[t] = "none" /\ ~hooked[t] /\ wire[t] = <<>>
       /\ t \notin delayed /\ sfile # t
  /\ \A t \in Tunnels : t <= opened => name[t] \in Files /\ cst[t] # "none"
  /\ \A m \in Held(cq) \cup Held(toServer) \cup Held(toClient) : m.t <= opened
  /\ \A t \in Held(sq) : t <= opened
  /\ cur <= opened /\ sendT <= opened /\ (cpc = "send" => sendT \in Tunnels)

BasicInv == TypeOK /\ Counted /\ Named /\ Fresh

\* The stream of t may still call OnStreamEvent in a way that uses file_.
Engaged(t) ==
  /\ hooked[t]
  /\ \/ cst[t] \in {"accepted", "connected", "failed"}
     \/ cst[t] = "opening" /\ xmpp
     \/ Msg("write", t) \in Held(cq)
     \/ Msg("close", t) \in Held(cq)

\* A tunnel whose write is announced, or in progress, is connected or about to learn
\* that it is closed.
Alive(t) == cst[t] = "connected" \/ Msg("close", t) \in Held(cq)

EngagedOK ==
  /\ \A t, u \in Tunnels : Engaged(t) /\ Engaged(u) => t = u
  /\ \A t \in Tunnels : Engaged(t) => cfile # NULL
  /\ \A t \in Tunnels : hooked[t] /\ Msg("write", t) \in Held(cq) => Alive(t)
  /\ cpc = "send" => hooked[sendT] /\ Alive(sendT)

\* While the client is logged in, what happens happens for the tunnel of this Loop.
LoopOK ==
  xmpp =>
    /\ \A t \in Tunnels : Engaged(t) => t = cur /\ cpc # "main"
    /\ \A t \in Tunnels : Msg("done", t) \in Held(cq) \/ t \in delayed =>
         t = cur /\ cpc # "main" /\ cfile = NULL
    /\ \A t \in Tunnels : Once(cq, Msg("done", t))
    /\ \A t \in delayed : Msg("done", t) \notin Held(cq)
    /\ Msg("login_failed", 0) \notin Held(cq)

\* Only the failed login is a message without a tunnel.
KindsOK == \A m \in Held(cq) : m.k = "login_failed" <=> m.t = 0

\* A file that is reported as written is there while nobody deletes files.
ExistsOK ==
  "delete" \notin env.hazards =>
    /\ \A e \in Held(kq) \cup Held(batch) : e.mask = "IN_CLOSE_WRITE" => disk[e.name].exists
    /\ \A f \in Files : writer[f] # "closed" => disk[f].exists
    /\ xmpp /\ cpc = "main" => cfile = NULL

\* The server has one tunnel at a time, and an initiate is answered once.
ServerOK ==
  /\ \A t \in Tunnels : sst[t] = "accepted" <=> sfile = t
  /\ sq = <<>> \/ (sfile # 0 /\ sq = <<sfile>>)
  /\ \A t \in Tunnels :
       /\ Msg("initiate", t) \in Held(cq) \cup Held(toServer) => sst[t] = "none"
       /\ Once(cq, Msg("initiate", t)) /\ Once(toServer, Msg("initiate", t))
       /\ Msg("initiate", t) \in Held(cq) => Msg("initiate", t) \notin Held(toServer)
       /\ Msg("accept", t) \in Held(toClient) => sst[t] # "none"
       /\ sst[t] = "none" => wire[t] = <<>> /\ cst[t] \in {"none", "opening", "over"}

Rising(s) == \A i, j \in 1..Len(s) : i < j => s[i][2] <= s[j][2]
\* The units are of file f, and of no write that is still to come.
UnitsOf(s, f) == \A u \in Held(s) : u[1] = f /\ u[2] <= disk[f].ver
\* No unit of s is of a later write than one of w.
NotAfter(s, w) == \A u \in Held(s), v \in Held(w) : u[2] <= v[2]

FileData(f) == Rising(remote[f]) /\ UnitsOf(remote[f], f)
TunnelData(t) ==
  /\ Rising(wire[t]) /\ UnitsOf(wire[t], name[t])
  /\ sst[t] = "accepted" => NotAfter(remote[name[t]], wire[t])
  /\ Engaged(t) =>
       /\ cfile.name = name[t]
       /\ UnitsOf(cbuf, name[t])
       /\ NotAfter(wire[t], cbuf)
       /\ sst[t] = "accepted" => NotAfter(remote[name[t]], cbuf)

\* While the client is logged in, what is on its way to a file of the server, in order,
\* is of that file and of ever later writes.
DataOK ==
  /\ \A f \in Files : disk[f].ver <= writes
  /\ xmpp => (\A f \in Files : FileData(f)) /\ (\A t \in Tunnels : TunnelData(t))

-----------------------------------------------------------------------------
(* Facts about the constants, the events and the messages.                 *)

\* The sizes are positive, and NULL is no open file.
LEMMA Sizes ==
  /\ FileUnits \in Nat \ {0} /\ WireCap \in Nat \ {0}
  /\ NULL \notin [name : Files, pos : 0..FileUnits, open : BOOLEAN]
BY ConstantsAssumption

\* MaxWrites is the bound of every scenario.
LEMMA MaxWritesBound ==
  MaxWrites \in Nat \ {0} /\ \A s \in Scenarios : s.writes <= MaxWrites
<1> DEFINE W == {s.writes : s \in Scenarios}
<1>1. PICK most \in Scenarios : \A s \in Scenarios : s.writes <= most.writes
  BY ConstantsAssumption
<1>2. W \subseteq Nat \ {0} /\ \A y \in W : most.writes >= y
  BY <1>1, ConstantsAssumption
<1>3. most.writes \in W
  OBVIOUS
<1>4. MaxWrites = CHOOSE x \in W : \A y \in W : x >= y
  BY DEF MaxWrites, Max
<1>5. MaxWrites \in W /\ \A y \in W : MaxWrites >= y
  <2> HIDE DEF W
  <2> QED BY <1>2, <1>3, <1>4
<1> QED BY <1>2, <1>5, ConstantsAssumption

\* The closes in a queue of events are finitely many.
LEMMA ClosesFinite ==
  ASSUME NEW s \in Seq(Event)
  PROVE  IsFiniteSet(Closes(s)) /\ Cardinality(Closes(s)) \in Nat
<1>1. IsFiniteSet(1..Len(s))
  BY FS_Interval
<1>2. Closes(s) \in SUBSET (1..Len(s))
  BY DEF Closes
<1> QED BY <1>1, <1>2, FS_Subset, FS_CardinalityType

\* The empty queue.
LEMMA ClosesEmpty == Closes(<<>>) = {} /\ Cardinality(Closes(<<>>)) = 0
<1>1. Closes(<<>>) = {}
  BY DEF Closes
<1> QED BY <1>1, FS_EmptySet

\* The first event is taken.
LEMMA ClosesTail ==
  ASSUME NEW s \in Seq(Event), s # <<>>
  PROVE  Cardinality(Closes(Tail(s))) <=
           Cardinality(Closes(s)) - (IF Head(s).mask = "IN_CLOSE_WRITE" THEN 1 ELSE 0)
<1> DEFINE S == Closes(s) \ {1}
           T == Closes(Tail(s))
           h == [i \in S |-> i - 1]
<1>1. Len(s) \in Nat \ {0} /\ Len(Tail(s)) = Len(s) - 1
      /\ \A i \in 1..(Len(s) - 1) : Tail(s)[i] = s[i + 1]
  OBVIOUS
<1>2. h \in [S -> T]
  BY <1>1 DEF Closes
<1>3. ASSUME NEW i \in T PROVE \E j \in S : h[j] = i
  <2>1. i + 1 \in S /\ h[i + 1] = i
    BY <1>1, <1>3 DEF Closes
  <2> QED BY <2>1
<1>4. h \in Surjection(S, T)
  <2> HIDE DEF h, S, T
  <2> QED BY <1>2, <1>3 DEF Surjection
<1>5. IsFiniteSet(Closes(s)) /\ Cardinality(Closes(s)) \in Nat
  BY ClosesFinite
<1>6. /\ IsFiniteSet(S)
      /\ Cardinality(S) = IF 1 \in Closes(s) THEN Cardinality(Closes(s)) - 1
                          ELSE Cardinality(Closes(s))
  BY <1>5, FS_RemoveElement
<1>7. Cardinality(T) <= Cardinality(S)
  <2> HIDE DEF h, S, T
  <2> QED BY <1>4, <1>6, FS_Surjection
<1>8. 1 \in Closes(s) <=> Head(s).mask = "IN_CLOSE_WRITE"
  BY <1>1 DEF Closes
<1>9. Cardinality(T) \in Nat
  <2>1. Tail(s) \in Seq(Event)
    OBVIOUS
  <2> QED BY <2>1, ClosesFinite
<1> HIDE DEF S, T
<1> QED BY <1>5, <1>6, <1>7, <1>8, <1>9 DEF T

\* An event is queued.
LEMMA ClosesNotify ==
  ASSUME NEW s \in Seq(Event), NEW e \in Event
  PROVE  /\ Notify(s, e.mask, e.name) \in Seq(Event)
         /\ Held(Notify(s, e.mask, e.name)) = Held(s) \cup {e}
         /\ Cardinality(Closes(Notify(s, e.mask, e.name))) <=
              Cardinality(Closes(s)) + (IF e.mask = "IN_CLOSE_WRITE" THEN 1 ELSE 0)
<1>0. [mask |-> e.mask, name |-> e.name] = e
  BY DEF Event
<1>a. Cardinality(Closes(s)) \in Nat /\ IsFiniteSet(Closes(s))
  BY ClosesFinite
<1>1. CASE s # <<>> /\ Last(s) = e
  <2>1. Notify(s, e.mask, e.name) = s
    BY <1>0, <1>1 DEF Notify
  <2>2. e \in Held(s)
    BY <1>1 DEF Held, Last
  <2> QED BY <1>a, <2>1, <2>2
<1>2. CASE ~(s # <<>> /\ Last(s) = e)
  <2> DEFINE a == Append(s, e)
  <2>1. Notify(s, e.mask, e.name) = a
    BY <1>0, <1>2 DEF Notify
  <2>2. a \in Seq(Event) /\ Held(a) = Held(s) \cup {e}
    BY AppendQueue
  <2>3. Len(a) = Len(s) + 1 /\ a[Len(s) + 1] = e /\ \A i \in 1..Len(s) : a[i] = s[i]
    OBVIOUS
  <2>4. Closes(a) = IF e.mask = "IN_CLOSE_WRITE" THEN Closes(s) \cup {Len(s) + 1} ELSE Closes(s)
    <3> HIDE DEF a
    <3> QED BY <2>3 DEF Closes
  <2>5. Cardinality(Closes(a)) <=
          Cardinality(Closes(s)) + (IF e.mask = "IN_CLOSE_WRITE" THEN 1 ELSE 0)
    <3>1. Len(s) + 1 \notin Closes(s)
      BY DEF Closes
    <3>2. Cardinality(Closes(s) \cup {Len(s) + 1}) = Cardinality(Closes(s)) + 1
      BY <1>a, <3>1, FS_AddElement
    <3> QED BY <1>a, <2>4, <3>2
  <2> QED BY <2>1, <2>2, <2>5
<1> QED BY <1>1, <1>2

\* The messages and stanzas that the actions make.
LEMMA MsgTypes ==
  /\ \A t \in Tunnels : \A k \in {"initiate", "terminate", "write", "close", "done"} :
       Msg(k, t) \in Message
  /\ Msg("login_failed", 0) \in Message
  /\ \A t \in Tunnels : \A k \in {"initiate", "accept", "reject", "terminate"} :
       Msg(k, t) \in Stanza
  /\ \A k, l, t, u : Msg(k, t) = Msg(l, u) <=> k = l /\ t = u
  /\ \A k, t : Msg(k, t).k = k /\ Msg(k, t).t = t
  /\ \A m \in Message : m = Msg(m.k, m.t)
  /\ \A m \in Stanza : m = Msg(m.k, m.t)
BY DEF Msg, Message, Stanza

\* The queue that Cleanup leaves.
LEMMA CleanupQueue ==
  ASSUME NEW t \in Tunnels, NEW delay \in BOOLEAN, NEW q0 \in Seq(Message), NEW drained \in BOOLEAN
  PROVE  LET s == ClearEvents(q0, t) \o DoneNow(t, delay)
                    \o (IF drained THEN <<Msg("terminate", t)>> ELSE <<>>)
         IN /\ s \in Seq(Message)
            /\ Held(s) = (Held(q0) \ {Msg("write", t), Msg("close", t)})
                           \cup (IF delay THEN {} ELSE {Msg("done", t)})
                           \cup (IF drained THEN {Msg("terminate", t)} ELSE {})
            /\ \A m \in Message :
                 Once(q0, m) /\ m # Msg("terminate", t) /\ ~(m = Msg("done", t) /\ m \in Held(q0))
                   => Once(s, m)
<1> DEFINE a == ClearEvents(q0, t)
           b == DoneNow(t, delay)
           c == IF drained THEN <<Msg("terminate", t)>> ELSE <<>>
<1>1. /\ a \in Seq(Message) /\ Held(a) = Held(q0) \ {Msg("write", t), Msg("close", t)}
      /\ \A x : Once(q0, x) => Once(a, x)
  BY WithoutQueue DEF ClearEvents
<1>2. /\ b \in Seq(Message) /\ Held(b) = (IF delay THEN {} ELSE {Msg("done", t)})
      /\ \A x : Once(b, x)
  <2>1. Msg("done", t) \in Message
    BY MsgTypes
  <2>2. <<Msg("done", t)>> \in Seq(Message) /\ <<>> \in Seq(Message)
    BY <2>1
  <2>3. CASE delay
    BY <2>2, <2>3, ShortQueues DEF DoneNow
  <2>4. CASE ~delay
    BY <2>2, <2>4, ShortQueues DEF DoneNow
  <2> QED BY <2>3, <2>4
<1>3. /\ c \in Seq(Message) /\ Held(c) = (IF drained THEN {Msg("terminate", t)} ELSE {})
      /\ \A x : Once(c, x)
  <2>1. Msg("terminate", t) \in Message
    BY MsgTypes
  <2>2. <<Msg("terminate", t)>> \in Seq(Message) /\ <<>> \in Seq(Message)
    BY <2>1
  <2>3. CASE drained
    BY <2>2, <2>3, ShortQueues
  <2>4. CASE ~drained
    BY <2>2, <2>4, ShortQueues
  <2> QED BY <2>3, <2>4
<1> HIDE DEF a, b, c
<1>4. /\ a \o b \o c \in Seq(Message)
      /\ Held(a \o b \o c) = Held(a) \cup Held(b) \cup Held(c)
      /\ \A x : /\ Once(a, x) /\ Once(b, x) /\ Once(c, x)
                /\ x \in Held(a) => x \notin Held(b) /\ x \notin Held(c)
                /\ x \in Held(b) => x \notin Held(c)
                => Once(a \o b \o c, x)
  BY <1>1, <1>2, <1>3, ThreeQueues
<1>5. ASSUME NEW m \in Message, Once(q0, m), m # Msg("terminate", t),
             ~(m = Msg("done", t) /\ m \in Held(q0))
      PROVE  Once(a \o b \o c, m)
  BY <1>1, <1>2, <1>3, <1>4, <1>5, MsgTypes
<1>6. Held(a \o b \o c) = (Held(q0) \ {Msg("write", t), Msg("close", t)})
                           \cup (IF delay THEN {} ELSE {Msg("done", t)})
                           \cup (IF drained THEN {Msg("terminate", t)} ELSE {})
  BY <1>1, <1>2, <1>3, <1>4
<1> QED BY <1>4, <1>5, <1>6 DEF a, b, c

-----------------------------------------------------------------------------
(* BasicInv is preserved: types, and the numbers of writes and of tunnels. *)

USE DEF dirVars, mainVars, pumpVars, tunVars, netVars, srvVars, Set

\* The counters are numbers.
LEMMA Counters ==
  ASSUME TypeOK
  PROVE  /\ writes \in Nat /\ opened \in Nat /\ env.writes \in Nat /\ MaxWrites \in Nat
         /\ env.writes <= MaxWrites
BY MaxWritesBound, ConstantsAssumption DEF TypeOK

\* The event queue takes an event that is no close of a written file.
LEMMA OtherEvent ==
  ASSUME NEW s \in Seq(Event), NEW m \in {"IN_CLOSE_NOWRITE", "OTHER"}, NEW n \in Files \cup {NULL}
  PROVE  /\ Notify(s, m, n) \in Seq(Event)
         /\ Held(Notify(s, m, n)) = Held(s) \cup {[mask |-> m, name |-> n]}
         /\ Cardinality(Closes(Notify(s, m, n))) \in Nat
         /\ Cardinality(Closes(Notify(s, m, n))) <= Cardinality(Closes(s))
<1> DEFINE e == [mask |-> m, name |-> n]
<1>1. e \in Event /\ e.mask = m /\ e.name = n /\ m # "IN_CLOSE_WRITE"
  BY DEF Event
<1> HIDE DEF e
<1>2. /\ Notify(s, e.mask, e.name) \in Seq(Event)
      /\ Held(Notify(s, e.mask, e.name)) = Held(s) \cup {e}
      /\ Cardinality(Closes(Notify(s, e.mask, e.name))) <=
              Cardinality(Closes(s)) + (IF e.mask = "IN_CLOSE_WRITE" THEN 1 ELSE 0)
  BY <1>1, ClosesNotify
<1>3. Cardinality(Closes(s)) \in Nat /\ Cardinality(Closes(Notify(s, e.mask, e.name))) \in Nat
  BY <1>2, ClosesFinite
<1> QED BY <1>1, <1>2, <1>3 DEF e

\* So does file_.reset().
LEMMA ResetEvent ==
  ASSUME TypeOK
  PROVE  /\ AfterReset(kq) \in Seq(Event)
         /\ Held(kq) \subseteq Held(AfterReset(kq))
         /\ \A e \in Held(AfterReset(kq)) : e.mask = "IN_CLOSE_WRITE" => e \in Held(kq)
         /\ Cardinality(Closes(AfterReset(kq))) \in Nat
         /\ Cardinality(Closes(AfterReset(kq))) <= Cardinality(Closes(kq))
<1>1. kq \in Seq(Event) /\ (cfile # NULL => cfile.name \in Files)
  BY DEF TypeOK
<1>2. CASE cfile # NULL /\ cfile.open
  <2>1. AfterReset(kq) = Notify(kq, "IN_CLOSE_NOWRITE", cfile.name)
    BY <1>2 DEF AfterReset
  <2> DEFINE r == [mask |-> "IN_CLOSE_NOWRITE", name |-> cfile.name]
  <2>2. r.mask # "IN_CLOSE_WRITE"
    OBVIOUS
  <2>3. /\ AfterReset(kq) \in Seq(Event)
        /\ Held(AfterReset(kq)) = Held(kq) \cup {r}
        /\ Cardinality(Closes(AfterReset(kq))) \in Nat
        /\ Cardinality(Closes(AfterReset(kq))) <= Cardinality(Closes(kq))
    BY <1>1, <1>2, <2>1, OtherEvent
  <2> HIDE DEF r
  <2> QED BY <2>2, <2>3
<1>3. CASE ~(cfile # NULL /\ cfile.open)
  <2>1. AfterReset(kq) = kq
    BY <1>3 DEF AfterReset
  <2> QED BY <1>1, <2>1, ClosesFinite
<1> QED BY <1>2, <1>3

\* A file that nobody writes is opened for writing.
LEMMA BasicWriterOpens ==
  ASSUME BasicInv, NEW f \in Files, WriterOpens(f)
  PROVE  BasicInv'
<1>0. TypeOK /\ Counted /\ Named /\ Fresh
  BY DEF BasicInv
<1>1. /\ kq' \in Seq(Event) /\ Held(kq') = Held(kq) \cup {[mask |-> "OTHER", name |-> NULL]}
      /\ Cardinality(Closes(kq')) \in Nat
      /\ Cardinality(Closes(kq')) <= Cardinality(Closes(kq))
  BY <1>0, OtherEvent DEF WriterOpens, TypeOK
<1>2. Writing' = Writing \cup {f} /\ f \notin Writing
  BY <1>0 DEF WriterOpens, Writing, TypeOK
<1>3. IsFiniteSet(Writing') /\ Cardinality(Writing') = Cardinality(Writing) + 1
      /\ Cardinality(Writing) \in Nat
  BY <1>0, <1>2, FS_AddElement, FS_CardinalityType DEF Counted
<1>4. Cardinality(Closes(kq)) \in Nat /\ Cardinality(Closes(batch)) \in Nat
  BY <1>0, ClosesFinite DEF TypeOK
<1>5. writes' = writes + 1 /\ writes' \in 0..MaxWrites /\ writes' <= env'.writes
  BY <1>0, Counters DEF WriterOpens
<1>6. TypeOK'
  BY <1>0, <1>1, <1>5 DEF TypeOK, WriterOpens
<1>7. Counted'
  <2>1. UNCHANGED <<batch, opened, env>>
    BY DEF WriterOpens
  <2> QED BY <1>0, <1>1, <1>3, <1>4, <1>5, <2>1, Counters DEF Counted
<1>8. Named'
  BY <1>0, <1>1 DEF Named, WriterOpens
<1>9. Fresh'
  BY <1>0 DEF Fresh, WriterOpens
<1> QED BY <1>6, <1>7, <1>8, <1>9 DEF BasicInv

\* A writer writes.
LEMMA BasicWriterWrites ==
  ASSUME BasicInv, NEW f \in Files, WriterWrites(f)
  PROVE  BasicInv'
<1>0. TypeOK /\ Counted /\ Named /\ Fresh
  BY DEF BasicInv
<1>1. /\ kq' \in Seq(Event) /\ Held(kq') = Held(kq) \cup {[mask |-> "OTHER", name |-> NULL]}
      /\ Cardinality(Closes(kq')) \in Nat
      /\ Cardinality(Closes(kq')) <= Cardinality(Closes(kq))
  BY <1>0, OtherEvent DEF WriterWrites, TypeOK
<1>2. Writing' = Writing
  BY <1>0 DEF WriterWrites, Writing, TypeOK
<1>3. Cardinality(Closes(kq)) \in Nat /\ Cardinality(Closes(batch)) \in Nat
      /\ Cardinality(Writing) \in Nat
  BY <1>0, ClosesFinite, FS_CardinalityType DEF TypeOK, Counted
<1>4. TypeOK'
  BY ZenonT(60), <1>0, <1>1, Sizes DEF TypeOK, WriterWrites
<1>5. Counted'
  <2>1. UNCHANGED <<batch, opened, env, writes>>
    BY DEF WriterWrites
  <2> QED BY <1>0, <1>1, <1>2, <1>3, <2>1, Counters DEF Counted
<1>6. Named' /\ Fresh'
  BY <1>0, <1>1 DEF Named, Fresh, WriterWrites
<1> QED BY <1>4, <1>5, <1>6 DEF BasicInv

\* A writer closes its file: the write becomes an event.
LEMMA BasicWriterCloses ==
  ASSUME BasicInv, NEW f \in Files, WriterCloses(f)
  PROVE  BasicInv'
<1>0. TypeOK /\ Counted /\ Named /\ Fresh
  BY DEF BasicInv
<1> DEFINE e == [mask |-> "IN_CLOSE_WRITE", name |-> f]
<1>1. e \in Event /\ e.mask = "IN_CLOSE_WRITE" /\ e.name = f
  BY DEF Event
<1>2. /\ kq' \in Seq(Event) /\ Held(kq') = Held(kq) \cup {e}
      /\ Cardinality(Closes(kq')) <= Cardinality(Closes(kq)) + 1
  <2>1. kq \in Seq(Event) /\ kq' = Notify(kq, e.mask, e.name)
    BY <1>0 DEF WriterCloses, TypeOK
  <2> HIDE DEF e
  <2> QED BY <1>1, <2>1, ClosesNotify
<1>3. Writing' = Writing \ {f} /\ f \in Writing
  BY <1>0 DEF WriterCloses, Writing, TypeOK
<1>4. IsFiniteSet(Writing') /\ Cardinality(Writing') = Cardinality(Writing) - 1
      /\ Cardinality(Writing) \in Nat
  BY <1>0, <1>3, FS_RemoveElement, FS_CardinalityType DEF Counted
<1>5. Cardinality(Closes(kq)) \in Nat /\ Cardinality(Closes(batch)) \in Nat
      /\ Cardinality(Closes(kq')) \in Nat
  BY <1>0, <1>2, ClosesFinite DEF TypeOK
<1>6. TypeOK'
  BY <1>0, <1>2 DEF TypeOK, WriterCloses
<1>7. Counted'
  <2>1. UNCHANGED <<batch, opened, env, writes>>
    BY DEF WriterCloses
  <2> QED BY <1>0, <1>2, <1>4, <1>5, <2>1, Counters DEF Counted
<1>8. Named' /\ Fresh'
  BY <1>0, <1>2 DEF Named, Fresh, WriterCloses
<1> QED BY <1>6, <1>7, <1>8 DEF BasicInv

\* A file disappears.
LEMMA BasicDeletes ==
  ASSUME BasicInv, NEW f \in Files, Deletes(f)
  PROVE  BasicInv'
<1>0. TypeOK /\ Counted /\ Named /\ Fresh
  BY DEF BasicInv
<1>1. /\ kq' \in Seq(Event) /\ Held(kq') = Held(kq) \cup {[mask |-> "OTHER", name |-> NULL]}
      /\ Cardinality(Closes(kq')) \in Nat
      /\ Cardinality(Closes(kq')) <= Cardinality(Closes(kq))
  BY <1>0, OtherEvent DEF Deletes, TypeOK
<1>2. Writing' = Writing
  BY <1>0 DEF Deletes, Writing, TypeOK
<1>3. Cardinality(Closes(kq)) \in Nat /\ Cardinality(Closes(batch)) \in Nat
      /\ Cardinality(Writing) \in Nat
  BY <1>0, ClosesFinite, FS_CardinalityType DEF TypeOK, Counted
<1>4. TypeOK'
  BY ZenonT(60), <1>0, <1>1, Sizes DEF TypeOK, Deletes
<1>5. Counted'
  <2>1. UNCHANGED <<batch, opened, env, writes>>
    BY DEF Deletes
  <2> QED BY <1>0, <1>1, <1>2, <1>3, <2>1, Counters DEF Counted
<1>6. Named' /\ Fresh'
  BY <1>0, <1>1 DEF Named, Fresh, Deletes
<1> QED BY <1>4, <1>5, <1>6 DEF BasicInv

\* WaitForEvents reads the queue.
LEMMA BasicWaitForEvents ==
  ASSUME BasicInv, WaitForEvents
  PROVE  BasicInv'
<1>0. TypeOK /\ Counted /\ Named /\ Fresh
  BY DEF BasicInv
<1>1. batch' = kq /\ kq' = <<>> /\ Writing' = Writing
  BY DEF WaitForEvents, Writing
<1>2. Cardinality(Closes(kq)) \in Nat /\ Cardinality(Closes(batch)) \in Nat
      /\ Cardinality(Writing) \in Nat
  BY <1>0, ClosesFinite, FS_CardinalityType DEF TypeOK, Counted
<1>3. TypeOK'
  BY <1>0 DEF TypeOK, WaitForEvents
<1>4. Counted'
  <2>1. Cardinality(Closes(kq')) = 0
    BY <1>1, ClosesEmpty
  <2>2. writes' = writes /\ opened' = opened /\ env' = env
    BY DEF WaitForEvents
  <2> QED BY <1>0, <1>1, <1>2, <2>1, <2>2, Counters DEF Counted
<1>5. Named' /\ Fresh'
  BY <1>0, <1>1, ShortQueues DEF Named, Fresh, WaitForEvents
<1> QED BY <1>3, <1>4, <1>5 DEF BasicInv

\* The first event of the batch is taken.
LEMMA BatchTail ==
  ASSUME BasicInv, batch # <<>>
  PROVE  /\ Head(batch) \in Event /\ Head(batch) \in Held(batch)
         /\ Tail(batch) \in Seq(Event) /\ Held(Tail(batch)) \subseteq Held(batch)
         /\ Cardinality(Closes(Tail(batch))) \in Nat
         /\ Cardinality(Closes(batch)) \in Nat
         /\ Cardinality(Closes(kq)) \in Nat /\ Cardinality(Writing) \in Nat
         /\ Cardinality(Closes(Tail(batch))) <=
              Cardinality(Closes(batch)) - (IF Head(batch).mask = "IN_CLOSE_WRITE" THEN 1 ELSE 0)
<1>0. TypeOK /\ Counted
  BY DEF BasicInv
<1>1. batch \in Seq(Event) /\ kq \in Seq(Event)
  BY <1>0 DEF TypeOK
<1>2. /\ Tail(batch) \in Seq(Event) /\ Head(batch) \in Event
      /\ Held(batch) = {Head(batch)} \cup Held(Tail(batch))
  BY <1>1, TailQueue
<1>3. Cardinality(Writing) \in Nat
  BY <1>0, FS_CardinalityType DEF Counted
<1> QED BY <1>1, <1>2, <1>3, ClosesTail, ClosesFinite

\* An event that starts no transfer.
LEMMA BasicSkipEvent ==
  ASSUME BasicInv, SkipEvent
  PROVE  BasicInv'
<1>0. TypeOK /\ Counted /\ Named /\ Fresh /\ batch # <<>> /\ batch' = Tail(batch)
  BY DEF BasicInv, SkipEvent
<1>1. /\ Head(batch) \in Event
      /\ Tail(batch) \in Seq(Event) /\ Held(Tail(batch)) \subseteq Held(batch)
      /\ Cardinality(Closes(Tail(batch))) \in Nat
      /\ Cardinality(Closes(batch)) \in Nat
      /\ Cardinality(Closes(kq)) \in Nat /\ Cardinality(Writing) \in Nat
      /\ Cardinality(Closes(Tail(batch))) <= Cardinality(Closes(batch))
  BY <1>0, BatchTail
<1>2. TypeOK'
  BY <1>0, <1>1 DEF TypeOK, SkipEvent, Event
<1>3. Counted'
  <2>1. UNCHANGED <<writes, opened, kq, env>> /\ Writing' = Writing
    BY DEF SkipEvent, Writing
  <2> QED BY <1>0, <1>1, <2>1, Counters DEF Counted
<1>4. Named' /\ Fresh'
  BY <1>0, <1>1 DEF Named, Fresh, SkipEvent
<1> QED BY <1>2, <1>3, <1>4 DEF BasicInv

\* What a queue holds has the type of its messages.
LEMMA HeldType == ASSUME NEW M, NEW s \in Seq(M) PROVE Held(s) \subseteq M
BY DEF Held

\* CreateTunnel and ProcessStream: an event is spent on a tunnel.
LEMMA BasicSyncFile ==
  ASSUME BasicInv, SyncFile
  PROVE  /\ BasicInv'
         /\ opened + 1 \in Tunnels /\ opened' = opened + 1
         /\ Head(batch).name \in Files /\ Head(batch) \in Held(batch)
<1> DEFINE e == Head(batch)
           f == e.name
           t == opened + 1
<1>0. TypeOK /\ Counted /\ Named /\ Fresh /\ batch # <<>> /\ batch' = Tail(batch)
      /\ e.mask = "IN_CLOSE_WRITE" /\ opened' = t
  BY DEF BasicInv, SyncFile, Wanted
<1>1. /\ e \in Event /\ e \in Held(batch)
      /\ Tail(batch) \in Seq(Event) /\ Held(Tail(batch)) \subseteq Held(batch)
      /\ Cardinality(Closes(Tail(batch))) \in Nat
      /\ Cardinality(Closes(batch)) \in Nat
      /\ Cardinality(Closes(kq)) \in Nat /\ Cardinality(Writing) \in Nat
      /\ Cardinality(Closes(Tail(batch))) <= Cardinality(Closes(batch)) - 1
  BY <1>0, BatchTail
<1>2. f \in Files
  BY <1>0, <1>1 DEF Named
<1>3. t \in Tunnels
  <2>1. /\ opened + Cardinality(Closes(batch)) + Cardinality(Closes(kq)) + Cardinality(Writing) <= writes
        /\ writes <= env.writes
    BY <1>0 DEF Counted
  <2>2. /\ writes \in Nat /\ opened \in Nat /\ env.writes \in Nat /\ MaxWrites \in Nat
        /\ env.writes <= MaxWrites
    BY <1>0, Counters
  <2>3. t <= MaxWrites /\ t >= 1
    BY <1>1, <2>1, <2>2
  <2> QED BY <2>2, <2>3 DEF Tunnels
<1>4. /\ kq' \in Seq(Event)
      /\ \A x \in Held(kq') : x.mask = "IN_CLOSE_WRITE" => x \in Held(kq)
      /\ Cardinality(Closes(kq')) \in Nat
      /\ Cardinality(Closes(kq')) <= Cardinality(Closes(kq))
  <2>1. /\ AfterReset(kq) \in Seq(Event)
        /\ \A x \in Held(AfterReset(kq)) : x.mask = "IN_CLOSE_WRITE" => x \in Held(kq)
        /\ Cardinality(Closes(AfterReset(kq))) \in Nat
        /\ Cardinality(Closes(AfterReset(kq))) <= Cardinality(Closes(kq))
    BY <1>0, ResetEvent
  <2> DEFINE r == [mask |-> "OTHER", name |-> NULL]
             n == Notify(AfterReset(kq), "OTHER", NULL)
  <2>2. r.mask # "IN_CLOSE_WRITE"
    OBVIOUS
  <2>3. /\ n \in Seq(Event) /\ Held(n) = Held(AfterReset(kq)) \cup {r}
        /\ Cardinality(Closes(n)) \in Nat
        /\ Cardinality(Closes(n)) <= Cardinality(Closes(AfterReset(kq)))
    BY <2>1, OtherEvent
  <2>4. kq' = n \/ kq' = AfterReset(kq)
    BY DEF SyncFile
  <2> HIDE DEF r, n
  <2> QED BY <1>1, <2>1, <2>2, <2>3, <2>4
<1>5. /\ cq' \in Seq(Message) /\ Held(cq') \subseteq Held(cq) \cup {Msg("initiate", t)}
  <2>1. Msg("initiate", t) \in Message /\ cq \in Seq(Message)
    BY <1>0, <1>3, MsgTypes DEF TypeOK
  <2>2. Append(cq, Msg("initiate", t)) \in Seq(Message)
        /\ Held(Append(cq, Msg("initiate", t))) = Held(cq) \cup {Msg("initiate", t)}
    BY <2>1, AppendQueue
  <2> QED BY <2>1, <2>2 DEF SyncFile
<1>6. TypeOK'
  <2>1. /\ cfile' = [name |-> f, pos |-> 0, open |-> disk[f].exists] /\ cbuf' = <<>>
        /\ hooked' = Set(hooked, t, disk[f].exists) /\ cst' = Set(cst, t, "opening")
        /\ name' = Set(name, t, f) /\ prev' = e.mask /\ batch' = Tail(batch)
        /\ cpc' \in {"loop", "main"} /\ cur' \in {t, cur}
        /\ UNCHANGED <<dirVars, sendT, delayed, blocked, wire, netVars, srvVars>>
    BY DEF SyncFile
  <2>2. disk[f].exists \in BOOLEAN /\ 0 \in 0..FileUnits
    BY <1>0, <1>2, Sizes DEF TypeOK
  <2>3. t \in 0..MaxWrites
    BY <1>3, Counters, <1>0 DEF Tunnels
  <2>4. cfile' \in [name : Files, pos : 0..FileUnits, open : BOOLEAN]
    BY <1>2, <2>1, <2>2
  <2>5. hooked' \in [Tunnels -> BOOLEAN] /\ name' \in [Tunnels -> Files \cup {NULL}]
    BY <1>0, <1>2, <2>1, <2>2 DEF TypeOK
  <2>6. prev' \in {"IN_CLOSE_WRITE", "IN_CLOSE_NOWRITE", "OTHER"} /\ opened' \in 0..MaxWrites
        /\ cur' \in 0..MaxWrites /\ cst' \in [Tunnels -> {"none", "opening", "accepted",
                                        "connected", "failed", "closing", "over"}]
    BY <1>0, <1>1, <2>1, <2>3 DEF TypeOK, Event
  <2>7. cbuf' \in Seq(Unit) /\ Len(cbuf') <= 1
    BY <2>1
  <2>8. batch' \in Seq(Event) /\ cpc' \in {"main", "loop", "send"}
    BY <1>1, <2>1
  <2>9. UNCHANGED <<dirVars, sendT, delayed, blocked, wire, netVars, srvVars>>
    BY <2>1
  <2> HIDE DEF e, f, t
  <2> QED BY <1>0, <1>4, <1>5, <2>4, <2>5, <2>6, <2>7, <2>8, <2>9 DEF TypeOK
<1>7. Counted'
  <2>1. UNCHANGED <<writes, env>> /\ Writing' = Writing
    BY DEF SyncFile, Writing
  <2>2. /\ opened + Cardinality(Closes(batch)) + Cardinality(Closes(kq)) + Cardinality(Writing) <= writes
        /\ writes <= env.writes /\ IsFiniteSet(Writing)
    BY <1>0 DEF Counted
  <2>3. writes \in Nat /\ opened \in Nat
    BY <1>0, Counters
  <2>4. opened' = opened + 1 /\ batch' = Tail(batch)
    BY <1>0
  <2>5. opened' + Cardinality(Closes(Tail(batch))) + Cardinality(Closes(kq')) + Cardinality(Writing)
          <= writes
    BY SMTT(30), <1>1, <1>4, <2>2, <2>3, <2>4
  <2> QED BY <2>1, <2>2, <2>4, <2>5 DEF Counted
<1>8. Named'
  BY <1>0, <1>1, <1>4 DEF Named
<1>9. Fresh'
  <2>1. Msg("initiate", t).t = t
    BY MsgTypes
  <2>2. \A m \in Held(cq') : m.t <= opened'
    <3>1. \A m \in Held(cq) : m.t \in Int /\ m.t <= opened
      <4>1. \A m \in Held(cq) : m \in Message
        BY <1>0, HeldType DEF TypeOK
      <4> QED BY <1>0, <4>1, Counters DEF Fresh, Message, Tunnels
    <3> QED BY <1>0, <1>5, <2>1, <3>1, Counters
  <2>3. \A m \in Held(toServer) \cup Held(toClient) : m.t \in Int
    <3>1. \A m \in Held(toServer) \cup Held(toClient) : m \in Stanza
      BY <1>0, HeldType DEF TypeOK
    <3>2. Tunnels \subseteq Int
      BY <1>0, Counters DEF Tunnels
    <3> QED BY <3>1, <3>2 DEF Stanza
  <2>4. /\ cst' = Set(cst, t, "opening") /\ name' = Set(name, t, f)
        /\ hooked' = Set(hooked, t, disk[f].exists) /\ cur' \in {t, cur}
        /\ UNCHANGED <<sst, wire, delayed, sfile, sq, sendT, toServer, toClient>>
    BY DEF SyncFile
  <2>5. Tunnels \subseteq Nat /\ opened \in Nat /\ cur \in Nat /\ sendT \in Nat
    BY <1>0, Counters DEF Tunnels, TypeOK
  <2>6. /\ cst \in [Tunnels -> {"none", "opening", "accepted", "connected", "failed", "closing", "over"}]
        /\ name \in [Tunnels -> Files \cup {NULL}] /\ hooked \in [Tunnels -> BOOLEAN]
    BY <1>0 DEF TypeOK
  <2>7. \A u \in Tunnels : u > opened' =>
          /\ cst'[u] = "none" /\ sst'[u] = "none" /\ ~hooked'[u] /\ wire'[u] = <<>>
          /\ u \notin delayed' /\ sfile' # u
    <3>1. \A u \in Tunnels : u > opened =>
            /\ cst[u] = "none" /\ sst[u] = "none" /\ ~hooked[u] /\ wire[u] = <<>>
            /\ u \notin delayed /\ sfile # u
      BY <1>0 DEF Fresh
    <3>2. opened' = opened + 1
      BY <1>0
    <3> QED BY <2>4, <2>5, <2>6, <3>1, <3>2
  <2>8. \A u \in Tunnels : u <= opened' => name'[u] \in Files /\ cst'[u] # "none"
    <3> SUFFICES ASSUME NEW u \in Tunnels, u <= opened + 1
                 PROVE  name'[u] \in Files /\ cst'[u] # "none"
      BY <1>0
    <3>1. CASE u = t
      BY <1>2, <2>4, <2>6, <3>1
    <3>2. CASE u # t
      <4>1. u <= opened
        BY <2>5, <3>2
      <4>2. name[u] \in Files /\ cst[u] # "none"
        BY <1>0, <4>1 DEF Fresh
      <4> QED BY <2>4, <2>6, <3>2, <4>2
    <3> QED BY <3>1, <3>2
  <2>9. /\ \A m \in Held(toServer') \cup Held(toClient') : m.t <= opened'
        /\ cur' <= opened' /\ sendT' <= opened' /\ cpc' # "send"
    BY <1>0, <2>3, <2>4, <2>5 DEF Fresh, SyncFile
  <2>10. \A u \in Held(sq') : u <= opened'
    <3>1. sq \in Seq(Tunnels)
      BY <1>0 DEF TypeOK
    <3>2. Held(sq) \subseteq Tunnels
      BY <3>1, HeldType
    <3>3. \A u \in Held(sq) : u <= opened
      BY <1>0 DEF Fresh
    <3>4. opened' = opened + 1 /\ sq' = sq
      BY <1>0, <2>4
    <3>5. ASSUME NEW u \in Held(sq) PROVE u <= opened + 1
      <4>1. u \in Nat /\ u <= opened /\ opened \in Nat
        BY <2>5, <3>2, <3>3
      <4> QED BY <4>1
    <3> QED BY <3>4, <3>5
  <2> QED BY <2>2, <2>7, <2>8, <2>9, <2>10 DEF Fresh
<1> QED BY <1>0, <1>1, <1>2, <1>3, <1>6, <1>7, <1>8, <1>9 DEF BasicInv

-----------------------------------------------------------------------------
\* The actions of Loop, of the tunnels and of the server.

\* The events and the counters do not change.
LEMMA Steady ==
  ASSUME Counted, Named, UNCHANGED <<writer, writes, kq, batch, opened, env>>
  PROVE  Counted' /\ Named'
<1>1. Writing' = Writing
  BY DEF Writing
<1> QED BY <1>1 DEF Counted, Named

\* The client closes its file.
LEMMA SteadyReset ==
  ASSUME BasicInv, UNCHANGED <<writer, writes, batch, opened, env>>, kq' = AfterReset(kq)
  PROVE  kq' \in Seq(Event) /\ Counted' /\ Named'
<1>0. TypeOK /\ Counted /\ Named
  BY DEF BasicInv
<1>1. /\ kq' \in Seq(Event)
      /\ \A e \in Held(kq') : e.mask = "IN_CLOSE_WRITE" => e \in Held(kq)
      /\ Cardinality(Closes(kq')) \in Nat
      /\ Cardinality(Closes(kq')) <= Cardinality(Closes(kq))
  BY <1>0, ResetEvent
<1>2. /\ opened + Cardinality(Closes(batch)) + Cardinality(Closes(kq)) + Cardinality(Writing) <= writes
      /\ writes <= env.writes /\ IsFiniteSet(Writing)
  BY <1>0 DEF Counted
<1>3. writes \in Nat /\ opened \in Nat
  BY <1>0, Counters
<1>4. Cardinality(Closes(batch)) \in Nat /\ Cardinality(Closes(kq)) \in Nat
      /\ Cardinality(Writing) \in Nat
  BY <1>0, <1>2, ClosesFinite, FS_CardinalityType DEF TypeOK
<1>5. opened + Cardinality(Closes(batch)) + Cardinality(Closes(kq')) + Cardinality(Writing) <= writes
  BY <1>1, <1>2, <1>3, <1>4
<1>6. Writing' = Writing
  BY DEF Writing
<1>7. Counted'
  BY <1>2, <1>5, <1>6 DEF Counted
<1>8. Named'
  BY <1>0, <1>1 DEF Named
<1> QED BY <1>1, <1>7, <1>8

\* The first message of the queue is dispatched.
LEMMA Dispatched ==
  ASSUME TypeOK, NEW m, Dispatch(m)
  PROVE  /\ cpc = "loop" /\ m \in Message /\ cq \in Seq(Message) /\ Tail(cq) \in Seq(Message)
         /\ Held(cq) = {m} \cup Held(Tail(cq))
         /\ \A x : Once(cq, x) => Once(Tail(cq), x) /\ (x = m => x \notin Held(Tail(cq)))
<1>1. cpc = "loop" /\ cq # <<>> /\ Head(cq) = m /\ cq \in Seq(Message)
  BY DEF Dispatch, TypeOK
<1> QED BY <1>1, TailQueue

\* A message is posted to the client.
LEMMA Posted ==
  ASSUME TypeOK, NEW m \in Message
  PROVE  /\ Append(cq, m) \in Seq(Message)
         /\ Held(Append(cq, m)) = Held(cq) \cup {m}
         /\ \A x : Once(cq, x) /\ ~(x = m /\ m \in Held(cq)) => Once(Append(cq, m), x)
<1>1. cq \in Seq(Message)
  BY DEF TypeOK
<1> QED BY <1>1, AppendQueue

\* A task sends its stanza.
LEMMA BasicSendStanza ==
  ASSUME BasicInv, NEW t \in Tunnels, NEW k \in {"initiate", "terminate"}, SendStanza(t, k)
  PROVE  BasicInv'
<1>0. TypeOK /\ Counted /\ Named /\ Fresh
  BY DEF BasicInv
<1>1. /\ Tail(cq) \in Seq(Message) /\ Held(cq) = {Msg(k, t)} \cup Held(Tail(cq))
  BY <1>0, Dispatched DEF SendStanza
<1>2. /\ toServer' \in Seq(Stanza)
      /\ Held(toServer') \subseteq Held(toServer) \cup {Msg(k, t)}
  <2>1. toServer \in Seq(Stanza) /\ Msg(k, t) \in Stanza
    BY <1>0, MsgTypes DEF TypeOK
  <2> QED BY <2>1, AppendQueue DEF SendStanza
<1>3. cq' = Tail(cq)
  BY DEF SendStanza
<1>4. TypeOK'
  BY <1>0, <1>1, <1>2, <1>3 DEF TypeOK, SendStanza
<1>5. Counted' /\ Named'
  BY <1>0, Steady DEF SendStanza
<1>6. Fresh'
  BY <1>0, <1>1, <1>2, <1>3 DEF Fresh, SendStanza
<1> QED BY <1>4, <1>5, <1>6 DEF BasicInv

\* SE_WRITE.
LEMMA BasicStreamWritable ==
  ASSUME BasicInv, NEW t \in Tunnels, StreamWritable(t)
  PROVE  BasicInv'
<1>0. TypeOK /\ Counted /\ Named /\ Fresh
  BY DEF BasicInv
<1>1. /\ Tail(cq) \in Seq(Message) /\ Held(cq) = {Msg("write", t)} \cup Held(Tail(cq))
  BY <1>0, Dispatched DEF StreamWritable
<1>2. cq' = Tail(cq) /\ Msg("write", t).t = t
  BY MsgTypes DEF StreamWritable
<1>3. t \in 0..MaxWrites /\ t <= opened
  BY <1>0, <1>1, <1>2, Counters DEF Tunnels, Fresh
<1>4. TypeOK'
  BY <1>0, <1>1, <1>2, <1>3 DEF TypeOK, StreamWritable
<1>5. Counted' /\ Named'
  BY <1>0, Steady DEF StreamWritable
<1>6. Fresh'
  BY <1>0, <1>1, <1>2, <1>3 DEF Fresh, StreamWritable
<1> QED BY <1>4, <1>5, <1>6 DEF BasicInv

\* Cleanup changes no type, and makes no message of another tunnel.
LEMMA BasicCleanup ==
  ASSUME BasicInv, NEW t \in Tunnels, t <= opened, NEW delay \in BOOLEAN,
         NEW q0 \in Seq(Message), Held(q0) \subseteq Held(cq), Cleanup(t, delay, q0),
         UNCHANGED <<disk, writer, writes, batch, prev, cur, opened, sendT, name, hooked, netVars,
                     srvVars>>,
         cbuf' \in Seq(Unit), Len(cbuf') <= 1, blocked' \in [Tunnels -> BOOLEAN], wire' = wire
  PROVE  BasicInv'
<1>0. TypeOK /\ Counted /\ Named /\ Fresh
  BY DEF BasicInv
<1> DEFINE c == ClearEvents(q0, t) \o DoneNow(t, delay)
                  \o (IF Drained(t) THEN <<Msg("terminate", t)>> ELSE <<>>)
<1>1. Drained(t) \in BOOLEAN
  BY DEF Drained
<1>2. c \in Seq(Message)
      /\ Held(c) = (Held(q0) \ {Msg("write", t), Msg("close", t)})
                           \cup (IF delay THEN {} ELSE {Msg("done", t)})
                           \cup (IF Drained(t) THEN {Msg("terminate", t)} ELSE {})
  <2> HIDE DEF c
  <2> QED BY <1>1, CleanupQueue DEF c
<1>3. cq' = c
  BY DEF Cleanup
<1> HIDE DEF c
<1>4. \A m \in Held(cq') : m \in Held(cq) \/ m.t = t
  BY <1>2, <1>3, MsgTypes
<1>5. kq' \in Seq(Event) /\ Counted' /\ Named'
  BY SteadyReset DEF Cleanup
<1>6. /\ cst' \in [Tunnels -> {"none", "opening", "accepted", "connected", "failed",
                               "closing", "over"}]
      /\ \A u \in Tunnels : u # t => cst'[u] = cst[u]
      /\ cst'[t] \in {"closing", "over"} /\ cst'[t] # "none"
  BY <1>0 DEF Cleanup, TypeOK
<1>7. delayed' \subseteq delayed \cup {t} /\ cfile' = NULL /\ cpc' = "loop"
  BY DEF Cleanup, ResetFile, ReturnToLoop
<1>8. TypeOK'
  BY <1>0, <1>2, <1>3, <1>5, <1>6, <1>7 DEF TypeOK
<1>9. Fresh'
  <2>1. \A u \in Tunnels : u \in Int /\ opened \in Int
    BY <1>0, Counters DEF Tunnels
  <2>2. \A m \in Held(cq') : m.t <= opened
    BY <1>0, <1>4 DEF Fresh
  <2>3. \A u \in Tunnels : u > opened =>
          /\ cst'[u] = "none" /\ sst'[u] = "none" /\ ~hooked'[u] /\ wire'[u] = <<>>
          /\ u \notin delayed' /\ sfile' # u
    BY <1>0, <1>6, <1>7, <2>1 DEF Fresh
  <2>4. \A u \in Tunnels : u <= opened => name'[u] \in Files /\ cst'[u] # "none"
    <3>1. ASSUME NEW u \in Tunnels, u <= opened PROVE name[u] \in Files /\ cst[u] # "none"
      BY <1>0, <3>1 DEF Fresh
    <3>2. ASSUME NEW u \in Tunnels, u <= opened PROVE cst'[u] # "none"
      <4>1. name[u] \in Files /\ cst[u] # "none"
        BY <3>1, <3>2
      <4>2. u # t => cst'[u] = cst[u]
        BY <1>6
      <4>3. cst'[t] # "none"
        BY <1>6
      <4> QED BY <4>1, <4>2, <4>3
    <3> QED BY <3>1, <3>2
  <2> QED BY <1>0, <1>7, <2>2, <2>3, <2>4 DEF Fresh
<1> QED BY <1>5, <1>8, <1>9 DEF BasicInv

\* SE_CLOSE.
LEMMA BasicStreamClosed ==
  ASSUME BasicInv, NEW t \in Tunnels, StreamClosed(t)
  PROVE  BasicInv'
<1>0. TypeOK /\ Counted /\ Named /\ Fresh
  BY DEF BasicInv
<1>1. /\ Tail(cq) \in Seq(Message) /\ Held(cq) = {Msg("close", t)} \cup Held(Tail(cq))
  BY <1>0, Dispatched DEF StreamClosed
<1>2. Msg("close", t).t = t
  BY MsgTypes
<1>3. t <= opened
  BY <1>0, <1>1, <1>2 DEF Fresh
<1>4. CASE hooked[t]
  <2>1. Cleanup(t, FALSE, Tail(cq)) /\ Held(Tail(cq)) \subseteq Held(cq)
    BY <1>1, <1>4 DEF StreamClosed
  <2>2. UNCHANGED <<disk, writer, writes, batch, prev, cur, opened, sendT, name, hooked, netVars,
                     srvVars>> /\ UNCHANGED <<cbuf, blocked, wire>>
    BY DEF StreamClosed
  <2>3. cbuf' \in Seq(Unit) /\ Len(cbuf') <= 1 /\ blocked' \in [Tunnels -> BOOLEAN]
    BY <1>0, <2>2 DEF TypeOK
  <2> QED BY <1>1, <1>3, <2>1, <2>2, <2>3, BasicCleanup
<1>5. CASE ~hooked[t]
  <2>1. cq' = Tail(cq) /\ UNCHANGED <<kq, cpc, cfile, delayed, cst>>
    BY <1>5 DEF StreamClosed
  <2>2. TypeOK'
    BY <1>0, <1>1, <2>1 DEF TypeOK, StreamClosed
  <2>3. Counted' /\ Named'
    BY <1>0, <2>1, Steady DEF StreamClosed
  <2>4. Fresh'
    BY <1>0, <1>1, <2>1 DEF Fresh, StreamClosed
  <2> QED BY <2>2, <2>3, <2>4 DEF BasicInv
<1> QED BY <1>4, <1>5

\* The send loop writes.
LEMMA BasicSendWrite ==
  ASSUME BasicInv, SendWrite
  PROVE  BasicInv'
<1>0. TypeOK /\ Counted /\ Named /\ Fresh
  BY DEF BasicInv
<1>1. sendT \in Tunnels /\ sendT <= opened /\ cbuf # <<>>
  BY <1>0 DEF SendWrite, Fresh
<1>u. UNCHANGED <<disk, writer, writes, batch, prev, cur, opened, sendT, name, hooked, netVars,
                  srvVars>>
  BY DEF SendWrite
<1>2. CASE /\ cst[sendT] = "connected" /\ Room(sendT)
           /\ wire' = Set(wire, sendT, Append(wire[sendT], cbuf[1]))
           /\ cbuf' = <<>>
           /\ UNCHANGED <<kq, cpc, cfile, cq, delayed, cst, blocked>>
  <2>1. cbuf[1] \in Unit /\ wire[sendT] \in Seq(Unit) /\ Len(wire[sendT]) < WireCap
    BY <1>0, <1>1, <1>2 DEF TypeOK, Room
  <2>2. wire' \in [Tunnels -> Seq(Unit)] /\ \A t \in Tunnels : Len(wire'[t]) <= WireCap
    <3>1. Append(wire[sendT], cbuf[1]) \in Seq(Unit)
          /\ Len(Append(wire[sendT], cbuf[1])) <= WireCap
      BY <2>1, Sizes
    <3>2. wire \in [Tunnels -> Seq(Unit)] /\ \A t \in Tunnels : Len(wire[t]) <= WireCap
      BY <1>0 DEF TypeOK
    <3>3. wire' = Set(wire, sendT, Append(wire[sendT], cbuf[1]))
      BY <1>2
    <3> QED BY <1>1, <3>1, <3>2, <3>3
  <2>3. TypeOK'
    BY SMTT(30), <1>0, <1>2, <1>u, <2>2 DEF TypeOK
  <2>4. Counted' /\ Named'
    BY <1>0, <1>2, <1>u, Steady
  <2>5. \A u \in Tunnels : u > opened => wire'[u] = <<>>
    <3>1. Tunnels \subseteq Int /\ opened \in Int
      BY <1>0, Counters DEF Tunnels
    <3>2. wire \in [Tunnels -> Seq(Unit)]
      BY <1>0 DEF TypeOK
    <3> QED BY <1>0, <1>1, <1>2, <3>1, <3>2 DEF Fresh
  <2>6. Fresh'
    BY <1>0, <1>2, <1>u, <2>5 DEF Fresh
  <2> QED BY <2>3, <2>4, <2>6 DEF BasicInv
<1>3. CASE /\ blocked' = Set(blocked, sendT, TRUE)
           /\ cpc' = "loop"
           /\ UNCHANGED <<kq, cfile, cbuf, cq, delayed, cst, wire>>
  <2>1. TypeOK'
    BY <1>0, <1>3, <1>u DEF TypeOK
  <2>2. Counted' /\ Named'
    BY <1>0, <1>3, <1>u, Steady
  <2>3. Fresh'
    BY <1>0, <1>3, <1>u DEF Fresh
  <2> QED BY <2>1, <2>2, <2>3 DEF BasicInv
<1>4. CASE Cleanup(sendT, FALSE, cq) /\ UNCHANGED <<cbuf, blocked, wire>>
  <2>1. /\ cbuf' \in Seq(Unit) /\ Len(cbuf') <= 1 /\ blocked' \in [Tunnels -> BOOLEAN]
        /\ cq \in Seq(Message)
    BY <1>0, <1>4 DEF TypeOK
  <2> QED BY <1>1, <1>4, <1>u, <2>1, BasicCleanup
<1> QED BY <1>2, <1>3, <1>4 DEF SendWrite

\* The send loop reads.
LEMMA BasicSendRead ==
  ASSUME BasicInv, SendRead
  PROVE  BasicInv'
<1>0. TypeOK /\ Counted /\ Named /\ Fresh
  BY DEF BasicInv
<1>1. sendT \in Tunnels /\ sendT <= opened /\ cfile # NULL
  BY <1>0 DEF SendRead, Fresh
<1>u. UNCHANGED <<disk, writer, writes, batch, prev, cur, opened, sendT, name, hooked, netVars,
                  srvVars>> /\ UNCHANGED <<blocked, wire>>
  BY DEF SendRead
<1>2. CASE /\ cfile.open /\ cfile.pos < disk[cfile.name].len
           /\ cbuf' = <<Content(cfile.name)[cfile.pos + 1]>>
           /\ cfile' = [cfile EXCEPT !.pos = @ + 1]
           /\ UNCHANGED <<kq, cpc, cq, delayed, cst>>
  <2>1. cfile \in [name : Files, pos : 0..FileUnits, open : BOOLEAN]
    BY <1>0, <1>1 DEF TypeOK
  <2>2. disk[cfile.name].len \in {0, FileUnits} /\ disk[cfile.name].ver \in 0..MaxWrites
    BY <1>0, <2>1 DEF TypeOK
  <2>3. cfile' \in [name : Files, pos : 0..FileUnits, open : BOOLEAN]
    BY <1>2, <2>1, <2>2, Sizes
  <2>4. cbuf' = <<<<cfile.name, disk[cfile.name].ver>>>>
    BY <1>2, <2>1, <2>2, Sizes DEF Content
  <2>5. cbuf' \in Seq(Unit) /\ Len(cbuf') <= 1
    BY <2>1, <2>2, <2>4 DEF Unit
  <2>6. TypeOK'
    BY <1>0, <1>2, <1>u, <2>3, <2>5 DEF TypeOK
  <2>7. Counted' /\ Named'
    BY <1>0, <1>2, <1>u, Steady
  <2>8. Fresh'
    BY <1>0, <1>2, <1>u DEF Fresh
  <2> QED BY <2>6, <2>7, <2>8 DEF BasicInv
<1>3. CASE Cleanup(sendT, TRUE, cq) /\ UNCHANGED cbuf
  <2>1. /\ cbuf' \in Seq(Unit) /\ Len(cbuf') <= 1 /\ blocked' \in [Tunnels -> BOOLEAN]
        /\ cq \in Seq(Message)
    BY <1>0, <1>3, <1>u DEF TypeOK
  <2> QED BY <1>1, <1>3, <1>u, <2>1, BasicCleanup
<1> QED BY <1>2, <1>3 DEF SendRead

\* The steps of Loop that only take a message, or post one of a tunnel that is open.
LEMMA BasicPost ==
  ASSUME BasicInv, NEW m \in Message, m.t <= opened, cq' = Append(cq, m)
  PROVE  cq' \in Seq(Message) /\ \A x \in Held(cq') : x.t <= opened
<1>0. TypeOK /\ Fresh
  BY DEF BasicInv
<1>1. cq' \in Seq(Message) /\ Held(cq') = Held(cq) \cup {m}
  BY <1>0, Posted
<1> QED BY <1>0, <1>1 DEF Fresh

\* The two seconds are over.
LEMMA BasicDelayFires ==
  ASSUME BasicInv, NEW t \in Tunnels, DelayFires(t)
  PROVE  BasicInv'
<1>0. TypeOK /\ Counted /\ Named /\ Fresh
  BY DEF BasicInv
<1>1. t <= opened
  <2>1. Tunnels \subseteq Int /\ opened \in Int
    BY <1>0, Counters DEF Tunnels
  <2> QED BY <1>0, <2>1 DEF DelayFires, Fresh
<1>2. cq' \in Seq(Message) /\ \A x \in Held(cq') : x.t <= opened
  BY <1>1, BasicPost, MsgTypes DEF DelayFires
<1>3. TypeOK'
  BY <1>0, <1>2 DEF TypeOK, DelayFires
<1>4. Counted' /\ Named'
  BY <1>0, Steady DEF DelayFires
<1>5. Fresh'
  BY <1>0, <1>2 DEF Fresh, DelayFires
<1> QED BY <1>3, <1>4, <1>5 DEF BasicInv

\* Loop returns.
LEMMA BasicLoopReturns ==
  ASSUME BasicInv, NEW m \in Message, LoopReturns(m)
  PROVE  BasicInv'
<1>0. TypeOK /\ Counted /\ Named /\ Fresh
  BY DEF BasicInv
<1>1. cq' \in Seq(Message) /\ Held(cq') \subseteq Held(cq)
  BY <1>0, Dispatched DEF LoopReturns
<1>2. TypeOK'
  BY <1>0, <1>1 DEF TypeOK, LoopReturns
<1>3. Counted' /\ Named'
  BY <1>0, Steady DEF LoopReturns
<1>4. Fresh'
  BY <1>0, <1>1 DEF Fresh, LoopReturns
<1> QED BY <1>2, <1>3, <1>4 DEF BasicInv

\* A tunnel that is open on the client's side changes its state.
LEMMA BasicTunnel ==
  ASSUME BasicInv, NEW t \in Tunnels, t <= opened, NEW m \in Message, m.t = t,
         NEW st \in {"opening", "accepted", "connected", "failed", "closing", "over"},
         NEW w \in {wire[t], <<>>},
         cst' = Set(cst, t, st), cq' = Append(cq, m) \/ cq' = cq, wire' = Set(wire, t, w),
         UNCHANGED <<dirVars, kq, cpc, mainVars, pumpVars, name, hooked, toServer, xmpp, srvVars>>,
         blocked' \in [Tunnels -> BOOLEAN], toClient' \in Seq(Stanza),
         Held(toClient') \subseteq Held(toClient)
  PROVE  BasicInv'
<1>0. TypeOK /\ Counted /\ Named /\ Fresh
  BY DEF BasicInv
<1>1. cq' \in Seq(Message) /\ \A x \in Held(cq') : x.t <= opened
  <2>1. CASE cq' = cq
    BY <1>0, <2>1 DEF TypeOK, Fresh
  <2>2. CASE cq' = Append(cq, m)
    BY <2>2, BasicPost
  <2> QED BY <2>1, <2>2
<1>2. /\ wire' \in [Tunnels -> Seq(Unit)] /\ \A u \in Tunnels : Len(wire'[u]) <= WireCap
      /\ \A u \in Tunnels : u # t => wire'[u] = wire[u] /\ cst'[u] = cst[u]
      /\ cst'[t] = st
  <2>1. /\ wire \in [Tunnels -> Seq(Unit)] /\ \A u \in Tunnels : Len(wire[u]) <= WireCap
        /\ cst \in [Tunnels -> {"none", "opening", "accepted", "connected", "failed",
                                "closing", "over"}]
    BY <1>0 DEF TypeOK
  <2>2. w \in Seq(Unit) /\ Len(w) <= WireCap
    <3>1. CASE w = wire[t]
      BY <2>1, <3>1
    <3>2. CASE w = <<>>
      BY <3>2, Sizes
    <3> QED BY <3>1, <3>2
  <2>3. wire' \in [Tunnels -> Seq(Unit)]
    BY <2>1, <2>2
  <2>4. \A u \in Tunnels : (u # t => wire'[u] = wire[u]) /\ (u = t => wire'[u] = w)
    BY <2>1
  <2> QED BY <2>1, <2>2, <2>3, <2>4
<1>3. TypeOK'
  BY SMTT(30), <1>0, <1>1, <1>2 DEF TypeOK
<1>4. Counted' /\ Named'
  BY <1>0, Steady
<1>5. Fresh'
  <2>1. Tunnels \subseteq Int /\ opened \in Int
    BY <1>0, Counters DEF Tunnels
  <2>2. \A u \in Tunnels : u > opened => cst'[u] = "none" /\ wire'[u] = <<>>
    BY <1>0, <1>2, <2>1 DEF Fresh
  <2>3. \A u \in Tunnels : u <= opened => cst'[u] # "none"
    BY <1>0, <1>2 DEF Fresh
  <2> QED BY <1>0, <1>1, <2>2, <2>3 DEF Fresh
<1> QED BY <1>3, <1>4, <1>5 DEF BasicInv

\* A tunnel that is known to the client has been opened.
LEMMA KnownOpened ==
  ASSUME BasicInv, NEW t \in Tunnels,
         cst[t] # "none" \/ \E m \in Held(cq) \cup Held(toServer) \cup Held(toClient) : m.t = t
  PROVE  t <= opened
<1>1. Tunnels \subseteq Int /\ opened \in Int /\ Fresh
  BY Counters DEF Tunnels, BasicInv
<1> QED BY <1>1 DEF Fresh

\* A stanza reaches the client.
LEMMA ClientStanzaFacts ==
  ASSUME BasicInv, ClientStanza
  PROVE  /\ Head(toClient) \in Stanza /\ Head(toClient).t \in Tunnels /\ Head(toClient).t <= opened
         /\ Head(toClient) = Msg(Head(toClient).k, Head(toClient).t)
         /\ toClient' \in Seq(Stanza)
         /\ Held(toClient) = {Head(toClient)} \cup Held(toClient')
<1>1. toClient \in Seq(Stanza) /\ toClient # <<>> /\ toClient' = Tail(toClient)
  BY DEF BasicInv, TypeOK, ClientStanza
<1>2. /\ toClient' \in Seq(Stanza) /\ Head(toClient) \in Stanza
      /\ Held(toClient) = {Head(toClient)} \cup Held(toClient')
  BY <1>1, TailQueue
<1>3. Head(toClient).t \in Tunnels /\ Head(toClient) = Msg(Head(toClient).k, Head(toClient).t)
  BY <1>2 DEF Stanza, Msg
<1> QED BY <1>2, <1>3, KnownOpened

\* The client takes an accept, a reject or a terminate.
LEMMA BasicClientStanza ==
  ASSUME BasicInv, ClientStanza
  PROVE  BasicInv'
<1> DEFINE t == Head(toClient).t
<1>0. TypeOK
  BY DEF BasicInv
<1>1. /\ t \in Tunnels /\ t <= opened /\ toClient' \in Seq(Stanza)
      /\ Held(toClient') \subseteq Held(toClient)
  BY ClientStanzaFacts
<1>2. /\ UNCHANGED <<dirVars, kq, cpc, mainVars, pumpVars, name, hooked, toServer, xmpp, srvVars>>
      /\ blocked' \in [Tunnels -> BOOLEAN]
  BY <1>0 DEF ClientStanza, TypeOK
<1>3. Msg("close", t) \in Message /\ Msg("close", t).t = t
  BY <1>1, MsgTypes
<1>4. /\ cst \in [Tunnels -> {"none", "opening", "accepted", "connected", "failed", "closing", "over"}]
      /\ wire \in [Tunnels -> Seq(Unit)] /\ cst[t] # "none"
  BY <1>0, <1>1 DEF TypeOK, BasicInv, Fresh
<1>5. RecvAccept(t) \/ RecvEnd(t)
  BY DEF ClientStanza
<1> HIDE DEF t
<1>6. CASE RecvAccept(t)
  <2>1. PICK st \in {"opening", "accepted", "connected", "failed", "closing", "over"} :
          cst' = Set(cst, t, st)
    <3>1. CASE cst[t] = "opening"
      BY <1>6, <3>1 DEF RecvAccept
    <3>2. CASE cst[t] # "opening"
      <4>1. cst' = Set(cst, t, cst[t])
        BY <1>4, <1>6, <3>2 DEF RecvAccept
      <4>2. cst[t] \in {"opening", "accepted", "connected", "failed", "closing", "over"}
        BY <1>1, <1>4
      <4> QED BY <4>1, <4>2
    <3> QED BY <3>1, <3>2
  <2>2. wire' = Set(wire, t, wire[t]) /\ cq' = cq
    BY <1>4, <1>6 DEF RecvAccept
  <2> QED BY <1>1, <1>2, <1>3, <2>1, <2>2, BasicTunnel
<1>7. CASE RecvEnd(t)
  <2>1. /\ cst' = Set(cst, t, "over") /\ wire' = Set(wire, t, <<>>)
        /\ cq' = Append(cq, Msg("close", t)) \/ cq' = cq
    BY <1>7 DEF RecvEnd
  <2> QED BY <1>1, <1>2, <1>3, <2>1, BasicTunnel
<1> QED BY <1>5, <1>6, <1>7

\* PseudoTcp opens, becomes writable, has sent everything, fails or gives up.
LEMMA BasicTunnelEvents ==
  ASSUME BasicInv, NEW t \in Tunnels,
         \/ TunnelOpens(t) \/ TunnelWritable(t) \/ TunnelDrained(t) \/ TunnelFails(t)
         \/ TunnelGivesUp(t)
  PROVE  BasicInv'
<1>0. TypeOK
  BY DEF BasicInv
<1>1. /\ cst \in [Tunnels -> {"none", "opening", "accepted", "connected", "failed", "closing", "over"}]
      /\ wire \in [Tunnels -> Seq(Unit)] /\ blocked \in [Tunnels -> BOOLEAN]
      /\ toClient \in Seq(Stanza)
  BY <1>0 DEF TypeOK
<1>2. /\ UNCHANGED <<dirVars, kq, cpc, mainVars, pumpVars, name, hooked, toServer, xmpp, srvVars>>
      /\ UNCHANGED toClient
  BY DEF TunnelOpens, TunnelWritable, TunnelDrained, TunnelFails, TunnelGivesUp
<1>3. cst[t] # "none"
  BY DEF TunnelOpens, TunnelWritable, TunnelDrained, TunnelFails, TunnelGivesUp
<1>4. t <= opened
  BY <1>3, KnownOpened
<1>5. PICK k \in {"write", "terminate", "close"} : cq' = Append(cq, Msg(k, t))
  BY DEF TunnelOpens, TunnelWritable, TunnelDrained, TunnelFails, TunnelGivesUp
<1>6. Msg(k, t) \in Message /\ Msg(k, t).t = t
  BY MsgTypes
<1>7. PICK st \in {"opening", "accepted", "connected", "failed", "closing", "over"} :
        cst' = Set(cst, t, st)
  <2>1. CASE TunnelWritable(t)
    <3>1. cst' = Set(cst, t, "connected")
      BY <1>1, <2>1 DEF TunnelWritable
    <3> QED BY <3>1
  <2>2. CASE TunnelOpens(t) \/ TunnelDrained(t) \/ TunnelFails(t) \/ TunnelGivesUp(t)
    BY <2>2 DEF TunnelOpens, TunnelDrained, TunnelFails, TunnelGivesUp
  <2> QED BY <2>1, <2>2
<1>8. PICK w \in {wire[t], <<>>} : wire' = Set(wire, t, w)
  <2>1. wire = Set(wire, t, wire[t])
    BY <1>1
  <2>2. CASE TunnelFails(t)
    BY <2>2 DEF TunnelFails
  <2>3. CASE ~TunnelFails(t)
    <3>1. wire' = wire
      BY <2>3 DEF TunnelOpens, TunnelWritable, TunnelDrained, TunnelGivesUp
    <3> QED BY <2>1, <3>1
  <2> QED BY <2>2, <2>3
<1>9. blocked' \in [Tunnels -> BOOLEAN]
  BY <1>1 DEF TunnelOpens, TunnelWritable, TunnelDrained, TunnelFails, TunnelGivesUp
<1>10. toClient' \in Seq(Stanza) /\ Held(toClient') \subseteq Held(toClient)
  BY <1>1, <1>2
<1> QED BY <1>2, <1>4, <1>5, <1>6, <1>7, <1>8, <1>9, <1>10, BasicTunnel

\* The XMPP connection is closed.
LEMMA BasicLoggedOut ==
  ASSUME BasicInv, LoggedOut
  PROVE  BasicInv'
<1>0. TypeOK /\ Counted /\ Named /\ Fresh
  BY DEF BasicInv
<1>1. cq' \in Seq(Message) /\ \A x \in Held(cq') : x.t <= opened
  BY <1>0, BasicPost, MsgTypes, Counters DEF LoggedOut
<1>2. toServer' \in Seq(Stanza) /\ Held(toServer') \subseteq Held(toServer)
  <2>1. toServer' = toServer \/ toServer' = <<>>
    BY DEF LoggedOut
  <2>2. CASE toServer' = toServer
    BY <1>0, <2>2 DEF TypeOK
  <2>3. CASE toServer' = <<>>
    BY <2>3, ShortQueues
  <2> QED BY <2>1, <2>2, <2>3
<1>3. TypeOK'
  BY <1>0, <1>1, <1>2 DEF TypeOK, LoggedOut
<1>4. Counted' /\ Named'
  BY <1>0, Steady DEF LoggedOut
<1>5. Fresh'
  BY <1>0, <1>1, <1>2 DEF Fresh, LoggedOut
<1> QED BY <1>3, <1>4, <1>5 DEF BasicInv

\* A stanza reaches the server.
LEMMA ServerStanzaFacts ==
  ASSUME BasicInv, ServerStanza
  PROVE  /\ Head(toServer) \in Stanza /\ Head(toServer).t \in Tunnels /\ Head(toServer).t <= opened
         /\ Head(toServer) = Msg(Head(toServer).k, Head(toServer).t)
         /\ toServer' \in Seq(Stanza) /\ toServer' = Tail(toServer)
         /\ Held(toServer) = {Head(toServer)} \cup Held(toServer')
         /\ \A x : Once(toServer, x) => Once(toServer', x)
                     /\ (x = Head(toServer) => x \notin Held(toServer'))
<1>1. toServer \in Seq(Stanza) /\ toServer # <<>> /\ toServer' = Tail(toServer)
  BY DEF BasicInv, TypeOK, ServerStanza
<1>2. /\ toServer' \in Seq(Stanza) /\ Head(toServer) \in Stanza
      /\ Held(toServer) = {Head(toServer)} \cup Held(toServer')
      /\ \A x : Once(toServer, x) => Once(toServer', x)
                     /\ (x = Head(toServer) => x \notin Held(toServer'))
  BY <1>1, TailQueue
<1>3. Head(toServer).t \in Tunnels /\ Head(toServer) = Msg(Head(toServer).k, Head(toServer).t)
  BY <1>2 DEF Stanza, Msg
<1> QED BY <1>1, <1>2, <1>3, KnownOpened

\* The server takes an initiate or a terminate.
LEMMA BasicServerStanza ==
  ASSUME BasicInv, ServerStanza
  PROVE  BasicInv'
<1> DEFINE t == Head(toServer).t
<1>0. TypeOK /\ Counted /\ Named /\ Fresh
  BY DEF BasicInv
<1>1. /\ t \in Tunnels /\ t <= opened /\ toServer' \in Seq(Stanza)
      /\ Held(toServer') \subseteq Held(toServer)
  BY ServerStanzaFacts
<1>u. UNCHANGED <<dirVars, kq, cpc, mainVars, pumpVars, cq, tunVars, xmpp>>
  BY DEF ServerStanza
<1>2. RecvInitiate(t) \/ RecvTerminate(t)
  BY DEF ServerStanza
<1>3. t \in 0..MaxWrites /\ Tunnels \subseteq Int /\ opened \in Int
  BY <1>0, <1>1, Counters DEF Tunnels
<1> HIDE DEF t
<1>4. CASE RecvInitiate(t)
  <2>1. PICK k \in {"reject", "accept"} : toClient' = Append(toClient, Msg(k, t))
    BY <1>4 DEF RecvInitiate
  <2>2. Msg(k, t) \in Stanza /\ Msg(k, t).t = t /\ toClient \in Seq(Stanza)
    BY <1>0, <1>1, MsgTypes DEF TypeOK
  <2>3. toClient' \in Seq(Stanza) /\ Held(toClient') = Held(toClient) \cup {Msg(k, t)}
    BY <2>1, <2>2, AppendQueue
  <2>4. PICK st \in {"accepted", "over"} : sst' = Set(sst, t, st)
    BY <1>4 DEF RecvInitiate
  <2>5. /\ sfile' \in {sfile, t} /\ serving' \in {serving, FALSE} /\ UNCHANGED <<sq, env>>
        /\ remote' \in {remote, Set(remote, name[t], <<>>)}
    BY <1>4 DEF RecvInitiate
  <2>6. remote' \in [Files -> Seq(Unit)]
    <3>1. remote \in [Files -> Seq(Unit)] /\ <<>> \in Seq(Unit)
      BY <1>0 DEF TypeOK
    <3>2. Set(remote, name[t], <<>>) \in [Files -> Seq(Unit)]
      BY <3>1
    <3> QED BY <2>5, <3>1, <3>2
  <2>7. sst' \in [Tunnels -> {"none", "accepted", "over"}]
        /\ \A u \in Tunnels : u # t => sst'[u] = sst[u]
    BY <1>0, <2>4 DEF TypeOK
  <2>8. TypeOK'
    BY <1>0, <1>1, <1>3, <1>u, <2>3, <2>5, <2>6, <2>7 DEF TypeOK
  <2>9. Counted' /\ Named'
    BY <1>0, <1>u, <2>5, Steady
  <2>10. \A u \in Tunnels : u > opened => sst'[u] = "none" /\ sfile' # u
    BY <1>0, <1>1, <1>3, <2>5, <2>7 DEF Fresh
  <2>11. \A m \in Held(cq') \cup Held(toServer') \cup Held(toClient') : m.t <= opened
    BY <1>0, <1>1, <1>u, <2>2, <2>3 DEF Fresh
  <2>12. Fresh'
    BY <1>0, <1>u, <2>5, <2>10, <2>11 DEF Fresh
  <2> QED BY <2>8, <2>9, <2>12 DEF BasicInv
<1>5. CASE RecvTerminate(t)
  <2>1. sq' \in Seq(Tunnels) /\ UNCHANGED <<toClient, sst, sfile, remote, serving, env>>
    BY <1>0, <1>1, <1>5 DEF RecvTerminate, TypeOK
  <2>s. \A u \in Held(sq') : u <= opened
    <3>1. sq \in Seq(Tunnels)
      BY <1>0 DEF TypeOK
    <3>2. Held(Append(sq, t)) = Held(sq) \cup {t}
      BY <1>1, <3>1, AppendQueue
    <3>3. sq' \in {sq, Append(sq, t)}
      BY <1>5 DEF RecvTerminate
    <3> QED BY <1>0, <1>1, <3>2, <3>3 DEF Fresh
  <2>2. TypeOK'
    BY <1>0, <1>1, <1>u, <2>1 DEF TypeOK
  <2>3. Counted' /\ Named'
    BY <1>0, <1>u, <2>1, Steady
  <2>4. Fresh'
    BY <1>0, <1>1, <1>u, <2>1, <2>s DEF Fresh
  <2> QED BY <2>2, <2>3, <2>4 DEF BasicInv
<1> QED BY <1>2, <1>4, <1>5

\* The server closes its file.
LEMMA BasicServerCloses ==
  ASSUME BasicInv, ServerCloses
  PROVE  BasicInv'
<1>0. TypeOK /\ Counted /\ Named /\ Fresh
  BY DEF BasicInv
<1>1. sq \in Seq(Tunnels) /\ sq # <<>> /\ sq' = Tail(sq)
      /\ sst' = Set(sst, Head(sq), "over") /\ sfile' = 0
  BY <1>0 DEF ServerCloses, TypeOK
<1>2. Head(sq) \in Tunnels /\ Head(sq) <= opened /\ sq' \in Seq(Tunnels)
      /\ Held(sq') \subseteq Held(sq)
  <2>1. Head(sq) \in Tunnels /\ sq' \in Seq(Tunnels) /\ Held(sq) = {Head(sq)} \cup Held(sq')
    BY <1>1, TailQueue
  <2> QED BY <1>0, <2>1 DEF Fresh
<1>3. Tunnels \subseteq Nat \ {0} /\ opened \in Int /\ 0 \in 0..MaxWrites
  BY <1>0, Counters DEF Tunnels
<1>4. TypeOK'
  BY <1>0, <1>1, <1>2, <1>3 DEF TypeOK, ServerCloses
<1>5. Counted' /\ Named'
  BY <1>0, Steady DEF ServerCloses
<1>6. \A u \in Tunnels : u > opened => sst'[u] = "none" /\ sfile' # u
  <2>1. sst \in [Tunnels -> {"none", "accepted", "over"}]
    BY <1>0 DEF TypeOK
  <2> QED BY <1>0, <1>1, <1>2, <1>3, <2>1 DEF Fresh
<1>7. Fresh'
  BY <1>0, <1>2, <1>6 DEF Fresh, ServerCloses
<1> QED BY <1>4, <1>5, <1>7 DEF BasicInv

\* A unit reaches the server.
LEMMA BasicDeliver ==
  ASSUME BasicInv, NEW t \in Tunnels, Deliver(t)
  PROVE  BasicInv'
<1>0. TypeOK /\ Counted /\ Named /\ Fresh
  BY DEF BasicInv
<1>1. wire[t] \in Seq(Unit) /\ wire[t] # <<>> /\ Len(wire[t]) <= WireCap
  BY <1>0 DEF Deliver, TypeOK
<1>2. /\ Tail(wire[t]) \in Seq(Unit) /\ Len(Tail(wire[t])) <= WireCap
      /\ Head(wire[t]) \in Unit
  BY <1>1, Sizes
<1>3. /\ wire \in [Tunnels -> Seq(Unit)] /\ \A u \in Tunnels : Len(wire[u]) <= WireCap
      /\ remote \in [Files -> Seq(Unit)]
  BY <1>0 DEF TypeOK
<1>4. wire' = Set(wire, t, Tail(wire[t]))
      /\ remote' = [remote EXCEPT ![name[sfile]] = Append(@, Head(wire[t]))]
  BY DEF Deliver
<1>5. wire' \in [Tunnels -> Seq(Unit)] /\ \A u \in Tunnels : Len(wire'[u]) <= WireCap
  BY <1>2, <1>3, <1>4
<1>6. remote' \in [Files -> Seq(Unit)]
  <2> DEFINE f == name[sfile]
             r == Append(remote[f], Head(wire[t]))
  <2>1. f \in Files => r \in Seq(Unit)
    BY <1>2, <1>3
  <2>2. remote' = [remote EXCEPT ![f] = r]
    BY <1>4
  <2> HIDE DEF f, r
  <2> QED BY <1>3, <2>1, <2>2
<1>7. TypeOK'
  BY <1>0, <1>5, <1>6 DEF TypeOK, Deliver
<1>8. Counted' /\ Named'
  BY <1>0, Steady DEF Deliver
<1>9. \A u \in Tunnels : u > opened => wire'[u] = <<>>
  BY <1>0, <1>1, <1>3, <1>4 DEF Fresh
<1>10. Fresh'
  BY <1>0, <1>9 DEF Fresh, Deliver
<1> QED BY <1>7, <1>8, <1>10 DEF BasicInv

\* The initial states.
LEMMA BasicInit == Init => BasicInv
<1> SUFFICES ASSUME Init PROVE BasicInv
  OBVIOUS
<1>1. TypeOK
  BY MaxWritesBound, ConstantsAssumption DEF Init, TypeOK
<1>2. Writing = {}
  BY DEF Init, Writing
<1>3. Counted
  BY <1>1, <1>2, FS_EmptySet, ClosesEmpty, Counters DEF Init, Counted
<1>4. Held(kq) = {} /\ Held(batch) = {} /\ Held(cq) = {} /\ Held(toServer) = {}
      /\ Held(toClient) = {} /\ Held(sq) = {}
  BY ShortQueues DEF Init
<1>5. Named /\ Fresh
  BY <1>4, MaxWritesBound DEF Init, Named, Fresh, Tunnels
<1> QED BY <1>1, <1>3, <1>5 DEF BasicInv

\* Every step preserves BasicInv.
LEMMA BasicStep == BasicInv /\ [Next]_vars => BasicInv'
<1> SUFFICES ASSUME BasicInv, [Next]_vars PROVE BasicInv'
  OBVIOUS
<1>1. CASE \E f \in Files : WriterOpens(f) \/ Deletes(f)
  BY <1>1, BasicWriterOpens, BasicDeletes
<1>2. CASE WriterStep
  BY <1>2, BasicWriterWrites, BasicWriterCloses DEF WriterStep
<1>3. CASE MainStep
  BY <1>3, BasicWaitForEvents, BasicSkipEvent, BasicSyncFile DEF MainStep
<1>4. CASE LoopStep
  BY <1>4, BasicSendStanza, BasicStreamWritable, BasicStreamClosed, BasicSendWrite, BasicSendRead,
     BasicLoopReturns DEF LoopStep
<1>5. CASE ClientStanza
  BY <1>5, BasicClientStanza
<1>6. CASE \E t \in Tunnels : TunnelStep(t) \/ Deliver(t) \/ TunnelFails(t)
  BY <1>6, BasicTunnelEvents, BasicDelayFires, BasicDeliver DEF TunnelStep
<1>7. CASE LoggedOut
  BY <1>7, BasicLoggedOut
<1>8. CASE ServerStep
  BY <1>8, BasicServerStanza, BasicServerCloses DEF ServerStep
<1>9. CASE UNCHANGED vars
  BY <1>9 DEF vars, BasicInv, TypeOK, Counted, Named, Fresh, Writing
<1> QED BY <1>1, <1>2, <1>3, <1>4, <1>5, <1>6, <1>7, <1>8, <1>9 DEF Next

\* The types of the program's state are kept, every tunnel is paid for with a write,
\* and tunnels are used in the order they are opened.
THEOREM BasicInvariant == Spec => []BasicInv
BY BasicInit, BasicStep, PTL DEF Spec

\* Every variable keeps its type, no tunnel holds more than its capacity, and there
\* are never more tunnels than writes of files (TypeOK of every run of the program).
THEOREM TypeCorrect == Spec => []TypeOK
BY BasicInvariant, PTL DEF BasicInv

-----------------------------------------------------------------------------
(* One tunnel at a time is engaged with the pump's file.                   *)

LoopInv == BasicInv /\ EngagedOK /\ LoopOK /\ KindsOK

\* The client's part is as it was.
LEMMA LoopSame ==
  ASSUME LoopInv, UNCHANGED <<hooked, cst, cq, xmpp, cfile, cpc, cur, sendT, delayed>>
  PROVE  EngagedOK' /\ LoopOK' /\ KindsOK'
BY DEF LoopInv, EngagedOK, LoopOK, KindsOK, Engaged, Alive

\* A step that engages no tunnel and posts no message that ends Loop.
LEMMA LoopFrame ==
  ASSUME LoopInv, BasicInv', UNCHANGED <<hooked, cur, delayed, xmpp>>,
         cpc' = cpc \/ (cpc = "send" /\ cpc' = "loop"),
         cpc = "send" => sendT' = sendT, cfile' = cfile \/ (cfile # NULL /\ cfile' # NULL),
         \A u \in Tunnels : Engaged(u)' => Engaged(u),
         \A u \in Tunnels : hooked[u] /\ Msg("write", u) \in Held(cq') => Alive(u)',
         cpc' = "send" => Alive(sendT)',
         \A u \in Tunnels : Msg("done", u) \in Held(cq') => Msg("done", u) \in Held(cq),
         \A u \in Tunnels : Once(cq, Msg("done", u)) => Once(cq', Msg("done", u)),
         Msg("login_failed", 0) \in Held(cq') => Msg("login_failed", 0) \in Held(cq),
         \A m \in Held(cq') : m.k = "login_failed" <=> m.t = 0
  PROVE  EngagedOK' /\ LoopOK' /\ KindsOK'
<1>0. EngagedOK /\ LoopOK
  BY DEF LoopInv
<1>1. \A t, u \in Tunnels : Engaged(t)' /\ Engaged(u)' => t = u
  BY <1>0 DEF EngagedOK
<1>2. \A t \in Tunnels : Engaged(t)' => cfile' # NULL
  BY <1>0 DEF EngagedOK
<1>3. cpc' = "send" => hooked'[sendT']
  BY <1>0 DEF EngagedOK
<1>4. EngagedOK'
  BY <1>1, <1>2, <1>3 DEF EngagedOK
<1>5. LoopOK'
  <2> SUFFICES ASSUME xmpp'
               PROVE  /\ \A t \in Tunnels : Engaged(t)' => t = cur' /\ cpc' # "main"
                      /\ \A t \in Tunnels : Msg("done", t) \in Held(cq') \/ t \in delayed' =>
                            t = cur' /\ cpc' # "main" /\ cfile' = NULL
                      /\ \A t \in Tunnels : Once(cq', Msg("done", t))
                      /\ \A t \in delayed' : Msg("done", t) \notin Held(cq')
                      /\ Msg("login_failed", 0) \notin Held(cq')
    BY DEF LoopOK
  <2>1. /\ \A t \in Tunnels : Engaged(t) => t = cur /\ cpc # "main"
        /\ \A t \in Tunnels : Msg("done", t) \in Held(cq) \/ t \in delayed =>
              t = cur /\ cpc # "main" /\ cfile = NULL
        /\ \A t \in Tunnels : Once(cq, Msg("done", t))
        /\ \A t \in delayed : Msg("done", t) \notin Held(cq)
        /\ Msg("login_failed", 0) \notin Held(cq)
    BY <1>0 DEF LoopOK
  <2>2. delayed \subseteq Tunnels
    BY DEF LoopInv, BasicInv, TypeOK
  <2>3. \A t \in Tunnels : Engaged(t)' => t = cur' /\ cpc' # "main"
    BY <2>1
  <2>4. \A t \in Tunnels : Msg("done", t) \in Held(cq') \/ t \in delayed' =>
            t = cur' /\ cpc' # "main" /\ cfile' = NULL
    BY <2>1
  <2> QED BY <2>1, <2>2, <2>3, <2>4
<1>6. KindsOK'
  BY DEF KindsOK
<1> QED BY <1>4, <1>5, <1>6

\* The messages posted for a tunnel are of its kind.
LEMMA KindsPosted ==
  ASSUME LoopInv, NEW t \in Tunnels, NEW k, k # "login_failed",
         NEW S, S \subseteq Held(cq) \cup {Msg(k, t)}
  PROVE  \A m \in S : m.k = "login_failed" <=> m.t = 0
<1>1. Msg(k, t).k = k /\ Msg(k, t).t = t /\ t # 0
  BY MsgTypes, MaxWritesBound DEF Tunnels
<1>2. \A m \in Held(cq) : m.k = "login_failed" <=> m.t = 0
  BY DEF LoopInv, KindsOK
<1> QED BY <1>1, <1>2

\* A task sends its stanza.
LEMMA LoopSendStanza ==
  ASSUME LoopInv, BasicInv', NEW t \in Tunnels, NEW k \in {"initiate", "terminate"}, SendStanza(t, k)
  PROVE  EngagedOK' /\ LoopOK' /\ KindsOK'
<1>0. TypeOK /\ EngagedOK /\ LoopOK /\ KindsOK
  BY DEF LoopInv, BasicInv
<1>1. /\ Held(cq) = {Msg(k, t)} \cup Held(cq')
      /\ \A x : Once(cq, x) => Once(cq', x)
      /\ cpc = "loop"
  BY <1>0, Dispatched DEF SendStanza
<1>2. UNCHANGED <<hooked, cur, delayed, xmpp, cpc, sendT, cfile, cst>>
  BY DEF SendStanza
<1>3. \A u \in Tunnels : Engaged(u)' => Engaged(u)
  BY <1>1, <1>2 DEF Engaged
<1>4. \A u \in Tunnels : hooked[u] /\ Msg("write", u) \in Held(cq') => Alive(u)'
  <2>1. \A u \in Tunnels : Msg("close", u) \in Held(cq) => Msg("close", u) \in Held(cq')
    BY <1>1, MsgTypes
  <2> QED BY <1>0, <1>1, <1>2, <2>1 DEF EngagedOK, Alive
<1> QED BY <1>0, <1>1, <1>2, <1>3, <1>4, LoopFrame DEF KindsOK

\* SE_WRITE.
LEMMA LoopStreamWritable ==
  ASSUME LoopInv, BasicInv', NEW t \in Tunnels, StreamWritable(t)
  PROVE  EngagedOK' /\ LoopOK' /\ KindsOK'
<1>0. TypeOK /\ EngagedOK /\ LoopOK /\ KindsOK
  BY DEF LoopInv, BasicInv
<1>1. /\ Held(cq) = {Msg("write", t)} \cup Held(cq')
      /\ \A x : Once(cq, x) => Once(cq', x)
      /\ cpc = "loop"
  BY <1>0, Dispatched DEF StreamWritable
<1>2. UNCHANGED <<hooked, cur, delayed, xmpp, cfile, cst>>
  BY DEF StreamWritable
<1>3. \A u \in Tunnels : Engaged(u)' => Engaged(u)
  BY <1>1, <1>2 DEF Engaged
<1>4. \A u \in Tunnels : hooked[u] /\ Msg("write", u) \in Held(cq) => Alive(u)'
  <2>1. \A u \in Tunnels : Msg("close", u) \in Held(cq) => Msg("close", u) \in Held(cq')
    BY <1>1, MsgTypes
  <2> QED BY <1>0, <1>2, <2>1 DEF EngagedOK, Alive
<1>5. CASE ~hooked[t]
  <2>1. UNCHANGED <<cpc, sendT>>
    BY <1>5 DEF StreamWritable
  <2> QED BY <1>0, <1>1, <1>2, <1>3, <1>4, <2>1, LoopFrame DEF KindsOK
<1>6. CASE hooked[t]
  <2>1. cpc' = "send" /\ sendT' = t
    BY <1>6 DEF StreamWritable
  <2>2. Alive(t)' /\ hooked'[t]
    BY <1>1, <1>2, <1>4, <1>6
  <2>3. Alive(sendT)' /\ hooked'[sendT']
    BY <2>1, <2>2 DEF Alive
  <2>4. EngagedOK'
    BY <1>0, <1>1, <1>2, <1>3, <1>4, <2>3 DEF EngagedOK
  <2>5. LoopOK'
    <3>1. delayed \subseteq Tunnels
      BY <1>0 DEF TypeOK
    <3> QED BY <1>0, <1>1, <1>2, <1>3, <2>1, <3>1 DEF LoopOK
  <2>6. KindsOK'
    BY <1>0, <1>1 DEF KindsOK
  <2> QED BY <2>4, <2>5, <2>6
<1> QED BY <1>5, <1>6

\* Cleanup of the engaged tunnel: nobody is engaged any more, and there is one MSG_DONE,
\* now or later, for the tunnel of this Loop.
LEMMA LoopCleanup ==
  ASSUME LoopInv, NEW t \in Tunnels, NEW delay \in BOOLEAN, Engaged(t),
         NEW q0 \in Seq(Message), Held(q0) \subseteq Held(cq), \A x : Once(cq, x) => Once(q0, x),
         Cleanup(t, delay, q0), UNCHANGED <<hooked, cur, xmpp>>
  PROVE  EngagedOK' /\ LoopOK' /\ KindsOK'
<1>0. TypeOK /\ EngagedOK /\ LoopOK /\ KindsOK
  BY DEF LoopInv, BasicInv
<1> DEFINE c == ClearEvents(q0, t) \o DoneNow(t, delay)
                  \o (IF Drained(t) THEN <<Msg("terminate", t)>> ELSE <<>>)
<1>1. Drained(t) \in BOOLEAN
  BY DEF Drained
<1>2. /\ Held(c) = (Held(q0) \ {Msg("write", t), Msg("close", t)})
                           \cup (IF delay THEN {} ELSE {Msg("done", t)})
                           \cup (IF Drained(t) THEN {Msg("terminate", t)} ELSE {})
      /\ \A m \in Message :
           Once(q0, m) /\ m # Msg("terminate", t) /\ ~(m = Msg("done", t) /\ m \in Held(q0))
             => Once(c, m)
  <2> HIDE DEF c
  <2> QED BY <1>1, CleanupQueue DEF c
<1>3. cq' = c
  BY DEF Cleanup
<1> HIDE DEF c
<1>4. /\ cpc' = "loop" /\ cfile' = NULL /\ delayed' = (IF delay THEN delayed \cup {t} ELSE delayed)
      /\ cst'[t] \in {"closing", "over"} /\ \A u \in Tunnels : u # t => cst'[u] = cst[u]
  BY <1>0 DEF Cleanup, ResetFile, ReturnToLoop, TypeOK
<1>5. \A u \in Tunnels : u # t =>
        /\ Msg("write", u) \in Held(cq') => Msg("write", u) \in Held(cq)
        /\ Msg("close", u) \in Held(cq') <=> Msg("close", u) \in Held(q0)
        /\ Msg("done", u) \in Held(cq') => Msg("done", u) \in Held(cq)
  BY <1>2, <1>3, MsgTypes
<1>6. Msg("write", t) \notin Held(cq') /\ Msg("close", t) \notin Held(cq')
  BY <1>2, <1>3, MsgTypes
<1>7. \A u \in Tunnels : ~Engaged(u)'
  <2> SUFFICES ASSUME NEW u \in Tunnels, Engaged(u)' PROVE FALSE
    OBVIOUS
  <2>1. CASE u = t
    BY <1>4, <1>6, <2>1 DEF Engaged
  <2>2. CASE u # t
    <3>1. Engaged(u)
      BY <1>4, <1>5, <2>2 DEF Engaged
    <3> QED BY <1>0, <2>2, <3>1 DEF EngagedOK
  <2> QED BY <2>1, <2>2
<1>8. EngagedOK'
  <2>1. \A u \in Tunnels : ~(hooked'[u] /\ Msg("write", u) \in Held(cq'))
    BY <1>7 DEF Engaged
  <2> QED BY <1>4, <1>7, <2>1 DEF EngagedOK
<1>9. LoopOK'
  <2> SUFFICES ASSUME xmpp'
               PROVE  /\ \A u \in Tunnels : Msg("done", u) \in Held(cq') \/ u \in delayed' => u = cur'
                      /\ \A u \in Tunnels : Once(cq', Msg("done", u))
                      /\ \A u \in delayed' : Msg("done", u) \notin Held(cq')
                      /\ Msg("login_failed", 0) \notin Held(cq')
    BY <1>4, <1>7 DEF LoopOK
  <2>1. /\ t = cur /\ cfile # NULL
        /\ \A u \in Tunnels : Msg("done", u) \notin Held(cq) /\ u \notin delayed
        /\ \A u \in Tunnels : Once(cq, Msg("done", u))
        /\ Msg("login_failed", 0) \notin Held(cq)
    BY <1>0 DEF LoopOK, EngagedOK
  <2>2. delayed = {}
    BY <1>0, <2>1 DEF TypeOK
  <2>3. \A u \in Tunnels : Msg("done", u) \in Held(cq') => u = t /\ ~delay
    <3>1. \A u \in Tunnels : Msg("done", u) \in Held(cq') =>
            Msg("done", u) \in Held(q0) \/ (~delay /\ u = t)
      BY <1>2, <1>3, MsgTypes
    <3> QED BY <2>1, <3>1
  <2>4. Msg("login_failed", 0) \notin Held(cq')
    <3>1. Msg("login_failed", 0) \in Held(cq') => Msg("login_failed", 0) \in Held(q0)
      BY <1>2, <1>3, MsgTypes
    <3> QED BY <2>1, <3>1
  <2>5. ASSUME NEW u \in Tunnels PROVE Once(cq', Msg("done", u))
    <3>1. /\ Msg("done", u) \in Message /\ Msg("done", u) # Msg("terminate", t)
          /\ Msg("done", u) \notin Held(q0)
      BY <2>1, MsgTypes
    <3>2. Once(q0, Msg("done", u))
      BY <2>1
    <3> QED BY <1>2, <1>3, <3>1, <3>2
  <2> QED BY <1>4, <2>1, <2>2, <2>3, <2>4, <2>5
<1>10. KindsOK'
  <2>1. \A m \in Held(cq') : m \in Held(cq) \/ m = Msg("done", t) \/ m = Msg("terminate", t)
    BY <1>2, <1>3
  <2>2. \A k : Msg(k, t).k = k /\ Msg(k, t).t # 0
    BY MsgTypes, MaxWritesBound DEF Tunnels
  <2> QED BY <1>0, <2>1, <2>2 DEF KindsOK
<1> QED BY <1>8, <1>9, <1>10

\* SE_CLOSE.
LEMMA LoopStreamClosed ==
  ASSUME LoopInv, BasicInv', NEW t \in Tunnels, StreamClosed(t)
  PROVE  EngagedOK' /\ LoopOK' /\ KindsOK'
<1>0. TypeOK /\ EngagedOK /\ LoopOK /\ KindsOK
  BY DEF LoopInv, BasicInv
<1>1. /\ Held(cq) = {Msg("close", t)} \cup Held(Tail(cq)) /\ Tail(cq) \in Seq(Message)
      /\ \A x : Once(cq, x) => Once(Tail(cq), x)
      /\ cpc = "loop"
  BY <1>0, Dispatched DEF StreamClosed
<1>2. UNCHANGED <<hooked, cur, xmpp, sendT>>
  BY DEF StreamClosed
<1>3. CASE hooked[t]
  <2>1. Engaged(t) /\ Held(Tail(cq)) \subseteq Held(cq)
    BY <1>1, <1>3 DEF Engaged
  <2>2. Cleanup(t, FALSE, Tail(cq))
    BY <1>3 DEF StreamClosed
  <2> QED BY <1>1, <1>2, <2>1, <2>2, LoopCleanup
<1>4. CASE ~hooked[t]
  <2>1. cq' = Tail(cq) /\ UNCHANGED <<cpc, cfile, delayed, cst>>
    BY <1>4 DEF StreamClosed
  <2>2. \A u \in Tunnels : Engaged(u)' => Engaged(u)
    BY <1>1, <1>2, <2>1 DEF Engaged
  <2>3. \A u \in Tunnels : hooked[u] /\ Msg("write", u) \in Held(cq') => Alive(u)'
    <3>1. \A u \in Tunnels : hooked[u] /\ Msg("close", u) \in Held(cq) => Msg("close", u) \in Held(cq')
      BY <1>1, <1>4, <2>1, MsgTypes
    <3> QED BY <1>0, <1>1, <2>1, <3>1 DEF EngagedOK, Alive
  <2> QED BY <1>0, <1>1, <1>2, <2>1, <2>2, <2>3, LoopFrame DEF KindsOK
<1> QED BY <1>3, <1>4

\* The send loop runs for the engaged tunnel.
LEMMA SendingEngaged ==
  ASSUME LoopInv, cpc = "send"
  PROVE  sendT \in Tunnels /\ Engaged(sendT) /\ cfile # NULL
<1>1. sendT \in Tunnels /\ hooked[sendT] /\ Alive(sendT)
  BY DEF LoopInv, BasicInv, Fresh, EngagedOK
<1>2. Engaged(sendT)
  BY <1>1 DEF Engaged, Alive
<1> QED BY <1>1, <1>2 DEF LoopInv, EngagedOK

\* The send loop writes.
LEMMA LoopSendWrite ==
  ASSUME LoopInv, BasicInv', SendWrite
  PROVE  EngagedOK' /\ LoopOK' /\ KindsOK'
<1>0. TypeOK /\ EngagedOK /\ LoopOK /\ KindsOK
  BY DEF LoopInv, BasicInv
<1>1. sendT \in Tunnels /\ Engaged(sendT) /\ cpc = "send"
  BY SendingEngaged DEF SendWrite
<1>u. UNCHANGED <<hooked, cur, xmpp, sendT>>
  BY DEF SendWrite
<1>2. CASE UNCHANGED <<cpc, cfile, cq, delayed, cst>>
  BY <1>2, <1>u, LoopSame
<1>3. CASE cpc' = "loop" /\ UNCHANGED <<cfile, cq, delayed, cst>>
  <2>1. \A u \in Tunnels : Engaged(u)' => Engaged(u)
    BY <1>3, <1>u DEF Engaged
  <2>2. \A u \in Tunnels : hooked[u] /\ Msg("write", u) \in Held(cq') => Alive(u)'
    BY <1>0, <1>3, <1>u DEF EngagedOK, Alive
  <2> QED BY <1>0, <1>1, <1>3, <1>u, <2>1, <2>2, LoopFrame DEF KindsOK
<1>4. CASE Cleanup(sendT, FALSE, cq)
  <2>1. cq \in Seq(Message)
    BY <1>0 DEF TypeOK
  <2> QED BY <1>1, <1>4, <1>u, <2>1, LoopCleanup
<1> QED BY <1>2, <1>3, <1>4 DEF SendWrite

\* The send loop reads.
LEMMA LoopSendRead ==
  ASSUME LoopInv, BasicInv', SendRead
  PROVE  EngagedOK' /\ LoopOK' /\ KindsOK'
<1>0. TypeOK /\ EngagedOK /\ LoopOK /\ KindsOK
  BY DEF LoopInv, BasicInv
<1>1. sendT \in Tunnels /\ Engaged(sendT) /\ cpc = "send" /\ cfile # NULL
  BY SendingEngaged DEF SendRead
<1>u. UNCHANGED <<hooked, cur, xmpp, sendT>>
  BY DEF SendRead
<1>2. CASE /\ cfile.pos < disk[cfile.name].len
           /\ cfile' = [cfile EXCEPT !.pos = @ + 1]
           /\ UNCHANGED <<cpc, cq, delayed, cst>>
  <2>1. cfile' # NULL
    <3>1. cfile \in [name : Files, pos : 0..FileUnits, open : BOOLEAN]
      BY <1>0, <1>1 DEF TypeOK
    <3>2. cfile.pos < disk[cfile.name].len /\ disk[cfile.name].len \in {0, FileUnits}
      BY <1>0, <1>2, <3>1 DEF SendRead, TypeOK
    <3>3. cfile' \in [name : Files, pos : 0..FileUnits, open : BOOLEAN]
      BY <1>2, <3>1, <3>2, Sizes
    <3> QED BY <3>3, Sizes
  <2>2. \A u \in Tunnels : Engaged(u)' => Engaged(u)
    BY <1>2, <1>u DEF Engaged
  <2>3. \A u \in Tunnels : hooked[u] /\ Msg("write", u) \in Held(cq') => Alive(u)'
    BY <1>0, <1>2, <1>u DEF EngagedOK, Alive
  <2>4. Alive(sendT)'
    BY <1>0, <1>1, <1>2, <1>u DEF EngagedOK, Alive
  <2> QED BY <1>0, <1>1, <1>2, <1>u, <2>1, <2>2, <2>3, <2>4, LoopFrame DEF KindsOK
<1>3. CASE Cleanup(sendT, TRUE, cq)
  <2>1. cq \in Seq(Message)
    BY <1>0 DEF TypeOK
  <2> QED BY <1>1, <1>3, <1>u, <2>1, LoopCleanup
<1> QED BY <1>2, <1>3 DEF SendRead

\* The two seconds are over.
LEMMA LoopDelayFires ==
  ASSUME LoopInv, NEW t \in Tunnels, DelayFires(t)
  PROVE  EngagedOK' /\ LoopOK' /\ KindsOK'
<1>0. TypeOK /\ EngagedOK /\ LoopOK /\ KindsOK
  BY DEF LoopInv, BasicInv
<1>1. UNCHANGED <<hooked, cur, xmpp, sendT, cpc, cfile, cst>> /\ cpc = "loop"
      /\ delayed' = delayed \ {t} /\ t \in delayed /\ cq' = Append(cq, Msg("done", t))
  BY DEF DelayFires
<1>2. /\ Held(cq') = Held(cq) \cup {Msg("done", t)}
      /\ \A x : Once(cq, x) /\ ~(x = Msg("done", t) /\ Msg("done", t) \in Held(cq)) => Once(cq', x)
  BY <1>0, <1>1, Posted, MsgTypes
<1>3. \A u \in Tunnels : /\ Msg("write", u) \in Held(cq') <=> Msg("write", u) \in Held(cq)
                         /\ Msg("close", u) \in Held(cq') <=> Msg("close", u) \in Held(cq)
  BY <1>2, MsgTypes
<1>4. \A u \in Tunnels : Engaged(u)' <=> Engaged(u)
  BY <1>1, <1>3 DEF Engaged
<1>5. EngagedOK'
  BY <1>0, <1>1, <1>3, <1>4 DEF EngagedOK, Alive
<1>6. LoopOK'
  <2> SUFFICES ASSUME xmpp PROVE LoopOK'
    BY <1>1 DEF LoopOK
  <2>1. /\ \A u \in Tunnels : Engaged(u) => u = cur /\ cpc # "main"
        /\ \A u \in Tunnels : Msg("done", u) \in Held(cq) \/ u \in delayed =>
              u = cur /\ cpc # "main" /\ cfile = NULL
        /\ \A u \in Tunnels : Once(cq, Msg("done", u))
        /\ \A u \in delayed : Msg("done", u) \notin Held(cq)
        /\ Msg("login_failed", 0) \notin Held(cq)
    BY <1>0 DEF LoopOK
  <2>2. \A u \in Tunnels : Msg("done", u) \in Held(cq') => Msg("done", u) \in Held(cq) \/ u = t
    BY <1>2, MsgTypes
  <2>3. \A u \in Tunnels : Once(cq', Msg("done", u))
    BY <1>1, <1>2, <2>1
  <2>4. \A u \in delayed' : Msg("done", u) \notin Held(cq')
    <3>1. delayed \subseteq Tunnels
      BY <1>0 DEF TypeOK
    <3> QED BY <1>1, <2>1, <2>2, <3>1
  <2>5. Msg("login_failed", 0) \notin Held(cq')
    BY <1>2, <2>1, MsgTypes
  <2> QED BY <1>1, <1>4, <2>1, <2>2, <2>3, <2>4, <2>5 DEF LoopOK
<1>7. KindsOK'
  <2>1. Held(cq') \subseteq Held(cq) \cup {Msg("done", t)}
    BY <1>2
  <2> QED BY <2>1, KindsPosted DEF KindsOK
<1> QED BY <1>5, <1>6, <1>7

\* Loop returns: while the client is logged in, for the MSG_DONE of its own tunnel.
LEMMA LoopLoopReturns ==
  ASSUME LoopInv, NEW m \in Message, LoopReturns(m)
  PROVE  /\ EngagedOK' /\ LoopOK' /\ KindsOK'
         /\ xmpp => m = Msg("done", cur) /\ cfile = NULL
<1>0. TypeOK /\ EngagedOK /\ LoopOK /\ KindsOK
  BY DEF LoopInv, BasicInv
<1>1. UNCHANGED <<hooked, cur, xmpp, sendT, cfile, cst, delayed>> /\ cpc' = "main"
      /\ Dispatch(m) /\ cq' = Tail(cq) /\ m.k \in {"done", "login_failed"}
  BY DEF LoopReturns
<1>2. /\ Held(cq) = {m} \cup Held(cq')
      /\ \A x : Once(cq, x) => Once(cq', x) /\ (x = m => x \notin Held(cq'))
  BY <1>0, <1>1, Dispatched
<1>3. \A u \in Tunnels : /\ Msg("write", u) \in Held(cq') <=> Msg("write", u) \in Held(cq)
                         /\ Msg("close", u) \in Held(cq') <=> Msg("close", u) \in Held(cq)
  <2>1. \A u \in Tunnels : m # Msg("write", u) /\ m # Msg("close", u)
    BY <1>1, MsgTypes
  <2> QED BY <1>2, <2>1
<1>4. \A u \in Tunnels : Engaged(u)' <=> Engaged(u)
  BY <1>1, <1>3 DEF Engaged
<1>5. EngagedOK'
  BY <1>0, <1>1, <1>3, <1>4 DEF EngagedOK, Alive
<1>6. KindsOK'
  BY <1>0, <1>2 DEF KindsOK
<1>7. ASSUME xmpp
      PROVE  m = Msg("done", cur) /\ cfile = NULL /\ LoopOK'
  <2>1. /\ \A u \in Tunnels : Engaged(u) => u = cur /\ cpc # "main"
        /\ \A u \in Tunnels : Msg("done", u) \in Held(cq) \/ u \in delayed =>
              u = cur /\ cpc # "main" /\ cfile = NULL
        /\ \A u \in Tunnels : Once(cq, Msg("done", u))
        /\ \A u \in delayed : Msg("done", u) \notin Held(cq)
        /\ Msg("login_failed", 0) \notin Held(cq)
    BY <1>0, <1>7 DEF LoopOK
  <2>2. m = Msg(m.k, m.t) /\ m \in Held(cq) /\ m.t \in Tunnels \cup {0}
    BY <1>2, MsgTypes DEF Message
  <2>3. m.k # "login_failed"
    BY <1>0, <2>1, <2>2 DEF KindsOK
  <2>4. m.t \in Tunnels /\ m = Msg("done", m.t)
    BY <1>0, <1>1, <2>2, <2>3 DEF KindsOK
  <2>5. m.t = cur /\ cfile = NULL
    BY <2>1, <2>2, <2>4
  <2>6. \A u \in Tunnels : ~Engaged(u)
    BY <1>0, <2>5 DEF EngagedOK
  <2>7. \A u \in Tunnels : Msg("done", u) \notin Held(cq') /\ u \notin delayed
    <3> SUFFICES ASSUME NEW u \in Tunnels PROVE Msg("done", u) \notin Held(cq') /\ u \notin delayed
      OBVIOUS
    <3>1. CASE u = cur
      <4>1. Msg("done", u) = m /\ Once(cq, m)
        BY <2>1, <2>4, <2>5, <3>1
      <4> QED BY <1>2, <2>1, <2>2, <4>1
    <3>2. CASE u # cur
      <4>1. Msg("done", u) \notin Held(cq) /\ u \notin delayed
        BY <2>1, <3>2
      <4> QED BY <1>2, <4>1
    <3> QED BY <3>1, <3>2
  <2>8. delayed = {}
    BY <1>0, <2>7 DEF TypeOK
  <2>9. LoopOK'
    BY <1>1, <1>2, <1>4, <2>1, <2>6, <2>7, <2>8 DEF LoopOK
  <2> QED BY <2>4, <2>5, <2>9
<1>8. LoopOK'
  <2>1. CASE xmpp
    BY <1>7, <2>1
  <2>2. CASE ~xmpp
    BY <1>1, <2>2 DEF LoopOK
  <2> QED BY <2>1, <2>2
<1> QED BY <1>5, <1>6, <1>7, <1>8

\* A message of tunnel t is posted, and its state changes: t was engaged if it is now.
LEMMA LoopTunnel ==
  ASSUME LoopInv, BasicInv', NEW t \in Tunnels, cpc = "loop",
         UNCHANGED <<hooked, cur, delayed, xmpp, cpc, sendT, cfile>>,
         \A u \in Tunnels : u # t => cst'[u] = cst[u],
         NEW k \in {"write", "terminate", "close"}, cq' = Append(cq, Msg(k, t)) \/ cq' = cq,
         Engaged(t)' => Engaged(t), Msg("write", t) \in Held(cq') /\ hooked[t] => Alive(t)'
  PROVE  /\ EngagedOK' /\ LoopOK' /\ KindsOK'
         /\ \A u \in Tunnels : Engaged(u)' => Engaged(u)
<1>0. TypeOK /\ EngagedOK /\ LoopOK /\ KindsOK
  BY DEF LoopInv, BasicInv
<1>1. /\ Held(cq) \subseteq Held(cq') /\ Held(cq') \subseteq Held(cq) \cup {Msg(k, t)}
      /\ \A u \in Tunnels : Once(cq, Msg("done", u)) => Once(cq', Msg("done", u))
  <2>1. CASE cq' = cq
    BY <2>1
  <2>2. CASE cq' = Append(cq, Msg(k, t))
    <3>1. /\ Held(cq') = Held(cq) \cup {Msg(k, t)}
          /\ \A x : Once(cq, x) /\ ~(x = Msg(k, t) /\ Msg(k, t) \in Held(cq)) => Once(cq', x)
      BY <1>0, <2>2, Posted, MsgTypes
    <3>2. \A u \in Tunnels : Msg("done", u) # Msg(k, t)
      BY MsgTypes
    <3> QED BY <3>1, <3>2
  <2> QED BY <2>1, <2>2
<1>2. /\ \A u \in Tunnels : u # t =>
           /\ Msg("write", u) \in Held(cq') <=> Msg("write", u) \in Held(cq)
           /\ Msg("close", u) \in Held(cq') <=> Msg("close", u) \in Held(cq)
      /\ \A u \in Tunnels : Msg("done", u) \in Held(cq') => Msg("done", u) \in Held(cq)
      /\ Msg("login_failed", 0) \in Held(cq') => Msg("login_failed", 0) \in Held(cq)
  BY <1>1, MsgTypes
<1>3. \A u \in Tunnels : Engaged(u)' => Engaged(u)
  <2> SUFFICES ASSUME NEW u \in Tunnels, u # t, Engaged(u)' PROVE Engaged(u)
    OBVIOUS
  <2> QED BY <1>2 DEF Engaged
<1>4. \A u \in Tunnels : hooked[u] /\ Msg("write", u) \in Held(cq') => Alive(u)'
  <2> SUFFICES ASSUME NEW u \in Tunnels, u # t, hooked[u], Msg("write", u) \in Held(cq')
               PROVE Alive(u)'
    OBVIOUS
  <2>1. Alive(u)
    BY <1>0, <1>2 DEF EngagedOK
  <2> QED BY <1>2, <2>1 DEF Alive
<1>5. \A m \in Held(cq') : m.k = "login_failed" <=> m.t = 0
  BY <1>1, KindsPosted
<1> QED BY <1>1, <1>2, <1>3, <1>4, <1>5, LoopFrame

\* The client takes an accept, a reject or a terminate.
LEMMA LoopClientStanza ==
  ASSUME LoopInv, BasicInv', ClientStanza
  PROVE  /\ EngagedOK' /\ LoopOK' /\ KindsOK'
         /\ \A u \in Tunnels : Engaged(u)' => Engaged(u)
<1>0. BasicInv /\ TypeOK /\ EngagedOK
  BY DEF LoopInv, BasicInv
<1>1. PICK t \in Tunnels : t = Head(toClient).t
  BY <1>0, ClientStanzaFacts
<1>2. UNCHANGED <<hooked, cur, delayed, xmpp, cpc, sendT, cfile>> /\ cpc = "loop" /\ xmpp
  BY DEF ClientStanza
<1>3. RecvAccept(t) \/ RecvEnd(t)
  BY <1>1 DEF ClientStanza
<1>4. cst \in [Tunnels -> {"none", "opening", "accepted", "connected", "failed", "closing", "over"}]
  BY <1>0 DEF TypeOK
<1>5. CASE RecvAccept(t)
  <2>1. /\ cq' = cq /\ \A u \in Tunnels : u # t => cst'[u] = cst[u]
        /\ cst'[t] = IF cst[t] = "opening" THEN "accepted" ELSE cst[t]
    BY <1>1, <1>4, <1>5 DEF RecvAccept
  <2>2. Engaged(t)' => Engaged(t)
    BY <1>2, <2>1 DEF Engaged
  <2>3. Msg("write", t) \in Held(cq') /\ hooked[t] => Alive(t)'
    BY <1>0, <1>1, <1>2, <2>1 DEF EngagedOK, Alive
  <2> QED BY <1>1, <1>2, <2>1, <2>2, <2>3, LoopTunnel
<1>6. CASE RecvEnd(t)
  <2>1. /\ \A u \in Tunnels : u # t => cst'[u] = cst[u]
        /\ cst'[t] = "over"
        /\ cq' = IF cst[t] \in {"opening", "accepted", "connected"}
                 THEN Append(cq, Msg("close", t)) ELSE cq
    BY <1>1, <1>4, <1>6 DEF RecvEnd
  <2>2. /\ Held(Append(cq, Msg("close", t))) = Held(cq) \cup {Msg("close", t)}
    BY <1>0, <1>1, Posted, MsgTypes
  <2>3. CASE cst[t] \in {"opening", "accepted", "connected"}
    <3>1. Engaged(t)' => Engaged(t)
      BY <1>2, <2>3 DEF Engaged
    <3>2. Alive(t)'
      BY <2>1, <2>2, <2>3 DEF Alive
    <3> QED BY <1>1, <1>2, <2>1, <2>3, <3>1, <3>2, LoopTunnel
  <2>4. CASE cst[t] \notin {"opening", "accepted", "connected"}
    <3>1. cq' = cq
      BY <2>1, <2>4
    <3>2. Engaged(t)' => Engaged(t)
      BY <1>2, <2>1, <3>1 DEF Engaged
    <3>3. Msg("write", t) \in Held(cq') /\ hooked[t] => Alive(t)'
      BY <1>0, <1>1, <2>4, <3>1 DEF EngagedOK, Alive
    <3> QED BY <1>1, <1>2, <2>1, <3>1, <3>2, <3>3, LoopTunnel
  <2> QED BY <2>3, <2>4
<1> QED BY <1>3, <1>5, <1>6

\* PseudoTcp opens, becomes writable, has sent everything, fails or gives up.
LEMMA LoopTunnelEvents ==
  ASSUME LoopInv, BasicInv', NEW t \in Tunnels,
         \/ TunnelOpens(t) \/ TunnelWritable(t) \/ TunnelDrained(t) \/ TunnelFails(t)
         \/ TunnelGivesUp(t)
  PROVE  /\ EngagedOK' /\ LoopOK' /\ KindsOK'
         /\ \A u \in Tunnels : Engaged(u)' => Engaged(u)
<1>0. TypeOK /\ EngagedOK
  BY DEF LoopInv, BasicInv
<1>1. UNCHANGED <<hooked, cur, delayed, xmpp, cpc, sendT, cfile>> /\ cpc = "loop"
  BY DEF TunnelOpens, TunnelWritable, TunnelDrained, TunnelFails, TunnelGivesUp
<1>2. cst \in [Tunnels -> {"none", "opening", "accepted", "connected", "failed", "closing", "over"}]
  BY <1>0 DEF TypeOK
<1>3. \A u \in Tunnels : u # t => cst'[u] = cst[u]
  BY <1>2 DEF TunnelOpens, TunnelWritable, TunnelDrained, TunnelFails, TunnelGivesUp
<1>4. \A k \in {"write", "terminate", "close"} :
        Held(Append(cq, Msg(k, t))) = Held(cq) \cup {Msg(k, t)}
  BY <1>0, Posted, MsgTypes
<1>5. CASE TunnelOpens(t) \/ TunnelWritable(t)
  <2>1. cq' = Append(cq, Msg("write", t)) /\ cst'[t] = "connected" /\ cst[t] \in {"accepted", "connected"}
    BY <1>2, <1>5 DEF TunnelOpens, TunnelWritable
  <2>2. (Engaged(t)' => Engaged(t)) /\ Alive(t)'
    BY <1>1, <2>1 DEF Engaged, Alive
  <2> QED BY <1>1, <1>3, <2>1, <2>2, LoopTunnel
<1>6. CASE cst[t] = "closing" /\ (TunnelDrained(t) \/ TunnelFails(t))
  <2>1. cq' = Append(cq, Msg("terminate", t)) /\ cst'[t] = "over"
    BY <1>2, <1>6 DEF TunnelDrained, TunnelFails
  <2>2. /\ Msg("write", t) \in Held(cq') => Msg("write", t) \in Held(cq)
        /\ Msg("close", t) \in Held(cq') <=> Msg("close", t) \in Held(cq)
    BY <1>4, <2>1, MsgTypes
  <2>3. Engaged(t)' => Engaged(t)
    BY <1>1, <2>1, <2>2 DEF Engaged
  <2>4. Msg("write", t) \in Held(cq') /\ hooked[t] => Alive(t)'
    BY <1>0, <1>6, <2>2 DEF EngagedOK, Alive
  <2> QED BY <1>1, <1>3, <2>1, <2>3, <2>4, LoopTunnel
<1>7. CASE (cst[t] = "connected" /\ TunnelFails(t)) \/ TunnelGivesUp(t)
  <2>1. /\ cq' = Append(cq, Msg("close", t))
        /\ cst[t] \in {"connected", "accepted"} \/ (cst[t] = "opening" /\ xmpp)
    BY <1>7 DEF TunnelFails, TunnelGivesUp
  <2>2. (Engaged(t)' => Engaged(t)) /\ Alive(t)'
    BY <1>1, <1>4, <2>1 DEF Engaged, Alive
  <2> QED BY <1>1, <1>3, <2>1, <2>2, LoopTunnel
<1> QED BY <1>5, <1>6, <1>7 DEF TunnelFails, TunnelDrained

\* The XMPP connection is closed.
LEMMA LoopLoggedOut ==
  ASSUME LoopInv, LoggedOut
  PROVE  EngagedOK' /\ LoopOK' /\ KindsOK'
<1>0. TypeOK /\ EngagedOK /\ KindsOK
  BY DEF LoopInv, BasicInv
<1>1. UNCHANGED <<hooked, cst, cfile, cpc, sendT>> /\ xmpp' = FALSE /\ xmpp
      /\ cq' = Append(cq, Msg("login_failed", 0)) /\ cpc = "loop"
  BY DEF LoggedOut
<1>2. Held(cq') = Held(cq) \cup {Msg("login_failed", 0)}
  BY <1>0, <1>1, Posted, MsgTypes
<1>3. \A u \in Tunnels : /\ Msg("write", u) \in Held(cq') <=> Msg("write", u) \in Held(cq)
                         /\ Msg("close", u) \in Held(cq') <=> Msg("close", u) \in Held(cq)
  BY <1>2, MsgTypes
<1>4. \A u \in Tunnels : Engaged(u)' => Engaged(u)
  BY <1>1, <1>3 DEF Engaged
<1>5. EngagedOK'
  BY <1>0, <1>1, <1>3, <1>4 DEF EngagedOK, Alive
<1>6. KindsOK'
  BY <1>0, <1>2, MsgTypes DEF KindsOK
<1> QED BY <1>1, <1>5, <1>6 DEF LoopOK

\* CreateTunnel and ProcessStream: the new tunnel is the only one that is engaged,
\* unless the client is logged out.
LEMMA LoopSyncFile ==
  ASSUME LoopInv, SyncFile
  PROVE  EngagedOK' /\ LoopOK' /\ KindsOK'
<1> DEFINE t == opened + 1
           f == Head(batch).name
<1>0. BasicInv /\ TypeOK /\ Fresh /\ EngagedOK /\ LoopOK /\ KindsOK
  BY DEF LoopInv, BasicInv
<1>1. t \in Tunnels /\ f \in Files /\ t \in Nat /\ opened \in Nat
  BY <1>0, BasicSyncFile, Counters
<1>2. /\ cpc = "main" /\ cpc' = (IF disk[f].exists THEN "loop" ELSE "main")
      /\ cst' = Set(cst, t, "opening") /\ hooked' = Set(hooked, t, disk[f].exists)
      /\ cq' = (IF xmpp THEN Append(cq, Msg("initiate", t)) ELSE cq)
      /\ cfile' = [name |-> f, pos |-> 0, open |-> disk[f].exists]
      /\ cur' = (IF disk[f].exists THEN t ELSE cur)
      /\ UNCHANGED <<xmpp, delayed, sendT>>
  BY DEF SyncFile
<1>3. cfile' # NULL
  <2>1. disk[f].exists \in BOOLEAN /\ 0 \in 0..FileUnits
    BY <1>0, <1>1, Sizes DEF TypeOK
  <2>2. cfile' \in [name : Files, pos : 0..FileUnits, open : BOOLEAN]
    BY <1>1, <1>2, <2>1
  <2> QED BY <2>2, Sizes
<1>4. /\ Held(cq) \subseteq Held(cq') /\ Held(cq') \subseteq Held(cq) \cup {Msg("initiate", t)}
      /\ \A u \in Tunnels : Once(cq, Msg("done", u)) => Once(cq', Msg("done", u))
  <2>1. /\ Held(Append(cq, Msg("initiate", t))) = Held(cq) \cup {Msg("initiate", t)}
        /\ \A x : Once(cq, x) /\ ~(x = Msg("initiate", t) /\ Msg("initiate", t) \in Held(cq))
                    => Once(Append(cq, Msg("initiate", t)), x)
    <3>1. Msg("initiate", t) \in Message
      BY <1>1, MsgTypes
    <3> HIDE DEF t
    <3> QED BY <1>0, <3>1, Posted
  <2>2. \A u \in Tunnels : Msg("done", u) # Msg("initiate", t)
    BY MsgTypes
  <2> HIDE DEF t
  <2> QED BY <1>2, <2>1, <2>2
<1>5. Msg("write", t) \notin Held(cq) /\ Msg("close", t) \notin Held(cq)
  <2>1. \A k : Msg(k, t).t = t /\ ~(t <= opened)
    BY <1>1, MsgTypes
  <2> HIDE DEF t
  <2> QED BY <1>0, <2>1 DEF Fresh
<1> HIDE DEF t, f
<1>6. /\ \A u \in Tunnels :
           /\ Msg("write", u) \in Held(cq') <=> Msg("write", u) \in Held(cq)
           /\ Msg("close", u) \in Held(cq') <=> Msg("close", u) \in Held(cq)
      /\ \A u \in Tunnels : Msg("done", u) \in Held(cq') => Msg("done", u) \in Held(cq)
      /\ Msg("login_failed", 0) \in Held(cq') => Msg("login_failed", 0) \in Held(cq)
  BY <1>4, MsgTypes
<1>7. /\ \A u \in Tunnels : u # t => cst'[u] = cst[u] /\ hooked'[u] = hooked[u]
      /\ cst'[t] = "opening" /\ hooked'[t] = disk[f].exists
  BY <1>0, <1>1, <1>2 DEF TypeOK
<1>8. \A u \in Tunnels : Engaged(u)' => Engaged(u) \/ (u = t /\ xmpp /\ disk[f].exists)
  <2> SUFFICES ASSUME NEW u \in Tunnels, Engaged(u)'
               PROVE  Engaged(u) \/ (u = t /\ xmpp /\ disk[f].exists)
    OBVIOUS
  <2>1. CASE u = t
    BY <1>2, <1>5, <1>6, <1>7, <2>1 DEF Engaged
  <2>2. CASE u # t
    BY <1>2, <1>6, <1>7, <2>2 DEF Engaged
  <2> QED BY <2>1, <2>2
<1>9. xmpp => \A u \in Tunnels : ~Engaged(u)
  BY <1>0, <1>2 DEF LoopOK
<1>10. EngagedOK'
  <2>1. \A u, v \in Tunnels : Engaged(u)' /\ Engaged(v)' => u = v
    BY <1>0, <1>8, <1>9 DEF EngagedOK
  <2>2. \A u \in Tunnels : hooked'[u] /\ Msg("write", u) \in Held(cq') => Alive(u)'
    <3> SUFFICES ASSUME NEW u \in Tunnels, hooked'[u], Msg("write", u) \in Held(cq')
                 PROVE  Alive(u)'
      OBVIOUS
    <3>1. u # t
      BY <1>5, <1>6
    <3>2. Alive(u)
      BY <1>0, <1>6, <1>7, <3>1 DEF EngagedOK
    <3> QED BY <1>6, <1>7, <3>1, <3>2 DEF Alive
  <2>3. cpc' # "send"
    BY <1>2
  <2> QED BY <1>3, <2>1, <2>2, <2>3 DEF EngagedOK
<1>11. LoopOK'
  <2> SUFFICES ASSUME xmpp PROVE LoopOK'
    BY <1>2 DEF LoopOK
  <2>1. /\ \A u \in Tunnels : Msg("done", u) \notin Held(cq) /\ u \notin delayed
        /\ \A u \in Tunnels : Once(cq, Msg("done", u))
        /\ Msg("login_failed", 0) \notin Held(cq)
    BY <1>0, <1>2 DEF LoopOK
  <2>2. delayed \subseteq Tunnels
    BY <1>0 DEF TypeOK
  <2>3. \A u \in Tunnels : Engaged(u)' => u = cur' /\ cpc' # "main"
    BY <1>2, <1>8, <1>9
  <2> QED BY <1>2, <1>4, <1>6, <2>1, <2>2, <2>3 DEF LoopOK
<1>12. KindsOK'
  BY <1>1, <1>4, KindsPosted DEF KindsOK
<1> QED BY <1>10, <1>11, <1>12

\* Every step preserves LoopInv.
LEMMA LoopInvStep == LoopInv /\ [Next]_vars => LoopInv'
<1> SUFFICES ASSUME LoopInv, [Next]_vars PROVE LoopInv'
  OBVIOUS
<1>0. BasicInv'
  BY BasicStep DEF LoopInv
<1> SUFFICES EngagedOK' /\ LoopOK' /\ KindsOK'
  BY <1>0 DEF LoopInv
<1>1. CASE \E f \in Files : WriterOpens(f) \/ Deletes(f)
  BY <1>1, LoopSame DEF WriterOpens, Deletes
<1>2. CASE WriterStep
  BY <1>2, LoopSame DEF WriterStep, WriterWrites, WriterCloses
<1>3. CASE MainStep
  <2>1. CASE WaitForEvents \/ SkipEvent
    BY <2>1, LoopSame DEF WaitForEvents, SkipEvent
  <2> QED BY <1>3, <2>1, LoopSyncFile DEF MainStep
<1>4. CASE LoopStep
  BY <1>0, <1>4, LoopSendStanza, LoopStreamWritable, LoopStreamClosed, LoopSendWrite, LoopSendRead,
     LoopLoopReturns DEF LoopStep
<1>5. CASE ClientStanza
  BY <1>0, <1>5, LoopClientStanza
<1>6. CASE \E t \in Tunnels : TunnelStep(t) \/ Deliver(t) \/ TunnelFails(t)
  <2>1. CASE \E t \in Tunnels : Deliver(t)
    BY <2>1, LoopSame DEF Deliver
  <2> QED BY <1>0, <1>6, <2>1, LoopTunnelEvents, LoopDelayFires DEF TunnelStep
<1>7. CASE LoggedOut
  BY <1>7, LoopLoggedOut
<1>8. CASE ServerStep
  BY <1>8, LoopSame DEF ServerStep, ServerStanza, ServerCloses
<1>9. CASE UNCHANGED vars
  BY <1>9, LoopSame DEF vars
<1> QED BY <1>1, <1>2, <1>3, <1>4, <1>5, <1>6, <1>7, <1>8, <1>9 DEF Next

\* The initial states.
LEMMA LoopInvInit == Init => LoopInv
<1> SUFFICES ASSUME Init PROVE LoopInv
  OBVIOUS
<1>1. BasicInv
  BY BasicInit
<1>2. Held(cq) = {} /\ (\A x : Once(cq, x)) /\ delayed = {}
  BY ShortQueues DEF Init
<1>3. \A t \in Tunnels : ~hooked[t] /\ ~Engaged(t)
  BY DEF Init, Engaged
<1>4. cpc # "send"
  BY DEF Init
<1> QED BY <1>1, <1>2, <1>3, <1>4 DEF LoopInv, EngagedOK, LoopOK, KindsOK

\* OnStreamEvent, called for any tunnel and in any order of events, logged in or not,
\* finds the file it is about to read open (src/main/customxmpppump.cc, OnStreamEvent).
THEOREM AlwaysFileOpenWhileSending == Spec => []FileOpenWhileSending
<1>1. Spec => []LoopInv
  BY LoopInvInit, LoopInvStep, PTL DEF Spec
<1>2. LoopInv => FileOpenWhileSending
  BY SendingEngaged DEF FileOpenWhileSending
<1> QED BY <1>1, <1>2, PTL

\* While the client is logged in, Loop ends for the MSG_DONE of the tunnel it was entered
\* for, whatever earlier tunnels have left behind (src/main/synciga.cc, Loop).
THEOREM AlwaysLoopEndsForItsFile == Spec => LoopEndsForItsFile
<1>1. Spec => []LoopInv
  BY LoopInvInit, LoopInvStep, PTL DEF Spec
<1>2. ASSUME LoopInv, [Next]_vars, xmpp, cpc = "loop", cpc' = "main"
      PROVE  Head(cq) = Msg("done", cur)
  <2>1. \E m \in Message : LoopReturns(m)
    <3>1. CASE \E f \in Files : WriterOpens(f) \/ Deletes(f)
      BY <1>2, <3>1 DEF WriterOpens, Deletes
    <3>2. CASE WriterStep \/ MainStep
      BY <1>2, <3>2 DEF WriterStep, WriterWrites, WriterCloses, MainStep, WaitForEvents, SkipEvent,
                        SyncFile
    <3>3. CASE LoopStep
      BY <1>2, <3>3 DEF LoopStep, SendStanza, StreamWritable, StreamClosed, SendWrite, SendRead,
                        Cleanup, ReturnToLoop
    <3>4. CASE ClientStanza \/ LoggedOut \/ ServerStep
      BY <1>2, <3>4 DEF ClientStanza, LoggedOut, ServerStep, ServerStanza, ServerCloses
    <3>5. CASE \E t \in Tunnels : TunnelStep(t) \/ Deliver(t) \/ TunnelFails(t)
      BY <1>2, <3>5 DEF TunnelStep, TunnelOpens, TunnelWritable, TunnelDrained, DelayFires,
                        TunnelGivesUp, Deliver, TunnelFails
    <3>6. CASE UNCHANGED vars
      BY <1>2, <3>6 DEF vars
    <3> QED BY <1>2, <3>1, <3>2, <3>3, <3>4, <3>5, <3>6 DEF Next
  <2>2. PICK m \in Message : LoopReturns(m)
    BY <2>1
  <2> QED BY <1>2, <2>2, LoopLoopReturns DEF LoopReturns, Dispatch
<1>3. LoopInv /\ [Next]_vars
        => [xmpp /\ cpc = "loop" /\ cpc' = "main" => Head(cq) = Msg("done", cur)]_vars
  BY <1>2
<1> QED BY <1>1, <1>3, PTL DEF Spec, LoopEndsForItsFile

-----------------------------------------------------------------------------
(* A file that is reported as written is there.                            *)

\* The files and the events are those there were, or fewer events.
LEMMA ExistsFrame ==
  ASSUME ExistsOK, UNCHANGED <<env, disk, writer>>,
         \A e \in Held(kq') \cup Held(batch') : e.mask = "IN_CLOSE_WRITE" =>
            e \in Held(kq) \cup Held(batch),
         xmpp' /\ cpc' = "main" => cfile' = NULL \/ (cfile' = cfile /\ xmpp /\ cpc = "main")
  PROVE  ExistsOK'
<1> SUFFICES ASSUME "delete" \notin env.hazards PROVE ExistsOK'
  BY DEF ExistsOK
<1>1. \A e \in Held(kq') \cup Held(batch') : e.mask = "IN_CLOSE_WRITE" => disk'[e.name].exists
  BY DEF ExistsOK
<1> QED BY <1>1 DEF ExistsOK

\* Cleanup closes the file.
LEMMA ExistsCleanup ==
  ASSUME BasicInv, ExistsOK, NEW t, NEW delay, NEW q0, Cleanup(t, delay, q0),
         UNCHANGED <<env, disk, writer, batch>>
  PROVE  ExistsOK'
<1>1. TypeOK
  BY DEF BasicInv
<1>2. kq' = AfterReset(kq) /\ cfile' = NULL
  BY DEF Cleanup, ResetFile
<1>3. \A e \in Held(kq') : e.mask = "IN_CLOSE_WRITE" => e \in Held(kq)
  BY <1>1, <1>2, ResetEvent
<1> QED BY <1>2, <1>3, ExistsFrame

\* The writers.
LEMMA ExistsWriter ==
  ASSUME BasicInv, ExistsOK, NEW f \in Files,
         WriterOpens(f) \/ WriterWrites(f) \/ WriterCloses(f) \/ Deletes(f)
  PROVE  ExistsOK'
<1>0. TypeOK /\ Named
  BY DEF BasicInv
<1>u. UNCHANGED <<env, batch, xmpp, cpc, cfile>>
  BY DEF WriterOpens, WriterWrites, WriterCloses, Deletes
<1> SUFFICES ASSUME "delete" \notin env.hazards PROVE ExistsOK'
  BY <1>u DEF ExistsOK
<1>1. /\ \A e \in Held(kq) \cup Held(batch) : e.mask = "IN_CLOSE_WRITE" => disk[e.name].exists
      /\ \A g \in Files : writer[g] # "closed" => disk[g].exists
      /\ xmpp /\ cpc = "main" => cfile = NULL
  BY DEF ExistsOK
<1>2. /\ writer \in [Files -> {"closed", "open", "written"}]
      /\ disk \in [Files -> [ver : 0..MaxWrites, len : {0, FileUnits}, exists : BOOLEAN]]
      /\ kq \in Seq(Event)
  BY <1>0 DEF TypeOK
<1>d. ~Deletes(f)
  BY DEF Deletes
<1>3. /\ \A g \in Files : disk[g].exists => disk'[g].exists
      /\ \A g \in Files : writer'[g] # "closed" => disk'[g].exists
  <2>1. CASE WriterOpens(f)
    BY <1>1, <1>2, <2>1 DEF WriterOpens
  <2>2. CASE WriterWrites(f)
    BY <1>1, <1>2, <2>2 DEF WriterWrites
  <2>3. CASE WriterCloses(f)
    BY <1>1, <1>2, <2>3 DEF WriterCloses
  <2> QED BY <1>d, <2>1, <2>2, <2>3
<1>4. \A g \in Files : writer'[g] # "closed" => disk'[g].exists
  BY <1>3
<1>5. CASE WriterOpens(f) \/ WriterWrites(f) \/ Deletes(f)
  <2> DEFINE r == [mask |-> "OTHER", name |-> NULL]
  <2>1. r.mask # "IN_CLOSE_WRITE"
    OBVIOUS
  <2>2. kq' = Notify(kq, "OTHER", NULL)
    BY <1>5 DEF WriterOpens, WriterWrites, Deletes
  <2>3. Held(kq') = Held(kq) \cup {r}
    BY <1>2, <2>2, OtherEvent
  <2> HIDE DEF r
  <2>4. \A e \in Held(kq') \cup Held(batch') : e.mask = "IN_CLOSE_WRITE" =>
           e \in Held(kq) \cup Held(batch)
    BY <1>u, <2>1, <2>3
  <2>5. \A e \in Held(kq') \cup Held(batch') : e.mask = "IN_CLOSE_WRITE" => disk'[e.name].exists
    BY <1>0, <1>1, <1>3, <2>4 DEF Named
  <2> QED BY <1>1, <1>4, <1>u, <2>5 DEF ExistsOK
<1>6. CASE WriterCloses(f)
  <2> DEFINE r == [mask |-> "IN_CLOSE_WRITE", name |-> f]
  <2>1. r \in Event /\ r.mask = "IN_CLOSE_WRITE" /\ r.name = f
    BY DEF Event
  <2>2. kq' = Notify(kq, r.mask, r.name)
    BY <1>6 DEF WriterCloses
  <2> HIDE DEF r
  <2>3. Held(kq') = Held(kq) \cup {r}
    BY <1>2, <2>1, <2>2, ClosesNotify
  <2>4. disk[f].exists /\ disk' = disk
    BY <1>1, <1>6 DEF WriterCloses
  <2>5. \A e \in Held(kq') \cup Held(batch') : e.mask = "IN_CLOSE_WRITE" => disk'[e.name].exists
    BY <1>1, <1>u, <2>1, <2>3, <2>4
  <2> QED BY <1>1, <1>4, <1>u, <2>5 DEF ExistsOK
<1> QED BY <1>5, <1>6

\* CreateTunnel and ProcessStream: without deletions the file is there, and Loop is entered.
LEMMA ExistsSyncFile ==
  ASSUME BasicInv, ExistsOK, SyncFile
  PROVE  ExistsOK'
<1>0. TypeOK /\ UNCHANGED <<env, disk, writer, xmpp>>
  BY DEF BasicInv, SyncFile
<1> SUFFICES ASSUME "delete" \notin env.hazards PROVE ExistsOK'
  BY <1>0 DEF ExistsOK
<1>1. Head(batch) \in Held(batch) /\ Head(batch).mask = "IN_CLOSE_WRITE"
      /\ Held(Tail(batch)) \subseteq Held(batch) /\ batch' = Tail(batch)
  <2>1. batch # <<>>
    BY DEF SyncFile
  <2> QED BY <2>1, BatchTail DEF SyncFile, Wanted
<1>2. cpc' = "loop"
  BY <1>1 DEF ExistsOK, SyncFile
<1>3. \A e \in Held(kq') : e.mask = "IN_CLOSE_WRITE" => e \in Held(kq)
  <2> DEFINE r == [mask |-> "OTHER", name |-> NULL]
  <2>1. r.mask # "IN_CLOSE_WRITE"
    OBVIOUS
  <2>2. /\ AfterReset(kq) \in Seq(Event)
        /\ \A x \in Held(AfterReset(kq)) : x.mask = "IN_CLOSE_WRITE" => x \in Held(kq)
    BY <1>0, ResetEvent
  <2>3. Held(Notify(AfterReset(kq), "OTHER", NULL)) = Held(AfterReset(kq)) \cup {r}
    BY <2>2, OtherEvent
  <2>4. kq' = Notify(AfterReset(kq), "OTHER", NULL) \/ kq' = AfterReset(kq)
    BY DEF SyncFile
  <2> HIDE DEF r
  <2> QED BY <2>1, <2>2, <2>3, <2>4
<1> QED BY <1>0, <1>1, <1>2, <1>3, ExistsFrame

ControlInv == LoopInv /\ ExistsOK

\* Every step preserves ControlInv.
LEMMA ControlStep == ControlInv /\ [Next]_vars => ControlInv'
<1> SUFFICES ASSUME ControlInv, [Next]_vars PROVE ControlInv'
  OBVIOUS
<1>0. LoopInv' /\ LoopInv /\ BasicInv /\ ExistsOK
  BY LoopInvStep DEF ControlInv, LoopInv
<1> SUFFICES ExistsOK'
  BY <1>0 DEF ControlInv
<1>1. CASE \E f \in Files : WriterOpens(f) \/ Deletes(f)
  BY <1>0, <1>1, ExistsWriter
<1>2. CASE WriterStep
  BY <1>0, <1>2, ExistsWriter DEF WriterStep
<1>3. CASE MainStep
  <2>1. CASE WaitForEvents
    <3>1. Held(kq') = {} /\ batch' = kq
      BY <2>1, ShortQueues DEF WaitForEvents
    <3> QED BY <1>0, <2>1, <3>1, ExistsFrame DEF WaitForEvents
  <2>2. CASE SkipEvent
    <3>1. Held(Tail(batch)) \subseteq Held(batch) /\ batch' = Tail(batch)
      BY <1>0, <2>2, BatchTail DEF SkipEvent
    <3> QED BY <1>0, <2>2, <3>1, ExistsFrame DEF SkipEvent
  <2> QED BY <1>0, <1>3, <2>1, <2>2, ExistsSyncFile DEF MainStep
<1>4. CASE LoopStep
  <2>1. ASSUME NEW t \in Tunnels, StreamClosed(t) PROVE ExistsOK'
    <3>1. CASE hooked[t]
      BY <1>0, <2>1, <3>1, ExistsCleanup DEF StreamClosed
    <3>2. CASE ~hooked[t]
      BY <1>0, <2>1, <3>2, ExistsFrame DEF StreamClosed
    <3> QED BY <3>1, <3>2
  <2>2. CASE SendWrite
    <3>1. CASE Cleanup(sendT, FALSE, cq)
      BY <1>0, <2>2, <3>1, ExistsCleanup DEF SendWrite
    <3>2. CASE ~Cleanup(sendT, FALSE, cq)
      <4>1. UNCHANGED <<env, disk, writer, kq, batch>> /\ cpc' # "main"
        BY <2>2, <3>2 DEF SendWrite
      <4> QED BY <1>0, <4>1, ExistsFrame
    <3> QED BY <3>1, <3>2
  <2>3. CASE SendRead
    <3>1. CASE Cleanup(sendT, TRUE, cq)
      BY <1>0, <2>3, <3>1, ExistsCleanup DEF SendRead
    <3>2. CASE ~Cleanup(sendT, TRUE, cq)
      <4>1. UNCHANGED <<env, disk, writer, kq, batch>> /\ cpc' # "main"
        BY <2>3, <3>2 DEF SendRead
      <4> QED BY <1>0, <4>1, ExistsFrame
    <3> QED BY <3>1, <3>2
  <2>4. ASSUME NEW m \in Message, LoopReturns(m) PROVE ExistsOK'
    <3>1. UNCHANGED <<env, disk, writer, kq, batch, xmpp, cfile>>
      BY <2>4 DEF LoopReturns
    <3> QED BY <1>0, <2>4, <3>1, LoopLoopReturns, ExistsFrame
  <2>5. ASSUME NEW t \in Tunnels, NEW k, SendStanza(t, k) \/ StreamWritable(t) PROVE ExistsOK'
    <3>1. UNCHANGED <<env, disk, writer, kq, batch>> /\ cpc' # "main"
      BY <2>5 DEF SendStanza, StreamWritable, Dispatch
    <3> QED BY <1>0, <3>1, ExistsFrame
  <2> QED BY <1>4, <2>1, <2>2, <2>3, <2>4, <2>5 DEF LoopStep
<1>5. CASE ClientStanza \/ LoggedOut \/ ServerStep
  <2>1. /\ UNCHANGED <<env, disk, writer, kq, batch, cpc, cfile>>
        /\ xmpp' => xmpp
    BY <1>5 DEF ClientStanza, LoggedOut, ServerStep, ServerStanza, ServerCloses, RecvInitiate,
                RecvTerminate
  <2> QED BY <1>0, <2>1, ExistsFrame DEF ExistsOK
<1>6. CASE \E t \in Tunnels : TunnelStep(t) \/ Deliver(t) \/ TunnelFails(t)
  <2>1. UNCHANGED <<env, disk, writer, kq, batch, cpc, cfile, xmpp>>
    BY <1>6 DEF TunnelStep, TunnelOpens, TunnelWritable, TunnelDrained, DelayFires,
                TunnelGivesUp, Deliver, TunnelFails
  <2> QED BY <1>0, <2>1, ExistsFrame DEF ExistsOK
<1>7. CASE UNCHANGED vars
  BY <1>0, <1>7 DEF vars, ExistsOK
<1> QED BY <1>1, <1>2, <1>3, <1>4, <1>5, <1>6, <1>7 DEF Next

\* The initial states.
LEMMA ControlInit == Init => ControlInv
<1> SUFFICES ASSUME Init PROVE ControlInv
  OBVIOUS
<1>1. Held(kq) = {} /\ Held(batch) = {}
  BY ShortQueues DEF Init
<1>2. ExistsOK
  BY <1>1 DEF Init, ExistsOK
<1> QED BY <1>2, LoopInvInit DEF ControlInv

\* The control of the client: at most one tunnel is engaged with the pump's file.
THEOREM ControlInvariant == Spec => []ControlInv
BY ControlInit, ControlStep, PTL DEF Spec

\* ASSERT(file_.get() == NULL) of ProcessStream holds while the client is logged in and
\* no file is deleted (src/main/customxmpppump.cc, ProcessStream).
THEOREM AlwaysFileCleared == Spec => FileClearedBeforeProcessStream
<1>1. ASSUME ControlInv, [Next]_vars, opened' # opened, xmpp, "delete" \notin env.hazards
      PROVE  cfile = NULL
  <2>1. SyncFile
    <3>1. CASE \E f \in Files : WriterOpens(f) \/ Deletes(f)
      BY <1>1, <3>1 DEF WriterOpens, Deletes
    <3>2. CASE WriterStep \/ MainStep
      BY <1>1, <3>2 DEF WriterStep, WriterWrites, WriterCloses, MainStep, WaitForEvents, SkipEvent
    <3>3. CASE LoopStep
      BY <1>1, <3>3 DEF LoopStep, SendStanza, StreamWritable, StreamClosed, SendWrite, SendRead,
                        LoopReturns
    <3>4. CASE ClientStanza \/ LoggedOut \/ ServerStep
      BY <1>1, <3>4 DEF ClientStanza, LoggedOut, ServerStep, ServerStanza, ServerCloses
    <3>5. CASE \E t \in Tunnels : TunnelStep(t) \/ Deliver(t) \/ TunnelFails(t)
      BY <1>1, <3>5 DEF TunnelStep, TunnelOpens, TunnelWritable, TunnelDrained, DelayFires,
                        TunnelGivesUp, Deliver, TunnelFails
    <3>6. CASE UNCHANGED vars
      BY <1>1, <3>6 DEF vars
    <3> QED BY <1>1, <3>1, <3>2, <3>3, <3>4, <3>5, <3>6 DEF Next
  <2> QED BY <1>1, <2>1 DEF SyncFile, ControlInv, ExistsOK
<1>2. ControlInv /\ [Next]_vars
        => [opened' # opened /\ xmpp /\ "delete" \notin env.hazards => cfile = NULL]_vars
  BY <1>1
<1> QED BY <1>2, ControlInvariant, PTL DEF Spec, FileClearedBeforeProcessStream
-----------------------------------------------------------------------------
(* The server: one tunnel at a time.                                       *)

\* The server's part is as it was, and no initiate is added.
LEMMA ServerFrame ==
  ASSUME ServerOK, UNCHANGED <<sst, sfile, sq>>,
         \A t \in Tunnels :
           /\ Msg("initiate", t) \in Held(cq') => Msg("initiate", t) \in Held(cq)
           /\ Once(cq, Msg("initiate", t)) => Once(cq', Msg("initiate", t))
           /\ Msg("initiate", t) \in Held(toServer') => Msg("initiate", t) \in Held(toServer)
           /\ Once(toServer, Msg("initiate", t)) => Once(toServer', Msg("initiate", t))
           /\ Msg("accept", t) \in Held(toClient') => Msg("accept", t) \in Held(toClient)
           /\ sst[t] = "none" => wire'[t] = <<>> /\ cst'[t] \in {"none", "opening", "over"}
  PROVE  ServerOK'
BY DEF ServerOK

\* Nothing that the server depends on changes.
LEMMA ServerSame ==
  ASSUME ServerOK, UNCHANGED <<sst, sfile, sq, cq, toServer, toClient, wire, cst>>
  PROVE  ServerOK'
BY DEF ServerOK

\* A message that is no initiate is dispatched or posted.
LEMMA ServerQueue ==
  ASSUME BasicInv, ServerOK, UNCHANGED <<sst, sfile, sq, toServer, toClient>>,
         \/ \E m : Dispatch(m) /\ cq' = Tail(cq)
         \/ \E m \in Message : cq' = Append(cq, m) /\ m.k # "initiate"
         \/ cq' = cq,
         \A t \in Tunnels : sst[t] = "none" =>
            wire'[t] = <<>> /\ cst'[t] \in {"none", "opening", "over"}
  PROVE  ServerOK'
<1>0. TypeOK
  BY DEF BasicInv
<1>1. \A t \in Tunnels :
           /\ Msg("initiate", t) \in Held(cq') => Msg("initiate", t) \in Held(cq)
           /\ Once(cq, Msg("initiate", t)) => Once(cq', Msg("initiate", t))
  <2>1. CASE \E m : Dispatch(m) /\ cq' = Tail(cq)
    BY <1>0, <2>1, Dispatched
  <2>2. CASE \E m \in Message : cq' = Append(cq, m) /\ m.k # "initiate"
    <3>1. PICK m \in Message : cq' = Append(cq, m) /\ m.k # "initiate"
      BY <2>2
    <3>2. /\ Held(cq') = Held(cq) \cup {m}
          /\ \A x : Once(cq, x) /\ ~(x = m /\ m \in Held(cq)) => Once(cq', x)
      BY <1>0, <3>1, Posted
    <3>3. \A t \in Tunnels : Msg("initiate", t) # m
      BY <3>1, MsgTypes
    <3> QED BY <3>2, <3>3
  <2> QED BY <2>1, <2>2
<1> QED BY <1>1, ServerFrame

\* Cleanup posts no initiate.
LEMMA ServerCleanup ==
  ASSUME BasicInv, ServerOK, NEW t \in Tunnels, NEW delay \in BOOLEAN,
         NEW q0 \in Seq(Message), Held(q0) \subseteq Held(cq), \A x : Once(cq, x) => Once(q0, x),
         Cleanup(t, delay, q0), UNCHANGED <<sst, sfile, sq, toServer, toClient, wire>>
  PROVE  ServerOK'
<1> DEFINE c == ClearEvents(q0, t) \o DoneNow(t, delay)
                  \o (IF Drained(t) THEN <<Msg("terminate", t)>> ELSE <<>>)
<1>1. Drained(t) \in BOOLEAN
  BY DEF Drained
<1>2. /\ Held(c) = (Held(q0) \ {Msg("write", t), Msg("close", t)})
                           \cup (IF delay THEN {} ELSE {Msg("done", t)})
                           \cup (IF Drained(t) THEN {Msg("terminate", t)} ELSE {})
      /\ \A m \in Message :
           Once(q0, m) /\ m # Msg("terminate", t) /\ ~(m = Msg("done", t) /\ m \in Held(q0))
             => Once(c, m)
  <2> HIDE DEF c
  <2> QED BY <1>1, CleanupQueue DEF c
<1>3. cq' = c /\ cst' = Set(cst, t, IF cst[t] = "connected" /\ ~Drained(t) THEN "closing" ELSE "over")
  BY DEF Cleanup
<1> HIDE DEF c
<1>4. ASSUME NEW u \in Tunnels
      PROVE  /\ Msg("initiate", u) \in Held(cq') => Msg("initiate", u) \in Held(cq)
             /\ Once(cq, Msg("initiate", u)) => Once(cq', Msg("initiate", u))
  <2>1. /\ Msg("initiate", u) \in Message
        /\ Msg("initiate", u) # Msg("terminate", t) /\ Msg("initiate", u) # Msg("done", t)
    BY MsgTypes
  <2> QED BY <1>2, <1>3, <2>1
<1>5. \A u \in Tunnels : sst[u] = "none" =>
         wire'[u] = <<>> /\ cst'[u] \in {"none", "opening", "over"}
  <2>1. \A u \in Tunnels : sst[u] = "none" =>
           wire[u] = <<>> /\ cst[u] \in {"none", "opening", "over"}
    BY DEF ServerOK
  <2>2. cst \in [Tunnels -> {"none", "opening", "accepted", "connected", "failed", "closing", "over"}]
    BY DEF BasicInv, TypeOK
  <2> QED BY <1>3, <2>1, <2>2
<1> QED BY <1>4, <1>5, ServerFrame

\* A task sends its stanza: the initiate is now under way.
LEMMA ServerSendStanza ==
  ASSUME BasicInv, ServerOK, NEW t \in Tunnels, NEW k \in {"initiate", "terminate"},
         SendStanza(t, k)
  PROVE  ServerOK'
<1>0. TypeOK
  BY DEF BasicInv
<1>1. /\ Held(cq) = {Msg(k, t)} \cup Held(cq')
      /\ \A x : Once(cq, x) => Once(cq', x) /\ (x = Msg(k, t) => x \notin Held(cq'))
  BY <1>0, Dispatched DEF SendStanza
<1>2. UNCHANGED <<sst, sfile, sq, toClient, wire, cst>>
  BY DEF SendStanza
<1>3. /\ Held(toServer') \subseteq Held(toServer) \cup {Msg(k, t)}
      /\ \A x : Once(toServer, x) /\ ~(x = Msg(k, t) /\ x \in Held(toServer)) => Once(toServer', x)
  <2>1. toServer \in Seq(Stanza) /\ Msg(k, t) \in Stanza
    BY <1>0, MsgTypes DEF TypeOK
  <2>2. /\ Held(Append(toServer, Msg(k, t))) = Held(toServer) \cup {Msg(k, t)}
        /\ \A x : Once(toServer, x) /\ ~(x = Msg(k, t) /\ Msg(k, t) \in Held(toServer))
                    => Once(Append(toServer, Msg(k, t)), x)
    BY <2>1, AppendQueue
  <2>3. toServer' = Append(toServer, Msg(k, t)) \/ toServer' = toServer
    BY DEF SendStanza
  <2> QED BY <2>2, <2>3
<1>4. ASSUME NEW u \in Tunnels
      PROVE  /\ Msg("initiate", u) \in Held(cq') \cup Held(toServer') => sst'[u] = "none"
             /\ Once(cq', Msg("initiate", u)) /\ Once(toServer', Msg("initiate", u))
             /\ Msg("initiate", u) \in Held(cq') => Msg("initiate", u) \notin Held(toServer')
  <2>1. /\ Msg("initiate", u) \in Held(cq) \cup Held(toServer) => sst[u] = "none"
        /\ Once(cq, Msg("initiate", u)) /\ Once(toServer, Msg("initiate", u))
        /\ Msg("initiate", u) \in Held(cq) => Msg("initiate", u) \notin Held(toServer)
    BY DEF ServerOK
  <2> QED BY <1>1, <1>2, <1>3, <2>1
<1> QED BY <1>2, <1>4 DEF ServerOK

\* CreateTunnel asks for a session that the server knows nothing of.
LEMMA ServerSyncFile ==
  ASSUME BasicInv, ServerOK, SyncFile
  PROVE  ServerOK'
<1>0. TypeOK /\ Fresh
  BY DEF BasicInv
<1>1. PICK t \in Tunnels : t = opened + 1
  BY BasicSyncFile
<1>2. UNCHANGED <<sst, sfile, sq, toServer, toClient, wire>>
      /\ cst' = Set(cst, t, "opening") /\ (cq' = Append(cq, Msg("initiate", t)) \/ cq' = cq)
  BY <1>1 DEF SyncFile
<1>3. sst[t] = "none" /\ wire[t] = <<>>
      /\ Msg("initiate", t) \notin Held(cq) \cup Held(toServer)
  <2>1. t > opened /\ ~(t <= opened)
    BY <1>0, <1>1, Counters
  <2> QED BY <1>0, <2>1, MsgTypes DEF Fresh
<1>4. /\ Held(cq') \subseteq Held(cq) \cup {Msg("initiate", t)}
      /\ \A x : Once(cq, x) => Once(cq', x)
  <2>1. /\ Held(Append(cq, Msg("initiate", t))) = Held(cq) \cup {Msg("initiate", t)}
        /\ \A x : Once(cq, x) /\ ~(x = Msg("initiate", t) /\ Msg("initiate", t) \in Held(cq))
                    => Once(Append(cq, Msg("initiate", t)), x)
    BY <1>0, Posted, MsgTypes
  <2> QED BY <1>2, <1>3, <2>1
<1>5. ASSUME NEW u \in Tunnels
      PROVE  /\ Msg("initiate", u) \in Held(cq') \cup Held(toServer') => sst'[u] = "none"
             /\ Once(cq', Msg("initiate", u)) /\ Once(toServer', Msg("initiate", u))
             /\ Msg("initiate", u) \in Held(cq') => Msg("initiate", u) \notin Held(toServer')
  <2>1. /\ Msg("initiate", u) \in Held(cq) \cup Held(toServer) => sst[u] = "none"
        /\ Once(cq, Msg("initiate", u)) /\ Once(toServer, Msg("initiate", u))
        /\ Msg("initiate", u) \in Held(cq) => Msg("initiate", u) \notin Held(toServer)
    BY DEF ServerOK
  <2>2. Msg("initiate", u) = Msg("initiate", t) => u = t
    BY MsgTypes
  <2> QED BY <1>2, <1>3, <1>4, <2>1, <2>2
<1>6. \A u \in Tunnels : sst[u] = "none" =>
         wire'[u] = <<>> /\ cst'[u] \in {"none", "opening", "over"}
  <2>1. cst \in [Tunnels -> {"none", "opening", "accepted", "connected", "failed", "closing", "over"}]
    BY <1>0 DEF TypeOK
  <2>2. \A u \in Tunnels : sst[u] = "none" =>
           wire[u] = <<>> /\ cst[u] \in {"none", "opening", "over"}
    BY DEF ServerOK
  <2> QED BY <1>2, <2>1, <2>2
<1> QED BY <1>2, <1>5, <1>6 DEF ServerOK

\* The server answers an initiate, or learns that a tunnel is terminated.
LEMMA ServerServerStanza ==
  ASSUME BasicInv, ServerOK, ServerStanza
  PROVE  ServerOK'
<1>0. TypeOK
  BY DEF BasicInv
<1>1. PICK t \in Tunnels : t = Head(toServer).t
  BY ServerStanzaFacts
<1>2. /\ Head(toServer) = Msg(Head(toServer).k, t)
      /\ Held(toServer) = {Head(toServer)} \cup Held(toServer')
      /\ \A x : Once(toServer, x) => Once(toServer', x)
                     /\ (x = Head(toServer) => x \notin Held(toServer'))
  BY <1>1, ServerStanzaFacts
<1>u. UNCHANGED <<cq, wire, cst>>
  BY DEF ServerStanza
<1>t. t # 0 /\ 0 \notin Tunnels /\ sst \in [Tunnels -> {"none", "accepted", "over"}] /\ sq \in Seq(Tunnels)
  BY <1>0, MaxWritesBound DEF TypeOK, Tunnels
<1>3. CASE RecvInitiate(t) /\ Head(toServer).k = "initiate"
  <2>1. Head(toServer) = Msg("initiate", t) /\ sst[t] = "none"
    BY <1>1, <1>2, <1>3 DEF ServerOK
  <2>2. Msg("initiate", t) \notin Held(cq') \cup Held(toServer')
    BY <1>2, <1>u, <2>1 DEF ServerOK
  <2>3. PICK st \in {"accepted", "over"} : sst' = Set(sst, t, st)
    BY <1>3 DEF RecvInitiate
  <2>4. /\ sst'[t] = st /\ \A u \in Tunnels : u # t => sst'[u] = sst[u]
    BY <1>t, <2>3
  <2>5. ASSUME NEW u \in Tunnels
        PROVE  /\ Msg("initiate", u) \in Held(cq') \cup Held(toServer') => sst'[u] = "none"
               /\ Once(cq', Msg("initiate", u)) /\ Once(toServer', Msg("initiate", u))
               /\ Msg("initiate", u) \in Held(cq') => Msg("initiate", u) \notin Held(toServer')
               /\ sst'[u] = "none" => wire'[u] = <<>> /\ cst'[u] \in {"none", "opening", "over"}
    <3>1. CASE u = t
      BY <1>2, <1>u, <2>2, <2>4, <3>1 DEF ServerOK
    <3>2. CASE u # t
      BY <1>2, <1>u, <2>4, <3>2 DEF ServerOK
    <3> QED BY <3>1, <3>2
  <2>6. \A u \in Tunnels : Msg("accept", u) \in Held(toClient') => sst'[u] # "none"
    <3>1. PICK k \in {"reject", "accept"} : toClient' = Append(toClient, Msg(k, t))
      BY <1>3 DEF RecvInitiate
    <3>2. toClient \in Seq(Stanza) /\ Msg(k, t) \in Stanza
      BY <1>0, MsgTypes DEF TypeOK
    <3>3. Held(toClient') = Held(toClient) \cup {Msg(k, t)}
      BY <3>1, <3>2, AppendQueue
    <3>4. ASSUME NEW u \in Tunnels, Msg("accept", u) \in Held(toClient'), u # t
          PROVE  sst[u] # "none"
      <4>1. Msg("accept", u) # Msg(k, t)
        BY <3>4, MsgTypes
      <4> QED BY <3>3, <3>4, <4>1 DEF ServerOK
    <3> QED BY <2>4, <3>4
  <2>7. /\ \A u \in Tunnels : sst'[u] = "accepted" <=> sfile' = u
        /\ sq' = <<>> \/ (sfile' # 0 /\ sq' = <<sfile'>>)
    <3>1. /\ \A u \in Tunnels : sst[u] = "accepted" <=> sfile = u
          /\ sq = <<>> \/ (sfile # 0 /\ sq = <<sfile>>) 
          /\ sq' = sq
      BY <1>3 DEF ServerOK, RecvInitiate
    <3>2. CASE sst' = Set(sst, t, "accepted")
      <4>1. sfile' = t /\ sfile = 0
        BY <1>3, <1>t, <3>2 DEF RecvInitiate, Declines
      <4> QED BY <1>t, <3>1, <3>2, <4>1
    <3>3. CASE sst' = Set(sst, t, "over")
      <4>1. sfile' = sfile
        BY <1>3, <1>t, <3>3 DEF RecvInitiate
      <4>2. sfile # t
        BY <2>1, <3>1
      <4> QED BY <1>t, <3>1, <3>3, <4>1, <4>2
    <3> QED BY <2>3, <3>2, <3>3
  <2> QED BY <2>5, <2>6, <2>7 DEF ServerOK
<1>4. CASE RecvTerminate(t)
  <2>1. UNCHANGED <<toClient, sst, sfile>>
    BY <1>4 DEF RecvTerminate
  <2>2. sq' = <<>> \/ (sfile' # 0 /\ sq' = <<sfile'>>)
    <3>1. CASE sq' = sq
      BY <2>1, <3>1 DEF ServerOK
    <3>2. CASE sq' # sq
      <4>1. sst[t] = "accepted" /\ t \notin Range(sq) /\ sq' = Append(sq, t)
        BY <1>4, <3>2 DEF RecvTerminate
      <4>2. sfile = t
        BY <4>1 DEF ServerOK
      <4>3. sq # <<t>>
        BY <4>1 DEF Range
      <4>4. sq = <<>>
        BY <4>2, <4>3 DEF ServerOK
      <4>5. Append(sq, t) = <<t>>
        BY <4>4
      <4> QED BY <1>t, <2>1, <4>1, <4>2, <4>5
    <3> QED BY <3>1, <3>2
  <2>3. ASSUME NEW u \in Tunnels
        PROVE  /\ Msg("initiate", u) \in Held(cq') \cup Held(toServer') => sst'[u] = "none"
               /\ Once(cq', Msg("initiate", u)) /\ Once(toServer', Msg("initiate", u))
               /\ Msg("initiate", u) \in Held(cq') => Msg("initiate", u) \notin Held(toServer')
               /\ Msg("accept", u) \in Held(toClient') => sst'[u] # "none"
               /\ sst'[u] = "none" => wire'[u] = <<>> /\ cst'[u] \in {"none", "opening", "over"}
    BY <1>2, <1>u, <2>1 DEF ServerOK
  <2> QED BY <2>1, <2>2, <2>3 DEF ServerOK
<1> QED BY <1>1, <1>3, <1>4 DEF ServerStanza

\* The server closes its file.
LEMMA ServerServerCloses ==
  ASSUME BasicInv, ServerOK, ServerCloses
  PROVE  ServerOK'
<1>1. sfile # 0 /\ sq = <<sfile>>
  BY DEF ServerOK, ServerCloses
<1>2. sq' = <<>> /\ sst' = Set(sst, sfile, "over") /\ sfile' = 0
      /\ UNCHANGED <<cq, toServer, toClient, wire, cst>>
  BY <1>1 DEF ServerCloses
<1>3. sst \in [Tunnels -> {"none", "accepted", "over"}] /\ sfile \in Tunnels /\ 0 \notin Tunnels
  BY <1>1, MaxWritesBound DEF BasicInv, TypeOK, Tunnels
<1>4. sst[sfile] = "accepted"
  BY <1>3 DEF ServerOK
<1>5. sst'[sfile] = "over" /\ \A u \in Tunnels : u # sfile => sst'[u] = sst[u]
  BY <1>2, <1>3
<1>6. \A u \in Tunnels : sst'[u] # "accepted" /\ sfile' # u
  BY <1>2, <1>3, <1>5 DEF ServerOK
<1>7. ASSUME NEW u \in Tunnels
      PROVE  /\ Msg("initiate", u) \in Held(cq') \cup Held(toServer') => sst'[u] = "none"
             /\ Msg("accept", u) \in Held(toClient') => sst'[u] # "none"
             /\ sst'[u] = "none" => wire'[u] = <<>> /\ cst'[u] \in {"none", "opening", "over"}
  BY <1>2, <1>4, <1>5 DEF ServerOK
<1>8. ASSUME NEW u \in Tunnels
      PROVE  /\ Once(cq', Msg("initiate", u)) /\ Once(toServer', Msg("initiate", u))
             /\ Msg("initiate", u) \in Held(cq') => Msg("initiate", u) \notin Held(toServer')
  BY <1>2 DEF ServerOK
<1> QED BY <1>2, <1>6, <1>7, <1>8 DEF ServerOK

\* The client takes an accept, a reject or a terminate.
LEMMA ServerClientStanza ==
  ASSUME BasicInv, ServerOK, ClientStanza
  PROVE  ServerOK'
<1>0. TypeOK
  BY DEF BasicInv
<1>1. PICK t \in Tunnels : t = Head(toClient).t
  BY ClientStanzaFacts
<1>2. Head(toClient) = Msg(Head(toClient).k, t) /\ Head(toClient) \in Held(toClient)
      /\ Held(toClient') \subseteq Held(toClient)
  BY <1>1, ClientStanzaFacts
<1>3. UNCHANGED <<sst, sfile, sq, toServer>>
  BY DEF ClientStanza
<1>4. /\ cst \in [Tunnels -> {"none", "opening", "accepted", "connected", "failed", "closing", "over"}]
      /\ wire \in [Tunnels -> Seq(Unit)]
  BY <1>0 DEF TypeOK
<1>5. \A u \in Tunnels : sst[u] = "none" =>
         wire[u] = <<>> /\ cst[u] \in {"none", "opening", "over"} /\ Msg("accept", u) \notin Held(toClient)
  BY DEF ServerOK
<1>6. \A u \in Tunnels : sst[u] = "none" =>
         wire'[u] = <<>> /\ cst'[u] \in {"none", "opening", "over"}
  <2>1. CASE RecvAccept(t) /\ Head(toClient).k = "accept"
    <3>1. sst[t] # "none"
      BY <1>2, <1>5, <2>1
    <3>2. wire' = wire /\ \A u \in Tunnels : u # t => cst'[u] = cst[u]
      BY <1>4, <2>1 DEF RecvAccept
    <3> QED BY <1>5, <3>1, <3>2
  <2>2. CASE RecvEnd(t)
    BY <1>4, <1>5, <2>2 DEF RecvEnd
  <2> QED BY <1>1, <2>1, <2>2 DEF ClientStanza
<1>7. \A u \in Tunnels :
         /\ Msg("initiate", u) \in Held(cq') => Msg("initiate", u) \in Held(cq)
         /\ Once(cq, Msg("initiate", u)) => Once(cq', Msg("initiate", u))
  <2>1. cq' = cq \/ cq' = Append(cq, Msg("close", t))
    BY <1>1 DEF ClientStanza, RecvAccept, RecvEnd
  <2>2. /\ Held(Append(cq, Msg("close", t))) = Held(cq) \cup {Msg("close", t)}
        /\ \A x : Once(cq, x) /\ ~(x = Msg("close", t) /\ Msg("close", t) \in Held(cq))
                    => Once(Append(cq, Msg("close", t)), x)
    BY <1>0, Posted, MsgTypes
  <2>3. \A u \in Tunnels : Msg("initiate", u) # Msg("close", t)
    BY MsgTypes
  <2> QED BY <2>1, <2>2, <2>3
<1> QED BY <1>2, <1>3, <1>6, <1>7, ServerFrame

\* Every step preserves ServerOK.
LEMMA ServerOKStep ==
  ASSUME ControlInv, ServerOK, [Next]_vars
  PROVE  ServerOK'
<1>0. LoopInv /\ BasicInv /\ TypeOK
  BY DEF ControlInv, LoopInv, BasicInv
<1>n. \A t \in Tunnels : sst[t] = "none" => wire[t] = <<>> /\ cst[t] \in {"none", "opening", "over"}
  BY DEF ServerOK
<1>t. /\ cst \in [Tunnels -> {"none", "opening", "accepted", "connected", "failed", "closing", "over"}]
      /\ wire \in [Tunnels -> Seq(Unit)] /\ cq \in Seq(Message)
  BY <1>0 DEF TypeOK
<1>1. CASE \E f \in Files : WriterOpens(f) \/ Deletes(f)
  BY <1>1, ServerSame DEF WriterOpens, Deletes
<1>2. CASE WriterStep
  BY <1>2, ServerSame DEF WriterStep, WriterWrites, WriterCloses
<1>3. CASE MainStep
  <2>1. CASE WaitForEvents \/ SkipEvent
    BY <2>1, ServerSame DEF WaitForEvents, SkipEvent
  <2> QED BY <1>0, <1>3, <2>1, ServerSyncFile DEF MainStep
<1>4. CASE LoopStep
  <2>1. ASSUME NEW t \in Tunnels, NEW k \in {"initiate", "terminate"}, SendStanza(t, k)
        PROVE  ServerOK'
    BY <1>0, <2>1, ServerSendStanza
  <2>2. ASSUME NEW t \in Tunnels, StreamWritable(t) PROVE ServerOK'
    <3>1. UNCHANGED <<sst, sfile, sq, toServer, toClient, wire, cst>>
          /\ \E m : Dispatch(m) /\ cq' = Tail(cq)
      BY <2>2 DEF StreamWritable
    <3> QED BY <1>0, <1>n, <3>1, ServerQueue
  <2>3. ASSUME NEW t \in Tunnels, StreamClosed(t) PROVE ServerOK'
    <3>1. UNCHANGED <<sst, sfile, sq, toServer, toClient, wire>> /\ Dispatch(Msg("close", t))
      BY <2>3 DEF StreamClosed
    <3>2. CASE hooked[t]
      <4>1. Cleanup(t, FALSE, Tail(cq))
        BY <2>3, <3>2 DEF StreamClosed
      <4>2. /\ Tail(cq) \in Seq(Message) /\ Held(Tail(cq)) \subseteq Held(cq)
            /\ \A x : Once(cq, x) => Once(Tail(cq), x)
        BY <1>0, <3>1, Dispatched
      <4> QED BY <1>0, <3>1, <4>1, <4>2, ServerCleanup
    <3>3. CASE ~hooked[t]
      <4>1. cq' = Tail(cq) /\ cst' = cst
        BY <2>3, <3>3 DEF StreamClosed
      <4> QED BY <1>0, <1>n, <3>1, <4>1, ServerQueue
    <3> QED BY <3>2, <3>3
  <2>4. CASE SendWrite
    <3>1. UNCHANGED <<sst, sfile, sq, toServer, toClient>> /\ sendT \in Tunnels
      BY <1>0, <2>4, SendingEngaged DEF SendWrite
    <3>2. CASE Cleanup(sendT, FALSE, cq) /\ wire' = wire
      BY <1>0, <1>t, <3>1, <3>2, ServerCleanup
    <3>3. CASE UNCHANGED <<cq, cst, wire>>
      BY <3>1, <3>3, ServerSame
    <3>4. CASE /\ cst[sendT] = "connected" /\ UNCHANGED <<cq, cst>>
               /\ wire' = Set(wire, sendT, Append(wire[sendT], cbuf[1]))
      <4>1. sst[sendT] # "none" /\ \A u \in Tunnels : u # sendT => wire'[u] = wire[u]
        BY <1>n, <1>t, <3>1, <3>4
      <4> QED BY <1>0, <1>n, <3>1, <3>4, <4>1, ServerQueue
    <3> QED BY <2>4, <3>2, <3>3, <3>4 DEF SendWrite
  <2>5. CASE SendRead
    <3>1. UNCHANGED <<sst, sfile, sq, toServer, toClient, wire>> /\ sendT \in Tunnels
      BY <1>0, <2>5, SendingEngaged DEF SendRead
    <3>2. CASE Cleanup(sendT, TRUE, cq)
      BY <1>0, <1>t, <3>1, <3>2, ServerCleanup
    <3>3. CASE UNCHANGED <<cq, cst>>
      BY <3>1, <3>3, ServerSame
    <3> QED BY <2>5, <3>2, <3>3 DEF SendRead
  <2>6. ASSUME NEW m \in Message, LoopReturns(m) PROVE ServerOK'
    <3>1. UNCHANGED <<sst, sfile, sq, toServer, toClient, wire, cst>>
          /\ Dispatch(m) /\ cq' = Tail(cq)
      BY <2>6 DEF LoopReturns
    <3> QED BY <1>0, <1>n, <3>1, ServerQueue
  <2> QED BY <1>4, <2>1, <2>2, <2>3, <2>4, <2>5, <2>6 DEF LoopStep
<1>5. CASE ClientStanza
  BY <1>0, <1>5, ServerClientStanza
<1>6. ASSUME NEW t \in Tunnels, TunnelStep(t) \/ TunnelFails(t) PROVE ServerOK'
  <2>1. UNCHANGED <<sst, sfile, sq, toServer, toClient>>
    BY <1>6 DEF TunnelStep, TunnelOpens, TunnelWritable, TunnelDrained, DelayFires,
                TunnelGivesUp, TunnelFails
  <2>2. \E m \in Message : cq' = Append(cq, m) /\ m.k # "initiate"
    <3>1. \E k \in {"write", "terminate", "close", "done"} : cq' = Append(cq, Msg(k, t))
      BY <1>6 DEF TunnelStep, TunnelOpens, TunnelWritable, TunnelDrained, DelayFires,
                  TunnelGivesUp, TunnelFails
    <3>2. \A k \in {"write", "terminate", "close", "done"} :
             Msg(k, t) \in Message /\ Msg(k, t).k # "initiate"
      BY MsgTypes
    <3> QED BY <3>1, <3>2
  <2>3. \A u \in Tunnels : sst[u] = "none" =>
          wire'[u] = <<>> /\ cst'[u] \in {"none", "opening", "over"}
    <3>1. CASE TunnelOpens(t)
      BY <1>n, <1>t, <3>1 DEF TunnelOpens
    <3>2. CASE TunnelWritable(t) \/ DelayFires(t)
      BY <1>n, <3>2 DEF TunnelWritable, DelayFires
    <3>3. CASE TunnelDrained(t) \/ TunnelGivesUp(t)
      BY <1>n, <1>t, <3>3 DEF TunnelDrained, TunnelGivesUp
    <3>4. CASE TunnelFails(t)
      BY <1>n, <1>t, <3>4 DEF TunnelFails
    <3> QED BY <1>6, <3>1, <3>2, <3>3, <3>4 DEF TunnelStep
  <2> QED BY <1>0, <2>1, <2>2, <2>3, ServerQueue
<1>7. ASSUME NEW t \in Tunnels, Deliver(t) PROVE ServerOK'
  <2>1. UNCHANGED <<sst, sfile, sq, toServer, toClient, cq, cst>> /\ sst[t] = "accepted"
        /\ \A u \in Tunnels : u # t => wire'[u] = wire[u]
    BY <1>t, <1>7 DEF Deliver
  <2> QED BY <1>0, <1>n, <2>1, ServerQueue
<1>8. CASE LoggedOut
  <2>1. UNCHANGED <<sst, sfile, sq, toClient, wire, cst>> /\ toServer' \in {toServer, <<>>}
        /\ cq' = Append(cq, Msg("login_failed", 0))
    BY <1>8 DEF LoggedOut
  <2>2. \A t \in Tunnels :
           /\ Msg("initiate", t) \in Held(cq') => Msg("initiate", t) \in Held(cq)
           /\ Once(cq, Msg("initiate", t)) => Once(cq', Msg("initiate", t))
    <3>1. /\ Held(cq') = Held(cq) \cup {Msg("login_failed", 0)}
          /\ \A x : Once(cq, x) /\ ~(x = Msg("login_failed", 0) /\ Msg("login_failed", 0) \in Held(cq))
                      => Once(cq', x)
      BY <1>0, <2>1, Posted, MsgTypes
    <3>2. \A t \in Tunnels : Msg("initiate", t) # Msg("login_failed", 0)
      BY MsgTypes
    <3> QED BY <3>1, <3>2
  <2>3. \A x : /\ x \in Held(toServer') => x \in Held(toServer)
               /\ Once(toServer, x) => Once(toServer', x)
    BY <2>1, ShortQueues
  <2> QED BY <1>n, <2>1, <2>2, <2>3, ServerFrame
<1>9. CASE ServerStep
  BY <1>0, <1>9, ServerServerStanza, ServerServerCloses DEF ServerStep
<1>10. CASE UNCHANGED vars
  BY <1>10, ServerSame DEF vars
<1> QED BY <1>1, <1>2, <1>3, <1>4, <1>5, <1>6, <1>7, <1>8, <1>9, <1>10 DEF Next

-----------------------------------------------------------------------------
(* What the server's files receive.                                        *)

\* The write of a unit is a number.
LEMMA UnitWrites ==
  ASSUME NEW s \in Seq(Unit)
  PROVE  /\ \A i \in 1..Len(s) : s[i] \in Held(s) /\ s[i][2] \in Nat
         /\ \A u \in Held(s) : u \in Unit /\ u[2] \in Nat
<1>1. \A u \in Unit : u[2] \in Nat
  BY MaxWritesBound DEF Unit
<1>2. \A i \in 1..Len(s) : s[i] \in Unit
  OBVIOUS
<1> QED BY <1>1, <1>2 DEF Held

\* A unit that is of no earlier write is added.
LEMMA RisingAppend ==
  ASSUME NEW s \in Seq(Unit), NEW u \in Unit, Rising(s), \A v \in Held(s) : v[2] <= u[2]
  PROVE  Rising(Append(s, u))
<1> DEFINE a == Append(s, u)
<1>1. Len(a) = Len(s) + 1 /\ a[Len(s) + 1] = u /\ \A i \in 1..Len(s) : a[i] = s[i]
  OBVIOUS
<1>2. Len(s) \in Nat /\ u[2] \in Nat
  BY MaxWritesBound DEF Unit
<1> HIDE DEF a
<1>3. ASSUME NEW i \in 1..(Len(s) + 1), NEW j \in 1..(Len(s) + 1), i < j
      PROVE  a[i][2] <= a[j][2]
  <2>1. i \in 1..Len(s) /\ a[i] = s[i]
    BY <1>1, <1>2, <1>3
  <2>2. CASE j = Len(s) + 1
    BY <1>1, <2>1, <2>2, UnitWrites
  <2>3. CASE j # Len(s) + 1
    BY <1>1, <1>2, <1>3, <2>1, <2>3 DEF Rising
  <2> QED BY <2>2, <2>3
<1>4. Rising(a)
  BY <1>1, <1>3 DEF Rising
<1> QED BY <1>4 DEF a

\* The first unit is taken.
LEMMA RisingTail ==
  ASSUME NEW s \in Seq(Unit), s # <<>>, Rising(s)
  PROVE  Rising(Tail(s)) /\ \A v \in Held(Tail(s)) : Head(s)[2] <= v[2]
<1> DEFINE r == Tail(s)
<1>1. /\ Len(s) \in Nat \ {0} /\ Len(r) = Len(s) - 1 /\ Head(s) = s[1]
      /\ \A i \in 1..(Len(s) - 1) : r[i] = s[i + 1]
  OBVIOUS
<1> HIDE DEF r
<1>2. ASSUME NEW i \in 1..Len(r), NEW j \in 1..Len(r), i < j PROVE r[i][2] <= r[j][2]
  <2>1. i + 1 \in 1..Len(s) /\ j + 1 \in 1..Len(s) /\ i + 1 < j + 1
    BY <1>1, <1>2
  <2>2. s[i + 1][2] <= s[j + 1][2]
    BY <2>1 DEF Rising
  <2> QED BY <1>1, <2>2
<1>3. ASSUME NEW i \in 1..Len(r) PROVE s[1][2] <= r[i][2]
  <2>1. 1 \in 1..Len(s) /\ i + 1 \in 1..Len(s) /\ 1 < i + 1
    BY <1>1, <1>3
  <2>2. s[1][2] <= s[i + 1][2]
    BY <2>1 DEF Rising
  <2> QED BY <1>1, <2>2
<1> QED BY <1>1, <1>2, <1>3 DEF Rising, Held, r

\* Nothing has been sent.
LEMMA NoUnits ==
  /\ Rising(<<>>) /\ (\A f : UnitsOf(<<>>, f)) /\ (\A s : NotAfter(s, <<>>) /\ NotAfter(<<>>, s))
BY ShortQueues DEF Rising, UnitsOf, NotAfter

\* Nothing is read or delivered: data can only be lost, tunnels only be closed.
LEMMA DataFrame ==
  ASSUME DataOK, UNCHANGED <<disk, writes, remote, name>>, xmpp' => xmpp,
         \A t \in Tunnels : wire'[t] = wire[t] \/ wire'[t] = <<>>,
         \A t \in Tunnels : sst'[t] = "accepted" => sst[t] = "accepted",
         \A t \in Tunnels : xmpp' /\ Engaged(t)' => Engaged(t) /\ cfile' = cfile /\ cbuf' = cbuf
  PROVE  DataOK'
<1>1. \A f \in Files : disk'[f].ver <= writes'
  BY DEF DataOK
<1> SUFFICES ASSUME xmpp' PROVE (\A f \in Files : FileData(f)') /\ (\A t \in Tunnels : TunnelData(t)')
  BY <1>1 DEF DataOK
<1>2. (\A f \in Files : FileData(f)) /\ (\A t \in Tunnels : TunnelData(t))
  BY DEF DataOK
<1>3. \A f \in Files : FileData(f)'
  BY <1>2 DEF FileData, UnitsOf
<1>4. ASSUME NEW t \in Tunnels PROVE TunnelData(t)'
  <2>0. TunnelData(t) /\ (wire'[t] = wire[t] \/ wire'[t] = <<>>)
    BY <1>2
  <2>1. Rising(wire'[t]) /\ UnitsOf(wire[t], name[t])'
    BY <2>0, NoUnits, ShortQueues DEF TunnelData, UnitsOf
  <2>2. sst'[t] = "accepted" => NotAfter(remote'[name'[t]], wire'[t])
    BY <2>0, NoUnits DEF TunnelData
  <2>3. ASSUME Engaged(t)'
        PROVE  /\ cfile'.name = name'[t] /\ UnitsOf(cbuf, name[t])'
               /\ NotAfter(wire'[t], cbuf')
               /\ sst'[t] = "accepted" => NotAfter(remote'[name'[t]], cbuf')
    <3>1. Engaged(t) /\ cfile' = cfile /\ cbuf' = cbuf
      BY <2>3
    <3> QED BY <2>0, <3>1, NoUnits DEF TunnelData, UnitsOf
  <2> QED BY <2>1, <2>2, <2>3 DEF TunnelData
<1> QED BY <1>3, <1>4

\* Nothing that the data depends on changes.
LEMMA DataSame ==
  ASSUME DataOK, UNCHANGED <<disk, writes, remote, name, xmpp, wire, sst, hooked, cst, cq, cfile, cbuf>>
  PROVE  DataOK'
<1>1. \A t \in Tunnels : Engaged(t)' => Engaged(t)
  BY DEF Engaged
<1> QED BY <1>1, DataFrame

\* Cleanup resets file_: no tunnel is engaged any more.
LEMMA DataReset ==
  ASSUME DataOK, EngagedOK', UNCHANGED <<disk, writes, remote, name, xmpp, wire, sst>>, cfile' = NULL
  PROVE  DataOK'
<1>1. \A t \in Tunnels : ~Engaged(t)'
  BY DEF EngagedOK
<1> QED BY <1>1, DataFrame

\* A file is written: its version only grows.
LEMMA DataWriter ==
  ASSUME BasicInv, DataOK, NEW f \in Files,
         WriterOpens(f) \/ WriterWrites(f) \/ WriterCloses(f) \/ Deletes(f)
  PROVE  DataOK'
<1>0. TypeOK
  BY DEF BasicInv
<1>u. UNCHANGED <<remote, name, xmpp, wire, sst, hooked, cst, cq, cfile, cbuf>>
  BY DEF WriterOpens, WriterWrites, WriterCloses, Deletes
<1>1. /\ disk \in [Files -> [ver : 0..MaxWrites, len : {0, FileUnits}, exists : BOOLEAN]]
      /\ writes \in Nat /\ \A g \in Files : disk[g].ver \in Nat /\ disk[g].ver <= writes
  <2>1. disk \in [Files -> [ver : 0..MaxWrites, len : {0, FileUnits}, exists : BOOLEAN]]
    BY <1>0 DEF TypeOK
  <2>2. \A g \in Files : disk[g].ver \in Nat
    BY <2>1, MaxWritesBound
  <2> QED BY <1>0, <2>1, <2>2, Counters DEF DataOK
<1>2. \A g \in Files : disk'[g].ver \in Nat /\ disk[g].ver <= disk'[g].ver /\ disk'[g].ver <= writes'
  <2>1. CASE WriterOpens(f)
    BY <1>1, <2>1 DEF WriterOpens
  <2>2. CASE WriterWrites(f)
    BY <1>1, <2>2 DEF WriterWrites
  <2>3. CASE WriterCloses(f)
    BY <1>1, <2>3 DEF WriterCloses
  <2>4. CASE Deletes(f)
    BY <1>1, <2>4 DEF Deletes
  <2> QED BY <2>1, <2>2, <2>3, <2>4
<1>3. ASSUME NEW g \in Files, NEW s \in Seq(Unit), UnitsOf(s, g)
      PROVE  \A u \in Held(s) : u[1] = g /\ u[2] <= disk'[g].ver
  <2> SUFFICES ASSUME NEW u \in Held(s) PROVE u[1] = g /\ u[2] <= disk'[g].ver
    OBVIOUS
  <2>1. u[1] = g /\ u[2] <= disk[g].ver /\ u[2] \in Nat
    BY <1>3, UnitWrites DEF UnitsOf
  <2> QED BY <1>1, <1>2, <2>1
<1> SUFFICES ASSUME xmpp PROVE (\A g \in Files : FileData(g)') /\ (\A t \in Tunnels : TunnelData(t)')
  BY <1>2, <1>u DEF DataOK
<1>4. /\ \A g \in Files : FileData(g) /\ remote[g] \in Seq(Unit)
      /\ \A t \in Tunnels : TunnelData(t) /\ wire[t] \in Seq(Unit)
      /\ cbuf \in Seq(Unit)
  BY <1>0 DEF DataOK, TypeOK
<1>5. \A g \in Files : FileData(g)'
  BY <1>3, <1>4, <1>u DEF FileData, UnitsOf
<1>6. ASSUME NEW t \in Tunnels PROVE TunnelData(t)'
  <2>0. TunnelData(t) /\ wire[t] \in Seq(Unit) /\ cbuf \in Seq(Unit)
    BY <1>4
  <2>n. name[t] \in Files \/ (wire[t] = <<>> /\ ~Engaged(t))
    <3>1. t <= opened \/ t > opened
      BY <1>0, Counters DEF Tunnels
    <3>2. cst[t] = "none" /\ ~hooked[t] => ~Engaged(t)
      BY DEF Engaged
    <3> QED BY <3>1, <3>2 DEF BasicInv, Fresh
  <2>1. Engaged(t)' <=> Engaged(t)
    BY <1>u DEF Engaged
  <2>2. UnitsOf(wire[t], name[t])'
    <3>1. CASE name[t] \in Files
      BY <1>3, <1>u, <2>0, <3>1 DEF TunnelData, UnitsOf
    <3>2. CASE wire[t] = <<>>
      BY <1>u, <3>2, ShortQueues DEF UnitsOf
    <3> QED BY <2>n, <3>1, <3>2
  <2>3. Engaged(t) => UnitsOf(cbuf, name[t])'
    BY <1>3, <1>u, <2>0, <2>n DEF TunnelData, UnitsOf
  <2> QED BY <1>u, <2>0, <2>1, <2>2, <2>3 DEF TunnelData
<1> QED BY <1>5, <1>6

\* CreateTunnel and ProcessStream: the new tunnel has a file and an empty buffer of its own.
LEMMA DataSyncFile ==
  ASSUME BasicInv, DataOK, LoopOK', SyncFile
  PROVE  DataOK'
<1>0. TypeOK /\ Fresh
  BY DEF BasicInv
<1>1. PICK t \in Tunnels : t = opened + 1
  BY BasicSyncFile
<1>2. /\ UNCHANGED <<disk, writes, remote, xmpp, wire, sst>>
      /\ name' = Set(name, t, Head(batch).name)
      /\ cfile' = [name |-> Head(batch).name, pos |-> 0, open |-> disk[Head(batch).name].exists]
      /\ cbuf' = <<>> /\ (cpc' = "main" \/ cur' = t)
  BY <1>1 DEF SyncFile
<1> SUFFICES ASSUME xmpp PROVE (\A f \in Files : FileData(f)') /\ (\A u \in Tunnels : TunnelData(u)')
  BY <1>2 DEF DataOK
<1>3. (\A f \in Files : FileData(f)) /\ (\A u \in Tunnels : TunnelData(u))
  BY DEF DataOK
<1>4. \A f \in Files : FileData(f)'
  BY <1>2, <1>3 DEF FileData, UnitsOf
<1>5. \A u \in Tunnels : Engaged(u)' => u = t
  BY <1>2 DEF LoopOK
<1>6. name \in [Tunnels -> Files \cup {NULL}] /\ t > opened
  BY <1>0, <1>1, Counters DEF TypeOK
<1>7. TunnelData(t)'
  <2>1. wire'[t] = <<>> /\ cfile'.name = name'[t]
    BY <1>0, <1>2, <1>6 DEF Fresh
  <2>2. UnitsOf(wire[t], name[t])' /\ UnitsOf(cbuf, name[t])'
    BY <1>2, <2>1, ShortQueues DEF UnitsOf
  <2> QED BY <1>2, <2>1, <2>2, NoUnits DEF TunnelData
<1>8. ASSUME NEW u \in Tunnels, u # t PROVE TunnelData(u)'
  <2>1. name'[u] = name[u] /\ ~Engaged(u)'
    BY <1>2, <1>5, <1>6, <1>8
  <2> QED BY <1>2, <1>3, <2>1 DEF TunnelData, UnitsOf
<1> QED BY <1>4, <1>7, <1>8

\* The send loop writes what it has read.
LEMMA DataSendWrite ==
  ASSUME LoopInv, DataOK, EngagedOK', SendWrite
  PROVE  DataOK'
<1>0. TypeOK /\ EngagedOK
  BY DEF LoopInv, BasicInv
<1>1. sendT \in Tunnels /\ Engaged(sendT)
  BY SendingEngaged DEF SendWrite
<1>u. UNCHANGED <<disk, writes, remote, name, xmpp, sst, hooked>>
  BY DEF SendWrite
<1>2. CASE UNCHANGED <<cfile, cbuf, cq, cst, wire>>
  BY <1>2, <1>u, DataSame
<1>3. CASE cfile' = NULL /\ wire' = wire
  BY <1>3, <1>u, DataReset
<1>4. CASE /\ wire' = Set(wire, sendT, Append(wire[sendT], cbuf[1])) /\ cbuf' = <<>>
           /\ UNCHANGED <<cfile, cq, cst>>
  <2> SUFFICES ASSUME xmpp PROVE (\A f \in Files : FileData(f)') /\ (\A u \in Tunnels : TunnelData(u)')
    BY <1>u DEF DataOK
  <2>1. (\A f \in Files : FileData(f)) /\ (\A u \in Tunnels : TunnelData(u))
    BY DEF DataOK
  <2>2. \A f \in Files : FileData(f)'
    BY <1>u, <2>1 DEF FileData, UnitsOf
  <2>3. \A u \in Tunnels : Engaged(u)' => Engaged(u)
    BY <1>4, <1>u DEF Engaged
  <2>4. \A u \in Tunnels : Engaged(u)' => u = sendT
    BY <1>0, <1>1, <2>3 DEF EngagedOK
  <2>5. ASSUME NEW u \in Tunnels, u # sendT PROVE TunnelData(u)'
    <3>1. wire'[u] = wire[u]
      BY <1>0, <1>4, <2>5 DEF TypeOK
    <3>2. ~Engaged(u)'
      BY <2>4, <2>5
    <3> QED BY <1>u, <2>1, <3>1, <3>2 DEF TunnelData, UnitsOf
  <2>6. PICK t \in Tunnels : t = sendT
    BY <1>1
  <2>7. /\ cbuf \in Seq(Unit) /\ cbuf # <<>> /\ wire \in [Tunnels -> Seq(Unit)]
    BY <1>0 DEF TypeOK, SendWrite
  <2>8. PICK x \in Unit : x = cbuf[1] /\ x \in Held(cbuf)
    BY <2>7 DEF Held
  <2>9. wire[t] \in Seq(Unit) /\ wire'[t] = Append(wire[t], x)
    BY <1>4, <2>6, <2>7, <2>8
  <2>10. Held(wire'[t]) = Held(wire[t]) \cup {x}
    BY <2>9, AppendQueue
  <2>11. /\ Rising(wire[t]) /\ UnitsOf(wire[t], name[t])
         /\ sst[t] = "accepted" => NotAfter(remote[name[t]], wire[t])
         /\ cfile.name = name[t] /\ UnitsOf(cbuf, name[t]) /\ NotAfter(wire[t], cbuf)
         /\ sst[t] = "accepted" => NotAfter(remote[name[t]], cbuf)
    BY <1>1, <2>1, <2>6 DEF TunnelData
  <2>12. Rising(wire'[t])
    BY <2>8, <2>9, <2>11, RisingAppend DEF NotAfter
  <2>13. UnitsOf(wire[t], name[t])'
    BY <1>u, <2>8, <2>10, <2>11 DEF UnitsOf
  <2>14. sst'[t] = "accepted" => NotAfter(remote'[name'[t]], wire'[t])
    BY <1>u, <2>8, <2>10, <2>11 DEF NotAfter
  <2>15. UnitsOf(cbuf, name[t])' /\ cfile'.name = name'[t]
    BY <1>4, <1>u, <2>11, ShortQueues DEF UnitsOf
  <2>16. TunnelData(t)'
    BY <1>4, <2>12, <2>13, <2>14, <2>15, NoUnits DEF TunnelData
  <2> QED BY <2>2, <2>5, <2>6, <2>16
<1> QED BY <1>2, <1>3, <1>4 DEF SendWrite, Cleanup, ResetFile

\* The send loop reads: what it reads is of the last write.
LEMMA DataSendRead ==
  ASSUME LoopInv, ServerOK, DataOK, EngagedOK', SendRead
  PROVE  DataOK'
<1>0. TypeOK /\ EngagedOK
  BY DEF LoopInv, BasicInv
<1>1. sendT \in Tunnels /\ Engaged(sendT) /\ cfile # NULL
  BY SendingEngaged DEF SendRead
<1>u. UNCHANGED <<disk, writes, remote, name, xmpp, sst, hooked, wire>>
  BY DEF SendRead
<1>2. CASE cfile' = NULL
  BY <1>2, <1>u, DataReset
<1>3. CASE /\ cbuf' = <<Content(cfile.name)[cfile.pos + 1]>>
           /\ cfile' = [cfile EXCEPT !.pos = @ + 1]
           /\ cfile.pos < disk[cfile.name].len
           /\ UNCHANGED <<cq, cst>>
  <2> SUFFICES ASSUME xmpp PROVE (\A f \in Files : FileData(f)') /\ (\A u \in Tunnels : TunnelData(u)')
    BY <1>u DEF DataOK
  <2>1. (\A f \in Files : FileData(f)) /\ (\A u \in Tunnels : TunnelData(u))
    BY DEF DataOK
  <2>2. \A f \in Files : FileData(f)'
    BY <1>u, <2>1 DEF FileData, UnitsOf
  <2>3. \A u \in Tunnels : Engaged(u)' => Engaged(u)
    BY <1>3, <1>u DEF Engaged
  <2>4. \A u \in Tunnels : Engaged(u)' => u = sendT
    BY <1>0, <1>1, <2>3 DEF EngagedOK
  <2>5. ASSUME NEW u \in Tunnels, u # sendT PROVE TunnelData(u)'
    <3>1. ~Engaged(u)'
      BY <2>4, <2>5
    <3> QED BY <1>u, <2>1, <3>1 DEF TunnelData, UnitsOf
  <2>6. PICK t \in Tunnels : t = sendT
    BY <1>1
  <2>7. TunnelData(t) /\ cfile.name = name[t]
    BY <1>1, <2>1, <2>6 DEF TunnelData
  <2>8. cfile \in [name : Files, pos : 0..FileUnits, open : BOOLEAN] /\ cfile'.name = cfile.name
    BY <1>0, <1>1, <1>3 DEF TypeOK
  <2>9. PICK f \in Files : f = cfile.name
    BY <2>8
  <2>10. Content(f)[cfile.pos + 1] = <<f, disk[f].ver>>
    <3>1. disk[f].len \in {0, FileUnits}
      BY <1>0 DEF TypeOK
    <3>2. cfile.pos + 1 \in 1..disk[f].len
      BY <1>3, <2>8, <2>9, <3>1, Sizes
    <3> QED BY <3>2 DEF Content
  <2>11. Held(cbuf') = {<<f, disk[f].ver>>}
    BY <1>3, <2>9, <2>10, ShortQueues
  <2>12. UnitsOf(cbuf, name[t])'
    <3>1. disk[f].ver \in Nat
      BY <1>0, MaxWritesBound DEF TypeOK
    <3> QED BY <1>u, <2>7, <2>9, <2>11, <3>1 DEF UnitsOf
  <2>13. NotAfter(wire'[t], cbuf')
    BY <1>u, <2>7, <2>9, <2>11 DEF TunnelData, UnitsOf, NotAfter
  <2>14. NotAfter(remote'[name'[t]], cbuf')
    BY <1>u, <2>1, <2>7, <2>9, <2>11 DEF FileData, UnitsOf, NotAfter
  <2>15. Rising(wire'[t]) /\ UnitsOf(wire[t], name[t])'
         /\ (sst'[t] = "accepted" => NotAfter(remote'[name'[t]], wire'[t]))
    BY <1>u, <2>7 DEF TunnelData, UnitsOf
  <2>16. TunnelData(t)'
    BY <1>u, <2>7, <2>8, <2>12, <2>13, <2>14, <2>15 DEF TunnelData
  <2> QED BY <2>2, <2>5, <2>6, <2>16
<1> QED BY <1>2, <1>3 DEF SendRead, Cleanup, ResetFile

\* A unit reaches the file that its tunnel was opened for.
LEMMA DataDeliver ==
  ASSUME LoopInv, ServerOK, DataOK, NEW t \in Tunnels, Deliver(t)
  PROVE  DataOK'
<1>0. BasicInv /\ TypeOK /\ Fresh
  BY DEF LoopInv, BasicInv
<1>u. UNCHANGED <<disk, writes, name, xmpp, sst, hooked, cst, cq, cfile, cbuf>>
  BY DEF Deliver
<1>1. sfile = t /\ sst[t] = "accepted" /\ wire[t] # <<>>
  BY DEF Deliver, ServerOK
<1>2. PICK f \in Files : f = name[t]
  <2>1. Tunnels \subseteq Int /\ opened \in Int
    BY <1>0, Counters DEF Tunnels
  <2> QED BY <1>0, <1>1, <2>1 DEF Fresh
<1>3. /\ wire \in [Tunnels -> Seq(Unit)] /\ remote \in [Files -> Seq(Unit)]
  BY <1>0 DEF TypeOK
<1>4. /\ wire' = Set(wire, t, Tail(wire[t]))
      /\ remote' = [remote EXCEPT ![f] = Append(@, Head(wire[t]))]
  BY <1>1, <1>2 DEF Deliver
<1>5. wire[t] \in Seq(Unit) /\ remote[f] \in Seq(Unit)
  BY <1>3
<1>6. PICK x \in Unit : x = Head(wire[t])
  BY <1>1, <1>5
<1>7. wire'[t] = Tail(wire[t]) /\ remote'[f] = Append(remote[f], x)
  BY <1>3, <1>4, <1>6
<1>8. /\ Held(wire[t]) = {x} \cup Held(wire'[t])
      /\ Held(remote'[f]) = Held(remote[f]) \cup {x}
  BY <1>1, <1>5, <1>6, <1>7, TailQueue, AppendQueue
<1> SUFFICES ASSUME xmpp PROVE (\A g \in Files : FileData(g)') /\ (\A u \in Tunnels : TunnelData(u)')
  BY <1>u DEF DataOK
<1>9. (\A g \in Files : FileData(g)) /\ (\A u \in Tunnels : TunnelData(u))
  BY DEF DataOK
<1>10. /\ Rising(wire[t]) /\ UnitsOf(wire[t], f) /\ NotAfter(remote[f], wire[t])
       /\ Engaged(t) => /\ cfile.name = f /\ UnitsOf(cbuf, f)
                        /\ NotAfter(wire[t], cbuf) /\ NotAfter(remote[f], cbuf)
  BY <1>1, <1>2, <1>9 DEF TunnelData
<1>11. Rising(wire'[t]) /\ \A v \in Held(wire'[t]) : x[2] <= v[2]
  BY <1>1, <1>5, <1>6, <1>7, <1>10, RisingTail
<1>12. FileData(f)'
  <2>1. Rising(remote[f]) /\ UnitsOf(remote[f], f)
    BY <1>9 DEF FileData
  <2>2. Rising(remote'[f])
    BY <1>5, <1>7, <1>8, <1>10, <2>1, RisingAppend DEF NotAfter
  <2>3. UnitsOf(remote[f], f)'
    BY <1>u, <1>8, <1>10, <2>1 DEF UnitsOf
  <2> QED BY <2>2, <2>3 DEF FileData
<1>13. ASSUME NEW g \in Files, g # f PROVE FileData(g)'
  <2>1. remote'[g] = remote[g]
    BY <1>3, <1>4, <1>13
  <2> QED BY <1>9, <1>u, <2>1 DEF FileData, UnitsOf
<1>e. \A u \in Tunnels : Engaged(u)' => Engaged(u)
  BY <1>u DEF Engaged
<1>14. ASSUME NEW u \in Tunnels, u # t PROVE TunnelData(u)'
  <2>1. wire'[u] = wire[u] /\ sst'[u] # "accepted"
    BY <1>1, <1>3, <1>4, <1>14, <1>u DEF ServerOK
  <2> QED BY <1>9, <1>e, <1>u, <2>1 DEF TunnelData, UnitsOf
<1>15. TunnelData(t)'
  <2>1. UnitsOf(wire[t], name[t])'
    BY <1>2, <1>8, <1>10, <1>u DEF UnitsOf
  <2>2. NotAfter(remote'[f], wire'[t])
    BY <1>8, <1>10, <1>11 DEF NotAfter
  <2>3. Engaged(t)' => /\ cfile'.name = f /\ UnitsOf(cbuf, name[t])'
                       /\ NotAfter(wire'[t], cbuf') /\ NotAfter(remote'[f], cbuf')
    <3>1. Engaged(t) => NotAfter(wire'[t], cbuf) /\ NotAfter(remote'[f], cbuf)
      BY <1>8, <1>10 DEF NotAfter
    <3>2. Engaged(t) => UnitsOf(cbuf, name[t])'
      BY <1>2, <1>10, <1>u DEF UnitsOf
    <3> QED BY <1>10, <1>e, <1>u, <3>1, <3>2
  <2> QED BY <1>2, <1>11, <1>u, <2>1, <2>2, <2>3 DEF TunnelData
<1> QED BY <1>12, <1>13, <1>14, <1>15

\* The server accepts a tunnel, whose file it truncates, or declines it.
LEMMA DataServerStanza ==
  ASSUME LoopInv, ServerOK, DataOK, ServerStanza
  PROVE  DataOK'
<1>0. BasicInv /\ TypeOK /\ Fresh
  BY DEF LoopInv, BasicInv
<1>u. UNCHANGED <<disk, writes, name, xmpp, wire, hooked, cst, cq, cfile, cbuf>>
  BY DEF ServerStanza
<1>e. \A u \in Tunnels : Engaged(u)' => Engaged(u)
  BY <1>u DEF Engaged
<1>1. PICK t \in Tunnels : t = Head(toServer).t
  BY <1>0, ServerStanzaFacts
<1>2. sst \in [Tunnels -> {"none", "accepted", "over"}] /\ remote \in [Files -> Seq(Unit)]
  BY <1>0 DEF TypeOK
<1>3. CASE UNCHANGED remote /\ (sst' = sst \/ sst' = Set(sst, t, "over"))
  <2>1. \A u \in Tunnels : sst'[u] = "accepted" => sst[u] = "accepted"
    BY <1>2, <1>3
  <2> QED BY <1>3, <1>e, <1>u, <2>1, DataFrame
<1>4. CASE /\ Head(toServer).k = "initiate" /\ sfile = 0
           /\ sst' = Set(sst, t, "accepted") /\ remote' = Set(remote, name[t], <<>>)
  <2> SUFFICES ASSUME xmpp PROVE (\A f \in Files : FileData(f)') /\ (\A u \in Tunnels : TunnelData(u)')
    BY <1>u DEF DataOK
  <2>1. (\A f \in Files : FileData(f)) /\ (\A u \in Tunnels : TunnelData(u))
    BY DEF DataOK
  <2>2. PICK f \in Files : f = name[t]
    BY <1>0, <1>1, ServerStanzaFacts DEF Fresh
  <2>3. remote'[f] = <<>> /\ \A g \in Files : g # f => remote'[g] = remote[g]
    BY <1>2, <1>4, <2>2
  <2>4. \A g \in Files : FileData(g)'
    <3>1. FileData(f)'
      BY <2>3, NoUnits, ShortQueues DEF FileData, UnitsOf
    <3>2. ASSUME NEW g \in Files, g # f PROVE FileData(g)'
      BY <1>u, <2>1, <2>3, <3>2 DEF FileData, UnitsOf
    <3> QED BY <3>1, <3>2
  <2>5. wire[t] = <<>>
    <3>1. Head(toServer) = Msg("initiate", t) /\ Head(toServer) \in Held(toServer)
      BY <1>0, <1>1, <1>4, ServerStanzaFacts
    <3> QED BY <3>1 DEF ServerOK
  <2>6. ASSUME NEW u \in Tunnels, u # t PROVE TunnelData(u)'
    <3>1. sst'[u] # "accepted"
      <4>1. sst[u] # "accepted"
        BY <1>4, MaxWritesBound DEF ServerOK, Tunnels
      <4> QED BY <1>2, <1>4, <2>6, <4>1
    <3> QED BY <1>e, <1>u, <2>1, <3>1 DEF TunnelData, UnitsOf
  <2>7. TunnelData(t)'
    <3>1. TunnelData(t)
      BY <2>1
    <3>2. UnitsOf(wire[t], name[t])' /\ (Engaged(t) => UnitsOf(cbuf, name[t])')
      BY <1>u, <3>1 DEF TunnelData, UnitsOf
    <3>3. remote'[name'[t]] = <<>>
      BY <1>u, <2>2, <2>3
    <3> QED BY <1>e, <1>u, <2>5, <3>1, <3>2, <3>3, NoUnits DEF TunnelData
  <2> QED BY <2>4, <2>6, <2>7
<1> QED BY <1>1, <1>3, <1>4 DEF ServerStanza, RecvInitiate, RecvTerminate, Declines

\* Every step preserves DataOK.
LEMMA DataStep ==
  ASSUME ControlInv, ControlInv', ServerOK, DataOK, [Next]_vars
  PROVE  DataOK'
<1>0. LoopInv /\ BasicInv /\ TypeOK /\ BasicInv' /\ EngagedOK' /\ LoopOK'
  BY DEF ControlInv, LoopInv, BasicInv
<1>t. /\ cst \in [Tunnels -> {"none", "opening", "accepted", "connected", "failed", "closing", "over"}]
      /\ wire \in [Tunnels -> Seq(Unit)] /\ sst \in [Tunnels -> {"none", "accepted", "over"}]
  BY <1>0 DEF TypeOK
<1>1. CASE \E f \in Files : WriterOpens(f) \/ Deletes(f)
  BY <1>0, <1>1, DataWriter
<1>2. CASE WriterStep
  BY <1>0, <1>2, DataWriter DEF WriterStep
<1>3. CASE MainStep
  <2>1. CASE WaitForEvents \/ SkipEvent
    BY <2>1, DataSame DEF WaitForEvents, SkipEvent
  <2> QED BY <1>0, <1>3, <2>1, DataSyncFile DEF MainStep
<1>4. CASE LoopStep
  <2>1. ASSUME UNCHANGED <<disk, writes, remote, name, xmpp, wire, sst, hooked, cst, cfile, cbuf>>,
               NEW m, Dispatch(m), cq' = Tail(cq)
        PROVE  DataOK'
    <3>1. Held(cq') \subseteq Held(cq)
      BY <1>0, <2>1, Dispatched
    <3>2. \A u \in Tunnels : Engaged(u)' => Engaged(u)
      BY <2>1, <3>1 DEF Engaged
    <3> QED BY <2>1, <3>2, DataFrame
  <2>2. ASSUME NEW t \in Tunnels, NEW k, SendStanza(t, k) PROVE DataOK'
    BY <2>1, <2>2 DEF SendStanza
  <2>3. ASSUME NEW t \in Tunnels, StreamWritable(t) PROVE DataOK'
    BY <2>1, <2>3 DEF StreamWritable
  <2>4. ASSUME NEW t \in Tunnels, StreamClosed(t) PROVE DataOK'
    <3>1. CASE hooked[t]
      BY <1>0, <2>4, <3>1, DataReset DEF StreamClosed, Cleanup, ResetFile
    <3>2. CASE ~hooked[t]
      BY <2>1, <2>4, <3>2 DEF StreamClosed
    <3> QED BY <3>1, <3>2
  <2>5. ASSUME NEW m \in Message, LoopReturns(m) PROVE DataOK'
    BY <2>1, <2>5 DEF LoopReturns
  <2> QED BY <1>0, <1>4, <2>2, <2>3, <2>4, <2>5, DataSendWrite, DataSendRead DEF LoopStep
<1>5. CASE ClientStanza
  <2>1. \A u \in Tunnels : Engaged(u)' => Engaged(u)
    BY <1>0, <1>5, LoopClientStanza
  <2>2. UNCHANGED <<disk, writes, remote, name, xmpp, sst, cfile, cbuf>>
    BY <1>5 DEF ClientStanza
  <2>3. \A u \in Tunnels : wire'[u] = wire[u] \/ wire'[u] = <<>>
    BY <1>5, <1>t DEF ClientStanza, RecvAccept, RecvEnd
  <2> QED BY <2>1, <2>2, <2>3, DataFrame
<1>6. ASSUME NEW t \in Tunnels, TunnelStep(t) \/ TunnelFails(t) PROVE DataOK'
  <2>1. UNCHANGED <<disk, writes, remote, name, xmpp, sst, hooked, cfile, cbuf>>
    BY <1>6 DEF TunnelStep, TunnelOpens, TunnelWritable, TunnelDrained, DelayFires,
                TunnelGivesUp, TunnelFails
  <2>2. \A u \in Tunnels : wire'[u] = wire[u] \/ wire'[u] = <<>>
    BY <1>6, <1>t DEF TunnelStep, TunnelOpens, TunnelWritable, TunnelDrained, DelayFires,
                      TunnelGivesUp, TunnelFails
  <2>3. \A u \in Tunnels : Engaged(u)' => Engaged(u)
    <3>1. CASE DelayFires(t)
      <4>1. Held(cq') = Held(cq) \cup {Msg("done", t)} /\ UNCHANGED <<cst, xmpp>>
        BY <1>0, <3>1, Posted, MsgTypes DEF DelayFires
      <4>2. \A u \in Tunnels : Msg("write", u) # Msg("done", t) /\ Msg("close", u) # Msg("done", t)
        BY MsgTypes
      <4> QED BY <2>1, <4>1, <4>2 DEF Engaged
    <3>2. CASE ~DelayFires(t)
      BY <1>0, <1>6, <3>2, LoopTunnelEvents DEF TunnelStep
    <3> QED BY <3>1, <3>2
  <2> QED BY <2>1, <2>2, <2>3, DataFrame
<1>7. CASE \E t \in Tunnels : Deliver(t)
  BY <1>0, <1>7, DataDeliver
<1>8. CASE LoggedOut
  BY <1>8, DataFrame DEF LoggedOut
<1>9. CASE ServerStep
  <2>1. CASE ServerCloses
    <3>1. UNCHANGED <<disk, writes, remote, name, xmpp, wire, hooked, cst, cq, cfile, cbuf>>
          /\ sst' = Set(sst, Head(sq), "over")
      BY <2>1 DEF ServerCloses
    <3>2. \A u \in Tunnels : sst'[u] = "accepted" => sst[u] = "accepted"
      BY <1>t, <3>1
    <3>3. \A u \in Tunnels : Engaged(u)' => Engaged(u)
      BY <3>1 DEF Engaged
    <3> QED BY <3>1, <3>2, <3>3, DataFrame
  <2> QED BY <1>0, <1>9, <2>1, DataServerStanza DEF ServerStep
<1>10. CASE UNCHANGED vars
  BY <1>10, DataSame DEF vars
<1> QED BY <1>1, <1>2, <1>3, <1>4, <1>5, <1>6, <1>7, <1>8, <1>9, <1>10 DEF Next

FaithfulInv == ControlInv /\ ServerOK /\ DataOK

\* The initial states.
LEMMA FaithfulInit == Init => FaithfulInv
<1> SUFFICES ASSUME Init PROVE FaithfulInv
  OBVIOUS
<1>1. Held(cq) = {} /\ Held(toServer) = {} /\ Held(toClient) = {}
      /\ (\A x : Once(cq, x) /\ Once(toServer, x))
  BY ShortQueues DEF Init
<1>2. ServerOK
  BY <1>1, MaxWritesBound DEF Init, ServerOK, Tunnels
<1>3. \A t \in Tunnels : ~Engaged(t)
  BY DEF Init, Engaged
<1>4. DataOK
  <2>1. \A f \in Files : disk[f].ver <= writes
    BY DEF Init
  <2>2. \A f \in Files : FileData(f)
    BY NoUnits DEF Init, FileData
  <2>3. \A t \in Tunnels : TunnelData(t)
    BY <1>3, NoUnits DEF Init, TunnelData
  <2> QED BY <2>1, <2>2, <2>3 DEF DataOK
<1> QED BY <1>2, <1>4, ControlInit DEF FaithfulInv

\* What is under way to the server's files, and the server's one tunnel.
THEOREM FaithfulInvariant == Spec => []FaithfulInv
<1>1. FaithfulInv /\ [Next]_vars => FaithfulInv'
  BY ControlStep, ServerOKStep, DataStep DEF FaithfulInv
<1> QED BY <1>1, FaithfulInit, PTL DEF Spec

\* While the client is logged in, no file of the server receives a unit of another file,
\* and its units never go back to an earlier write (src/main/customxmpppump.cc,
\* OnStreamEvent and OnIncomingTunnel).
THEOREM AlwaysRemoteFaithful == Spec => []RemoteFaithful
<1>1. FaithfulInv => RemoteFaithful
  <2> SUFFICES ASSUME FaithfulInv, xmpp, NEW f \in Files PROVE
                 /\ \A i \in 1..Len(remote[f]) : remote[f][i][1] = f
                 /\ \A i, j \in 1..Len(remote[f]) : i < j => remote[f][i][2] <= remote[f][j][2]
    BY DEF RemoteFaithful, RemoteUnmixed
  <2>1. Rising(remote[f]) /\ UnitsOf(remote[f], f)
    BY DEF FaithfulInv, DataOK, FileData
  <2> QED BY <2>1 DEF Rising, UnitsOf, Held
<1> QED BY <1>1, FaithfulInvariant, PTL

-----------------------------------------------------------------------------
(* When nothing goes wrong the directories agree: the inductive invariant  *)
(* of SyncedAtRest.                                                        *)

\* s consists of units of the last write of f.
Copies(s, f) == \A i \in 1..Len(s) : s[i] = <<f, disk[f].ver>>

Synced(f) == Copies(remote[f], f) /\ Len(remote[f]) = disk[f].len

ClosedEvent(f) == [mask |-> "IN_CLOSE_WRITE", name |-> f]

\* No file is being written, no written file is still to be synchronised.
NoNews ==
  /\ \A f \in Files : writer[f] = "closed"
  /\ \A e \in Held(kq) \cup Held(batch) : e.mask # "IN_CLOSE_WRITE"

\* File f is being written, or its event is on its way to the client in one place: no
\* IN_CLOSE_NOWRITE is around to mask it.
Pending(f) ==
  /\ \A g \in Files \ {f} : writer[g] = "closed" /\ Synced(g)
  /\ \A e \in Held(kq) \cup Held(batch) : e.mask = "OTHER" \/ e = ClosedEvent(f)
  /\ Once(kq, ClosedEvent(f)) /\ Once(batch, ClosedEvent(f))
  /\ ClosedEvent(f) \in Held(kq) => ClosedEvent(f) \notin Held(batch)
  /\ writer[f] = "closed" <=> ClosedEvent(f) \in Held(kq) \cup Held(batch)
  /\ batch # <<>> => prev # "IN_CLOSE_NOWRITE"

Watching == (NoNews /\ \A f \in Files : Synced(f)) \/ (\E f \in Files : Pending(f))

\* Every tunnel but the one of this Loop is done with, at both ends.
OthersOver ==
  \A t \in Tunnels : t <= opened /\ (t # cur \/ cpc = "main") => cst[t] = "over" /\ sst[t] = "over"

\* What has been read of the file is in the buffer, under way, or in the server's file.
Accounted(t, f) ==
  /\ Copies(wire[t], f)
  /\ cfile # NULL => cfile.open /\ cfile.name = f /\ cfile.pos <= disk[f].len /\ Copies(cbuf, f)
  /\ sst[t] = "none" => cst[t] = "opening" /\ cfile.pos = 0 /\ cbuf = <<>>
  /\ sst[t] # "none" =>
       /\ Copies(remote[f], f)
       /\ cfile # NULL => Len(remote[f]) + Len(wire[t]) + Len(cbuf) = cfile.pos
       /\ cfile = NULL => Len(remote[f]) + Len(wire[t]) = disk[f].len

\* The tunnel is terminated when everything has been delivered, and Loop ends after that.
Ordered(t) ==
  /\ cst[t] \in {"opening", "accepted", "connected", "closing", "over"}
  /\ cfile # NULL <=> cst[t] \in {"opening", "accepted", "connected"}
  /\ cst[t] = "over" => wire[t] = <<>>
  /\ Msg("terminate", t) \in Held(cq) \cup Held(toServer) \/ t \in Held(sq) \/ sst[t] = "over"
       => cst[t] = "over"
  /\ Msg("done", t) \in Held(cq) => sst[t] = "over"

Transferring ==
  /\ NoNews
  /\ cur \in Tunnels /\ name[cur] \in Files
  /\ \A g \in Files \ {name[cur]} : Synced(g)
  /\ Ordered(cur)
  /\ Accounted(cur, name[cur])

\* Nothing has gone wrong.
Undisturbed ==
  /\ xmpp /\ serving
  /\ \A m \in Held(toClient) : m.k = "accept"
  /\ \A t \in Tunnels : Msg("close", t) \notin Held(cq)
  /\ OthersOver

\* The client only sends what opens and what ends a session.
StanzasOK == \A m \in Held(toServer) : m.k \in {"initiate", "terminate"}

CalmOK ==
  Calm =>
    /\ Undisturbed
    /\ cpc = "main" => Watching
    /\ cpc # "main" => Transferring

-----------------------------------------------------------------------------
(* Copies, and the parts that a step leaves alone.                         *)

USE DEF dirVars, mainVars, pumpVars, tunVars, netVars, srvVars, Set

\* One more unit of the file.
LEMMA CopiesAppend ==
  ASSUME NEW f, NEW s \in Seq(Unit), Copies(s, f), NEW x \in Unit, x = <<f, disk[f].ver>>
  PROVE  Copies(Append(s, x), f) /\ Len(Append(s, x)) = Len(s) + 1
<1>1. /\ Len(Append(s, x)) = Len(s) + 1 /\ Append(s, x)[Len(s) + 1] = x /\ Len(s) \in Nat
      /\ \A i \in 1..Len(s) : Append(s, x)[i] = s[i]
  OBVIOUS
<1> QED BY <1>1 DEF Copies

\* The first unit is taken.
LEMMA CopiesTail ==
  ASSUME NEW f, NEW s \in Seq(Unit), s # <<>>, Copies(s, f)
  PROVE  Head(s) = <<f, disk[f].ver>> /\ Copies(Tail(s), f) /\ Len(Tail(s)) = Len(s) - 1
<1>1. /\ Len(s) \in Nat \ {0} /\ Head(s) = s[1] /\ Len(Tail(s)) = Len(s) - 1
      /\ \A i \in 1..(Len(s) - 1) : Tail(s)[i] = s[i + 1]
  OBVIOUS
<1>2. \A i \in 1..(Len(s) - 1) : i + 1 \in 1..Len(s)
  BY <1>1
<1> QED BY <1>1, <1>2 DEF Copies

\* As many copies as the file has units are the file.
LEMMA SyncedContent ==
  ASSUME TypeOK, NEW f \in Files, Synced(f)
  PROVE  remote[f] = Content(f)
<1>1. remote[f] \in Seq(Unit)
  BY DEF TypeOK
<1>2. remote[f] = [i \in 1..Len(remote[f]) |-> remote[f][i]]
  BY <1>1
<1>3. Len(remote[f]) = disk[f].len /\ \A i \in 1..disk[f].len : remote[f][i] = <<f, disk[f].ver>>
  BY DEF Synced, Copies
<1> QED BY <1>2, <1>3 DEF Content

\* What the calm of an undisturbed run rests on.
LEMMA RestFrame ==
  ASSUME Undisturbed, UNCHANGED <<xmpp, serving, cur, opened>>, cpc' = "main" <=> cpc = "main",
         Held(toClient') \subseteq Held(toClient),
         \A t \in Tunnels : Msg("close", t) \in Held(cq') => Msg("close", t) \in Held(cq),
         \A t \in Tunnels : t # cur \/ cpc = "main" => cst'[t] = cst[t] /\ sst'[t] = sst[t]
  PROVE  Undisturbed'
<1>1. OthersOver'
  BY DEF Undisturbed, OthersOver
<1> QED BY <1>1 DEF Undisturbed

\* The directory and the server's files are as they were.
LEMMA WatchFrame ==
  ASSUME Watching, UNCHANGED <<disk, writer, remote, kq, batch, prev>>
  PROVE  Watching'
BY DEF Watching, NoNews, Pending, Synced, Copies, ClosedEvent

\* The order of the end of a transfer is as it was.
LEMMA OrderedFrame ==
  ASSUME NEW t \in Tunnels, Ordered(t), UNCHANGED <<cfile, wire, sst, sq>>, cst'[t] = cst[t],
         Msg("terminate", t) \in Held(cq') \cup Held(toServer') =>
            Msg("terminate", t) \in Held(cq) \cup Held(toServer) \/ cst[t] = "over",
         Msg("done", t) \in Held(cq') => Msg("done", t) \in Held(cq) \/ sst[t] = "over"
  PROVE  Ordered(t)'
BY DEF Ordered

\* The data of the transfer is as it was.
LEMMA TransferFrame ==
  ASSUME Transferring, NEW t \in Tunnels, t = cur,
         UNCHANGED <<disk, writer, kq, batch, cur, name, remote, cfile, cbuf, wire, sst>>,
         Ordered(t)', sst[t] = "none" => cst'[t] = "opening"
  PROVE  Transferring'
<1>1. NoNews' /\ cur' \in Tunnels /\ name'[cur'] \in Files
  BY DEF Transferring, NoNews
<1>2. \A g \in Files \ {name'[cur']} : Synced(g)'
  BY DEF Transferring, Synced, Copies
<1>3. Accounted(t, name[t])'
  <2>1. Accounted(t, name[t])
    BY DEF Transferring
  <2> QED BY <2>1 DEF Accounted, Copies
<1>4. Ordered(cur)' /\ Accounted(cur, name[cur])'
  BY <1>3 DEF Ordered, Accounted
<1> QED BY <1>1, <1>2, <1>4 DEF Transferring

\* A tunnel that is not over is the one of this Loop.
LEMMA OnlyCurrent ==
  ASSUME BasicInv, Undisturbed, NEW t \in Tunnels,
         \/ cst[t] \notin {"none", "over"} \/ sst[t] = "accepted"
         \/ t <= opened /\ sst[t] = "none"
  PROVE  t = cur /\ cpc # "main" /\ t <= opened
<1>1. t <= opened \/ t > opened
  BY Counters DEF Tunnels, BasicInv
<1>2. t > opened => cst[t] = "none" /\ sst[t] = "none"
  BY DEF BasicInv, Fresh
<1>3. ~(t > opened /\ t <= opened)
  BY Counters DEF Tunnels, BasicInv
<1>4. t <= opened
  BY <1>1, <1>2, <1>3
<1> QED BY <1>4 DEF Undisturbed, OthersOver

-----------------------------------------------------------------------------
(* The client watches the directory.                                       *)

\* A file is opened for writing: only when all is at rest.
LEMMA CalmWriterOpens ==
  ASSUME BasicInv, Calm, CalmOK, NEW f \in Files, WriterOpens(f)
  PROVE  Undisturbed' /\ cpc' = "main" /\ Watching'
<1>0. TypeOK /\ Undisturbed
  BY DEF BasicInv, CalmOK
<1>1. AtRest
  BY DEF Calm, WriterOpens
<1>2. cpc = "main" /\ batch = <<>> /\ kq = <<>> /\ \A g \in Files : writer[g] = "closed"
  BY <1>1 DEF AtRest
<1>u. UNCHANGED <<xmpp, serving, cur, opened, cpc, toClient, cq, cst, sst, batch, remote>>
  BY DEF WriterOpens
<1>3. Undisturbed'
  BY <1>0, <1>u, RestFrame
<1>4. Held(kq) = {} /\ Held(batch) = {}
  BY <1>2, ShortQueues
<1>5. \A g \in Files : Synced(g)
  BY <1>2, <1>4 DEF CalmOK, Watching, Pending
<1>6. Held(kq') = {[mask |-> "OTHER", name |-> NULL]}
  <2>1. Held(kq') = Held(kq) \cup {[mask |-> "OTHER", name |-> NULL]}
    BY <1>0, OtherEvent DEF WriterOpens, TypeOK
  <2> QED BY <1>4, <2>1
<1>7. /\ \A g \in Files \ {f} : writer'[g] = "closed" /\ disk'[g] = disk[g]
      /\ writer'[f] = "open"
  BY <1>0, <1>2 DEF WriterOpens, TypeOK
<1>8. \A g \in Files \ {f} : Synced(g)'
  BY <1>5, <1>7, <1>u DEF Synced, Copies
<1>9. /\ ClosedEvent(f) \notin Held(kq')
      /\ \A e \in Held(kq') : e.mask = "OTHER"
  BY <1>6 DEF ClosedEvent
<1>10. /\ Held(batch') = {} /\ Once(batch', ClosedEvent(f)) /\ batch' = <<>>
  BY <1>2, <1>u, ShortQueues
<1>11. Once(kq', ClosedEvent(f))
  BY <1>9 DEF Once, Held
<1>12. Pending(f)'
  BY <1>7, <1>8, <1>9, <1>10, <1>11 DEF Pending, ClosedEvent
<1> QED BY <1>2, <1>3, <1>12, <1>u DEF Watching

\* The writer of a file is at work: the client is watching, and the file is the pending one.
LEMMA PendingWriter ==
  ASSUME Calm, CalmOK, NEW f \in Files, writer[f] # "closed"
  PROVE  Undisturbed /\ cpc = "main" /\ Pending(f)
<1>1. ~NoNews
  BY DEF NoNews
<1>2. Undisturbed /\ cpc = "main" /\ Watching
  BY <1>1 DEF CalmOK, Transferring
<1>3. PICK g \in Files : Pending(g)
  BY <1>1, <1>2 DEF Watching
<1>4. g = f
  BY <1>3 DEF Pending
<1> QED BY <1>2, <1>3, <1>4

\* The writer writes.
LEMMA CalmWriterWrites ==
  ASSUME BasicInv, Calm, CalmOK, NEW f \in Files, WriterWrites(f)
  PROVE  Undisturbed' /\ cpc' = "main" /\ Watching'
<1>0. TypeOK
  BY DEF BasicInv
<1>1. Undisturbed /\ cpc = "main" /\ Pending(f)
  BY PendingWriter DEF WriterWrites
<1>u. UNCHANGED <<xmpp, serving, cur, opened, cpc, toClient, cq, cst, sst, batch, remote, prev>>
  BY DEF WriterWrites
<1>2. Undisturbed'
  BY <1>1, <1>u, RestFrame
<1> DEFINE r == [mask |-> "OTHER", name |-> NULL]
<1>3. Held(kq') = Held(kq) \cup {r}
  BY <1>0, OtherEvent DEF WriterWrites, TypeOK
<1>4. r.mask = "OTHER" /\ r # ClosedEvent(f)
  BY DEF ClosedEvent
<1>5. Once(kq', ClosedEvent(f))
  <2>1. ClosedEvent(f) \notin Held(kq)
    BY <1>1 DEF Pending, WriterWrites
  <2>2. ClosedEvent(f) \notin Held(kq')
    BY <1>3, <1>4, <2>1
  <2> QED BY <2>2 DEF Once, Held
<1> HIDE DEF r
<1>6. /\ \A g \in Files \ {f} : writer'[g] = writer[g] /\ disk'[g] = disk[g]
      /\ writer'[f] # "closed" /\ writer[f] # "closed"
  BY <1>0 DEF WriterWrites, TypeOK
<1>7. \A g \in Files \ {f} : Synced(g)' /\ writer'[g] = "closed"
  BY <1>1, <1>6, <1>u DEF Synced, Copies, Pending
<1>8. /\ \A e \in Held(kq') \cup Held(batch') : e.mask = "OTHER" \/ e = ClosedEvent(f)
      /\ ClosedEvent(f) \notin Held(kq') \cup Held(batch')
  BY <1>1, <1>3, <1>4, <1>6, <1>u DEF Pending
<1>9. Once(batch', ClosedEvent(f)) /\ (batch' # <<>> => prev' # "IN_CLOSE_NOWRITE")
  BY <1>1, <1>u DEF Pending
<1>10. Pending(f)'
  BY <1>5, <1>6, <1>7, <1>8, <1>9 DEF Pending, ClosedEvent
<1> QED BY <1>1, <1>2, <1>10, <1>u DEF Watching

\* The writer closes the file.
LEMMA CalmWriterCloses ==
  ASSUME BasicInv, Calm, CalmOK, NEW f \in Files, WriterCloses(f)
  PROVE  Undisturbed' /\ cpc' = "main" /\ Watching'
<1>0. TypeOK
  BY DEF BasicInv
<1>1. Undisturbed /\ cpc = "main" /\ Pending(f)
  BY PendingWriter DEF WriterCloses
<1>u. UNCHANGED <<xmpp, serving, cur, opened, cpc, toClient, cq, cst, sst, batch, remote, prev, disk>>
  BY DEF WriterCloses
<1>2. Undisturbed'
  BY <1>1, <1>u, RestFrame
<1>3. PICK r \in Event : r = ClosedEvent(f)
  BY DEF Event, ClosedEvent
<1>4. r.mask = "IN_CLOSE_WRITE" /\ r.name = f /\ kq \in Seq(Event)
  BY <1>0, <1>3 DEF ClosedEvent, TypeOK
<1>5. r \notin Held(kq) /\ r \notin Held(batch)
  BY <1>1, <1>3 DEF Pending, WriterCloses
<1>6. kq' = Append(kq, r)
  <2>1. ~(kq # <<>> /\ Last(kq) = r)
    BY <1>4, <1>5 DEF Last, Held
  <2>2. r = [mask |-> "IN_CLOSE_WRITE", name |-> f]
    BY <1>3 DEF ClosedEvent
  <2> QED BY <2>1, <2>2 DEF Notify, WriterCloses
<1>7. /\ Held(kq') = Held(kq) \cup {r} /\ Once(kq', r)
  <2>1. /\ Held(Append(kq, r)) = Held(kq) \cup {r}
        /\ \A x : Once(kq, x) /\ ~(x = r /\ r \in Held(kq)) => Once(Append(kq, r), x)
    BY <1>4, AppendQueue
  <2>2. Once(kq, r)
    BY <1>1, <1>3 DEF Pending
  <2> QED BY <1>5, <1>6, <2>1, <2>2
<1>8. \A g \in Files \ {f} : Synced(g)' /\ writer'[g] = "closed"
  <2>1. \A g \in Files \ {f} : writer'[g] = writer[g]
    BY <1>0 DEF WriterCloses, TypeOK
  <2> QED BY <1>1, <1>u, <2>1 DEF Synced, Copies, Pending
<1>9. writer'[f] = "closed"
  BY <1>0 DEF WriterCloses, TypeOK
<1>10. /\ \A e \in Held(kq') \cup Held(batch') : e.mask = "OTHER" \/ e = ClosedEvent(f)
       /\ Once(batch', r) /\ (batch' # <<>> => prev' # "IN_CLOSE_NOWRITE")
       /\ r \notin Held(batch')
  BY <1>1, <1>3, <1>5, <1>7, <1>u DEF Pending
<1>11. ClosedEvent(f)' = r
  BY <1>3 DEF ClosedEvent
<1>12. Pending(f)'
  BY <1>3, <1>7, <1>8, <1>9, <1>10, <1>11 DEF Pending
<1> QED BY <1>1, <1>2, <1>12, <1>u DEF Watching

\* WaitForEvents.
LEMMA CalmWaitForEvents ==
  ASSUME BasicInv, Calm, CalmOK, WaitForEvents
  PROVE  Undisturbed' /\ cpc' = "main" /\ Watching'
<1>1. Undisturbed /\ cpc = "main" /\ Watching
  BY DEF CalmOK, WaitForEvents
<1>u. /\ UNCHANGED <<xmpp, serving, cur, opened, cpc, toClient, cq, cst, sst, remote, disk, writer>>
      /\ batch = <<>> /\ kq' = <<>> /\ batch' = kq /\ prev' = "OTHER"
  BY DEF WaitForEvents
<1>2. Undisturbed'
  BY <1>1, <1>u, RestFrame
<1>3. Held(batch) = {} /\ Held(kq') = {} /\ Held(batch') = Held(kq) /\ (\A x : Once(kq', x))
  BY <1>u, ShortQueues
<1>4. CASE NoNews /\ \A f \in Files : Synced(f)
  BY <1>1, <1>2, <1>3, <1>4, <1>u DEF Watching, NoNews, Synced, Copies
<1>5. CASE \E f \in Files : Pending(f)
  <2>1. PICK f \in Files : Pending(f)
    BY <1>5
  <2>2. Pending(f)'
    <3>1. \A g \in Files \ {f} : writer'[g] = "closed" /\ Synced(g)'
      BY <1>u, <2>1 DEF Pending, Synced, Copies
    <3>2. ClosedEvent(f)' = ClosedEvent(f)
      BY DEF ClosedEvent
    <3> QED BY <1>3, <1>u, <2>1, <3>1, <3>2 DEF Pending
  <2> QED BY <1>1, <1>2, <1>u, <2>2 DEF Watching
<1> QED BY <1>1, <1>4, <1>5 DEF Watching

\* An event that starts no transfer is no close of a written file.
LEMMA CalmSkipEvent ==
  ASSUME BasicInv, Calm, CalmOK, SkipEvent
  PROVE  Undisturbed' /\ cpc' = "main" /\ Watching'
<1>1. Undisturbed /\ cpc = "main" /\ Watching
  BY DEF CalmOK, SkipEvent
<1>u. /\ UNCHANGED <<xmpp, serving, cur, opened, cpc, toClient, cq, cst, sst, remote, disk, writer, kq>>
      /\ batch # <<>> /\ batch' = Tail(batch) /\ prev' = Head(batch).mask
      /\ ~Wanted(Head(batch))
  BY DEF SkipEvent
<1>2. Undisturbed'
  BY <1>1, <1>u, RestFrame
<1>3. /\ Held(batch) = {Head(batch)} \cup Held(batch')
      /\ \A x : Once(batch, x) => Once(batch', x)
  BY <1>u, TailQueue DEF BasicInv, TypeOK
<1>4. CASE NoNews /\ \A f \in Files : Synced(f)
  BY <1>1, <1>2, <1>3, <1>4, <1>u DEF Watching, NoNews, Synced, Copies
<1>5. CASE \E f \in Files : Pending(f)
  <2>1. PICK f \in Files : Pending(f)
    BY <1>5
  <2>2. Head(batch) # ClosedEvent(f) /\ Head(batch).mask = "OTHER"
    <3>1. ClosedEvent(f).mask = "IN_CLOSE_WRITE"
      BY DEF ClosedEvent
    <3> QED BY <1>3, <1>u, <2>1, <3>1 DEF Pending, Wanted
  <2>3. Pending(f)'
    <3>1. \A g \in Files \ {f} : writer'[g] = "closed" /\ Synced(g)'
      BY <1>u, <2>1 DEF Pending, Synced, Copies
    <3>2. ClosedEvent(f)' = ClosedEvent(f)
      BY DEF ClosedEvent
    <3>3. ClosedEvent(f) \in Held(batch') <=> ClosedEvent(f) \in Held(batch)
      BY <1>3, <2>2
    <3>4. prev' # "IN_CLOSE_NOWRITE"
      BY <1>u, <2>2
    <3> QED BY <1>3, <1>u, <2>1, <3>1, <3>2, <3>3, <3>4 DEF Pending
  <2> QED BY <1>1, <1>2, <1>u, <2>3 DEF Watching
<1> QED BY <1>1, <1>4, <1>5 DEF Watching

\* The transfer of the pending file begins.
LEMMA CalmSyncFile ==
  ASSUME FaithfulInv, Calm, CalmOK, SyncFile
  PROVE  Undisturbed' /\ cpc' # "main" /\ Transferring'
<1>0. BasicInv /\ TypeOK /\ Fresh /\ ExistsOK
  BY DEF FaithfulInv, ControlInv, LoopInv, BasicInv
<1>1. Undisturbed /\ cpc = "main" /\ Watching /\ batch # <<>> /\ Wanted(Head(batch))
  BY DEF CalmOK, SyncFile
<1>2. /\ Head(batch) \in Held(batch) /\ Head(batch).name \in Files
      /\ Head(batch) \in Event /\ Head(batch).mask = "IN_CLOSE_WRITE"
      /\ Tail(batch) \in Seq(Event)
  BY <1>0, <1>1, BasicSyncFile, BatchTail DEF Wanted
<1>3. PICK t \in Tunnels : t = opened + 1
  BY <1>0, BasicSyncFile
<1>4. PICK f \in Files : f = Head(batch).name
  BY <1>2
<1>5. Head(batch) = ClosedEvent(f) /\ ClosedEvent(f).mask = "IN_CLOSE_WRITE" /\ ClosedEvent(f).name = f
  BY <1>2, <1>4 DEF ClosedEvent, Event
<1>6. Pending(f)
  <2>1. PICK g \in Files : Pending(g)
    BY <1>1, <1>2 DEF Watching, NoNews
  <2>2. Head(batch) = ClosedEvent(g)
    BY <1>2, <2>1 DEF Pending
  <2>3. g = f
    BY <1>4, <2>2 DEF ClosedEvent
  <2> QED BY <2>1, <2>3
<1>7. disk[f].exists
  BY <1>0, <1>2, <1>4 DEF ExistsOK, Calm
<1>8. /\ batch' = Tail(batch) /\ opened' = t /\ name' = Set(name, t, f) /\ cst' = Set(cst, t, "opening")
      /\ cq' = Append(cq, Msg("initiate", t))
      /\ cfile' = [name |-> f, pos |-> 0, open |-> TRUE] /\ cbuf' = <<>>
      /\ cpc' = "loop" /\ cur' = t
      /\ UNCHANGED <<disk, writer, delayed, wire, toServer, toClient, xmpp, sst, sq, remote, serving>>
  <2>1. xmpp /\ disk[f].exists = TRUE
    BY <1>0, <1>1, <1>7 DEF Undisturbed, TypeOK
  <2> QED BY <1>3, <1>4, <2>1 DEF SyncFile
<1>9. /\ Held(cq') = Held(cq) \cup {Msg("initiate", t)}
  BY <1>0, <1>8, Posted, MsgTypes
<1>10. t > opened /\ ~(t <= opened) /\ Tunnels \subseteq Int /\ opened \in Int
  BY <1>0, <1>3, Counters DEF Tunnels
<1>11. /\ cst[t] = "none" /\ sst[t] = "none" /\ wire[t] = <<>>
       /\ Msg("terminate", t) \notin Held(cq) \cup Held(toServer) /\ Msg("done", t) \notin Held(cq)
       /\ t \notin Held(sq)
  BY <1>0, <1>10, MsgTypes DEF Fresh
<1>12. \A u \in Tunnels : u # t => cst'[u] = cst[u] /\ name'[u] = name[u]
  BY <1>0, <1>8 DEF TypeOK
<1>13. cst'[t] = "opening" /\ name'[t] = f
  BY <1>0, <1>8 DEF TypeOK
<1>14. OthersOver'
  <2>1. \A u \in Tunnels : u <= opened => cst[u] = "over" /\ sst[u] = "over"
    BY <1>1 DEF Undisturbed, OthersOver
  <2>2. \A u \in Tunnels : u <= t /\ u # t => u <= opened
    BY <1>3, <1>10
  <2> QED BY <1>8, <1>12, <2>1, <2>2 DEF OthersOver
<1>15. Undisturbed'
  <2>1. \A u \in Tunnels : Msg("close", u) # Msg("initiate", t)
    BY MsgTypes
  <2> QED BY <1>1, <1>8, <1>9, <1>14, <2>1 DEF Undisturbed
<1>16. NoNews'
  <2>1. /\ Held(batch) = {Head(batch)} \cup Held(Tail(batch))
        /\ \A x : Once(batch, x) => Once(Tail(batch), x) /\ (x = Head(batch) => x \notin Held(Tail(batch)))
    BY <1>0, <1>1, TailQueue DEF TypeOK
  <2>2. ClosedEvent(f) \notin Held(Tail(batch)) /\ ClosedEvent(f) \notin Held(kq)
    BY <1>2, <1>5, <1>6, <2>1 DEF Pending
  <2>3. \A e \in Held(kq) \cup Held(Tail(batch)) : e.mask # "IN_CLOSE_WRITE"
    BY <1>6, <2>1, <2>2 DEF Pending
  <2>4. \A g \in Files : writer[g] = "closed"
    BY <1>2, <1>5, <1>6 DEF Pending
  <2>5. \A e \in Held(kq') : e.mask = "IN_CLOSE_WRITE" => e \in Held(kq)
    <3> DEFINE r == [mask |-> "OTHER", name |-> NULL]
    <3>1. r.mask # "IN_CLOSE_WRITE"
      OBVIOUS
    <3>2. /\ AfterReset(kq) \in Seq(Event)
          /\ \A x \in Held(AfterReset(kq)) : x.mask = "IN_CLOSE_WRITE" => x \in Held(kq)
      BY <1>0, ResetEvent
    <3>3. Held(Notify(AfterReset(kq), "OTHER", NULL)) = Held(AfterReset(kq)) \cup {r}
      BY <3>2, OtherEvent
    <3>4. kq' = Notify(AfterReset(kq), "OTHER", NULL) \/ kq' = AfterReset(kq)
      BY DEF SyncFile
    <3> HIDE DEF r
    <3> QED BY <3>1, <3>2, <3>3, <3>4
  <2> QED BY <1>8, <2>3, <2>4, <2>5 DEF NoNews
<1>17. cfile' # NULL
  <2>1. cfile' \in [name : Files, pos : 0..FileUnits, open : BOOLEAN]
    BY <1>8, Sizes
  <2> QED BY <2>1, Sizes
<1>18. Ordered(t)'
  <2>1. Msg("initiate", t) # Msg("terminate", t) /\ Msg("initiate", t) # Msg("done", t)
    BY MsgTypes
  <2> QED BY <1>8, <1>9, <1>11, <1>13, <1>17, <2>1 DEF Ordered
<1>19. Accounted(t, f)'
  <2>1. Copies(<<>>, f)'
    BY DEF Copies
  <2>2. 0 <= disk[f].len
    <3>1. disk[f].len \in {0, FileUnits}
      BY <1>0 DEF TypeOK
    <3> QED BY <3>1, Sizes
  <2>3. cfile'.name = f /\ cfile'.pos = 0 /\ cfile'.open
    BY <1>8
  <2>4. Copies(wire[t], f)' /\ Copies(cbuf, f)'
    BY <1>8, <1>11, <2>1 DEF Copies
  <2> QED BY <1>8, <1>11, <1>13, <2>2, <2>3, <2>4 DEF Accounted
<1>20. \A g \in Files \ {f} : Synced(g)'
  BY <1>6, <1>8 DEF Pending, Synced, Copies
<1>21. Ordered(cur)' /\ Accounted(cur, name[cur])'
  <2>1. cur' = t /\ name'[cur'] = f
    BY <1>8, <1>13
  <2> QED BY <1>18, <1>19, <2>1 DEF Ordered, Accounted
<1>22. Transferring'
  BY <1>8, <1>13, <1>16, <1>20, <1>21 DEF Transferring
<1> QED BY <1>8, <1>15, <1>22

-----------------------------------------------------------------------------
(* The client is in Loop.                                                  *)

\* The facts that every step of a transfer starts from.
LEMMA InTransfer ==
  ASSUME FaithfulInv, Calm, CalmOK, cpc # "main"
  PROVE  /\ BasicInv /\ TypeOK /\ Fresh /\ LoopInv /\ ServerOK
         /\ Undisturbed /\ Transferring /\ cur \in Tunnels /\ Ordered(cur) /\ name[cur] \in Files
         /\ Accounted(cur, name[cur])
         /\ cst \in [Tunnels -> {"none", "opening", "accepted", "connected", "failed", "closing", "over"}]
         /\ cq \in Seq(Message) /\ toServer \in Seq(Stanza) /\ toClient \in Seq(Stanza)
BY DEF FaithfulInv, ControlInv, LoopInv, BasicInv, TypeOK, CalmOK, Transferring

\* A message is taken from the queue; its effect is on nothing that matters here.
LEMMA CalmDispatch ==
  ASSUME FaithfulInv, Calm, CalmOK, NEW m, Dispatch(m), cq' = Tail(cq), cpc' # "main",
         UNCHANGED <<disk, writer, kq, batch, cur, opened, name, remote, cfile, cbuf, wire, sst, sq,
                     cst, xmpp, serving, toClient>>,
         Held(toServer') \subseteq Held(toServer) \cup {m}
  PROVE  Undisturbed' /\ Transferring'
<1>0. cpc # "main"
  BY DEF Dispatch
<1>1. TypeOK /\ Undisturbed /\ Transferring /\ cur \in Tunnels /\ Ordered(cur)
      /\ Accounted(cur, name[cur])
  BY <1>0, InTransfer
<1>2. Held(cq) = {m} \cup Held(cq')
  BY <1>1, Dispatched
<1>3. Undisturbed'
  BY <1>0, <1>1, <1>2, RestFrame
<1>4. PICK t \in Tunnels : t = cur
  BY <1>1
<1>5. Ordered(t)'
  BY <1>1, <1>2, <1>4, OrderedFrame
<1>6. sst[t] = "none" => cst'[t] = "opening"
  BY <1>1, <1>4 DEF Accounted
<1> QED BY <1>1, <1>3, <1>4, <1>5, <1>6, TransferFrame

\* A task sends its stanza.
LEMMA CalmSendStanza ==
  ASSUME FaithfulInv, Calm, CalmOK, NEW t \in Tunnels, NEW k \in {"initiate", "terminate"},
         SendStanza(t, k)
  PROVE  Undisturbed' /\ cpc' # "main" /\ Transferring'
<1>1. /\ Dispatch(Msg(k, t)) /\ cq' = Tail(cq) /\ cpc = "loop"
      /\ UNCHANGED <<disk, writer, kq, batch, cur, opened, name, remote, cfile, cbuf, wire, sst, sq,
                     cst, xmpp, serving, toClient, cpc>>
  BY DEF SendStanza, Dispatch
<1>2. Held(toServer') \subseteq Held(toServer) \cup {Msg(k, t)}
  <2>1. toServer \in Seq(Stanza) /\ Msg(k, t) \in Stanza
    BY <1>1, InTransfer, MsgTypes
  <2>2. Held(Append(toServer, Msg(k, t))) = Held(toServer) \cup {Msg(k, t)}
    BY <2>1, AppendQueue
  <2> QED BY <2>2 DEF SendStanza
<1> QED BY <1>1, <1>2, CalmDispatch

\* SE_WRITE.
LEMMA CalmStreamWritable ==
  ASSUME FaithfulInv, Calm, CalmOK, NEW t \in Tunnels, StreamWritable(t)
  PROVE  Undisturbed' /\ cpc' # "main" /\ Transferring'
<1>1. /\ Dispatch(Msg("write", t)) /\ cq' = Tail(cq) /\ cpc' # "main"
      /\ UNCHANGED <<disk, writer, kq, batch, cur, opened, name, remote, cfile, cbuf, wire, sst, sq,
                     cst, xmpp, serving, toClient, toServer>>
  BY DEF StreamWritable, Dispatch
<1> QED BY <1>1, CalmDispatch

\* SE_CLOSE does not happen.
LEMMA CalmStreamClosed ==
  ASSUME FaithfulInv, Calm, CalmOK, NEW t \in Tunnels, StreamClosed(t)
  PROVE  FALSE
<1>1. Dispatch(Msg("close", t)) /\ cpc # "main"
  BY DEF StreamClosed, Dispatch
<1>2. TypeOK /\ Undisturbed
  BY <1>1, InTransfer
<1>3. Msg("close", t) \in Held(cq)
  BY <1>1, <1>2, Dispatched
<1> QED BY <1>2, <1>3 DEF Undisturbed

\* OnStreamEvent runs for the tunnel of this Loop, and it is connected.
LEMMA CalmSending ==
  ASSUME FaithfulInv, Calm, CalmOK, cpc = "send"
  PROVE  sendT = cur /\ cst[cur] = "connected" /\ cfile # NULL
<1>1. LoopInv /\ Undisturbed
  BY InTransfer
<1>2. sendT \in Tunnels /\ Engaged(sendT) /\ cfile # NULL
  BY <1>1, SendingEngaged
<1>3. sendT = cur
  BY <1>1, <1>2 DEF LoopInv, LoopOK, Undisturbed
<1>4. Alive(sendT)
  BY <1>1 DEF LoopInv, EngagedOK
<1> QED BY <1>1, <1>2, <1>3, <1>4 DEF Alive, Undisturbed

\* The lengths are numbers.
LEMMA Lengths ==
  ASSUME TypeOK, NEW t \in Tunnels, NEW f \in Files
  PROVE  /\ wire[t] \in Seq(Unit) /\ remote[f] \in Seq(Unit) /\ cbuf \in Seq(Unit)
         /\ Len(wire[t]) \in Nat /\ Len(remote[f]) \in Nat /\ Len(cbuf) \in Nat /\ disk[f].len \in Nat
         /\ cfile # NULL => cfile.pos \in Nat
<1>1. wire[t] \in Seq(Unit) /\ remote[f] \in Seq(Unit) /\ cbuf \in Seq(Unit)
  BY DEF TypeOK
<1>2. disk[f].len \in {0, FileUnits}
  BY DEF TypeOK
<1>3. cfile # NULL => cfile.pos \in 0..FileUnits
  BY DEF TypeOK
<1> QED BY <1>1, <1>2, <1>3, Sizes

\* A buffer of at most one unit that is not empty.
LEMMA OneUnit ==
  ASSUME NEW s \in Seq(Unit), s # <<>>, Len(s) <= 1
  PROVE  Len(s) = 1 /\ s[1] \in Unit
<1>1. Len(s) \in Nat /\ (Len(s) = 0 => s = <<>>) /\ \A i \in 1..Len(s) : s[i] \in Unit
  OBVIOUS
<1>2. Len(s) = 1
  <2>1. PICK n \in Nat : n = Len(s)
    BY <1>1
  <2>2. n # 0 /\ n <= 1
    BY <1>1, <2>1
  <2>3. n = 1
    BY <2>2
  <2> QED BY <2>1, <2>3
<1>3. 1 \in 1..Len(s)
  BY <1>2
<1> QED BY <1>1, <1>2, <1>3

\* The send loop writes what it has read, or blocks.
LEMMA CalmSendWrite ==
  ASSUME FaithfulInv, Calm, CalmOK, SendWrite
  PROVE  Undisturbed' /\ cpc' # "main" /\ Transferring'
<1>0. cpc = "send" /\ cbuf # <<>>
  BY DEF SendWrite
<1>1. /\ BasicInv /\ TypeOK /\ Undisturbed /\ Transferring /\ cur \in Tunnels /\ Ordered(cur)
      /\ Accounted(cur, name[cur]) /\ name[cur] \in Files
  BY <1>0, InTransfer
<1>2. sendT = cur /\ cst[cur] = "connected" /\ cfile # NULL
  BY <1>0, CalmSending
<1>u. UNCHANGED <<disk, writer, batch, cur, opened, name, remote, sst, sq, xmpp, serving, toClient, toServer>>
  BY DEF SendWrite
<1>3. PICK t \in Tunnels : t = cur
  BY <1>1
<1>4. PICK f \in Files : f = name[t]
  BY <1>1, <1>3
<1>5. CASE cpc' = "loop" /\ UNCHANGED <<kq, cfile, cbuf, cq, cst, wire>>
  <2>1. Undisturbed'
    BY <1>0, <1>1, <1>5, <1>u, RestFrame
  <2>2. Ordered(t)'
    BY <1>1, <1>3, <1>5, <1>u, OrderedFrame
  <2>3. sst[t] = "none" => cst'[t] = "opening"
    BY <1>1, <1>3, <1>5 DEF Accounted
  <2>4. Transferring'
    BY <1>1, <1>3, <1>5, <1>u, <2>2, <2>3, TransferFrame
  <2> QED BY <1>5, <2>1, <2>4
<1>6. CASE /\ wire' = Set(wire, t, Append(wire[t], cbuf[1])) /\ cbuf' = <<>>
           /\ UNCHANGED <<kq, cpc, cfile, cq, cst>>
  <2>1. Undisturbed'
    BY <1>0, <1>1, <1>6, <1>u, RestFrame
  <2>2. Ordered(t)'
    BY <1>1, <1>2, <1>3, <1>6, <1>u DEF Ordered
  <2>3. /\ wire[t] \in Seq(Unit) /\ remote[f] \in Seq(Unit) /\ cbuf \in Seq(Unit)
        /\ Len(wire[t]) \in Nat /\ Len(remote[f]) \in Nat /\ Len(cbuf) \in Nat
        /\ cfile.pos \in Nat /\ wire \in [Tunnels -> Seq(Unit)]
        /\ Len(cbuf) = 1 /\ cbuf[1] \in Unit
    <3>1. /\ wire[t] \in Seq(Unit) /\ remote[f] \in Seq(Unit) /\ cbuf \in Seq(Unit)
          /\ Len(wire[t]) \in Nat /\ Len(remote[f]) \in Nat /\ Len(cbuf) \in Nat
          /\ cfile.pos \in Nat
      BY <1>1, <1>2, Lengths
    <3>2. Len(cbuf) <= 1 /\ wire \in [Tunnels -> Seq(Unit)]
      BY <1>1 DEF TypeOK
    <3>3. Len(cbuf) = 1 /\ cbuf[1] \in Unit
      <4>1. cbuf \in Seq(Unit) /\ cbuf # <<>> /\ Len(cbuf) <= 1
        BY <1>0, <3>1, <3>2
      <4> QED BY <4>1, OneUnit
    <3> QED BY <3>1, <3>2, <3>3
  <2>4. /\ Copies(wire[t], f) /\ cfile.open /\ cfile.name = f /\ cfile.pos <= disk[f].len
        /\ Copies(cbuf, f)
        /\ sst[t] # "none" /\ Copies(remote[f], f)
        /\ Len(remote[f]) + Len(wire[t]) + Len(cbuf) = cfile.pos
    BY <1>1, <1>2, <1>3, <1>4 DEF Accounted
  <2>5. PICK x \in Unit : x = cbuf[1] /\ x = <<f, disk[f].ver>>
    <3>1. 1 \in 1..Len(cbuf)
      BY <2>3
    <3> QED BY <2>3, <2>4, <3>1 DEF Copies
  <2>6. wire'[t] = Append(wire[t], x)
    BY <1>6, <2>3, <2>5
  <2>7. Copies(wire'[t], f) /\ Len(wire'[t]) = Len(wire[t]) + 1
    BY <2>3, <2>4, <2>5, <2>6, CopiesAppend
  <2>8. Len(remote[f]) + Len(wire'[t]) + Len(cbuf') = cfile.pos
    <3>1. PICK a \in Nat : a = Len(remote[f])
      BY <2>3
    <3>2. PICK b \in Nat : b = Len(wire[t])
      BY <2>3
    <3>3. a + b + 1 = cfile.pos
      BY <2>3, <2>4, <3>1, <3>2
    <3>4. a + (b + 1) + 0 = cfile.pos
      BY <3>3
    <3>5. Len(cbuf') = 0 /\ Len(wire'[t]) = b + 1
      BY <1>6, <2>7, <3>2
    <3> QED BY <3>1, <3>4, <3>5
  <2>9. Copies(wire[t], f)' /\ Copies(cbuf, f)' /\ Copies(remote[f], f)'
    BY <1>6, <1>u, <2>4, <2>7 DEF Copies
  <2>10. Accounted(t, f)'
    BY <1>2, <1>6, <1>u, <2>4, <2>8, <2>9 DEF Accounted
  <2>11. Transferring'
    <3>1. NoNews' /\ cur' = t /\ name'[cur'] = f
      BY <1>1, <1>3, <1>4, <1>6, <1>u DEF Transferring, NoNews
    <3>2. \A g \in Files \ {f} : Synced(g)'
      BY <1>1, <1>3, <1>4, <1>u DEF Transferring, Synced, Copies
    <3>3. Ordered(cur)' /\ Accounted(cur, name[cur])'
      BY <2>2, <2>10, <3>1 DEF Ordered, Accounted
    <3> QED BY <3>1, <3>2, <3>3 DEF Transferring
  <2> QED BY <1>0, <1>6, <2>1, <2>11
<1> QED BY <1>2, <1>3, <1>5, <1>6 DEF SendWrite

\* The send loop reads, or closes the stream at the end of the file.
LEMMA CalmSendRead ==
  ASSUME FaithfulInv, Calm, CalmOK, SendRead
  PROVE  Undisturbed' /\ cpc' # "main" /\ Transferring'
<1>0. cpc = "send" /\ cbuf = <<>>
  BY DEF SendRead
<1>1. /\ BasicInv /\ TypeOK /\ Undisturbed /\ Transferring /\ cur \in Tunnels /\ Ordered(cur)
      /\ Accounted(cur, name[cur]) /\ name[cur] \in Files
      /\ cst \in [Tunnels -> {"none", "opening", "accepted", "connected", "failed", "closing", "over"}]
      /\ cq \in Seq(Message)
  BY <1>0, InTransfer
<1>2. sendT = cur /\ cst[cur] = "connected" /\ cfile # NULL
  BY <1>0, CalmSending
<1>u. UNCHANGED <<disk, writer, batch, cur, opened, name, remote, sst, sq, xmpp, serving, toClient,
                  toServer, wire>>
  BY DEF SendRead
<1>3. PICK t \in Tunnels : t = cur
  BY <1>1
<1>4. PICK f \in Files : f = name[t]
  BY <1>1, <1>3
<1>5. /\ wire[t] \in Seq(Unit) /\ remote[f] \in Seq(Unit)
      /\ Len(wire[t]) \in Nat /\ Len(remote[f]) \in Nat /\ Len(cbuf) = 0 /\ disk[f].len \in Nat
      /\ cfile.pos \in Nat
  BY <1>0, <1>1, <1>2, Lengths
<1>6. /\ Copies(wire[t], f) /\ cfile.open /\ cfile.name = f /\ cfile.pos <= disk[f].len
      /\ sst[t] # "none" /\ Copies(remote[f], f)
      /\ Len(remote[f]) + Len(wire[t]) + Len(cbuf) = cfile.pos
  BY <1>1, <1>2, <1>3, <1>4 DEF Accounted
<1>7. Len(remote[f]) + Len(wire[t]) = cfile.pos
  <2>1. PICK a \in Nat : a = Len(remote[f])
    BY <1>5
  <2>2. PICK b \in Nat : b = Len(wire[t])
    BY <1>5
  <2>3. a + b + 0 = cfile.pos
    BY <1>5, <1>6, <2>1, <2>2
  <2>4. a + b = cfile.pos
    BY <2>3
  <2> QED BY <2>1, <2>2, <2>4
<1>c. Copies(wire[t], f)' /\ Copies(remote[f], f)' /\ \A g \in Files \ {f} : Synced(g)'
  BY <1>1, <1>3, <1>4, <1>6, <1>u DEF Copies, Transferring, Synced
<1>8. CASE cfile.pos < disk[f].len
  <2>1. /\ cbuf' = <<Content(f)[cfile.pos + 1]>> /\ cfile' = [cfile EXCEPT !.pos = @ + 1]
        /\ UNCHANGED <<kq, cpc, cq, cst>>
    BY <1>6, <1>8 DEF SendRead
  <2>2. Undisturbed'
    BY <1>0, <1>1, <1>u, <2>1, RestFrame
  <2>3. cfile \in [name : Files, pos : 0..FileUnits, open : BOOLEAN]
    BY <1>1, <1>2 DEF TypeOK
  <2>4. /\ cfile'.name = f /\ cfile'.open /\ cfile'.pos = cfile.pos + 1
    BY <1>6, <2>1, <2>3
  <2>5. cfile' # NULL
    <3>1. disk[f].len \in {0, FileUnits}
      BY <1>1 DEF TypeOK
    <3>2. cfile.pos + 1 \in 0..FileUnits
      BY <1>5, <1>8, <3>1, Sizes
    <3>3. cfile' \in [name : Files, pos : 0..FileUnits, open : BOOLEAN]
      BY <2>1, <2>3, <3>2
    <3> QED BY <3>3, Sizes
  <2>6. Ordered(t)'
    BY <1>1, <1>2, <1>3, <1>u, <2>1, <2>5 DEF Ordered
  <2>7. cbuf' = << <<f, disk[f].ver>> >>
    <3>1. cfile.pos + 1 \in 1..disk[f].len
      BY <1>5, <1>8
    <3> QED BY <2>1, <3>1 DEF Content
  <2>8. Copies(cbuf, f)' /\ Len(cbuf') = 1
    BY <1>u, <2>7 DEF Copies
  <2>9. cfile'.pos <= disk'[f].len /\ Len(remote'[f]) + Len(wire'[t]) + Len(cbuf') = cfile'.pos
    <3>1. cfile'.pos <= disk'[f].len
      BY <1>5, <1>8, <1>u, <2>4
    <3>2. Len(remote'[f]) + Len(wire'[t]) = cfile.pos
      BY <1>7, <1>u
    <3> QED BY <2>4, <2>8, <3>1, <3>2
  <2>10. Accounted(t, f)'
    BY <1>6, <1>c, <1>u, <2>4, <2>5, <2>8, <2>9 DEF Accounted
  <2>11. Transferring'
    <3>1. NoNews' /\ cur' = t /\ name'[cur'] = f
      BY <1>1, <1>3, <1>4, <1>u, <2>1 DEF Transferring, NoNews
    <3>2. Ordered(cur)' /\ Accounted(cur, name[cur])'
      BY <2>6, <2>10, <3>1 DEF Ordered, Accounted
    <3> QED BY <1>c, <3>1, <3>2 DEF Transferring
  <2> QED BY <1>0, <2>1, <2>2, <2>11
<1>9. CASE ~(cfile.pos < disk[f].len)
  <2>1. Cleanup(t, TRUE, cq) /\ cbuf' = cbuf
    BY <1>2, <1>3, <1>6, <1>9 DEF SendRead
  <2>2. cfile.pos = disk[f].len
    BY <1>5, <1>6, <1>9
  <2>3. /\ cpc' = "loop" /\ cfile' = NULL /\ kq' = AfterReset(kq)
        /\ cst' = Set(cst, t, IF cst[t] = "connected" /\ ~Drained(t) THEN "closing" ELSE "over")
    BY <2>1 DEF Cleanup, ReturnToLoop, ResetFile
  <2>4. Drained(t) <=> wire[t] = <<>>
    BY <1>2, <1>3 DEF Drained
  <2>5. /\ cst'[t] = IF wire[t] = <<>> THEN "over" ELSE "closing"
        /\ \A u \in Tunnels : u # t => cst'[u] = cst[u]
    BY <1>1, <1>2, <1>3, <2>3, <2>4
  <2>6. Held(cq') = (Held(cq) \ {Msg("write", t), Msg("close", t)})
                      \cup (IF Drained(t) THEN {Msg("terminate", t)} ELSE {})
    <3> DEFINE c == ClearEvents(cq, t) \o DoneNow(t, TRUE)
                      \o (IF Drained(t) THEN <<Msg("terminate", t)>> ELSE <<>>)
    <3>1. Drained(t) \in BOOLEAN
      BY DEF Drained
    <3>2. Held(c) = (Held(cq) \ {Msg("write", t), Msg("close", t)})
                           \cup (IF TRUE THEN {} ELSE {Msg("done", t)})
                           \cup (IF Drained(t) THEN {Msg("terminate", t)} ELSE {})
      <4> HIDE DEF c
      <4> QED BY <1>1, <3>1, CleanupQueue DEF c
    <3>3. cq' = c
      BY <2>1 DEF Cleanup
    <3> HIDE DEF c
    <3> QED BY <3>2, <3>3
  <2>7. /\ \A u \in Tunnels : Msg("close", u) \in Held(cq') => Msg("close", u) \in Held(cq)
        /\ Msg("done", t) \in Held(cq') => Msg("done", t) \in Held(cq)
        /\ Msg("terminate", t) \in Held(cq') => Msg("terminate", t) \in Held(cq) \/ wire[t] = <<>>
    <3>1. /\ \A u \in Tunnels : Msg("close", u) # Msg("terminate", t)
          /\ Msg("done", t) # Msg("terminate", t)
      BY MsgTypes
    <3> QED BY <2>4, <2>6, <3>1
  <2>8. Undisturbed'
    BY <1>0, <1>1, <1>3, <1>u, <2>3, <2>5, <2>7, RestFrame
  <2>9. Ordered(t)'
    <3>1. /\ Msg("terminate", t) \notin Held(cq) \cup Held(toServer) /\ t \notin Held(sq)
          /\ sst[t] # "over" /\ Msg("done", t) \notin Held(cq)
      BY <1>1, <1>2, <1>3 DEF Ordered
    <3> QED BY <1>u, <2>3, <2>5, <2>7, <3>1 DEF Ordered
  <2>10. Accounted(t, f)'
    BY <1>6, <1>7, <1>c, <1>u, <2>2, <2>3 DEF Accounted
  <2>11. Transferring'
    <3>1. \A e \in Held(kq') : e.mask = "IN_CLOSE_WRITE" => e \in Held(kq)
      BY <1>1, <2>3, ResetEvent
    <3>2. NoNews' /\ cur' = t /\ name'[cur'] = f
      BY <1>1, <1>3, <1>4, <1>u, <3>1 DEF Transferring, NoNews
    <3>3. Ordered(cur)' /\ Accounted(cur, name[cur])'
      BY <2>9, <2>10, <3>2 DEF Ordered, Accounted
    <3> QED BY <1>c, <3>2, <3>3 DEF Transferring
  <2> QED BY <2>3, <2>8, <2>11
<1> QED BY <1>8, <1>9

\* Loop returns: the file of the server is the client's.
LEMMA CalmLoopReturns ==
  ASSUME FaithfulInv, Calm, CalmOK, NEW m \in Message, LoopReturns(m)
  PROVE  Undisturbed' /\ cpc' = "main" /\ Watching'
<1>0. cpc # "main" /\ Dispatch(m) /\ cq' = Tail(cq) /\ cpc' = "main"
  BY DEF LoopReturns, Dispatch
<1>u. UNCHANGED <<disk, writer, kq, batch, cur, opened, name, remote, cfile, wire, sst, cst, xmpp,
                  serving, toClient>>
  BY DEF LoopReturns
<1>1. /\ BasicInv /\ TypeOK /\ LoopInv /\ Undisturbed /\ Transferring /\ cur \in Tunnels /\ Ordered(cur)
      /\ Accounted(cur, name[cur]) /\ name[cur] \in Files
  BY <1>0, InTransfer
<1>2. m = Msg("done", cur)
  BY <1>1, LoopLoopReturns DEF Undisturbed
<1>3. Held(cq) = {m} \cup Held(cq')
  BY <1>0, <1>1, Dispatched
<1>4. PICK t \in Tunnels : t = cur
  BY <1>1
<1>5. PICK f \in Files : f = name[t]
  BY <1>1, <1>4
<1>6. sst[t] = "over" /\ cst[t] = "over" /\ wire[t] = <<>> /\ cfile = NULL
  BY <1>1, <1>2, <1>3, <1>4 DEF Ordered
<1>7. Copies(remote[f], f) /\ Len(remote[f]) + Len(wire[t]) = disk[f].len
  BY <1>1, <1>4, <1>5, <1>6 DEF Accounted
<1>8. Synced(f)
  <2>1. Len(remote[f]) \in Nat /\ Len(wire[t]) = 0
    BY <1>1, <1>6, Lengths
  <2> QED BY <1>7, <2>1 DEF Synced
<1>9. \A g \in Files : Synced(g)
  BY <1>1, <1>4, <1>5, <1>8 DEF Transferring
<1>10. Watching'
  <2>1. NoNews' /\ \A g \in Files : Synced(g)'
    BY <1>1, <1>9, <1>u DEF Transferring, NoNews, Synced, Copies
  <2> QED BY <2>1 DEF Watching
<1>11. OthersOver'
  BY <1>1, <1>4, <1>6, <1>u DEF Undisturbed, OthersOver
<1>12. Undisturbed'
  BY <1>1, <1>3, <1>11, <1>u DEF Undisturbed
<1> QED BY <1>0, <1>10, <1>12

\* A message of the current tunnel is posted, and its state goes on.
LEMMA CalmPost ==
  ASSUME FaithfulInv, Calm, CalmOK, cpc # "main", NEW t \in Tunnels, t = cur,
         NEW k \in {"write", "terminate", "done"}, cq' = Append(cq, Msg(k, t)),
         UNCHANGED <<disk, writer, kq, batch, cur, opened, name, remote, cfile, cbuf, wire, sst, sq,
                     xmpp, serving, toClient, toServer, cpc>>,
         NEW st, cst' = Set(cst, t, st),
         st = cst[t] \/ (cst[t] = "accepted" /\ st = "connected")
                     \/ (cst[t] = "closing" /\ st = "over" /\ wire[t] = <<>>),
         k = "terminate" => st = "over", k = "done" => sst[t] = "over"
  PROVE  Undisturbed' /\ Transferring'
<1>1. /\ BasicInv /\ TypeOK /\ Undisturbed /\ Transferring /\ Ordered(t) /\ Accounted(t, name[t])
      /\ cst \in [Tunnels -> {"none", "opening", "accepted", "connected", "failed", "closing", "over"}]
  BY InTransfer
<1>2. Held(cq') = Held(cq) \cup {Msg(k, t)}
  BY <1>1, Posted, MsgTypes
<1>3. /\ \A u \in Tunnels : Msg("close", u) # Msg(k, t)
      /\ Msg("terminate", t) = Msg(k, t) => k = "terminate"
      /\ Msg("done", t) = Msg(k, t) => k = "done"
  BY MsgTypes
<1>4. cst'[t] = st /\ \A u \in Tunnels : u # t => cst'[u] = cst[u]
  BY <1>1
<1>5. Undisturbed'
  BY <1>1, <1>2, <1>3, <1>4, RestFrame
<1>6. Ordered(t)'
  BY <1>1, <1>2, <1>3, <1>4 DEF Ordered
<1>7. sst[t] = "none" => cst'[t] = "opening"
  BY <1>1, <1>4 DEF Accounted
<1> QED BY <1>1, <1>5, <1>6, <1>7, TransferFrame

\* PseudoTcp opens, becomes writable, has sent everything; the two seconds are over.
LEMMA CalmTunnelStep ==
  ASSUME FaithfulInv, Calm, CalmOK, NEW t \in Tunnels, TunnelStep(t)
  PROVE  Undisturbed' /\ cpc' # "main" /\ Transferring'
<1>0. cpc # "main" /\ UNCHANGED cpc
  BY DEF TunnelStep, TunnelOpens, TunnelWritable, TunnelDrained, DelayFires, TunnelGivesUp
<1>1. /\ BasicInv /\ TypeOK /\ LoopInv /\ ServerOK /\ Undisturbed /\ Transferring
      /\ cur \in Tunnels /\ Ordered(cur) /\ Accounted(cur, name[cur])
      /\ cst \in [Tunnels -> {"none", "opening", "accepted", "connected", "failed", "closing", "over"}]
  BY <1>0, InTransfer
<1>2. UNCHANGED <<disk, writer, kq, batch, cur, opened, name, remote, cfile, cbuf, wire, sst, sq,
                  xmpp, serving, toClient, toServer, cpc>>
  BY DEF TunnelStep, TunnelOpens, TunnelWritable, TunnelDrained, DelayFires, TunnelGivesUp
<1>3. CASE TunnelOpens(t)
  <2>1. cst[t] = "accepted" /\ cst' = Set(cst, t, "connected") /\ cq' = Append(cq, Msg("write", t))
    BY <1>3 DEF TunnelOpens
  <2>2. t = cur
    BY <1>1, <2>1, OnlyCurrent
  <2> QED BY <1>0, <1>2, <2>1, <2>2, CalmPost
<1>4. CASE TunnelWritable(t)
  <2>1. cst[t] = "connected" /\ cst' = cst /\ cq' = Append(cq, Msg("write", t))
    BY <1>4 DEF TunnelWritable
  <2>2. t = cur /\ cst' = Set(cst, t, cst[t])
    BY <1>1, <2>1, OnlyCurrent
  <2> QED BY <1>0, <1>2, <2>1, <2>2, CalmPost
<1>5. CASE TunnelDrained(t)
  <2>1. cst[t] = "closing" /\ cst' = Set(cst, t, "over") /\ cq' = Append(cq, Msg("terminate", t))
        /\ wire[t] = <<>>
    BY <1>5 DEF TunnelDrained
  <2>2. t = cur
    BY <1>1, <2>1, OnlyCurrent
  <2> QED BY <1>0, <1>2, <2>1, <2>2, CalmPost
<1>6. CASE DelayFires(t)
  <2>1. t \in delayed /\ cst' = cst /\ cq' = Append(cq, Msg("done", t)) /\ sfile # t
    BY <1>6 DEF DelayFires, Calm
  <2>2. t = cur /\ cfile = NULL
    BY <1>1, <2>1 DEF LoopInv, LoopOK, Undisturbed
  <2>3. sst[t] = "over"
    <3>1. sst[t] # "accepted" /\ sst[t] \in {"none", "accepted", "over"}
      BY <1>1, <2>1 DEF ServerOK, TypeOK
    <3>2. sst[t] # "none"
      BY <1>1, <2>2 DEF Accounted, Ordered
    <3> QED BY <3>1, <3>2
  <2>4. cst' = Set(cst, t, cst[t])
    BY <1>1, <2>1
  <2> QED BY <1>0, <1>2, <2>1, <2>2, <2>3, <2>4, CalmPost
<1>7. ~TunnelGivesUp(t)
  BY <1>1 DEF TunnelGivesUp, Undisturbed
<1> QED BY <1>3, <1>4, <1>5, <1>6, <1>7 DEF TunnelStep

\* The client learns that its tunnel is accepted.
LEMMA CalmClientStanza ==
  ASSUME FaithfulInv, Calm, CalmOK, ClientStanza
  PROVE  Undisturbed' /\ cpc' # "main" /\ Transferring'
<1>0. cpc # "main" /\ UNCHANGED cpc
  BY DEF ClientStanza
<1>1. /\ BasicInv /\ TypeOK /\ ServerOK /\ Undisturbed /\ Transferring
      /\ cur \in Tunnels /\ Ordered(cur) /\ Accounted(cur, name[cur])
      /\ cst \in [Tunnels -> {"none", "opening", "accepted", "connected", "failed", "closing", "over"}]
  BY <1>0, InTransfer
<1>2. PICK u \in Tunnels : u = Head(toClient).t
  BY <1>1, ClientStanzaFacts
<1>3. Head(toClient) = Msg(Head(toClient).k, u) /\ Head(toClient) \in Held(toClient)
      /\ Held(toClient') \subseteq Held(toClient)
  BY <1>1, <1>2, ClientStanzaFacts
<1>4. Head(toClient).k = "accept" /\ sst[u] # "none"
  BY <1>1, <1>3 DEF Undisturbed, ServerOK
<1>5. /\ cst' = IF cst[u] = "opening" THEN Set(cst, u, "accepted") ELSE cst
      /\ UNCHANGED <<disk, writer, kq, batch, cur, opened, name, remote, cfile, cbuf, wire, sst, sq,
                     xmpp, serving, toServer, cq>>
  BY <1>2, <1>4 DEF ClientStanza, RecvAccept
<1>6. cst[u] = "opening" => u = cur
  BY <1>1, OnlyCurrent
<1>7. PICK t \in Tunnels : t = cur
  BY <1>1
<1>8. /\ \A v \in Tunnels : v # t => cst'[v] = cst[v]
      /\ cst'[t] = cst[t] \/ (cst[t] = "opening" /\ cst'[t] = "accepted" /\ sst[t] # "none")
  BY <1>1, <1>4, <1>5, <1>6, <1>7
<1>9. Undisturbed'
  BY <1>0, <1>1, <1>3, <1>5, <1>7, <1>8, RestFrame
<1>10. Ordered(t)'
  BY <1>1, <1>5, <1>7, <1>8 DEF Ordered
<1>11. sst[t] = "none" => cst'[t] = "opening"
  BY <1>1, <1>7, <1>8 DEF Accounted
<1> QED BY <1>0, <1>1, <1>5, <1>7, <1>9, <1>10, <1>11, TransferFrame

-----------------------------------------------------------------------------
(* The server.                                                             *)

\* What holds whether or not the client is in a Loop.
LEMMA InCalm ==
  ASSUME FaithfulInv, Calm, CalmOK
  PROVE  /\ BasicInv /\ TypeOK /\ Fresh /\ ServerOK /\ Undisturbed
         /\ sst \in [Tunnels -> {"none", "accepted", "over"}] /\ 0 \notin Tunnels
         /\ wire \in [Tunnels -> Seq(Unit)] /\ remote \in [Files -> Seq(Unit)]
<1>1. 0 \notin Tunnels
  BY MaxWritesBound DEF Tunnels
<1> QED BY <1>1 DEF FaithfulInv, ControlInv, LoopInv, BasicInv, TypeOK, CalmOK

\* A unit arrives in the server's file.
LEMMA CalmDeliver ==
  ASSUME FaithfulInv, Calm, CalmOK, NEW t \in Tunnels, Deliver(t)
  PROVE  Undisturbed' /\ cpc' # "main" /\ Transferring'
<1>1. /\ BasicInv /\ TypeOK /\ ServerOK /\ Undisturbed
      /\ wire \in [Tunnels -> Seq(Unit)] /\ remote \in [Files -> Seq(Unit)]
  BY InCalm
<1>2. sst[t] = "accepted" /\ wire[t] # <<>> /\ sfile = t
  BY <1>1 DEF Deliver, ServerOK
<1>3. t = cur /\ cpc # "main"
  BY <1>1, <1>2, OnlyCurrent
<1>4. Transferring /\ Ordered(t) /\ Accounted(t, name[t]) /\ name[t] \in Files
  BY <1>3, InTransfer
<1>5. PICK f \in Files : f = name[t]
  BY <1>4
<1>u. UNCHANGED <<disk, writer, kq, batch, cpc, cur, opened, name, cfile, cbuf, cq, cst, sst, sq, xmpp,
                  serving, toClient, toServer>>
  BY DEF Deliver
<1>6. /\ wire' = Set(wire, t, Tail(wire[t]))
      /\ remote' = [remote EXCEPT ![f] = Append(@, Head(wire[t]))]
  BY <1>2, <1>5 DEF Deliver
<1>7. /\ wire[t] \in Seq(Unit) /\ remote[f] \in Seq(Unit)
      /\ Len(wire[t]) \in Nat /\ Len(remote[f]) \in Nat /\ Len(cbuf) \in Nat
  BY <1>1, Lengths
<1>8. PICK x \in Unit : x = Head(wire[t])
  BY <1>2, <1>7
<1>9. /\ wire'[t] = Tail(wire[t]) /\ remote'[f] = Append(remote[f], x)
      /\ \A g \in Files \ {f} : remote'[g] = remote[g]
  BY <1>1, <1>6, <1>8
<1>10. /\ Copies(wire[t], f) /\ Copies(remote[f], f)
       /\ cfile # NULL => /\ cfile.open /\ cfile.name = f /\ cfile.pos <= disk[f].len /\ Copies(cbuf, f)
                          /\ Len(remote[f]) + Len(wire[t]) + Len(cbuf) = cfile.pos
       /\ cfile = NULL => Len(remote[f]) + Len(wire[t]) = disk[f].len
  BY <1>2, <1>4, <1>5 DEF Accounted
<1>11. x = <<f, disk[f].ver>> /\ Copies(wire'[t], f) /\ Len(wire'[t]) = Len(wire[t]) - 1
  BY <1>2, <1>7, <1>8, <1>9, <1>10, CopiesTail
<1>12. Copies(remote'[f], f) /\ Len(remote'[f]) = Len(remote[f]) + 1
  BY <1>7, <1>9, <1>10, <1>11, CopiesAppend
<1>13. /\ cfile # NULL => Len(remote'[f]) + Len(wire'[t]) + Len(cbuf) = cfile.pos
       /\ cfile = NULL => Len(remote'[f]) + Len(wire'[t]) = disk[f].len
  <2>1. PICK a \in Nat : a = Len(remote[f])
    BY <1>7
  <2>2. PICK b \in Nat : b = Len(wire[t])
    BY <1>7
  <2>3. PICK c \in Nat : c = Len(cbuf)
    BY <1>7
  <2>4. (a + 1) + (b - 1) + c = a + b + c /\ (a + 1) + (b - 1) = a + b
    OBVIOUS
  <2> QED BY <1>10, <1>11, <1>12, <2>1, <2>2, <2>3, <2>4
<1>14. Copies(wire[t], f)' /\ Copies(remote[f], f)' /\ (cfile # NULL => Copies(cbuf, f)')
  BY <1>10, <1>11, <1>12, <1>u DEF Copies
<1>15. Accounted(t, f)'
  BY <1>2, <1>10, <1>13, <1>14, <1>u DEF Accounted
<1>16. Ordered(t)'
  BY <1>2, <1>4, <1>u DEF Ordered
<1>17. Undisturbed'
  BY <1>1, <1>u, RestFrame
<1>18. Transferring'
  <2>1. NoNews' /\ cur' = t /\ name'[cur'] = f
    BY <1>3, <1>4, <1>5, <1>u DEF Transferring, NoNews
  <2>2. \A g \in Files \ {f} : Synced(g)'
    BY <1>3, <1>4, <1>5, <1>9, <1>u DEF Transferring, Synced, Copies
  <2>3. Ordered(cur)' /\ Accounted(cur, name[cur])'
    BY <1>15, <1>16, <2>1 DEF Ordered, Accounted
  <2> QED BY <2>1, <2>2, <2>3 DEF Transferring
<1> QED BY <1>3, <1>17, <1>18, <1>u

\* An initiate is the one of this Loop; the server accepts it and truncates the file.
LEMMA CalmInitiate ==
  ASSUME FaithfulInv, Calm, CalmOK, ServerStanza, Head(toServer).k = "initiate"
  PROVE  Undisturbed' /\ cpc' # "main" /\ Transferring'
<1>1. /\ BasicInv /\ TypeOK /\ ServerOK /\ Undisturbed /\ 0 \notin Tunnels
      /\ wire \in [Tunnels -> Seq(Unit)] /\ remote \in [Files -> Seq(Unit)]
      /\ sst \in [Tunnels -> {"none", "accepted", "over"}] /\ toClient \in Seq(Stanza)
  BY InCalm DEF TypeOK
<1>2. PICK t \in Tunnels : t = Head(toServer).t
  BY <1>1, ServerStanzaFacts
<1>3. /\ t <= opened /\ Head(toServer) = Msg("initiate", t)
      /\ Held(toServer) = {Head(toServer)} \cup Held(toServer')
  BY <1>1, <1>2, ServerStanzaFacts
<1>4. sst[t] = "none" /\ wire[t] = <<>>
  BY <1>1, <1>3 DEF ServerOK
<1>5. t = cur /\ cpc # "main"
  BY <1>1, <1>3, <1>4, OnlyCurrent
<1>6. Transferring /\ Ordered(t) /\ Accounted(t, name[t]) /\ name[t] \in Files
  BY <1>5, InTransfer
<1>7. PICK f \in Files : f = name[t]
  BY <1>6
<1>8. sfile = 0
  <2>1. sfile \in Tunnels \/ sfile = 0
    BY <1>1, MaxWritesBound DEF TypeOK, Tunnels
  <2>2. ASSUME sfile \in Tunnels PROVE FALSE
    <3>1. sst[sfile] = "accepted"
      BY <1>1, <2>2 DEF ServerOK
    <3>2. sfile = cur
      BY <1>1, <2>2, <3>1, OnlyCurrent
    <3> QED BY <1>4, <1>5, <3>1, <3>2
  <2> QED BY <2>1, <2>2
<1>9. RecvInitiate(t)
  BY <1>2 DEF ServerStanza
<1>10. /\ toClient' = Append(toClient, Msg("accept", t)) /\ sst' = Set(sst, t, "accepted")
       /\ remote' = Set(remote, f, <<>>) /\ UNCHANGED <<serving, sq>>
  BY <1>7, <1>8, <1>9 DEF RecvInitiate, Declines, Calm
<1>u. UNCHANGED <<disk, writer, kq, batch, cpc, cur, opened, name, cfile, cbuf, cq, cst, wire, xmpp>>
  BY DEF ServerStanza
<1>11. /\ sst'[t] = "accepted" /\ \A u \in Tunnels : u # t => sst'[u] = sst[u]
       /\ remote'[f] = <<>> /\ \A g \in Files \ {f} : remote'[g] = remote[g]
  BY <1>1, <1>10
<1>12. Held(toClient') = Held(toClient) \cup {Msg("accept", t)}
  BY <1>1, <1>10, MsgTypes, AppendQueue
<1>13. Undisturbed'
  <2>1. \A m \in Held(toClient') : m.k = "accept"
    BY <1>1, <1>12, MsgTypes DEF Undisturbed
  <2>2. OthersOver'
    BY <1>1, <1>5, <1>11, <1>u DEF Undisturbed, OthersOver
  <2> QED BY <1>1, <1>10, <1>u, <2>1, <2>2 DEF Undisturbed
<1>14. /\ cst[t] = "opening" /\ cfile # NULL /\ cfile.pos = 0 /\ cbuf = <<>>
       /\ cfile.open /\ cfile.name = f /\ cfile.pos <= disk[f].len /\ Copies(cbuf, f)
  BY <1>4, <1>6, <1>7 DEF Accounted, Ordered
<1>15. Ordered(t)'
  <2>1. /\ Msg("terminate", t) \notin Held(cq) \cup Held(toServer) /\ t \notin Held(sq)
        /\ Msg("done", t) \notin Held(cq)
    BY <1>4, <1>6, <1>14 DEF Ordered
  <2> QED BY <1>3, <1>10, <1>11, <1>14, <1>u, <2>1 DEF Ordered
<1>16. Accounted(t, f)'
  <2>1. Copies(wire[t], f)' /\ Copies(remote[f], f)' /\ Copies(cbuf, f)'
    BY <1>4, <1>11, <1>14, <1>u DEF Copies
  <2>2. Len(remote'[f]) + Len(wire'[t]) + Len(cbuf') = cfile'.pos
    BY <1>4, <1>11, <1>14, <1>u
  <2> QED BY <1>11, <1>14, <1>u, <2>1, <2>2 DEF Accounted
<1>17. Transferring'
  <2>1. NoNews' /\ cur' = t /\ name'[cur'] = f
    BY <1>5, <1>6, <1>7, <1>u DEF Transferring, NoNews
  <2>2. \A g \in Files \ {f} : Synced(g)'
    BY <1>5, <1>6, <1>7, <1>11, <1>u DEF Transferring, Synced, Copies
  <2>3. Ordered(cur)' /\ Accounted(cur, name[cur])'
    BY <1>15, <1>16, <2>1 DEF Ordered, Accounted
  <2> QED BY <2>1, <2>2, <2>3 DEF Transferring
<1> QED BY <1>5, <1>13, <1>17, <1>u

\* A terminate has its SE_CLOSE queued, or is for a session that is gone.
LEMMA CalmTerminate ==
  ASSUME FaithfulInv, Calm, CalmOK, StanzasOK, ServerStanza, Head(toServer).k # "initiate"
  PROVE  Undisturbed' /\ cpc' = cpc /\ (cpc = "main" => Watching') /\ (cpc # "main" => Transferring')
<1>1. /\ BasicInv /\ TypeOK /\ ServerOK /\ Undisturbed /\ sq \in Seq(Tunnels)
  BY InCalm DEF TypeOK
<1>2. PICK u \in Tunnels : u = Head(toServer).t
  BY <1>1, ServerStanzaFacts
<1>3. Held(toServer) = {Head(toServer)} \cup Held(toServer') /\ Head(toServer) = Msg(Head(toServer).k, u)
  BY <1>1, <1>2, ServerStanzaFacts
<1>4. RecvTerminate(u)
  BY <1>2 DEF ServerStanza
<1>u. UNCHANGED <<disk, writer, kq, batch, prev, cpc, cur, opened, name, cfile, cbuf, cq, cst, wire, xmpp,
                  toClient, sst, remote, serving>>
  BY <1>4 DEF ServerStanza, RecvTerminate
<1>5. Undisturbed'
  BY <1>1, <1>u, RestFrame
<1>6. CASE cpc = "main"
  <2>1. Watching
    BY <1>6 DEF CalmOK
  <2> QED BY <1>5, <1>6, <1>u, <2>1, WatchFrame
<1>7. CASE cpc # "main"
  <2>1. Transferring /\ cur \in Tunnels /\ Ordered(cur) /\ Accounted(cur, name[cur])
    BY <1>7, InTransfer
  <2>2. PICK t \in Tunnels : t = cur
    BY <2>1
  <2>3. t \in Held(sq') => t \in Held(sq) \/ cst[t] = "over"
    <3>1. CASE sq' = sq
      BY <3>1
    <3>2. CASE sq' # sq
      <4>1. sq' = Append(sq, u) /\ sst[u] = "accepted"
        BY <1>4, <3>2 DEF RecvTerminate
      <4>2. Held(sq') = Held(sq) \cup {u}
        BY <1>1, <4>1, AppendQueue
      <4>3. u = t
        BY <1>1, <2>2, <4>1, OnlyCurrent
      <4>4. Head(toServer).k = "terminate"
        BY <1>3 DEF StanzasOK
      <4> QED BY <1>3, <2>1, <2>2, <4>3, <4>4 DEF Ordered
    <3> QED BY <3>1, <3>2
  <2>4. Ordered(t)'
    BY <1>3, <1>u, <2>1, <2>2, <2>3 DEF Ordered
  <2>5. sst[t] = "none" => cst'[t] = "opening"
    BY <1>u, <2>1, <2>2 DEF Accounted
  <2>6. Transferring'
    BY <1>u, <2>1, <2>2, <2>4, <2>5, TransferFrame
  <2> QED BY <1>5, <1>7, <1>u, <2>6
<1> QED BY <1>6, <1>7

\* The server closes the file of this Loop's tunnel.
LEMMA CalmServerCloses ==
  ASSUME FaithfulInv, Calm, CalmOK, ServerCloses
  PROVE  Undisturbed' /\ cpc' # "main" /\ Transferring'
<1>1. /\ BasicInv /\ TypeOK /\ ServerOK /\ Undisturbed
      /\ sst \in [Tunnels -> {"none", "accepted", "over"}]
  BY InCalm
<1>2. sfile # 0 /\ sq = <<sfile>>
  BY <1>1 DEF ServerOK, ServerCloses
<1>3. PICK t \in Tunnels : t = sfile
  BY <1>1, <1>2, MaxWritesBound DEF TypeOK, Tunnels
<1>4. sst[t] = "accepted"
  BY <1>1, <1>3 DEF ServerOK
<1>5. t = cur /\ cpc # "main"
  BY <1>1, <1>4, OnlyCurrent
<1>6. Transferring /\ Ordered(t) /\ Accounted(t, name[t]) /\ name[t] \in Files
  BY <1>5, InTransfer
<1>7. sq' = <<>> /\ sst' = Set(sst, t, "over")
  BY <1>2, <1>3 DEF ServerCloses
<1>8. sst'[t] = "over" /\ \A u \in Tunnels : u # t => sst'[u] = sst[u]
  BY <1>1, <1>7
<1>u. UNCHANGED <<disk, writer, kq, batch, cpc, cur, opened, name, cfile, cbuf, cq, cst, wire, xmpp,
                  toClient, toServer, remote, serving>>
  BY DEF ServerCloses
<1>9. t \in Held(sq) /\ Held(sq') = {}
  BY <1>2, <1>3, <1>7, ShortQueues
<1>10. cst[t] = "over"
  BY <1>6, <1>9 DEF Ordered
<1>11. Undisturbed'
  BY <1>1, <1>5, <1>8, <1>u, RestFrame
<1>12. Ordered(t)'
  BY <1>6, <1>8, <1>10, <1>u DEF Ordered
<1>13. Accounted(t, name[t])'
  BY <1>4, <1>6, <1>8, <1>u DEF Accounted, Copies
<1>14. Transferring'
  <2>1. NoNews' /\ cur' = t /\ name'[cur'] \in Files
    BY <1>5, <1>6, <1>u DEF Transferring, NoNews
  <2>2. \A g \in Files \ {name'[cur']} : Synced(g)'
    BY <1>5, <1>6, <1>u DEF Transferring, Synced, Copies
  <2>3. Ordered(cur)' /\ Accounted(cur, name[cur])'
    BY <1>12, <1>13, <2>1 DEF Ordered, Accounted
  <2> QED BY <2>1, <2>2, <2>3 DEF Transferring
<1> QED BY <1>5, <1>11, <1>14, <1>u

-----------------------------------------------------------------------------
(* The theorem.                                                            *)

\* The stanzas of the client.
LEMMA StanzasStep ==
  ASSUME BasicInv, StanzasOK, [Next]_vars
  PROVE  StanzasOK'
<1>1. toServer \in Seq(Stanza)
  BY DEF BasicInv, TypeOK
<1>2. CASE toServer' = toServer
  BY <1>2 DEF StanzasOK
<1>3. ASSUME NEW t \in Tunnels, NEW k \in {"initiate", "terminate"}, SendStanza(t, k) PROVE StanzasOK'
  <2>1. Held(Append(toServer, Msg(k, t))) = Held(toServer) \cup {Msg(k, t)}
    BY <1>1, MsgTypes, AppendQueue
  <2>2. toServer' \in {toServer, Append(toServer, Msg(k, t))}
    BY <1>3 DEF SendStanza
  <2>3. Msg(k, t).k \in {"initiate", "terminate"}
    BY MsgTypes
  <2>4. \A m \in Held(toServer') : m \in Held(toServer) \/ m = Msg(k, t)
    BY <2>1, <2>2
  <2> QED BY <2>3, <2>4 DEF StanzasOK
<1>4. CASE LoggedOut
  BY <1>4, ShortQueues DEF LoggedOut, StanzasOK
<1>5. CASE ServerStanza
  BY <1>5, ServerStanzaFacts DEF StanzasOK
<1>6. CASE (\E f \in Files : WriterOpens(f) \/ Deletes(f)) \/ WriterStep \/ MainStep
  BY <1>2, <1>6 DEF WriterOpens, Deletes, WriterStep, WriterWrites, WriterCloses, MainStep,
                    WaitForEvents, SkipEvent, SyncFile
<1>7. CASE LoopStep
  BY <1>2, <1>3, <1>7 DEF LoopStep, StreamWritable, StreamClosed, SendWrite, SendRead, LoopReturns
<1>8. CASE ClientStanza \/ \E t \in Tunnels : TunnelStep(t) \/ Deliver(t) \/ TunnelFails(t)
  BY <1>2, <1>8 DEF ClientStanza, TunnelStep, TunnelOpens, TunnelWritable, TunnelDrained, DelayFires,
                    TunnelGivesUp, Deliver, TunnelFails
<1>9. CASE ServerCloses \/ UNCHANGED vars
  BY <1>2, <1>9 DEF ServerCloses, vars
<1> QED BY <1>3, <1>4, <1>5, <1>6, <1>7, <1>8, <1>9 DEF Next, ServerStep

\* Every step of an undisturbed run.
LEMMA CalmStep ==
  ASSUME FaithfulInv, StanzasOK, CalmOK, [Next]_vars
  PROVE  CalmOK'
<1>e. env' = env
  BY DEF Next, WriterOpens, Deletes, WriterStep, WriterWrites, WriterCloses, MainStep, WaitForEvents,
         SkipEvent, SyncFile, LoopStep, SendStanza, StreamWritable, StreamClosed, SendWrite, SendRead,
         LoopReturns, ClientStanza, TunnelStep, TunnelOpens, TunnelWritable, TunnelDrained, DelayFires,
         TunnelGivesUp, Deliver, TunnelFails, LoggedOut, ServerStep, ServerStanza, RecvInitiate,
         RecvTerminate, ServerCloses, vars
<1> SUFFICES ASSUME Calm
             PROVE  Undisturbed' /\ (cpc' = "main" => Watching') /\ (cpc' # "main" => Transferring')
  BY <1>e DEF CalmOK, Calm
<1>0. BasicInv
  BY InCalm
<1>1. CASE \E f \in Files : WriterOpens(f) \/ Deletes(f)
  BY <1>0, <1>1, CalmWriterOpens DEF Deletes, Calm
<1>2. CASE WriterStep
  BY <1>0, <1>2, CalmWriterWrites, CalmWriterCloses DEF WriterStep
<1>3. CASE MainStep
  BY <1>0, <1>3, CalmWaitForEvents, CalmSkipEvent, CalmSyncFile DEF MainStep
<1>4. CASE LoopStep
  BY <1>0, <1>4, CalmSendStanza, CalmStreamWritable, CalmStreamClosed, CalmSendWrite, CalmSendRead,
     CalmLoopReturns DEF LoopStep
<1>5. CASE ClientStanza
  BY <1>5, CalmClientStanza
<1>6. CASE \E t \in Tunnels : TunnelStep(t) \/ Deliver(t) \/ TunnelFails(t)
  BY <1>6, CalmTunnelStep, CalmDeliver DEF TunnelFails, Calm
<1>7. CASE LoggedOut
  BY <1>7 DEF LoggedOut, Calm
<1>8. CASE ServerStep
  BY <1>8, CalmInitiate, CalmTerminate, CalmServerCloses DEF ServerStep
<1>9. CASE UNCHANGED vars
  <2>1. UNCHANGED <<disk, writer, kq, batch, prev, cpc, cur, opened, name, remote, cfile, cbuf, cq, cst,
                    wire, sst, sq, xmpp, serving, toClient, toServer>>
    BY <1>9 DEF vars
  <2>2. Undisturbed'
    BY <2>1, InCalm, RestFrame
  <2>3. CASE cpc = "main"
    BY <2>1, <2>2, <2>3, WatchFrame DEF CalmOK
  <2>4. CASE cpc # "main"
    <3>1. Transferring /\ cur \in Tunnels /\ Ordered(cur) /\ Accounted(cur, name[cur])
      BY <2>4, InTransfer
    <3>2. PICK t \in Tunnels : t = cur
      BY <3>1
    <3>3. Ordered(t)' /\ (sst[t] = "none" => cst'[t] = "opening")
      BY <2>1, <3>1, <3>2, OrderedFrame DEF Accounted
    <3> QED BY <2>1, <2>2, <2>4, <3>1, <3>2, <3>3, TransferFrame
  <2> QED BY <2>3, <2>4
<1> QED BY <1>1, <1>2, <1>3, <1>4, <1>5, <1>6, <1>7, <1>8, <1>9 DEF Next

\* The initial states: nothing is written, the server's files are empty.
LEMMA CalmInit == Init => StanzasOK /\ CalmOK
<1> SUFFICES ASSUME Init PROVE StanzasOK /\ CalmOK
  OBVIOUS
<1>0. BasicInv
  BY BasicInit
<1>1. /\ Held(kq) = {} /\ Held(batch) = {} /\ Held(toServer) = {} /\ Held(toClient) = {}
      /\ Held(cq) = {}
  BY ShortQueues DEF Init
<1>2. \A f \in Files : Synced(f)
  <2>1. \A f \in Files : remote[f] = <<>> /\ disk[f].len = 0
    BY DEF Init
  <2> QED BY <2>1 DEF Synced, Copies
<1>3. Watching /\ cpc = "main"
  BY <1>1, <1>2 DEF Init, Watching, NoNews
<1>4. OthersOver
  <2>1. \A t \in Tunnels : ~(t <= opened)
    BY MaxWritesBound DEF Init, Tunnels
  <2> QED BY <2>1 DEF OthersOver
<1>5. Undisturbed
  BY <1>1, <1>4 DEF Init, Undisturbed
<1> QED BY <1>1, <1>3, <1>5 DEF CalmOK, StanzasOK

\* The course of an undisturbed run (src/main/synciga.cc, RunProcessClient, and
\* src/main/customxmpppump.cc): one file at a time, the server done with it before Loop ends.
THEOREM CalmInvariant == Spec => [](FaithfulInv /\ StanzasOK /\ CalmOK)
<1>1. FaithfulInv /\ [Next]_vars => FaithfulInv'
  BY ControlStep, ServerOKStep, DataStep DEF FaithfulInv
<1>2. FaithfulInv => BasicInv
  BY DEF FaithfulInv, ControlInv, LoopInv
<1>3. FaithfulInv /\ StanzasOK /\ CalmOK /\ [Next]_vars => (FaithfulInv /\ StanzasOK /\ CalmOK)'
  BY <1>1, <1>2, StanzasStep, CalmStep
<1> QED BY <1>3, FaithfulInit, CalmInit, PTL DEF Spec

\* When nothing goes wrong, and the client is back in WaitForEvents with nothing left to do,
\* every file of the server is the file of the client.
THEOREM AlwaysSyncedAtRest == Spec => []SyncedAtRest
<1>1. FaithfulInv /\ StanzasOK /\ CalmOK => SyncedAtRest
  <2> SUFFICES ASSUME FaithfulInv, CalmOK, Calm, AtRest, NEW f \in Files PROVE remote[f] = Content(f)
    BY DEF SyncedAtRest
  <2>1. cpc = "main" /\ Held(kq) = {} /\ Held(batch) = {} /\ \A g \in Files : writer[g] = "closed"
    BY ShortQueues DEF AtRest
  <2>2. Synced(f)
    BY <2>1 DEF CalmOK, Watching, Pending
  <2> QED BY <2>2, InCalm, SyncedContent
<1> QED BY <1>1, CalmInvariant, PTL
=============================================================================
