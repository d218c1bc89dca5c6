------------------------- MODULE FileTransferProofs -------------------------
(***************************************************************************)
(* Theorems about FileTransfer, for every file, every buffer size and any  *)
(* number of faults.                                                       *)
(***************************************************************************)
EXTENDS FileTransfer, QueueTheorems, SequenceTheorems, FiniteSetTheorems

-----------------------------------------------------------------------------
(* The operators the model is built from.                                  *)

\* The smaller of two numbers
LEMMA MinOfTwo ==
  ASSUME NEW a \in Int, NEW b \in Int
  PROVE  Min({a, b}) \in {a, b} /\ Min({a, b}) <= a /\ Min({a, b}) <= b
<1>1. \E x \in {a, b} : \A y \in {a, b} : x =< y
  <2>1. CASE a <= b
    BY <2>1
  <2>2. CASE b <= a
    BY <2>2
  <2> QED BY <2>1, <2>2
<1> QED BY <1>1 DEF Min

\* Two sequences, one behind the other
LEMMA Concat ==
  ASSUME NEW S, NEW s \in Seq(S), NEW t \in Seq(S)
  PROVE  s \o t \in Seq(S) /\ Len(s \o t) = Len(s) + Len(t)
  BY ConcatProperties

\* A part of a sequence
LEMMA Part ==
  ASSUME NEW S, NEW s \in Seq(S), NEW m \in 1..(Len(s) + 1), NEW n \in (m - 1)..Len(s)
  PROVE  /\ SubSeq(s, m, n) \in Seq(S)
         /\ Len(SubSeq(s, m, n)) = n - m + 1
  BY SubSeqProperties

\* The types of what a deleted or an untouched PseudoTcp leaves behind
TcpType ==
  /\ tcp \in [Ends -> {"opening", "established", "closed", "gone"}]
  /\ sbuf \in Seq(Nat) /\ Len(sbuf) <= SendCap
  /\ sent \in 0..Len(sbuf)
  /\ rbuf \in Seq(Nat) /\ Len(rbuf) <= RecvCap

\* Deleting tcp_ leaves its variables with their types.
LEMMA DeleteTcpType ==
  ASSUME TypeOK, NEW e \in Ends, DeleteTcp(e) \/ UNCHANGED <<tcp, sbuf, sent, rbuf>>
  PROVE  TcpType'
<1>0. RecvCap \in Nat /\ SendCap \in Nat /\ TcpType
  BY ConstantsAssumption DEF TypeOK, TcpType
<1>e. <<>> \in Seq(Nat) /\ Len(<<>>) = 0
  OBVIOUS
<1>1. CASE UNCHANGED <<tcp, sbuf, sent, rbuf>>
  BY <1>0, <1>1 DEF TcpType
<1>2. CASE DeleteTcp(e)
  <2>1. tcp' \in [Ends -> {"opening", "established", "closed", "gone"}]
    BY <1>0, <1>2 DEF TcpType, DeleteTcp, Set
  <2>2. CASE e = "snd"
    <3>1. sbuf' = <<>> /\ sent' = 0 /\ rbuf' = rbuf
      BY <1>2, <2>2 DEF DeleteTcp
    <3> QED BY <1>0, <1>e, <2>1, <3>1 DEF TcpType
  <2>3. CASE e = "rcv"
    <3>1. sbuf' = sbuf /\ sent' = sent /\ rbuf' = <<>>
      BY <1>2, <2>3 DEF DeleteTcp
    <3> QED BY <1>0, <1>e, <2>1, <3>1 DEF TcpType
  <2> QED BY <2>2, <2>3 DEF Ends
<1> QED BY <1>1, <1>2

\* Cleanup leaves every variable it assigns with its type.
LEMMA CleanupType ==
  ASSUME TypeOK, NEW e \in Ends, NEW delay \in BOOLEAN, NEW q0 \in Seq(Messages),
         Cleanup(e, delay, q0)
  PROVE  /\ q' \in [Ends -> Seq(Messages)]
         /\ pc' \in [Ends -> {"idle", "write", "read", "store"}]
         /\ file' \in [Ends -> BOOLEAN] /\ stream' \in [Ends -> BOOLEAN]
         /\ shut' \in [Ends -> BOOLEAN] /\ delayed' \in BOOLEAN
         /\ TcpType'
<1>1. /\ pc' \in [Ends -> {"idle", "write", "read", "store"}]
      /\ file' \in [Ends -> BOOLEAN] /\ stream' \in [Ends -> BOOLEAN]
      /\ shut' \in [Ends -> BOOLEAN]
  BY DEF Cleanup, Set, TypeOK
<1>2. delayed' \in BOOLEAN
  <2>1. delayed' = (delayed \/ (e = client /\ delay))
    BY DEF Cleanup
  <2> QED BY <2>1, Zenon
<1>3. TcpType'
  BY DeleteTcpType DEF Cleanup
<1>4. q' \in [Ends -> Seq(Messages)]
  <2>1. ClearEvents(q0) \in Seq(Messages)
    BY WithoutQueue DEF ClearEvents
  <2>2. <<>> \in Seq(Messages) /\ <<"destroychannel">> \in Seq(Messages)
        /\ <<"destroy">> \in Seq(Messages) /\ <<"done">> \in Seq(Messages)
    BY DEF Messages
  <2>3. PICK a \in Seq(Messages), b \in Seq(Messages) :
           q' = Set(q, e, ClearEvents(q0) \o a \o b)
    <3> DEFINE a == IF tcp[e] # "gone" /\ Drained(e, sbuf) THEN DestroyChannelMsg(e)
                    ELSE IF tcp[e] # "gone" \/ worker[e] THEN <<>> ELSE <<"destroy">>
               b == IF e = client /\ ~delay THEN <<"done">> ELSE <<>>
    <3>1. q' = Set(q, e, ClearEvents(q0) \o a \o b)
      BY DEF Cleanup
    <3>2. a \in Seq(Messages) /\ b \in Seq(Messages)
      BY <2>2 DEF DestroyChannelMsg
    <3> QED BY <3>1, <3>2
  <2> QED BY <2>1, <2>3 DEF TypeOK, Set
<1> QED BY <1>1, <1>2, <1>3, <1>4

\* Every message the actions post by name is a message.
LEMMA Posts ==
  /\ <<>> \in Seq(Messages) /\ <<"destroychannel">> \in Seq(Messages)
  /\ <<"destroy">> \in Seq(Messages) /\ <<"done">> \in Seq(Messages)
  /\ <<"purge">> \in Seq(Messages) /\ <<"close">> \in Seq(Messages)
  /\ <<"error">> \in Seq(Messages) /\ <<"write">> \in Seq(Messages)
  /\ <<"run", "state">> \in Seq(Messages)
  /\ {"open", "read", "done", "state", "sesserror"} \subseteq Messages
BY DEF Messages, StreamEvents

\* OnChannelDestroyed leaves every variable it assigns with its type.
LEMMA DestroyedType ==
  ASSUME TypeOK, NEW e \in Ends, NEW q0 \in Seq(Messages), NEW a \in Seq(Messages),
         OnChannelDestroyed(e, q0, a)
  PROVE  /\ q' \in [Ends -> Seq(Messages)] /\ chan' \in [Ends -> BOOLEAN]
         /\ shut' \in [Ends -> BOOLEAN] /\ TcpType'
<1>1. TcpType'
  BY DeleteTcpType DEF OnChannelDestroyed
<1>2. ClearDestroy(q0) \in Seq(Messages) /\ CloseEvent(e) \in Seq(Messages)
  BY WithoutQueue, Posts DEF ClearDestroy, CloseEvent
<1>3. q' \in [Ends -> Seq(Messages)]
  BY <1>2, Posts DEF OnChannelDestroyed, TypeOK, Set
<1> QED BY <1>1, <1>3 DEF OnChannelDestroyed, TypeOK, Set

\* A queue without its first message
LEMMA Rest ==
  ASSUME TypeOK, NEW e \in Ends, NEW m, Next_(e, m)
  PROVE  q[e] \in Seq(Messages) /\ q[e] # <<>> /\ m = Head(q[e]) /\ m \in Messages
         /\ Tail(q[e]) \in Seq(Messages)
BY TailQueue DEF TypeOK, Next_

\* TcpOpen, Deliver, Ack, ClockStep and Closedown preserve the types.
LEMMA NetworkType ==
  ASSUME TypeOK,
         \/ \E e \in Ends : TcpOpen(e) \/ Closedown(e)
         \/ Deliver \/ Ack \/ ClockStep
  PROVE  TypeOK'
<1> USE DEF pumpVars, sessVars, loopVars, chanVars
<1>0. /\ \A e \in Ends : q[e] \in Seq(Messages) /\ DestroyChannelMsg(e) \in Seq(Messages)
      /\ "snd" \in Ends /\ "rcv" \in Ends
  BY Posts DEF TypeOK, Ends, DestroyChannelMsg
<1>1. ASSUME NEW e \in Ends, TcpOpen(e) PROVE TypeOK'
  <2>1. q' \in [Ends -> Seq(Messages)] /\ pendingRead' \in [Ends -> BOOLEAN]
    <3>1. Append(q[e], "open") \in Seq(Messages)
      BY <1>0, Posts
    <3> QED BY <1>1, <3>1 DEF TcpOpen, TypeOK, Set
  <2> QED BY <1>1, <2>1 DEF TcpOpen, TypeOK, Set
<1>2. ASSUME NEW e \in Ends, Closedown(e) PROVE TypeOK'
  <2>1. q' \in [Ends -> Seq(Messages)]
    BY <1>0, <1>2, Posts DEF Closedown, TypeOK, Set
  <2>2. TcpType'
    <3>1. CASE shut[e]
      BY <1>2, <3>1, DeleteTcpType DEF Closedown
    <3>2. CASE ~shut[e]
      BY <1>2, <3>2 DEF Closedown, TypeOK, Set, TcpType
    <3> QED BY <3>1, <3>2
  <2>3. faults' \in 0..MaxFaults
    BY <1>2, ConstantsAssumption DEF Closedown, TypeOK
  <2> QED BY <1>2, <2>1, <2>2, <2>3 DEF Closedown, TypeOK, TcpType
<1>3. CASE Deliver
  <2>1. q' \in [Ends -> Seq(Messages)] /\ pendingRead' \in [Ends -> BOOLEAN]
    <3>1. Append(q["rcv"], "read") \in Seq(Messages)
      BY <1>0, Posts
    <3> QED BY <1>3, <3>1 DEF Deliver, TypeOK, Set
  <2>2. sent' \in 0..Len(sbuf) /\ sbuf[sent + 1] \in Nat
    BY SMTT(30), <1>3 DEF Deliver, TypeOK
  <2>3. rbuf' \in Seq(Nat) /\ Len(rbuf') <= RecvCap
    BY <1>3, <2>2, ConstantsAssumption DEF Deliver, TypeOK
  <2>4. readEnable' \in BOOLEAN
    BY <1>3, Zenon DEF Deliver, TypeOK
  <2> QED BY <1>3, <2>1, <2>2, <2>3, <2>4 DEF Deliver, TypeOK
<1>4. CASE Ack
  <2> DEFINE rest == SubSeq(sbuf, sent + 1, Len(sbuf))
  <2>1. rest \in Seq(Nat) /\ Len(rest) <= SendCap /\ Len(rest) \in Nat
    <3>1. sent + 1 \in 1..(Len(sbuf) + 1) /\ Len(sbuf) \in ((sent + 1) - 1)..Len(sbuf)
          /\ sbuf \in Seq(Nat)
      BY DEF TypeOK
    <3>2. rest \in Seq(Nat) /\ Len(rest) = Len(sbuf) - (sent + 1) + 1
      BY <3>1, Part
    <3>3. Len(sbuf) \in Nat /\ sent \in 0..Len(sbuf) /\ Len(sbuf) <= SendCap /\ SendCap \in Nat
      BY ConstantsAssumption DEF TypeOK
    <3> HIDE DEF rest
    <3> QED BY <3>2, <3>3
  <2> HIDE DEF rest
  <2>2. sbuf' = rest /\ sent' = 0 /\ sent' \in 0..Len(sbuf')
    BY <1>4, <2>1 DEF Ack, rest
  <2>3. q' \in [Ends -> Seq(Messages)]
    <3> DEFINE a == IF (writeEnable /\ Len(rest) < RefillSize) /\ stream["snd"]
                    THEN <<"write">> ELSE <<>>
               b == IF shut["snd"] /\ rest = <<>> THEN DestroyChannelMsg("snd") ELSE <<>>
    <3>1. q' = Set(q, "snd", q["snd"] \o a \o b)
      BY <1>4 DEF Ack, rest
    <3>2. a \in Seq(Messages) /\ b \in Seq(Messages)
      BY <1>0, Posts
    <3> HIDE DEF a, b
    <3> QED BY <1>0, <3>1, <3>2 DEF TypeOK, Set
  <2>4. writeEnable' \in BOOLEAN
    BY <1>4, Zenon DEF Ack, TypeOK
  <2>5. tcp' \in [Ends -> {"opening", "established", "closed", "gone"}]
    BY <1>4 DEF Ack, TypeOK, Set
  <2> QED BY <1>4, <2>1, <2>2, <2>3, <2>4, <2>5 DEF Ack, TypeOK
<1>5. CASE ClockStep
  <2>1. q' \in [Ends -> Seq(Messages)]
    BY <1>0, <1>5 DEF ClockStep, TypeOK, Set
  <2>2. TcpType'
    BY <1>0, <1>5, DeleteTcpType DEF ClockStep
  <2> QED BY <1>5, <2>1, <2>2 DEF ClockStep, TypeOK, TcpType
<1> QED BY <1>1, <1>2, <1>3, <1>4, <1>5

\* The steps of the session and of the end of the channel preserve the types.
LEMMA SessionType ==
  ASSUME TypeOK, NEW e \in Ends,
         \/ DestroyChannel(e) \/ RunTasks(e) \/ RecvTerminate(e) \/ SessionTimeout(e)
         \/ SessionError(e) \/ SessionState(e) \/ Purge(e) \/ Destroy(e)
  PROVE  TypeOK'
<1> USE DEF pumpVars, sessVars, loopVars, chanVars, tcpVars
<1>0. q[e] \in Seq(Messages)
  BY DEF TypeOK
<1>1. CASE DestroyChannel(e)
  <2>1. Tail(q[e]) \in Seq(Messages)
    BY <1>1, Rest DEF DestroyChannel
  <2>2. PICK a \in Seq(Messages) : OnChannelDestroyed(e, Tail(q[e]), a)
    BY <1>1, Posts DEF DestroyChannel
  <2>3. /\ q' \in [Ends -> Seq(Messages)] /\ chan' \in [Ends -> BOOLEAN]
        /\ shut' \in [Ends -> BOOLEAN] /\ TcpType'
    BY <2>1, <2>2, DestroyedType
  <2>4. term' \in [Ends -> {"live", "sent", "received", "dead"}]
    BY <1>1 DEF DestroyChannel, TypeOK, Set
  <2> QED BY <1>1, <2>3, <2>4 DEF DestroyChannel, TypeOK, TcpType
<1>2. CASE RunTasks(e)
  <2>1. Tail(q[e]) \in Seq(Messages)
    BY <1>2, Rest DEF RunTasks
  <2> QED BY <1>2, <2>1 DEF RunTasks, TypeOK, Set, Peer, Ends
<1>3. CASE RecvTerminate(e)
  <2>1. Append(q[e], "state") \in Seq(Messages)
    BY <1>0, Posts
  <2>2. q' \in [Ends -> Seq(Messages)] /\ term' \in [Ends -> {"live", "sent", "received", "dead"}]
    BY ZenonT(60), <1>3, <2>1 DEF RecvTerminate, TypeOK, Set
  <2> QED BY <1>3, <2>2 DEF RecvTerminate, TypeOK
<1>4. CASE SessionTimeout(e)
  <2>1. Append(q[e], "sesserror") \in Seq(Messages)
    BY <1>0, Posts
  <2>2. faults' \in 0..MaxFaults
    BY <1>4, ConstantsAssumption DEF SessionTimeout, TypeOK
  <2> QED BY <1>4, <2>1, <2>2 DEF SessionTimeout, TypeOK, Set
<1>5. CASE SessionError(e)
  <2>1. Tail(q[e]) \in Seq(Messages)
    BY <1>5, Rest DEF SessionError
  <2>2. q' \in [Ends -> Seq(Messages)] /\ term' \in [Ends -> {"live", "sent", "received", "dead"}]
    BY <1>5, <2>1, Posts DEF SessionError, TypeOK, Set
  <2> QED BY <1>5, <2>2 DEF SessionError, TypeOK
<1>6. CASE SessionState(e)
  <2>1. ClearSession(q[e]) \in Seq(Messages)
    BY <1>0, WithoutQueue DEF ClearSession
  <2>2. /\ q' \in [Ends -> Seq(Messages)] /\ chan' \in [Ends -> BOOLEAN]
        /\ shut' \in [Ends -> BOOLEAN] /\ TcpType'
    <3>1. CASE chan[e]
      BY <1>6, <2>1, <3>1, Posts, DestroyedType DEF SessionState
    <3>2. CASE ~chan[e]
      BY <1>6, <2>1, <3>2 DEF SessionState, TypeOK, Set, TcpType
    <3> QED BY <3>1, <3>2
  <2>3. term' \in [Ends -> {"live", "sent", "received", "dead"}]
    BY <1>6 DEF SessionState, TypeOK, Set
  <2> QED BY <1>6, <2>2, <2>3 DEF SessionState, TypeOK, TcpType
<1>7. CASE Purge(e)
  <2>1. Tail(q[e]) \in Seq(Messages)
    BY <1>7, Rest DEF Purge
  <2>2. q' \in [Ends -> Seq(Messages)] /\ worker' \in [Ends -> BOOLEAN]
    BY <1>7, <2>1, Posts DEF Purge, TypeOK, Set
  <2> QED BY <1>7, <2>2 DEF Purge, TypeOK
<1>8. CASE Destroy(e)
  <2>1. Tail(q[e]) \in Seq(Messages)
    BY <1>8, Rest DEF Destroy
  <2> QED BY <1>8, <2>1 DEF Destroy, TypeOK, Set
<1> QED BY <1>1, <1>2, <1>3, <1>4, <1>5, <1>6, <1>7, <1>8

\* A new content of buffer_
LEMMA BufferType ==
  ASSUME TypeOK, NEW e \in Ends, NEW b \in Seq(Nat), Len(b) <= BufLen
  PROVE  /\ Set(buffer, e, b) \in [Ends -> Seq(Nat)]
         /\ \A f \in Ends : Len(Set(buffer, e, b)[f]) <= BufLen
  BY DEF TypeOK, Set

\* The steps of the pumps and of Loop preserve the types.
LEMMA PumpType ==
  ASSUME TypeOK,
         \/ \E e \in Ends, m \in StreamEvents : StreamEvent(e, m)
         \/ WriteStep \/ FillStep \/ ReadError \/ ReadStep \/ StoreStep
         \/ \E n \in 0..(BufLen - 1) : StoreError(n)
         \/ DelayFires \/ LoopReturns
  PROVE  TypeOK'
<1> USE DEF pumpVars, sessVars, loopVars, chanVars, tcpVars
<1>0. /\ \A e \in Ends : q[e] \in Seq(Messages) /\ buffer[e] \in Seq(Nat) /\ Len(buffer[e]) \in Nat
      /\ "snd" \in Ends /\ "rcv" \in Ends /\ client \in Ends
      /\ <<>> \in Seq(Nat) /\ Len(<<>>) = 0 /\ BufLen \in Nat /\ 0 \in 0..BufLen
  BY ConstantsAssumption DEF TypeOK, Ends
<1>1. ASSUME NEW e \in Ends, NEW m \in StreamEvents, StreamEvent(e, m) PROVE TypeOK'
  <2>1. Tail(q[e]) \in Seq(Messages)
    BY <1>1, Rest DEF StreamEvent
  <2>2. pendingRead' \in [Ends -> BOOLEAN]
    BY <1>1 DEF StreamEvent, TypeOK, Set
  <2>3. CASE m \in {"close", "error"}
    <3>1. Cleanup(e, FALSE, Tail(q[e])) /\ UNCHANGED <<buffer, pos>>
      BY <1>1, <2>3 DEF StreamEvent
    <3> QED BY <1>1, <2>1, <2>2, <3>1, CleanupType DEF StreamEvent, TypeOK, TcpType
  <2>4. CASE m \notin {"close", "error"}
    <3>1. q' \in [Ends -> Seq(Messages)] /\ pc' \in [Ends -> {"idle", "write", "read", "store"}]
      BY ZenonT(60), <1>1, <2>1, <2>4 DEF StreamEvent, TypeOK, Set
    <3>2. pos' \in 0..BufLen
      BY <1>0, <1>1, <2>4 DEF StreamEvent, TypeOK
    <3>3. buffer' \in [Ends -> Seq(Nat)] /\ \A f \in Ends : Len(buffer'[f]) <= BufLen
      <4>1. buffer' = buffer \/ buffer' = Set(buffer, e, <<>>)
        BY <1>1, <2>4 DEF StreamEvent
      <4> DEFINE z == <<>>
      <4>2. z \in Seq(Nat) /\ Len(z) <= BufLen
        BY <1>0
      <4>3. buffer' = buffer \/ buffer' = Set(buffer, e, z)
        BY <4>1
      <4> HIDE DEF z
      <4> QED BY BufferType, <4>2, <4>3 DEF TypeOK
    <3> QED BY <1>1, <2>2, <2>4, <3>1, <3>2, <3>3 DEF StreamEvent, TypeOK
  <2> QED BY <2>3, <2>4
<1>2. CASE WriteStep
  <2> DEFINE b == buffer["snd"]
             n == Accepted(Len(b) - pos)
  <2>0. b \in Seq(Nat) /\ Len(b) \in Nat /\ Len(b) <= BufLen /\ pos \in Nat /\ pos < Len(b)
        /\ pos <= BufLen /\ sbuf \in Seq(Nat) /\ Len(sbuf) \in Nat /\ Len(sbuf) <= SendCap
        /\ SendCap \in Nat /\ sent \in 0..Len(sbuf)
    BY <1>0, <1>2, ConstantsAssumption DEF WriteStep, TypeOK
  <2>1. n \in Nat /\ n <= Len(b) - pos /\ n <= SendCap - Len(sbuf)
    <3> DEFINE x == Len(b) - pos
               y == SendCap - Len(sbuf)
    <3>1. x \in Nat /\ y \in Nat
      BY <2>0
    <3> HIDE DEF x, y
    <3>i. x \in Int /\ y \in Int
      BY <3>1
    <3>2. Min({x, y}) \in {x, y} /\ Min({x, y}) <= x /\ Min({x, y}) <= y
      BY <3>i, MinOfTwo
    <3> QED BY <3>1, <3>2 DEF Accepted, x, y
  <2> HIDE DEF n, b
  <2>2. CASE /\ tcp["snd"] = "established" /\ n > 0
             /\ sbuf' = sbuf \o SubSeq(b, pos + 1, pos + n)
             /\ pos' = pos + n
             /\ UNCHANGED <<pc, buffer, writeEnable, q, stream, file, delayed, tcp, shut,
                            sent, rbuf>>
    <3> DEFINE p == SubSeq(b, pos + 1, pos + n)
    <3>1. p \in Seq(Nat) /\ Len(p) = n
      <4>1. pos + 1 \in 1..(Len(b) + 1) /\ pos + n \in ((pos + 1) - 1)..Len(b)
        BY <2>0, <2>1
      <4> QED BY <2>0, <2>1, <4>1, Part
    <3> HIDE DEF p
    <3>2. sbuf' = sbuf \o p
      BY <2>2 DEF p
    <3>3. sbuf' \in Seq(Nat) /\ Len(sbuf') = Len(sbuf) + n
      BY <2>0, <3>1, <3>2, Concat
    <3>4. Len(sbuf') <= SendCap /\ sent \in 0..Len(sbuf') /\ pos' \in 0..BufLen
      BY <2>0, <2>1, <2>2, <3>3, <1>0
    <3> QED BY <1>2, <2>2, <3>3, <3>4 DEF WriteStep, TypeOK
  <2>3. CASE /\ buffer' = Set(buffer, "snd", Remainder(b, pos))
             /\ pc' = Set(pc, "snd", "idle")
             /\ pos' = 0
             /\ writeEnable' = (writeEnable \/ tcp["snd"] = "established")
             /\ UNCHANGED <<q, stream, file, delayed, tcp, shut, sbuf, sent, rbuf>>
    <3>1. Remainder(b, pos) \in Seq(Nat) /\ Len(Remainder(b, pos)) <= BufLen
      <4>1. pos + 1 \in 1..(Len(b) + 1) /\ Len(b) \in ((pos + 1) - 1)..Len(b)
        BY <2>0
      <4>2. Remainder(b, pos) \in Seq(Nat) /\ Len(Remainder(b, pos)) = Len(b) - (pos + 1) + 1
        BY <2>0, <4>1, Part DEF Remainder
      <4> QED BY <1>0, <2>0, <4>2
    <3>2. buffer' \in [Ends -> Seq(Nat)] /\ \A f \in Ends : Len(buffer'[f]) <= BufLen
      BY <1>0, BufferType, <2>3, <3>1
    <3>3. pc' \in [Ends -> {"idle", "write", "read", "store"}]
      BY <2>3 DEF TypeOK, Set
    <3>4. writeEnable' \in BOOLEAN
      BY <2>3, Zenon
    <3> QED BY <1>0, <1>2, <2>3, <3>2, <3>3, <3>4 DEF WriteStep, TypeOK
  <2>4. CASE Cleanup("snd", FALSE, q["snd"]) /\ UNCHANGED <<pos, buffer, writeEnable>>
    BY <1>0, <1>2, <2>4, CleanupType DEF WriteStep, TypeOK, TcpType
  <2> QED BY <1>2, <2>2, <2>3, <2>4 DEF WriteStep, n, b
<1>3. CASE FillStep
  <2> DEFINE n == Min({BufLen, Len(Source) - fpos})
  <2>0. Source \in Seq(Nat) /\ Len(Source) \in Nat /\ fpos \in Nat /\ fpos <= Len(Source)
    BY ConstantsAssumption DEF TypeOK
  <2>1. n \in Nat /\ n <= BufLen /\ fpos + n <= Len(Source)
    <3> DEFINE y == Len(Source) - fpos
    <3>1. y \in Nat
      BY <2>0
    <3> HIDE DEF y
    <3>i. BufLen \in Int /\ y \in Int
      BY <1>0, <3>1
    <3>2. Min({BufLen, y}) \in {BufLen, y} /\ Min({BufLen, y}) <= BufLen /\ Min({BufLen, y}) <= y
      BY <3>i, MinOfTwo
    <3> QED BY <1>0, <2>0, <3>1, <3>2 DEF y
  <2> HIDE DEF n
  <2> DEFINE p == SubSeq(Source, fpos + 1, fpos + n)
  <2>2. p \in Seq(Nat) /\ Len(p) = n
    <3>1. fpos + 1 \in 1..(Len(Source) + 1) /\ fpos + n \in ((fpos + 1) - 1)..Len(Source)
      BY <2>0, <2>1
    <3> QED BY <2>0, <2>1, <3>1, Part
  <2> HIDE DEF p
  <2>3. buffer' = Set(buffer, "snd", p) /\ fpos' = fpos + n /\ pos' = 0
    BY <1>3 DEF FillStep, n, p
  <2>4. buffer' \in [Ends -> Seq(Nat)] /\ \A f \in Ends : Len(buffer'[f]) <= BufLen
    BY <1>0, BufferType, <2>1, <2>2, <2>3
  <2>5. fpos' \in 0..Len(Source) /\ pos' \in 0..BufLen
    BY <1>0, <2>0, <2>1, <2>3
  <2>6. CASE n > 0
    BY <1>3, <2>4, <2>5, <2>6 DEF FillStep, TypeOK, n
  <2>7. CASE ~(n > 0)
    <3>1. Cleanup("snd", TRUE, q["snd"])
      BY <1>3, <2>7 DEF FillStep, n
    <3> QED BY <1>0, <1>3, <2>4, <2>5, <3>1, CleanupType DEF FillStep, TypeOK, TcpType
  <2> QED BY <2>6, <2>7
<1>4. CASE ReadError
  <2>1. faults' \in 0..MaxFaults
    BY <1>4, ConstantsAssumption DEF ReadError, TypeOK
  <2> QED BY <1>0, <1>4, <2>1, CleanupType DEF ReadError, TypeOK, TcpType
<1>5. CASE ReadStep
  <2> DEFINE b == buffer["rcv"]
             n == Min({BufLen - Len(b), Len(rbuf)})
  <2>0. b \in Seq(Nat) /\ Len(b) \in Nat /\ Len(b) <= BufLen /\ rbuf \in Seq(Nat)
        /\ Len(rbuf) \in Nat /\ Len(rbuf) <= RecvCap /\ RecvCap \in Nat
    BY <1>0, ConstantsAssumption DEF TypeOK
  <2>1. n \in Nat /\ n <= BufLen - Len(b) /\ n <= Len(rbuf)
    <3> DEFINE x == BufLen - Len(b)
               y == Len(rbuf)
    <3>1. x \in Nat /\ y \in Nat
      BY <1>0, <2>0
    <3> HIDE DEF x, y
    <3>i. x \in Int /\ y \in Int
      BY <3>1
    <3>2. Min({x, y}) \in {x, y} /\ Min({x, y}) <= x /\ Min({x, y}) <= y
      BY <3>i, MinOfTwo
    <3> QED BY <3>1, <3>2 DEF x, y
  <2> HIDE DEF n, b
  <2>2. CASE /\ tcp["rcv"] = "established" /\ n > 0
             /\ buffer' = Set(buffer, "rcv", b \o SubSeq(rbuf, 1, n))
             /\ rbuf' = SubSeq(rbuf, n + 1, Len(rbuf))
             /\ pc' = Set(pc, "rcv", IF Len(b) + n = BufLen THEN "store" ELSE "read")
             /\ pendingRead' = Set(pendingRead, "rcv", TRUE)
             /\ q' = IF pendingRead["rcv"] THEN q
                     ELSE Set(q, "rcv", Append(q["rcv"], "read"))
             /\ UNCHANGED <<readEnable, stream, file, delayed, tcp, shut, sbuf, sent>>
    <3> DEFINE p == SubSeq(rbuf, 1, n)
               r == SubSeq(rbuf, n + 1, Len(rbuf))
    <3>1. p \in Seq(Nat) /\ Len(p) = n
      <4>1. 1 \in 1..(Len(rbuf) + 1) /\ n \in (1 - 1)..Len(rbuf)
        BY <2>0, <2>1
      <4>2. p \in Seq(Nat) /\ Len(p) = n - 1 + 1
        BY <2>0, <4>1, Part
      <4> QED BY <4>2, <2>1
    <3>2. r \in Seq(Nat) /\ Len(r) = Len(rbuf) - n
      <4>1. n + 1 \in 1..(Len(rbuf) + 1) /\ Len(rbuf) \in ((n + 1) - 1)..Len(rbuf)
        BY <2>0, <2>1
      <4>2. r \in Seq(Nat) /\ Len(r) = Len(rbuf) - (n + 1) + 1
        BY <2>0, <4>1, Part
      <4> QED BY <4>2, <2>0, <2>1
    <3> HIDE DEF p, r
    <3>3. buffer' = Set(buffer, "rcv", b \o p) /\ rbuf' = r
      BY <2>2 DEF p, r
    <3>4. b \o p \in Seq(Nat) /\ Len(b \o p) = Len(b) + n
      BY <2>0, <3>1, Concat
    <3>5. buffer' \in [Ends -> Seq(Nat)] /\ \A f \in Ends : Len(buffer'[f]) <= BufLen
      <4> DEFINE z == b \o p
      <4>1. z \in Seq(Nat) /\ Len(z) = Len(b) + n /\ buffer' = Set(buffer, "rcv", z)
        BY <3>3, <3>4
      <4> HIDE DEF z
      <4>2. Len(z) <= BufLen
        BY <1>0, <2>0, <2>1, <4>1
      <4> QED BY <1>0, BufferType, <4>1, <4>2
    <3>6. rbuf' \in Seq(Nat) /\ Len(rbuf') <= RecvCap
      BY <2>0, <2>1, <3>2, <3>3
    <3>7. pc' \in [Ends -> {"idle", "write", "read", "store"}] /\ pendingRead' \in [Ends -> BOOLEAN]
      BY <2>2 DEF TypeOK, Set
    <3>8. q' \in [Ends -> Seq(Messages)]
      <4>1. Append(q["rcv"], "read") \in Seq(Messages)
        BY <1>0, Posts
      <4> QED BY <2>2, <4>1 DEF TypeOK, Set
    <3> QED BY <1>5, <2>2, <3>5, <3>6, <3>7, <3>8 DEF ReadStep, TypeOK
  <2>3. CASE /\ readEnable' = (readEnable \/ tcp["rcv"] = "established")
             /\ pc' = Set(pc, "rcv", IF b = <<>> THEN "idle" ELSE "store")
             /\ UNCHANGED <<buffer, rbuf, pendingRead, q, stream, file, delayed, tcp, shut,
                            sbuf, sent>>
    <3>1. readEnable' \in BOOLEAN
      BY <2>3, Zenon
    <3>2. pc' \in [Ends -> {"idle", "write", "read", "store"}]
      BY <2>3 DEF TypeOK, Set
    <3> QED BY <1>5, <2>3, <3>1, <3>2 DEF ReadStep, TypeOK
  <2>4. CASE Cleanup("rcv", FALSE, q["rcv"]) /\ UNCHANGED <<buffer, pendingRead, readEnable>>
    BY <1>0, <1>5, <2>4, CleanupType DEF ReadStep, TypeOK, TcpType
  <2> QED BY <1>5, <2>2, <2>3, <2>4 DEF ReadStep, n, b
<1>6. CASE StoreStep
  <2>1. buffer' \in [Ends -> Seq(Nat)] /\ \A f \in Ends : Len(buffer'[f]) <= BufLen
    <3> DEFINE z == <<>>
    <3>1. z \in Seq(Nat) /\ Len(z) <= BufLen /\ buffer' = Set(buffer, "rcv", z)
      BY <1>0, <1>6 DEF StoreStep
    <3> HIDE DEF z
    <3> QED BY <1>0, <3>1, BufferType
  <2>2. out' \in Seq(Nat) /\ pc' \in [Ends -> {"idle", "write", "read", "store"}]
    BY <1>0, <1>6 DEF StoreStep, TypeOK, Set
  <2> QED BY <1>6, <2>1, <2>2 DEF StoreStep, TypeOK
<1>7. ASSUME NEW n \in 0..(BufLen - 1), StoreError(n) PROVE TypeOK'
  <2> DEFINE b == buffer["rcv"]
             p == SubSeq(b, 1, n)
  <2>0. b \in Seq(Nat) /\ Len(b) \in Nat /\ n \in Nat /\ n < Len(b)
    BY <1>0, <1>7 DEF StoreError
  <2> HIDE DEF b
  <2>1. p \in Seq(Nat)
    <3>1. 1 \in 1..(Len(b) + 1) /\ n \in (1 - 1)..Len(b)
      BY <2>0
    <3> QED BY <2>0, <3>1, Part
  <2> HIDE DEF p
  <2>2. out' \in Seq(Nat)
    <3>1. out' = out \o p
      BY <1>7 DEF StoreError, p, b
    <3> QED BY <2>1, <3>1 DEF TypeOK
  <2>3. faults' \in 0..MaxFaults
    BY <1>7, ConstantsAssumption DEF StoreError, TypeOK
  <2> QED BY <1>0, <1>7, <2>2, <2>3, CleanupType DEF StoreError, TypeOK, TcpType
<1>8. CASE DelayFires
  <2>1. Append(q[client], "done") \in Seq(Messages)
    BY <1>0, Posts
  <2> QED BY <1>0, <1>8, <2>1 DEF DelayFires, TypeOK, Set
<1>9. CASE LoopReturns
  <2>1. Tail(q[client]) \in Seq(Messages)
    BY <1>0, <1>9, Rest DEF LoopReturns
  <2> QED BY <1>0, <1>9, <2>1 DEF LoopReturns, TypeOK, Set
<1> QED BY <1>1, <1>2, <1>3, <1>4, <1>5, <1>6, <1>7, <1>8, <1>9

\* The types hold initially.
LEMMA InitType == Init => TypeOK
<1> SUFFICES ASSUME Init PROVE TypeOK
  OBVIOUS
<1>1. <<>> \in Seq(Nat) /\ <<>> \in Seq(Messages) /\ Len(<<>>) = 0
  OBVIOUS
<1>2. Len(Source) \in Nat /\ BufLen \in Nat /\ SendCap \in Nat /\ RecvCap \in Nat /\ MaxFaults \in Nat
  BY ConstantsAssumption
<1>3. /\ fpos \in 0..Len(Source) /\ pos \in 0..BufLen /\ faults \in 0..MaxFaults
      /\ sbuf \in Seq(Nat) /\ Len(sbuf) <= SendCap /\ sent \in 0..Len(sbuf)
      /\ rbuf \in Seq(Nat) /\ Len(rbuf) <= RecvCap
  BY <1>1, <1>2 DEF Init
<1>4. /\ buffer \in [Ends -> Seq(Nat)] /\ \A e \in Ends : Len(buffer[e]) <= BufLen
      /\ q \in [Ends -> Seq(Messages)] /\ out \in Seq(Nat)
  BY <1>1, <1>2 DEF Init
<1> QED BY <1>3, <1>4 DEF Init, TypeOK

\* Every step preserves the types.
LEMMA NextType ==
  ASSUME TypeOK, [Next]_vars
  PROVE  TypeOK'
<1>1. CASE UNCHANGED vars
  BY <1>1 DEF vars, TypeOK
<1>2. CASE Next
  BY <1>2, NetworkType, SessionType, PumpType
     DEF Next, Step, SenderStep, ReceiverStep, LoopStep, Fault
<1> QED BY <1>1, <1>2
-----------------------------------------------------------------------------
(* The life of a stream, its channel and the object that serves both.      *)

\* What the file, the stream, the pump, the object, its worker and channel,
\* the connection and the queue of one end have to do with each other. A
\* message that will touch a thing is queued only while the thing is there,
\* and the messages that delete one are queued once.
LifeAt(e, fl, st, p, al, wk, ch, tc, s) ==
  /\ fl = st
  /\ p \in (IF e = "snd" THEN {"idle", "write"} ELSE {"idle", "read", "store"})
  /\ p # "idle" => st
  /\ st \/ wk => al
  /\ ch => wk
  /\ ~ch => tc = "gone"
  /\ Held(s) \cap StreamEvents # {} => st
  /\ "destroychannel" \in Held(s) => ch
  /\ "purge" \in Held(s) => ~ch /\ wk
  /\ "destroy" \in Held(s) => ~wk /\ ~st /\ al
  /\ Once(s, "purge") /\ Once(s, "destroy")

LifeOK(e) == LifeAt(e, file[e], stream[e], pc[e], alive[e], worker[e], chan[e], tcp[e], q[e])
Life == \A e \in Ends : LifeOK(e)

\* Closing a stream posts what the state of the channel calls for.
LEMMA CleanupLife ==
  ASSUME TypeOK, NEW e \in Ends, LifeOK(e), stream[e],
         NEW delay \in BOOLEAN, NEW q0 \in Seq(Messages),
         Held(q0) \subseteq Held(q[e]), Once(q0, "purge"), Once(q0, "destroy"),
         Cleanup(e, delay, q0), UNCHANGED <<chan, worker, alive>>
  PROVE  LifeOK(e)'
<1> DEFINE a == IF tcp[e] # "gone" /\ Drained(e, sbuf) THEN DestroyChannelMsg(e)
                ELSE IF tcp[e] # "gone" \/ worker[e] THEN <<>> ELSE <<"destroy">>
           b == IF e = client /\ ~delay THEN <<"done">> ELSE <<>>
           c == ClearEvents(q0)
<1>1. c \in Seq(Messages) /\ Held(c) = Held(q0) \ StreamEvents
      /\ Once(c, "purge") /\ Once(c, "destroy")
  BY WithoutQueue DEF ClearEvents
<1>2. a \in Seq(Messages) /\ b \in Seq(Messages)
  BY Posts DEF DestroyChannelMsg
<1>3. q'[e] = c \o a \o b /\ file'[e] = FALSE /\ stream'[e] = FALSE /\ pc'[e] = "idle"
      /\ (tcp'[e] = "gone" \/ tcp'[e] = tcp[e])
  BY DEF Cleanup, DeleteTcp, Set, TypeOK
<1>4. /\ Held(a) \subseteq {"destroychannel", "destroy"} /\ Held(b) \subseteq {"done"}
      /\ "destroychannel" \in Held(a) => chan[e]
      /\ "destroy" \in Held(a) => ~worker[e]
      /\ \A x : Once(a, x) /\ Once(b, x)
  BY ShortQueues DEF DestroyChannelMsg
<1> HIDE DEF a, b, c
<1>5. Held(c \o a \o b) = Held(c) \cup Held(a) \cup Held(b)
  BY <1>1, <1>2, ThreeQueues
<1>6. "destroy" \notin Held(q[e])
  BY DEF LifeOK, LifeAt
<1>8. Once(c \o a \o b, "purge") /\ Once(c \o a \o b, "destroy")
  BY <1>1, <1>2, <1>4, <1>6, ThreeQueues
<1>9. chan'[e] = chan[e] /\ worker'[e] = worker[e] /\ alive'[e] = alive[e]
  OBVIOUS
<1>10. LifeAt(e, FALSE, FALSE, "idle", alive[e], worker[e], chan[e], tcp'[e], c \o a \o b)
  BY <1>1, <1>3, <1>4, <1>5, <1>6, <1>8 DEF LifeOK, LifeAt, StreamEvents
<1> QED BY <1>3, <1>9, <1>10 DEF LifeOK

\* Destroying the channel posts the purge, and tells the owner of the stream.
LEMMA DestroyedLife ==
  ASSUME TypeOK, NEW e \in Ends, LifeOK(e), chan[e],
         NEW q0 \in Seq(Messages), NEW z \in Seq(Messages),
         Held(q0) \subseteq Held(q[e]), Once(q0, "purge"), Once(q0, "destroy"),
         Held(z) \subseteq {"run", "state"},
         OnChannelDestroyed(e, q0, z), UNCHANGED <<pumpVars, stream, worker, alive>>
  PROVE  LifeOK(e)'
<1> DEFINE a == <<"purge">>
           b == CloseEvent(e)
           c == ClearDestroy(q0)
           r == c \o a \o b \o z
<1>1. c \in Seq(Messages) /\ Held(c) = Held(q0) \ {"destroychannel"}
      /\ Once(c, "purge") /\ Once(c, "destroy")
  BY WithoutQueue DEF ClearDestroy
<1>2. a \in Seq(Messages) /\ b \in Seq(Messages)
  BY Posts DEF CloseEvent
<1>3. q'[e] = r /\ chan'[e] = FALSE /\ tcp'[e] = "gone"
  BY DEF OnChannelDestroyed, DeleteTcp, Set, TypeOK
<1>4. /\ Held(a) = {"purge"} /\ Held(b) \subseteq {"close"}
      /\ "close" \in Held(b) => stream[e]
      /\ \A x : Once(a, x) /\ Once(b, x)
  BY ShortQueues DEF CloseEvent
<1>5. Once(z, "purge") /\ Once(z, "destroy")
  <2>1. "purge" \notin Held(z) /\ "destroy" \notin Held(z)
    OBVIOUS
  <2> QED BY <2>1 DEF Held, Once
<1> HIDE DEF a, b, c
<1>6. "purge" \notin Held(q[e]) /\ "destroy" \notin Held(q[e])
  BY DEF LifeOK, LifeAt
<1> DEFINE d == c \o a \o b
<1>7. d \in Seq(Messages) /\ Held(d) = Held(c) \cup Held(a) \cup Held(b)
  BY <1>1, <1>2, ThreeQueues
<1>8. Once(d, "purge") /\ Once(d, "destroy")
  BY <1>1, <1>2, <1>4, <1>6, ThreeQueues
<1> HIDE DEF d
<1>9. r = d \o z
  BY DEF d
<1> HIDE DEF r
<1>10. Held(r) = Held(c) \cup Held(a) \cup Held(b) \cup Held(z)
       /\ Once(r, "purge") /\ Once(r, "destroy")
  <2>1. Held(d \o z) = Held(d) \cup Held(z)
    BY <1>7, ConcatQueues
  <2>2. "purge" \notin Held(z) /\ "destroy" \notin Held(z)
    OBVIOUS
  <2>3. Once(d \o z, "purge") /\ Once(d \o z, "destroy")
    BY <1>5, <1>7, <1>8, <2>2, ConcatQueues
  <2> QED BY <1>7, <1>9, <2>1, <2>3
<1>11. /\ file'[e] = file[e] /\ stream'[e] = stream[e] /\ pc'[e] = pc[e]
       /\ worker'[e] = worker[e] /\ alive'[e] = alive[e]
  BY DEF pumpVars
<1>12. LifeAt(e, file[e], stream[e], pc[e], alive[e], worker[e], FALSE, "gone", r)
  BY <1>1, <1>4, <1>6, <1>10 DEF LifeOK, LifeAt, StreamEvents
<1> QED BY <1>3, <1>11, <1>12 DEF LifeOK

\* A step of one end leaves the other as it is.
LEMMA LifeFrame ==
  ASSUME NEW e \in Ends, Life, LifeOK(e)',
         \A f \in Ends \ {e} :
           /\ file'[f] = file[f] /\ stream'[f] = stream[f] /\ pc'[f] = pc[f]
           /\ alive'[f] = alive[f] /\ worker'[f] = worker[f] /\ chan'[f] = chan[f]
           /\ tcp'[f] = tcp[f] /\ q'[f] = q[f]
  PROVE  Life'
  BY DEF Life, LifeOK

\* A step that takes messages from the queue and posts those of N, which
\* concern a stream or a channel that is there.
LEMMA LifeQueue ==
  ASSUME NEW e, NEW fl, NEW st, NEW p, NEW al, NEW wk, NEW ch, NEW tc, NEW s,
         LifeAt(e, fl, st, p, al, wk, ch, tc, s),
         NEW t, NEW N, Held(t) \subseteq Held(s) \cup N,
         "purge" \notin N, "destroy" \notin N,
         N \cap StreamEvents # {} => st, "destroychannel" \in N => ch,
         Once(t, "purge"), Once(t, "destroy"),
         NEW p2, p2 = p \/ (p2 # "idle" => st),
         p2 \in (IF e = "snd" THEN {"idle", "write"} ELSE {"idle", "read", "store"}),
         NEW tc2, ~ch => tc2 = "gone"
  PROVE  LifeAt(e, fl, st, p2, al, wk, ch, tc2, t)
<1>1. Held(t) \cap StreamEvents # {} => st
  BY DEF LifeAt
<1> QED BY <1>1 DEF LifeAt

\* The steps of the network preserve Life.
LEMMA NetworkLife ==
  ASSUME TypeOK, Life,
         \/ \E e \in Ends : TcpOpen(e) \/ Closedown(e)
         \/ Deliver \/ Ack \/ ClockStep
  PROVE  Life'
<1> USE DEF pumpVars, chanVars
<1>0. /\ \A e \in Ends : q[e] \in Seq(Messages) /\ LifeOK(e)
      /\ "snd" \in Ends /\ "rcv" \in Ends
  BY DEF TypeOK, Ends, Life
<1>1. ASSUME NEW e \in Ends, TcpOpen(e) PROVE Life'
  <2>0. /\ UNCHANGED <<file, stream, pc, alive, worker, chan>>
        /\ tcp[e] = "opening" /\ tcp'[e] = "established"
        /\ \A f \in Ends \ {e} : tcp'[f] = tcp[f] /\ q'[f] = q[f]
        /\ q'[e] = IF stream[e] THEN Append(q[e], "open") ELSE q[e]
    BY <1>1 DEF TcpOpen, TypeOK, Set
  <2>1. /\ Held(q'[e]) \subseteq Held(q[e]) \cup (IF stream[e] THEN {"open"} ELSE {})
        /\ Once(q'[e], "purge") /\ Once(q'[e], "destroy")
    <3>1. Once(q[e], "purge") /\ Once(q[e], "destroy")
      BY <1>0 DEF LifeOK, LifeAt
    <3>2. CASE stream[e]
      BY <1>0, <2>0, <3>1, <3>2, Posts, AppendQueue
    <3>3. CASE ~stream[e]
      BY <2>0, <3>1, <3>3
    <3> QED BY <3>2, <3>3
  <2>2. LifeAt(e, file[e], stream[e], pc[e], alive[e], worker[e], chan[e], "established", q'[e])
    BY <1>0, <2>0, <2>1 DEF LifeOK, LifeAt
  <2>3. LifeOK(e)'
    BY <2>0, <2>2 DEF LifeOK
  <2> QED BY <2>0, <2>3, LifeFrame
<1>2. ASSUME NEW e \in Ends, Closedown(e) PROVE Life'
  <2> DEFINE a == IF stream[e] THEN <<"error">> ELSE <<>>
             b == IF shut[e] THEN DestroyChannelMsg(e) ELSE <<>>
  <2>0. /\ UNCHANGED <<file, stream, pc, alive, worker, chan>>
        /\ tcp[e] # "gone"
        /\ \A f \in Ends \ {e} : tcp'[f] = tcp[f] /\ q'[f] = q[f]
        /\ q'[e] = q[e] \o a \o b
    BY <1>2 DEF Closedown, DeleteTcp, TypeOK, Set
  <2>1. a \in Seq(Messages) /\ b \in Seq(Messages)
    BY Posts DEF DestroyChannelMsg
  <2>2. /\ Held(a) \subseteq (IF stream[e] THEN {"error"} ELSE {})
        /\ Held(b) \subseteq (IF chan[e] THEN {"destroychannel"} ELSE {})
        /\ \A x : Once(a, x) /\ Once(b, x)
    BY ShortQueues DEF DestroyChannelMsg
  <2> HIDE DEF a, b
  <2>3. Held(q'[e]) = Held(q[e]) \cup Held(a) \cup Held(b)
    BY <1>0, <2>0, <2>1, ThreeQueues
  <2>4. Once(q'[e], "purge") /\ Once(q'[e], "destroy")
    <3>1. Once(q[e], "purge") /\ Once(q[e], "destroy")
      BY <1>0 DEF LifeOK, LifeAt
    <3>2. \A x \in {"purge", "destroy"} : x \notin Held(a) /\ x \notin Held(b)
      BY <2>2
    <3>3. q[e] \in Seq(Messages)
      BY <1>0
    <3>4. Once(q[e] \o a \o b, "purge") /\ Once(q[e] \o a \o b, "destroy")
      BY <2>1, <2>2, <3>1, <3>2, <3>3, ThreeQueues
    <3> QED BY <2>0, <3>4
  <2>5. LifeOK(e)'
    <3>1. LifeAt(e, file[e], stream[e], pc[e], alive[e], worker[e], chan[e], tcp'[e], q'[e])
      BY <1>0, <2>0, <2>2, <2>3, <2>4 DEF LifeOK, LifeAt, StreamEvents
    <3> QED BY <2>0, <3>1 DEF LifeOK
  <2> QED BY <2>0, <2>5, LifeFrame
<1>3. CASE Deliver
  <2>0. /\ UNCHANGED <<file, stream, pc, alive, worker, chan, tcp>>
        /\ q'["snd"] = q["snd"]
        /\ q'["rcv"] = q["rcv"] \/ (stream["rcv"] /\ q'["rcv"] = Append(q["rcv"], "read"))
    BY <1>3 DEF Deliver, TypeOK, Set, Ends
  <2>1. Once(q["rcv"], "purge") /\ Once(q["rcv"], "destroy")
    BY <1>0 DEF LifeOK, LifeAt
  <2>2. LifeOK("rcv")'
    <3>1. CASE q'["rcv"] = q["rcv"]
      BY <1>0, <2>0, <3>1 DEF LifeOK
    <3>2. CASE stream["rcv"] /\ q'["rcv"] = Append(q["rcv"], "read")
      <4>1. /\ Held(q'["rcv"]) = Held(q["rcv"]) \cup {"read"}
            /\ Once(q'["rcv"], "purge") /\ Once(q'["rcv"], "destroy")
        BY <1>0, <2>1, <3>2, Posts, AppendQueue
      <4>2. LifeAt("rcv", file["rcv"], stream["rcv"], pc["rcv"], alive["rcv"], worker["rcv"],
                   chan["rcv"], tcp["rcv"], q'["rcv"])
        BY <1>0, <3>2, <4>1 DEF LifeOK, LifeAt
      <4> QED BY <2>0, <4>2 DEF LifeOK
    <3> QED BY <2>0, <3>1, <3>2
  <2> QED BY <1>0, <2>0, <2>2, LifeFrame DEF Ends
<1>4. CASE Ack
  <2> DEFINE rest == SubSeq(sbuf, sent + 1, Len(sbuf))
             a == IF (writeEnable /\ Len(rest) < RefillSize) /\ stream["snd"]
                  THEN <<"write">> ELSE <<>>
             b == IF shut["snd"] /\ rest = <<>> THEN DestroyChannelMsg("snd") ELSE <<>>
  <2>0. /\ UNCHANGED <<file, stream, pc, alive, worker, chan>>
        /\ tcp["snd"] # "gone"
        /\ \A f \in Ends \ {"snd"} : tcp'[f] = tcp[f] /\ q'[f] = q[f]
        /\ q'["snd"] = q["snd"] \o a \o b
    BY <1>4 DEF Ack, TypeOK, Set, Ends
  <2>1. a \in Seq(Messages) /\ b \in Seq(Messages)
    BY Posts DEF DestroyChannelMsg
  <2>2. /\ Held(a) \subseteq (IF stream["snd"] THEN {"write"} ELSE {})
        /\ Held(b) \subseteq (IF chan["snd"] THEN {"destroychannel"} ELSE {})
        /\ \A x : Once(a, x) /\ Once(b, x)
    BY ShortQueues DEF DestroyChannelMsg
  <2> HIDE DEF a, b
  <2>3. Held(q'["snd"]) = Held(q["snd"]) \cup Held(a) \cup Held(b)
    BY <1>0, <2>0, <2>1, ThreeQueues
  <2>4. Once(q'["snd"], "purge") /\ Once(q'["snd"], "destroy")
    <3>1. Once(q["snd"], "purge") /\ Once(q["snd"], "destroy")
      BY <1>0 DEF LifeOK, LifeAt
    <3>2. \A x \in {"purge", "destroy"} : x \notin Held(a) /\ x \notin Held(b)
      BY <2>2
    <3> QED BY <1>0, <2>0, <2>1, <2>2, <3>1, <3>2, ThreeQueues
  <2>5. LifeOK("snd")'
    <3>1. LifeAt("snd", file["snd"], stream["snd"], pc["snd"], alive["snd"], worker["snd"],
                 chan["snd"], tcp'["snd"], q'["snd"])
      BY <1>0, <2>0, <2>2, <2>3, <2>4 DEF LifeOK, LifeAt, StreamEvents
    <3> QED BY <2>0, <3>1 DEF LifeOK
  <2> QED BY <1>0, <2>0, <2>5, LifeFrame
<1>5. CASE ClockStep
  <2> DEFINE b == DestroyChannelMsg("rcv")
  <2>0. /\ UNCHANGED <<file, stream, pc, alive, worker, chan>>
        /\ tcp'["rcv"] = "gone"
        /\ \A f \in Ends \ {"rcv"} : tcp'[f] = tcp[f] /\ q'[f] = q[f]
        /\ q'["rcv"] = q["rcv"] \o b
    BY <1>5 DEF ClockStep, DeleteTcp, TypeOK, Set, Ends
  <2>1. /\ b \in Seq(Messages)
        /\ Held(b) \subseteq (IF chan["rcv"] THEN {"destroychannel"} ELSE {})
        /\ \A x : Once(b, x)
    BY ShortQueues, Posts DEF DestroyChannelMsg
  <2> HIDE DEF b
  <2>2. Held(q'["rcv"]) = Held(q["rcv"]) \cup Held(b)
    BY <1>0, <2>0, <2>1, ConcatQueues
  <2>3. Once(q'["rcv"], "purge") /\ Once(q'["rcv"], "destroy")
    <3>1. Once(q["rcv"], "purge") /\ Once(q["rcv"], "destroy")
      BY <1>0 DEF LifeOK, LifeAt
    <3>2. \A x \in {"purge", "destroy"} : x \notin Held(b)
      BY <2>1
    <3> QED BY <1>0, <2>0, <2>1, <3>1, <3>2, ConcatQueues
  <2>4. LifeOK("rcv")'
    <3>1. LifeAt("rcv", file["rcv"], stream["rcv"], pc["rcv"], alive["rcv"], worker["rcv"],
                 chan["rcv"], "gone", q'["rcv"])
      BY <1>0, <2>0, <2>1, <2>2, <2>3 DEF LifeOK, LifeAt, StreamEvents
    <3> QED BY <2>0, <3>1 DEF LifeOK
  <2> QED BY <1>0, <2>0, <2>4, LifeFrame
<1> QED BY <1>1, <1>2, <1>3, <1>4, <1>5

\* What is known when the first message of a queue is handled.
LEMMA RestLife ==
  ASSUME TypeOK, NEW e \in Ends, LifeOK(e), NEW m, Next_(e, m)
  PROVE  /\ Tail(q[e]) \in Seq(Messages) /\ pc[e] = "idle" /\ m = Head(q[e])
         /\ m \in Held(q[e]) /\ Held(Tail(q[e])) \subseteq Held(q[e])
         /\ Once(Tail(q[e]), "purge") /\ Once(Tail(q[e]), "destroy")
         /\ m \in {"purge", "destroy"} => m \notin Held(Tail(q[e]))
<1>1. q[e] \in Seq(Messages) /\ q[e] # <<>> /\ m = Head(q[e])
  BY Rest
<1>2. Once(q[e], "purge") /\ Once(q[e], "destroy")
  BY DEF LifeOK, LifeAt
<1> QED BY <1>1, <1>2, TailQueue DEF Next_, Idle

\* The steps of the session and of the end of the channel preserve Life.
LEMMA SessionLife ==
  ASSUME TypeOK, Life, NEW e \in Ends,
         \/ DestroyChannel(e) \/ RunTasks(e) \/ RecvTerminate(e) \/ SessionTimeout(e)
         \/ SessionError(e) \/ SessionState(e) \/ Purge(e) \/ Destroy(e)
  PROVE  Life'
<1> USE DEF pumpVars, chanVars, tcpVars
<1>0. q[e] \in Seq(Messages) /\ LifeOK(e) /\ Once(q[e], "purge") /\ Once(q[e], "destroy")
  BY DEF TypeOK, Life, LifeOK, LifeAt
<1>a. ASSUME UNCHANGED <<file, stream, pc, alive, worker, chan, tcp>>,
             \A f \in Ends \ {e} : q'[f] = q[f],
             Held(q'[e]) \subseteq Held(q[e]) \cup {"run", "state", "sesserror"},
             Once(q'[e], "purge"), Once(q'[e], "destroy")
      PROVE  Life'
  <2>1. LifeAt(e, file[e], stream[e], pc[e], alive[e], worker[e], chan[e], tcp[e], q'[e])
    BY <1>0, <1>a DEF LifeOK, LifeAt, StreamEvents
  <2>2. LifeOK(e)'
    BY <1>a, <2>1 DEF LifeOK
  <2> QED BY <1>a, <2>2, LifeFrame
<1>1. CASE DestroyChannel(e)
  <2>1. /\ Tail(q[e]) \in Seq(Messages) /\ Held(Tail(q[e])) \subseteq Held(q[e])
        /\ Once(Tail(q[e]), "purge") /\ Once(Tail(q[e]), "destroy")
        /\ "destroychannel" \in Held(q[e])
    BY <1>0, <1>1, RestLife DEF DestroyChannel
  <2>2. PICK z \in Seq(Messages) : /\ OnChannelDestroyed(e, Tail(q[e]), z)
                                   /\ Held(z) \subseteq {"run", "state"}
    BY <1>1, Posts, ShortQueues DEF DestroyChannel
  <2>3. LifeOK(e)'
    <3>1. chan[e]
      BY <1>0, <2>1 DEF LifeOK, LifeAt
    <3>2. UNCHANGED <<pumpVars, stream, worker, alive>>
      BY <1>1 DEF DestroyChannel
    <3> QED BY <1>0, <2>1, <2>2, <3>1, <3>2, DestroyedLife
  <2>4. \A f \in Ends \ {e} : chan'[f] = chan[f] /\ tcp'[f] = tcp[f] /\ q'[f] = q[f]
    BY <2>2 DEF OnChannelDestroyed, DeleteTcp, Set, TypeOK
  <2> QED BY <1>1, <2>3, <2>4, LifeFrame DEF DestroyChannel
<1>2. CASE RunTasks(e)
  <2>1. q'[e] = Tail(q[e]) /\ \A f \in Ends \ {e} : q'[f] = q[f]
    BY <1>2 DEF RunTasks, Set, TypeOK
  <2> QED BY <1>0, <1>2, <1>a, <2>1, RestLife DEF RunTasks
<1>3. CASE RecvTerminate(e)
  <2>1. /\ q'[e] = q[e] \/ q'[e] = Append(q[e], "state")
        /\ \A f \in Ends \ {e} : q'[f] = q[f]
    BY <1>3 DEF RecvTerminate, Set, TypeOK
  <2>2. /\ Held(q'[e]) \subseteq Held(q[e]) \cup {"run", "state", "sesserror"}
        /\ Once(q'[e], "purge") /\ Once(q'[e], "destroy")
    <3>1. CASE q'[e] = q[e]
      BY <1>0, <3>1
    <3>2. CASE q'[e] = Append(q[e], "state")
      BY <1>0, <3>2, Posts, AppendQueue
    <3> QED BY <2>1, <3>1, <3>2
  <2> QED BY <1>3, <1>a, <2>1, <2>2 DEF RecvTerminate
<1>4. CASE SessionTimeout(e)
  <2>1. /\ q'[e] = Append(q[e], "sesserror")
        /\ \A f \in Ends \ {e} : q'[f] = q[f]
    BY <1>4 DEF SessionTimeout, Set, TypeOK
  <2>2. /\ Held(q'[e]) \subseteq Held(q[e]) \cup {"run", "state", "sesserror"}
        /\ Once(q'[e], "purge") /\ Once(q'[e], "destroy")
    BY <1>0, <2>1, Posts, AppendQueue
  <2> QED BY <1>4, <1>a, <2>1, <2>2 DEF SessionTimeout
<1>5. CASE SessionError(e)
  <2> DEFINE z == IF term[e] = "live" THEN <<"run", "state">> ELSE <<>>
  <2>1. q'[e] = Tail(q[e]) \o z /\ \A f \in Ends \ {e} : q'[f] = q[f]
    BY <1>5 DEF SessionError, Set, TypeOK
  <2>2. z \in Seq(Messages) /\ Held(z) \subseteq {"run", "state"} /\ \A x : Once(z, x)
    BY Posts, ShortQueues
  <2> HIDE DEF z
  <2>3. /\ Tail(q[e]) \in Seq(Messages) /\ Held(Tail(q[e])) \subseteq Held(q[e])
        /\ Once(Tail(q[e]), "purge") /\ Once(Tail(q[e]), "destroy")
    BY <1>0, <1>5, RestLife DEF SessionError
  <2>4. "purge" \notin Held(z) /\ "destroy" \notin Held(z)
    BY <2>2
  <2>5. Held(Tail(q[e]) \o z) = Held(Tail(q[e])) \cup Held(z)
    BY <2>2, <2>3, ConcatQueues
  <2>6. Once(Tail(q[e]) \o z, "purge") /\ Once(Tail(q[e]) \o z, "destroy")
    BY <2>2, <2>3, <2>4, ConcatQueues
  <2>7. /\ Held(q'[e]) \subseteq Held(q[e]) \cup {"run", "state", "sesserror"}
        /\ Once(q'[e], "purge") /\ Once(q'[e], "destroy")
    BY <2>1, <2>2, <2>3, <2>5, <2>6
  <2> QED BY <1>5, <1>a, <2>1, <2>7 DEF SessionError
<1>6. CASE SessionState(e)
  <2> DEFINE c == ClearSession(q[e])
  <2>1. /\ c \in Seq(Messages) /\ Held(c) \subseteq Held(q[e])
        /\ Once(c, "purge") /\ Once(c, "destroy")
    BY <1>0, WithoutQueue DEF ClearSession
  <2> HIDE DEF c
  <2>2. CASE chan[e]
    <3>0. PICK z \in Seq(Messages) : OnChannelDestroyed(e, c, z) /\ z = <<>>
      BY <1>6, <2>2, Posts DEF SessionState, c
    <3>1. Held(z) \subseteq {"run", "state"}
      BY <3>0, ShortQueues
    <3>2. UNCHANGED <<pumpVars, stream, worker, alive>>
      BY <1>6 DEF SessionState
    <3>3. LifeOK(e)'
      BY <1>0, <2>1, <2>2, <3>0, <3>1, <3>2, DestroyedLife
    <3>4. \A f \in Ends \ {e} : chan'[f] = chan[f] /\ tcp'[f] = tcp[f] /\ q'[f] = q[f]
      BY <3>0 DEF OnChannelDestroyed, DeleteTcp, Set, TypeOK
    <3> QED BY <1>6, <3>3, <3>4, LifeFrame DEF SessionState
  <2>3. CASE ~chan[e]
    <3>1. /\ q'[e] = c /\ \A f \in Ends \ {e} : q'[f] = q[f]
          /\ UNCHANGED <<file, stream, pc, alive, worker, chan, tcp>>
      BY <1>6, <2>3 DEF SessionState, Set, TypeOK, c
    <3> QED BY <1>a, <2>1, <3>1
  <2> QED BY <2>2, <2>3
<1>7. CASE Purge(e)
  <2> DEFINE z == IF stream[e] THEN <<>> ELSE <<"destroy">>
  <2>1. /\ q'[e] = Tail(q[e]) \o z /\ worker'[e] = FALSE
        /\ \A f \in Ends \ {e} : q'[f] = q[f] /\ worker'[f] = worker[f]
        /\ UNCHANGED <<file, stream, pc, alive, chan, tcp>>
    BY <1>7 DEF Purge, Set, TypeOK
  <2>2. /\ z \in Seq(Messages) /\ Held(z) = (IF stream[e] THEN {} ELSE {"destroy"})
        /\ \A x : Once(z, x)
    BY Posts, ShortQueues
  <2> HIDE DEF z
  <2>3. /\ Tail(q[e]) \in Seq(Messages) /\ Held(Tail(q[e])) \subseteq Held(q[e])
        /\ Once(Tail(q[e]), "purge") /\ Once(Tail(q[e]), "destroy")
        /\ "purge" \in Held(q[e]) /\ "purge" \notin Held(Tail(q[e]))
    BY <1>0, <1>7, RestLife DEF Purge
  <2>4. ~chan[e] /\ worker[e] /\ "destroy" \notin Held(q[e]) /\ alive[e]
    BY <1>0, <2>3 DEF LifeOK, LifeAt
  <2>5. Held(Tail(q[e]) \o z) = Held(Tail(q[e])) \cup Held(z)
    BY <2>2, <2>3, ConcatQueues
  <2>6. Once(Tail(q[e]) \o z, "purge") /\ Once(Tail(q[e]) \o z, "destroy")
    BY <2>2, <2>3, <2>4, ConcatQueues
  <2> DEFINE r == Tail(q[e]) \o z
  <2> HIDE DEF r
  <2>7. LifeAt(e, file[e], stream[e], pc[e], alive[e], FALSE, chan[e], tcp[e], r)
    <3>1. /\ Held(r) \subseteq (Held(q[e]) \ {"purge"}) \cup (IF stream[e] THEN {} ELSE {"destroy"})
          /\ Once(r, "purge") /\ Once(r, "destroy")
      BY <2>2, <2>3, <2>5, <2>6 DEF r
    <3> QED BY <1>0, <2>4, <3>1 DEF LifeOK, LifeAt, StreamEvents
  <2>8. LifeOK(e)'
    BY <2>1, <2>7 DEF LifeOK, r
  <2> QED BY <2>1, <2>8, LifeFrame
<1>8. CASE Destroy(e)
  <2>1. /\ q'[e] = Tail(q[e]) /\ alive'[e] = FALSE
        /\ \A f \in Ends \ {e} : q'[f] = q[f] /\ alive'[f] = alive[f]
        /\ UNCHANGED <<file, stream, pc, worker, chan, tcp>>
    BY <1>8 DEF Destroy, Set, TypeOK
  <2>2. /\ Held(Tail(q[e])) \subseteq Held(q[e])
        /\ Once(Tail(q[e]), "purge") /\ Once(Tail(q[e]), "destroy")
        /\ "destroy" \in Held(q[e]) /\ "destroy" \notin Held(Tail(q[e]))
    BY <1>0, <1>8, RestLife DEF Destroy
  <2>3. LifeAt(e, file[e], stream[e], pc[e], FALSE, worker[e], chan[e], tcp[e], Tail(q[e]))
    BY <1>0, <2>2 DEF LifeOK, LifeAt
  <2>4. LifeOK(e)'
    BY <2>1, <2>3 DEF LifeOK
  <2> QED BY <2>1, <2>4, LifeFrame
<1> QED BY <1>1, <1>2, <1>3, <1>4, <1>5, <1>6, <1>7, <1>8

\* The steps of the pumps and of Loop preserve Life.
LEMMA PumpLife ==
  ASSUME TypeOK, Life,
         \/ \E e \in Ends, m \in StreamEvents : StreamEvent(e, m)
         \/ WriteStep \/ FillStep \/ ReadError \/ ReadStep \/ StoreStep
         \/ \E n \in 0..(BufLen - 1) : StoreError(n)
         \/ DelayFires \/ LoopReturns
  PROVE  Life'
<1> USE DEF pumpVars, chanVars, tcpVars
<1>0. /\ \A e \in Ends : /\ q[e] \in Seq(Messages) /\ LifeOK(e)
                         /\ Once(q[e], "purge") /\ Once(q[e], "destroy")
      /\ "snd" \in Ends /\ "rcv" \in Ends /\ client \in Ends
  BY DEF TypeOK, Ends, Life, LifeOK, LifeAt
<1>c. ASSUME NEW e \in Ends, NEW delay \in BOOLEAN, NEW q0 \in Seq(Messages), stream[e],
             Held(q0) \subseteq Held(q[e]), Once(q0, "purge"), Once(q0, "destroy"),
             Cleanup(e, delay, q0), UNCHANGED <<chan, worker, alive>>
      PROVE  Life'
  <2>1. LifeOK(e)'
    BY <1>0, <1>c, CleanupLife
  <2>2. \A f \in Ends \ {e} :
           /\ file'[f] = file[f] /\ stream'[f] = stream[f] /\ pc'[f] = pc[f]
           /\ tcp'[f] = tcp[f] /\ q'[f] = q[f]
    BY <1>c DEF Cleanup, DeleteTcp, Set, TypeOK
  <2> QED BY <1>c, <2>1, <2>2, LifeFrame
<1>d. ASSUME NEW e \in Ends, UNCHANGED <<file, stream, alive, worker, chan, tcp>>,
             \A f \in Ends \ {e} : q'[f] = q[f] /\ pc'[f] = pc[f],
             Held(q'[e]) \subseteq Held(q[e]) \cup (IF stream[e] THEN {"read", "done"} ELSE {"done"}),
             Once(q'[e], "purge"), Once(q'[e], "destroy"), pc'[e] # "idle" => stream[e],
             pc'[e] \in (IF e = "snd" THEN {"idle", "write"} ELSE {"idle", "read", "store"})
      PROVE  Life'
  <2>1. LifeAt(e, file[e], stream[e], pc'[e], alive[e], worker[e], chan[e], tcp[e], q'[e])
    BY <1>0, <1>d DEF LifeOK, LifeAt, StreamEvents
  <2>2. LifeOK(e)'
    BY <1>d, <2>1 DEF LifeOK
  <2> QED BY <1>d, <2>2, LifeFrame
<1>p. \A e \in Ends : pc[e] # "idle" => stream[e]
  BY <1>0 DEF LifeOK, LifeAt
<1>1. ASSUME NEW e \in Ends, NEW m \in StreamEvents, StreamEvent(e, m) PROVE Life'
  <2>1. /\ Tail(q[e]) \in Seq(Messages) /\ Held(Tail(q[e])) \subseteq Held(q[e])
        /\ Once(Tail(q[e]), "purge") /\ Once(Tail(q[e]), "destroy")
        /\ m \in Held(q[e]) /\ pc[e] = "idle"
    BY <1>0, <1>1, RestLife DEF StreamEvent
  <2>2. stream[e]
    BY <1>0, <2>1 DEF LifeOK, LifeAt
  <2>3. CASE m \in {"close", "error"}
    BY <1>1, <1>c, <2>1, <2>2, <2>3 DEF StreamEvent
  <2>4. CASE m \notin {"close", "error"}
    <3>1. /\ UNCHANGED <<file, stream, alive, worker, chan, tcp>>
          /\ q'[e] = Tail(q[e])
          /\ \A f \in Ends \ {e} : q'[f] = q[f] /\ pc'[f] = pc[f]
          /\ pc'[e] \in (IF e = "snd" THEN {"idle", "write"} ELSE {"idle", "read", "store"})
      BY <1>1, <2>1, <2>4 DEF StreamEvent, Set, TypeOK
    <3> QED BY <1>d, <2>1, <2>2, <3>1
  <2> QED BY <2>3, <2>4
<1>2. CASE WriteStep
  <2>0. stream["snd"]
    BY <1>0, <1>2, <1>p DEF WriteStep
  <2>1. CASE Cleanup("snd", FALSE, q["snd"])
    BY <1>0, <1>2, <1>c, <2>0, <2>1 DEF WriteStep
  <2>2. CASE ~Cleanup("snd", FALSE, q["snd"])
    <3>1. /\ UNCHANGED <<file, stream, alive, worker, chan, tcp, q>>
          /\ pc'["rcv"] = pc["rcv"] /\ pc'["snd"] \in {"idle", "write"}
      BY <1>0, <1>2, <2>2 DEF WriteStep, Set, TypeOK
    <3> QED BY <1>0, <1>d, <2>0, <3>1 DEF Ends
  <2> QED BY <2>1, <2>2
<1>3. CASE FillStep
  <2>0. stream["snd"]
    BY <1>0, <1>3, <1>p DEF FillStep
  <2>1. CASE Cleanup("snd", TRUE, q["snd"])
    BY <1>0, <1>3, <1>c, <2>0, <2>1 DEF FillStep
  <2>2. CASE ~Cleanup("snd", TRUE, q["snd"])
    <3>1. UNCHANGED <<file, stream, alive, worker, chan, tcp, q, pc>> /\ pc["snd"] = "write"
      BY <1>0, <1>3, <2>2 DEF FillStep
    <3> QED BY <1>0, <1>d, <2>0, <3>1 DEF Ends
  <2> QED BY <2>1, <2>2
<1>4. CASE ReadError
  <2>0. stream["snd"]
    BY <1>0, <1>4, <1>p DEF ReadError
  <2> QED BY <1>0, <1>4, <1>c, <2>0 DEF ReadError
<1>5. CASE ReadStep
  <2>0. stream["rcv"]
    BY <1>0, <1>5, <1>p DEF ReadStep
  <2>1. CASE Cleanup("rcv", FALSE, q["rcv"])
    BY <1>0, <1>5, <1>c, <2>0, <2>1 DEF ReadStep
  <2>2. CASE ~Cleanup("rcv", FALSE, q["rcv"])
    <3>1. /\ UNCHANGED <<file, stream, alive, worker, chan, tcp>> /\ q'["snd"] = q["snd"]
          /\ pc'["snd"] = pc["snd"] /\ pc'["rcv"] \in {"idle", "read", "store"}
          /\ q'["rcv"] = q["rcv"] \/ q'["rcv"] = Append(q["rcv"], "read")
      <4>1. UNCHANGED <<file, stream, alive, worker, chan, tcp>>
        BY <1>5, <2>2 DEF ReadStep
      <4>2. PICK v \in {"idle", "read", "store"} : pc' = Set(pc, "rcv", v)
        BY <1>5, <2>2 DEF ReadStep
      <4>3. q' = q \/ q' = Set(q, "rcv", Append(q["rcv"], "read"))
        BY <1>5, <2>2 DEF ReadStep
      <4> QED BY <1>0, <4>1, <4>2, <4>3 DEF Set, TypeOK
    <3>2. /\ Held(q'["rcv"]) \subseteq Held(q["rcv"]) \cup {"read"}
          /\ Once(q'["rcv"], "purge") /\ Once(q'["rcv"], "destroy")
      <4>1. CASE q'["rcv"] = q["rcv"]
        BY <1>0, <4>1
      <4>2. CASE q'["rcv"] = Append(q["rcv"], "read")
        BY <1>0, <4>2, Posts, AppendQueue
      <4> QED BY <3>1, <4>1, <4>2
    <3> QED BY <1>0, <1>d, <2>0, <3>1, <3>2 DEF Ends
  <2> QED BY <2>1, <2>2
<1>6. CASE StoreStep
  <2>0. stream["rcv"]
    BY <1>0, <1>6, <1>p DEF StoreStep
  <2>1. /\ UNCHANGED <<file, stream, alive, worker, chan, tcp, q>>
        /\ pc'["snd"] = pc["snd"] /\ pc'["rcv"] = "read"
    BY <1>0, <1>6 DEF StoreStep, Set, TypeOK
  <2> QED BY <1>0, <1>d, <2>0, <2>1 DEF Ends
<1>7. ASSUME NEW n \in 0..(BufLen - 1), StoreError(n) PROVE Life'
  <2>0. stream["rcv"]
    BY <1>0, <1>7, <1>p DEF StoreError
  <2> QED BY <1>0, <1>7, <1>c, <2>0 DEF StoreError
<1>8. CASE DelayFires
  <2>1. /\ UNCHANGED <<file, stream, alive, worker, chan, tcp, pc>>
        /\ q'[client] = Append(q[client], "done") /\ \A f \in Ends \ {client} : q'[f] = q[f]
    BY <1>0, <1>8 DEF DelayFires, Set, TypeOK
  <2>2. /\ Held(q'[client]) = Held(q[client]) \cup {"done"}
        /\ Once(q'[client], "purge") /\ Once(q'[client], "destroy")
    BY <1>0, <2>1, Posts, AppendQueue
  <2>3. pc[client] \in (IF client = "snd" THEN {"idle", "write"} ELSE {"idle", "read", "store"})
    BY <1>0 DEF LifeOK, LifeAt
  <2> QED BY <1>0, <1>d, <1>p, <2>1, <2>2, <2>3
<1>9. CASE LoopReturns
  <2>1. /\ UNCHANGED <<file, stream, alive, worker, chan, tcp, pc>>
        /\ q'[client] = Tail(q[client]) /\ \A f \in Ends \ {client} : q'[f] = q[f]
    BY <1>0, <1>9 DEF LoopReturns, Set, TypeOK
  <2>2. /\ Held(Tail(q[client])) \subseteq Held(q[client]) /\ pc[client] = "idle"
        /\ Once(Tail(q[client]), "purge") /\ Once(Tail(q[client]), "destroy")
    BY <1>0, <1>9, RestLife DEF LoopReturns
  <2> QED BY <1>0, <1>d, <2>1, <2>2
<1> QED BY <1>1, <1>2, <1>3, <1>4, <1>5, <1>6, <1>7, <1>8, <1>9

\* Life holds initially.
LEMMA InitLife == Init => Life
<1> SUFFICES ASSUME Init, NEW e \in Ends PROVE LifeOK(e)
  BY DEF Life
<1>1. LifeAt(e, TRUE, TRUE, "idle", TRUE, TRUE, TRUE, "opening", <<>>)
  BY ShortQueues DEF LifeAt
<1> QED BY <1>1 DEF Init, LifeOK

\* Every step preserves Life.
LEMMA NextLife ==
  ASSUME TypeOK, Life, [Next]_vars
  PROVE  Life'
<1>1. CASE UNCHANGED vars
  BY <1>1 DEF vars, Life, LifeOK
<1>2. CASE Next
  BY <1>2, NetworkLife, SessionLife, PumpLife
     DEF Next, Step, SenderStep, ReceiverStep, LoopStep, Fault
<1> QED BY <1>1, <1>2
-----------------------------------------------------------------------------
(* MSG_DONE.                                                               *)

\* MSG_DONE is queued, delayed or received by Loop, at most one of these, and
\* one of them exactly when the client has closed its file; the tunnel can
\* only be found late by the delayed one.
DoneAt(s, dl, lp, fl, lt) ==
  /\ Once(s, "done")
  /\ "done" \in Held(s) => lp /\ ~dl
  /\ dl => lp
  /\ fl <=> "done" \notin Held(s) /\ ~dl /\ lp
  /\ lt => ~fl /\ ~dl
DoneInv == DoneAt(q[client], delayed, looping, file[client], late)

\* Two queues that agree on MSG_DONE
SameDone(s, t) == /\ "done" \in Held(s) <=> "done" \in Held(t)
                  /\ Once(s, "done") => Once(t, "done")

\* A step of e that neither posts nor takes MSG_DONE.
LEMMA DoneFrame ==
  ASSUME TypeOK, DoneInv, NEW e \in Ends, SameDone(q[e], q'[e]),
         \A f \in Ends \ {e} : q'[f] = q[f],
         UNCHANGED loopVars, file'[client] = file[client]
  PROVE  DoneInv'
<1>1. SameDone(q[client], q'[client])
  BY DEF SameDone, TypeOK
<1>2. DoneAt(q'[client], delayed, looping, file[client], late)
  BY <1>1 DEF DoneInv, DoneAt, SameDone
<1> QED BY <1>2 DEF DoneInv, loopVars

\* A queue with messages other than MSG_DONE behind it, without its first
\* message, or without some that are not MSG_DONE
LEMMA SameDoneConcat ==
  ASSUME NEW s \in Seq(Messages), NEW t \in Seq(Messages), "done" \notin Held(t)
  PROVE  SameDone(s, s \o t)
<1>1. Once(t, "done")
  BY DEF Once, Held
<1> QED BY <1>1, ConcatQueues DEF SameDone

\* The same for two queues of other messages.
LEMMA SameDoneTwo ==
  ASSUME NEW s \in Seq(Messages), NEW t \in Seq(Messages), NEW u \in Seq(Messages),
         "done" \notin Held(t), "done" \notin Held(u)
  PROVE  SameDone(s, s \o t \o u)
<1>1. Once(t, "done") /\ Once(u, "done")
  BY DEF Once, Held
<1>2. Held(s \o t \o u) = Held(s) \cup Held(t) \cup Held(u)
  BY ThreeQueues
<1>3. Once(s, "done") => Once(s \o t \o u, "done")
  BY <1>1, ThreeQueues
<1> QED BY <1>2, <1>3 DEF SameDone

\* The same for one message.
LEMMA SameDoneAppend ==
  ASSUME NEW s \in Seq(Messages), NEW m \in Messages \ {"done"}
  PROVE  SameDone(s, Append(s, m))
  BY AppendQueue DEF SameDone

\* The same for a message that is taken.
LEMMA SameDoneTail ==
  ASSUME TypeOK, NEW e \in Ends, NEW m, Next_(e, m), m # "done"
  PROVE  SameDone(q[e], Tail(q[e]))
<1>1. q[e] \in Seq(Messages) /\ q[e] # <<>> /\ m = Head(q[e])
  BY Rest
<1>2. Held(q[e]) = {m} \cup Held(Tail(q[e]))
  BY <1>1, TailQueue
<1>3. Once(q[e], "done") => Once(Tail(q[e]), "done")
  BY <1>1, TailQueue
<1> QED BY <1>2, <1>3 DEF SameDone

\* The same for messages that are cleared.
LEMMA SameDoneWithout ==
  ASSUME NEW s \in Seq(Messages), NEW S, "done" \notin S
  PROVE  SameDone(s, Without(s, S))
<1>1. Held(Without(s, S)) = Held(s) \ S
  BY WithoutQueue
<1>2. Once(s, "done") => Once(Without(s, S), "done")
  BY WithoutQueue
<1> QED BY <1>1, <1>2 DEF SameDone

\* One after the other.
LEMMA SameDoneTrans ==
  ASSUME NEW s, NEW t, NEW u, SameDone(s, t), SameDone(t, u)
  PROVE  SameDone(s, u)
  BY DEF SameDone

\* Closing the stream of the client posts MSG_DONE, now or in two seconds.
LEMMA CleanupDone ==
  ASSUME TypeOK, DoneInv, NEW e \in Ends, LifeOK(e), stream[e],
         NEW delay \in BOOLEAN, NEW q0 \in Seq(Messages), SameDone(q[e], q0),
         Cleanup(e, delay, q0), UNCHANGED <<client, looping, late>>
  PROVE  DoneInv'
<1> DEFINE a == IF tcp[e] # "gone" /\ Drained(e, sbuf) THEN DestroyChannelMsg(e)
                ELSE IF tcp[e] # "gone" \/ worker[e] THEN <<>> ELSE <<"destroy">>
           b == IF e = client /\ ~delay THEN <<"done">> ELSE <<>>
           c == ClearEvents(q0)
<1>1. c \in Seq(Messages) /\ SameDone(q0, c)
  BY WithoutQueue, SameDoneWithout DEF ClearEvents, StreamEvents
<1>2. a \in Seq(Messages) /\ b \in Seq(Messages)
  BY Posts DEF DestroyChannelMsg
<1>3. /\ q'[e] = c \o a \o b /\ file'[e] = FALSE /\ delayed' = (delayed \/ (e = client /\ delay))
      /\ \A f \in Ends \ {e} : q'[f] = q[f] /\ file'[f] = file[f]
  BY DEF Cleanup, Set, TypeOK
<1>4. /\ "done" \notin Held(a) /\ Held(b) = (IF e = client /\ ~delay THEN {"done"} ELSE {})
      /\ \A x : Once(a, x) /\ Once(b, x)
  <2>1. "done" \notin Held(a) /\ \A x : Once(a, x)
    BY ShortQueues DEF DestroyChannelMsg
  <2>2. CASE e = client /\ ~delay
    BY <2>1, <2>2, ShortQueues
  <2>3. CASE ~(e = client /\ ~delay)
    BY <2>1, <2>3, ShortQueues
  <2> QED BY <2>2, <2>3
<1> HIDE DEF a, b, c
<1>5. SameDone(q[e], c \o a) /\ c \o a \in Seq(Messages)
  <2>1. SameDone(c, c \o a) /\ c \o a \in Seq(Messages)
    BY <1>1, <1>2, <1>4, SameDoneConcat, ConcatQueues
  <2> QED BY <1>1, <2>1 DEF SameDone
<1> DEFINE d == c \o a
<1>6. d \in Seq(Messages) /\ SameDone(q[e], d) /\ q'[e] = d \o b
  BY <1>3, <1>5
<1> HIDE DEF d
<1>7. Held(d \o b) = Held(d) \cup Held(b)
  BY <1>2, <1>6, ConcatQueues
<1>8. CASE e = client
  <2>1. "done" \notin Held(q[e]) /\ ~delayed /\ looping /\ Once(q[e], "done") /\ ~late
    BY <1>8 DEF DoneInv, DoneAt, LifeOK, LifeAt
  <2>2. "done" \notin Held(d) /\ Once(d, "done")
    BY <1>6, <2>1 DEF SameDone
  <2>3. Once(d \o b, "done")
    BY <1>2, <1>4, <1>6, <2>2, ConcatQueues
  <2>4. ("done" \in Held(d \o b)) = ~delay
    BY <1>4, <1>7, <1>8, <2>2
  <2>5. (delayed' <=> delay) /\ delayed' \in BOOLEAN
    BY <1>3, <1>8, <2>1, Zenon
  <2>6. DoneAt(d \o b, delayed', looping, FALSE, late)
    BY <2>1, <2>3, <2>4, <2>5 DEF DoneAt
  <2> QED BY <1>3, <1>6, <1>8, <2>6 DEF DoneInv
<1>9. CASE e # client
  <2>0. client \in Ends \ {e} /\ delayed \in BOOLEAN
    BY <1>9 DEF TypeOK
  <2>1. delayed' = delayed
    BY <1>3, <1>9, <2>0, Zenon
  <2> QED BY <1>3, <2>0, <2>1 DEF DoneInv
<1> QED BY <1>8, <1>9

\* Destroying the channel neither posts nor clears MSG_DONE.
LEMMA DestroyedDone ==
  ASSUME TypeOK, NEW e \in Ends, NEW q0 \in Seq(Messages), NEW z \in Seq(Messages),
         SameDone(q[e], q0), Held(z) \subseteq {"run", "state"}, OnChannelDestroyed(e, q0, z)
  PROVE  SameDone(q[e], q'[e]) /\ \A f \in Ends \ {e} : q'[f] = q[f]
<1> DEFINE a == <<"purge">>
           b == CloseEvent(e)
           c == ClearDestroy(q0)
           d == c \o a \o b
<1>1. c \in Seq(Messages) /\ SameDone(q0, c)
  BY WithoutQueue, SameDoneWithout DEF ClearDestroy
<1>2. a \in Seq(Messages) /\ b \in Seq(Messages)
  BY Posts DEF CloseEvent
<1>3. q'[e] = d \o z /\ \A f \in Ends \ {e} : q'[f] = q[f]
  BY DEF OnChannelDestroyed, Set, TypeOK
<1>4. "done" \notin Held(a) /\ "done" \notin Held(b) /\ \A x : Once(a, x) /\ Once(b, x)
  BY ShortQueues DEF CloseEvent
<1> HIDE DEF a, b, c
<1>5. d \in Seq(Messages) /\ SameDone(c, d)
  <2>1. d \in Seq(Messages) /\ Held(d) = Held(c) \cup Held(a) \cup Held(b)
    BY <1>1, <1>2, ThreeQueues
  <2>2. Once(c, "done") => Once(d, "done")
    BY <1>1, <1>2, <1>4, ThreeQueues
  <2> HIDE DEF d
  <2> QED BY <1>4, <2>1, <2>2 DEF SameDone
<1> HIDE DEF d
<1>6. SameDone(d, d \o z)
  BY <1>5, SameDoneConcat
<1> QED BY <1>1, <1>3, <1>5, <1>6 DEF SameDone

\* Every step preserves what is known of MSG_DONE.
LEMMA NextDone ==
  ASSUME TypeOK, Life, DoneInv, [Next]_vars
  PROVE  DoneInv'
<1> USE DEF pumpVars, sessVars, chanVars, tcpVars
<1>0. /\ \A e \in Ends : q[e] \in Seq(Messages) /\ LifeOK(e) /\ (pc[e] # "idle" => stream[e])
      /\ "snd" \in Ends /\ "rcv" \in Ends /\ client \in Ends
  BY DEF TypeOK, Ends, Life, LifeOK, LifeAt
<1>r. \A e \in Ends : SameDone(q[e], q[e])
  BY DEF SameDone
<1>1. ASSUME NEW e \in Ends, TcpOpen(e) PROVE DoneInv'
  <2>1. SameDone(q[e], Append(q[e], "open"))
    BY <1>0, SameDoneAppend, Posts
  <2>2. SameDone(q[e], q'[e]) /\ \A f \in Ends \ {e} : q'[f] = q[f]
    BY <1>1, <1>r, <2>1 DEF TcpOpen, Set, TypeOK
  <2> QED BY <1>1, <2>2, DoneFrame DEF TcpOpen
<1>2. ASSUME NEW e \in Ends, Closedown(e) PROVE DoneInv'
  <2> DEFINE a == IF stream[e] THEN <<"error">> ELSE <<>>
             b == IF shut[e] THEN DestroyChannelMsg(e) ELSE <<>>
  <2>1. /\ a \in Seq(Messages) /\ "done" \notin Held(a)
        /\ b \in Seq(Messages) /\ "done" \notin Held(b)
    BY Posts, ShortQueues DEF DestroyChannelMsg
  <2>2. q'[e] = q[e] \o a \o b /\ \A f \in Ends \ {e} : q'[f] = q[f]
    BY <1>2 DEF Closedown, Set, TypeOK
  <2> HIDE DEF a, b
  <2>3. q[e] \in Seq(Messages)
    BY <1>0
  <2>4. SameDone(q[e], q'[e])
    BY <2>1, <2>2, <2>3, SameDoneTwo
  <2> QED BY <1>2, <2>2, <2>4, DoneFrame DEF Closedown
<1>3. CASE Deliver
  <2>1. SameDone(q["rcv"], Append(q["rcv"], "read"))
    BY <1>0, SameDoneAppend, Posts
  <2>2. SameDone(q["rcv"], q'["rcv"]) /\ \A f \in Ends \ {"rcv"} : q'[f] = q[f]
    BY <1>0, <1>3, <1>r, <2>1 DEF Deliver, Set, TypeOK
  <2> QED BY <1>0, <1>3, <2>2, DoneFrame DEF Deliver
<1>4. CASE Ack
  <2> DEFINE rest == SubSeq(sbuf, sent + 1, Len(sbuf))
             a == IF (writeEnable /\ Len(rest) < RefillSize) /\ stream["snd"]
                  THEN <<"write">> ELSE <<>>
             b == IF shut["snd"] /\ rest = <<>> THEN DestroyChannelMsg("snd") ELSE <<>>
  <2>1. /\ a \in Seq(Messages) /\ "done" \notin Held(a)
        /\ b \in Seq(Messages) /\ "done" \notin Held(b)
    BY Posts, ShortQueues DEF DestroyChannelMsg
  <2>2. q'["snd"] = q["snd"] \o a \o b /\ \A f \in Ends \ {"snd"} : q'[f] = q[f]
    BY <1>4 DEF Ack, Set, TypeOK, Ends
  <2> HIDE DEF a, b
  <2>3. q["snd"] \in Seq(Messages)
    BY <1>0
  <2>4. SameDone(q["snd"], q'["snd"])
    BY <2>1, <2>2, <2>3, SameDoneTwo
  <2> QED BY <1>0, <1>4, <2>2, <2>4, DoneFrame DEF Ack
<1>5. CASE ClockStep
  <2> DEFINE b == DestroyChannelMsg("rcv")
  <2>1. b \in Seq(Messages) /\ "done" \notin Held(b)
    BY Posts, ShortQueues DEF DestroyChannelMsg
  <2>2. q'["rcv"] = q["rcv"] \o b /\ \A f \in Ends \ {"rcv"} : q'[f] = q[f]
    BY <1>5 DEF ClockStep, Set, TypeOK, Ends
  <2> HIDE DEF b
  <2>3. SameDone(q["rcv"], q'["rcv"])
    BY <1>0, <2>1, <2>2, SameDoneConcat
  <2> QED BY <1>0, <1>5, <2>2, <2>3, DoneFrame DEF ClockStep
<1>6. ASSUME NEW e \in Ends, DestroyChannel(e) PROVE DoneInv'
  <2>1. Tail(q[e]) \in Seq(Messages) /\ SameDone(q[e], Tail(q[e]))
    BY <1>6, Rest, SameDoneTail DEF DestroyChannel
  <2>2. PICK z \in Seq(Messages) : /\ OnChannelDestroyed(e, Tail(q[e]), z)
                                   /\ Held(z) \subseteq {"run", "state"}
    BY <1>6, Posts, ShortQueues DEF DestroyChannel
  <2>3. SameDone(q[e], q'[e]) /\ \A f \in Ends \ {e} : q'[f] = q[f]
    BY <2>1, <2>2, DestroyedDone
  <2> QED BY <1>6, <2>3, DoneFrame DEF DestroyChannel
<1>7. ASSUME NEW e \in Ends, RunTasks(e) PROVE DoneInv'
  <2>1. SameDone(q[e], q'[e]) /\ \A f \in Ends \ {e} : q'[f] = q[f]
    BY <1>7, SameDoneTail DEF RunTasks, Set, TypeOK
  <2> QED BY <1>7, <2>1, DoneFrame DEF RunTasks
<1>8. ASSUME NEW e \in Ends, RecvTerminate(e) PROVE DoneInv'
  <2>1. SameDone(q[e], Append(q[e], "state"))
    BY <1>0, SameDoneAppend, Posts
  <2>2. SameDone(q[e], q'[e]) /\ \A f \in Ends \ {e} : q'[f] = q[f]
    BY <1>8, <1>r, <2>1 DEF RecvTerminate, Set, TypeOK
  <2> QED BY <1>8, <2>2, DoneFrame DEF RecvTerminate
<1>9. ASSUME NEW e \in Ends, SessionTimeout(e) PROVE DoneInv'
  <2>1. SameDone(q[e], Append(q[e], "sesserror"))
    BY <1>0, SameDoneAppend, Posts
  <2>2. SameDone(q[e], q'[e]) /\ \A f \in Ends \ {e} : q'[f] = q[f]
    BY <1>9, <2>1 DEF SessionTimeout, Set, TypeOK
  <2> QED BY <1>9, <2>2, DoneFrame DEF SessionTimeout
<1>10. ASSUME NEW e \in Ends, SessionError(e) PROVE DoneInv'
  <2> DEFINE z == IF term[e] = "live" THEN <<"run", "state">> ELSE <<>>
  <2>1. Tail(q[e]) \in Seq(Messages) /\ SameDone(q[e], Tail(q[e]))
    BY <1>10, Rest, SameDoneTail DEF SessionError
  <2>2. z \in Seq(Messages) /\ "done" \notin Held(z)
    BY Posts, ShortQueues
  <2>3. q'[e] = Tail(q[e]) \o z /\ \A f \in Ends \ {e} : q'[f] = q[f]
    BY <1>10 DEF SessionError, Set, TypeOK
  <2> HIDE DEF z
  <2>4. SameDone(q[e], q'[e])
    BY <2>1, <2>2, <2>3, SameDoneConcat, SameDoneTrans
  <2> QED BY <1>10, <2>3, <2>4, DoneFrame DEF SessionError
<1>11. ASSUME NEW e \in Ends, SessionState(e) PROVE DoneInv'
  <2> DEFINE c == ClearSession(q[e])
  <2>1. c \in Seq(Messages) /\ SameDone(q[e], c)
    BY <1>0, WithoutQueue, SameDoneWithout DEF ClearSession
  <2>2. SameDone(q[e], q'[e]) /\ \A f \in Ends \ {e} : q'[f] = q[f]
    <3>1. CASE chan[e]
      <4>1. PICK z \in Seq(Messages) : OnChannelDestroyed(e, c, z) /\ z = <<>>
        BY <1>11, <3>1, Posts DEF SessionState
      <4>2. Held(z) \subseteq {"run", "state"}
        BY <4>1, ShortQueues
      <4> HIDE DEF c
      <4> QED BY <2>1, <4>1, <4>2, DestroyedDone
    <3>2. CASE ~chan[e]
      BY <1>11, <2>1, <3>2 DEF SessionState, Set, TypeOK
    <3> QED BY <3>1, <3>2
  <2> QED BY <1>11, <2>2, DoneFrame DEF SessionState
<1>12. ASSUME NEW e \in Ends, Purge(e) PROVE DoneInv'
  <2> DEFINE z == IF stream[e] THEN <<>> ELSE <<"destroy">>
  <2>1. Tail(q[e]) \in Seq(Messages) /\ SameDone(q[e], Tail(q[e]))
    BY <1>12, Rest, SameDoneTail DEF Purge
  <2>2. z \in Seq(Messages) /\ "done" \notin Held(z)
    BY Posts, ShortQueues
  <2>3. q'[e] = Tail(q[e]) \o z /\ \A f \in Ends \ {e} : q'[f] = q[f]
    BY <1>12 DEF Purge, Set, TypeOK
  <2> HIDE DEF z
  <2>4. SameDone(q[e], q'[e])
    BY <2>1, <2>2, <2>3, SameDoneConcat, SameDoneTrans
  <2> QED BY <1>12, <2>3, <2>4, DoneFrame DEF Purge
<1>13. ASSUME NEW e \in Ends, Destroy(e) PROVE DoneInv'
  <2>1. SameDone(q[e], q'[e]) /\ \A f \in Ends \ {e} : q'[f] = q[f]
    BY <1>13, SameDoneTail DEF Destroy, Set, TypeOK
  <2> QED BY <1>13, <2>1, DoneFrame DEF Destroy
<1>14. ASSUME NEW e \in Ends, NEW m \in StreamEvents, StreamEvent(e, m) PROVE DoneInv'
  <2>1. Tail(q[e]) \in Seq(Messages) /\ SameDone(q[e], Tail(q[e])) /\ m \in Held(q[e])
    <3>1. m # "done" /\ Next_(e, m)
      BY <1>14 DEF StreamEvents, StreamEvent
    <3> QED BY <1>0, <3>1, Rest, RestLife, SameDoneTail
  <2>2. stream[e]
    BY <1>0, <2>1 DEF LifeOK, LifeAt
  <2>3. CASE m \in {"close", "error"}
    BY <1>0, <1>14, <2>1, <2>2, <2>3, CleanupDone DEF StreamEvent
  <2>4. CASE m \notin {"close", "error"}
    <3>1. SameDone(q[e], q'[e]) /\ \A f \in Ends \ {e} : q'[f] = q[f]
      BY <1>14, <2>1, <2>4 DEF StreamEvent, Set, TypeOK
    <3> QED BY <1>14, <2>4, <3>1, DoneFrame DEF StreamEvent, loopVars
  <2> QED BY <2>3, <2>4
<1>15. CASE WriteStep
  <2>1. CASE Cleanup("snd", FALSE, q["snd"])
    BY <1>0, <1>r, <1>15, <2>1, CleanupDone DEF WriteStep
  <2>2. CASE ~Cleanup("snd", FALSE, q["snd"])
    BY <1>0, <1>r, <1>15, <2>2, DoneFrame DEF WriteStep, loopVars
  <2> QED BY <2>1, <2>2
<1>16. CASE FillStep
  <2>1. CASE Cleanup("snd", TRUE, q["snd"])
    BY <1>0, <1>r, <1>16, <2>1, CleanupDone DEF FillStep
  <2>2. CASE ~Cleanup("snd", TRUE, q["snd"])
    BY <1>0, <1>r, <1>16, <2>2, DoneFrame DEF FillStep, loopVars
  <2> QED BY <2>1, <2>2
<1>17. CASE ReadError
  BY <1>0, <1>r, <1>17, CleanupDone DEF ReadError
<1>18. CASE ReadStep
  <2>1. CASE Cleanup("rcv", FALSE, q["rcv"])
    BY <1>0, <1>r, <1>18, <2>1, CleanupDone DEF ReadStep
  <2>2. CASE ~Cleanup("rcv", FALSE, q["rcv"])
    <3>1. SameDone(q["rcv"], Append(q["rcv"], "read"))
      BY <1>0, SameDoneAppend, Posts
    <3>2. q' = q \/ q' = Set(q, "rcv", Append(q["rcv"], "read"))
      BY <1>18, <2>2 DEF ReadStep
    <3>3. SameDone(q["rcv"], q'["rcv"]) /\ \A f \in Ends \ {"rcv"} : q'[f] = q[f]
      BY <1>0, <1>r, <3>1, <3>2 DEF Set, TypeOK
    <3>4. UNCHANGED loopVars /\ file' = file
      BY <1>18, <2>2 DEF ReadStep, loopVars
    <3> QED BY <1>0, <3>3, <3>4, DoneFrame
  <2> QED BY <2>1, <2>2
<1>19. CASE StoreStep
  BY <1>0, <1>r, <1>19, DoneFrame DEF StoreStep
<1>20. ASSUME NEW n \in 0..(BufLen - 1), StoreError(n) PROVE DoneInv'
  BY <1>0, <1>r, <1>20, CleanupDone DEF StoreError
<1>21. CASE DelayFires
  <2>1. /\ q'[client] = Append(q[client], "done") /\ delayed /\ delayed' = FALSE
        /\ UNCHANGED <<client, looping, file>>
    BY <1>0, <1>21 DEF DelayFires, Set, TypeOK
  <2>2. "done" \notin Held(q[client]) /\ looping /\ ~file[client] /\ Once(q[client], "done")
    BY <2>1 DEF DoneInv, DoneAt
  <2>3. Held(q'[client]) = Held(q[client]) \cup {"done"} /\ Once(q'[client], "done")
    BY <1>0, <2>1, <2>2, Posts, AppendQueue
  <2>4. DoneAt(q'[client], FALSE, looping, file[client], late')
    BY <2>2, <2>3 DEF DoneAt
  <2> QED BY <2>1, <2>4 DEF DoneInv
<1>22. CASE LoopReturns
  <2>1. /\ q'[client] = Tail(q[client]) /\ looping' = FALSE
        /\ UNCHANGED <<client, delayed, file, late>>
    BY <1>0, <1>22 DEF LoopReturns, Set, TypeOK
  <2>2. q[client] # <<>> /\ Head(q[client]) = "done"
    BY <1>22 DEF LoopReturns, Next_
  <2>3. Once(q[client], "done")
    BY DEF DoneInv, DoneAt
  <2>4. /\ "done" \in Held(q[client]) /\ "done" \notin Held(Tail(q[client]))
        /\ Once(Tail(q[client]), "done")
    BY <1>0, <2>2, <2>3, TailQueue
  <2>5. DoneAt(Tail(q[client]), delayed, FALSE, file[client], late)
    BY <2>4 DEF DoneInv, DoneAt
  <2> QED BY <2>1, <2>5 DEF DoneInv
<1>23. CASE UNCHANGED vars
  BY <1>23 DEF vars, DoneInv
<1>24. CASE Next
  BY <1>24, <1>1, <1>2, <1>3, <1>4, <1>5, <1>6, <1>7, <1>8, <1>9, <1>10, <1>11, <1>12,
     <1>13, <1>14, <1>15, <1>16, <1>17, <1>18, <1>19, <1>20, <1>21, <1>22
     DEF Next, Step, SenderStep, ReceiverStep, LoopStep, Fault
<1> QED BY <1>23, <1>24

\* What holds of a queue holds of its first message.
LEMMA HeadHeld ==
  ASSUME TypeOK, NEW e \in Ends, q[e] # <<>>
  PROVE  Head(q[e]) \in Held(q[e])
<1>1. q[e] \in Seq(Messages)
  BY DEF TypeOK
<1> QED BY <1>1, TailQueue

\* How often MSG_DONE is queued, as a number
LEMMA CountDone ==
  ASSUME NEW s \in Seq(Messages), Once(s, "done")
  PROVE  Cardinality({i \in 1..Len(s) : s[i] = "done"}) = IF "done" \in Held(s) THEN 1 ELSE 0
<1> DEFINE D == {i \in 1..Len(s) : s[i] = "done"}
<1>1. CASE "done" \in Held(s)
  <2>1. PICK i \in 1..Len(s) : s[i] = "done"
    BY <1>1 DEF Held
  <2>2. D = {i}
    BY <2>1 DEF Once
  <2> QED BY <1>1, <2>2, FS_Singleton
<1>2. CASE "done" \notin Held(s)
  <2>1. D = {}
    BY <1>2 DEF Held
  <2> QED BY <1>2, <2>1, FS_EmptySet
<1> QED BY <1>1, <1>2

\* What is known of the queues gives the assertions of PseudoTcpChannel.
LEMMA LifeDispatch == TypeOK /\ Life => DispatchSafe
<1> SUFFICES ASSUME TypeOK, Life, NEW e \in Ends, q[e] # <<>>
             PROVE  LET m == Head(q[e]) IN
                    /\ m \in StreamEvents => stream[e] /\ alive[e]
                    /\ m = "destroychannel" => chan[e] /\ alive[e]
                    /\ m = "purge" => ~chan[e] /\ alive[e]
                    /\ m = "destroy" => /\ ~worker[e] /\ ~chan[e] /\ ~stream[e]
                                        /\ tcp[e] = "gone" /\ alive[e]
  BY DEF DispatchSafe
<1>1. Head(q[e]) \in Held(q[e]) /\ LifeOK(e)
  BY HeadHeld DEF Life
<1> QED BY <1>1 DEF LifeOK, LifeAt

\* What is known of MSG_DONE, as the property counts it.
LEMMA DoneOnce == TypeOK /\ DoneInv => DonePostedOnce
<1> SUFFICES ASSUME TypeOK, DoneInv PROVE DonePostedOnce
  OBVIOUS
<1>1. q[client] \in Seq(Messages) /\ Once(q[client], "done")
  BY DEF TypeOK, DoneInv, DoneAt
<1> DEFINE c == Cardinality({i \in 1..Len(q[client]) : q[client][i] = "done"})
<1>2. c = IF "done" \in Held(q[client]) THEN 1 ELSE 0
  BY <1>1, CountDone
<1>3. DoneCount = c + (IF delayed THEN 1 ELSE 0) + (IF looping THEN 0 ELSE 1)
  BY DEF DoneCount
<1> HIDE DEF c
<1> QED BY <1>2, <1>3 DEF DonePostedOnce, DoneInv, DoneAt

\* The inductive invariant of the control of a transfer
ControlInv == TypeOK /\ Life /\ DoneInv

\* The queues, the streams and the channels of both processes stay consistent
\* through every interleaving and every fault.
THEOREM ControlInvariant == Spec => []ControlInv
<1>1. Init => ControlInv
  <2> SUFFICES ASSUME Init PROVE DoneInv
    BY InitType, InitLife DEF ControlInv
  <2>1. DoneAt(<<>>, FALSE, TRUE, TRUE, FALSE)
    BY ShortQueues DEF DoneAt
  <2> QED BY <2>1 DEF Init, DoneInv
<1>2. ControlInv /\ [Next]_vars => ControlInv'
  BY NextType, NextLife, NextDone DEF ControlInv
<1> QED BY <1>1, <1>2, PTL DEF Spec

\* Types and capacities hold in every state.
THEOREM TypeCorrect == Spec => []TypeOK
<1>1. ControlInv => TypeOK
  BY DEF ControlInv
<1> QED BY <1>1, ControlInvariant, PTL

\* The assertions of PseudoTcpChannel::OnMessage and of its destructor hold
\* whenever a message is dispatched.
THEOREM AlwaysDispatchSafe == Spec => []DispatchSafe
<1>1. ControlInv => DispatchSafe
  BY LifeDispatch DEF ControlInv
<1> QED BY <1>1, ControlInvariant, PTL

\* MSG_DONE is posted exactly once for a file, however its transfer ends.
THEOREM AlwaysDonePostedOnce == Spec => []DonePostedOnce
<1>1. ControlInv => DonePostedOnce
  BY DoneOnce DEF ControlInv
<1> QED BY <1>1, ControlInvariant, PTL

-----------------------------------------------------------------------------
(* What a transfer does to the content of the file: nothing is lost,       *)
(* doubled or reordered between the two files, and a transfer refines the  *)
(* safety part of FileCopy, for every file and every buffer size.          *)

-----------------------------------------------------------------------------
(* Sequences.                                                              *)

\* What follows the first n elements
From(s, n) == SubSeq(s, n + 1, Len(s))

\* Concatenation is associative.
LEMMA Assoc ==
  ASSUME NEW a \in Seq(Nat), NEW b \in Seq(Nat), NEW c \in Seq(Nat)
  PROVE  (a \o b) \o c = a \o (b \o c)
<1> DEFINE x == (a \o b) \o c
           y == a \o (b \o c)
<1>1. /\ a \o b \in Seq(Nat) /\ Len(a \o b) = Len(a) + Len(b)
      /\ b \o c \in Seq(Nat) /\ Len(b \o c) = Len(b) + Len(c)
  BY Concat
<1>2. x \in Seq(Nat) /\ y \in Seq(Nat) /\ Len(x) = Len(a) + Len(b) + Len(c) /\ Len(y) = Len(x)
  BY <1>1, Concat
<1>3. \A i \in 1..Len(x) : x[i] = y[i]
  BY <1>1, <1>2
<1> HIDE DEF x, y
<1>4. x = y
  BY <1>2, <1>3, SeqEqual
<1> QED BY <1>4 DEF x, y

\* A part of a sequence, and the rest of it
LEMMA Split ==
  ASSUME NEW s \in Seq(Nat), NEW n \in 0..Len(s)
  PROVE  /\ SubSeq(s, 1, n) \in Seq(Nat) /\ From(s, n) \in Seq(Nat)
         /\ Len(SubSeq(s, 1, n)) = n /\ Len(From(s, n)) = Len(s) - n
         /\ SubSeq(s, 1, n) \o From(s, n) = s
<1>1. SubSeq(s, 1, n) \in Seq(Nat) /\ Len(SubSeq(s, 1, n)) = n
  BY Part
<1>2. From(s, n) \in Seq(Nat) /\ Len(From(s, n)) = Len(s) - n
  <2>1. n + 1 \in 1..(Len(s) + 1) /\ Len(s) \in ((n + 1) - 1)..Len(s)
    OBVIOUS
  <2> QED BY <2>1, Part DEF From
<1>3. SubSeq(s, 1, n) \o SubSeq(s, n + 1, Len(s)) = SubSeq(s, 1, Len(s))
  <2>1. 1 \in 1..(Len(s) + 1) /\ n \in (1 - 1)..Len(s) /\ Len(s) \in n..Len(s)
    OBVIOUS
  <2> QED BY <2>1, ConcatAdjacentSubSeq
<1> QED BY <1>1, <1>2, <1>3, SubSeqFull DEF From

\* Nothing follows the last element, and everything follows nothing.
LEMMA FromEnds ==
  ASSUME NEW s \in Seq(Nat)
  PROVE  From(s, 0) = s /\ From(s, Len(s)) = <<>>
<1>1. From(s, 0) = s
  BY SubSeqFull DEF From
<1>2. From(s, Len(s)) = <<>>
  BY SubSeqEmpty DEF From
<1> QED BY <1>1, <1>2

\* What follows the first m elements, in two parts
LEMMA FromSplit ==
  ASSUME NEW s \in Seq(Nat), NEW m \in 0..Len(s), NEW n \in m..Len(s)
  PROVE  SubSeq(s, m + 1, n) \o From(s, n) = From(s, m)
         /\ SubSeq(s, m + 1, n) \in Seq(Nat)
<1>1. m + 1 \in 1..(Len(s) + 1) /\ n \in ((m + 1) - 1)..Len(s) /\ Len(s) \in n..Len(s)
  OBVIOUS
<1>2. SubSeq(s, m + 1, n) \o SubSeq(s, n + 1, Len(s)) = SubSeq(s, m + 1, Len(s))
  BY <1>1, ConcatAdjacentSubSeq
<1> QED BY <1>1, <1>2, Part DEF From

\* What follows the first n elements of a sequence that has grown
LEMMA FromConcat ==
  ASSUME NEW s \in Seq(Nat), NEW t \in Seq(Nat), NEW n \in 0..Len(s)
  PROVE  From(s \o t, n) = From(s, n) \o t
<1> DEFINE a == SubSeq(s, 1, n)
           b == From(s, n)
           u == s \o t
<1>1. /\ a \in Seq(Nat) /\ b \in Seq(Nat) /\ Len(a) = n /\ Len(b) = Len(s) - n
      /\ a \o b = s
  BY Split
<1>2. u \in Seq(Nat) /\ Len(u) = Len(s) + Len(t)
      /\ \A i \in 1..(Len(s) + Len(t)) : u[i] = IF i <= Len(s) THEN s[i] ELSE t[i - Len(s)]
  BY ConcatProperties
<1>3. n \in 0..Len(u)
  BY <1>2
<1>4. /\ SubSeq(u, 1, n) \in Seq(Nat) /\ From(u, n) \in Seq(Nat)
      /\ SubSeq(u, 1, n) \o From(u, n) = u
  BY <1>2, <1>3, Split
<1>5. SubSeq(u, 1, n) = a
  <2>1. \A i \in 1..n : u[i] = s[i]
    BY <1>2
  <2>2. Len(SubSeq(u, 1, n)) = n
    BY <1>2, <1>3, Split
  <2>3. \A i \in 1..n : SubSeq(u, 1, n)[i] = u[i] /\ a[i] = s[i]
    <3>1. \A i \in 1..n : u[i] \in Nat /\ s[i] \in Nat
      BY <2>1, ElementOfSeq
    <3>2. /\ \A i \in 1..(n - 1 + 1) : SubSeq(u, 1, n)[i] = u[1 + i - 1]
          /\ \A i \in 1..(n - 1 + 1) : SubSeq(s, 1, n)[i] = s[1 + i - 1]
      BY <3>1, SubSeqProperties
    <3> QED BY <3>2
  <2> QED BY <1>1, <1>4, <2>1, <2>2, <2>3, SeqEqual
<1>6. a \o From(u, n) = a \o (b \o t)
  <2>1. u = (a \o b) \o t
    BY <1>1
  <2>2. (a \o b) \o t = a \o (b \o t)
    <3> HIDE DEF a, b
    <3> QED BY ZenonT(60), <1>1, Assoc
  <2> QED BY <1>4, <1>5, <2>1, <2>2
<1>7. b \o t \in Seq(Nat)
  BY <1>1, Concat
<1> HIDE DEF a, b, u
<1>8. From(u, n) = b \o t
  BY <1>1, <1>4, <1>6, <1>7, ConcatSimplifications
<1> QED BY <1>8 DEF b, u

\* A prefix, element by element
LEMMA PrefixIff ==
  ASSUME NEW s \in Seq(Nat), NEW t \in Seq(Nat)
  PROVE  IsPrefix(s, t) <=> Len(s) <= Len(t) /\ \A i \in 1..Len(s) : s[i] = t[i]
<1> SUFFICES ASSUME Len(s) <= Len(t)
             PROVE  SubSeq(s, 1, Len(s)) = SubSeq(t, 1, Len(s))
                    <=> \A i \in 1..Len(s) : s[i] = t[i]
  BY DEF IsPrefix
<1>1. SubSeq(s, 1, Len(s)) = s
  BY SubSeqFull
<1> DEFINE u == SubSeq(t, 1, Len(s))
<1>2. u \in Seq(Nat) /\ Len(u) = Len(s)
  BY Split
<1>3. \A i \in 1..Len(s) : u[i] = t[i]
  <2>1. \A i \in 1..Len(s) : t[i] \in Nat
    BY ElementOfSeq
  <2>2. \A i \in 1..(Len(s) - 1 + 1) : u[i] = t[1 + i - 1]
    BY <2>1, SubSeqProperties
  <2> QED BY <2>2
<1> HIDE DEF u
<1>4. s = u <=> \A i \in 1..Len(s) : s[i] = t[i]
  BY <1>2, <1>3, SeqEqual
<1> QED BY <1>1, <1>4 DEF u

\* A sequence is a prefix of what it begins, and prefixes compose.
LEMMA PrefixFacts ==
  ASSUME NEW s \in Seq(Nat), NEW t \in Seq(Nat)
  PROVE  /\ IsPrefix(s, s) /\ IsPrefix(<<>>, s) /\ IsPrefix(s, s \o t)
         /\ \A u \in Seq(Nat) : IsPrefix(s, t) /\ IsPrefix(t, u) => IsPrefix(s, u)
         /\ \A u \in Seq(Nat) : IsPrefix(s \o t, u) => IsPrefix(s, u)
<1>1. IsPrefix(s, s)
  BY DEF IsPrefix
<1>2. IsPrefix(<<>>, s)
  <2> DEFINE z == <<>>
  <2>1. z \in Seq(Nat) /\ Len(z) = 0
    OBVIOUS
  <2> HIDE DEF z
  <2>2. Len(z) <= Len(s) /\ \A i \in 1..Len(z) : z[i] = s[i]
    BY <2>1
  <2>3. IsPrefix(z, s)
    BY <2>1, <2>2, PrefixIff
  <2> QED BY <2>3 DEF z
<1>3. IsPrefix(s, s \o t) /\ s \o t \in Seq(Nat)
  <2> DEFINE w == s \o t
  <2>1. w \in Seq(Nat) /\ Len(w) = Len(s) + Len(t) /\ \A i \in 1..Len(s) : w[i] = s[i]
    BY ConcatProperties
  <2> HIDE DEF w
  <2>2. IsPrefix(s, w)
    BY SMTT(30), <2>1, PrefixIff
  <2> QED BY <2>1, <2>2 DEF w
<1>4. ASSUME NEW a \in Seq(Nat), NEW b \in Seq(Nat), NEW c \in Seq(Nat),
             IsPrefix(a, b), IsPrefix(b, c)
      PROVE  IsPrefix(a, c)
  <2>1. /\ Len(a) <= Len(b) /\ \A i \in 1..Len(a) : a[i] = b[i]
        /\ Len(b) <= Len(c) /\ \A i \in 1..Len(b) : b[i] = c[i]
    BY <1>4, PrefixIff
  <2>2. Len(a) \in Nat /\ Len(b) \in Nat /\ Len(c) \in Nat
    OBVIOUS
  <2>3. Len(a) <= Len(c)
    BY <2>1, <2>2
  <2>4. ASSUME NEW i \in 1..Len(a) PROVE a[i] = c[i]
    <3>1. i \in 1..Len(b)
      BY <2>1, <2>2
    <3> QED BY <2>1, <3>1
  <2> QED BY <2>3, <2>4, PrefixIff
<1> QED BY <1>1, <1>2, <1>3, <1>4

\* The beginning of a sequence is a prefix of it.
LEMMA PrefixOfPart ==
  ASSUME NEW s \in Seq(Nat), NEW n \in 0..Len(s)
  PROVE  IsPrefix(SubSeq(s, 1, n), s)
<1> DEFINE a == SubSeq(s, 1, n)
           b == From(s, n)
<1>1. a \in Seq(Nat) /\ b \in Seq(Nat) /\ a \o b = s
  BY Split
<1> HIDE DEF a, b
<1>2. IsPrefix(a, a \o b)
  BY <1>1, PrefixFacts
<1> QED BY <1>1, <1>2 DEF a

-----------------------------------------------------------------------------
(* Where the units of the file are.                                        *)

Received  == out \o buffer["rcv"] \o rbuf      \* has reached the receiver
InFlight  == From(sbuf, sent)                  \* has not, is in m_sbuf
Unwritten == From(buffer["snd"], pos)          \* the rest of the sender's buffer_

\* No connection has been lost or given up; PseudoTcp may still be opening.
Joined == /\ tcp["snd"] \in {"opening", "established"}
          /\ tcp["rcv"] \in {"opening", "established"} /\ ~shut["rcv"]

InOrder == Received \o InFlight \o Unwritten = SubSeq(Source, 1, fpos)

\* NothingLost, and what makes it inductive: OnStreamEvent starts with an
\* empty write_pos or buffer_, and what has reached the receiver is a prefix of
\* the file as long as the pump holds its stream, whatever became of the
\* sender.
DataInv ==
  /\ pos <= Len(buffer["snd"])
  /\ pc["snd"] = "idle" /\ stream["snd"] => pos = 0
  /\ pc["rcv"] = "idle" /\ stream["rcv"] => buffer["rcv"] = <<>>
  /\ pc["rcv"] = "read" => Len(buffer["rcv"]) < BufLen
  /\ Joined => InOrder
  /\ IsPrefix(out, Source)
  /\ stream["rcv"] => IsPrefix(Received, Source)

\* The pieces are sequences.
LEMMA Pieces ==
  ASSUME TypeOK, DataInv
  PROVE  /\ out \in Seq(Nat) /\ buffer["rcv"] \in Seq(Nat) /\ buffer["snd"] \in Seq(Nat)
         /\ rbuf \in Seq(Nat) /\ sbuf \in Seq(Nat) /\ Source \in Seq(Nat)
         /\ out \o buffer["rcv"] \in Seq(Nat)
         /\ Received \in Seq(Nat) /\ InFlight \in Seq(Nat) /\ Unwritten \in Seq(Nat)
         /\ Received \o InFlight \in Seq(Nat)
<1>1. /\ out \in Seq(Nat) /\ buffer["rcv"] \in Seq(Nat) /\ buffer["snd"] \in Seq(Nat)
      /\ rbuf \in Seq(Nat) /\ sbuf \in Seq(Nat) /\ Source \in Seq(Nat)
      /\ sent \in 0..Len(sbuf) /\ pos \in Nat /\ pos <= Len(buffer["snd"])
  BY ConstantsAssumption DEF TypeOK, DataInv, Ends
<1>2. out \o buffer["rcv"] \in Seq(Nat)
  BY <1>1, Concat
<1>3. Received \in Seq(Nat)
  BY <1>1, <1>2, Concat DEF Received
<1>4. InFlight \in Seq(Nat)
  BY <1>1, Split DEF InFlight
<1>5. Unwritten \in Seq(Nat)
  <2>1. pos \in 0..Len(buffer["snd"])
    BY <1>1
  <2> QED BY <1>1, <2>1, Split DEF Unwritten
<1>6. Received \o InFlight \in Seq(Nat)
  BY <1>3, <1>4, Concat
<1> QED BY <1>1, <1>2, <1>3, <1>4, <1>5, <1>6

\* A step of the channel or the session: it writes none of the file's data. What
\* it may do is give up the stream, end the connection, or drop m_rbuf.
Settles ==
  /\ \A e \in Ends : stream'[e] => stream[e] /\ (pc'[e] = "idle" => pc[e] = "idle")
  /\ pc'["rcv"] = "read" => pc["rcv"] = "read"
  /\ Joined' => Joined /\ UNCHANGED <<sbuf, sent, rbuf>>
  /\ rbuf' = rbuf \/ rbuf' = <<>>
Quiet == UNCHANGED <<fpos, out, buffer, pos>> /\ Settles

\* Such a step keeps the data in order.
LEMMA QuietData ==
  ASSUME TypeOK, DataInv, Quiet
  PROVE  DataInv'
<1>1. UNCHANGED <<fpos, out, buffer, pos>>
  BY DEF Quiet, Settles
<1>2. pos' <= Len(buffer'["snd"]) /\ IsPrefix(out', Source)
  BY <1>1 DEF DataInv
<1>3. /\ pc'["snd"] = "idle" /\ stream'["snd"] => pos' = 0
      /\ pc'["rcv"] = "idle" /\ stream'["rcv"] => buffer'["rcv"] = <<>>
      /\ pc'["rcv"] = "read" => Len(buffer'["rcv"]) < BufLen
  BY <1>1 DEF DataInv, Quiet, Settles, Ends
<1>4. Joined' => InOrder'
  <2> SUFFICES ASSUME Joined' PROVE InOrder'
    OBVIOUS
  <2>1. Joined /\ InOrder /\ UNCHANGED <<sbuf, sent, rbuf>>
    BY DEF Quiet, Settles, DataInv
  <2> QED BY <1>1, <2>1 DEF InOrder, Received, InFlight, Unwritten
<1>5. stream'["rcv"] => IsPrefix(Received', Source)
  <2> SUFFICES ASSUME stream'["rcv"] PROVE IsPrefix(Received', Source)
    OBVIOUS
  <2>1. IsPrefix(Received, Source)
    BY DEF Quiet, Settles, DataInv, Ends
  <2>2. CASE rbuf' = rbuf
    BY <1>1, <2>1, <2>2 DEF Received
  <2>3. CASE rbuf' = <<>>
    <3> DEFINE a == out \o buffer["rcv"]
    <3>1. a \in Seq(Nat) /\ rbuf \in Seq(Nat) /\ Source \in Seq(Nat)
      BY Pieces
    <3>2. Received' = a \o <<>> /\ Received = a \o rbuf
      BY <1>1, <2>3 DEF Received
    <3> HIDE DEF a
    <3>3. Received' = a
      BY <3>1, <3>2, ConcatEmptySeq
    <3> QED BY <2>1, <3>1, <3>2, <3>3, PrefixFacts
  <2> QED BY <2>2, <2>3 DEF Quiet, Settles
<1> QED BY <1>2, <1>3, <1>4, <1>5 DEF DataInv

\* What DeleteTcp ends
LEMMA DeleteTcpEnds ==
  ASSUME TypeOK, NEW e \in Ends, DeleteTcp(e)
  PROVE  ~Joined' /\ (rbuf' = rbuf \/ rbuf' = <<>>)
<1>1. tcp'[e] = "gone"
  BY DEF DeleteTcp, Set, TypeOK
<1> QED BY <1>1 DEF DeleteTcp, Joined, Ends

\* Cleanup writes no data; the receiver's ends the connection.
LEMMA CleanupSettles ==
  ASSUME TypeOK, NEW e \in Ends, NEW delay \in BOOLEAN, NEW q0 \in Seq(Messages),
         Cleanup(e, delay, q0)
  PROVE  /\ Settles
         /\ e = "snd" => rbuf' = rbuf
         /\ e = "rcv" => ~Joined'
<1>1. /\ \A d \in Ends : stream'[d] => stream[d] /\ (pc'[d] = "idle" => pc[d] = "idle")
      /\ pc'["rcv"] = "read" => pc["rcv"] = "read"
  BY DEF Cleanup, Set, TypeOK, Ends
<1>2. CASE UNCHANGED <<tcp, sbuf, sent, rbuf>>
  <2>1. Joined' => Joined /\ e # "rcv"
    BY <1>2 DEF Joined, Cleanup, Set, TypeOK, Ends
  <2> QED BY <1>1, <1>2, <2>1 DEF Settles
<1>3. CASE DeleteTcp(e)
  BY <1>1, <1>3, DeleteTcpEnds DEF Settles, DeleteTcp, Ends
<1> QED BY <1>2, <1>3 DEF Cleanup

\* OnChannelDestroyed writes no data.
LEMMA DestroyedQuiet ==
  ASSUME TypeOK, NEW e \in Ends, NEW q0, NEW a, OnChannelDestroyed(e, q0, a),
         UNCHANGED <<fpos, out, buffer, pos, stream, pc>>
  PROVE  Quiet
BY DeleteTcpEnds DEF OnChannelDestroyed, Quiet, Settles

\* The steps of the network, the channel, the session and Loop that write no
\* data
LEMMA ControlQuiet ==
  ASSUME TypeOK,
         \/ \E e \in Ends : \/ TcpOpen(e) \/ Closedown(e) \/ DestroyChannel(e) \/ RunTasks(e)
                          \/ RecvTerminate(e) \/ SessionTimeout(e) \/ SessionError(e)
                          \/ SessionState(e) \/ Purge(e) \/ Destroy(e)
         \/ ClockStep \/ DelayFires \/ LoopReturns \/ UNCHANGED vars
  PROVE  Quiet
<1>1. ASSUME NEW e \in Ends, TcpOpen(e) PROVE Quiet
  <2>1. tcp[e] = "opening" /\ tcp' = [tcp EXCEPT ![e] = "established"]
    BY <1>1 DEF TcpOpen, Set
  <2>2. Joined' => Joined
    BY <1>1, <2>1 DEF TcpOpen, Joined, TypeOK, Ends
  <2> QED BY <1>1, <2>2 DEF TcpOpen, pumpVars, Quiet, Settles
<1>2. ASSUME NEW e \in Ends, Closedown(e) PROVE Quiet
  <2>1. UNCHANGED <<fpos, out, buffer, pos, stream, pc>>
    BY <1>2 DEF Closedown, pumpVars, chanVars
  <2>2. CASE DeleteTcp(e)
    BY <2>1, <2>2, DeleteTcpEnds DEF Quiet, Settles
  <2>3. CASE tcp' = Set(tcp, e, "closed") /\ UNCHANGED <<sbuf, sent, rbuf>>
    <3>1. ~Joined'
      BY <2>3 DEF Joined, Set, TypeOK, Ends
    <3> QED BY <2>1, <2>3, <3>1 DEF Quiet, Settles
  <2> QED BY <1>2, <2>2, <2>3 DEF Closedown
<1>3. ASSUME NEW e \in Ends, DestroyChannel(e) PROVE Quiet
  BY <1>3, DestroyedQuiet DEF DestroyChannel, pumpVars
<1>4. ASSUME NEW e \in Ends,
             \/ RunTasks(e) \/ RecvTerminate(e) \/ SessionTimeout(e) \/ SessionError(e)
             \/ Purge(e) \/ Destroy(e)
      PROVE  Quiet
  <2>1. UNCHANGED <<fpos, out, buffer, pos, stream, pc, tcp, shut, sbuf, sent, rbuf>>
    BY <1>4 DEF RunTasks, RecvTerminate, SessionTimeout, SessionError, Purge, Destroy,
       pumpVars, chanVars, tcpVars
  <2> QED BY <2>1 DEF Quiet, Settles, Joined
<1>5. ASSUME NEW e \in Ends, SessionState(e) PROVE Quiet
  <2>1. UNCHANGED <<fpos, out, buffer, pos, stream, pc>>
    BY <1>5 DEF SessionState, pumpVars
  <2>2. CASE chan[e]
    BY <1>5, <2>1, <2>2, DestroyedQuiet DEF SessionState
  <2>3. CASE ~chan[e]
    BY <1>5, <2>1, <2>3 DEF SessionState, Quiet, Settles, Joined
  <2> QED BY <2>2, <2>3
<1>6. CASE ClockStep
  <2>1. UNCHANGED <<fpos, out, buffer, pos, stream, pc>> /\ DeleteTcp("rcv")
    BY <1>6 DEF ClockStep, pumpVars, chanVars
  <2> QED BY <2>1, DeleteTcpEnds DEF Quiet, Settles, Ends
<1>7. CASE DelayFires \/ LoopReturns
  <2>1. UNCHANGED <<fpos, out, buffer, pos, stream, pc, tcp, shut, sbuf, sent, rbuf>>
    BY <1>7 DEF DelayFires, LoopReturns, pumpVars, chanVars, tcpVars
  <2> QED BY <2>1 DEF Quiet, Settles, Joined
<1>8. CASE UNCHANGED vars
  BY <1>8 DEF vars, Quiet, Settles, Joined
<1> QED BY <1>1, <1>2, <1>3, <1>4, <1>5, <1>6, <1>7, <1>8

\* OnStreamEvent is entered.
LEMMA StreamEventData ==
  ASSUME TypeOK, Life, DataInv, NEW e \in Ends, NEW m \in StreamEvents, StreamEvent(e, m)
  PROVE  DataInv'
<1>1. q[e] \in Seq(Messages) /\ q[e] # <<>> /\ Head(q[e]) = m /\ pc[e] = "idle"
      /\ Tail(q[e]) \in Seq(Messages)
  BY Rest DEF StreamEvent, Next_, Idle
<1>2. stream[e]
  BY <1>1, HeadHeld DEF Life, LifeOK, LifeAt
<1>3. UNCHANGED <<fpos, out>>
  BY DEF StreamEvent
<1>4. CASE m \in {"close", "error"}
  BY <1>1, <1>3, <1>4, CleanupSettles, QuietData DEF StreamEvent, Quiet
<1>5. CASE m \notin {"close", "error"}
  <2>1. UNCHANGED <<fpos, out, stream, tcp, shut, sbuf, sent, rbuf>>
    BY <1>5 DEF StreamEvent
  <2>2. CASE e = "snd" /\ m \in {"open", "write"}
    <3>1. pos = 0
      BY <1>1, <1>2, <2>2 DEF DataInv
    <3>2. pc' = [pc EXCEPT !["snd"] = "write"] /\ pos' = 0 /\ buffer' = buffer
      BY <1>5, <2>2 DEF StreamEvent, Set
    <3>3. Quiet
      BY <2>1, <3>1, <3>2 DEF Quiet, Settles, Joined, TypeOK, Ends
    <3> QED BY <3>3, QuietData
  <2>3. CASE e = "rcv" /\ m \in {"open", "read"}
    <3>1. buffer["rcv"] = <<>>
      BY <1>1, <1>2, <2>3 DEF DataInv
    <3>2. pc' = [pc EXCEPT !["rcv"] = "read"] /\ buffer' = [buffer EXCEPT !["rcv"] = <<>>]
          /\ pos' = pos
      BY <1>5, <2>3 DEF StreamEvent, Set
    <3>3. buffer' = buffer
      BY <3>1, <3>2 DEF TypeOK, Ends
    <3>4. pc'["rcv"] = "read" /\ pc'["snd"] = pc["snd"]
      BY <3>2 DEF TypeOK, Ends
    <3>5. Len(buffer'["rcv"]) < BufLen
      BY <3>1, <3>3, ConstantsAssumption
    <3>6. Joined' <=> Joined
      BY <2>1 DEF Joined
    <3>7. InOrder' <=> InOrder
      BY <2>1, <3>2, <3>3 DEF InOrder, Received, InFlight, Unwritten
    <3>8. Received' = Received
      BY <2>1, <3>3 DEF Received
    <3> QED BY <2>1, <3>2, <3>3, <3>4, <3>5, <3>6, <3>7, <3>8 DEF DataInv
  <2>4. CASE ~(e = "snd" /\ m \in {"open", "write"}) /\ ~(e = "rcv" /\ m \in {"open", "read"})
    <3>1. UNCHANGED <<pc, pos, buffer>>
      BY <1>5, <2>4 DEF StreamEvent
    <3>2. Quiet
      BY <2>1, <3>1 DEF Quiet, Settles, Joined
    <3> QED BY <3>2, QuietData
  <2> QED BY <2>2, <2>3, <2>4
<1> QED BY <1>4, <1>5

\* A segment moves a unit from the front of InFlight to the end of Received.
LEMMA DeliverData ==
  ASSUME TypeOK, DataInv, Deliver
  PROVE  DataInv'
<1>0. /\ sbuf \in Seq(Nat) /\ rbuf \in Seq(Nat) /\ sent \in 0..Len(sbuf) /\ sent < Len(sbuf)
      /\ sent + 1 \in 0..Len(sbuf) /\ sbuf[sent + 1] \in Nat
  BY SMTT(30), ElementOfSeq DEF TypeOK, Deliver
<1>1. UNCHANGED <<fpos, out, buffer, pos, pc, stream, tcp, shut, sbuf>> /\ sent' = sent + 1
  BY DEF Deliver, pumpVars
<1>2. CASE shut["rcv"]
  <2>1. rbuf' = rbuf
    BY <1>2 DEF Deliver
  <2>2. Quiet
    BY <1>1, <1>2, <2>1 DEF Quiet, Settles, Joined
  <2> QED BY <2>2, QuietData
<1>3. CASE ~shut["rcv"]
  <2> DEFINE x == sbuf[sent + 1]
             a == out \o buffer["rcv"]
             u == <<x>>
  <2>1. rbuf' = rbuf \o u
    BY <1>0, <1>3, AppendIsConcat DEF Deliver
  <2>2. Joined
    BY <1>3 DEF Joined, Deliver
  <2>3. u \in Seq(Nat) /\ a \in Seq(Nat) /\ InFlight \in Seq(Nat) /\ Received \in Seq(Nat)
        /\ rbuf \in Seq(Nat) /\ Received = a \o rbuf /\ Unwritten \in Seq(Nat)
    BY <1>0, Pieces DEF Received
  <2>4. InFlight = u \o InFlight'
    <3>1. sent + 1 \in 1..Len(sbuf) /\ Len(sbuf) \in (sent + 1)..Len(sbuf)
      BY <1>0
    <3>2. SubSeq(sbuf, sent + 1, Len(sbuf))
            = <<sbuf[sent + 1]>> \o SubSeq(sbuf, (sent + 1) + 1, Len(sbuf))
      BY <1>0, <3>1, SubSeqRecursiveFirst
    <3> QED BY <1>1, <3>2 DEF InFlight, From
  <2>5. InFlight' \in Seq(Nat)
    BY <1>0, <1>1, Split DEF InFlight
  <2>6. Received' = a \o (rbuf \o u)
    BY <1>1, <2>1 DEF Received
  <2>7. UNCHANGED Unwritten
    BY <1>1 DEF Unwritten
  <2> HIDE DEF x, a, u
  <2>8. Received' = Received \o u
    <3>1. (a \o rbuf) \o u = a \o (rbuf \o u)
      <4>1. a \in Seq(Nat) /\ rbuf \in Seq(Nat) /\ u \in Seq(Nat)
        BY <2>3
      <4> QED BY <4>1, Assoc
    <3> QED BY <2>3, <2>6, <3>1, Zenon
  <2>9. Received' \o InFlight' = Received \o InFlight
    <3>1. (Received \o u) \o InFlight' = Received \o (u \o InFlight')
      <4>1. Received \in Seq(Nat) /\ u \in Seq(Nat) /\ InFlight' \in Seq(Nat)
        BY <2>3, <2>5
      <4> QED BY <4>1, Assoc
    <3> QED BY <2>4, <2>8, <3>1, Zenon
  <2>10. InOrder'
    BY <1>1, <2>2, <2>7, <2>9 DEF DataInv, InOrder
  <2>11. IsPrefix(Received', Source)
    <3> DEFINE w == InFlight' \o Unwritten
               v == SubSeq(Source, 1, fpos)
    <3>1. Received' \in Seq(Nat) /\ w \in Seq(Nat) /\ v \in Seq(Nat) /\ Source \in Seq(Nat)
      BY <2>3, <2>5, <2>8, Concat, Pieces, Split DEF TypeOK
    <3>2. Received' \o w = (Received' \o InFlight') \o Unwritten
      <4>1. Received' \in Seq(Nat) /\ InFlight' \in Seq(Nat) /\ Unwritten \in Seq(Nat)
        BY <2>3, <2>5, <3>1
      <4> QED BY <4>1, Assoc
    <3>3. Received' \o w = v
      BY <2>2, <2>9, <3>2 DEF DataInv, InOrder
    <3>4. IsPrefix(v, Source)
      BY PrefixOfPart, Pieces DEF TypeOK
    <3> HIDE DEF w, v
    <3> QED BY <3>1, <3>3, <3>4, PrefixFacts
  <2>12. Joined'
    BY <1>1, <2>2 DEF Joined
  <2> QED BY <1>1, <2>10, <2>11, <2>12 DEF DataInv
<1> QED BY <1>2, <1>3

\* An acknowledgement drops what has been delivered from m_sbuf.
LEMMA AckData ==
  ASSUME TypeOK, DataInv, Ack
  PROVE  DataInv'
<1>0. sbuf \in Seq(Nat) /\ sent \in 0..Len(sbuf)
  BY DEF TypeOK
<1>1. UNCHANGED <<fpos, out, buffer, pos, pc, stream, shut, rbuf>> /\ sent' = 0
      /\ sbuf' = InFlight
  BY DEF Ack, pumpVars, chanVars, InFlight, From
<1>2. InFlight' = InFlight
  BY <1>0, <1>1, Split, FromEnds DEF InFlight
<1>3. Joined' => Joined
  BY <1>1 DEF Joined, Ack, Set, TypeOK, Ends
<1>4. Received' = Received /\ Unwritten' = Unwritten
  BY <1>1 DEF Received, Unwritten
<1>5. InOrder' <=> InOrder
  BY <1>1, <1>2, <1>4 DEF InOrder
<1> QED BY <1>1, <1>3, <1>4, <1>5 DEF DataInv

\* stream->Write moves units from the front of Unwritten to the end of
\* InFlight; after SR_BLOCK the rest is moved to the front of buffer_.
LEMMA WriteData ==
  ASSUME TypeOK, DataInv, WriteStep
  PROVE  DataInv'
<1> DEFINE b == buffer["snd"]
           n == Accepted(Len(b) - pos)
<1>0. /\ b \in Seq(Nat) /\ pos \in Nat /\ pos < Len(b) /\ pos \in 0..Len(b)
      /\ sbuf \in Seq(Nat) /\ sent \in 0..Len(sbuf) /\ Len(sbuf) \in Nat
  BY DEF TypeOK, WriteStep, Ends
<1>1. UNCHANGED <<fpos, out>> /\ pc["snd"] = "write"
  BY DEF WriteStep
<1>2. /\ Received \in Seq(Nat) /\ InFlight \in Seq(Nat) /\ Unwritten \in Seq(Nat)
  BY Pieces
<1>3. ASSUME tcp["snd"] = "established", n > 0,
             sbuf' = sbuf \o SubSeq(b, pos + 1, pos + n), pos' = pos + n,
             UNCHANGED <<pc, buffer, stream, tcp, shut, sent, rbuf>>
      PROVE  DataInv'
  <2>1. n \in Nat /\ n <= Len(b) - pos
    <3>1. Len(b) - pos \in Int /\ SendCap - Len(sbuf) \in Int
      BY <1>0, ConstantsAssumption
    <3>2. Len(b) - pos \in Nat /\ SendCap - Len(sbuf) \in Nat
      BY <1>0, <3>1, ConstantsAssumption DEF TypeOK
    <3> QED BY <3>1, <3>2, MinOfTwo DEF Accepted
  <2> DEFINE c == SubSeq(b, pos + 1, pos + n)
             k == pos + n
  <2> HIDE DEF n
  <2>2. k \in pos..Len(b) /\ k \in 0..Len(b) /\ pos' = k
    BY <1>0, <1>3, <2>1
  <2>3. c \in Seq(Nat) /\ From(b, k) \in Seq(Nat) /\ c \o From(b, k) = From(b, pos)
    BY <1>0, <2>1, <2>2, FromSplit, Split
  <2>4. InFlight' = InFlight \o c
    BY <1>0, <1>3, <2>3, FromConcat DEF InFlight
  <2>5. Unwritten' = From(b, k) /\ Unwritten = c \o From(b, k)
    BY <1>3, <2>2, <2>3 DEF Unwritten
  <2>6. Received' = Received
    BY <1>1, <1>3 DEF Received
  <2> DEFINE u == From(b, k)
  <2>7. u \in Seq(Nat) /\ c \in Seq(Nat)
    BY <2>3
  <2>8. Unwritten' = u /\ Unwritten = c \o u
    BY <2>5
  <2> HIDE DEF c, u
  <2>9. (Received \o InFlight) \o (c \o u) = (Received \o (InFlight \o c)) \o u
    <3>1. /\ Received \in Seq(Nat) /\ InFlight \in Seq(Nat) /\ c \in Seq(Nat)
          /\ u \in Seq(Nat)
      BY <1>2, <2>7
    <3> DEFINE x == Received \o InFlight
    <3>2. x \in Seq(Nat)
      BY <3>1, Concat
    <3>3. x \o c = Received \o (InFlight \o c)
      BY <3>1, Assoc
    <3> HIDE DEF x
    <3>4. (x \o c) \o u = x \o (c \o u)
      BY <3>1, <3>2, Assoc
    <3> QED BY <3>3, <3>4 DEF x
  <2>10. InOrder <=> InOrder'
    BY <1>1, <2>4, <2>6, <2>8, <2>9 DEF InOrder
  <2>11. Joined <=> Joined'
    BY <1>3 DEF Joined
  <2>12. pos' <= Len(buffer'["snd"]) /\ pc'["snd"] # "idle"
    BY <1>1, <1>3, <2>2
  <2> QED BY <1>1, <1>3, <2>6, <2>10, <2>11, <2>12 DEF DataInv
<1>4. ASSUME buffer' = Set(buffer, "snd", Remainder(b, pos)), pos' = 0,
             pc' = Set(pc, "snd", "idle"), UNCHANGED <<stream, tcp, shut, sbuf, sent, rbuf>>
      PROVE  DataInv'
  <2>1. buffer'["snd"] = Unwritten /\ buffer'["rcv"] = buffer["rcv"] /\ pc'["rcv"] = pc["rcv"]
    BY <1>4 DEF Set, TypeOK, Ends, Remainder, Unwritten, From
  <2>2. Unwritten' = Unwritten
    BY <1>2, <1>4, <2>1, FromEnds DEF Unwritten
  <2>3. Received' = Received /\ InFlight' = InFlight
    BY <1>1, <1>4, <2>1 DEF Received, InFlight
  <2>4. InOrder <=> InOrder'
    BY <1>1, <2>2, <2>3 DEF InOrder
  <2>5. Joined <=> Joined'
    BY <1>4 DEF Joined
  <2>6. pos' <= Len(buffer'["snd"])
    BY <1>2, <1>4, <2>1
  <2> QED BY <1>1, <1>4, <2>1, <2>3, <2>4, <2>5, <2>6 DEF DataInv
<1>5. ASSUME Cleanup("snd", FALSE, q["snd"]), UNCHANGED <<pos, buffer>>
      PROVE  DataInv'
  <2>1. "snd" \in Ends /\ q["snd"] \in Seq(Messages)
    BY DEF TypeOK, Ends
  <2>2. Settles
    BY <1>5, <2>1, CleanupSettles
  <2> QED BY <1>1, <1>5, <2>2, QuietData DEF Quiet
<1> QED BY <1>3, <1>4, <1>5 DEF WriteStep

\* file_->Read refills the sender's buffer_ with the next units of the file.
LEMMA FillData ==
  ASSUME TypeOK, DataInv, FillStep
  PROVE  DataInv'
<1> DEFINE n == Min({BufLen, Len(Source) - fpos})
           c == SubSeq(Source, fpos + 1, fpos + n)
<1>0. /\ Source \in Seq(Nat) /\ fpos \in 0..Len(Source) /\ buffer["snd"] \in Seq(Nat)
      /\ BufLen \in Nat
  BY ConstantsAssumption DEF TypeOK, Ends
<1>1. /\ buffer' = Set(buffer, "snd", c) /\ fpos' = fpos + n /\ pos' = 0
      /\ pc["snd"] = "write" /\ pos = Len(buffer["snd"]) /\ out' = out
  BY DEF FillStep
<1>2. n \in Nat /\ n <= Len(Source) - fpos
  <2>1. Len(Source) - fpos \in Nat
    BY <1>0
  <2>2. BufLen \in Int /\ Len(Source) - fpos \in Int
    BY <1>0, <2>1
  <2> QED BY <1>0, <2>1, <2>2, MinOfTwo
<1>3. Settles /\ rbuf' = rbuf /\ (stream'["snd"] => pc'["snd"] = "write")
  <2>1. CASE n > 0
    <3>1. UNCHANGED <<pc, stream, tcp, shut, sbuf, sent, rbuf>>
      BY <2>1 DEF FillStep
    <3> QED BY <1>1, <3>1 DEF Settles, Joined
  <2>2. CASE ~(n > 0)
    <3>1. Cleanup("snd", TRUE, q["snd"])
      BY <2>2 DEF FillStep
    <3>2. "snd" \in Ends /\ q["snd"] \in Seq(Messages)
      BY DEF TypeOK, Ends
    <3>3. ~stream'["snd"]
      BY <3>1 DEF Cleanup, Set, TypeOK, Ends
    <3> QED BY <3>1, <3>2, <3>3, CleanupSettles
  <2> QED BY <2>1, <2>2
<1> HIDE DEF n
<1>4. c \in Seq(Nat) /\ SubSeq(Source, 1, fpos) \o c = SubSeq(Source, 1, fpos')
  <2>1. fpos + n \in fpos..Len(Source) /\ fpos \in (1 - 1)..Len(Source) /\ 1 \in 1..(Len(Source) + 1)
    BY <1>0, <1>2
  <2>2. SubSeq(Source, 1, fpos) \o SubSeq(Source, fpos + 1, fpos + n) = SubSeq(Source, 1, fpos + n)
    BY <1>0, <2>1, ConcatAdjacentSubSeq
  <2> QED BY <1>0, <1>1, <2>1, <2>2, FromSplit
<1>5. buffer'["snd"] = c /\ buffer'["rcv"] = buffer["rcv"]
  <2> HIDE DEF c
  <2> QED BY <1>1 DEF Set, TypeOK, Ends
<1>6. Unwritten = <<>>
  BY <1>0, <1>1, FromEnds DEF Unwritten
<1> HIDE DEF c
<1>7. Unwritten' = c
  BY <1>1, <1>4, <1>5, FromEnds DEF Unwritten
<1>8. Received' = Received
  BY <1>1, <1>3, <1>5 DEF Received
<1>9. Joined' => InOrder'
  <2> SUFFICES ASSUME Joined' PROVE InOrder'
    OBVIOUS
  <2>1. Joined /\ InOrder /\ InFlight' = InFlight
    BY <1>3 DEF Settles, DataInv, InFlight
  <2>2. Received \o InFlight \in Seq(Nat)
    BY Pieces
  <2>3. Received \o InFlight = SubSeq(Source, 1, fpos)
    BY <1>6, <2>1, <2>2, ConcatEmptySeq DEF InOrder
  <2> QED BY <1>4, <1>7, <1>8, <2>1, <2>3 DEF InOrder
<1>10. pos' <= Len(buffer'["snd"])
  BY <1>1, <1>4, <1>5
<1> QED BY <1>1, <1>3, <1>5, <1>8, <1>9, <1>10 DEF DataInv, Settles, Ends

\* A failing file_->Read writes no data.
LEMMA ReadErrorData ==
  ASSUME TypeOK, DataInv, ReadError
  PROVE  DataInv'
<1>1. "snd" \in Ends /\ q["snd"] \in Seq(Messages)
  BY DEF TypeOK, Ends
<1>2. Settles
  BY <1>1, CleanupSettles DEF ReadError
<1> QED BY <1>2, QuietData DEF ReadError, Quiet

\* stream->Read moves units from the front of m_rbuf to the end of buffer_.
LEMMA ReadData ==
  ASSUME TypeOK, DataInv, ReadStep
  PROVE  DataInv' /\ (stream'["rcv"] => Received' = Received)
<1> DEFINE b == buffer["rcv"]
           n == Min({BufLen - Len(b), Len(rbuf)})
<1>0. /\ b \in Seq(Nat) /\ rbuf \in Seq(Nat) /\ Len(b) <= BufLen /\ BufLen \in Nat
      /\ out \in Seq(Nat)
  BY ConstantsAssumption DEF TypeOK, Ends
<1>1. UNCHANGED <<fpos, out, pos>> /\ pc["rcv"] = "read"
  BY DEF ReadStep
<1>2. ASSUME n > 0, buffer' = Set(buffer, "rcv", b \o SubSeq(rbuf, 1, n)),
             rbuf' = SubSeq(rbuf, n + 1, Len(rbuf)),
             pc' = Set(pc, "rcv", IF Len(b) + n = BufLen THEN "store" ELSE "read"),
             UNCHANGED <<stream, tcp, shut, sbuf, sent>>
      PROVE  DataInv' /\ (stream'["rcv"] => Received' = Received)
  <2> DEFINE c == SubSeq(rbuf, 1, n)
             r == From(rbuf, n)
  <2>1. n \in Nat /\ n <= Len(rbuf) /\ n <= BufLen - Len(b)
    <3>1. Len(b) \in Nat /\ Len(rbuf) \in Nat /\ BufLen - Len(b) \in Nat
      BY <1>0
    <3>2. BufLen - Len(b) \in Int /\ Len(rbuf) \in Int
      BY <3>1
    <3> QED BY <3>1, <3>2, MinOfTwo
  <2> HIDE DEF n
  <2>2. n \in 0..Len(rbuf)
    BY <1>0, <2>1
  <2>3. c \in Seq(Nat) /\ r \in Seq(Nat) /\ Len(c) = n /\ c \o r = rbuf
    BY <1>0, <2>2, Split
  <2>4. rbuf' = r
    BY <1>2 DEF From
  <2> HIDE DEF c, r
  <2>5. buffer' = Set(buffer, "rcv", b \o c)
    BY <1>2 DEF c
  <2>6. buffer'["rcv"] = b \o c /\ buffer'["snd"] = buffer["snd"] /\ pc'["snd"] = pc["snd"]
    BY <1>2, <2>5 DEF Set, TypeOK, Ends
  <2>7. Len(b \o c) = Len(b) + n
    BY <1>0, <2>3, Concat
  <2>8. pc'["rcv"] = IF Len(b) + n = BufLen THEN "store" ELSE "read"
    BY <1>2 DEF Set, TypeOK, Ends
  <2>9. pc'["rcv"] # "idle" /\ (pc'["rcv"] = "read" => Len(buffer'["rcv"]) < BufLen)
    BY <1>0, <2>1, <2>6, <2>7, <2>8
  <2>10. Received' = Received
    <3> HIDE DEF b
    <3>1. out \in Seq(Nat) /\ b \in Seq(Nat) /\ c \in Seq(Nat) /\ r \in Seq(Nat)
      BY <1>0, <2>3
    <3>2. Received = (out \o b) \o (c \o r)
      BY <2>3 DEF Received, b
    <3>3. Received' = (out \o (b \o c)) \o r
      BY <1>1, <2>4, <2>6 DEF Received
    <3>4. (out \o b) \o c = out \o (b \o c)
      BY <3>1, Assoc
    <3> DEFINE x == out \o b
    <3>5. x \in Seq(Nat)
      BY <3>1, Concat
    <3> HIDE DEF x
    <3>6. (x \o c) \o r = x \o (c \o r)
      BY <3>1, <3>5, Assoc
    <3> QED BY <3>2, <3>3, <3>4, <3>6 DEF x
  <2>11. InFlight' = InFlight /\ Unwritten' = Unwritten
    BY <1>1, <1>2, <2>6 DEF InFlight, Unwritten
  <2>12. InOrder <=> InOrder'
    BY <1>1, <2>10, <2>11 DEF InOrder
  <2>13. Joined <=> Joined'
    BY <1>2 DEF Joined
  <2> QED BY <1>1, <1>2, <2>6, <2>9, <2>10, <2>12, <2>13 DEF DataInv
<1>3. ASSUME pc' = Set(pc, "rcv", IF b = <<>> THEN "idle" ELSE "store"),
             UNCHANGED <<buffer, rbuf, stream, tcp, shut, sbuf, sent>>
      PROVE  DataInv' /\ (stream'["rcv"] => Received' = Received)
  <2>1. /\ pc'["rcv"] = (IF b = <<>> THEN "idle" ELSE "store")
        /\ pc'["snd"] = pc["snd"]
    BY <1>3 DEF Set, TypeOK, Ends
  <2>2. Received' = Received /\ InFlight' = InFlight /\ Unwritten' = Unwritten
    BY <1>1, <1>3 DEF Received, InFlight, Unwritten
  <2>3. InOrder <=> InOrder'
    BY <1>1, <2>2 DEF InOrder
  <2>4. Joined <=> Joined'
    BY <1>3 DEF Joined
  <2> QED BY <1>1, <1>3, <2>1, <2>2, <2>3, <2>4 DEF DataInv
<1>4. ASSUME Cleanup("rcv", FALSE, q["rcv"]), UNCHANGED buffer
      PROVE  DataInv' /\ (stream'["rcv"] => Received' = Received)
  <2>1. "rcv" \in Ends /\ q["rcv"] \in Seq(Messages)
    BY DEF TypeOK, Ends
  <2>2. Settles
    BY <1>4, <2>1, CleanupSettles
  <2>3. ~stream'["rcv"]
    BY <1>4 DEF Cleanup, Set, TypeOK, Ends
  <2> QED BY <1>1, <1>4, <2>2, <2>3, QuietData DEF Quiet
<1> QED BY <1>2, <1>3, <1>4 DEF ReadStep

\* file_->Write moves buffer_ to the end of the receiver's file; a failing one
\* moves a part of it, and ends the transfer.
LEMMA StoreData ==
  ASSUME TypeOK, Life, DataInv, StoreStep \/ \E n \in 0..(BufLen - 1) : StoreError(n)
  PROVE  DataInv' /\ IsPrefix(out, out') /\ (stream'["rcv"] => Received' = Received)
<1> DEFINE b == buffer["rcv"]
           a == out \o b
<1>0. /\ b \in Seq(Nat) /\ out \in Seq(Nat) /\ a \in Seq(Nat) /\ rbuf \in Seq(Nat)
      /\ Source \in Seq(Nat) /\ pc["rcv"] = "store" /\ Received = a \o rbuf
  BY Pieces DEF StoreStep, StoreError, Received
<1>1. stream["rcv"]
  BY <1>0 DEF Life, LifeOK, LifeAt, Ends
<1>2. IsPrefix(a, Source)
  <2>1. IsPrefix(Received, Source)
    BY <1>1 DEF DataInv
  <2> HIDE DEF a
  <2> QED BY <1>0, <2>1, PrefixFacts
<1>3. CASE StoreStep
  <2>1. /\ out' = a /\ buffer' = Set(buffer, "rcv", <<>>) /\ pc' = Set(pc, "rcv", "read")
        /\ UNCHANGED <<fpos, pos, stream, tcp, shut, sbuf, sent, rbuf>>
    BY <1>3 DEF StoreStep, chanVars, tcpVars
  <2>2. /\ buffer'["rcv"] = <<>> /\ buffer'["snd"] = buffer["snd"]
        /\ pc'["rcv"] = "read" /\ pc'["snd"] = pc["snd"]
    BY <2>1 DEF Set, TypeOK, Ends
  <2>3. Received' = Received
    <3>1. Received' = (a \o <<>>) \o rbuf
      BY <2>1, <2>2 DEF Received
    <3> HIDE DEF a
    <3>2. a \o <<>> = a
      BY <1>0, ConcatEmptySeq
    <3> QED BY <1>0, <3>1, <3>2
  <2>4. InFlight' = InFlight /\ Unwritten' = Unwritten
    BY <2>1, <2>2 DEF InFlight, Unwritten
  <2>5. InOrder <=> InOrder'
    BY <2>1, <2>3, <2>4 DEF InOrder
  <2>6. Joined <=> Joined'
    BY <2>1 DEF Joined
  <2>7. Len(buffer'["rcv"]) < BufLen
    BY <2>2, ConstantsAssumption
  <2>8. IsPrefix(out, out')
    BY <1>0, <2>1, PrefixFacts
  <2>9. IsPrefix(out', Source)
    BY <1>2, <2>1
  <2> QED BY <2>1, <2>2, <2>3, <2>5, <2>6, <2>7, <2>8, <2>9 DEF DataInv
<1>4. ASSUME NEW n \in 0..(BufLen - 1), StoreError(n)
      PROVE  DataInv' /\ IsPrefix(out, out') /\ (stream'["rcv"] => Received' = Received)
  <2> DEFINE c == SubSeq(b, 1, n)
             r == From(b, n)
  <2>1. n \in 0..Len(b)
    BY <1>0, <1>4 DEF StoreError
  <2>2. c \in Seq(Nat) /\ r \in Seq(Nat) /\ c \o r = b
    BY <1>0, <2>1, Split
  <2>3. out' = out \o c /\ UNCHANGED <<fpos, buffer, pos>> /\ Cleanup("rcv", FALSE, q["rcv"])
    BY <1>4 DEF StoreError
  <2>4. "rcv" \in Ends /\ q["rcv"] \in Seq(Messages)
    BY DEF TypeOK, Ends
  <2>5. Settles /\ ~Joined'
    BY <2>3, <2>4, CleanupSettles
  <2>6. ~stream'["rcv"]
    BY <2>3 DEF Cleanup, Set, TypeOK, Ends
  <2> HIDE DEF c, r
  <2>7. IsPrefix(out, out') /\ out' \in Seq(Nat)
    BY <1>0, <2>2, <2>3, PrefixFacts, Concat
  <2>8. IsPrefix(out', Source)
    <3>1. (out \o c) \o r = out \o (c \o r)
      <4>1. out \in Seq(Nat) /\ c \in Seq(Nat) /\ r \in Seq(Nat)
        BY <1>0, <2>2
      <4> QED BY <4>1, Assoc
    <3>2. IsPrefix(out' \o r, Source)
      BY <1>2, <2>2, <2>3, <3>1
    <3> QED BY <1>0, <2>2, <2>7, <3>2, PrefixFacts
  <2>9. pos' <= Len(buffer'["snd"])
    BY <2>3 DEF DataInv
  <2> QED BY <2>3, <2>5, <2>6, <2>7, <2>8, <2>9 DEF DataInv, Settles, Ends
<1> QED BY <1>3, <1>4

\* The data is in order before the first step.
LEMMA InitData == Init => DataInv
<1> SUFFICES ASSUME Init PROVE DataInv
  OBVIOUS
<1>0. Source \in Seq(Nat) /\ <<>> \in Seq(Nat) /\ Len(<<>>) = 0
  BY ConstantsAssumption
<1>1. /\ out = <<>> /\ buffer["rcv"] = <<>> /\ buffer["snd"] = <<>> /\ rbuf = <<>>
      /\ sbuf = <<>> /\ sent = 0 /\ pos = 0 /\ fpos = 0 /\ pc["rcv"] = "idle"
  BY DEF Init, Ends
<1> DEFINE z == <<>>
<1>2. From(z, 0) = z
  <2>1. z \in Seq(Nat)
    OBVIOUS
  <2> HIDE DEF z
  <2> QED BY <2>1, FromEnds
<1>3. z \o z = z
  OBVIOUS
<1>4. Received = z /\ InFlight = z /\ Unwritten = z
  BY <1>1, <1>2, <1>3 DEF Received, InFlight, Unwritten
<1>5. SubSeq(Source, 1, 0) = z
  BY <1>0, SubSeqEmpty
<1>6. InOrder
  BY <1>1, <1>3, <1>4, <1>5 DEF InOrder
<1>7. IsPrefix(z, Source)
  BY <1>0, PrefixFacts
<1> QED BY <1>0, <1>1, <1>4, <1>6, <1>7 DEF DataInv

\* Every step keeps the data in order.
LEMMA NextData ==
  ASSUME TypeOK, Life, DataInv, [Next]_vars
  PROVE  DataInv'
<1>1. CASE \/ \E e \in Ends : \/ TcpOpen(e) \/ Closedown(e) \/ DestroyChannel(e) \/ RunTasks(e)
                            \/ RecvTerminate(e) \/ SessionTimeout(e) \/ SessionError(e)
                            \/ SessionState(e) \/ Purge(e) \/ Destroy(e)
           \/ ClockStep \/ DelayFires \/ LoopReturns \/ UNCHANGED vars
  BY <1>1, ControlQuiet, QuietData
<1>2. CASE \E e \in Ends : \E m \in StreamEvents : StreamEvent(e, m)
  BY <1>2, StreamEventData
<1>3. CASE Deliver \/ Ack \/ WriteStep \/ FillStep \/ ReadError \/ ReadStep
  BY <1>3, DeliverData, AckData, WriteData, FillData, ReadErrorData, ReadData
<1>4. CASE StoreStep \/ \E n \in 0..(BufLen - 1) : StoreError(n)
  BY <1>4, StoreData
<1> QED BY <1>1, <1>2, <1>3, <1>4 DEF Next, Step, SenderStep, ReceiverStep, LoopStep, Fault

\* The inductive invariant of a transfer: its control and its data
TransferInv == ControlInv /\ DataInv

\* It holds in every state.
THEOREM TransferInvariant == Spec => []TransferInv
<1>1. Init /\ ControlInv => TransferInv
  BY InitData DEF TransferInv
<1>2. TransferInv /\ [Next]_vars /\ ControlInv' => TransferInv'
  BY NextData DEF TransferInv, ControlInv
<1> QED BY <1>1, <1>2, ControlInvariant, PTL DEF Spec

\* Through partial writes and reads, blocking, segments and acknowledgements in
\* any order, every unit of the file is in exactly one place while the
\* connection stands.
THEOREM NothingIsLost == Spec => []NothingLost
<1>1. TransferInv => NothingLost
  BY DEF TransferInv, DataInv, NothingLost, Joined, InOrder, Received, InFlight, Unwritten, From
<1> QED BY <1>1, TransferInvariant, PTL

-----------------------------------------------------------------------------
(* How a transfer without errors ends.                                     *)

Reads == {"open", "read"}

\* The messages by which a channel, a session or a stream comes to its end
Endings == {"error", "close", "destroychannel", "sesserror", "state", "run"}

\* One end: there is no error, m_shutdown says whether the stream was closed,
\* and the channel destroys itself only after a closed stream has drained.
EndOK(e) ==
  /\ tcp[e] # "closed" /\ "error" \notin Held(q[e]) /\ "sesserror" \notin Held(q[e])
  /\ tcp[e] # "gone" => (shut[e] <=> ~stream[e])
  /\ "destroychannel" \in Held(q[e]) => ~stream[e] /\ tcp[e] = "gone"

\* As long as the receiver holds its stream, nothing makes the sender close its
\* own but the end of the file, and the session ends only after its PseudoTcp
\* has.
SenderSide ==
  /\ "snd" \notin stanza /\ term["snd"] # "received" /\ "close" \notin Held(q["snd"])
  /\ "state" \in Held(q["snd"]) => ~chan["snd"]
  /\ stream["snd"] => tcp["snd"] # "gone"
  /\ ~stream["snd"] => fpos = Len(Source) /\ buffer["snd"] = <<>>
  /\ "run" \in Held(q["snd"]) => tcp["snd"] = "gone"
  /\ tcp["snd"] = "opening" => sbuf = <<>>

\* The terminate stanza comes only when everything has been received, and what
\* is in m_rbuf then has an SE_READ before the MSG_STATE that drops m_rbuf.
ReceiverSide ==
  /\ term["rcv"] # "sent" /\ "run" \notin Held(q["rcv"])
  /\ "state" \in Held(q["rcv"]) => term["rcv"] = "received"
  /\ "rcv" \in stanza \/ term["rcv"] # "live" => tcp["snd"] = "gone"
  /\ tcp["rcv"] = "gone" => tcp["snd"] = "gone" /\ rbuf = <<>>
  /\ tcp["snd"] = "gone" => Received = Source
  /\ pendingRead["rcv"] => Held(q["rcv"]) \cap Reads # {}
  /\ pc["rcv"] = "idle" /\ rbuf # <<>> =>
       pendingRead["rcv"] /\ Before(q["rcv"], Reads, "state")
  /\ pc["rcv"] = "idle" /\ ~readEnable /\ tcp["rcv"] # "gone" => rbuf # <<>>
  /\ "close" \in Held(q["rcv"]) => out = Source

Good == /\ \A e \in Ends : EndOK(e)
        /\ stream["rcv"] => SenderSide /\ ReceiverSide

EndInv == faults = 0 => Good

\* t is s with messages that end nothing added, and others than reads removed.
Calm(s, t) ==
  /\ Held(t) \cap Endings \subseteq Held(s)
  /\ Held(s) \cap Reads \subseteq Held(t)
  /\ Before(s, Reads, "state") => Before(t, Reads, "state")

\* The queue is as it was.
LEMMA CalmSame ==
  ASSUME NEW s PROVE Calm(s, s)
BY DEF Calm

\* A message that is not a read is taken from the queue.
LEMMA CalmTail ==
  ASSUME NEW s \in Seq(Messages), s # <<>>, Head(s) \notin Reads
  PROVE  Calm(s, Tail(s))
BY TailQueue DEF Calm

\* A message that ends nothing is added.
LEMMA CalmAppend ==
  ASSUME NEW s \in Seq(Messages), NEW m \in Messages, m \notin Endings
  PROVE  Calm(s, Append(s, m))
<1>1. "state" # m
  BY DEF Endings
<1> QED BY <1>1, AppendQueue DEF Calm

\* Messages that end nothing are added.
LEMMA CalmConcat ==
  ASSUME NEW s \in Seq(Messages), NEW t \in Seq(Messages), Held(t) \cap Endings = {}
  PROVE  Calm(s, s \o t)
<1>1. "state" \notin Held(t)
  BY DEF Endings
<1> QED BY <1>1, ConcatQueues DEF Calm

\* One calm change after another
LEMMA CalmTrans ==
  ASSUME NEW s, NEW t, NEW u, Calm(s, t), Calm(t, u)
  PROVE  Calm(s, u)
BY DEF Calm

\* A step that changes nothing but the queues, calmly, what the sender has in
\* its hands, and what m_sbuf holds once PseudoTcp is open.
LEMMA CalmGood ==
  ASSUME Good, Held(q'["snd"]) \cap Endings \subseteq Held(q["snd"]),
         Calm(q["rcv"], q'["rcv"]),
         UNCHANGED <<stream, chan, tcp, shut, rbuf, readEnable, term, stanza, out>>,
         buffer'["rcv"] = buffer["rcv"], pc'["rcv"] = pc["rcv"],
         pendingRead'["rcv"] = pendingRead["rcv"],
         stream["snd"] \/ (fpos' = fpos /\ buffer'["snd"] = buffer["snd"]),
         tcp["snd"] = "opening" => sbuf' = sbuf
  PROVE  Good'
<1>1. \A e \in Ends : Held(q'[e]) \cap Endings \subseteq Held(q[e])
  BY DEF Calm, Ends
<1>2. \A e \in Ends : EndOK(e)'
  BY <1>1 DEF EndOK, Good, Endings
<1>3. Received' = Received
  BY DEF Received
<1>4. ASSUME stream'["rcv"] PROVE SenderSide'
  <2>1. SenderSide
    BY <1>4 DEF Good
  <2> QED BY <1>1, <2>1 DEF SenderSide, Endings, Ends
<1>5. ASSUME stream'["rcv"] PROVE ReceiverSide'
  <2>1. ReceiverSide
    BY <1>5 DEF Good
  <2>2. /\ Held(q["rcv"]) \cap Reads \subseteq Held(q'["rcv"])
        /\ Before(q["rcv"], Reads, "state") => Before(q'["rcv"], Reads, "state")
        /\ \A m \in {"run", "state", "close"} : m \in Held(q'["rcv"]) => m \in Held(q["rcv"])
    BY DEF Calm, Endings
  <2> QED BY <1>3, <2>1, <2>2 DEF ReceiverSide
<1> QED BY <1>2, <1>4, <1>5 DEF Good

\* PseudoTcp opens at one end.
LEMMA TcpOpenGood ==
  ASSUME TypeOK, Good, NEW e \in Ends, TcpOpen(e)
  PROVE  Good'
<1>0. \A d \in Ends : q[d] \in Seq(Messages)
  BY DEF TypeOK
<1>1. /\ tcp[e] = "opening" /\ tcp' = [tcp EXCEPT ![e] = "established"]
      /\ UNCHANGED <<fpos, out, buffer, pc, stream, chan, shut, sbuf, rbuf, readEnable, term, stanza>>
  BY DEF TcpOpen, Set, pumpVars, sessVars
<1>2. /\ \A d \in Ends : tcp'[d] = IF d = e THEN "established" ELSE tcp[d]
      /\ \A d \in Ends : tcp'[d] = "gone" <=> tcp[d] = "gone"
  BY <1>1 DEF TypeOK
<1>3. \A d \in Ends : Calm(q[d], q'[d])
  <2>1. "open" \in Messages /\ "open" \notin Endings
    BY DEF Messages, StreamEvents, Endings
  <2>2. \A d \in Ends : q'[d] = q[d] \/ q'[d] = Append(q[d], "open")
    BY SMTT(30) DEF TcpOpen, Set, TypeOK
  <2> QED BY <1>0, <2>1, <2>2, CalmSame, CalmAppend
<1>4. \A d \in Ends : pendingRead'[d] = pendingRead[d] \/ "open" \in Held(q'[d])
  <2>1. "open" \in Messages
    BY DEF Messages, StreamEvents
  <2>2. \A d \in Ends : pendingRead'[d] = pendingRead[d] \/ q'[d] = Append(q[d], "open")
    BY SMTT(30) DEF TcpOpen, Set, TypeOK
  <2>3. ASSUME NEW d \in Ends, q'[d] = Append(q[d], "open") PROVE "open" \in Held(q'[d])
    <3>1. q[d] \in Seq(Messages)
      BY <1>0
    <3>2. Held(Append(q[d], "open")) = Held(q[d]) \cup {"open"}
      BY <2>1, <3>1, AppendQueue
    <3> QED BY <2>3, <3>2
  <2> QED BY <2>2, <2>3
<1>5. \A d \in Ends : pendingRead[d] => pendingRead'[d]
  BY DEF TcpOpen, Set, TypeOK
<1>6. \A d \in Ends : Held(q'[d]) \cap Endings \subseteq Held(q[d])
  BY <1>3 DEF Calm
<1>7. \A d \in Ends : EndOK(d)'
  BY <1>1, <1>2, <1>6 DEF Good, EndOK, Endings
<1>8. ASSUME stream'["rcv"] PROVE SenderSide'
  <2>1. SenderSide
    BY <1>1, <1>8 DEF Good
  <2> QED BY <1>1, <1>2, <1>6, <2>1 DEF SenderSide, Endings, Ends
<1>9. ASSUME stream'["rcv"] PROVE ReceiverSide'
  <2>1. ReceiverSide
    BY <1>1, <1>9 DEF Good
  <2>2. Received' = Received
    BY <1>1 DEF Received
  <2>3. /\ Held(q["rcv"]) \cap Reads \subseteq Held(q'["rcv"])
        /\ Before(q["rcv"], Reads, "state") => Before(q'["rcv"], Reads, "state")
        /\ \A m \in {"run", "state", "close"} : m \in Held(q'["rcv"]) => m \in Held(q["rcv"])
    BY <1>3 DEF Calm, Endings, Ends
  <2>4. pendingRead'["rcv"] => Held(q'["rcv"]) \cap Reads # {}
    BY <1>4, <2>1, <2>3 DEF ReceiverSide, Reads, Ends
  <2>5. "rcv" \in Ends /\ "snd" \in Ends
    BY DEF Ends
  <2> QED BY <1>1, <1>2, <1>5, <2>1, <2>2, <2>3, <2>4, <2>5 DEF ReceiverSide
<1> QED BY <1>7, <1>8, <1>9 DEF Good

\* A segment arrives: what it leaves in m_rbuf is announced.
LEMMA DeliverGood ==
  ASSUME TypeOK, Good, Deliver
  PROVE  Good'
<1>0. q["rcv"] \in Seq(Messages) /\ "rcv" \in Ends /\ "snd" \in Ends /\ "read" \in Messages
  BY DEF TypeOK, Ends, Messages, StreamEvents
<1>1. /\ tcp["snd"] = "established" /\ tcp["rcv"] = "established" /\ pc["rcv"] = "idle"
      /\ UNCHANGED <<fpos, out, buffer, pc, stream, chan, tcp, shut, sbuf, term, stanza>>
  BY DEF Deliver, Idle, pumpVars, sessVars
<1>2. q'["snd"] = q["snd"] /\ (q'["rcv"] = q["rcv"] \/ q'["rcv"] = Append(q["rcv"], "read"))
  BY DEF Deliver, Set, TypeOK, Ends
<1>3. Calm(q["rcv"], q'["rcv"])
  BY <1>0, <1>2, CalmSame, CalmAppend DEF Endings
<1>4. \A d \in Ends : EndOK(d)'
  <2>1. \A d \in Ends : Held(q'[d]) \cap Endings \subseteq Held(q[d])
    BY <1>2, <1>3 DEF Calm, Ends
  <2> QED BY <1>1, <2>1 DEF Good, EndOK, Endings
<1>5. ASSUME stream["rcv"] PROVE SenderSide' /\ ReceiverSide'
  <2>1. SenderSide /\ ReceiverSide /\ ~shut["rcv"]
    BY <1>0, <1>1, <1>5 DEF Good, EndOK
  <2>2. SenderSide'
    BY <1>1, <1>2, <2>1 DEF SenderSide
  <2>3. rbuf' # <<>>
    <3>1. rbuf \in Seq(Nat) /\ sbuf[sent + 1] \in Nat
      <4>1. sbuf \in Seq(Nat) /\ sent + 1 \in 1..Len(sbuf)
        BY DEF TypeOK, Deliver
      <4> QED BY <4>1, ElementOfSeq DEF TypeOK
    <3> QED BY <2>1, <3>1, AppendProperties DEF Deliver
  <2>4. /\ Held(q["rcv"]) \cap Reads \subseteq Held(q'["rcv"])
        /\ Before(q["rcv"], Reads, "state") => Before(q'["rcv"], Reads, "state")
        /\ \A m \in {"run", "state", "close"} : m \in Held(q'["rcv"]) => m \in Held(q["rcv"])
    BY <1>3 DEF Calm, Endings
  <2>5. "state" \notin Held(q'["rcv"])
    BY <1>1, <2>1, <2>4 DEF ReceiverSide
  <2>6. Before(q'["rcv"], Reads, "state")
    BY <2>5 DEF Before, Held
  <2>7. pendingRead'["rcv"]
    <3>1. CASE readEnable
      BY <1>5, <2>1, <3>1 DEF Deliver, Set, TypeOK, Ends
    <3>2. CASE ~readEnable
      <4>1. pendingRead["rcv"]
        BY <1>1, <2>1, <3>2 DEF ReceiverSide
      <4> QED BY <4>1, <3>2 DEF Deliver
    <3> QED BY <3>1, <3>2
  <2>8. Held(q'["rcv"]) \cap Reads # {}
    <3>1. CASE pendingRead["rcv"]
      BY <2>1, <2>4, <3>1 DEF ReceiverSide
    <3>2. CASE ~pendingRead["rcv"]
      <4>1. q'["rcv"] = Append(q["rcv"], "read")
        BY <2>7, <3>2 DEF Deliver, Set, TypeOK, Ends
      <4> QED BY <1>0, <4>1, AppendQueue DEF Reads
    <3> QED BY <3>1, <3>2
  <2>9. ReceiverSide'
    BY <1>1, <2>1, <2>3, <2>4, <2>5, <2>6, <2>7, <2>8 DEF ReceiverSide
  <2> QED BY <2>2, <2>9
<1> QED BY <1>1, <1>4, <1>5 DEF Good

\* When the sender has read the whole file and nothing is left on its way, the
\* receiver has it.
LEMMA AllReceived ==
  ASSUME TypeOK, DataInv, Good, stream["rcv"], tcp["snd"] \in {"opening", "established"},
         InFlight = <<>>, Unwritten = <<>>, fpos = Len(Source)
  PROVE  Received = Source
<1>1. Joined
  BY DEF Joined, Good, EndOK, ReceiverSide, TypeOK, Ends
<1>2. Received \in Seq(Nat) /\ Source \in Seq(Nat)
  BY Pieces
<1>3. Received \o <<>> \o <<>> = SubSeq(Source, 1, Len(Source))
  BY <1>1 DEF DataInv, InOrder
<1>4. Received \o <<>> = Received
  BY <1>2, ConcatEmptySeq
<1> QED BY <1>2, <1>3, <1>4, SubSeqFull

\* An acknowledgement deletes the PseudoTcp of a sender that has closed its
\* stream, once everything is received.
LEMMA AckGood ==
  ASSUME TypeOK, Life, DataInv, Good, Ack
  PROVE  Good'
<1> DEFINE rest == SubSeq(sbuf, sent + 1, Len(sbuf))
           finished == shut["snd"] /\ rest = <<>>
           a == IF writeEnable /\ Len(rest) < RefillSize /\ stream["snd"] THEN <<"write">> ELSE <<>>
           b == IF finished THEN DestroyChannelMsg("snd") ELSE <<>>
<1>0. q["snd"] \in Seq(Messages) /\ "rcv" \in Ends /\ "snd" \in Ends /\ EndOK("snd")
  BY DEF TypeOK, Ends, Good
<1>1. /\ tcp["snd"] = "established" /\ pc["snd"] = "idle"
      /\ UNCHANGED <<fpos, out, buffer, pos, pc, stream, chan, pendingRead, shut, rbuf, readEnable,
                     term, stanza>>
  BY DEF Ack, Idle, pumpVars, sessVars, chanVars
<1>2. q'["rcv"] = q["rcv"] /\ q'["snd"] = q["snd"] \o a \o b
  BY DEF Ack, Set, TypeOK, Ends
<1>3. /\ a \in Seq(Messages) /\ b \in Seq(Messages) /\ Held(a) \subseteq {"write"}
      /\ Held(b) \subseteq {"destroychannel"} /\ (~finished => Held(b) = {})
  BY Posts, ShortQueues DEF DestroyChannelMsg
<1>4. /\ tcp'["rcv"] = tcp["rcv"]
      /\ tcp'["snd"] = IF finished THEN "gone" ELSE "established"
  BY <1>1 DEF Ack, Set, TypeOK, Ends
<1>5. finished => ~stream["snd"] /\ InFlight = <<>>
  BY <1>0, <1>1 DEF EndOK, InFlight, From
<1> HIDE DEF finished, a, b, rest
<1>6. Held(q'["snd"]) = Held(q["snd"]) \cup Held(a) \cup Held(b)
  BY <1>0, <1>2, <1>3, ThreeQueues
<1>7. \A m \in Endings : m \in Held(q'["snd"]) => m \in Held(q["snd"]) \/ (m = "destroychannel" /\ finished)
  BY <1>3, <1>6 DEF Endings
<1>8. EndOK("snd")'
  BY <1>0, <1>1, <1>4, <1>5, <1>7 DEF EndOK, Endings
<1>9. EndOK("rcv")'
  BY <1>0, <1>1, <1>2, <1>4 DEF EndOK, Good
<1>10. ASSUME stream["rcv"] PROVE SenderSide' /\ ReceiverSide'
  <2>1. SenderSide /\ ReceiverSide
    BY <1>10 DEF Good
  <2>2. SenderSide'
    BY <1>1, <1>4, <1>5, <1>7, <2>1 DEF SenderSide, Endings
  <2>3. Received' = Received
    BY <1>1 DEF Received
  <2>4. finished => Received = Source
    <3> SUFFICES ASSUME finished PROVE Received = Source
      OBVIOUS
    <3>1. fpos = Len(Source) /\ buffer["snd"] = <<>>
      BY <1>5, <2>1 DEF SenderSide
    <3>2. Unwritten = <<>>
      <4>1. buffer["snd"] \in Seq(Nat) /\ pos \in Nat /\ pos <= Len(buffer["snd"])
        BY <1>0 DEF TypeOK, DataInv
      <4>2. pos = Len(buffer["snd"])
        BY <3>1, <4>1
      <4> QED BY <4>1, <4>2, FromEnds DEF Unwritten
    <3> QED BY <1>1, <1>5, <1>10, <3>1, <3>2, AllReceived
  <2>5. ReceiverSide'
    BY <1>1, <1>2, <1>4, <2>1, <2>3, <2>4 DEF ReceiverSide
  <2> QED BY <2>2, <2>5
<1> QED BY <1>1, <1>8, <1>9, <1>10 DEF Good, Ends

\* A receiver that has closed its stream acknowledges what it had.
LEMMA ClockGood ==
  ASSUME TypeOK, Good, ClockStep
  PROVE  Good'
<1>0. q["rcv"] \in Seq(Messages) /\ EndOK("rcv") /\ EndOK("snd")
  BY DEF TypeOK, Ends, Good
<1>1. /\ tcp["rcv"] = "established" /\ shut["rcv"] /\ UNCHANGED <<stream, shut>>
      /\ q'["snd"] = q["snd"] /\ q'["rcv"] = q["rcv"] \o DestroyChannelMsg("rcv")
      /\ tcp'["rcv"] = "gone" /\ tcp'["snd"] = tcp["snd"]
  BY DEF ClockStep, DeleteTcp, Set, TypeOK, Ends, chanVars
<1>2. ~stream["rcv"]
  BY <1>0, <1>1 DEF EndOK
<1> DEFINE b == DestroyChannelMsg("rcv")
<1>3. b \in Seq(Messages) /\ Held(b) \subseteq {"destroychannel"}
  BY Posts, ShortQueues DEF DestroyChannelMsg
<1> HIDE DEF b
<1>4. Held(q["rcv"] \o b) = Held(q["rcv"]) \cup Held(b)
  BY <1>0, <1>3, ConcatQueues
<1>5. EndOK("rcv")' /\ EndOK("snd")'
  BY <1>0, <1>1, <1>2, <1>3, <1>4 DEF EndOK, b
<1> QED BY <1>1, <1>2, <1>5 DEF Good, Ends

\* What Cleanup leaves at its end of the tunnel
LEMMA CleanupGood ==
  ASSUME TypeOK, Good, NEW e \in Ends, NEW delay \in BOOLEAN, NEW q0 \in Seq(Messages),
         Held(q0) \subseteq Held(q[e]), Cleanup(e, delay, q0)
  PROVE  /\ \A d \in Ends : EndOK(d)'
         /\ \A d \in Ends \ {e} : q'[d] = q[d] /\ stream'[d] = stream[d]
                                /\ tcp'[d] = tcp[d] /\ pc'[d] = pc[d]
         /\ ~stream'[e]
         /\ \A m \in Endings : m \in Held(q'[e]) => m \in Held(q[e]) \/ m = "destroychannel"
<1> DEFINE hasTcp == tcp[e] # "gone"
           finished == hasTcp /\ Drained(e, sbuf)
           a == ClearEvents(q0)
           b == IF finished THEN DestroyChannelMsg(e)
                ELSE IF hasTcp \/ worker[e] THEN <<>> ELSE <<"destroy">>
           c == IF e = client /\ ~delay THEN <<"done">> ELSE <<>>
<1>0. EndOK(e)
  BY DEF Good
<1>1. /\ q'[e] = a \o b \o c /\ stream'[e] = FALSE
      /\ (tcp[e] # "gone" => shut'[e])
      /\ \A d \in Ends \ {e} : q'[d] = q[d] /\ stream'[d] = stream[d] /\ shut'[d] = shut[d]
                             /\ pc'[d] = pc[d]
  BY DEF Cleanup, Set, TypeOK
<1>2. /\ \A d \in Ends \ {e} : tcp'[d] = tcp[d]
      /\ tcp'[e] = IF finished THEN "gone" ELSE tcp[e]
  BY DEF Cleanup, DeleteTcp, Set, TypeOK
<1>3. a \in Seq(Messages) /\ Held(a) \subseteq Held(q[e])
  BY WithoutQueue DEF ClearEvents
<1>4. /\ b \in Seq(Messages) /\ c \in Seq(Messages)
      /\ Held(b) \subseteq {"destroychannel", "destroy"} /\ Held(c) \subseteq {"done"}
      /\ "destroychannel" \in Held(b) => finished
  BY Posts, ShortQueues DEF DestroyChannelMsg
<1> HIDE DEF finished, a, b, c
<1>5. Held(q'[e]) = Held(a) \cup Held(b) \cup Held(c)
  BY <1>1, <1>3, <1>4, ThreeQueues
<1>6. \A m \in Endings : m \in Held(q'[e]) => m \in Held(q[e]) \/ (m = "destroychannel" /\ finished)
  BY <1>3, <1>4, <1>5 DEF Endings
<1>7. EndOK(e)'
  BY <1>0, <1>1, <1>2, <1>6 DEF EndOK, Endings
<1>8. \A d \in Ends \ {e} : EndOK(d)'
  BY <1>1, <1>2 DEF Good, EndOK
<1> QED BY <1>1, <1>2, <1>6, <1>7, <1>8

\* OnStreamEvent is entered. Without an error the only SE_CLOSE is the
\* receiver's.
LEMMA StreamEventGood ==
  ASSUME TypeOK, Life, DataInv, Good, NEW e \in Ends, NEW m \in StreamEvents, StreamEvent(e, m)
  PROVE  Good'
<1>0. /\ q[e] \in Seq(Messages) /\ q[e] # <<>> /\ Head(q[e]) = m /\ pc[e] = "idle"
      /\ Tail(q[e]) \in Seq(Messages) /\ Held(q[e]) = {m} \cup Held(Tail(q[e]))
      /\ "rcv" \in Ends /\ "snd" \in Ends /\ m \in Held(q[e])
  BY Rest, TailQueue DEF StreamEvent, Next_, Idle, Ends
<1>1. stream[e]
  BY <1>0 DEF Life, LifeOK, LifeAt
<1>2. UNCHANGED <<fpos, out, chan, readEnable, term, stanza>>
  BY DEF StreamEvent, sessVars
<1>3. CASE m \in {"close", "error"}
  <2>1. Cleanup(e, FALSE, Tail(q[e])) /\ Held(Tail(q[e])) \subseteq Held(q[e])
    BY <1>0, <1>3 DEF StreamEvent
  <2>2. (\A d \in Ends : EndOK(d)') /\ ~stream'[e]
        /\ \A d \in Ends \ {e} : stream'[d] = stream[d]
    BY <1>0, <2>1, CleanupGood
  <2>3. ~stream'["rcv"]
    <3>1. CASE e = "rcv"
      BY <2>2, <3>1
    <3>2. CASE e = "snd"
      <4>1. m # "error"
        BY <1>0 DEF Good, EndOK
      <4>2. ~stream["rcv"]
        BY <1>0, <1>3, <3>2, <4>1 DEF Good, SenderSide
      <4> QED BY <2>2, <3>2, <4>2 DEF Ends
    <3> QED BY <3>1, <3>2 DEF Ends
  <2> QED BY <2>2, <2>3 DEF Good
<1>4. CASE m \notin {"close", "error"}
  <2>1. /\ UNCHANGED <<stream, tcp, shut, sbuf, sent, rbuf>>
        /\ q'[e] = Tail(q[e]) /\ \A d \in Ends \ {e} : q'[d] = q[d]
    BY <1>4 DEF StreamEvent, Set, TypeOK
  <2>2. CASE e = "snd"
    <3>1. pc'["rcv"] = pc["rcv"] /\ UNCHANGED buffer /\ pendingRead'["rcv"] = pendingRead["rcv"]
      BY <1>4, <2>2 DEF StreamEvent, Set, TypeOK, Ends
    <3>2. Held(q'["snd"]) \cap Endings \subseteq Held(q["snd"])
      BY <1>0, <2>1, <2>2
    <3>3. Calm(q["rcv"], q'["rcv"])
      BY <2>1, <2>2, CalmSame DEF Ends
    <3> QED BY <1>2, <2>1, <3>1, <3>2, <3>3, CalmGood
  <2>3. CASE e = "rcv" /\ m \notin Reads
    <3>1. /\ pc'["rcv"] = pc["rcv"] /\ UNCHANGED buffer
          /\ pendingRead'["rcv"] = pendingRead["rcv"]
      <4>1. pendingRead' = [pendingRead EXCEPT !["rcv"] = pendingRead["rcv"] /\ m \notin Reads]
        BY <2>3 DEF StreamEvent, Set, Reads
      <4>2. pendingRead["rcv"] \in BOOLEAN /\ pendingRead \in [Ends -> BOOLEAN]
        BY <1>0 DEF TypeOK
      <4>3. pendingRead'["rcv"] = pendingRead["rcv"]
        BY <1>0, <2>3, <4>1, <4>2
      <4> QED BY <1>4, <2>3, <4>3 DEF StreamEvent, Reads
    <3>2. Held(q'["snd"]) \cap Endings \subseteq Held(q["snd"])
      BY <1>0, <2>1, <2>3
    <3>3. Calm(q["rcv"], q'["rcv"])
      BY <1>0, <2>1, <2>3, CalmTail
    <3> QED BY <1>2, <2>1, <3>1, <3>2, <3>3, CalmGood
  <2>4. CASE e = "rcv" /\ m \in Reads
    <3>1. buffer["rcv"] = <<>>
      BY <1>0, <1>1, <2>4 DEF DataInv
    <3>2. /\ pc'["rcv"] = "read" /\ buffer' = [buffer EXCEPT !["rcv"] = <<>>]
          /\ pendingRead'["rcv"] = FALSE
      BY <1>0, <1>4, <2>4 DEF StreamEvent, Set, TypeOK, Reads
    <3>3. buffer' = buffer
      BY <3>1, <3>2 DEF TypeOK, Ends
    <3>4. \A d \in Ends : Held(q'[d]) \subseteq Held(q[d])
      BY <1>0, <2>1
    <3>5. \A d \in Ends : EndOK(d)'
      BY <2>1, <3>4 DEF Good, EndOK
    <3>6. SenderSide /\ ReceiverSide
      BY <1>1, <2>4 DEF Good
    <3>7. SenderSide'
      BY <1>0, <1>2, <2>1, <3>3, <3>4, <3>6 DEF SenderSide
    <3>8. Received' = Received
      BY <1>2, <2>1, <3>3 DEF Received
    <3>9. ReceiverSide'
      BY <1>0, <1>2, <2>1, <3>2, <3>4, <3>6, <3>8 DEF ReceiverSide
    <3> QED BY <3>5, <3>7, <3>9 DEF Good
  <2> QED BY <2>2, <2>3, <2>4 DEF Ends
<1> QED BY <1>3, <1>4

\* The sender writes to its stream.
LEMMA WriteGood ==
  ASSUME TypeOK, Life, Good, WriteStep
  PROVE  Good'
<1>1. /\ UNCHANGED <<fpos, out, chan, readEnable, pendingRead, term, stanza>>
      /\ pc["snd"] = "write" /\ tcp["snd"] # "closed" /\ stream["snd"]
  BY DEF WriteStep, sessVars, Good, EndOK, Ends, Life, LifeOK, LifeAt
<1>2. /\ UNCHANGED <<q, stream, tcp, shut, rbuf>> /\ buffer'["rcv"] = buffer["rcv"]
      /\ pc'["rcv"] = pc["rcv"] /\ (tcp["snd"] = "opening" => sbuf' = sbuf)
  BY <1>1 DEF WriteStep, Set, TypeOK, Ends
<1> QED BY <1>1, <1>2, CalmSame, CalmGood

\* The sender reads its file; at the end of it the stream is closed.
LEMMA FillGood ==
  ASSUME TypeOK, Life, DataInv, Good, FillStep
  PROVE  Good'
<1> DEFINE n == Min({BufLen, Len(Source) - fpos})
           c == SubSeq(Source, fpos + 1, fpos + n)
<1>0. /\ UNCHANGED <<out, chan, readEnable, pendingRead, term, stanza>>
      /\ pc["snd"] = "write" /\ stream["snd"] /\ pos = Len(buffer["snd"])
      /\ fpos' = fpos + n /\ buffer' = Set(buffer, "snd", c)
  BY DEF FillStep, sessVars, Ends, Life, LifeOK, LifeAt
<1>b. buffer'["snd"] = c /\ buffer'["rcv"] = buffer["rcv"]
  BY <1>0 DEF Set, TypeOK, Ends
<1>1. CASE n > 0
  <2>1. UNCHANGED <<pc, q, stream, tcp, shut, sbuf, rbuf>>
    BY <1>1 DEF FillStep
  <2> QED BY <1>0, <1>b, <2>1, CalmSame, CalmGood
<1>2. CASE ~(n > 0)
  <2>0. fpos \in 0..Len(Source) /\ Source \in Seq(Nat) /\ BufLen \in Nat /\ BufLen > 0
    BY ConstantsAssumption DEF TypeOK
  <2>1. n = 0 /\ fpos = Len(Source)
    <3>1. BufLen \in Int /\ Len(Source) - fpos \in Int /\ Len(Source) - fpos >= 0
      BY <2>0
    <3>2. n \in {BufLen, Len(Source) - fpos} /\ n <= Len(Source) - fpos
      BY <3>1, MinOfTwo
    <3> HIDE DEF n
    <3> QED BY <1>2, <2>0, <3>1, <3>2
  <2> HIDE DEF n
  <2>2. c = <<>> /\ fpos' = Len(Source)
    BY <1>0, <2>0, <2>1, SubSeqEmpty
  <2> HIDE DEF c
  <2>3. q["snd"] \in Seq(Messages) /\ "snd" \in Ends /\ "rcv" \in Ends
    BY DEF TypeOK, Ends
  <2>4. Cleanup("snd", TRUE, q["snd"])
    BY <1>2 DEF FillStep, n
  <2>5. /\ \A d \in Ends : EndOK(d)'
        /\ q'["rcv"] = q["rcv"] /\ stream'["rcv"] = stream["rcv"] /\ tcp'["rcv"] = tcp["rcv"]
        /\ pc'["rcv"] = pc["rcv"] /\ ~stream'["snd"]
        /\ \A m \in Endings : m \in Held(q'["snd"]) => m \in Held(q["snd"]) \/ m = "destroychannel"
    BY <2>3, <2>4, CleanupGood
  <2>6. rbuf' = rbuf
    BY <2>3, <2>4, CleanupSettles
  <2>7. Received' = Received
    BY <1>0, <1>b, <2>6 DEF Received
  <2>8. ASSUME stream["rcv"] PROVE SenderSide' /\ ReceiverSide'
    <3>1. SenderSide /\ ReceiverSide /\ tcp["snd"] \in {"opening", "established"}
      BY <1>0, <2>3, <2>8 DEF Good, SenderSide, EndOK, TypeOK
    <3>2. (tcp'["snd"] = tcp["snd"] /\ sbuf' = sbuf) \/ tcp'["snd"] = "gone"
      BY <2>4 DEF Cleanup, DeleteTcp, Set, TypeOK, Ends
    <3>3. tcp'["snd"] = "gone" => Received = Source
      <4> SUFFICES ASSUME tcp'["snd"] = "gone" PROVE Received = Source
        OBVIOUS
      <4>1. sbuf = <<>>
        BY <2>4, <3>1 DEF Cleanup, Drained, SenderSide
      <4>2. sent = 0
        BY <4>1 DEF TypeOK
      <4>3. InFlight = <<>>
        BY <4>1, <4>2, FromEnds DEF InFlight, TypeOK
      <4>4. Unwritten = <<>>
        BY <1>0, <2>3, FromEnds DEF Unwritten, TypeOK
      <4> QED BY <2>1, <2>8, <3>1, <4>3, <4>4, AllReceived
    <3>4. SenderSide'
      BY <1>0, <1>b, <2>2, <2>5, <3>1, <3>2 DEF SenderSide, Endings
    <3>5. ReceiverSide'
      BY <1>0, <2>5, <2>6, <2>7, <3>1, <3>2, <3>3 DEF ReceiverSide
    <3> QED BY <3>4, <3>5
  <2> QED BY <2>5, <2>8 DEF Good
<1> QED BY <1>1, <1>2

\* The receiver reads its stream until it is empty.
LEMMA ReadGood ==
  ASSUME TypeOK, Life, DataInv, Good, ReadStep
  PROVE  Good'
<1> DEFINE b == buffer["rcv"]
           n == Min({BufLen - Len(b), Len(rbuf)})
<1>0. /\ UNCHANGED <<fpos, out, chan, term, stanza>> /\ pc["rcv"] = "read" /\ stream["rcv"]
      /\ tcp["rcv"] # "closed" /\ "rcv" \in Ends /\ "snd" \in Ends /\ q["rcv"] \in Seq(Messages)
      /\ SenderSide /\ ReceiverSide
  BY DEF ReadStep, sessVars, Ends, Life, LifeOK, LifeAt, Good, EndOK, TypeOK
<1>1. /\ UNCHANGED <<stream, tcp, shut, sbuf>> /\ q'["snd"] = q["snd"]
      /\ buffer'["snd"] = buffer["snd"]
      /\ q'["rcv"] = q["rcv"] \/ q'["rcv"] = Append(q["rcv"], "read")
      /\ pendingRead["rcv"] => pendingRead'["rcv"]
      /\ pendingRead'["rcv"] => pendingRead["rcv"] \/ q'["rcv"] = Append(q["rcv"], "read")
  <2>0. pendingRead \in [Ends -> BOOLEAN] /\ q \in [Ends -> Seq(Messages)]
        /\ buffer \in [Ends -> Seq(Nat)]
    BY DEF TypeOK
  <2>1. UNCHANGED <<stream, tcp, shut, sbuf>>
    BY <1>0 DEF ReadStep
  <2>2. buffer'["snd"] = buffer["snd"]
    BY <1>0, <2>0 DEF ReadStep, Set
  <2>3. \/ UNCHANGED <<pendingRead, q>>
        \/ /\ pendingRead' = [pendingRead EXCEPT !["rcv"] = TRUE]
           /\ q' = IF pendingRead["rcv"] THEN q
                   ELSE [q EXCEPT !["rcv"] = Append(q["rcv"], "read")]
    BY <1>0 DEF ReadStep, Set
  <2>4. CASE UNCHANGED <<pendingRead, q>>
    BY <2>1, <2>2, <2>4
  <2>5. CASE /\ pendingRead' = [pendingRead EXCEPT !["rcv"] = TRUE]
             /\ q' = IF pendingRead["rcv"] THEN q
                     ELSE [q EXCEPT !["rcv"] = Append(q["rcv"], "read")]
    BY <1>0, <2>0, <2>1, <2>2, <2>5
  <2> QED BY <2>3, <2>4, <2>5
<1>2. Received' = Received
  BY <1>0, <1>1, ReadData
<1>3. tcp["rcv"] = "gone" => rbuf' = rbuf
  BY <1>0 DEF ReadStep
<1>4. pc'["rcv"] = "idle" => rbuf' = <<>> /\ (tcp["rcv"] # "gone" => readEnable')
  <2> SUFFICES ASSUME pc'["rcv"] = "idle"
               PROVE  rbuf' = <<>> /\ (tcp["rcv"] # "gone" => readEnable')
    OBVIOUS
  <2>1. /\ rbuf' = rbuf /\ (tcp["rcv"] = "gone" \/ (tcp["rcv"] = "established" /\ n = 0))
        /\ (tcp["rcv"] = "established" => readEnable')
    BY <1>0 DEF ReadStep, Set, TypeOK
  <2>2. CASE tcp["rcv"] = "gone"
    BY <1>0, <2>1, <2>2 DEF ReceiverSide
  <2>3. CASE tcp["rcv"] = "established" /\ n = 0
    <3>1. BufLen - Len(b) > 0 /\ BufLen - Len(b) \in Int /\ Len(rbuf) \in Nat /\ rbuf \in Seq(Nat)
      BY SMTT(30), <1>0, ConstantsAssumption DEF TypeOK, DataInv
    <3>2. Len(rbuf) \in Int
      BY <3>1
    <3>3. n \in {BufLen - Len(b), Len(rbuf)}
      BY <3>1, <3>2, MinOfTwo
    <3> HIDE DEF n, b
    <3>4. Len(rbuf) = 0
      BY <2>3, <3>1, <3>3
    <3> QED BY <2>1, <2>3, <3>1, <3>4
  <2> QED BY <2>1, <2>2, <2>3
<1>5. "read" \in Messages /\ "read" \notin Endings
  BY DEF Messages, StreamEvents, Endings
<1>6. Calm(q["rcv"], q'["rcv"])
  BY <1>0, <1>1, <1>5, CalmSame, CalmAppend
<1>7. \A d \in Ends : EndOK(d)'
  <2>1. \A d \in Ends : Held(q'[d]) \cap Endings \subseteq Held(q[d])
    BY <1>1, <1>6 DEF Calm, Ends
  <2> QED BY <1>1, <2>1 DEF Good, EndOK, Endings
<1>8. SenderSide'
  BY <1>0, <1>1 DEF SenderSide
<1>9. pendingRead'["rcv"] => Held(q'["rcv"]) \cap Reads # {}
  <2>1. CASE pendingRead["rcv"]
    BY <1>0, <1>6, <2>1 DEF ReceiverSide, Calm
  <2>2. CASE q'["rcv"] = Append(q["rcv"], "read")
    <3>1. Held(Append(q["rcv"], "read")) = Held(q["rcv"]) \cup {"read"}
      BY <1>0, <1>5, AppendQueue
    <3> QED BY <2>2, <3>1 DEF Reads
  <2> QED BY <1>1, <2>1, <2>2
<1>10. ReceiverSide'
  <2>1. \A m \in {"run", "state", "close"} : m \in Held(q'["rcv"]) => m \in Held(q["rcv"])
    BY <1>6 DEF Calm, Endings
  <2> QED BY <1>0, <1>1, <1>2, <1>3, <1>4, <1>9, <2>1 DEF ReceiverSide
<1> QED BY <1>7, <1>8, <1>10 DEF Good

\* Two sequences that are prefixes of each other are the same.
LEMMA PrefixBoth ==
  ASSUME NEW s \in Seq(Nat), NEW t \in Seq(Nat), IsPrefix(s, t), IsPrefix(t, s)
  PROVE  s = t
<1>1. Len(s) <= Len(t) /\ Len(t) <= Len(s) /\ \A i \in 1..Len(s) : s[i] = t[i]
  BY PrefixIff
<1>2. Len(s) = Len(t)
  BY <1>1
<1> QED BY <1>1, <1>2, SeqEqual

\* The receiver writes its buffer_ to its file.
LEMMA StoreGood ==
  ASSUME TypeOK, TypeOK', Life, DataInv, Good, StoreStep
  PROVE  Good'
<1>0. /\ UNCHANGED <<fpos, chan, term, stanza, q, stream, tcp, shut, sbuf, rbuf, pendingRead,
                     readEnable>>
      /\ pc["rcv"] = "store" /\ stream["rcv"] /\ "rcv" \in Ends /\ "snd" \in Ends
      /\ SenderSide /\ ReceiverSide
  BY DEF StoreStep, sessVars, chanVars, tcpVars, Ends, Life, LifeOK, LifeAt, Good
<1>1. pc'["rcv"] = "read" /\ buffer'["snd"] = buffer["snd"]
  BY DEF StoreStep, Set, TypeOK, Ends
<1>2. DataInv' /\ IsPrefix(out, out') /\ Received' = Received
  BY <1>0, StoreData
<1>3. out = Source => out' = Source
  <2>1. out' \in Seq(Nat) /\ Source \in Seq(Nat) /\ IsPrefix(out', Source)
    BY <1>2, ConstantsAssumption DEF TypeOK, DataInv
  <2> QED BY <1>2, <2>1, PrefixBoth
<1>4. \A d \in Ends : EndOK(d)'
  BY <1>0 DEF Good, EndOK
<1>5. SenderSide' /\ ReceiverSide'
  BY <1>0, <1>1, <1>2, <1>3 DEF SenderSide, ReceiverSide
<1> QED BY <1>4, <1>5 DEF Good

\* The queue and the connection after OnChannelDestroyed
LEMMA DestroyedQueue ==
  ASSUME TypeOK, NEW e \in Ends, NEW q0 \in Seq(Messages), NEW a \in Seq(Messages),
         OnChannelDestroyed(e, q0, a)
  PROVE  /\ Held(q'[e]) = (Held(q0) \ {"destroychannel"}) \cup {"purge"}
                          \cup Held(CloseEvent(e)) \cup Held(a)
         /\ Held(CloseEvent(e)) \subseteq {"close"} /\ (~stream[e] => Held(CloseEvent(e)) = {})
         /\ tcp'[e] = "gone" /\ shut'[e] /\ ~chan'[e]
         /\ \A d \in Ends \ {e} : q'[d] = q[d] /\ tcp'[d] = tcp[d] /\ shut'[d] = shut[d]
                                /\ chan'[d] = chan[d]
         /\ e = "snd" => rbuf' = rbuf /\ sbuf' = <<>>
         /\ e = "rcv" => rbuf' = <<>> /\ sbuf' = sbuf
<1> DEFINE x == ClearDestroy(q0)
           y == <<"purge">>
           z == CloseEvent(e)
<1>1. x \in Seq(Messages) /\ Held(x) = Held(q0) \ {"destroychannel"}
  BY WithoutQueue DEF ClearDestroy
<1>2. y \in Seq(Messages) /\ Held(y) = {"purge"}
  BY Posts, ShortQueues
<1>3. z \in Seq(Messages) /\ Held(z) \subseteq {"close"} /\ (~stream[e] => Held(z) = {})
  BY Posts, ShortQueues DEF CloseEvent
<1>4. q'[e] = x \o y \o z \o a
  BY DEF OnChannelDestroyed, Set, TypeOK
<1>5. /\ tcp'[e] = "gone" /\ shut'[e] /\ ~chan'[e]
      /\ \A d \in Ends \ {e} : q'[d] = q[d] /\ tcp'[d] = tcp[d] /\ shut'[d] = shut[d]
                             /\ chan'[d] = chan[d]
      /\ e = "snd" => rbuf' = rbuf /\ sbuf' = <<>>
      /\ e = "rcv" => rbuf' = <<>> /\ sbuf' = sbuf
  BY DEF OnChannelDestroyed, DeleteTcp, Set, TypeOK
<1> HIDE DEF x, y, z
<1> DEFINE w == x \o y \o z
<1>6. w \in Seq(Messages) /\ Held(w) = Held(x) \cup Held(y) \cup Held(z)
  BY <1>1, <1>2, <1>3, ThreeQueues
<1>7. q'[e] = w \o a
  BY <1>4
<1> HIDE DEF w
<1>8. Held(w \o a) = Held(w) \cup Held(a)
  BY <1>6, ConcatQueues
<1> QED BY <1>1, <1>2, <1>3, <1>5, <1>6, <1>7, <1>8 DEF z

\* A channel that has drained destroys itself and terminates the session.
LEMMA DestroyChannelGood ==
  ASSUME TypeOK, Good, NEW e \in Ends, DestroyChannel(e)
  PROVE  Good'
<1> DEFINE live == term[e] = "live"
           a == IF live THEN <<"run", "state">> ELSE <<>>
<1>0. /\ q[e] \in Seq(Messages) /\ "destroychannel" \in Held(q[e])
      /\ Tail(q[e]) \in Seq(Messages) /\ Held(Tail(q[e])) \subseteq Held(q[e])
  BY Rest, TailQueue DEF DestroyChannel, Next_
<1>1. ~stream[e] /\ tcp[e] = "gone" /\ EndOK(e)
  BY <1>0 DEF Good, EndOK
<1>2. a \in Seq(Messages) /\ Held(a) \subseteq {"run", "state"}
  BY Posts, ShortQueues
<1>3. OnChannelDestroyed(e, Tail(q[e]), a)
  BY DEF DestroyChannel
<1>4. /\ UNCHANGED <<fpos, out, buffer, pc, stream, pendingRead, readEnable, stanza>>
      /\ \A d \in Ends : term'[d] = term[d] \/ (d = e /\ term'[d] = "sent")
  BY DEF DestroyChannel, pumpVars, Set, TypeOK
<1> HIDE DEF a
<1>5. /\ Held(q'[e]) = (Held(Tail(q[e])) \ {"destroychannel"}) \cup {"purge"}
                       \cup Held(CloseEvent(e)) \cup Held(a)
      /\ Held(CloseEvent(e)) = {}
      /\ tcp'[e] = "gone" /\ shut'[e] /\ ~chan'[e]
      /\ \A d \in Ends \ {e} : q'[d] = q[d] /\ tcp'[d] = tcp[d] /\ shut'[d] = shut[d]
                             /\ chan'[d] = chan[d]
      /\ e = "snd" => rbuf' = rbuf /\ sbuf' = <<>>
  BY ZenonT(60), <1>0, <1>1, <1>2, <1>3, DestroyedQueue
<1>6. EndOK(e)'
  BY <1>0, <1>1, <1>2, <1>4, <1>5 DEF EndOK
<1>7. \A d \in Ends \ {e} : EndOK(d)'
  BY <1>4, <1>5 DEF Good, EndOK
<1>8. ASSUME stream["rcv"] PROVE SenderSide' /\ ReceiverSide'
  <2>1. SenderSide /\ ReceiverSide /\ e = "snd" /\ "rcv" \in Ends \ {e}
    BY <1>1, <1>8 DEF Good, Ends
  <2>2. Received' = Received
    BY <1>4, <1>5, <2>1 DEF Received
  <2>3. SenderSide'
    BY <1>0, <1>1, <1>2, <1>4, <1>5, <2>1 DEF SenderSide
  <2>4. ReceiverSide'
    BY <1>1, <1>4, <1>5, <2>1, <2>2 DEF ReceiverSide
  <2> QED BY <2>3, <2>4
<1> QED BY <1>4, <1>6, <1>7, <1>8 DEF Good

\* The terminate stanza is sent.
LEMMA RunTasksGood ==
  ASSUME TypeOK, Good, NEW e \in Ends, RunTasks(e)
  PROVE  Good'
<1>0. /\ q[e] \in Seq(Messages) /\ q[e] # <<>> /\ Head(q[e]) = "run"
      /\ Held(q[e]) = {"run"} \cup Held(Tail(q[e]))
      /\ q'[e] = Tail(q[e]) /\ \A d \in Ends \ {e} : q'[d] = q[d]
  BY Rest, TailQueue DEF RunTasks, Next_, Set, TypeOK
<1>1. /\ UNCHANGED <<fpos, out, buffer, pc, stream, chan, pendingRead, tcp, shut, sbuf, rbuf,
                     readEnable, term>>
      /\ stanza' = stanza \cup {Peer(e)}
  BY DEF RunTasks, pumpVars, chanVars, tcpVars
<1>2. \A d \in Ends : Held(q'[d]) \subseteq Held(q[d])
  BY <1>0
<1>3. \A d \in Ends : EndOK(d)'
  BY <1>1, <1>2 DEF Good, EndOK
<1>4. ASSUME stream["rcv"] PROVE SenderSide' /\ ReceiverSide'
  <2>1. SenderSide /\ ReceiverSide
    BY <1>4 DEF Good
  <2>2. e = "snd" /\ tcp["snd"] = "gone" /\ stanza' = stanza \cup {"rcv"} /\ q'["rcv"] = q["rcv"]
    BY <1>0, <1>1, <2>1 DEF ReceiverSide, SenderSide, Peer, Ends
  <2>3. Received' = Received
    BY <1>1 DEF Received
  <2>4. SenderSide'
    BY <1>1, <1>2, <2>1, <2>2 DEF SenderSide, Ends
  <2>5. ReceiverSide'
    BY <1>1, <2>1, <2>2, <2>3 DEF ReceiverSide
  <2> QED BY <2>4, <2>5
<1> QED BY <1>1, <1>3, <1>4 DEF Good

\* The terminate stanza arrives.
LEMMA RecvTerminateGood ==
  ASSUME TypeOK, Good, NEW e \in Ends, RecvTerminate(e)
  PROVE  Good'
<1>0. /\ q[e] \in Seq(Messages) /\ e \in stanza /\ stanza' = stanza \ {e} /\ pc[e] = "idle"
      /\ UNCHANGED <<fpos, out, buffer, pc, stream, chan, pendingRead, tcp, shut, sbuf, rbuf,
                     readEnable>>
  BY DEF RecvTerminate, TypeOK, pumpVars, chanVars, tcpVars, Idle
<1>1. \/ UNCHANGED <<term, q>>
      \/ /\ term'[e] = "received" /\ \A d \in Ends \ {e} : term'[d] = term[d]
         /\ q'[e] = Append(q[e], "state") /\ \A d \in Ends \ {e} : q'[d] = q[d]
  BY DEF RecvTerminate, Set, TypeOK
<1>2. /\ Held(Append(q[e], "state")) = Held(q[e]) \cup {"state"}
      /\ Before(q[e], Reads, "state") /\ Held(q[e]) \cap Reads # {}
           => Before(Append(q[e], "state"), Reads, "state")
  BY <1>0, Posts, AppendQueue
<1>3. \A d \in Ends : \A m : m \in Held(q'[d]) => m \in Held(q[d]) \/ (d = e /\ m = "state")
  BY <1>1, <1>2
<1>4. \A d \in Ends : EndOK(d)'
  BY SMTT(30), <1>0, <1>3 DEF Good, EndOK
<1>5. ASSUME stream["rcv"] PROVE SenderSide' /\ ReceiverSide'
  <2>1. SenderSide /\ ReceiverSide
    BY <1>5 DEF Good
  <2>2. e = "rcv" /\ "snd" \in Ends \ {e}
    BY <1>0, <2>1 DEF SenderSide, Ends
  <2>3. Received' = Received
    BY <1>0 DEF Received
  <2>4. SenderSide'
    BY <1>0, <1>1, <2>1, <2>2 DEF SenderSide
  <2>5. CASE UNCHANGED <<term, q>>
    <3>1. ReceiverSide'
      BY <1>0, <2>1, <2>2, <2>3, <2>5 DEF ReceiverSide
    <3> QED BY <2>4, <3>1
  <2>6. CASE term'[e] = "received" /\ q'[e] = Append(q[e], "state")
    <3>1. \A m : m \in Held(q'["rcv"]) <=> m \in Held(q["rcv"]) \cup {"state"}
      BY <1>2, <2>2, <2>6
    <3>2. tcp["snd"] = "gone" /\ term'["rcv"] = "received"
      BY <1>0, <2>1, <2>2, <2>6 DEF ReceiverSide
    <3>3. rbuf # <<>> => Before(q'["rcv"], Reads, "state")
      BY <1>0, <1>2, <2>1, <2>2, <2>6 DEF ReceiverSide
    <3>4. Held(q["rcv"]) \subseteq Held(q'["rcv"])
      BY <3>1
    <3>5. ReceiverSide'
      BY <1>0, <2>1, <2>3, <3>1, <3>2, <3>3, <3>4 DEF ReceiverSide
    <3> QED BY <2>4, <3>5
  <2> QED BY <1>1, <2>5, <2>6
<1> QED BY <1>0, <1>4, <1>5 DEF Good

\* A terminated session is destroyed, and its channel with it.
LEMMA SessionStateGood ==
  ASSUME TypeOK, Life, DataInv, Good, NEW e \in Ends, SessionState(e)
  PROVE  Good'
<1> DEFINE c == ClearSession(q[e])
           z == <<>>
<1>0. /\ q[e] \in Seq(Messages) /\ q[e] # <<>> /\ Head(q[e]) = "state" /\ pc[e] = "idle"
      /\ "state" \in Held(q[e])
  BY Rest, TailQueue DEF SessionState, Next_, Idle
<1>1. /\ UNCHANGED <<fpos, out, buffer, pc, stream, pendingRead, readEnable, stanza>>
      /\ term'[e] = "dead" /\ \A d \in Ends \ {e} : term'[d] = term[d]
  BY DEF SessionState, pumpVars, Set, TypeOK
<1>2. c \in Seq(Messages) /\ Held(c) = Held(q[e]) \ {"state", "sesserror"}
  BY <1>0, WithoutQueue DEF ClearSession
<1>3. z \in Seq(Messages) /\ Held(z) = {}
  BY ShortQueues
<1>4. ~chan[e] => /\ q'[e] = c /\ UNCHANGED <<chan, tcp, sbuf, sent, rbuf, shut>> /\ tcp[e] = "gone"
                  /\ \A d \in Ends \ {e} : q'[d] = q[d]
  BY DEF SessionState, Set, TypeOK, Life, LifeOK, LifeAt
<1>5. chan[e] => OnChannelDestroyed(e, c, z)
  BY DEF SessionState
<1> HIDE DEF c, z
<1>6. /\ \A d \in Ends \ {e} : q'[d] = q[d] /\ tcp'[d] = tcp[d] /\ shut'[d] = shut[d]
                             /\ chan'[d] = chan[d]
      /\ tcp'[e] = "gone"
      /\ \A m : m \in Held(q'[e]) => \/ m \in Held(q[e]) /\ m \notin {"state", "sesserror"}
                                     \/ m = "purge" \/ (m = "close" /\ stream[e] /\ chan[e])
      /\ Held(q[e]) \cap Reads \subseteq Held(q'[e])
      /\ chan[e] => "destroychannel" \notin Held(q'[e])
      /\ e = "rcv" => (rbuf' = rbuf \/ rbuf' = <<>>) /\ sbuf' = sbuf
      /\ ~chan[e] => UNCHANGED <<chan, tcp, sbuf, rbuf, shut>>
  <2>1. CASE chan[e]
    <3>1. /\ Held(q'[e]) = (Held(c) \ {"destroychannel"}) \cup {"purge"}
                           \cup Held(CloseEvent(e)) \cup Held(z)
          /\ Held(CloseEvent(e)) \subseteq {"close"} /\ (~stream[e] => Held(CloseEvent(e)) = {})
          /\ tcp'[e] = "gone" /\ shut'[e] /\ ~chan'[e]
          /\ \A d \in Ends \ {e} : q'[d] = q[d] /\ tcp'[d] = tcp[d] /\ shut'[d] = shut[d]
                                 /\ chan'[d] = chan[d]
          /\ e = "rcv" => rbuf' = <<>> /\ sbuf' = sbuf
      BY <1>2, <1>3, <1>5, <2>1, DestroyedQueue
    <3>2. Held(q[e]) \cap Reads \subseteq Held(q'[e])
      BY <1>2, <3>1 DEF Reads
    <3> QED BY <1>2, <1>3, <2>1, <3>1, <3>2
  <2>2. CASE ~chan[e]
    BY <1>2, <1>4, <2>2 DEF Reads
  <2> QED BY <2>1, <2>2
<1>7. EndOK(e)'
  <2>1. EndOK(e)
    BY DEF Good
  <2> QED BY <1>1, <1>6, <2>1 DEF EndOK
<1>8. \A d \in Ends \ {e} : EndOK(d)'
  BY <1>1, <1>6 DEF Good, EndOK
<1>9. ASSUME stream["rcv"] PROVE SenderSide' /\ ReceiverSide'
  <2>1. SenderSide /\ ReceiverSide
    BY <1>9 DEF Good
  <2>2. CASE e = "snd"
    <3>1. ~chan[e] /\ "rcv" \in Ends \ {e}
      BY <1>0, <2>1, <2>2 DEF SenderSide, Ends
    <3>2. Received' = Received
      BY <1>1, <1>6, <3>1 DEF Received
    <3>3. \A m : m \in Held(q'[e]) => m \in Held(q[e]) \/ m = "purge"
      BY <1>6, <3>1
    <3>4. SenderSide'
      BY <1>1, <1>6, <2>1, <2>2, <3>1, <3>3 DEF SenderSide
    <3>5. ReceiverSide'
      BY <1>1, <1>6, <2>1, <2>2, <3>1, <3>2 DEF ReceiverSide
    <3> QED BY <3>4, <3>5
  <2>3. CASE e = "rcv"
    <3>1. term["rcv"] = "received" /\ tcp["snd"] = "gone" /\ Received = Source
      BY <1>0, <2>1, <2>3 DEF ReceiverSide
    <3>2. ~Before(q["rcv"], Reads, "state")
      BY <1>0, <2>3, TailQueue
    <3>3. rbuf = <<>> /\ rbuf' = <<>> /\ buffer["rcv"] = <<>>
      BY <1>0, <1>6, <1>9, <2>1, <2>3, <3>2 DEF ReceiverSide, DataInv
    <3>4. Received' = Received /\ out = Source
      <4>1. out \in Seq(Nat)
        BY DEF TypeOK
      <4>2. out \o <<>> = out
        BY <4>1, ConcatEmptySeq
      <4>3. Received = out \o <<>> \o <<>> /\ Received' = out \o <<>> \o <<>>
        BY <1>1, <3>3 DEF Received
      <4> QED BY <3>1, <4>2, <4>3
    <3>5. "snd" \in Ends \ {e}
      BY <2>3 DEF Ends
    <3>6. SenderSide'
      BY <1>1, <1>6, <2>1, <2>3, <3>5 DEF SenderSide
    <3>7. ReceiverSide'
      BY <1>1, <1>6, <2>1, <2>3, <3>1, <3>3, <3>4, <3>5 DEF ReceiverSide
    <3> QED BY <3>6, <3>7
  <2> QED BY <2>2, <2>3 DEF Ends
<1> QED BY <1>1, <1>7, <1>8, <1>9 DEF Good

\* Deleting the channel's objects, and Loop
LEMMA RestGood ==
  ASSUME TypeOK, Good,
         \/ \E e \in Ends : Purge(e) \/ Destroy(e)
         \/ DelayFires \/ LoopReturns \/ UNCHANGED vars
  PROVE  Good'
<1>0. \A d \in Ends : q[d] \in Seq(Messages)
  BY DEF TypeOK
<1>m. /\ {"purge", "destroy", "done"} \cap Reads = {} /\ {"destroy", "done"} \cap Endings = {}
      /\ "done" \in Messages
  BY DEF Reads, Endings, Messages
<1>1. UNCHANGED <<fpos, out, buffer, pc, stream, chan, pendingRead, tcp, shut, sbuf, rbuf,
                  readEnable, term, stanza>>
  BY DEF Purge, Destroy, DelayFires, LoopReturns, vars, pumpVars, chanVars, tcpVars, sessVars
<1>2. ASSUME \A d \in Ends : Calm(q[d], q'[d]) PROVE Good'
  <2>1. Held(q'["snd"]) \cap Endings \subseteq Held(q["snd"]) /\ Calm(q["rcv"], q'["rcv"])
    BY <1>2 DEF Calm, Ends
  <2> QED BY <1>1, <2>1, CalmGood
<1>3. ASSUME NEW e \in Ends, Purge(e) PROVE Good'
  <2> DEFINE t == Tail(q[e])
             a == IF stream[e] THEN <<>> ELSE <<"destroy">>
  <2>1. /\ q[e] \in Seq(Messages) /\ q[e] # <<>> /\ Head(q[e]) = "purge" /\ t \in Seq(Messages)
        /\ q'[e] = t \o a /\ \A d \in Ends \ {e} : q'[d] = q[d]
    BY <1>3, Rest DEF Purge, Next_, Set, TypeOK
  <2>2. Calm(q[e], t)
    BY <1>m, <2>1, CalmTail
  <2>3. a \in Seq(Messages) /\ Held(a) \cap Endings = {}
    BY <1>m, Posts, ShortQueues
  <2> HIDE DEF t, a
  <2>4. Calm(q[e], q'[e])
    BY <2>1, <2>2, <2>3, CalmConcat, CalmTrans
  <2> QED BY <1>2, <2>1, <2>4, CalmSame
<1>4. ASSUME NEW e \in Ends, NEW m \in {"destroy", "done"}, Next_(e, m),
             q' = Set(q, e, Tail(q[e]))
      PROVE  Good'
  <2>1. /\ q[e] \in Seq(Messages) /\ q[e] # <<>> /\ Head(q[e]) = m
        /\ q'[e] = Tail(q[e]) /\ \A d \in Ends \ {e} : q'[d] = q[d]
    BY <1>4 DEF Next_, Set, TypeOK
  <2>2. Calm(q[e], q'[e])
    BY <1>m, <2>1, CalmTail
  <2> QED BY <1>2, <2>1, <2>2, CalmSame
<1>5. CASE DelayFires
  <2>1. /\ client \in Ends /\ q'[client] = Append(q[client], "done")
        /\ \A d \in Ends \ {client} : q'[d] = q[d]
    BY <1>5 DEF DelayFires, Set, TypeOK
  <2>2. Calm(q[client], q'[client])
    BY <1>0, <1>m, <2>1, CalmAppend
  <2> QED BY <1>2, <2>1, <2>2, CalmSame
<1>6. CASE LoopReturns
  <2>1. client \in Ends /\ Next_(client, "done") /\ q' = Set(q, client, Tail(q[client]))
    BY <1>6 DEF LoopReturns, TypeOK
  <2> QED BY <1>4, <2>1
<1>7. ASSUME NEW e \in Ends, Destroy(e) PROVE Good'
  BY <1>4, <1>7 DEF Destroy
<1>8. CASE UNCHANGED vars
  BY <1>2, <1>8, CalmSame DEF vars
<1> QED BY <1>3, <1>5, <1>6, <1>7, <1>8

\* Every step of a transfer without errors
LEMMA NextEnd ==
  ASSUME TypeOK, TypeOK', Life, DataInv, EndInv, [Next]_vars
  PROVE  EndInv'
<1> SUFFICES ASSUME faults' = 0 PROVE Good'
  BY DEF EndInv
<1>1. CASE Fault
  <2>1. faults' = faults + 1
    BY <1>1 DEF Fault, Closedown, SessionTimeout, ReadError, StoreError
  <2>2. faults \in Nat
    BY ConstantsAssumption DEF TypeOK
  <2> QED BY <2>1, <2>2
<1>2. ASSUME NEW e \in Ends, Step(e) PROVE Good'
  <2>1. faults' = faults
    BY <1>2 DEF Step, TcpOpen, StreamEvent, DestroyChannel, RunTasks, RecvTerminate,
       SessionError, SessionState, Purge, Destroy
  <2>2. Good
    BY <2>1 DEF EndInv
  <2>3. ~SessionError(e)
    <3>1. "sesserror" \notin Held(q[e])
      BY <2>2 DEF Good, EndOK
    <3> QED BY <3>1, HeadHeld DEF SessionError, Next_
  <2>4. CASE \E m \in StreamEvents : StreamEvent(e, m)
    BY <2>2, <2>4, StreamEventGood
  <2> QED BY <1>2, <2>2, <2>3, <2>4, TcpOpenGood, DestroyChannelGood, RunTasksGood,
             RecvTerminateGood, SessionStateGood, RestGood DEF Step
<1>3. CASE SenderStep \/ ReceiverStep \/ Deliver \/ Ack \/ LoopStep \/ UNCHANGED vars
  <2>1. faults' = faults
    BY <1>3 DEF SenderStep, ReceiverStep, LoopStep, WriteStep, FillStep, ReadStep, StoreStep,
       ClockStep, Deliver, Ack, DelayFires, LoopReturns, vars
  <2>2. Good
    BY <2>1 DEF EndInv
  <2> QED BY <1>3, <2>2, WriteGood, FillGood, ReadGood, StoreGood, ClockGood, DeliverGood,
             AckGood, RestGood DEF SenderStep, ReceiverStep, LoopStep
<1> QED BY <1>1, <1>2, <1>3 DEF Next

\* Nothing has ended before the first step.
LEMMA InitEnd == Init => EndInv
<1> SUFFICES ASSUME Init PROVE Good
  BY DEF EndInv
<1>1. Held(<<>>) = {}
  BY ShortQueues
<1>2. \A e \in Ends : EndOK(e)
  BY <1>1 DEF Init, EndOK
<1>3. SenderSide
  BY <1>1 DEF Init, SenderSide, Ends
<1>4. ReceiverSide
  BY <1>1 DEF Init, ReceiverSide, Ends
<1> QED BY <1>2, <1>3, <1>4 DEF Good

\* How a transfer without errors ends, in every state
THEOREM EndInvariant == Spec => []EndInv
<1>1. TransferInv /\ EndInv /\ [Next]_vars /\ TransferInv' => EndInv'
  BY NextEnd DEF TransferInv, ControlInv
<1> QED BY <1>1, InitEnd, TransferInvariant, PTL DEF Spec

-----------------------------------------------------------------------------
(* A transfer implements FileCopy.                                         *)

Grows == IsPrefix(out, out') /\ IsPrefix(out', Source)

\* What a step has to do to the receiver's file, its handle and the errors
\* seen, in order to be a step of FileCopy or none.
LEMMA CopySteps ==
  ASSUME TypeOK, TypeOK', faults' = faults \/ faults' = faults + 1,
         \/ UNCHANGED <<out, faults, late>> /\ file'["rcv"] = file["rcv"]
         \/ file["rcv"] /\ Grows /\ UNCHANGED <<file, faults, late>>
         \/ /\ file["rcv"] /\ ~file'["rcv"] /\ Grows /\ late' = late
            /\ out' = Source \/ faults' > 0
         \/ /\ out' = out /\ file'["rcv"] = file["rcv"] /\ faults' > 0 /\ late' = late
         \/ UNCHANGED <<out, file, faults>> /\ ~late
  PROVE  [Copied!Next]_(Copied!vars)
<1>0. /\ file["rcv"] \in BOOLEAN /\ file'["rcv"] \in BOOLEAN /\ faults \in Nat /\ faults' \in Nat
      /\ late \in BOOLEAN /\ late' \in BOOLEAN
  BY ConstantsAssumption DEF TypeOK, Ends
<1> DEFINE f == faults > 0 \/ late
<1>f. (f => f' \/ late) /\ f \in BOOLEAN /\ f' \in BOOLEAN
  BY <1>0
<1>1. CASE UNCHANGED <<out, faults, late>> /\ file'["rcv"] = file["rcv"]
  BY <1>1 DEF Copied!vars
<1>2. CASE file["rcv"] /\ Grows /\ UNCHANGED <<file, faults, late>>
  BY <1>0, <1>2 DEF Copied!Next, Copied!Copy, Copied!Extends, Grows, IsPrefix, Copied!IsPrefix
<1>3. CASE /\ file["rcv"] /\ ~file'["rcv"] /\ Grows /\ late' = late
           /\ out' = Source \/ faults' > 0
  <2>1. file'["rcv"] = FALSE
    BY <1>0, <1>3
  <2>2. (f => f') /\ (out' = Source \/ f')
    BY <1>0, <1>3, <1>f
  <2>3. Copied!Extends(out')
    BY <1>3 DEF Copied!Extends, Grows, IsPrefix, Copied!IsPrefix
  <2>4. Copied!Close
    BY <1>3, <1>f, <2>1, <2>2, <2>3 DEF Copied!Close
  <2> QED BY <2>4 DEF Copied!Next
<1>4. CASE out' = out /\ file'["rcv"] = file["rcv"] /\ faults' > 0 /\ late' = late
  <2>1. f' = TRUE
    BY <1>4
  <2> QED BY <1>4, <2>1 DEF Copied!Next, Copied!Fault
<1>5. CASE UNCHANGED <<out, file, faults>> /\ ~late
  <2>1. CASE late'
    <3>1. f' = TRUE
      BY <2>1
    <3> QED BY <1>5, <3>1 DEF Copied!Next, Copied!Fault
  <2>2. CASE ~late'
    <3>1. late' = late
      BY <1>0, <1>5, <2>2
    <3> QED BY <1>5, <3>1 DEF Copied!vars
  <2> QED BY <2>1, <2>2
<1> QED BY <1>1, <1>2, <1>3, <1>4, <1>5

\* The receiver's Cleanup closes its file.
LEMMA ReceiverCloses ==
  ASSUME TypeOK, NEW e \in Ends, NEW delay, NEW q0, Cleanup(e, delay, q0)
  PROVE  file'[e] = FALSE /\ (e = "snd" => file'["rcv"] = file["rcv"])
BY DEF Cleanup, Set, TypeOK, Ends

\* Every step of a transfer is a step of FileCopy or leaves the copy alone.
LEMMA NextCopies ==
  ASSUME TransferInv, EndInv, TransferInv', [Next]_vars
  PROVE  [Copied!Next]_(Copied!vars)
<1>0. /\ TypeOK /\ TypeOK' /\ Life /\ DataInv /\ DataInv' /\ faults \in Nat
      /\ "rcv" \in Ends /\ "snd" \in Ends /\ out \in Seq(Nat) /\ Source \in Seq(Nat)
      /\ IsPrefix(out, out)
  <2>1. TypeOK /\ TypeOK' /\ Life /\ DataInv /\ DataInv'
    BY DEF TransferInv, ControlInv
  <2>2. faults \in Nat /\ out \in Seq(Nat) /\ Source \in Seq(Nat)
    BY <2>1, ConstantsAssumption DEF TypeOK
  <2>3. IsPrefix(out, out)
    BY DEF IsPrefix
  <2> QED BY <2>1, <2>2, <2>3 DEF Ends
<1>1. \A e \in Ends : file[e] = stream[e]
  BY <1>0 DEF Life, LifeOK, LifeAt
<1>2. out' = out => Grows
  BY <1>0 DEF Grows, DataInv
<1>3. CASE \/ \E e \in Ends : \/ TcpOpen(e) \/ DestroyChannel(e) \/ RunTasks(e) \/ RecvTerminate(e)
                            \/ SessionError(e) \/ SessionState(e) \/ Purge(e) \/ Destroy(e)
           \/ Deliver \/ Ack \/ ClockStep \/ LoopReturns \/ UNCHANGED vars
  <2>1. UNCHANGED <<out, file, faults, late>>
    BY <1>3 DEF TcpOpen, DestroyChannel, RunTasks, RecvTerminate, SessionError, SessionState,
       Purge, Destroy, Deliver, Ack, ClockStep, LoopReturns, vars, pumpVars, loopVars
  <2> QED BY <1>0, <2>1, CopySteps
<1>4. ASSUME NEW e \in Ends, Closedown(e) \/ SessionTimeout(e)
      PROVE  [Copied!Next]_(Copied!vars)
  <2>1. UNCHANGED <<out, file, late>> /\ faults' = faults + 1
    BY <1>4 DEF Closedown, SessionTimeout, pumpVars, loopVars
  <2>2. faults' > 0
    BY <1>0, <2>1
  <2> QED BY <1>0, <2>1, <2>2, CopySteps
<1>5. ASSUME NEW e \in Ends, NEW m \in StreamEvents, StreamEvent(e, m)
      PROVE  [Copied!Next]_(Copied!vars)
  <2>1. UNCHANGED <<out, faults, late>> /\ q[e] # <<>> /\ Head(q[e]) = m
    BY <1>5 DEF StreamEvent, Next_
  <2>2. m \in Held(q[e])
    BY <1>0, <2>1, HeadHeld
  <2>3. stream[e] /\ file[e]
    BY <1>0, <1>1, <2>2 DEF Life, LifeOK, LifeAt
  <2>4. CASE m \notin {"close", "error"}
    <3>1. file' = file
      BY <1>5, <2>4 DEF StreamEvent
    <3> QED BY <1>0, <2>1, <3>1, CopySteps
  <2>5. CASE e = "snd" /\ m \in {"close", "error"}
    <3>1. file'["rcv"] = file["rcv"]
      BY <1>0, <1>5, <2>5, ReceiverCloses DEF StreamEvent
    <3> QED BY <1>0, <2>1, <3>1, CopySteps
  <2>6. CASE e = "rcv" /\ m \in {"close", "error"}
    <3>1. ~file'["rcv"]
      BY <1>0, <1>5, <2>6, ReceiverCloses DEF StreamEvent
    <3>2. out' = Source \/ faults' > 0
      <4>1. CASE faults = 0
        <5>1. m # "error" /\ ("close" \in Held(q["rcv"]) => out = Source)
          BY <2>2, <2>3, <2>6, <4>1 DEF EndInv, Good, EndOK, ReceiverSide
        <5> QED BY <2>1, <2>2, <2>6, <5>1
      <4>2. CASE faults # 0
        BY <1>0, <2>1, <4>2
      <4> QED BY <4>1, <4>2
    <3> QED BY <1>0, <1>2, <2>1, <2>3, <2>6, <3>1, <3>2, CopySteps
  <2> QED BY <2>4, <2>5, <2>6 DEF Ends
<1>6. CASE WriteStep \/ FillStep
  <2>1. UNCHANGED <<out, faults, late>>
    BY <1>6 DEF WriteStep, FillStep
  <2>2. file' = file \/ \E d : Cleanup("snd", d, q["snd"])
    BY <1>6 DEF WriteStep, FillStep
  <2>3. file'["rcv"] = file["rcv"]
    BY <1>0, <2>2, ReceiverCloses
  <2> QED BY <1>0, <2>1, <2>3, CopySteps
<1>7. CASE ReadError
  <2>1. UNCHANGED <<out, late>> /\ faults' = faults + 1
    BY <1>7 DEF ReadError
  <2>2. file'["rcv"] = file["rcv"]
    BY <1>0, <1>7, ReceiverCloses DEF ReadError
  <2>3. faults' > 0
    BY <1>0, <2>1
  <2> QED BY <1>0, <2>1, <2>2, <2>3, CopySteps
<1>8. CASE ReadStep
  <2>1. UNCHANGED <<out, faults, late>> /\ pc["rcv"] = "read"
    BY <1>8 DEF ReadStep
  <2>2. file["rcv"]
    BY <1>0, <1>1, <2>1 DEF Life, LifeOK, LifeAt
  <2>3. file' = file \/ (tcp["rcv"] = "closed" /\ Cleanup("rcv", FALSE, q["rcv"]))
    BY <1>8 DEF ReadStep
  <2>4. CASE file' = file
    BY <1>0, <2>1, <2>4, CopySteps
  <2>5. CASE tcp["rcv"] = "closed" /\ Cleanup("rcv", FALSE, q["rcv"])
    <3>1. ~file'["rcv"]
      BY <1>0, <2>5, ReceiverCloses
    <3>2. faults # 0
      BY <1>0, <2>5 DEF EndInv, Good, EndOK
    <3>3. faults' > 0
      BY <1>0, <2>1, <3>2
    <3> QED BY <1>0, <1>2, <2>1, <2>2, <3>1, <3>3, CopySteps
  <2> QED BY <2>3, <2>4, <2>5
<1>9. CASE StoreStep \/ \E n \in 0..(BufLen - 1) : StoreError(n)
  <2>1. Grows
    BY <1>0, <1>9, StoreData DEF Grows, DataInv
  <2>2. pc["rcv"] = "store" /\ late' = late
    BY <1>9 DEF StoreStep, StoreError, loopVars
  <2>3. file["rcv"]
    BY <1>0, <1>1, <2>2 DEF Life, LifeOK, LifeAt
  <2>4. CASE StoreStep
    <3>1. UNCHANGED <<file, faults>>
      BY <2>4 DEF StoreStep
    <3> QED BY <1>0, <2>1, <2>2, <2>3, <3>1, CopySteps
  <2>5. ASSUME NEW n \in 0..(BufLen - 1), StoreError(n) PROVE [Copied!Next]_(Copied!vars)
    <3>1. faults' = faults + 1 /\ Cleanup("rcv", FALSE, q["rcv"])
      BY <2>5 DEF StoreError
    <3>2. ~file'["rcv"]
      BY <1>0, <3>1, ReceiverCloses
    <3>3. faults' > 0
      BY <1>0, <3>1
    <3> QED BY <1>0, <2>1, <2>2, <2>3, <3>1, <3>2, <3>3, CopySteps
  <2> QED BY <1>9, <2>4, <2>5
<1>10. CASE DelayFires
  <2>1. UNCHANGED <<out, file, faults>> /\ delayed
    BY <1>10 DEF DelayFires, pumpVars
  <2>2. ~late
    BY <2>1 DEF TransferInv, ControlInv, DoneInv, DoneAt
  <2> QED BY <1>0, <2>1, <2>2, CopySteps
<1> QED BY <1>3, <1>4, <1>5, <1>6, <1>7, <1>8, <1>9, <1>10
       DEF Next, Step, SenderStep, ReceiverStep, LoopStep, Fault

\* The safety part of FileCopy: the copy only grows, is a prefix of the source at
\* every moment, and without an error is closed only when it is complete. In
\* particular the terminate stanza never overtakes the SE_READ that hands the
\* last units to the pump.
CopySafety == Copied!Init /\ [][Copied!Next]_(Copied!vars)

\* A transfer implements the safety part of FileCopy, whatever the order of its
\* steps and whatever fails.
THEOREM TransferCopies == Spec => CopySafety
<1>1. Init => Copied!Init
  BY DEF Init, Copied!Init, Ends
<1>2. TransferInv /\ EndInv /\ TransferInv' /\ [Next]_vars => [Copied!Next]_(Copied!vars)
  BY NextCopies
<1> QED BY <1>1, <1>2, TransferInvariant, EndInvariant, PTL DEF Spec, CopySafety
=============================================================================
