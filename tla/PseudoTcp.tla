----------------------------- MODULE PseudoTcp -----------------------------
(***************************************************************************)
(* The two ends of one PseudoTcp connection                                *)
(* (src/talk/p2p/base/pseudotcp.cc) and the packets between them: the      *)
(* handshake, segments and their retransmission, acknowledgements, the     *)
(* receive window with its out-of-order segments, the congestion window,   *)
(* the three timers, and the shutdown. The network loses, duplicates and   *)
(* reorders packets.                                                       *)
(*                                                                         *)
(* The client connects and sends a file; the server receives it. An end is *)
(* a record, a handler is an operator that takes the record to its next    *)
(* value and collects the packets it writes in the field out, so that one  *)
(* handler is one step, however many packets it writes.                    *)
(***************************************************************************)
EXTENDS Integers, Sequences, SequencesExt, FiniteSetsExt

CONSTANTS
  FileLen,      \* bytes of the file
  SBufLen,      \* m_sbuf_len
  RBufLen,      \* m_rbuf_len
  Mss,          \* the segment size adjustMTU finds
  IoSizes,      \* sizes of the buffers the users send from and read into
  SeqSpace,       \* sequence numbers are taken modulo this (2^32 in the code)
  MaxXmit,      \* transmissions of a segment before the connection is given up
                \* (15, and 30 while connecting, in the code)
  MaxFaults     \* bound: packets lost or duplicated, early timers, pauses and
                \* changes of the route in one behaviour

ASSUME ConstantsAssumption ==
  /\ {FileLen, SBufLen, RBufLen, Mss, SeqSpace, MaxXmit} \subseteq Nat \ {0}
  /\ MaxFaults \in Nat
  /\ IoSizes \subseteq Nat \ {0} /\ IoSizes # {}
  /\ RBufLen < SBufLen                 \* ASSERT in PseudoTcp::PseudoTcp
  /\ SBufLen < SeqSpace

Ends == {"client", "server"}
Peer(e) == IF e = "client" THEN "server" ELSE "client"

CTL_CONNECT == 0                 \* the one byte the connect message is reduced to
Hole == -1                       \* a byte nobody has written
InitMss == 1                     \* MIN_PACKET - PACKET_OVERHEAD
NoRoute == -1                    \* a path that takes nothing: every write fails
DupMax == 4                      \* m_dup_acks above 3 are all alike
CwndMax == 2 * RBufLen + 4 * Mss \* no window is larger

VARIABLES
  tcb,          \* the PseudoTcp object of each end
  net,          \* the packets under way to each end
  path,         \* the largest payload the path takes, or NoRoute. Each write of a
                \* larger one is EMSGSIZE, at 0 for the smallest mss too.
  written,      \* bytes the client's Send has accepted
  read,         \* bytes the server's Recv has returned
  faults        \* losses, duplicates and so on so far

vars == <<tcb, net, path, written, read, faults>>

---------------------------------------------------------------------------
(* Numbers of the header and windows are unsigned and wrap around.         *)

Add(a, b) == (a + b) % SeqSpace
Sub(a, b) == (a - b) % SeqSpace
Lesser(a, b) == IF a <= b THEN a ELSE b
Greater(a, b) == IF a >= b THEN a ELSE b

NewTcb ==
  [state    |-> "LISTEN",
   slist    |-> <<>>,            \* segments of the send buffer
   sbuf     |-> <<>>,            \* m_sbuf
   snd_una  |-> 0, snd_nxt |-> 0, snd_wnd |-> 1,
   rlist    |-> <<>>,            \* segments received out of order
   rbuf     |-> <<>>,            \* m_rbuf: the bytes ready to be read ...
   ahead    |-> [i \in 0..RBufLen - 1 |-> Hole],  \* ... and the space behind them
   rcv_nxt  |-> 0, rcv_wnd |-> RBufLen,
   mss      |-> InitMss,
   cwnd     |-> 2 * InitMss, ssthresh |-> RBufLen,
   dup_acks |-> 0, recover |-> 0,
   rto      |-> FALSE,           \* m_rto_base # 0
   t_ack    |-> FALSE,           \* m_t_ack # 0
   bWriteEnable |-> FALSE, bReadEnable |-> TRUE,
   shutdown |-> "NONE",
   deleted  |-> FALSE,           \* the channel has deleted the object
   writable |-> FALSE,           \* the user may call Send,
   readable |-> FALSE,           \* and Recv, again
   failed   |-> FALSE,           \* attemptSend last gave up on a transmission
   sflags   |-> "None",          \* argument of attemptSend
   out      |-> <<>>]            \* packets written by the handler

Room(t) == RBufLen - Len(t.rbuf)          \* GetWriteRemaining

---------------------------------------------------------------------------
(* Sending                                                                  *)

\* queue: the bytes go to the last segment if that was never transmitted
Queue(t, bytes, ctrl) ==
  LET n == Len(t.slist)
      last == t.slist[n]
  IN [t EXCEPT
       !.slist = IF n > 0 /\ last.ctrl = ctrl /\ last.xmit = 0
                 THEN [t.slist EXCEPT ![n].len = @ + Len(bytes)]
                 ELSE Append(t.slist, [seq |-> Add(t.snd_una, Len(t.sbuf)),
                                       len |-> Len(bytes), ctrl |-> ctrl, xmit |-> 0]),
       !.sbuf = t.sbuf \o bytes]

QueueConnectMessage(t) == Queue([t EXCEPT !.snd_wnd = 1], <<CTL_CONNECT>>, TRUE)

\* packet: header, and len bytes from offset of the send buffer. A packet
\* without bytes counts as sent even when writing it failed.
Packet(t, seq, ctrl, offset, len) ==
  [t EXCEPT
    !.t_ack = FALSE,
    !.out = IF path = NoRoute THEN @
            ELSE Append(@, [seq |-> seq, ctrl |-> ctrl, ack |-> t.rcv_nxt, wnd |-> t.rcv_wnd,
                            data |-> [i \in 1..len |-> IF offset + i <= Len(t.sbuf)
                                                       THEN t.sbuf[offset + i] ELSE Hole]])]

\* Mutant: the second part keeps the sequence number of the first.
SplitInPlace(slist, i, n) ==
  IF n >= slist[i].len THEN slist
  ELSE InsertAt([slist EXCEPT ![i].len = n], i + 1, [slist[i] EXCEPT !.len = @ - n])

\* The first n bytes of segment i become a segment of their own.
SplitSegment(slist, i, n) ==
  IF n >= slist[i].len THEN slist
  ELSE InsertAt([slist EXCEPT ![i].len = n], i + 1,
                [slist[i] EXCEPT !.seq = Add(@, n), !.len = @ - n])

\* transmit succeeds: neither too many retransmits, nor a failed write, nor an
\* MTU too small
MayTransmit(t, i) == t.slist[i].xmit < MaxXmit /\ path > 0

\* transmit, for a segment that may not: an MTU too small has taken mss down to
\* its smallest value. (It is there before the connection is open.)
TransmitFailed(t, i) ==
  IF t.slist[i].xmit < MaxXmit /\ path = 0 /\ t.mss > InitMss
  THEN [t EXCEPT !.mss = InitMss, !.cwnd = 2 * InitMss]
  ELSE t

\* transmit, for a segment that MayTransmit. A packet the path does not take
\* lowers mss, and what is left of the segment is sent later.
Transmit(t, i) ==
  LET want == Lesser(t.slist[i].len, t.mss)
      n    == Lesser(want, path)
      fit  == IF n = want THEN t ELSE [t EXCEPT !.mss = n, !.cwnd = 2 * n]
      sent == Packet(fit, t.slist[i].seq, t.slist[i].ctrl,
                     Sub(t.slist[i].seq, t.snd_una), n)
  IN [sent EXCEPT
       !.slist = [SplitSegment(t.slist, i, n) EXCEPT ![i].xmit = @ + 1],
       !.snd_nxt = IF t.slist[i].xmit = 0 THEN Add(t.snd_nxt, n) ELSE t.snd_nxt,
       !.rto = TRUE,
       !.failed = FALSE]

\* How much attemptSend may send now
Available(t) ==
  LET cwnd     == t.cwnd + (IF t.dup_acks \in {1, 2} THEN t.dup_acks * t.mss ELSE 0)
      window   == Lesser(t.snd_wnd, cwnd)
      inFlight == Sub(t.snd_nxt, t.snd_una)
      useable  == IF inFlight < window THEN window - inFlight ELSE 0
      avail    == Lesser(Sub(Len(t.sbuf), inFlight), t.mss)
  IN CASE avail <= useable       -> avail
       [] useable * 4 < window   -> 0          \* avoid silly windows
       [] OTHER                  -> useable

AckNow(t) == t.sflags = "Immediate" \/ t.t_ack

\* One round of the loop of attemptSend. A transmission that fails ends it; the
\* connection stays open, and no timer is started.
SendStep(t) ==
  LET avail == Available(t)
      unsent == {i \in DOMAIN t.slist : t.slist[i].xmit = 0}
      i == Min(unsent)
      split == [t EXCEPT !.slist = SplitSegment(@, i, avail)]
      done == [t EXCEPT !.sflags = "Done"]
      hold == t.snd_nxt > t.snd_una /\ avail < t.mss              \* Nagle's algorithm
  IN IF t.sflags = "Done" THEN t
     ELSE IF avail = 0
     THEN CASE t.sflags = "None" -> done
            [] t.sflags # "None" /\ AckNow(t)  -> Packet(done, t.snd_nxt, FALSE, 0, 0)
            [] t.sflags # "None" /\ ~AckNow(t) -> [done EXCEPT !.t_ack = TRUE]
     ELSE IF hold \/ unsent = {} THEN done
     ELSE IF MayTransmit(split, i) THEN [Transmit(split, i) EXCEPT !.sflags = "None"]
     ELSE [TransmitFailed(split, i) EXCEPT !.sflags = "Done", !.failed = TRUE]

\* attemptSend. idle: nothing was sent for longer than the retransmission time.
AttemptSend(t, sflags, idle) ==
  LET start == [t EXCEPT !.sflags = sflags, !.cwnd = IF idle THEN t.mss ELSE @]
      round[n \in 0..SBufLen + 1] == IF n = 0 THEN start ELSE SendStep(round[n - 1])
  IN [round[SBufLen + 1] EXCEPT !.sflags = "None"]

---------------------------------------------------------------------------
(* Receiving: the stages of process, in its order. A stage that closes the *)
(* connection ends the handler.                                            *)

AdjustMTU(t) ==
  [t EXCEPT !.mss = Mss, !.ssthresh = Greater(t.ssthresh, 2 * Mss), !.cwnd = Greater(t.cwnd, Mss)]

Open(t) == [AdjustMTU([t EXCEPT !.state = "ESTABLISHED"])      \* OnTcpOpen
              EXCEPT !.writable = TRUE, !.readable = TRUE]

Control(t, seg) ==
  CASE seg.ctrl /\ t.state = "LISTEN"   -> QueueConnectMessage([t EXCEPT !.state = "SYN_RECEIVED"])
    [] seg.ctrl /\ t.state = "SYN_SENT" -> Open(t)
    [] OTHER                            -> t

\* How many bytes the first k segments have
Upto(slist) ==
  LET bytes[k \in 0..Len(slist)] == IF k = 0 THEN 0 ELSE bytes[k - 1] + slist[k].len
  IN bytes

\* Frees n acknowledged bytes of the segments. A segment acknowledged in part
\* keeps its sequence number.
FreeSegments(slist, n) ==
  LET gone == Max({k \in 0..Len(slist) : Upto(slist)[k] <= n})
      rest == SubSeq(slist, gone + 1, Len(slist))
  IN IF rest = <<>> THEN rest ELSE [rest EXCEPT ![1].len = @ - (n - Upto(slist)[gone])]

Retransmit(t) ==
  IF MayTransmit(t, 1) THEN Transmit(t, 1)
  ELSE [TransmitFailed(t, 1) EXCEPT !.state = "CLOSED"]

HalfFlight(t) == Greater(Sub(t.snd_nxt, t.snd_una) \div 2, 2 * t.mss)
Grow(t) == IF t.cwnd < t.ssthresh THEN t.mss ELSE Greater(1, (t.mss * t.mss) \div t.cwnd)
SetCwnd(t, n) == [t EXCEPT !.cwnd = Lesser(n, CwndMax)]

\* Mutant: any valuable ack stops the timer.
NothingLeft(t, ack) == FALSE

Unacknowledged(t, ack) == ack # t.snd_nxt

\* A valuable ack. In fast recovery the next hole is retransmitted at once.
NewAck(t, seg) ==
  LET acked == Sub(seg.ack, t.snd_una)
      freed == [t EXCEPT !.snd_wnd = seg.wnd, !.snd_una = seg.ack,
                         !.rto = Unacknowledged(t, seg.ack),
                         !.sbuf = SubSeq(t.sbuf, acked + 1, Len(t.sbuf)),
                         !.slist = FreeSegments(t.slist, acked)]
      again == Retransmit(freed)
  IN CASE freed.dup_acks < 3 -> SetCwnd([freed EXCEPT !.dup_acks = 0], freed.cwnd + Grow(freed))
       [] freed.dup_acks >= 3 /\ freed.snd_una >= freed.recover ->
            SetCwnd([freed EXCEPT !.dup_acks = 0],
                    Lesser(freed.ssthresh, Sub(freed.snd_nxt, freed.snd_una) + freed.mss))
       [] OTHER -> SetCwnd(again, again.cwnd + again.mss - Lesser(acked, again.cwnd))

\* An ack that acknowledges nothing new: the window may have changed, and the
\* third one in a row retransmits the first segment.
OldAck(t, seg) ==
  LET told  == [t EXCEPT !.snd_wnd = seg.wnd]
      count == [told EXCEPT !.dup_acks = Lesser(@ + 1, DupMax)]
      again == Retransmit(count)
  IN CASE Len(seg.data) > 0      -> told
       [] Len(seg.data) = 0 /\ t.snd_una = t.snd_nxt -> [told EXCEPT !.dup_acks = 0]
       [] Len(seg.data) = 0 /\ t.snd_una # t.snd_nxt ->
            CASE t.dup_acks < 2 -> count
              [] t.dup_acks = 2 -> SetCwnd([again EXCEPT !.recover = again.snd_nxt,
                                                         !.ssthresh = HalfFlight(again)],
                                           HalfFlight(again) + 3 * again.mss)
              [] t.dup_acks > 2 -> SetCwnd(count, t.cwnd + t.mss)

Valuable(t, seg) == seg.ack > t.snd_una /\ seg.ack <= t.snd_nxt

Acknowledged(t, seg) ==
  CASE Valuable(t, seg)                                -> NewAck(t, seg)
    [] ~Valuable(t, seg) /\ seg.ack = t.snd_una        -> OldAck(t, seg)
    [] OTHER                                           -> t

\* A first segment that is not a connect message completes the handshake, and
\* a send buffer with room is offered to the user.
Notify(t, seg) ==
  LET o == IF t.state = "SYN_RECEIVED" /\ ~seg.ctrl THEN Open(t) ELSE t
      refill == o.bWriteEnable /\ Len(o.sbuf) < (SBufLen + RBufLen) \div 2
  IN IF refill THEN [o EXCEPT !.bWriteEnable = FALSE, !.writable = TRUE] ELSE o

\* The part of the segment the receive buffer takes
Fit(t, seg) ==
  LET old   == IF seg.seq < t.rcv_nxt THEN Lesser(t.rcv_nxt - seg.seq, Len(seg.data)) ELSE 0
      start == IF old < Len(seg.data) THEN Add(seg.seq, old) ELSE seg.seq
      left  == Len(seg.data) - old
      over  == LET end == Sub(Add(start, left), t.rcv_nxt)
               IN IF end > Room(t) THEN Lesser(end - Room(t), left) ELSE 0
  IN [seq |-> start, data |-> SubSeq(seg.data, old + 1, Len(seg.data) - over)]

\* FifoBuffer: WriteOffset into the free space, ConsumeWriteBuffer of its first n
WriteOffset(t, data, offset) ==
  [t EXCEPT !.ahead = [i \in DOMAIN t.ahead |-> IF i - offset + 1 \in DOMAIN data /\ i < Room(t)
                                                THEN data[i - offset + 1] ELSE t.ahead[i]]]
ConsumeWriteBuffer(t, n) ==
  [t EXCEPT !.rbuf = t.rbuf \o [i \in 1..n |-> t.ahead[i - 1]],
            !.ahead = [i \in DOMAIN t.ahead |-> IF i + n \in DOMAIN t.ahead THEN t.ahead[i + n] ELSE Hole]]

\* Mutant: the window stays as wide as it was.
AdvanceOpen(t, n) == [ConsumeWriteBuffer(t, n) EXCEPT !.rcv_nxt = Add(t.rcv_nxt, n)]

\* n bytes more are in order
Advance(t, n) ==
  [ConsumeWriteBuffer(t, n) EXCEPT !.rcv_nxt = Add(t.rcv_nxt, n), !.rcv_wnd = Sub(t.rcv_wnd, n)]

\* The end of the first segment of rlist, and the object without that segment
FirstEnd(t) == Add(Head(t.rlist).seq, Head(t.rlist).len)
Erased(t) == [t EXCEPT !.rlist = Tail(t.rlist)]

\* Mutant: the hole before a saved segment is not noticed.
RecoverOver(t) ==
  CASE t.rlist = <<>> -> t
    [] t.rlist # <<>> /\ FirstEnd(t) > t.rcv_nxt  -> Advance(Erased(t), FirstEnd(t) - t.rcv_nxt)
    [] t.rlist # <<>> /\ FirstEnd(t) <= t.rcv_nxt -> Erased(t)

\* The first segment of rlist, if it is in order now or was received again
Recover(t) ==
  CASE t.rlist = <<>> \/ (t.rlist # <<>> /\ Head(t.rlist).seq > t.rcv_nxt) -> t
    [] t.rlist # <<>> /\ Head(t.rlist).seq <= t.rcv_nxt ->
         IF FirstEnd(t) > t.rcv_nxt THEN Advance(Erased(t), FirstEnd(t) - t.rcv_nxt) ELSE Erased(t)

\* The loop over rlist
Recovered(t) ==
  LET after[n \in 0..Len(t.rlist)] == IF n = 0 THEN t ELSE Recover(after[n - 1])
  IN after[Len(t.rlist)]

\* Mutant: the highest byte received is acknowledged.
SavedAndAcked(t, fit) == [t EXCEPT !.rcv_nxt = Add(fit.seq, Len(fit.data))]

\* Insertion before the first segment that does not start earlier
Saved(t, fit) ==
  LET before == {i \in DOMAIN t.rlist : \A j \in 1..i : t.rlist[j].seq < fit.seq}
  IN [t EXCEPT !.rlist = InsertAt(t.rlist, Cardinality(before) + 1,
                                  [seq |-> fit.seq, len |-> Len(fit.data)])]

IgnoreData(t, seg) == seg.ctrl \/ t.shutdown # "NONE"

Stored(t, seg) ==
  LET fit == Fit(t, seg)
      n   == Len(fit.data)
      put == WriteOffset(t, fit.data, Sub(fit.seq, t.rcv_nxt))
  IN CASE n = 0 -> t
       [] n > 0 /\ IgnoreData(t, seg) ->
            IF fit.seq = t.rcv_nxt THEN [t EXCEPT !.rcv_nxt = Add(t.rcv_nxt, n)] ELSE t
       [] n > 0 /\ ~IgnoreData(t, seg) ->
            IF fit.seq = t.rcv_nxt THEN Recovered(Advance(put, n)) ELSE Saved(put, fit)

\* Out of order or repeated segments are acknowledged at once, so are recovered ones.
AckFlags(t, seg, stored) ==
  CASE seg.seq # t.rcv_nxt -> "Immediate"
    [] seg.seq = t.rcv_nxt /\ Len(seg.data) = 0 -> "None"
    [] OTHER -> IF Len(stored.rbuf) > Len(t.rbuf) + Len(Fit(t, seg).data) THEN "Immediate" ELSE "Delayed"

Readable(t, fresh) ==
  IF fresh /\ t.bReadEnable THEN [t EXCEPT !.bReadEnable = FALSE, !.readable = TRUE] ELSE t

Process(t, seg, idle) ==
  LET acked  == Acknowledged(Control(t, seg), seg)
      ready  == Notify(acked, seg)
      stored == Stored(ready, seg)
      sent   == AttemptSend(stored, AckFlags(ready, seg, stored), idle)
  IN CASE t.state = "CLOSED"     -> t
       [] t.state # "CLOSED" /\ acked.state = "CLOSED" -> acked
       [] OTHER -> Readable(sent, Len(stored.rbuf) > Len(ready.rbuf))

---------------------------------------------------------------------------
(* The handlers. GetNextClock refuses to go on when the shutdown is over:  *)
(* the channel then deletes the object.                                    *)

Over(t) ==
  \/ t.shutdown = "FORCEFUL"
  \/ t.shutdown = "GRACEFUL" /\ (t.state # "ESTABLISHED" \/ (t.sbuf = <<>> /\ ~t.t_ack))

AdjustClock(t) == IF Over(t) THEN [t EXCEPT !.deleted = TRUE] ELSE t

Become(e, t) ==
  /\ tcb' = [tcb EXCEPT ![e] = [t EXCEPT !.out = <<>>]]
  /\ net' = [net EXCEPT ![Peer(e)] = @ \o t.out]

Live(e) == tcb[e].state # "CLOSED" /\ ~tcb[e].deleted

\* Each departure from a smooth run is counted.
Fault(happens) ==
  /\ happens => faults < MaxFaults
  /\ faults' = faults + (IF happens THEN 1 ELSE 0)

Connect ==
  /\ tcb["client"].state = "LISTEN"
  /\ Become("client",
            AttemptSend(QueueConnectMessage([tcb["client"] EXCEPT !.state = "SYN_SENT"]), "None", FALSE))
  /\ UNCHANGED <<path, written, read, faults>>

\* NotifyPacket of packet i on the way: one that overtakes others is a fault.
NotifyPacket(e, i, idle) ==
  /\ ~tcb[e].deleted
  /\ idle => i = 1
  /\ Fault(idle \/ i > 1)
  /\ LET t == AdjustClock(Process(tcb[e], net[e][i], idle))
     IN /\ tcb' = [tcb EXCEPT ![e] = [t EXCEPT !.out = <<>>]]
        /\ net' = [net EXCEPT ![e] = RemoveAt(@, i), ![Peer(e)] = @ \o t.out]
  /\ UNCHANGED <<path, written, read>>

Lose(e) ==
  /\ net[e] # <<>>
  /\ Fault(TRUE)
  /\ net' = [net EXCEPT ![e] = Tail(@)]
  /\ UNCHANGED <<tcb, path, written, read>>

Duplicate(e) ==
  /\ net[e] # <<>>
  /\ Fault(TRUE)
  /\ net' = [net EXCEPT ![e] = Append(@, Head(@))]
  /\ UNCHANGED <<tcb, path, written, read>>

\* Packets for a deleted end go nowhere.
Discard(e) ==
  /\ tcb[e].deleted /\ net[e] # <<>>
  /\ net' = [net EXCEPT ![e] = <<>>]
  /\ UNCHANGED <<tcb, path, written, read, faults>>

\* NotifyClock does one of three things, since writing a packet ends the delay
\* of an ack and puts the next probe off. The timers of retransmission and
\* probe are longer than the way of a packet and of its delayed ack: to run
\* out earlier is a fault.
Quiet == (\A e \in Ends : net[e] = <<>>) /\ \A e \in Ends : Live(e) => ~tcb[e].t_ack

\* Retransmission
ClockRto(e) ==
  /\ Live(e) /\ tcb[e].rto
  /\ Fault(~Quiet)
  /\ LET again == Retransmit(tcb[e])
         backed == IF again.state = "CLOSED" THEN again
                   ELSE [again EXCEPT !.ssthresh = HalfFlight(again), !.cwnd = again.mss]
     IN Become(e, AdjustClock(backed))
  /\ UNCHANGED <<path, written, read>>

\* Probe of a closed window
ClockProbe(e) ==
  /\ Live(e) /\ tcb[e].snd_wnd = 0
  /\ Fault(~Quiet)
  /\ Become(e, AdjustClock(Packet(tcb[e], Sub(tcb[e].snd_nxt, 1), FALSE, 0, 0)))
  /\ UNCHANGED <<path, written, read>>

\* The end of the connection when a closed window is to be probed after 15 s of
\* silence: without a route the peer is bound to be silent.
ClockAbort(e) ==
  /\ Live(e) /\ tcb[e].snd_wnd = 0
  /\ Fault(path # NoRoute)
  /\ Become(e, AdjustClock([tcb[e] EXCEPT !.state = "CLOSED"]))
  /\ UNCHANGED <<path, written, read>>

\* Delayed ack
ClockAck(e) ==
  /\ Live(e) /\ tcb[e].t_ack
  /\ Become(e, AdjustClock(Packet(tcb[e], tcb[e].snd_nxt, FALSE, 0, 0)))
  /\ UNCHANGED <<path, written, read, faults>>

\* Mutant: what is offered is taken, room or not.
AcceptsAll(t, len) == len

\* queue takes what the send buffer has room for.
Accepts(t, len) == Lesser(len, SBufLen - Len(t.sbuf))

\* The client's user sends while it may: Send returns EWOULDBLOCK on a full buffer.
Send(len, idle) ==
  LET t == tcb["client"]
      n == Accepts(t, Lesser(len, FileLen - written))
  IN /\ t.state = "ESTABLISHED" /\ t.writable /\ written < FileLen
     /\ Fault(idle)
     /\ IF Len(t.sbuf) = SBufLen
        THEN /\ Become("client", [t EXCEPT !.bWriteEnable = TRUE, !.writable = FALSE])
             /\ UNCHANGED written
        ELSE /\ Become("client", AttemptSend(Queue(t, [i \in 1..n |-> written + i], FALSE), "None", idle))
             /\ written' = written + n
     /\ UNCHANGED <<path, read>>

\* The server's user reads while it may. A window that was closed is announced.
Recv(len, idle) ==
  LET t == tcb["server"]
      n == Lesser(len, Len(t.rbuf))
      took == [t EXCEPT !.rbuf = SubSeq(@, n + 1, Len(@))]
      wide == Sub(Room(took), t.rcv_wnd) >= Lesser(RBufLen \div 2, t.mss)
      told == IF wide THEN [took EXCEPT !.rcv_wnd = Room(took)] ELSE took
  IN /\ t.state = "ESTABLISHED" /\ t.readable
     /\ Fault(idle)
     /\ IF t.rbuf = <<>>
        THEN /\ Become("server", [t EXCEPT !.bReadEnable = TRUE, !.readable = FALSE])
             /\ UNCHANGED read
        ELSE /\ Become("server", IF wide /\ t.rcv_wnd = 0 THEN AttemptSend(told, "Immediate", idle) ELSE told)
             /\ read' = read \o SubSeq(t.rbuf, 1, n)
     /\ UNCHANGED <<path, written>>

\* The client's stream is closed when the file has been written.
Close ==
  /\ ~tcb["client"].deleted /\ tcb["client"].shutdown = "NONE" /\ written = FileLen
  /\ Become("client", AdjustClock([tcb["client"] EXCEPT !.shutdown = "GRACEFUL"]))
  /\ UNCHANGED <<path, written, read, faults>>

\* A route that takes less or more, or none
RouteChange ==
  /\ \E p \in NoRoute..Mss : p # path /\ path' = p
  /\ Fault(TRUE)
  /\ UNCHANGED <<tcb, net, written, read>>

Init ==
  /\ tcb = [e \in Ends |-> NewTcb]
  /\ net = [e \in Ends |-> <<>>]
  /\ path = Mss
  /\ written = 0 /\ read = <<>>
  /\ faults = 0

Next ==
  \/ Connect
  \/ \E e \in Ends : \E i \in DOMAIN net[e], idle \in BOOLEAN : NotifyPacket(e, i, idle)
  \/ \E e \in Ends : Lose(e) \/ Duplicate(e) \/ Discard(e)
  \/ \E e \in Ends : ClockRto(e) \/ ClockProbe(e) \/ ClockAbort(e) \/ ClockAck(e)
  \/ \E len \in IoSizes, idle \in BOOLEAN : Send(len, idle) \/ Recv(len, idle)
  \/ Close
  \/ RouteChange

\* The threads of both ends keep running: the packet at the head of the way
\* arrives, armed timers run out, and the users follow up their events. The
\* retransmission timer is a deadline that probes do not put off, so it is
\* strongly fair, the rest is weakly fair; ENABLED is written out, since TLC
\* evaluates it without remembering the rounds of the loop in attemptSend.
Fairness ==
  /\ []<>(tcb["client"].state # "LISTEN") \/ []<><<Connect>>_vars
  /\ \A e \in Ends :
       /\ []<>~(net[e] # <<>> /\ ~tcb[e].deleted) \/ []<><<NotifyPacket(e, 1, FALSE)>>_vars
       /\ <>[]~(Live(e) /\ tcb[e].rto /\ Quiet) \/ []<><<ClockRto(e)>>_vars
       /\ []<>~(Live(e) /\ tcb[e].snd_wnd = 0 /\ Quiet) \/ []<><<ClockProbe(e)>>_vars
       /\ []<>~(Live(e) /\ tcb[e].snd_wnd = 0 /\ path = NoRoute) \/ []<><<ClockAbort(e)>>_vars
       /\ []<>~(Live(e) /\ tcb[e].t_ack) \/ []<><<ClockAck(e)>>_vars
  /\ \/ []<>~(tcb["client"].state = "ESTABLISHED" /\ tcb["client"].writable /\ written < FileLen)
     \/ []<><<\E len \in IoSizes : Send(len, FALSE)>>_vars
  /\ \/ []<>~(tcb["server"].state = "ESTABLISHED" /\ tcb["server"].readable)
     \/ []<><<\E len \in IoSizes : Recv(len, FALSE)>>_vars

Spec == Init /\ [][Next]_vars /\ Fairness

---------------------------------------------------------------------------
(* Properties                                                               *)

Bytes == {Hole, CTL_CONNECT} \cup 1..FileLen
Numbers == 0..SeqSpace - 1

\* The two ends hold values of their types; the buffers are within their sizes.
TypeOK ==
  /\ \A e \in Ends : LET t == tcb[e] IN
       /\ t.state \in {"LISTEN", "SYN_SENT", "SYN_RECEIVED", "ESTABLISHED", "CLOSED"}
       /\ t.sbuf \in Seq(Bytes) /\ Len(t.sbuf) <= SBufLen
       /\ t.rbuf \in Seq(Bytes) /\ Len(t.rbuf) <= RBufLen
       /\ t.ahead \in [0..RBufLen - 1 -> Bytes]
       /\ {t.snd_una, t.snd_nxt, t.snd_wnd, t.rcv_nxt, t.rcv_wnd, t.recover} \subseteq Numbers
       /\ t.mss \in 1..Mss /\ t.cwnd \in 1..CwndMax /\ t.dup_acks \in 0..DupMax
       /\ t.out = <<>> /\ t.sflags = "None" /\ t.failed \in BOOLEAN
  /\ \A e \in Ends : \A i \in DOMAIN net[e] : net[e][i].data \in Seq(Bytes)
  /\ path \in NoRoute..Mss /\ written \in 0..FileLen /\ read \in Seq(Bytes) /\ faults \in 0..MaxFaults

\* The last transmission failed and nothing is in flight: no timer runs, and
\* nothing but a packet of the peer or a Send of the user tries again.
Stalled(t) == t.failed /\ t.sbuf # <<>> /\ t.snd_una = t.snd_nxt

Stream == INSTANCE ByteStream WITH
  Capacity <- SBufLen + RBufLen,
  broken <- (\E e \in Ends : tcb[e].state = "CLOSED"),
  stalled <- (\E e \in Ends : Stalled(tcb[e]))

\* Whatever is lost, repeated or reordered, and whichever timers run early, the
\* connection is a bounded pipe: every byte comes out once, in order, and all of
\* them do unless an end gives the connection up, or attemptSend fails to
\* transmit with nothing in flight and so nothing to wake it.
IsByteStream == Stream!Spec

\* Positions in the send buffer are computed from the segments: the segments
\* cover the buffer from snd_una without gap or overlap, those transmitted
\* first and up to snd_nxt. In particular an ack never ends inside a segment
\* (process would shorten it and leave its sequence number behind).
SegmentsCoverBuffer ==
  \A e \in Ends : LET t == tcb[e]
                     sent == {i \in DOMAIN t.slist : t.slist[i].xmit > 0}
                 IN /\ \A i \in DOMAIN t.slist : t.slist[i].seq = Add(t.snd_una, Upto(t.slist)[i - 1])
                    /\ Upto(t.slist)[Len(t.slist)] = Len(t.sbuf)
                    /\ sent = 1..Cardinality(sent)
                    /\ t.snd_nxt = Add(t.snd_una, Upto(t.slist)[Cardinality(sent)])

\* An acknowledged byte is in the server's receive buffer or has been read: when
\* a graceful close finds the send buffer empty, nothing is lost with it.
AckedIsDelivered ==
  LET queued == Cardinality({i \in DOMAIN tcb["client"].sbuf : tcb["client"].sbuf[i] # CTL_CONNECT})
  IN written - queued <= Len(read) + Len(tcb["server"].rbuf)

\* The window the server announces is backed by free space (m_rcv_wnd never
\* wraps below zero), and the client never believes in a larger one, even from
\* an old announcement.
WindowBacked ==
  /\ \A e \in Ends : tcb[e].rcv_wnd <= Room(tcb[e])
  /\ tcb["client"].state = "ESTABLISHED" =>
       tcb["client"].snd_una + tcb["client"].snd_wnd <= tcb["server"].rcv_nxt + tcb["server"].rcv_wnd

\* The retransmission timer is armed exactly while something is unacknowledged:
\* no segment waits forever, and NotifyClock never finds an empty list.
TimerArmed == \A e \in Ends : Live(e) => (tcb[e].rto <=> tcb[e].snd_una # tcb[e].snd_nxt)
=============================================================================
