--------------------------- MODULE PseudoTcpProofs ---------------------------
(***************************************************************************)
(* Theorems about PseudoTcp, for every file, all buffer and segment sizes, *)
(* every path and any number of faults, as long as the sequence numbers do *)
(* not wrap around.                                                        *)
(***************************************************************************)
EXTENDS PseudoTcp, QueueTheorems, FiniteSetTheorems, SequenceTheorems

-----------------------------------------------------------------------------
(* The inductive invariant. The byte with sequence number x is x itself:   *)
(* the connect message is 0, and the bytes of the file follow it.          *)

Segment == [seq : Nat, len : Nat, ctrl : BOOLEAN, xmit : Nat]
PacketRecord == [seq : Nat, ctrl : BOOLEAN, ack : Nat, wnd : Nat, data : Seq(Nat)]
SavedRecord == [seq : Nat, len : Nat]
StateNames == {"LISTEN", "SYN_SENT", "SYN_RECEIVED", "ESTABLISHED", "CLOSED"}

Tcb ==
  [state : StateNames, slist : Seq(Segment), sbuf : Seq(Nat),
   snd_una : Nat, snd_nxt : Nat, snd_wnd : 0..RBufLen,
   rlist : Seq(SavedRecord), rbuf : Seq(Nat), ahead : [0..RBufLen - 1 -> Int],
   rcv_nxt : Nat, rcv_wnd : Nat,
   mss : 1..Mss, cwnd : 1..CwndMax, ssthresh : Nat \ {0}, dup_acks : 0..DupMax, recover : Nat,
   rto : BOOLEAN, t_ack : BOOLEAN, bWriteEnable : BOOLEAN, bReadEnable : BOOLEAN,
   shutdown : {"NONE", "GRACEFUL", "FORCEFUL"}, deleted : BOOLEAN,
   writable : BOOLEAN, readable : BOOLEAN, failed : BOOLEAN,
   sflags : {"None", "Immediate", "Delayed", "Done"}, out : Seq(PacketRecord)]

Total(t) == t.snd_una + Len(t.sbuf)
Edge(t) == t.rcv_nxt + t.rcv_wnd

\* The segments of a list cover the numbers from a up to b, in their order.
Chain(l, a, b) ==
  /\ l \in Seq(Segment)
  /\ IF l = <<>> THEN a = b
     ELSE l[1].seq = a /\ l[Len(l)].seq + l[Len(l)].len = b
  /\ \A i \in 1..Len(l) : l[i].len > 0
  /\ \A i, j \in 1..Len(l) : i < j => l[i].seq + l[i].len <= l[j].seq
  /\ \A i, j \in 1..Len(l) : j = i + 1 => l[i].seq + l[i].len = l[j].seq

\* The segments of l end at x, as far as they start before it.
ListMark(l, x) == \A i \in 1..Len(l) : l[i].seq < x => l[i].seq + l[i].len <= x

\* A place up to which the peer may have received: it ends no segment in the middle,
\* and never will, since only segments that were not transmitted grow.
Mark(t, x) == x \in Nat /\ x <= t.snd_nxt /\ ListMark(t.slist, x)

\* The segments below nxt were transmitted, and the connect message is a segment of its own.
Sent(l, nxt) ==
  \A i \in 1..Len(l) : /\ l[i].xmit > 0 <=> l[i].seq < nxt
                       /\ l[i].ctrl <=> l[i].seq = 0
                       /\ l[i].ctrl => l[i].len = 1

\* The bytes b have the numbers from x on.
Numbered(b, x) == \A i \in 1..Len(b) : b[i] = x + i - 1

\* The send buffer and its segments
Sender(t) ==
  /\ t.snd_una <= t.snd_nxt /\ t.snd_nxt <= Total(t) /\ Total(t) <= FileLen + 1
  /\ Len(t.sbuf) <= SBufLen /\ Numbered(t.sbuf, t.snd_una)
  /\ Chain(t.slist, t.snd_una, Total(t)) /\ Sent(t.slist, t.snd_nxt)
  /\ Mark(t, t.snd_nxt)

\* The bytes from a up to b are among those ahead of x.
Covered(ahead, x, a, b) == \A i \in 0..RBufLen - 1 : a <= x + i /\ x + i < b => ahead[i] # Hole

\* The receive buffer, the bytes ahead of it and the segments that are known to be there
Receiver(t) ==
  /\ t.rcv_wnd <= Room(t) /\ Edge(t) >= 1
  /\ t.rbuf # <<>> => Len(t.rbuf) < t.rcv_nxt
  /\ t.rcv_nxt = 0 => t.rlist = <<>> /\ \A i \in 0..RBufLen - 1 : t.ahead[i] = Hole
  /\ Numbered(t.rbuf, t.rcv_nxt - Len(t.rbuf))
  /\ \A i \in 0..RBufLen - 1 : t.ahead[i] \in {Hole, t.rcv_nxt + i} /\ t.ahead[i] <= FileLen
  /\ \A j \in 1..Len(t.rlist) :
       /\ t.rlist[j].seq + t.rlist[j].len <= Edge(t)
       /\ Covered(t.ahead, t.rcv_nxt, t.rlist[j].seq, t.rlist[j].seq + t.rlist[j].len)

\* What the receiver r has and announces of what s sends
Flow(s, r) ==
  /\ s.snd_una <= r.rcv_nxt /\ Mark(s, r.rcv_nxt)
  /\ s.snd_nxt <= Edge(r) /\ s.snd_una + s.snd_wnd <= Edge(r)
  /\ \A j \in 1..Len(r.rlist) : Mark(s, r.rlist[j].seq + r.rlist[j].len)

\* A packet from s to r: its data, and its acknowledgement of what r sent
PacketOK(k, s, r) ==
  /\ k \in PacketRecord /\ k.seq < SeqSpace /\ k.wnd <= RBufLen
  /\ Numbered(k.data, k.seq)
  /\ k.data # <<>> => Mark(s, k.seq + Len(k.data)) /\ (k.ctrl <=> k.seq = 0)
  /\ k.ctrl => Len(k.data) = 1
  /\ Mark(r, k.ack) /\ k.ack <= s.rcv_nxt /\ k.ack + k.wnd <= Edge(s)

\* The timer of retransmission, and where fast recovery ends
Timed(t) ==
  /\ t.state # "CLOSED" => (t.rto <=> t.snd_una # t.snd_nxt)
  /\ t.recover <= t.snd_nxt

End(t) == t \in Tcb /\ Sender(t) /\ Receiver(t) /\ Timed(t)

\* Both ends, with the packets A under way to t and B under way to p
Pair(t, p, A, B) ==
  /\ End(t) /\ End(p) /\ Flow(t, p) /\ Flow(p, t)
  /\ \A k \in A : PacketOK(k, p, t)
  /\ \A k \in B : PacketOK(k, t, p)

\* What the client has written, and the handshake
ClientRole(c) ==
  /\ Total(c) \in {0, written + 1}
  /\ c.state \in {"SYN_SENT", "ESTABLISHED"} \/ written > 0 => Total(c) = written + 1
  /\ c.state = "LISTEN" => Total(c) = 0
  /\ c.state # "SYN_RECEIVED"
ServerRole(s) ==
  /\ Total(s) <= 1 /\ (s.state = "LISTEN" => Total(s) = 0)
  /\ s.state # "SYN_SENT" /\ s.shutdown = "NONE"
  /\ Total(s) > 0 => s.rcv_nxt > 0
Handshake(c, s) ==
  /\ ClientRole(c) /\ ServerRole(s)
  /\ c.state = "ESTABLISHED" \/ written > 0 => s.snd_nxt > 0

\* The server's user has read what is no longer in the buffer.
ReadOK(s) == read = [i \in 1..(s.rcv_nxt - 1 - Len(s.rbuf)) |-> i]

Roles == Handshake(tcb["client"], tcb["server"]) /\ ReadOK(tcb["server"])
Counts == path \in NoRoute..Mss /\ written \in 0..FileLen /\ faults \in 0..MaxFaults

TcpInv ==
  /\ tcb = [e \in Ends |-> tcb[e]] /\ net \in [Ends -> Seq(PacketRecord)]
  /\ Pair(tcb["client"], tcb["server"], Held(net["client"]), Held(net["server"]))
  /\ Roles /\ Counts
  /\ \A e \in Ends : tcb[e].out = <<>> /\ tcb[e].sflags = "None"

-----------------------------------------------------------------------------
(* Numbers and records.                                                    *)

\* The numbers of this connection do not wrap around.
LEMMA SmallNumbers ==
  /\ \A a, b \in Nat : a + b < SeqSpace => Add(a, b) = a + b
  /\ \A a, b \in Nat : b <= a /\ a < SeqSpace => Sub(a, b) = a - b
  /\ \A a, b \in Int : Add(a, b) \in 0..SeqSpace - 1 /\ Sub(a, b) \in 0..SeqSpace - 1
<1>1. SeqSpace \in Nat \ {0}
  BY ConstantsAssumption
<1> QED BY <1>1 DEF Add, Sub

\* The smaller and the greater of two numbers
LEMMA LesserGreater ==
  /\ \A a, b \in Int : Lesser(a, b) \in {a, b} /\ Lesser(a, b) <= a /\ Lesser(a, b) <= b
  /\ \A a, b \in Int : Greater(a, b) \in {a, b} /\ Greater(a, b) >= a /\ Greater(a, b) >= b
BY DEF Lesser, Greater

\* The sizes
LEMMA Sizes ==
  /\ FileLen \in Nat \ {0} /\ SBufLen \in Nat \ {0} /\ RBufLen \in Nat \ {0} /\ Mss \in Nat \ {0}
  /\ SeqSpace \in Nat \ {0} /\ MaxXmit \in Nat \ {0} /\ MaxFaults \in Nat
  /\ RBufLen < SBufLen /\ SBufLen < SeqSpace
  /\ CwndMax \in Nat /\ CwndMax >= 2 * RBufLen + 4 * Mss
BY ConstantsAssumption DEF CwndMax

SameSend(t, u) ==
  /\ u.slist = t.slist /\ u.sbuf = t.sbuf
  /\ u.snd_una = t.snd_una /\ u.snd_nxt = t.snd_nxt /\ u.snd_wnd = t.snd_wnd
SameRecv(t, u) ==
  /\ u.rlist = t.rlist /\ u.rbuf = t.rbuf /\ u.ahead = t.ahead
  /\ u.rcv_nxt = t.rcv_nxt /\ u.rcv_wnd = t.rcv_wnd
SameMode(t, u) ==
  /\ u.state = t.state /\ u.shutdown = t.shutdown /\ u.deleted = t.deleted

\* The packet that packet writes
PacketOf(t, seq, ctrl, offset, len) ==
  [seq |-> seq, ctrl |-> ctrl, ack |-> t.rcv_nxt, wnd |-> t.rcv_wnd,
   data |-> [i \in 1..len |-> t.sbuf[offset + i]]]

SameRest(t, u) ==
  /\ u.rto = t.rto /\ u.recover = t.recover /\ u.dup_acks = t.dup_acks /\ u.sflags = t.sflags
OneMore(t, u, k) == u.out = IF path = NoRoute THEN t.out ELSE Append(t.out, k)

\* What packet changes
LEMMA PacketFrame ==
  ASSUME NEW t \in Tcb, NEW seq \in Nat, NEW ctrl \in BOOLEAN, NEW offset \in Nat, NEW len \in Nat,
         offset + len <= Len(t.sbuf)
  PROVE  LET u == Packet(t, seq, ctrl, offset, len)
             k == PacketOf(t, seq, ctrl, offset, len)
         IN /\ k \in PacketRecord /\ u \in Tcb /\ OneMore(t, u, k)
            /\ SameSend(t, u) /\ SameRecv(t, u) /\ SameMode(t, u) /\ SameRest(t, u)
<1> DEFINE k == [seq |-> seq, ctrl |-> ctrl, ack |-> t.rcv_nxt, wnd |-> t.rcv_wnd,
                 data |-> [i \in 1..len |-> t.sbuf[offset + i]]]
           o == IF path = NoRoute THEN t.out ELSE Append(t.out, k)
           u == [t EXCEPT !.t_ack = FALSE, !.out = o]
<1>1. k.data = [i \in 1..len |-> IF offset + i <= Len(t.sbuf) THEN t.sbuf[offset + i] ELSE Hole]
  BY DEF Tcb
<1>2. Packet(t, seq, ctrl, offset, len) = u
  BY <1>1 DEF Packet
<1>3. k \in PacketRecord
  <2>1. t.sbuf \in Seq(Nat) /\ Len(t.sbuf) \in Nat
    BY DEF Tcb
  <2>2. \A i \in 1..len : t.sbuf[offset + i] \in Nat
    BY <2>1, SMTT(30)
  <2>3. k.data \in Seq(Nat)
    BY <2>2
  <2> QED BY <2>3 DEF PacketRecord, Tcb
<1> HIDE DEF k
<1>4. u \in Tcb /\ u.out = o
  <2>1. o \in Seq(PacketRecord)
    BY <1>3 DEF Tcb
  <2> HIDE DEF u, o
  <2> QED BY <2>1 DEF Tcb, u
<1>5. SameSend(t, u) /\ SameRecv(t, u) /\ SameMode(t, u)
  BY DEF Tcb, SameSend, SameRecv, SameMode
<1>6. SameRest(t, u)
  BY DEF Tcb, SameRest
<1> HIDE DEF u
<1> QED BY <1>2, <1>3, <1>4, <1>5, <1>6 DEF k, o, PacketOf, OneMore

-----------------------------------------------------------------------------
(* Splitting a segment.                                                    *)

\* r is s with e inserted as element i.
Insertion(r, s, i, e) ==
  /\ Len(r) = Len(s) + 1 /\ r[i] = e
  /\ \A j \in 1..Len(s) : j < i => r[j] = s[j]
  /\ \A j \in 1..Len(s) : j >= i => r[j + 1] = s[j]

\* InsertAt, element by element
LEMMA Inserted ==
  ASSUME NEW S, NEW s \in Seq(S), NEW i \in 1..Len(s) + 1, NEW e \in S
  PROVE  InsertAt(s, i, e) \in Seq(S) /\ Insertion(InsertAt(s, i, e), s, i, e)
<1> PICK N \in Nat : N = Len(s)
  OBVIOUS
<1>i. i \in 1..N + 1
  OBVIOUS
<1> DEFINE a == SubSeq(s, 1, i - 1)
           b == SubSeq(s, i, N)
           c == a \o <<e>>
<1>0. \A j \in 1..N : s[j] \in S
  OBVIOUS
<1>1. a \in Seq(S) /\ Len(a) = i - 1 /\ \A j \in 1..(i - 1) : a[j] = s[j]
  <2>1. /\ SubSeq(s, 1, i - 1) \in Seq(S)
        /\ Len(SubSeq(s, 1, i - 1)) = IF 1 <= i - 1 THEN i - 1 - 1 + 1 ELSE 0
        /\ \A j \in 1..(i - 1) - 1 + 1 : SubSeq(s, 1, i - 1)[j] = s[1 + j - 1]
    <3>1. 1 \in Int /\ i - 1 \in Int /\ \A j \in 1..(i - 1) : s[j] \in S
      BY <1>0
    <3> HIDE <1>0
    <3> QED BY <3>1, SubSeqProperties
  <2> QED BY <2>1
<1>2. b \in Seq(S) /\ Len(b) = N - i + 1 /\ \A j \in 1..(N - i + 1) : b[j] = s[i + j - 1]
  <2>1. /\ SubSeq(s, i, N) \in Seq(S)
        /\ Len(SubSeq(s, i, N)) = IF i <= N THEN N - i + 1 ELSE 0
        /\ \A j \in 1..N - i + 1 : SubSeq(s, i, N)[j] = s[i + j - 1]
    <3>1. i \in Int /\ N \in Int /\ \A j \in i..N : s[j] \in S
      BY <1>0
    <3> QED BY <3>1, SubSeqProperties
  <2> QED BY <2>1
<1>3. <<e>> \in Seq(S) /\ Len(<<e>>) = 1 /\ <<e>>[1] = e
  OBVIOUS
<1>4. InsertAt(s, i, e) = c \o b
  BY DEF InsertAt
<1> HIDE DEF a, b
<1>5. /\ a \o <<e>> \in Seq(S) /\ Len(a \o <<e>>) = Len(a) + Len(<<e>>)
      /\ \A j \in 1..Len(a) + Len(<<e>>) :
           (a \o <<e>>)[j] = IF j <= Len(a) THEN a[j] ELSE <<e>>[j - Len(a)]
  BY <1>1, <1>3, ConcatProperties
<1>6. c \in Seq(S) /\ Len(c) = i /\ c[i] = e /\ \A j \in 1..i : j < i => c[j] = s[j]
  <2>1. Len(a) + Len(<<e>>) = i
    BY <1>1, <1>3, <1>i
  <2>2. c[i] = e
    <3>1. i \in 1..i /\ ~(i <= i - 1) /\ i - (i - 1) = 1
      BY <1>i
    <3> QED BY <1>1, <1>3, <1>5, <2>1, <3>1
  <2>3. ASSUME NEW j \in 1..i, j < i
        PROVE  c[j] = s[j]
    <3>1. j <= i - 1 /\ j \in 1..(i - 1)
      BY <1>i, <2>3
    <3> QED BY <1>1, <1>5, <2>1, <3>1
  <2> QED BY <1>5, <2>1, <2>2, <2>3
<1> HIDE DEF c
<1>7. /\ c \o b \in Seq(S) /\ Len(c \o b) = Len(c) + Len(b)
      /\ \A j \in 1..Len(c) + Len(b) : (c \o b)[j] = IF j <= Len(c) THEN c[j] ELSE b[j - Len(c)]
  BY <1>2, <1>6, ConcatProperties
<1>8. Len(c) + Len(b) = N + 1
  BY <1>2, <1>6
<1>9. \A j \in 1..N + 1 : (c \o b)[j] = IF j <= i THEN c[j] ELSE b[j - i]
  BY <1>6, <1>7, <1>8
<1>10. (c \o b)[i] = e
  <2>1. i <= i
    BY <1>i
  <2> QED BY <1>6, <1>9, <1>i, <2>1
<1>11. ASSUME NEW j \in 1..N, j < i
       PROVE  (c \o b)[j] = s[j]
  <2>1. j \in 1..N + 1 /\ j <= i /\ j \in 1..i
    BY <1>i, <1>11
  <2> QED BY <1>6, <1>9, <1>11, <2>1
<1>12. ASSUME NEW j \in 1..N, j >= i
       PROVE  (c \o b)[j + 1] = s[j]
  <2>1. j + 1 \in 1..N + 1 /\ ~(j + 1 <= i)
    BY <1>12, <1>i
  <2>2. (c \o b)[j + 1] = b[(j + 1) - i]
    BY <1>9, <2>1
  <2>3. (j + 1) - i \in 1..(N - i + 1) /\ i + ((j + 1) - i) - 1 = j
    BY <1>12, <1>i
  <2> QED BY <1>2, <2>2, <2>3
<1> QED BY <1>4, <1>7, <1>8, <1>10, <1>11, <1>12 DEF Insertion

\* A part of a segment: n bytes of it from byte d on
Part(g, d, n) == [seq |-> g.seq + d, len |-> n, ctrl |-> g.ctrl, xmit |-> g.xmit]

\* The parts as splitting writes them
LEMMA PartShape ==
  ASSUME NEW g \in Segment, NEW n \in Nat, n < g.len, g.seq + n < SeqSpace
  PROVE  /\ [g EXCEPT !.len = n] = Part(g, 0, n) /\ Part(g, 0, n) \in Segment
         /\ [g EXCEPT !.seq = Add(g.seq, n), !.len = g.len - n] = Part(g, n, g.len - n)
         /\ Part(g, n, g.len - n) \in Segment
<1>1. Add(g.seq, n) = g.seq + n
  BY SmallNumbers DEF Segment
<1>2. [g EXCEPT !.len = n] = Part(g, 0, n)
  <2>1. g.seq + 0 = g.seq
    BY DEF Segment
  <2>2. [g EXCEPT !.len = n] = [seq |-> g.seq, len |-> n, ctrl |-> g.ctrl, xmit |-> g.xmit]
    BY DEF Segment
  <2> QED BY <2>1, <2>2 DEF Part
<1>3. Part(g, 0, n) \in Segment
  BY DEF Part, Segment
<1>4. [g EXCEPT !.seq = g.seq + n, !.len = g.len - n] = Part(g, n, g.len - n)
  <2> PICK a, b \in Nat : a = g.seq + n /\ b = g.len - n
    BY DEF Segment
  <2>1. [g EXCEPT !.seq = a, !.len = b] = [[g EXCEPT !.seq = a] EXCEPT !.len = b]
    BY DEF Segment
  <2>2. [g EXCEPT !.seq = a] = [seq |-> a, len |-> g.len, ctrl |-> g.ctrl, xmit |-> g.xmit]
    BY DEF Segment
  <2>3. [[seq |-> a, len |-> g.len, ctrl |-> g.ctrl, xmit |-> g.xmit] EXCEPT !.len = b]
          = [seq |-> a, len |-> b, ctrl |-> g.ctrl, xmit |-> g.xmit]
    OBVIOUS
  <2> QED BY <2>1, <2>2, <2>3 DEF Part
<1>5. Part(g, n, g.len - n) \in Segment
  BY DEF Part, Segment
<1> QED BY <1>1, <1>2, <1>3, <1>4, <1>5

\* What a part has
LEMMA PartFields ==
  \A g, d, n : /\ Part(g, d, n).seq = g.seq + d /\ Part(g, d, n).len = n
               /\ Part(g, d, n).ctrl = g.ctrl /\ Part(g, d, n).xmit = g.xmit
BY DEF Part

\* r is l with segment i split after n bytes.
Split(r, l, i, n) ==
  /\ Len(r) = Len(l) + 1
  /\ r[i] = Part(l[i], 0, n) /\ r[i + 1] = Part(l[i], n, l[i].len - n)
  /\ \A j \in 1..Len(l) : j < i => r[j] = l[j]
  /\ \A j \in 1..Len(l) : j > i => r[j + 1] = l[j]

\* SplitSegment, element by element
LEMMA SplitShape ==
  ASSUME NEW l \in Seq(Segment), NEW i \in 1..Len(l), NEW n \in Nat,
         n < l[i].len, l[i].seq + n < SeqSpace
  PROVE  SplitSegment(l, i, n) \in Seq(Segment) /\ Split(SplitSegment(l, i, n), l, i, n)
<1> DEFINE m == [l EXCEPT ![i].len = n]
           e == [l[i] EXCEPT !.seq = Add(l[i].seq, n), !.len = l[i].len - n]
           f == Part(l[i], 0, n)
<1> PICK N \in Nat : N = Len(l)
  OBVIOUS
<1>1. l[i] \in Segment
  OBVIOUS
<1>2. /\ [l[i] EXCEPT !.len = n] = f /\ f \in Segment
      /\ e = Part(l[i], n, l[i].len - n)
      /\ e \in Segment
  <2> PICK g \in Segment : g = l[i]
    BY <1>1
  <2>1. /\ [g EXCEPT !.len = n] = Part(g, 0, n) /\ Part(g, 0, n) \in Segment
        /\ [g EXCEPT !.seq = Add(g.seq, n), !.len = g.len - n] = Part(g, n, g.len - n)
        /\ Part(g, n, g.len - n) \in Segment
    BY PartShape
  <2> QED BY <2>1
<1>3. m = [l EXCEPT ![i] = f]
  BY <1>2
<1>4. SplitSegment(l, i, n) = InsertAt(m, i + 1, e)
  <2>1. ~(n >= l[i].len)
    BY <1>1 DEF Segment
  <2> QED BY <2>1 DEF SplitSegment
<1> HIDE DEF f, e
<1>5. [l EXCEPT ![i] = f] \in Seq(Segment) /\ Len([l EXCEPT ![i] = f]) = N
  BY <1>2
<1>6. \A j \in 1..N : [l EXCEPT ![i] = f][j] = IF j = i THEN f ELSE l[j]
  OBVIOUS
<1>7. m \in Seq(Segment) /\ Len(m) = N /\ \A j \in 1..N : m[j] = IF j = i THEN f ELSE l[j]
  BY <1>3, <1>5, <1>6
<1> HIDE DEF m
<1>8. i + 1 \in 1..Len(m) + 1
  BY <1>7
<1>9. InsertAt(m, i + 1, e) \in Seq(Segment) /\ Insertion(InsertAt(m, i + 1, e), m, i + 1, e)
  BY <1>2, <1>7, <1>8, Inserted
<1> DEFINE r == InsertAt(m, i + 1, e)
<1> HIDE DEF r
<1>10. /\ Len(r) = N + 1 /\ r[i + 1] = e
       /\ \A j \in 1..N : j < i + 1 => r[j] = m[j]
       /\ \A j \in 1..N : j >= i + 1 => r[j + 1] = m[j]
  BY <1>7, <1>9 DEF Insertion, r
<1>11. r[i] = f
  BY <1>7, <1>10
<1>12. \A j \in 1..N : j < i => r[j] = l[j]
  BY <1>7, <1>10
<1>13. \A j \in 1..N : j > i => r[j + 1] = l[j]
  BY <1>7, <1>10
<1> QED BY <1>2, <1>4, <1>9, <1>10, <1>11, <1>12, <1>13 DEF f, r, Split

\* What the sender needs to know of s, which is l with segment i split after n bytes
Splits(s, l, i, n) ==
  /\ i \in 1..Len(s) /\ s[i].seq = l[i].seq /\ s[i].len = n
  /\ s[i].ctrl = l[i].ctrl /\ s[i].xmit = l[i].xmit
  /\ \A j \in 1..Len(s) : j < i => s[j] = l[j] /\ j \in 1..Len(l)
  /\ \A j \in 1..Len(s) : j > i =>
       /\ s[j].seq >= l[i].seq + n
       /\ \/ \E m \in 1..Len(l) : m > i /\ s[j] = l[m]
          \/ /\ s[j].seq = l[i].seq + n /\ n < l[i].len
             /\ s[j].ctrl = l[i].ctrl /\ s[j].xmit = l[i].xmit
  /\ ListMark(s, l[i].seq + n)
  /\ \A x \in Nat : ListMark(l, x) => ListMark(s, x)

\* The end of a segment of a chain
LEMMA ChainFacts ==
  ASSUME NEW l, NEW a \in Nat, NEW b \in Nat, Chain(l, a, b), NEW i \in 1..Len(l)
  PROVE  /\ l[i] \in Segment /\ l[i].seq \in Nat /\ l[i].len \in Nat /\ l[i].len > 0
         /\ l[i].seq >= a /\ l[i].seq + l[i].len <= b
         /\ \A j \in 1..Len(l) : l[j].seq \in Nat /\ l[j].len \in Nat
<1>1. l \in Seq(Segment) /\ Len(l) \in Nat /\ l # <<>> /\ \A j \in 1..Len(l) : l[j] \in Segment
  BY DEF Chain
<1>2. \A j \in 1..Len(l) : l[j].seq \in Nat /\ l[j].len \in Nat
  BY <1>1 DEF Segment
<1>3. l[1].seq = a /\ l[Len(l)].seq + l[Len(l)].len = b
  BY <1>1 DEF Chain
<1>4. l[i].seq + l[i].len <= b
  <2>1. CASE i = Len(l)
    BY <1>2, <1>3, <2>1
  <2>2. CASE i < Len(l)
    <3>1. l[i].seq + l[i].len <= l[Len(l)].seq /\ Len(l) \in 1..Len(l)
      BY <1>1, <2>2 DEF Chain
    <3> QED BY <1>2, <1>3, <3>1
  <2> QED BY <1>1, <2>1, <2>2
<1>5. l[i].seq >= a
  <2>1. CASE i = 1
    BY <1>2, <1>3, <2>1
  <2>2. CASE i > 1
    <3>1. l[1].seq + l[1].len <= l[i].seq /\ 1 \in 1..Len(l)
      BY <1>1, <2>2 DEF Chain
    <3> QED BY <1>2, <1>3, <3>1
  <2> QED BY <1>1, <2>1, <2>2
<1>6. l[i].len > 0
  BY DEF Chain
<1> QED BY <1>1, <1>2, <1>4, <1>5, <1>6

\* A split keeps what the segments cover.
LEMMA SplitChain ==
  ASSUME NEW l, NEW a \in Nat, NEW b \in Nat, Chain(l, a, b), NEW i \in 1..Len(l), NEW n \in Nat,
         0 < n, n < l[i].len, NEW s \in Seq(Segment), Split(s, l, i, n)
  PROVE  Chain(s, a, b)
<1> PICK M \in Nat : M = Len(l)
  BY DEF Chain
<1>1. Len(s) = M + 1 /\ i \in 1..M /\ s \in Seq(Segment)
  BY DEF Split
<1>2. /\ l \in Seq(Segment) /\ l # <<>> /\ l[1].seq = a /\ l[M].seq + l[M].len = b
      /\ \A j \in 1..M : l[j].len > 0
      /\ \A j, k \in 1..M : j < k => l[j].seq + l[j].len <= l[k].seq
      /\ \A j, k \in 1..M : k = j + 1 => l[j].seq + l[j].len = l[k].seq
  BY DEF Chain
<1>3. \A j \in 1..M : l[j].seq \in Nat /\ l[j].len \in Nat
  <2>1. \A j \in 1..M : l[j] \in Segment
    BY <1>2
  <2> QED BY <2>1 DEF Segment
<1>i. l[i].seq \in Nat /\ l[i].len \in Nat /\ n \in Nat /\ l[M].seq \in Nat /\ l[M].len \in Nat
  BY <1>1, <1>3
<1>4. /\ s[i].seq = l[i].seq /\ s[i].len = n
      /\ s[i + 1].seq = l[i].seq + n /\ s[i + 1].len = l[i].len - n
  <2>1. s[i] = Part(l[i], 0, n) /\ s[i + 1] = Part(l[i], n, l[i].len - n)
    BY DEF Split
  <2> QED BY <1>3, <2>1, PartFields
<1>5. \A j \in 1..M : j < i => s[j] = l[j]
  BY DEF Split
<1>6. \A j \in 1..M : j > i => s[j + 1] = l[j]
  BY DEF Split
<1>7. ASSUME NEW j \in 1..M + 1
      PROVE  \/ j < i /\ j \in 1..M /\ s[j] = l[j]
             \/ j = i \/ j = i + 1
             \/ \E k \in 1..M : k > i /\ k = j - 1 /\ s[j] = l[k]
  <2>1. CASE j < i
    BY <1>1, <1>5, <2>1
  <2>2. CASE j > i + 1
    <3> PICK k \in 1..M : k = j - 1
      BY <2>2
    <3>1. k > i /\ k + 1 = j
      BY <1>1, <2>2
    <3> QED BY <1>6, <3>1
  <2>3. j < i \/ j = i \/ j = i + 1 \/ j > i + 1
    BY <1>1
  <2> QED BY <2>1, <2>2, <2>3
<1>8. s # <<>> /\ s[1].seq = a
  <2>1. s # <<>>
    BY <1>1
  <2>0. l[1].seq = a
    BY <1>2
  <2>2. CASE i = 1
    BY <1>4, <2>0, <2>1, <2>2
  <2>3. CASE i > 1
    <3>1. 1 \in 1..M /\ 1 < i
      BY <1>1, <2>3
    <3> QED BY <1>5, <2>0, <2>1, <3>1
  <2> QED BY <1>1, <2>1, <2>2, <2>3
<1>9. s[M + 1].seq + s[M + 1].len = b
  <2>1. CASE i = M
    <3>1. s[M + 1].seq = l[M].seq + n /\ s[M + 1].len = l[M].len - n
      BY <1>4, <2>1
    <3>2. l[M].seq + l[M].len = b
      BY <1>2
    <3> PICK x, y \in Nat : x = l[M].seq /\ y = l[M].len
      BY <1>i
    <3>3. s[M + 1].seq = x + n /\ s[M + 1].len = y - n /\ x + y = b
      BY <3>1, <3>2
    <3>4. (x + n) + (y - n) = x + y
      OBVIOUS
    <3> QED BY <3>3, <3>4
  <2>2. CASE i < M
    BY <1>1, <1>2, <1>6, <2>2
  <2> QED BY <1>1, <2>1, <2>2
<1>10. ASSUME NEW j \in 1..M + 1
       PROVE  s[j].len > 0
  <2>1. l[i].len - n > 0
    BY <1>1, <1>3
  <2> QED BY <1>2, <1>4, <1>7, <2>1
<1>11. ASSUME NEW j \in 1..M + 1, NEW k \in 1..M + 1, j < k
       PROVE  s[j].seq + s[j].len <= s[k].seq /\ (k = j + 1 => s[j].seq + s[j].len = s[k].seq)
  <2>1. CASE k < i
    <3>1. s[j] = l[j] /\ s[k] = l[k] /\ j \in 1..M /\ k \in 1..M
      BY <1>1, <1>5, <1>11, <2>1
    <3> QED BY <1>2, <1>11, <3>1
  <2>2. CASE k = i
    <3>1. s[j] = l[j] /\ s[k].seq = l[k].seq /\ j \in 1..M /\ k \in 1..M
      BY <1>1, <1>4, <1>5, <1>11, <2>2
    <3> QED BY <1>2, <1>11, <3>1
  <2>3. CASE k = i + 1 /\ j < i
    <3>1. s[j] = l[j] /\ s[k].seq = l[i].seq + n /\ j \in 1..M
      BY <1>1, <1>4, <1>5, <2>3
    <3>2. l[j].seq + l[j].len <= l[i].seq /\ ~(k = j + 1)
      BY <1>1, <1>2, <2>3, <3>1
    <3> QED BY <1>1, <1>3, <3>1, <3>2, SMTT(30)
  <2>4. CASE k = i + 1 /\ j = i
    <3>1. s[j].seq = l[i].seq /\ s[j].len = n /\ s[k].seq = l[i].seq + n
      BY <1>4, <2>4
    <3> QED BY <1>1, <1>3, <3>1
  <2>5. CASE k > i + 1
    <3> PICK q \in 1..M : q > i /\ q = k - 1 /\ s[k] = l[q]
      BY <1>1, <1>7, <2>5
    <3>1. CASE j < i
      <4>1. s[j] = l[j] /\ j \in 1..M /\ j < q /\ k # j + 1
        BY <1>1, <1>5, <2>5, <3>1
      <4> QED BY <1>2, <4>1
    <3>2. CASE j = i
      <4>1. l[i].seq + l[i].len <= l[q].seq /\ k # j + 1
        BY <1>1, <1>2, <2>5, <3>2
      <4>2. s[j].seq = l[i].seq /\ s[j].len = n
        BY <1>4, <3>2
      <4>3. l[q].seq \in Nat
        BY <1>3
      <4> PICK x, y, z \in Nat : x = l[i].seq /\ y = l[i].len /\ z = l[q].seq
        BY <1>i, <4>3
      <4>4. x + y <= z /\ n < y
        BY <4>1
      <4>5. x + n <= z
        <5>1. \A p, q1, r, d \in Nat : p + q1 <= r /\ d < q1 => p + d <= r
          OBVIOUS
        <5> QED BY <4>4, <5>1
      <4>6. s[j].seq + s[j].len = x + n /\ s[k].seq = z
        BY <4>2
      <4> QED BY <4>1, <4>5, <4>6
    <3>3. CASE j = i + 1
      <4>1. l[i].seq + l[i].len <= l[q].seq /\ (k = j + 1 => l[i].seq + l[i].len = l[q].seq)
        BY <1>1, <1>2, <2>5, <3>3
      <4>2. s[j].seq = l[i].seq + n /\ s[j].len = l[i].len - n
        BY <1>4, <3>3
      <4>3. s[j].seq + s[j].len = l[i].seq + l[i].len
        BY <1>i, <4>2, SMTT(30)
      <4> QED BY <4>1, <4>3
    <3>4. CASE j > i + 1
      <4> PICK r \in 1..M : r > i /\ r = j - 1 /\ s[j] = l[r]
        BY <1>1, <1>7, <3>4
      <4>1. r < q /\ (k = j + 1 => q = r + 1)
        BY <1>11, SMTT(30)
      <4>2. l[r].seq + l[r].len <= l[q].seq
        BY <1>2, <4>1
      <4>3. q = r + 1 => l[r].seq + l[r].len = l[q].seq
        BY <1>2
      <4> QED BY <4>1, <4>2, <4>3
    <3>5. j < i \/ j = i \/ j = i + 1 \/ j > i + 1
      BY <1>1
    <3> QED BY <3>1, <3>2, <3>3, <3>4, <3>5
  <2>6. k < i \/ k = i \/ (k = i + 1 /\ j < i) \/ (k = i + 1 /\ j = i) \/ k > i + 1
    BY <1>1, <1>11
  <2> QED BY <2>1, <2>2, <2>3, <2>4, <2>5, <2>6
<1>12. \A j, k \in 1..M + 1 : j < k => s[j].seq + s[j].len <= s[k].seq
  BY <1>11
<1>13. \A j, k \in 1..M + 1 : k = j + 1 => s[j].seq + s[j].len = s[k].seq
  <2> SUFFICES ASSUME NEW j \in 1..M + 1, NEW k \in 1..M + 1, k = j + 1
               PROVE  s[j].seq + s[j].len = s[k].seq
    OBVIOUS
  <2>1. j < k
    OBVIOUS
  <2> QED BY <1>11, <2>1
<1> QED BY <1>1, <1>8, <1>9, <1>10, <1>12, <1>13 DEF Chain

\* Segments of a chain that start before the end of one end there as well.
LEMMA ChainMark ==
  ASSUME NEW l, NEW a \in Nat, NEW b \in Nat, Chain(l, a, b), NEW i \in 1..Len(l)
  PROVE  ListMark(l, l[i].seq + l[i].len)
<1> PICK M \in Nat : M = Len(l)
  BY DEF Chain
<1> SUFFICES ASSUME NEW j \in 1..M, l[j].seq < l[i].seq + l[i].len
             PROVE  l[j].seq + l[j].len <= l[i].seq + l[i].len
  BY DEF ListMark
<1>1. i \in 1..M /\ l[i].seq \in Nat /\ l[i].len \in Nat /\ l[j].seq \in Nat /\ l[j].len \in Nat
  BY ChainFacts
<1>2. CASE j < i
  <2>1. l[j].seq + l[j].len <= l[i].seq
    BY <1>1, <1>2 DEF Chain
  <2> QED BY <1>1, <2>1
<1>3. CASE j > i
  <2>1. l[i].seq + l[i].len <= l[j].seq
    BY <1>1, <1>3 DEF Chain
  <2> QED BY <1>1, <2>1
<1>4. CASE j = i
  BY <1>1, <1>4
<1> QED BY <1>1, <1>2, <1>3, <1>4

\* A split in the middle of a segment
LEMMA SplitInside ==
  ASSUME NEW l, NEW a \in Nat, NEW b \in Nat, Chain(l, a, b), NEW i \in 1..Len(l), NEW n \in Nat,
         0 < n, n < l[i].len, NEW s \in Seq(Segment), Split(s, l, i, n)
  PROVE  Splits(s, l, i, n)
<1> PICK M \in Nat : M = Len(l)
  BY DEF Chain
<1>1. Len(s) = M + 1 /\ i \in 1..M
  BY DEF Split
<1>2. l[i].seq \in Nat /\ l[i].len \in Nat /\ \A j \in 1..M : l[j].seq \in Nat /\ l[j].len \in Nat
  BY ChainFacts
<1>3. /\ s[i].seq = l[i].seq /\ s[i].len = n /\ s[i].ctrl = l[i].ctrl /\ s[i].xmit = l[i].xmit
      /\ s[i + 1].seq = l[i].seq + n /\ s[i + 1].len = l[i].len - n
      /\ s[i + 1].ctrl = l[i].ctrl /\ s[i + 1].xmit = l[i].xmit
  <2>1. s[i] = Part(l[i], 0, n) /\ s[i + 1] = Part(l[i], n, l[i].len - n)
    BY DEF Split
  <2> QED BY <1>2, <2>1, PartFields
<1>i. l[i].seq \in Nat /\ l[i].len \in Nat /\ n \in Nat
  BY <1>2
<1>r. s[i + 1].seq + s[i + 1].len = l[i].seq + l[i].len
  BY <1>3, <1>i, SMTT(30)
<1>4. \A j \in 1..M : j < i => s[j] = l[j]
  BY DEF Split
<1>5. \A j \in 1..M : j > i => s[j + 1] = l[j]
  BY DEF Split
<1>6. ASSUME NEW j \in 1..M + 1
      PROVE  \/ j < i /\ j \in 1..M /\ s[j] = l[j]
             \/ j = i \/ j = i + 1
             \/ \E k \in 1..M : k > i /\ s[j] = l[k]
  <2>1. CASE j < i
    BY <1>1, <1>4, <2>1
  <2>2. CASE j > i + 1
    <3> PICK k \in 1..M : k = j - 1
      BY <2>2
    <3>1. k > i /\ k + 1 = j
      BY <1>1, <2>2
    <3> QED BY <1>5, <3>1
  <2>3. j < i \/ j = i \/ j = i + 1 \/ j > i + 1
    BY <1>1
  <2> QED BY <2>1, <2>2, <2>3
<1>7. i \in 1..M + 1 /\ \A j \in 1..M + 1 : j < i => s[j] = l[j] /\ j \in 1..M
  BY <1>1, <1>4
<1>8. ASSUME NEW j \in 1..M + 1, j > i
      PROVE  /\ s[j].seq >= l[i].seq + n
             /\ \/ \E m \in 1..M : m > i /\ s[j] = l[m]
                \/ /\ s[j].seq = l[i].seq + n /\ n < l[i].len
                   /\ s[j].ctrl = l[i].ctrl /\ s[j].xmit = l[i].xmit
  <2>1. CASE j = i + 1
    <3>1. s[j].seq = l[i].seq + n /\ s[j].ctrl = l[i].ctrl /\ s[j].xmit = l[i].xmit
      BY <1>3, <2>1
    <3>2. l[i].seq + n >= l[i].seq + n
      BY <1>2
    <3> QED BY <3>1, <3>2
  <2>2. CASE \E k \in 1..M : k > i /\ s[j] = l[k]
    <3> PICK k \in 1..M : k > i /\ s[j] = l[k]
      BY <2>2
    <3>1. l[i].seq + l[i].len <= l[k].seq
      BY <1>1 DEF Chain
    <3>2. \A x, y, z, d \in Nat : x + y <= z /\ d < y => z >= x + d
      OBVIOUS
    <3>3. l[k].seq >= l[i].seq + n
      BY <1>2, <3>1, <3>2
    <3> QED BY <3>3
  <2>3. j # i /\ ~(j < i)
    BY <1>1, <1>8
  <2> QED BY <1>6, <2>1, <2>2, <2>3
<1>9. Chain(s, a, b)
  BY SplitChain
<1>10. ListMark(s, l[i].seq + n)
  <2>1. i \in 1..Len(s)
    BY <1>1
  <2>2. ListMark(s, s[i].seq + s[i].len)
    BY <1>9, <2>1, ChainMark
  <2> QED BY <1>3, <2>2
<1>11. ASSUME NEW x \in Nat, ListMark(l, x)
       PROVE  ListMark(s, x)
  <2> SUFFICES ASSUME NEW j \in 1..M + 1, s[j].seq < x
               PROVE  s[j].seq + s[j].len <= x
    BY <1>1 DEF ListMark
  <2>1. \A m \in 1..M : l[m].seq < x => l[m].seq + l[m].len <= x
    BY <1>11 DEF ListMark
  <2>2. l[i].seq < x => l[i].seq + l[i].len <= x
    BY <1>1, <2>1
  <2>3. CASE j = i
    <3>1. l[i].seq < x /\ s[j].seq + s[j].len = l[i].seq + n
      BY <1>3, <2>3
    <3>2. \A p, y, z, d \in Nat : p + y <= z /\ d < y => p + d <= z
      OBVIOUS
    <3> QED BY <1>2, <2>2, <3>1, <3>2
  <2>4. CASE j = i + 1
    <3>1. s[j].seq = l[i].seq + n /\ s[j].len = l[i].len - n
      BY <1>3, <2>4
    <3>2. \A p, y, d \in Nat : p + d < x => p < x
      OBVIOUS
    <3>4. s[j].seq + s[j].len = l[i].seq + l[i].len
      BY <1>r, <2>4
    <3>5. l[i].seq < x
      BY <1>2, <3>1, <3>2
    <3> QED BY <2>2, <3>4, <3>5
  <2> QED BY <1>6, <2>1, <2>3, <2>4
<1> QED BY <1>1, <1>3, <1>7, <1>8, <1>10, <1>11 DEF Splits

\* SplitSegment keeps what the segments cover, and every place where one of them ends.
LEMMA SplitKeeps ==
  ASSUME NEW l, NEW a \in Nat, NEW b \in Nat, Chain(l, a, b), NEW i \in 1..Len(l), NEW n \in Nat,
         0 < n, n <= l[i].len, b < SeqSpace
  PROVE  Chain(SplitSegment(l, i, n), a, b) /\ Splits(SplitSegment(l, i, n), l, i, n)
<1>1. /\ l \in Seq(Segment) /\ l[i] \in Segment /\ l[i].seq \in Nat /\ l[i].len \in Nat
      /\ l[i].seq + l[i].len <= b /\ Len(l) \in Nat
  <2>1. l \in Seq(Segment) /\ Len(l) \in Nat
    BY DEF Chain
  <2>2. l[i] \in Segment /\ l[i].seq \in Nat /\ l[i].len \in Nat /\ l[i].seq + l[i].len <= b
    BY ChainFacts
  <2> QED BY <2>1, <2>2
<1>2. CASE n = l[i].len
  <2>1. SplitSegment(l, i, n) = l
    BY <1>1, <1>2 DEF SplitSegment
  <2>2. ListMark(l, l[i].seq + n)
    BY <1>2, ChainMark
  <2>3. ASSUME NEW j \in 1..Len(l), j > i
        PROVE  l[j].seq >= l[i].seq + n
    <3>1. l[i].seq + l[i].len <= l[j].seq /\ l[j].seq \in Nat
      BY <2>3, ChainFacts DEF Chain
    <3> QED BY <1>1, <1>2, <3>1
  <2>4. Splits(l, l, i, n)
    BY <1>2, <2>2, <2>3 DEF Splits
  <2> QED BY <2>1, <2>4
<1>3. CASE n < l[i].len
  <2>1. l[i].seq + n < SeqSpace
    BY <1>1, <1>3, Sizes
  <2>2. SplitSegment(l, i, n) \in Seq(Segment) /\ Split(SplitSegment(l, i, n), l, i, n)
    BY <1>1, <1>3, <2>1, SplitShape
  <2> QED BY <1>3, <2>2, SplitChain, SplitInside
<1> QED BY <1>1, <1>2, <1>3

\* A split keeps what is known of the segments that were transmitted.
LEMMA SplitSent ==
  ASSUME NEW l, NEW a \in Nat, NEW b \in Nat, Chain(l, a, b), NEW i \in 1..Len(l), NEW n \in Nat,
         0 < n, n <= l[i].len, NEW nxt \in Nat, Sent(l, nxt), ListMark(l, nxt),
         NEW s, Splits(s, l, i, n)
  PROVE  Sent(s, nxt)
<1> SUFFICES ASSUME NEW j \in 1..Len(s)
             PROVE  /\ s[j].xmit > 0 <=> s[j].seq < nxt
                    /\ s[j].ctrl <=> s[j].seq = 0
                    /\ s[j].ctrl => s[j].len = 1
  BY DEF Sent
<1>1. /\ l[i] \in Segment /\ l[i].seq \in Nat /\ l[i].len \in Nat
      /\ (l[i].seq < nxt => l[i].seq + l[i].len <= nxt)
  <2>1. l[i] \in Segment /\ l[i].seq \in Nat /\ l[i].len \in Nat
    BY ChainFacts
  <2> QED BY <2>1 DEF ListMark
<1>2. \A m \in 1..Len(l) : /\ l[m].xmit > 0 <=> l[m].seq < nxt
                           /\ l[m].ctrl <=> l[m].seq = 0
                           /\ l[m].ctrl => l[m].len = 1
  BY DEF Sent
<1>i. l[i].xmit > 0 <=> l[i].seq < nxt
  BY <1>2
<1>c. l[i].ctrl <=> l[i].seq = 0
  BY <1>2
<1>l. l[i].ctrl => l[i].len = 1
  BY <1>2
<1>3. CASE j < i
  <2>1. s[j] = l[j] /\ j \in 1..Len(l)
    BY <1>3 DEF Splits
  <2> QED BY <1>2, <2>1
<1>4. CASE j = i
  <2>1. /\ s[j].seq = l[i].seq /\ s[j].len = n /\ s[j].ctrl = l[i].ctrl /\ s[j].xmit = l[i].xmit
    BY <1>4 DEF Splits
  <2>2. l[i].len = 1 => n = 1
    BY <1>1
  <2> QED BY <1>i, <1>c, <1>l, <2>1, <2>2
<1>5. CASE j > i
  <2>1. \/ \E m \in 1..Len(l) : m > i /\ s[j] = l[m]
        \/ /\ s[j].seq = l[i].seq + n /\ n < l[i].len
           /\ s[j].ctrl = l[i].ctrl /\ s[j].xmit = l[i].xmit
    BY <1>5 DEF Splits
  <2>2. CASE \E m \in 1..Len(l) : m > i /\ s[j] = l[m]
    BY <1>2, <2>2
  <2>3. CASE /\ s[j].seq = l[i].seq + n /\ n < l[i].len
             /\ s[j].ctrl = l[i].ctrl /\ s[j].xmit = l[i].xmit
    <3>1. ~(l[i].len = 1) /\ ~l[i].ctrl
      BY <1>1, <1>l, <2>3
    <3>2. l[i].seq + n # 0 /\ (l[i].seq + n < nxt <=> l[i].seq < nxt)
      BY <1>1, <2>3
    <3> QED BY <1>i, <2>3, <3>1, <3>2
  <2> QED BY <2>1, <2>2, <2>3
<1>6. j < i \/ j = i \/ j > i
  <2>1. Len(l) \in Nat /\ i \in 1..Len(s) /\ Len(s) \in Nat
    BY DEF Chain, Splits
  <2> QED BY <2>1
<1> QED BY <1>3, <1>4, <1>5, <1>6

\* r is s with segment i transmitted once more.
Bumped(r, s, i) ==
  /\ Len(r) = Len(s) /\ \A j \in 1..Len(s) : j # i => r[j] = s[j]
  /\ r[i].seq = s[i].seq /\ r[i].len = s[i].len /\ r[i].ctrl = s[i].ctrl /\ r[i].xmit > 0

\* The count of transmissions
LEMMA BumpShape ==
  ASSUME NEW s \in Seq(Segment), NEW i \in 1..Len(s)
  PROVE  LET r == [s EXCEPT ![i].xmit = @ + 1] IN r \in Seq(Segment) /\ Bumped(r, s, i)
<1> PICK g \in Segment : g = s[i]
  OBVIOUS
<1> DEFINE f == [g EXCEPT !.xmit = g.xmit + 1]
<1>1. f \in Segment /\ f.seq = g.seq /\ f.len = g.len /\ f.ctrl = g.ctrl /\ f.xmit > 0
  <2> PICK x \in Nat : x = g.xmit + 1 /\ x > 0
    BY DEF Segment
  <2>1. [g EXCEPT !.xmit = x] \in Segment
    BY DEF Segment
  <2>2. /\ [g EXCEPT !.xmit = x].seq = g.seq /\ [g EXCEPT !.xmit = x].len = g.len
        /\ [g EXCEPT !.xmit = x].ctrl = g.ctrl /\ [g EXCEPT !.xmit = x].xmit = x
    BY DEF Segment
  <2> QED BY <2>1, <2>2
<1>2. [s EXCEPT ![i].xmit = @ + 1] = [s EXCEPT ![i] = f]
  OBVIOUS
<1> HIDE DEF f
<1> DEFINE r == [s EXCEPT ![i] = f]
<1>3. r \in Seq(Segment) /\ Len(r) = Len(s) /\ r[i] = f /\ \A j \in 1..Len(s) : j # i => r[j] = s[j]
  BY <1>1
<1> HIDE DEF r
<1>4. Bumped(r, s, i)
  BY <1>1, <1>3 DEF Bumped
<1> QED BY <1>2, <1>3, <1>4 DEF r

\* Counting keeps the numbers of the segments.
LEMMA BumpChain ==
  ASSUME NEW s, NEW a, NEW b, Chain(s, a, b), NEW i \in 1..Len(s),
         NEW r \in Seq(Segment), Bumped(r, s, i)
  PROVE  Chain(r, a, b) /\ \A x : ListMark(s, x) => ListMark(r, x)
<1> PICK N \in Nat : N = Len(s)
  BY DEF Chain
<1>1. Len(r) = N /\ i \in 1..N /\ \A j \in 1..N : r[j].seq = s[j].seq /\ r[j].len = s[j].len
  BY DEF Bumped
<1>2. s # <<>> /\ r # <<>>
  BY <1>1 DEF Chain
<1>3. /\ s[1].seq = a /\ s[N].seq + s[N].len = b
      /\ \A j \in 1..N : s[j].len > 0
      /\ \A j, k \in 1..N : j < k => s[j].seq + s[j].len <= s[k].seq
      /\ \A j, k \in 1..N : k = j + 1 => s[j].seq + s[j].len = s[k].seq
  BY <1>2 DEF Chain
<1>4. 1 \in 1..N /\ N \in 1..N
  BY <1>1
<1>5. r[1].seq = a /\ r[N].seq + r[N].len = b
  BY <1>1, <1>3, <1>4
<1>6. \A j \in 1..N : r[j].len > 0
  BY <1>1, <1>3
<1>7. \A j, k \in 1..N : j < k => r[j].seq + r[j].len <= r[k].seq
  BY <1>1, <1>3
<1>8. \A j, k \in 1..N : k = j + 1 => r[j].seq + r[j].len = r[k].seq
  BY <1>1, <1>3
<1>9. Chain(r, a, b)
  BY <1>1, <1>2, <1>5, <1>6, <1>7, <1>8 DEF Chain
<1>10. \A x : ListMark(s, x) => ListMark(r, x)
  BY <1>1 DEF ListMark
<1> QED BY <1>9, <1>10

\* The segments after n bytes of segment i were transmitted
TransmitOf(l, i, n) == [SplitSegment(l, i, n) EXCEPT ![i].xmit = @ + 1]

\* What r, which covers the same numbers as l, has up to new and at x
Resent(r, l, a, b, new, x) ==
  /\ r \in Seq(Segment) /\ Chain(r, a, b) /\ Sent(r, new)
  /\ ListMark(r, new) /\ ListMark(r, x)
  /\ \A y \in Nat : ListMark(l, y) => ListMark(r, y)

\* The segments after segment i was transmitted, with n bytes of it
LEMMA TransmitList ==
  ASSUME NEW l, NEW a \in Nat, NEW b \in Nat, Chain(l, a, b), NEW i \in 1..Len(l), NEW n \in Nat,
         0 < n, n <= l[i].len, b < SeqSpace, NEW nxt \in Nat, nxt <= b,
         Sent(l, nxt), ListMark(l, nxt),
         NEW new \in Nat, \/ l[i].seq < nxt /\ new = nxt
                          \/ l[i].seq = nxt /\ new = nxt + n
  PROVE  /\ Resent(TransmitOf(l, i, n), l, a, b, new, l[i].seq + n)
         /\ l[i].seq + n <= new /\ nxt <= new /\ new <= b
<1> DEFINE s == SplitSegment(l, i, n)
           r == [s EXCEPT ![i].xmit = @ + 1]
<1>1. Chain(s, a, b) /\ Splits(s, l, i, n)
  BY SplitKeeps
<1>2. Sent(s, nxt)
  BY <1>1, SplitSent
<1> HIDE DEF s
<1>3. /\ i \in 1..Len(s) /\ s \in Seq(Segment) /\ s[i].seq = l[i].seq
      /\ ListMark(s, l[i].seq + n) /\ \A x \in Nat : ListMark(l, x) => ListMark(s, x)
      /\ \A j \in 1..Len(s) : j > i => s[j].seq >= l[i].seq + n
  BY <1>1 DEF Splits, Chain
<1>4. r \in Seq(Segment) /\ Bumped(r, s, i)
  BY <1>3, BumpShape
<1> HIDE DEF r
<1>5. Chain(r, a, b) /\ \A x : ListMark(s, x) => ListMark(r, x)
  BY <1>1, <1>3, <1>4, BumpChain
<1>6. /\ l[i].seq \in Nat /\ l[i].len \in Nat /\ l[i].seq + l[i].len <= b
  BY ChainFacts
<1>7. l[i].seq < nxt => l[i].seq + l[i].len <= nxt
  BY DEF ListMark
<1>8. l[i].seq + n <= new /\ nxt <= new
  BY <1>6, <1>7
<1>9. ListMark(r, new)
  <2>1. CASE new = nxt
    BY <1>3, <1>5, <2>1
  <2>2. CASE new = l[i].seq + n
    BY <1>3, <1>5, <2>2
  <2> QED BY <2>1, <2>2
<1>10. new <= b
  <2>1. CASE l[i].seq = nxt /\ new = nxt + n
    BY <1>6, <2>1
  <2>2. CASE l[i].seq < nxt /\ new = nxt
    BY <2>2
  <2> QED BY <2>1, <2>2
<1>11. Sent(r, new)
  <2> SUFFICES ASSUME NEW j \in 1..Len(s)
               PROVE  /\ r[j].xmit > 0 <=> r[j].seq < new
                      /\ r[j].ctrl <=> r[j].seq = 0
                      /\ r[j].ctrl => r[j].len = 1
    BY <1>4 DEF Sent, Bumped
  <2>1. /\ s[j].ctrl <=> s[j].seq = 0
        /\ s[j].ctrl => s[j].len = 1
    BY <1>2 DEF Sent
  <2>2. s[j].xmit > 0 <=> s[j].seq < nxt
    BY <1>2 DEF Sent
  <2>3. CASE j = i
    <3>1. r[j].xmit > 0 /\ r[j].seq = s[j].seq /\ r[j].ctrl = s[j].ctrl /\ r[j].len = s[j].len
      BY <1>4, <2>3 DEF Bumped
    <3>2. r[j].seq < new
      BY <1>3, <1>6, <1>8, <2>3, <3>1
    <3> QED BY <2>1, <3>1, <3>2
  <2>4. CASE j # i
    <3>1. r[j] = s[j]
      BY <1>4, <2>4 DEF Bumped
    <3>2. s[j].seq \in Nat
      BY <1>1, ChainFacts
    <3>3. s[j].seq < nxt <=> s[j].seq < new
      <4>1. CASE new = nxt
        BY <4>1
      <4>2. CASE new = nxt + n /\ l[i].seq = nxt
        <5>1. CASE j > i
          <6>1. s[j].seq >= new
            BY <1>3, <4>2, <5>1
          <6> QED BY <1>8, <3>2, <6>1
        <5>2. CASE j < i
          <6>1. s[j].seq + s[j].len <= s[i].seq /\ s[j].len > 0 /\ s[j].len \in Nat
            BY <1>1, <1>3, <5>2, ChainFacts DEF Chain
          <6>2. s[j].seq < nxt
            BY <1>3, <3>2, <4>2, <6>1, SMTT(30)
          <6> QED BY <1>8, <3>2, <6>2
        <5> QED BY <1>3, <2>4, <5>1, <5>2
      <4> QED BY <4>1, <4>2
    <3> QED BY <2>1, <2>2, <3>1, <3>3
  <2> QED BY <2>3, <2>4
<1>12. r = TransmitOf(l, i, n)
  BY DEF r, s, TransmitOf
<1> QED BY <1>3, <1>4, <1>5, <1>8, <1>9, <1>10, <1>11, <1>12 DEF Resent

-----------------------------------------------------------------------------
(* Changes of one end.                                                     *)

\* The numbers of a connection, and the connect message before them, do not wrap around.
NoWrap == FileLen + 1 < SeqSpace

\* What transmitting n bytes of segment i makes of an end
Transmitted(t, u, i, n) ==
  LET g == t.slist[i] IN
  /\ u \in Tcb /\ SameRecv(t, u) /\ SameMode(t, u)
  /\ u.sbuf = t.sbuf /\ u.snd_una = t.snd_una /\ u.snd_wnd = t.snd_wnd
  /\ u.recover = t.recover /\ u.dup_acks = t.dup_acks /\ u.sflags = t.sflags /\ u.rto = TRUE
  /\ u.slist = [SplitSegment(t.slist, i, n) EXCEPT ![i].xmit = @ + 1]
  /\ u.snd_nxt = IF g.xmit = 0 THEN t.snd_nxt + n ELSE t.snd_nxt
  /\ u.out = Append(t.out, PacketOf(t, g.seq, g.ctrl, g.seq - t.snd_una, n))
  /\ PacketOf(t, g.seq, g.ctrl, g.seq - t.snd_una, n) \in PacketRecord

\* An end with other segments, up to a number
SentTcb(t, l, x) == [t EXCEPT !.slist = l, !.snd_nxt = x, !.rto = TRUE, !.failed = FALSE]

\* What that leaves as it was
LEMMA SentRecord ==
  ASSUME NEW t \in Tcb, NEW l \in Seq(Segment), NEW x \in Nat
  PROVE  LET u == SentTcb(t, l, x)
         IN /\ u \in Tcb /\ SameRecv(t, u) /\ SameMode(t, u)
            /\ u.sbuf = t.sbuf /\ u.snd_una = t.snd_una /\ u.snd_wnd = t.snd_wnd
            /\ u.recover = t.recover /\ u.dup_acks = t.dup_acks /\ u.sflags = t.sflags
            /\ u.rto = TRUE /\ u.slist = l /\ u.snd_nxt = x /\ u.out = t.out
BY DEF SentTcb, Tcb, SameRecv, SameMode

\* A smaller segment size and congestion window
LEMMA FitRecord ==
  ASSUME NEW t \in Tcb, NEW n \in 1..Mss
  PROVE  LET u == [t EXCEPT !.mss = n, !.cwnd = 2 * n]
         IN /\ u \in Tcb /\ SameRecv(t, u) /\ SameMode(t, u) /\ SameSend(t, u)
            /\ u.recover = t.recover /\ u.dup_acks = t.dup_acks /\ u.sflags = t.sflags
            /\ u.rto = t.rto /\ u.out = t.out
<1>1. 2 * n \in 1..CwndMax
  BY Sizes
<1>2. \A m \in 1..CwndMax : [t EXCEPT !.mss = n, !.cwnd = m] \in Tcb
  BY DEF Tcb
<1>3. [t EXCEPT !.mss = n, !.cwnd = 2 * n] \in Tcb
  BY <1>1, <1>2
<1> QED BY <1>3 DEF Tcb, SameRecv, SameMode, SameSend

\* transmit sends a part of the segment, which is not empty.
LEMMA TransmitShape ==
  ASSUME NEW t \in Tcb, Sender(t), NoWrap, path \in 1..Mss, NEW i \in 1..Len(t.slist),
         t.slist[i].xmit = 0 => t.slist[i].seq = t.snd_nxt
  PROVE  \E n \in Nat : 0 < n /\ n <= t.slist[i].len /\ Transmitted(t, Transmit(t, i), i, n)
<1> DEFINE g == t.slist[i]
           want == Lesser(g.len, t.mss)
           n == Lesser(want, path)
           fit == IF n = want THEN t ELSE [t EXCEPT !.mss = n, !.cwnd = 2 * n]
           sent == Packet(fit, g.seq, g.ctrl, Sub(g.seq, t.snd_una), n)
           l == [SplitSegment(t.slist, i, n) EXCEPT ![i].xmit = @ + 1]
           new == IF g.xmit = 0 THEN t.snd_nxt + n ELSE t.snd_nxt
           k == PacketOf(t, g.seq, g.ctrl, g.seq - t.snd_una, n)
           u == SentTcb(sent, l, new)
<1>1. /\ t.snd_una \in Nat /\ t.snd_nxt \in Nat /\ Len(t.sbuf) \in Nat /\ Total(t) \in Nat
      /\ Total(t) = t.snd_una + Len(t.sbuf) /\ t.mss \in 1..Mss
      /\ t.slist \in Seq(Segment)
  <2>1. /\ t.snd_una \in Nat /\ t.snd_nxt \in Nat /\ Len(t.sbuf) \in Nat /\ t.mss \in 1..Mss
        /\ t.slist \in Seq(Segment)
    BY DEF Tcb
  <2> QED BY <2>1 DEF Total
<1>2. Chain(t.slist, t.snd_una, Total(t)) /\ Total(t) < SeqSpace
  <2>1. Chain(t.slist, t.snd_una, Total(t)) /\ Total(t) <= FileLen + 1
    BY DEF Sender
  <2> QED BY <1>1, <2>1, Sizes DEF NoWrap
<1>3. /\ g \in Segment /\ g.seq \in Nat /\ g.len \in Nat /\ g.len > 0
      /\ g.seq >= t.snd_una /\ g.seq + g.len <= Total(t)
  BY <1>1, <1>2, ChainFacts
<1>4. g.ctrl \in BOOLEAN /\ g.xmit \in Nat
  BY <1>3 DEF Segment
<1> HIDE DEF g
<1>5. want \in Nat /\ 0 < want /\ want <= g.len
  <2>1. t.mss \in Nat /\ 0 < t.mss
    BY <1>1, Sizes
  <2> QED BY <1>3, <2>1 DEF Lesser
<1> HIDE DEF want
<1>6. n \in Nat /\ 0 < n /\ n <= want /\ n <= path
  BY <1>5, Sizes DEF Lesser
<1> HIDE DEF n
<1>7. n \in 1..Mss /\ n <= g.len /\ n \in Nat
  BY <1>3, <1>5, <1>6, Sizes
<1>8. /\ fit \in Tcb /\ SameRecv(t, fit) /\ SameMode(t, fit) /\ SameSend(t, fit)
      /\ fit.recover = t.recover /\ fit.dup_acks = t.dup_acks /\ fit.sflags = t.sflags
      /\ fit.rto = t.rto /\ fit.out = t.out
  <2>1. CASE n = want
    BY <2>1 DEF SameRecv, SameMode, SameSend
  <2>2. CASE n # want
    BY <1>7, <2>2, FitRecord
  <2> QED BY <2>1, <2>2
<1>9. Sub(g.seq, t.snd_una) = g.seq - t.snd_una /\ g.seq - t.snd_una \in Nat
      /\ (g.seq - t.snd_una) + n <= Len(t.sbuf)
  <2>1. g.seq < SeqSpace
    BY <1>1, <1>2, <1>3, Sizes
  <2>2. Sub(g.seq, t.snd_una) = g.seq - t.snd_una
    BY <1>1, <1>3, <2>1, SmallNumbers
  <2>3. g.seq - t.snd_una \in Nat
    BY <1>1, <1>3
  <2>4. (g.seq - t.snd_una) + n <= Len(t.sbuf)
    <3>1. g.seq + g.len <= t.snd_una + Len(t.sbuf)
      BY <1>1, <1>3
    <3>2. \A a, b, c, d, m \in Nat : a + b <= c + d /\ m <= b => (a - c) + m <= d
      OBVIOUS
    <3> QED BY <1>1, <1>3, <1>7, <3>1, <3>2
  <2> QED BY <2>2, <2>3, <2>4
<1> HIDE DEF fit
<1>10. /\ sent \in Tcb /\ sent.out = Append(t.out, k) /\ k \in PacketRecord
       /\ SameSend(t, sent) /\ SameRecv(t, sent) /\ SameMode(t, sent)
       /\ sent.recover = t.recover /\ sent.sflags = t.sflags /\ sent.dup_acks = t.dup_acks
  <2> PICK o \in Nat : o = g.seq - t.snd_una
    BY <1>9
  <2>0. fit.sbuf = t.sbuf /\ fit.rcv_nxt = t.rcv_nxt /\ fit.rcv_wnd = t.rcv_wnd
    BY <1>8 DEF SameSend, SameRecv
  <2>1. fit \in Tcb /\ o + n <= Len(fit.sbuf)
    BY <1>8, <1>9, <2>0
  <2> PICK seq \in Nat, ctrl \in BOOLEAN : seq = g.seq /\ ctrl = g.ctrl
    BY <1>3, <1>4
  <2> DEFINE v == Packet(fit, seq, ctrl, o, n)
             q == PacketOf(fit, seq, ctrl, o, n)
  <2>2. /\ q \in PacketRecord /\ v \in Tcb /\ OneMore(fit, v, q)
        /\ SameSend(fit, v) /\ SameRecv(fit, v) /\ SameMode(fit, v) /\ SameRest(fit, v)
    <3>1. n \in Nat /\ o + n <= Len(fit.sbuf) /\ fit \in Tcb
      BY <1>7, <2>1
    <3> QED BY <3>1, PacketFrame
  <2>3. sent = v
    BY <1>9
  <2>4. q = k
    BY <2>0 DEF PacketOf
  <2> HIDE DEF v, q, sent, k
  <2>5. SameSend(t, v) /\ SameRecv(t, v) /\ SameMode(t, v)
    BY <1>8, <2>2 DEF SameSend, SameRecv, SameMode
  <2>6. path # NoRoute
    BY Sizes DEF NoRoute
  <2> QED BY <1>8, <2>2, <2>3, <2>4, <2>5, <2>6 DEF SameRest, OneMore
<1>11. Transmit(t, i) = u
  <2>1. sent.slist = t.slist /\ sent.snd_nxt = t.snd_nxt
    BY <1>10 DEF SameSend
  <2>2. g.xmit = 0 => Add(t.snd_nxt, n) = t.snd_nxt + n
    <3>1. g.xmit = 0 => g.seq = t.snd_nxt
      BY DEF g
    <3>2. g.xmit = 0 => t.snd_nxt + n < SeqSpace
      BY <1>1, <1>2, <1>3, <1>7, <3>1, Sizes, SMTT(30)
    <3> QED BY <1>1, <1>7, <3>2, SmallNumbers
  <2> HIDE DEF sent
  <2>3. Transmit(t, i) = [sent EXCEPT
           !.slist = [SplitSegment(t.slist, i, n) EXCEPT ![i].xmit = @ + 1],
           !.snd_nxt = IF g.xmit = 0 THEN Add(t.snd_nxt, n) ELSE t.snd_nxt,
           !.rto = TRUE, !.failed = FALSE]
    BY DEF Transmit, sent, fit, n, want, g
  <2>4. (IF g.xmit = 0 THEN Add(t.snd_nxt, n) ELSE t.snd_nxt) = new
    BY <2>2
  <2> HIDE DEF new
  <2> QED BY <2>3, <2>4 DEF SentTcb
<1> HIDE DEF sent, k
<1>12. l \in Seq(Segment)
  <2>1. Chain(SplitSegment(t.slist, i, n), t.snd_una, Total(t)) /\ Splits(SplitSegment(t.slist, i, n), t.slist, i, n)
    BY <1>1, <1>2, <1>6, <1>7, SplitKeeps DEF g
  <2>2. SplitSegment(t.slist, i, n) \in Seq(Segment) /\ i \in 1..Len(SplitSegment(t.slist, i, n))
    BY <2>1 DEF Chain, Splits
  <2> QED BY <2>2, BumpShape
<1>13. new \in Nat
  BY <1>1, <1>7
<1> HIDE DEF l, new
<1>14. /\ u \in Tcb /\ SameRecv(sent, u) /\ SameMode(sent, u)
       /\ u.sbuf = sent.sbuf /\ u.snd_una = sent.snd_una /\ u.snd_wnd = sent.snd_wnd
       /\ u.recover = sent.recover /\ u.dup_acks = sent.dup_acks /\ u.sflags = sent.sflags
       /\ u.rto = TRUE /\ u.slist = l /\ u.snd_nxt = new /\ u.out = sent.out
  BY <1>10, <1>12, <1>13, SentRecord, ZenonT(60)
<1> HIDE DEF u
<1>15. SameRecv(t, u) /\ SameMode(t, u)
  BY <1>10, <1>14 DEF SameRecv, SameMode
<1>16. u.sbuf = t.sbuf /\ u.snd_una = t.snd_una /\ u.snd_wnd = t.snd_wnd
  BY <1>10, <1>14 DEF SameSend
<1>17. Transmitted(t, u, i, n)
  <2>1. u.slist = [SplitSegment(t.slist, i, n) EXCEPT ![i].xmit = @ + 1]
    BY <1>14 DEF l
  <2>2. u.snd_nxt = IF t.slist[i].xmit = 0 THEN t.snd_nxt + n ELSE t.snd_nxt
    BY <1>14 DEF new, g
  <2>3. /\ u.out = Append(t.out, PacketOf(t, t.slist[i].seq, t.slist[i].ctrl, t.slist[i].seq - t.snd_una, n))
        /\ PacketOf(t, t.slist[i].seq, t.slist[i].ctrl, t.slist[i].seq - t.snd_una, n) \in PacketRecord
    BY <1>10, <1>14 DEF k, g
  <2> QED BY <1>10, <1>14, <1>15, <1>16, <2>1, <2>2, <2>3 DEF Transmitted
<1> QED BY <1>6, <1>7, <1>11, <1>17 DEF g

-----------------------------------------------------------------------------
(* Both ends.                                                              *)

\* A change of the send side that keeps the marks
LEMMA PairSend ==
  ASSUME NEW t, NEW u, NEW p, NEW A, NEW B, Pair(t, p, A, B), End(u), SameRecv(t, u), Flow(u, p),
         \A x : Mark(t, x) => Mark(u, x)
  PROVE  Pair(u, p, A, B)
<1>1. u.rcv_nxt = t.rcv_nxt /\ u.rlist = t.rlist /\ Edge(u) = Edge(t)
  BY DEF SameRecv, Edge
<1>2. Flow(p, u)
  BY <1>1 DEF Pair, Flow
<1>3. \A k \in A : PacketOK(k, p, u)
  BY DEF Pair, PacketOK
<1>4. \A k \in B : PacketOK(k, u, p)
  BY <1>1 DEF Pair, PacketOK
<1> QED BY <1>2, <1>3, <1>4 DEF Pair

\* A change of the receive side that takes nothing back
LEMMA PairRecv ==
  ASSUME NEW t, NEW u, NEW p, NEW A, NEW B, Pair(t, p, A, B), End(u), SameSend(t, u), Flow(p, u),
         t.rcv_nxt <= u.rcv_nxt, Edge(t) <= Edge(u)
  PROVE  Pair(u, p, A, B)
<1>1. u.slist = t.slist /\ u.snd_nxt = t.snd_nxt
  BY DEF SameSend
<1>2. \A x : Mark(t, x) => Mark(u, x)
  BY <1>1 DEF Mark
<1>3. Flow(u, p)
  <2>1. u.snd_una = t.snd_una /\ u.snd_wnd = t.snd_wnd
    BY DEF SameSend
  <2> QED BY <1>1, <1>2, <2>1 DEF Pair, Flow
<1>4. \A k \in A : PacketOK(k, p, u)
  BY <1>2 DEF Pair, PacketOK
<1>5. ASSUME NEW k \in B
      PROVE  PacketOK(k, u, p)
  <2>1. PacketOK(k, t, p)
    BY DEF Pair
  <2>2. t \in Tcb /\ u \in Tcb
    BY DEF Pair, End
  <2>3. t.rcv_nxt \in Nat /\ t.rcv_wnd \in Nat /\ u.rcv_nxt \in Nat /\ u.rcv_wnd \in Nat
    BY <2>2 DEF Tcb
  <2>4. k.ack \in Nat /\ k.wnd \in Nat /\ k.ack <= t.rcv_nxt /\ k.ack + k.wnd <= Edge(t)
    BY <2>1 DEF PacketOK, PacketRecord
  <2>5. Edge(t) \in Nat /\ Edge(u) \in Nat
    BY <2>3 DEF Edge
  <2>6. k.ack <= u.rcv_nxt /\ k.ack + k.wnd <= Edge(u)
    BY <2>3, <2>4, <2>5
  <2> QED BY <1>2, <2>1, <2>6 DEF PacketOK
<1> QED BY <1>3, <1>4, <1>5 DEF Pair

\* One more packet under way
LEMMA PairOut ==
  ASSUME NEW t, NEW p, NEW A, NEW B, Pair(t, p, A, B), NEW k, PacketOK(k, t, p)
  PROVE  Pair(t, p, A, B \cup {k})
BY DEF Pair

\* Fewer packets under way, as after a loss
LEMMA PairFewer ==
  ASSUME NEW t, NEW p, NEW A, NEW B, Pair(t, p, A, B), NEW C, NEW D, C \subseteq A, D \subseteq B
  PROVE  Pair(t, p, C, D)
BY DEF Pair

\* The pair seen from the other end
LEMMA PairTurned ==
  ASSUME NEW t, NEW p, NEW A, NEW B, Pair(t, p, A, B)
  PROVE  Pair(p, t, B, A)
BY DEF Pair

\* A pair within a handler of t, with the packets it has written so far
Work(t, p, A, B) == Pair(t, p, A, B \cup Held(t.out))

\* The numbers of an end
LEMMA EndNumbers ==
  ASSUME NEW t, End(t)
  PROVE  /\ t \in Tcb /\ t.snd_una \in Nat /\ t.snd_nxt \in Nat /\ t.snd_wnd \in Nat
         /\ t.rcv_nxt \in Nat /\ t.rcv_wnd \in Nat /\ t.recover \in Nat
         /\ t.sbuf \in Seq(Nat) /\ Len(t.sbuf) \in Nat /\ t.rbuf \in Seq(Nat) /\ Len(t.rbuf) \in Nat
         /\ t.slist \in Seq(Segment) /\ Len(t.slist) \in Nat /\ t.out \in Seq(PacketRecord)
         /\ Total(t) \in Nat /\ Total(t) = t.snd_una + Len(t.sbuf)
         /\ Edge(t) \in Nat /\ Edge(t) = t.rcv_nxt + t.rcv_wnd /\ Room(t) \in Int
         /\ t.snd_una <= t.snd_nxt /\ t.snd_nxt <= Total(t) /\ Total(t) <= FileLen + 1
         /\ (NoWrap => Total(t) < SeqSpace)
<1>1. t \in Tcb
  BY DEF End
<1>2. /\ t.snd_una \in Nat /\ t.snd_nxt \in Nat /\ t.snd_wnd \in Nat
      /\ t.rcv_nxt \in Nat /\ t.rcv_wnd \in Nat /\ t.recover \in Nat
      /\ t.sbuf \in Seq(Nat) /\ t.rbuf \in Seq(Nat)
      /\ t.slist \in Seq(Segment) /\ t.out \in Seq(PacketRecord)
  BY <1>1 DEF Tcb
<1>3. Len(t.sbuf) \in Nat /\ Len(t.rbuf) \in Nat /\ Len(t.slist) \in Nat
  BY <1>2
<1>4. Total(t) \in Nat /\ Total(t) = t.snd_una + Len(t.sbuf)
  BY <1>2, <1>3 DEF Total
<1>5. Edge(t) \in Nat /\ Edge(t) = t.rcv_nxt + t.rcv_wnd
  BY <1>2 DEF Edge
<1>6. Room(t) \in Int
  BY <1>3, Sizes DEF Room
<1>7. t.snd_una <= t.snd_nxt /\ t.snd_nxt <= Total(t) /\ Total(t) <= FileLen + 1
  BY DEF End, Sender
<1>8. NoWrap => Total(t) < SeqSpace
  BY <1>4, <1>7, Sizes DEF NoWrap
<1> QED BY <1>1, <1>2, <1>3, <1>4, <1>5, <1>6, <1>7, <1>8

\* What sending leaves alone, and what it only lets grow
Sends(t, u) ==
  /\ SameRecv(t, u) /\ SameMode(t, u) /\ Total(u) = Total(t) /\ t.snd_nxt <= u.snd_nxt
  /\ u.snd_una = t.snd_una /\ u.sbuf = t.sbuf

\* transmit, of the first segment that was not transmitted or of one that was
LEMMA TransmitWork ==
  ASSUME NEW t, NEW p, NEW A, NEW B, Work(t, p, A, B), NoWrap, path \in 1..Mss,
         NEW i \in 1..Len(t.slist),
         \/ t.slist[i].seq < t.snd_nxt
         \/ t.slist[i].seq = t.snd_nxt /\ t.slist[i].seq + t.slist[i].len <= Edge(p)
  PROVE  LET u == Transmit(t, i)
         IN /\ Work(u, p, A, B) /\ Sends(t, u) /\ u.snd_nxt # u.snd_una
            /\ u.dup_acks = t.dup_acks /\ u.sflags = t.sflags
            /\ t.slist[i].seq < t.snd_nxt => u.snd_nxt = t.snd_nxt
<1> DEFINE u == Transmit(t, i)
           g == t.slist[i]
<1>1. End(t) /\ End(p) /\ Flow(t, p) /\ Flow(p, t) /\ Pair(t, p, A, B \cup Held(t.out))
  BY DEF Work, Pair
<1>2. /\ t \in Tcb /\ t.snd_una \in Nat /\ t.snd_nxt \in Nat /\ t.snd_wnd \in Nat
      /\ t.rcv_nxt \in Nat /\ t.rcv_wnd \in Nat /\ t.recover \in Nat
      /\ t.sbuf \in Seq(Nat) /\ Len(t.sbuf) \in Nat
      /\ t.slist \in Seq(Segment) /\ t.out \in Seq(PacketRecord)
      /\ Total(t) \in Nat /\ Total(t) = t.snd_una + Len(t.sbuf)
      /\ t.snd_una <= t.snd_nxt /\ t.snd_nxt <= Total(t) /\ Total(t) <= FileLen + 1
      /\ Total(t) < SeqSpace
  BY <1>1, EndNumbers
<1>3. /\ Sender(t) /\ Chain(t.slist, t.snd_una, Total(t)) /\ Sent(t.slist, t.snd_nxt)
      /\ Mark(t, t.snd_nxt) /\ ListMark(t.slist, t.snd_nxt)
      /\ Numbered(t.sbuf, t.snd_una) /\ Len(t.sbuf) <= SBufLen
  BY <1>1 DEF End, Sender, Mark
<1>4. /\ g \in Segment /\ g.seq \in Nat /\ g.len \in Nat /\ g.len > 0
      /\ g.seq >= t.snd_una /\ g.seq + g.len <= Total(t)
  BY <1>2, <1>3, ChainFacts
<1>5. /\ g.xmit > 0 <=> g.seq < t.snd_nxt
      /\ g.ctrl <=> g.seq = 0
      /\ g.ctrl => g.len = 1
  BY <1>3 DEF Sent
<1>6. (g.xmit = 0 <=> ~(g.seq < t.snd_nxt)) /\ (g.xmit = 0 => g.seq = t.snd_nxt)
  <2>1. g.xmit \in Nat
    BY <1>4 DEF Segment
  <2> QED BY <1>2, <1>4, <1>5, <2>1, SMTT(30)
<1>7. \E n \in Nat : 0 < n /\ n <= g.len /\ Transmitted(t, u, i, n)
  BY <1>2, <1>3, <1>6, TransmitShape
<1> PICK n \in Nat : 0 < n /\ n <= g.len /\ Transmitted(t, u, i, n)
  BY <1>7
<1> HIDE DEF u
<1> DEFINE k == PacketOf(t, g.seq, g.ctrl, g.seq - t.snd_una, n)
<1>8. /\ u \in Tcb /\ SameRecv(t, u) /\ SameMode(t, u)
      /\ u.sbuf = t.sbuf /\ u.snd_una = t.snd_una /\ u.snd_wnd = t.snd_wnd
      /\ u.recover = t.recover /\ u.dup_acks = t.dup_acks /\ u.sflags = t.sflags /\ u.rto = TRUE
      /\ u.slist = [SplitSegment(t.slist, i, n) EXCEPT ![i].xmit = @ + 1]
      /\ u.snd_nxt = IF g.xmit = 0 THEN t.snd_nxt + n ELSE t.snd_nxt
      /\ u.out = Append(t.out, k) /\ k \in PacketRecord
  BY DEF Transmitted
<1> PICK new \in Nat : new = u.snd_nxt
  BY <1>8 DEF Tcb
<1>9. \/ g.seq < t.snd_nxt /\ new = t.snd_nxt
      \/ g.seq = t.snd_nxt /\ new = t.snd_nxt + n
  BY <1>6, <1>8
<1>10. /\ u.slist \in Seq(Segment) /\ Chain(u.slist, t.snd_una, Total(t)) /\ Sent(u.slist, new)
       /\ ListMark(u.slist, new) /\ ListMark(u.slist, g.seq + n)
       /\ g.seq + n <= new /\ t.snd_nxt <= new /\ new <= Total(t)
       /\ \A x \in Nat : ListMark(t.slist, x) => ListMark(u.slist, x)
  <2>1. /\ Resent(TransmitOf(t.slist, i, n), t.slist, t.snd_una, Total(t), new, g.seq + n)
        /\ g.seq + n <= new /\ t.snd_nxt <= new /\ new <= Total(t)
    <3>1. /\ Chain(t.slist, t.snd_una, Total(t)) /\ t.snd_una \in Nat /\ Total(t) \in Nat
          /\ 0 < n /\ n <= g.len /\ Total(t) < SeqSpace
          /\ t.snd_nxt \in Nat /\ t.snd_nxt <= Total(t)
          /\ Sent(t.slist, t.snd_nxt) /\ ListMark(t.slist, t.snd_nxt)
      BY <1>2, <1>3
    <3> QED BY <1>9, <3>1, TransmitList, SMTT(30)
  <2>2. u.slist = TransmitOf(t.slist, i, n)
    BY <1>8 DEF TransmitOf
  <2> QED BY <2>1, <2>2 DEF Resent
<1> HIDE DEF g, k
<1>11. \A x : Mark(t, x) => Mark(u, x)
  <2> SUFFICES ASSUME NEW x, Mark(t, x)
               PROVE  Mark(u, x)
    OBVIOUS
  <2>1. x \in Nat /\ x <= t.snd_nxt /\ ListMark(t.slist, x)
    BY DEF Mark
  <2>2. x <= new
    BY <1>2, <1>10, <2>1
  <2> QED BY <1>10, <2>1, <2>2 DEF Mark
<1>12. Total(u) = Total(t)
  BY <1>8 DEF Total
<1>13. Sender(u)
  <2>1. u.snd_una <= u.snd_nxt
    <3>1. \A x, y, z \in Nat : x <= y /\ y <= z => x <= z
      OBVIOUS
    <3>2. t.snd_una <= new
      BY <1>2, <1>10, <3>1
    <3> QED BY <1>8, <3>2
  <2>2. Mark(u, u.snd_nxt)
    BY <1>2, <1>10 DEF Mark
  <2> QED BY <1>2, <1>3, <1>8, <1>10, <1>12, <2>1, <2>2 DEF Sender
<1>14. new # t.snd_una
  BY <1>2, <1>4, <1>10, SMTT(30)
<1>15. Timed(u)
  <2>1. t.recover <= t.snd_nxt
    BY <1>1 DEF End, Timed
  <2>2. u.recover <= u.snd_nxt
    BY <1>2, <1>8, <1>10, <2>1, SMTT(30)
  <2>3. u.rto <=> u.snd_una # u.snd_nxt
    BY <1>8, <1>14
  <2> QED BY <2>2, <2>3 DEF Timed
<1>16. Receiver(u)
  <2>1. Room(u) = Room(t) /\ Edge(u) = Edge(t)
    BY <1>8 DEF SameRecv, Room, Edge
  <2>2. Receiver(t)
    BY <1>1 DEF End
  <2> QED BY <1>8, <2>1, <2>2 DEF SameRecv, Receiver
<1>17. End(u)
  BY <1>8, <1>13, <1>15, <1>16 DEF End
<1>18. Flow(u, p)
  <2>1. new <= Edge(p)
    <3>1. t.snd_nxt <= Edge(p)
      BY <1>1 DEF Flow
    <3>2. Edge(p) \in Nat
      BY <1>1, EndNumbers
    <3>3. CASE g.seq = t.snd_nxt /\ new = t.snd_nxt + n
      <4>1. g.seq + g.len <= Edge(p)
        BY <1>2, <1>4, <3>3 DEF g
      <4>2. \A x, y, z, d \in Nat : x + y <= z /\ d <= y => x + d <= z
        OBVIOUS
      <4>3. g.seq \in Nat /\ g.len \in Nat /\ n <= g.len
        BY <1>4 DEF g
      <4>4. g.seq + n <= Edge(p)
        BY <3>2, <4>1, <4>2, <4>3
      <4> QED BY <3>3, <4>4
    <3>4. CASE new = t.snd_nxt
      BY <3>1, <3>4
    <3> QED BY <1>9, <3>3, <3>4
  <2> QED BY <1>1, <1>8, <1>11, <2>1 DEF Flow
<1>19. Pair(u, p, A, B \cup Held(t.out))
  BY <1>1, <1>8, <1>11, <1>17, <1>18, PairSend
<1>20. PacketOK(k, u, p)
  <2>1. /\ k.seq = g.seq /\ k.ctrl = g.ctrl /\ k.ack = t.rcv_nxt /\ k.wnd = t.rcv_wnd
        /\ k.data = [j \in 1..n |-> t.sbuf[(g.seq - t.snd_una) + j]]
    BY DEF k, PacketOf
  <2>2. Len(k.data) = n /\ k.data # <<>>
    BY <1>8, <2>1 DEF PacketRecord
  <2>3. Numbered(k.data, k.seq)
    <3> SUFFICES ASSUME NEW j \in 1..n
                 PROVE  k.data[j] = g.seq + j - 1
      BY <2>1, <2>2 DEF Numbered
    <3> PICK x \in Nat : /\ x = (g.seq - t.snd_una) + j /\ x >= 1 /\ x <= Len(t.sbuf)
                        /\ t.snd_una + x - 1 = g.seq + j - 1
      <4>1. g.seq \in Nat /\ g.len \in Nat /\ n <= g.len /\ g.seq >= t.snd_una
            /\ g.seq + g.len <= t.snd_una + Len(t.sbuf)
        BY <1>2, <1>4 DEF g
      <4>2. /\ (g.seq - t.snd_una) + j \in Nat /\ (g.seq - t.snd_una) + j >= 1
            /\ (g.seq - t.snd_una) + j <= Len(t.sbuf)
            /\ t.snd_una + ((g.seq - t.snd_una) + j) - 1 = g.seq + j - 1
        <5>1. j \in Nat /\ j >= 1 /\ j <= n /\ t.snd_una \in Nat /\ Len(t.sbuf) \in Nat
          BY <1>2
        <5> HIDE <1>2
        <5>2. (g.seq - t.snd_una) + j \in Nat
          BY <4>1, <5>1, SMTT(30)
        <5>3. (g.seq - t.snd_una) + j >= 1
          BY <4>1, <5>1
        <5>4. (g.seq - t.snd_una) + j <= Len(t.sbuf)
          BY <4>1, <5>1, SMTT(30)
        <5>5. t.snd_una + ((g.seq - t.snd_una) + j) - 1 = g.seq + j - 1
          BY <4>1, <5>1
        <5> QED BY <5>2, <5>3, <5>4, <5>5
      <4> QED BY <4>2
    <3>1. t.sbuf[x] = t.snd_una + x - 1
      BY <1>2, <1>3 DEF Numbered
    <3>2. k.data[j] = t.sbuf[x]
      BY <2>1
    <3> QED BY <3>1, <3>2
  <2>4. k.seq < SeqSpace
    BY <1>2, <1>4, <2>1, Sizes
  <2>5. k.wnd <= RBufLen
    <3>1. t.rcv_wnd <= Room(t)
      BY <1>1 DEF End, Receiver
    <3>2. t.rbuf \in Seq(Nat) /\ Len(t.rbuf) \in Nat
      BY <1>2 DEF Tcb
    <3> QED BY <1>2, <2>1, <3>1, <3>2, Sizes, SMTT(30) DEF Room
  <2>6. Mark(u, k.seq + Len(k.data))
    BY <1>4, <1>10, <2>1, <2>2 DEF Mark
  <2>7. k.ctrl <=> k.seq = 0
    BY <1>5, <2>1 DEF g
  <2>8. k.ctrl => Len(k.data) = 1
    <3>1. g.ctrl => g.len = 1
      BY <1>5 DEF g
    <3>2. g.len = 1 => n = 1
      BY <1>4 DEF g
    <3> QED BY <2>1, <2>2, <3>1, <3>2
  <2>9. Mark(p, k.ack)
    BY <1>1, <2>1 DEF Flow
  <2>10. k.ack <= u.rcv_nxt /\ k.ack + k.wnd <= Edge(u)
    BY <1>2, <1>8, <2>1, SMTT(30) DEF SameRecv, Edge
  <2> QED BY <1>8, <2>3, <2>4, <2>5, <2>6, <2>7, <2>8, <2>9, <2>10 DEF PacketOK
<1>21. Work(u, p, A, B)
  <2>1. Pair(u, p, A, (B \cup Held(t.out)) \cup {k})
    BY <1>19, <1>20, PairOut
  <2>2. Held(u.out) = Held(t.out) \cup {k}
    BY <1>2, <1>8, AppendQueue
  <2>3. (B \cup Held(t.out)) \cup {k} = B \cup Held(u.out)
    BY <2>2
  <2> QED BY <2>1, <2>3 DEF Work
<1>22. Sends(t, u)
  BY <1>8, <1>10, <1>12 DEF Sends
<1>23. g.seq < t.snd_nxt => u.snd_nxt = t.snd_nxt
  BY <1>6, <1>8 DEF g
<1> QED BY <1>8, <1>14, <1>21, <1>22, <1>23 DEF u, g

\* A change of fields that neither the peer nor the buffers depend on
LEMMA WorkSame ==
  ASSUME NEW t, NEW u, NEW p, NEW A, NEW B, Work(t, p, A, B), u \in Tcb,
         SameSend(t, u), SameRecv(t, u), Timed(u), u.out = t.out
  PROVE  Work(u, p, A, B)
<1>1. End(t) /\ Flow(t, p) /\ Flow(p, t) /\ Pair(t, p, A, B \cup Held(t.out))
  BY DEF Work, Pair
<1>2. Total(u) = Total(t) /\ Edge(u) = Edge(t) /\ Room(u) = Room(t)
  BY DEF SameSend, SameRecv, Total, Edge, Room
<1>3. \A x : Mark(t, x) <=> Mark(u, x)
  BY DEF SameSend, Mark
<1>4. Sender(u)
  <2>1. Sender(t)
    BY <1>1 DEF End
  <2> QED BY <1>2, <1>3, <2>1 DEF SameSend, Sender
<1>5. Receiver(u)
  <2>1. Receiver(t)
    BY <1>1 DEF End
  <2> QED BY <1>2, <2>1 DEF SameRecv, Receiver
<1>6. Flow(u, p)
  BY <1>1, <1>3 DEF SameSend, Flow
<1>7. End(u)
  BY <1>4, <1>5 DEF End
<1>8. Pair(u, p, A, B \cup Held(t.out))
  BY <1>1, <1>3, <1>6, <1>7, PairSend
<1> QED BY <1>8 DEF Work

\* Such a change of an end whose connection is not closed by it
LEMMA TimedSame ==
  ASSUME NEW t, NEW u, NEW p, NEW A, NEW B, Work(t, p, A, B), u \in Tcb,
         SameSend(t, u), u.state = "CLOSED" \/ (u.state = t.state /\ u.rto = t.rto),
         u.recover = t.recover
  PROVE  Timed(u)
<1>1. Timed(t)
  BY DEF Work, Pair, End
<1> QED BY <1>1 DEF Timed, SameSend

\* An acknowledgement, or a probe
LEMMA AckWork ==
  ASSUME NEW t, NEW p, NEW A, NEW B, Work(t, p, A, B), NoWrap,
         NEW seq \in Nat, seq < SeqSpace
  PROVE  LET u == Packet(t, seq, FALSE, 0, 0)
         IN /\ Work(u, p, A, B) /\ SameSend(t, u) /\ SameRecv(t, u) /\ SameMode(t, u) /\ SameRest(t, u)
<1> DEFINE u == Packet(t, seq, FALSE, 0, 0)
           k == PacketOf(t, seq, FALSE, 0, 0)
<1>1. End(t) /\ Flow(p, t)
  BY DEF Work, Pair
<1>2. t \in Tcb /\ Len(t.sbuf) \in Nat /\ t.out \in Seq(PacketRecord) /\ t.rcv_nxt \in Nat /\ t.rcv_wnd \in Nat
  BY <1>1, EndNumbers
<1>3. /\ k \in PacketRecord /\ u \in Tcb /\ OneMore(t, u, k)
      /\ SameSend(t, u) /\ SameRecv(t, u) /\ SameMode(t, u) /\ SameRest(t, u)
  <2>1. 0 + 0 <= Len(t.sbuf)
    BY <1>2
  <2> QED BY <1>2, <2>1, PacketFrame
<1>4. /\ k.seq = seq /\ k.ctrl = FALSE /\ k.ack = t.rcv_nxt /\ k.wnd = t.rcv_wnd /\ k.data = <<>>
  BY DEF PacketOf
<1> HIDE DEF u, k
<1> DEFINE v == [u EXCEPT !.out = t.out]
<1>5. v \in Tcb /\ SameSend(t, v) /\ SameRecv(t, v) /\ SameMode(t, v) /\ SameRest(t, v) /\ v.out = t.out
      /\ SameSend(v, u) /\ SameRecv(v, u) /\ SameMode(v, u) /\ SameRest(v, u)
  BY <1>2, <1>3 DEF Tcb, SameSend, SameRecv, SameMode, SameRest
<1> HIDE DEF v
<1>6. Timed(v)
  BY <1>5, TimedSame DEF SameMode, SameRest
<1>7. Work(v, p, A, B)
  BY <1>5, <1>6, WorkSame
<1>8. Pair(v, p, A, B \cup Held(t.out))
  BY <1>5, <1>7 DEF Work
<1>9. PacketOK(k, v, p)
  <2>1. k.wnd <= RBufLen
    <3>1. t.rcv_wnd <= Room(t)
      BY <1>1 DEF End, Receiver
    <3>2. t.rbuf \in Seq(Nat) /\ Len(t.rbuf) \in Nat
      BY <1>2 DEF Tcb
    <3> QED BY <1>2, <1>4, <3>1, <3>2, Sizes DEF Room
  <2>2. Numbered(k.data, k.seq)
    BY <1>4 DEF Numbered
  <2>3. Mark(p, k.ack)
    BY <1>1, <1>4 DEF Flow
  <2>4. k.ack <= v.rcv_nxt /\ k.ack + k.wnd <= Edge(v)
    BY <1>2, <1>4, <1>5 DEF SameRecv, Edge
  <2> QED BY <1>3, <1>4, <2>1, <2>2, <2>3, <2>4 DEF PacketOK
<1>10. Pair(v, p, A, B \cup Held(u.out))
  <2>1. CASE path = NoRoute
    BY <1>3, <1>8, <2>1 DEF OneMore
  <2>2. CASE path # NoRoute
    <3>1. Held(u.out) = Held(t.out) \cup {k}
      BY <1>2, <1>3, <2>2, AppendQueue DEF OneMore
    <3>2. Pair(v, p, A, (B \cup Held(t.out)) \cup {k})
      BY <1>8, <1>9, PairOut
    <3>3. (B \cup Held(t.out)) \cup {k} = B \cup Held(u.out)
      BY <3>1
    <3> QED BY <3>2, <3>3
  <2> QED BY <2>1, <2>2
<1>11. Work(u, p, A, B)
  <2>1. Sender(u)
    <3>1. Sender(v)
      BY <1>7 DEF Work, Pair, End
    <3>2. Total(u) = Total(v)
      BY <1>5 DEF SameSend, Total
    <3> QED BY <1>5, <3>1, <3>2 DEF SameSend, Sender, Mark
  <2>2. Receiver(u)
    <3>1. Receiver(v)
      BY <1>7 DEF Work, Pair, End
    <3>2. Edge(u) = Edge(v) /\ Room(u) = Room(v)
      BY <1>5 DEF SameRecv, Edge, Room
    <3> QED BY <1>5, <3>1, <3>2 DEF SameRecv, Receiver
  <2>3. Timed(u)
    BY <1>3, TimedSame DEF SameMode, SameRest
  <2>4. \A x : Mark(v, x) => Mark(u, x)
    BY <1>5 DEF SameSend, Mark
  <2>5. Flow(u, p)
    <3>1. Flow(v, p)
      BY <1>7 DEF Work, Pair
    <3> QED BY <1>5, <2>4, <3>1 DEF SameSend, Flow
  <2>6. End(u)
    BY <1>3, <2>1, <2>2, <2>3 DEF End
  <2>7. Pair(u, p, A, B \cup Held(u.out))
    BY <1>5, <1>10, <2>4, <2>5, <2>6, PairSend
  <2> QED BY <2>7 DEF Work
<1> QED BY <1>3, <1>11 DEF u

\* An end with one of its segments split
SplitTcb(t, i, n) == [t EXCEPT !.slist = SplitSegment(t.slist, i, n)]

\* Splitting a segment changes nothing for the peer.
LEMMA SplitWork ==
  ASSUME NEW t, NEW p, NEW A, NEW B, Work(t, p, A, B), NoWrap,
         NEW i \in 1..Len(t.slist), NEW n \in Nat, 0 < n, n <= t.slist[i].len
  PROVE  LET u == SplitTcb(t, i, n)
         IN /\ Work(u, p, A, B) /\ Sends(t, u) /\ SameRest(t, u)
            /\ i \in 1..Len(u.slist) /\ u.slist[i].seq = t.slist[i].seq /\ u.slist[i].len = n
            /\ u.snd_nxt = t.snd_nxt
<1> DEFINE s == SplitSegment(t.slist, i, n)
           u == [t EXCEPT !.slist = s]
<1>1. End(t) /\ Flow(t, p) /\ Pair(t, p, A, B \cup Held(t.out))
  BY DEF Work, Pair
<1>2. /\ t \in Tcb /\ t.snd_una \in Nat /\ t.snd_nxt \in Nat
      /\ Total(t) \in Nat /\ Total(t) < SeqSpace
  BY <1>1, EndNumbers
<1>3. /\ Sender(t) /\ Chain(t.slist, t.snd_una, Total(t)) /\ Sent(t.slist, t.snd_nxt)
      /\ Mark(t, t.snd_nxt) /\ ListMark(t.slist, t.snd_nxt)
  BY <1>1 DEF End, Sender, Mark
<1>4. Chain(s, t.snd_una, Total(t)) /\ Splits(s, t.slist, i, n)
  BY <1>2, <1>3, SplitKeeps
<1>5. Sent(s, t.snd_nxt)
  BY <1>2, <1>3, <1>4, SplitSent
<1> HIDE DEF s
<1>6. /\ s \in Seq(Segment) /\ i \in 1..Len(s) /\ s[i].seq = t.slist[i].seq /\ s[i].len = n
      /\ \A x \in Nat : ListMark(t.slist, x) => ListMark(s, x)
  BY <1>4 DEF Splits, Chain
<1>7. /\ u \in Tcb /\ u.slist = s /\ u.snd_nxt = t.snd_nxt /\ u.snd_una = t.snd_una
      /\ u.sbuf = t.sbuf /\ u.snd_wnd = t.snd_wnd /\ u.out = t.out
      /\ SameRecv(t, u) /\ SameMode(t, u) /\ SameRest(t, u)
  BY <1>2, <1>6 DEF Tcb, SameRecv, SameMode, SameRest
<1> HIDE DEF u
<1>8. \A x : Mark(t, x) => Mark(u, x)
  BY <1>6, <1>7 DEF Mark
<1>9. Total(u) = Total(t)
  BY <1>7 DEF Total
<1>10. Sender(u)
  BY <1>3, <1>4, <1>5, <1>7, <1>8, <1>9 DEF Sender
<1>11. Receiver(u)
  <2>1. Receiver(t)
    BY <1>1 DEF End
  <2>2. Edge(u) = Edge(t) /\ Room(u) = Room(t)
    BY <1>7 DEF SameRecv, Edge, Room
  <2> QED BY <1>7, <2>1, <2>2 DEF SameRecv, Receiver
<1>12. Timed(u)
  <2>1. Timed(t)
    BY <1>1 DEF End
  <2> QED BY <1>7, <2>1 DEF Timed, SameMode, SameRest
<1>13. End(u)
  BY <1>7, <1>10, <1>11, <1>12 DEF End
<1>14. Flow(u, p)
  BY <1>1, <1>7, <1>8 DEF Flow
<1>15. Pair(u, p, A, B \cup Held(t.out))
  BY <1>1, <1>7, <1>8, <1>13, <1>14, PairSend
<1>16. Work(u, p, A, B)
  BY <1>7, <1>15 DEF Work
<1>17. Sends(t, u)
  BY <1>2, <1>7, <1>9 DEF Sends
<1>18. u = SplitTcb(t, i, n)
  BY DEF u, s, SplitTcb
<1> QED BY <1>6, <1>7, <1>16, <1>17, <1>18

-----------------------------------------------------------------------------
(* attemptSend.                                                            *)

\* What may be sent is within the window of the peer.
LEMMA AvailableFits ==
  ASSUME NEW t, End(t), NoWrap
  PROVE  /\ Available(t) \in Nat
         /\ Available(t) > 0 => t.snd_nxt + Available(t) <= t.snd_una + t.snd_wnd
<1>1. /\ t \in Tcb /\ t.snd_una \in Nat /\ t.snd_nxt \in Nat /\ t.snd_wnd \in Nat /\ Len(t.sbuf) \in Nat
      /\ t.snd_una <= t.snd_nxt /\ t.snd_nxt <= Total(t) /\ Total(t) = t.snd_una + Len(t.sbuf)
      /\ Total(t) < SeqSpace /\ Total(t) \in Nat
  BY EndNumbers
<1>2. t.mss \in Nat /\ t.cwnd \in Nat /\ t.dup_acks \in Nat
  <2>1. t.mss \in 1..Mss /\ t.cwnd \in 1..CwndMax /\ t.dup_acks \in 0..DupMax
    BY <1>1 DEF Tcb
  <2> QED BY <2>1, Sizes DEF DupMax
<1> DEFINE cwnd == t.cwnd + (IF t.dup_acks \in {1, 2} THEN t.dup_acks * t.mss ELSE 0)
           window == Lesser(t.snd_wnd, cwnd)
           inFlight == Sub(t.snd_nxt, t.snd_una)
           useable == IF inFlight < window THEN window - inFlight ELSE 0
           avail == Lesser(Sub(Len(t.sbuf), inFlight), t.mss)
<1>3. cwnd \in Nat
  <2>1. t.dup_acks \in {1, 2} => t.dup_acks * t.mss \in Nat
    BY <1>2
  <2> QED BY <1>2, <2>1
<1> HIDE DEF cwnd
<1>4. window \in Nat /\ window <= t.snd_wnd
  BY <1>1, <1>3 DEF Lesser
<1> HIDE DEF window
<1>5. inFlight = t.snd_nxt - t.snd_una
  <2>1. t.snd_nxt < SeqSpace
    BY <1>1, Sizes
  <2> QED BY <1>1, <2>1, SmallNumbers
<1> HIDE DEF inFlight
<1>6. inFlight \in Nat
  BY <1>1, <1>5
<1>7. Sub(Len(t.sbuf), inFlight) \in Nat
  <2>1. Sub(Len(t.sbuf), inFlight) \in 0..SeqSpace - 1
    <3>1. Len(t.sbuf) \in Int /\ inFlight \in Int
      BY <1>1, <1>6
    <3> QED BY <3>1, SmallNumbers
  <2> QED BY <2>1, Sizes
<1>8. avail \in Nat
  BY <1>2, <1>7 DEF Lesser
<1> HIDE DEF avail
<1>9. useable \in Nat
  BY <1>4, <1>6
<1>10. useable > 0 => t.snd_nxt + useable <= t.snd_una + t.snd_wnd
  <2>1. useable > 0 => useable = window - inFlight
    OBVIOUS
  <2> HIDE DEF useable
  <2>2. \A a, b, c, d \in Nat : c = a - b => a + (d - c) = b + d
    OBVIOUS
  <2>3. useable > 0 => t.snd_nxt + useable = t.snd_una + window
    BY <1>1, <1>4, <1>5, <1>6, <2>1, <2>2, SMTT(30)
  <2>4. t.snd_una + window <= t.snd_una + t.snd_wnd
    BY <1>1, <1>4
  <2> QED BY <2>3, <2>4
<1> HIDE DEF useable
<1>11. Available(t) = CASE avail <= useable       -> avail
                        [] useable * 4 < window   -> 0
                        [] OTHER                  -> useable
  BY DEF Available, avail, useable, inFlight, window, cwnd
<1>12. Available(t) \in {avail, 0, useable} /\ (Available(t) = avail => avail <= useable \/ avail = 0 \/ avail = useable)
  BY <1>11
<1>13. Available(t) \in Nat /\ Available(t) <= useable
  BY <1>8, <1>9, <1>12
<1> PICK n \in Nat : n = Available(t)
  BY <1>13
<1>14. n > 0 => t.snd_nxt + n <= t.snd_una + t.snd_wnd
  BY <1>1, <1>9, <1>10, <1>13
<1> QED BY <1>14

\* The first segment that was not transmitted starts where the transmitted ones end.
LEMMA FirstUnsent ==
  ASSUME NEW t, End(t), NEW i \in 1..Len(t.slist), t.slist[i].xmit = 0,
         \A j \in 1..Len(t.slist) : t.slist[j].xmit = 0 => i <= j
  PROVE  t.slist[i].seq = t.snd_nxt
<1> DEFINE l == t.slist
<1>1. /\ t \in Tcb /\ t.snd_una \in Nat /\ t.snd_nxt \in Nat /\ Total(t) \in Nat
      /\ t.snd_una <= t.snd_nxt /\ l \in Seq(Segment) /\ Len(l) \in Nat
  BY EndNumbers
<1>2. Chain(l, t.snd_una, Total(t)) /\ Sent(l, t.snd_nxt) /\ ListMark(l, t.snd_nxt)
  BY DEF End, Sender, Mark
<1>3. \A j \in 1..Len(l) : l[j].seq \in Nat /\ l[j].len \in Nat
  BY <1>1, <1>2, ChainFacts
<1>4. \A j \in 1..Len(l) : l[j].xmit \in Nat
  <2>1. \A j \in 1..Len(l) : l[j] \in Segment
    BY <1>1
  <2> QED BY <2>1 DEF Segment
<1>5. \A j \in 1..Len(l) : l[j].xmit > 0 <=> l[j].seq < t.snd_nxt
  BY <1>2 DEF Sent
<1>6. l[i].seq >= t.snd_nxt
  BY <1>1, <1>3, <1>4, <1>5
<1>7. l[i].seq <= t.snd_nxt
  <2>1. CASE i = 1
    <3>1. l # <<>>
      BY <1>1
    <3>2. l[1].seq = t.snd_una
      BY <1>2, <3>1 DEF Chain
    <3> QED BY <1>1, <2>1, <3>2
  <2>2. CASE i > 1
    <3>0. i - 1 \in 1..Len(l) /\ i = (i - 1) + 1
      BY <1>1, <2>2
    <3> PICK j \in 1..Len(l) : i = j + 1
      BY <3>0
    <3>1. ~(i <= j)
      BY <1>1
    <3>2. l[j].xmit # 0
      BY <3>1
    <3>3. l[j].seq < t.snd_nxt
      BY <1>4, <1>5, <3>2
    <3>4. l[j].seq + l[j].len <= t.snd_nxt
      BY <1>2, <3>3 DEF ListMark
    <3>5. l[j].seq + l[j].len = l[i].seq
      BY <1>2 DEF Chain
    <3> QED BY <3>4, <3>5
  <2> QED BY <1>1, <2>1, <2>2
<1> QED BY <1>1, <1>3, <1>6, <1>7

\* Fields of the loop
SetFlags(t, f) == [t EXCEPT !.sflags = f]

\* The flags of the loop matter to nobody else.
LEMMA FlagsWork ==
  ASSUME NEW t, NEW p, NEW A, NEW B, Work(t, p, A, B),
         NEW f \in {"None", "Immediate", "Delayed", "Done"}
  PROVE  Work(SetFlags(t, f), p, A, B) /\ Sends(t, SetFlags(t, f)) /\ SetFlags(t, f).sflags = f
<1> DEFINE u == SetFlags(t, f)
<1>1. t \in Tcb /\ t.snd_nxt \in Nat
  BY EndNumbers DEF Work, Pair
<1>2. /\ u \in Tcb /\ SameSend(t, u) /\ SameRecv(t, u) /\ SameMode(t, u) /\ u.out = t.out
      /\ u.sflags = f /\ u.recover = t.recover /\ u.rto = t.rto
  BY <1>1 DEF SetFlags, Tcb, SameSend, SameRecv, SameMode
<1> HIDE DEF u
<1>3. Timed(u)
  BY <1>2, TimedSame DEF SameMode
<1>4. Work(u, p, A, B)
  BY <1>2, <1>3, WorkSame
<1>5. Sends(t, u)
  BY <1>1, <1>2 DEF Sends, SameSend, Total
<1> QED BY <1>2, <1>4, <1>5 DEF u

\* What transmit leaves of an end when it fails
LEMMA FailedRecord ==
  ASSUME NEW t \in Tcb, NEW i
  PROVE  LET u == TransmitFailed(t, i)
         IN /\ u \in Tcb /\ SameRecv(t, u) /\ SameMode(t, u) /\ SameSend(t, u)
            /\ u.recover = t.recover /\ u.sflags = t.sflags /\ u.rto = t.rto /\ u.out = t.out
<1> DEFINE v == [t EXCEPT !.mss = InitMss, !.cwnd = 2 * InitMss]
<1>1. InitMss \in 1..Mss
  BY Sizes DEF InitMss
<1>2. /\ v \in Tcb /\ SameRecv(t, v) /\ SameMode(t, v) /\ SameSend(t, v)
      /\ v.recover = t.recover /\ v.sflags = t.sflags /\ v.rto = t.rto /\ v.out = t.out
  <2> HIDE DEF InitMss
  <2> QED BY <1>1, FitRecord
<1>3. TransmitFailed(t, i) \in {t, v}
  BY DEF TransmitFailed
<1> HIDE DEF v
<1> QED BY <1>2, <1>3 DEF SameRecv, SameMode, SameSend

\* attemptSend after a failed transmission
GaveUp(t, i) == [TransmitFailed(t, i) EXCEPT !.sflags = "Done", !.failed = TRUE]

\* Such a failure takes nothing from the connection.
LEMMA GaveUpWork ==
  ASSUME NEW t, NEW p, NEW A, NEW B, Work(t, p, A, B), NEW i
  PROVE  Work(GaveUp(t, i), p, A, B) /\ Sends(t, GaveUp(t, i))
<1> DEFINE w == TransmitFailed(t, i)
           u == [w EXCEPT !.sflags = "Done", !.failed = TRUE]
<1>1. t \in Tcb /\ t.snd_nxt \in Nat
  BY EndNumbers DEF Work, Pair
<1>2. /\ w \in Tcb /\ SameRecv(t, w) /\ SameMode(t, w) /\ SameSend(t, w)
      /\ w.recover = t.recover /\ w.rto = t.rto /\ w.out = t.out
  BY <1>1, FailedRecord
<1> HIDE DEF w
<1>3. /\ u \in Tcb /\ SameSend(w, u) /\ SameRecv(w, u) /\ SameMode(w, u) /\ u.out = w.out
      /\ u.recover = w.recover /\ u.rto = w.rto
  BY <1>2 DEF Tcb, SameSend, SameRecv, SameMode
<1>4. GaveUp(t, i) = u
  BY DEF GaveUp, w
<1> HIDE DEF u
<1>5. /\ SameSend(t, u) /\ SameRecv(t, u) /\ SameMode(t, u) /\ u.out = t.out
      /\ u.recover = t.recover /\ u.rto = t.rto
  BY <1>2, <1>3 DEF SameSend, SameRecv, SameMode
<1>6. Timed(u)
  BY <1>3, <1>5, TimedSame DEF SameMode
<1>7. Work(u, p, A, B)
  BY <1>3, <1>5, <1>6, WorkSame
<1>8. Sends(t, u)
  BY <1>1, <1>5 DEF Sends, SameSend, Total
<1> QED BY <1>4, <1>7, <1>8

\* Steps of sending one after another
LEMMA SendsTwice ==
  ASSUME NEW t, NEW u, NEW v, Sends(t, u), Sends(u, v),
         t.snd_nxt \in Nat, u.snd_nxt \in Nat, v.snd_nxt \in Nat
  PROVE  Sends(t, v)
BY DEF Sends, SameRecv, SameMode

\* One round of the loop of attemptSend
LEMMA SendStepWork ==
  ASSUME NEW t, NEW p, NEW A, NEW B, Work(t, p, A, B), NoWrap, path \in NoRoute..Mss
  PROVE  Work(SendStep(t), p, A, B) /\ Sends(t, SendStep(t))
<1> DEFINE avail == Available(t)
           unsent == {i \in DOMAIN t.slist : t.slist[i].xmit = 0}
           i == Min(unsent)
           split == [t EXCEPT !.slist = SplitSegment(t.slist, i, avail)]
           done == [t EXCEPT !.sflags = "Done"]
           hold == t.snd_nxt > t.snd_una /\ avail < t.mss
<1>1. End(t) /\ Flow(t, p) /\ End(p)
  BY DEF Work, Pair
<1>2. /\ t \in Tcb /\ t.snd_una \in Nat /\ t.snd_nxt \in Nat /\ t.slist \in Seq(Segment)
      /\ t.snd_nxt <= Total(t) /\ Total(t) < SeqSpace /\ Total(t) \in Nat /\ t.snd_wnd \in Nat
      /\ Len(t.slist) \in Nat
  BY <1>1, EndNumbers
<1>3. avail \in Nat /\ (avail > 0 => t.snd_nxt + avail <= t.snd_una + t.snd_wnd)
  BY <1>1, AvailableFits
<1>4. Sends(t, t)
  BY <1>2 DEF Sends, SameRecv, SameMode
<1>5. done = SetFlags(t, "Done") /\ Work(done, p, A, B) /\ Sends(t, done) /\ done.sflags = "Done"
  <2>1. done = SetFlags(t, "Done")
    BY DEF SetFlags
  <2>2. Work(SetFlags(t, "Done"), p, A, B) /\ Sends(t, SetFlags(t, "Done"))
        /\ SetFlags(t, "Done").sflags = "Done"
    BY FlagsWork
  <2> QED BY <2>1, <2>2
<1> HIDE DEF avail, done
<1>6. done \in Tcb /\ done.snd_nxt \in Nat /\ done.snd_nxt = t.snd_nxt
  <2>1. done \in Tcb /\ done.snd_nxt \in Nat
    BY <1>5, EndNumbers DEF Work, Pair
  <2>2. done.snd_nxt = t.snd_nxt
    BY <1>2, <1>5 DEF SetFlags, Tcb
  <2> QED BY <2>1, <2>2
<1>7. ASSUME NEW u, Work(u, p, A, B), Sends(t, u), NEW f \in {"None", "Done"}
      PROVE  Work(SetFlags(u, f), p, A, B) /\ Sends(t, SetFlags(u, f))
  <2>1. Work(SetFlags(u, f), p, A, B) /\ Sends(u, SetFlags(u, f))
    BY <1>7, FlagsWork
  <2>2. u.snd_nxt \in Nat /\ SetFlags(u, f).snd_nxt \in Nat
    BY <1>7, <2>1, EndNumbers DEF Work, Pair
  <2> QED BY <1>2, <1>7, <2>1, <2>2, SendsTwice
<1>8. CASE t.sflags = "Done"
  <2>1. SendStep(t) = t
    BY <1>8 DEF SendStep
  <2> QED BY <1>4, <2>1
<1>9. CASE t.sflags # "Done" /\ avail = 0
  <2>1. CASE t.sflags = "None"
    <3>1. SendStep(t) = done
      BY <1>9, <2>1 DEF SendStep, avail, done
    <3> QED BY <1>5, <3>1
  <2>2. CASE t.sflags # "None" /\ AckNow(t)
    <3> DEFINE u == Packet(done, t.snd_nxt, FALSE, 0, 0)
    <3>1. SendStep(t) = u
      BY <1>9, <2>2 DEF SendStep, avail, done
    <3>2. t.snd_nxt < SeqSpace
      BY <1>2, Sizes
    <3>3. Work(u, p, A, B) /\ SameSend(done, u) /\ SameRecv(done, u) /\ SameMode(done, u) /\ SameRest(done, u)
      BY <1>2, <1>5, <3>2, AckWork
    <3> HIDE DEF u
    <3>4. Sends(done, u)
      <4>1. Total(u) = Total(done)
        BY <3>3 DEF SameSend, Total
      <4> QED BY <1>6, <3>3, <4>1 DEF Sends, SameSend
    <3>5. u.snd_nxt \in Nat
      BY <1>6, <3>3 DEF SameSend
    <3>6. Sends(t, u)
      BY <1>2, <1>5, <1>6, <3>4, <3>5, SendsTwice
    <3> QED BY <3>1, <3>3, <3>6
  <2>3. CASE t.sflags # "None" /\ ~AckNow(t)
    <3> DEFINE u == [done EXCEPT !.t_ack = TRUE]
    <3>1. SendStep(t) = u
      BY <1>9, <2>3 DEF SendStep, avail, done
    <3>2. /\ u \in Tcb /\ SameSend(done, u) /\ SameRecv(done, u) /\ SameMode(done, u) /\ u.out = done.out
          /\ u.recover = done.recover /\ u.rto = done.rto
      BY <1>6 DEF Tcb, SameSend, SameRecv, SameMode
    <3> HIDE DEF u
    <3>3. Timed(u)
      BY <1>5, <3>2, TimedSame DEF SameMode
    <3>4. Work(u, p, A, B)
      BY <1>5, <3>2, <3>3, WorkSame
    <3>5. Sends(done, u)
      <4>1. Total(u) = Total(done)
        BY <3>2 DEF SameSend, Total
      <4> QED BY <1>6, <3>2, <4>1 DEF Sends, SameSend
    <3>6. u.snd_nxt \in Nat
      BY <1>6, <3>2 DEF SameSend
    <3>7. Sends(t, u)
      BY <1>2, <1>5, <1>6, <3>5, <3>6, SendsTwice
    <3> QED BY <3>1, <3>4, <3>7
  <2> QED BY <2>1, <2>2, <2>3
<1>10. CASE t.sflags # "Done" /\ avail # 0 /\ (hold \/ unsent = {})
  <2>1. SendStep(t) = done
    BY <1>10 DEF SendStep, avail, done
  <2> QED BY <1>5, <2>1
<1>11. CASE t.sflags # "Done" /\ avail # 0 /\ ~(hold \/ unsent = {})
  <2>1. /\ i \in 1..Len(t.slist) /\ t.slist[i].xmit = 0
        /\ \A j \in 1..Len(t.slist) : t.slist[j].xmit = 0 => i <= j
    <3>1. DOMAIN t.slist = 1..Len(t.slist)
      BY <1>2
    <3>2. unsent \subseteq Nat /\ unsent # {}
      BY <1>11, <3>1
    <3>3. \E x \in unsent : \A y \in unsent : x <= y
      BY <3>2, LeastElement
    <3>4. i \in unsent /\ \A y \in unsent : i <= y
      BY <3>3 DEF Min
    <3> QED BY <3>1, <3>4
  <2>2. SendStep(t) = IF MayTransmit(split, i) THEN [Transmit(split, i) EXCEPT !.sflags = "None"]
                      ELSE GaveUp(split, i)
    BY <1>11 DEF SendStep, avail, GaveUp
  <2> HIDE DEF i, unsent, hold
  <2> PICK m \in 1..Len(t.slist) : m = i
    BY <2>1
  <2>3. t.slist[m].seq = t.snd_nxt
    BY <1>1, <2>1, FirstUnsent
  <2>4. t.slist[m].seq \in Nat /\ t.slist[m].len \in Nat /\ t.slist[m].len > 0
    <3>1. Chain(t.slist, t.snd_una, Total(t))
      BY <1>1 DEF End, Sender
    <3> QED BY <1>2, <3>1, ChainFacts
  <2>5. /\ Work(split, p, A, B) /\ Sends(t, split) /\ m \in 1..Len(split.slist)
        /\ split.snd_nxt = t.snd_nxt
        /\ split.slist[m].seq = t.snd_nxt /\ split.slist[m].len \in Nat /\ split.slist[m].len <= avail
    <3>1. CASE avail >= t.slist[m].len
      <4>1. SplitSegment(t.slist, m, avail) = t.slist
        BY <3>1 DEF SplitSegment
      <4>2. split = t
        BY <1>2, <4>1 DEF Tcb
      <4> QED BY <1>3, <1>4, <2>3, <2>4, <3>1, <4>2
    <3>2. CASE avail < t.slist[m].len
      <4>1. split = SplitTcb(t, m, avail)
        BY DEF SplitTcb
      <4>2. avail > 0 /\ avail <= t.slist[m].len
        BY <1>3, <1>11, <2>4, <3>2
      <4>3. /\ Work(SplitTcb(t, m, avail), p, A, B) /\ Sends(t, SplitTcb(t, m, avail))
            /\ m \in 1..Len(SplitTcb(t, m, avail).slist)
            /\ SplitTcb(t, m, avail).slist[m].seq = t.slist[m].seq
            /\ SplitTcb(t, m, avail).slist[m].len = avail
            /\ SplitTcb(t, m, avail).snd_nxt = t.snd_nxt
        BY <1>3, <4>2, SplitWork
      <4>4. avail <= avail
        BY <1>3
      <4> QED BY <1>3, <2>3, <4>1, <4>3, <4>4
    <3> QED BY <1>3, <2>4, <3>1, <3>2
  <2> HIDE DEF split
  <2>6. CASE ~MayTransmit(split, i)
    <3> DEFINE u == GaveUp(split, i)
    <3>1. SendStep(t) = u
      BY <2>2, <2>6
    <3>2. Work(u, p, A, B) /\ Sends(split, u)
      BY <2>5, GaveUpWork
    <3> HIDE DEF u
    <3>3. u.snd_nxt \in Nat /\ split.snd_nxt \in Nat
      BY <2>5, <3>2, EndNumbers DEF Work, Pair
    <3> QED BY <1>2, <2>5, <3>1, <3>2, <3>3, SendsTwice
  <2>7. CASE MayTransmit(split, i)
    <3> DEFINE u == Transmit(split, m)
    <3>1. SendStep(t) = SetFlags(u, "None")
      BY <2>2, <2>7 DEF SetFlags
    <3>2. split.slist[m].seq + split.slist[m].len <= Edge(p)
      <4>1. t.snd_una + t.snd_wnd <= Edge(p) /\ Edge(p) \in Nat
        BY <1>1, EndNumbers DEF Flow
      <4>2. t.snd_nxt + avail <= t.snd_una + t.snd_wnd
        BY <1>3, <1>11
      <4>3. t.snd_nxt + split.slist[m].len <= t.snd_nxt + avail
        <5>1. \A a, b, c \in Nat : b <= c => a + b <= a + c
          OBVIOUS
        <5> QED BY <1>2, <1>3, <2>5, <5>1
      <4>4. \A a, b, c, d \in Int : a <= b /\ b <= c /\ c <= d => a <= d
        OBVIOUS
      <4>5. /\ t.snd_nxt + split.slist[m].len \in Int /\ t.snd_nxt + avail \in Int
            /\ t.snd_una + t.snd_wnd \in Int
        <5>1. \A a, b \in Nat : a + b \in Int
          OBVIOUS
        <5> QED BY <1>2, <1>3, <2>5, <5>1
      <4>6. t.snd_nxt + split.slist[m].len <= Edge(p)
        BY <4>1, <4>2, <4>3, <4>4, <4>5
      <4> QED BY <2>5, <4>6
    <3>3. Work(u, p, A, B) /\ Sends(split, u)
      <4>1. path \in 1..Mss
        BY <2>7, Sizes DEF MayTransmit, NoRoute
      <4> QED BY <2>5, <3>2, <4>1, TransmitWork
    <3> HIDE DEF u
    <3>4. u.snd_nxt \in Nat /\ split.snd_nxt \in Nat
      BY <2>5, <3>3, EndNumbers DEF Work, Pair
    <3>5. Sends(t, u)
      BY <1>2, <2>5, <3>3, <3>4, SendsTwice
    <3> QED BY <1>7, <3>1, <3>3, <3>5
  <2> QED BY <2>6, <2>7
<1> QED BY <1>8, <1>9, <1>10, <1>11

\* The rounds of the loop of attemptSend
RoundsEquation(k, t, N) == k = [n \in 0..N |-> IF n = 0 THEN t ELSE SendStep(k[n - 1])]

\* The loop is defined for any number of rounds.
LEMMA RoundsExist ==
  ASSUME NEW t, NEW N \in Nat
  PROVE  \E k : RoundsEquation(k, t, N)
<1> DEFINE T == {M \in Nat : \E k : RoundsEquation(k, t, M)}
<1>1. 0 \in T
  <2>1. RoundsEquation([n \in 0..0 |-> t], t, 0)
    BY DEF RoundsEquation
  <2> QED BY <2>1
<1>2. ASSUME NEW n \in 1..N, n - 1 \in T
      PROVE  n \in T
  <2>1. PICK k : RoundsEquation(k, t, n - 1)
    BY <1>2
  <2> DEFINE g == [m \in 0..n |-> IF m = n THEN SendStep(k[n - 1]) ELSE k[m]]
  <2>2. k = [m \in 0..(n - 1) |-> IF m = 0 THEN t ELSE SendStep(k[m - 1])]
    BY <2>1 DEF RoundsEquation
  <2>3. ASSUME NEW m \in 0..n
        PROVE  g[m] = IF m = 0 THEN t ELSE SendStep(g[m - 1])
    <3>1. CASE m = 0
      <4>1. 0 \in 0..(n - 1) /\ m # n
        BY <3>1
      <4> QED BY <2>2, <3>1, <4>1
    <3>2. CASE m # 0 /\ m # n
      <4>1. m \in 0..(n - 1) /\ m - 1 \in 0..n /\ m - 1 # n
        BY <3>2
      <4>2. g[m - 1] = k[m - 1] /\ g[m] = k[m]
        BY <3>2, <4>1
      <4> QED BY <2>2, <3>2, <4>1, <4>2
    <3>3. CASE m = n
      <4>1. n - 1 \in 0..n /\ n - 1 # n /\ n # 0
        OBVIOUS
      <4> QED BY <3>3, <4>1
    <3> QED BY <3>1, <3>2, <3>3
  <2>4. g = [m \in 0..n |-> IF m = 0 THEN t ELSE SendStep(g[m - 1])]
    <3> HIDE <2>2
    <3> DEFINE h == [m \in 0..n |-> IF m = 0 THEN t ELSE SendStep(g[m - 1])]
    <3>1. DOMAIN g = 0..n /\ DOMAIN h = 0..n
      OBVIOUS
    <3>2. \A m \in 0..n : g[m] = h[m]
      BY <2>3
    <3>3. g = [m \in 0..n |-> g[m]] /\ h = [m \in 0..n |-> h[m]]
      OBVIOUS
    <3> HIDE DEF g, h
    <3>4. g = h
      BY <3>2, <3>3
    <3> QED BY <3>4 DEF h
  <2> HIDE DEF g
  <2>5. RoundsEquation(g, t, n)
    BY <2>4 DEF RoundsEquation
  <2> QED BY <2>5
<1> HIDE DEF T
<1>3. N \in T
  BY <1>1, <1>2, SetInduction
<1> QED BY <1>3 DEF T

\* What the rounds keep, the whole loop keeps.
LEMMA AttemptSendWork ==
  ASSUME NEW t, NEW p, NEW A, NEW B, Work(t, p, A, B), NoWrap, path \in NoRoute..Mss,
         NEW f \in {"None", "Immediate", "Delayed"}, NEW idle \in BOOLEAN
  PROVE  LET u == AttemptSend(t, f, idle)
         IN Work(u, p, A, B) /\ Sends(t, u) /\ u.sflags = "None"
<1> DEFINE N == SBufLen + 1
           start == [t EXCEPT !.sflags = f, !.cwnd = IF idle THEN t.mss ELSE t.cwnd]
           Def(k) == RoundsEquation(k, start, N)
           round == CHOOSE k : Def(k)
           T == {n \in 0..N : Work(round[n], p, A, B) /\ Sends(start, round[n])}
<1>0. N \in Nat
  BY Sizes
<1>1. AttemptSend(t, f, idle) = SetFlags(round[N], "None")
  BY DEF AttemptSend, SetFlags, RoundsEquation
<1>2. t \in Tcb /\ t.snd_nxt \in Nat /\ t.mss \in 1..CwndMax /\ t.cwnd \in 1..CwndMax
  <2>1. t \in Tcb /\ t.snd_nxt \in Nat
    BY EndNumbers DEF Work, Pair
  <2>2. t.mss \in 1..Mss /\ t.cwnd \in 1..CwndMax
    BY <2>1 DEF Tcb
  <2>3. t.mss \in 1..CwndMax
    BY <2>2, Sizes
  <2> QED BY <2>1, <2>2, <2>3
<1>3. /\ start \in Tcb /\ SameSend(t, start) /\ SameRecv(t, start) /\ SameMode(t, start)
      /\ start.out = t.out /\ start.recover = t.recover /\ start.rto = t.rto
  <2> PICK c \in 1..CwndMax : c = IF idle THEN t.mss ELSE t.cwnd
    BY <1>2
  <2> DEFINE v == [t EXCEPT !.sflags = f, !.cwnd = c]
  <2>1. v \in Tcb
    <3>1. [t EXCEPT !.sflags = f] \in Tcb
      BY <1>2, ZenonT(40) DEF Tcb
    <3> QED BY <3>1, ZenonT(40) DEF Tcb
  <2>2. SameSend(t, v) /\ SameRecv(t, v) /\ SameMode(t, v) /\ v.out = t.out
        /\ v.recover = t.recover /\ v.rto = t.rto
    BY <1>2 DEF Tcb, SameSend, SameRecv, SameMode
  <2> QED BY <2>1, <2>2
<1> HIDE DEF start
<1>4. Work(start, p, A, B)
  <2>1. Timed(start)
    BY <1>3, TimedSame DEF SameMode
  <2> QED BY <1>3, <2>1, WorkSame
<1>5. start.snd_nxt \in Nat /\ Sends(t, start) /\ Sends(start, start)
  <2>1. start.snd_nxt \in Nat /\ Total(start) = Total(t) /\ start.snd_nxt = t.snd_nxt
    BY <1>2, <1>3 DEF SameSend, Total
  <2> QED BY <1>2, <1>3, <2>1 DEF Sends, SameSend, SameRecv, SameMode
<1>6. Def(round)
  <2>1. \E k : Def(k)
    BY <1>0, RoundsExist
  <2> HIDE DEF Def
  <2> QED BY <2>1
<1>7. \A n \in 0..N : round[n] = IF n = 0 THEN start ELSE SendStep(round[n - 1])
  BY <1>6 DEF RoundsEquation
<1> HIDE DEF round
<1>8. 0 \in T
  BY <1>0, <1>4, <1>5, <1>7
<1>9. ASSUME NEW n \in 1..N, n - 1 \in T
      PROVE  n \in T
  <2> DEFINE u == round[n - 1]
  <2>1. Work(u, p, A, B) /\ Sends(start, u)
    BY <1>9
  <2>2. round[n] = SendStep(u)
    BY <1>0, <1>7
  <2> HIDE DEF u
  <2>3. Work(SendStep(u), p, A, B) /\ Sends(u, SendStep(u))
    BY <2>1, SendStepWork
  <2>4. u.snd_nxt \in Nat /\ SendStep(u).snd_nxt \in Nat
    BY <2>1, <2>3, EndNumbers DEF Work, Pair
  <2>5. Sends(start, SendStep(u))
    BY <1>5, <2>1, <2>3, <2>4, SendsTwice
  <2>6. n \in 0..N
    BY <1>0
  <2> QED BY <2>2, <2>3, <2>5, <2>6
<1> HIDE DEF T
<1>10. N \in T
  BY <1>0, <1>8, <1>9, SetInduction
<1> DEFINE v == round[N]
<1>11. Work(v, p, A, B) /\ Sends(start, v)
  BY <1>10 DEF T
<1> HIDE DEF v
<1> DEFINE u == SetFlags(v, "None")
<1>12. Work(u, p, A, B) /\ Sends(v, u) /\ u.sflags = "None"
  BY <1>11, FlagsWork
<1> HIDE DEF u
<1>13. v.snd_nxt \in Nat /\ u.snd_nxt \in Nat
  BY <1>11, <1>12, EndNumbers DEF Work, Pair
<1>14. Sends(t, v)
  BY <1>2, <1>5, <1>11, <1>13, SendsTwice
<1>15. Sends(t, u)
  BY <1>2, <1>12, <1>13, <1>14, SendsTwice
<1> QED BY <1>1, <1>12, <1>15 DEF u, v

-----------------------------------------------------------------------------
(* queue.                                                                  *)

SameList(t, u) ==
  /\ u.slist = t.slist /\ u.sbuf = t.sbuf /\ u.snd_una = t.snd_una /\ u.snd_nxt = t.snd_nxt

\* Another window of the peer, and fields nobody else depends on
LEMMA WorkWindow ==
  ASSUME NEW t, NEW u, NEW p, NEW A, NEW B, Work(t, p, A, B), u \in Tcb,
         SameList(t, u), SameRecv(t, u), Timed(u), u.out = t.out,
         u.snd_una + u.snd_wnd <= Edge(p)
  PROVE  Work(u, p, A, B)
<1>1. End(t) /\ Flow(t, p) /\ Flow(p, t) /\ Pair(t, p, A, B \cup Held(t.out))
  BY DEF Work, Pair
<1>2. Total(u) = Total(t) /\ Edge(u) = Edge(t) /\ Room(u) = Room(t)
  BY DEF SameList, SameRecv, Total, Edge, Room
<1>3. \A x : Mark(t, x) <=> Mark(u, x)
  BY DEF SameList, Mark
<1>4. Sender(u)
  <2>1. Sender(t)
    BY <1>1 DEF End
  <2> QED BY <1>2, <1>3, <2>1 DEF SameList, Sender
<1>5. Receiver(u)
  <2>1. Receiver(t)
    BY <1>1 DEF End
  <2> QED BY <1>2, <2>1 DEF SameRecv, Receiver
<1>6. Flow(u, p)
  BY <1>1, <1>3 DEF SameList, Flow
<1>7. End(u)
  BY <1>4, <1>5 DEF End
<1>8. Pair(u, p, A, B \cup Held(t.out))
  BY <1>1, <1>3, <1>6, <1>7, PairSend
<1> QED BY <1>8 DEF Work

\* r is l with one more segment, which was not transmitted, or with n bytes more in its last
\* one, which was not transmitted either.
Extended(r, l, b, n, ctrl) ==
  \/ /\ Len(r) = Len(l) + 1 /\ \A j \in 1..Len(l) : r[j] = l[j]
     /\ r[Len(l) + 1].seq = b /\ r[Len(l) + 1].len = n
     /\ r[Len(l) + 1].xmit = 0 /\ r[Len(l) + 1].ctrl = ctrl
  \/ /\ Len(l) > 0 /\ Len(r) = Len(l) /\ \A j \in 1..Len(l) : j < Len(l) => r[j] = l[j]
     /\ r[Len(l)].seq = l[Len(l)].seq /\ r[Len(l)].len = l[Len(l)].len + n
     /\ r[Len(l)].xmit = 0 /\ l[Len(l)].xmit = 0
     /\ r[Len(l)].ctrl = l[Len(l)].ctrl /\ l[Len(l)].ctrl = ctrl

\* The longer list covers n numbers more.
LEMMA ExtendedChain ==
  ASSUME NEW l, NEW a \in Nat, NEW b \in Nat, Chain(l, a, b), NEW n \in Nat, n > 0, NEW ctrl,
         NEW r \in Seq(Segment), Extended(r, l, b, n, ctrl)
  PROVE  Chain(r, a, b + n)
<1> PICK N \in Nat : N = Len(l)
  BY DEF Chain
<1>1. /\ \A j \in 1..N : l[j].seq \in Nat /\ l[j].len \in Nat /\ l[j].len > 0
      /\ \A j, k \in 1..N : j < k => l[j].seq + l[j].len <= l[k].seq
      /\ \A j, k \in 1..N : k = j + 1 => l[j].seq + l[j].len = l[k].seq
      /\ N > 0 => l[1].seq = a /\ l[N].seq + l[N].len = b
      /\ N = 0 => a = b
      /\ \A j \in 1..N : l[j].seq + l[j].len <= b
  <2>1. \A j \in 1..N : /\ l[j] \in Segment /\ l[j].seq \in Nat /\ l[j].len \in Nat /\ l[j].len > 0
                        /\ l[j].seq >= a /\ l[j].seq + l[j].len <= b
    BY ChainFacts
  <2>2. N = 0 <=> l = <<>>
    BY DEF Chain
  <2> QED BY <2>1, <2>2 DEF Chain
<1>2. CASE /\ Len(r) = N + 1 /\ \A j \in 1..N : r[j] = l[j]
           /\ r[N + 1].seq = b /\ r[N + 1].len = n
  <2>1. r # <<>>
    BY <1>2
  <2>2. r[1].seq = a
    <3>1. CASE N = 0
      BY <1>1, <1>2, <3>1
    <3>2. CASE N > 0
      BY <1>1, <1>2, <3>2
    <3> QED BY <3>1, <3>2
  <2>3. ASSUME NEW j \in 1..N + 1
        PROVE  r[j].len > 0
    <3>1. CASE j = N + 1
      BY <1>2, <3>1
    <3>2. CASE j # N + 1
      <4>1. j \in 1..N
        BY <3>2
      <4> QED BY <1>1, <1>2, <4>1
    <3> QED BY <3>1, <3>2
  <2>4. ASSUME NEW j \in 1..N + 1, NEW k \in 1..N + 1, j < k
        PROVE  r[j].seq + r[j].len <= r[k].seq /\ (k = j + 1 => r[j].seq + r[j].len = r[k].seq)
    <3>1. j \in 1..N /\ r[j] = l[j]
      BY <1>2, <2>4
    <3>2. CASE k = N + 1
      <4>1. r[k].seq = b
        BY <1>2, <3>2
      <4>2. k = j + 1 => j = N /\ N > 0
        BY <3>2
      <4> QED BY <1>1, <3>1, <4>1, <4>2
    <3>3. CASE k # N + 1
      <4>1. k \in 1..N
        BY <3>3
      <4>2. r[k] = l[k]
        BY <1>2, <4>1
      <4> QED BY <1>1, <2>4, <3>1, <4>1, <4>2
    <3> QED BY <3>2, <3>3
  <2>5. r[N + 1].seq + r[N + 1].len = b + n
    BY <1>2
  <2>6. \A j, k \in 1..N + 1 : j < k => r[j].seq + r[j].len <= r[k].seq
    BY <2>4
  <2>7. \A j, k \in 1..N + 1 : k = j + 1 => r[j].seq + r[j].len = r[k].seq
    <3> SUFFICES ASSUME NEW j \in 1..N + 1, NEW k \in 1..N + 1, k = j + 1
                 PROVE  r[j].seq + r[j].len = r[k].seq
      OBVIOUS
    <3>1. j < k
      OBVIOUS
    <3> QED BY <2>4, <3>1
  <2> QED BY <1>2, <2>1, <2>2, <2>3, <2>5, <2>6, <2>7 DEF Chain
<1>3. CASE /\ N > 0 /\ Len(r) = N /\ \A j \in 1..N : j < N => r[j] = l[j]
           /\ r[N].seq = l[N].seq /\ r[N].len = l[N].len + n
  <2>1. r # <<>> /\ N \in 1..N /\ 1 \in 1..N
    BY <1>3
  <2>0. \A j \in 1..N : r[j].seq = l[j].seq
    BY <1>3
  <2>2. r[1].seq = a
    BY <1>1, <1>3, <2>0, <2>1
  <2>3. \A j \in 1..N : j < N => r[j].len = l[j].len
    BY <1>3
  <2>4. ASSUME NEW j \in 1..N
        PROVE  r[j].len > 0
    <3>1. CASE j = N
      <4>1. l[N].len \in Nat
        BY <1>1, <2>1
      <4> QED BY <1>3, <3>1, <4>1
    <3>2. CASE j < N
      BY <1>1, <1>3, <3>2
    <3> QED BY <3>1, <3>2
  <2>5. \A j, k \in 1..N : j < k => r[j].seq + r[j].len <= r[k].seq
    <3> SUFFICES ASSUME NEW j \in 1..N, NEW k \in 1..N, j < k
                 PROVE  r[j].seq + r[j].len <= r[k].seq
      OBVIOUS
    <3>1. j < N
      OBVIOUS
    <3> QED BY <1>1, <2>0, <2>3, <3>1
  <2>6. \A j, k \in 1..N : k = j + 1 => r[j].seq + r[j].len = r[k].seq
    <3> SUFFICES ASSUME NEW j \in 1..N, NEW k \in 1..N, k = j + 1
                 PROVE  r[j].seq + r[j].len = r[k].seq
      OBVIOUS
    <3>1. j < N
      OBVIOUS
    <3> QED BY <1>1, <2>0, <2>3, <3>1
  <2>7. r[N].seq + r[N].len = b + n
    <3>1. l[N].seq \in Nat /\ l[N].len \in Nat /\ l[N].seq + l[N].len = b
      BY <1>1, <1>3, <2>1
    <3>2. l[N].seq + (l[N].len + n) = (l[N].seq + l[N].len) + n
      BY <3>1
    <3> QED BY <1>3, <3>1, <3>2
  <2> QED BY <1>3, <2>1, <2>2, <2>4, <2>5, <2>6, <2>7 DEF Chain
<1> QED BY <1>2, <1>3 DEF Extended

\* The marks up to nxt stay marks.
KeepsMarks(l, r, nxt) == \A x \in Nat : x <= nxt /\ ListMark(l, x) => ListMark(r, x)

\* The n numbers from x on are the connect message or do not include it.
Kind(ctrl, x, n) == (ctrl <=> x = 0) /\ (ctrl => n = 1)

\* The marks of the sender stay marks, and the new bytes are not transmitted.
LEMMA ExtendedSent ==
  ASSUME NEW l, NEW a \in Nat, NEW b \in Nat, Chain(l, a, b), NEW n \in Nat, n > 0, NEW ctrl \in BOOLEAN,
         NEW r \in Seq(Segment), Extended(r, l, b, n, ctrl), NEW nxt \in Nat, nxt <= b, Sent(l, nxt),
         Kind(ctrl, b, n)
  PROVE  Sent(r, nxt) /\ KeepsMarks(l, r, nxt)
<1> PICK N \in Nat : N = Len(l)
  BY DEF Chain
<1>0. (ctrl <=> b = 0) /\ (ctrl => n = 1)
  BY DEF Kind
<1>1. \A j \in 1..N : /\ l[j] \in Segment /\ l[j].seq \in Nat /\ l[j].len \in Nat /\ l[j].len > 0
                      /\ l[j].seq >= a /\ l[j].seq + l[j].len <= b
  BY ChainFacts
<1>2. \A j \in 1..N : /\ l[j].xmit > 0 <=> l[j].seq < nxt
                      /\ l[j].ctrl <=> l[j].seq = 0
                      /\ l[j].ctrl => l[j].len = 1
  BY DEF Sent
<1>3. CASE /\ Len(r) = N + 1 /\ \A j \in 1..N : r[j] = l[j]
           /\ r[N + 1].seq = b /\ r[N + 1].len = n
           /\ r[N + 1].xmit = 0 /\ r[N + 1].ctrl = ctrl
  <2>1. ASSUME NEW j \in 1..N + 1
        PROVE  /\ r[j].xmit > 0 <=> r[j].seq < nxt
               /\ r[j].ctrl <=> r[j].seq = 0
               /\ r[j].ctrl => r[j].len = 1
    <3>1. CASE j = N + 1
      <4>1. r[j].seq = b /\ r[j].len = n /\ r[j].xmit = 0 /\ r[j].ctrl = ctrl
        BY <1>3, <3>1
      <4>2. ~(0 > 0) /\ ~(b < nxt)
        OBVIOUS
      <4> QED BY <1>0, <4>1, <4>2
    <3>2. CASE j # N + 1
      <4>1. j \in 1..N
        BY <3>2
      <4>2. r[j] = l[j]
        BY <1>3, <4>1
      <4> QED BY <1>2, <4>1, <4>2
    <3> QED BY <3>1, <3>2
  <2>2. Sent(r, nxt)
    BY <1>3, <2>1 DEF Sent
  <2>3. ASSUME NEW x \in Nat, x <= nxt, ListMark(l, x), NEW j \in 1..N + 1, r[j].seq < x
        PROVE  r[j].seq + r[j].len <= x
    <3>1. j # N + 1
      BY <1>3, <2>3
    <3>2. j \in 1..N
      BY <3>1
    <3>3. r[j] = l[j]
      BY <1>3, <3>2
    <3> QED BY <2>3, <3>2, <3>3 DEF ListMark
  <2>4. \A x \in Nat : x <= nxt /\ ListMark(l, x) => ListMark(r, x)
    <3> SUFFICES ASSUME NEW x \in Nat, x <= nxt, ListMark(l, x)
                 PROVE  ListMark(r, x)
      OBVIOUS
    <3> QED BY <1>3, <2>3 DEF ListMark
  <2> QED BY <2>2, <2>4 DEF KeepsMarks
<1>4. CASE /\ N > 0 /\ Len(r) = N /\ \A j \in 1..N : j < N => r[j] = l[j]
           /\ r[N].seq = l[N].seq /\ r[N].len = l[N].len + n
           /\ r[N].xmit = 0 /\ l[N].xmit = 0
           /\ r[N].ctrl = l[N].ctrl /\ l[N].ctrl = ctrl
  <2>0. N \in 1..N
    BY <1>4
  <2>1. ~(l[N].seq < nxt) /\ ~ctrl
    <3>1. ~(l[N].xmit > 0)
      BY <1>4
    <3>2. ~(l[N].seq < nxt)
      BY <1>2, <2>0, <3>1
    <3>3. b # 0
      BY <1>1, <2>0
    <3> QED BY <1>0, <3>2, <3>3
  <2>2. ASSUME NEW j \in 1..N
        PROVE  /\ r[j].xmit > 0 <=> r[j].seq < nxt
               /\ r[j].ctrl <=> r[j].seq = 0
               /\ r[j].ctrl => r[j].len = 1
    <3>1. CASE j = N
      <4>1. r[j].xmit = 0 /\ r[j].seq = l[N].seq /\ r[j].ctrl = ctrl
        BY <1>4, <3>1
      <4>2. ctrl <=> l[N].seq = 0
        BY <1>2, <1>4, <2>0
      <4> QED BY <2>1, <4>1, <4>2
    <3>2. CASE j < N
      BY <1>2, <1>4, <3>2
    <3> QED BY <3>1, <3>2
  <2>3. Sent(r, nxt)
    BY <1>4, <2>2 DEF Sent
  <2>4. ASSUME NEW x \in Nat, x <= nxt, ListMark(l, x), NEW j \in 1..N, r[j].seq < x
        PROVE  r[j].seq + r[j].len <= x
    <3>1. CASE j = N
      <4>1. r[j].seq = l[N].seq /\ l[N].seq \in Nat
        BY <1>1, <1>4, <2>0, <3>1
      <4> QED BY <2>1, <2>4, <4>1
    <3>2. CASE j < N
      <4>1. r[j] = l[j]
        BY <1>4, <3>2
      <4> QED BY <2>4, <4>1 DEF ListMark
    <3> QED BY <3>1, <3>2
  <2>5. \A x \in Nat : x <= nxt /\ ListMark(l, x) => ListMark(r, x)
    <3> SUFFICES ASSUME NEW x \in Nat, x <= nxt, ListMark(l, x)
                 PROVE  ListMark(r, x)
      OBVIOUS
    <3> QED BY <1>4, <2>4 DEF ListMark
  <2> QED BY <2>3, <2>5 DEF KeepsMarks
<1> QED BY <1>3, <1>4 DEF Extended

\* What queue makes of an end
Queued(t, u, bytes) ==
  /\ u \in Tcb /\ SameRecv(t, u) /\ SameMode(t, u) /\ SameRest(t, u) /\ u.out = t.out
  /\ u.sbuf = t.sbuf \o bytes
  /\ u.snd_una = t.snd_una /\ u.snd_nxt = t.snd_nxt /\ u.snd_wnd = t.snd_wnd

\* An end with other segments and another buffer
QueuedTcb(t, l, b) == [t EXCEPT !.slist = l, !.sbuf = b]

\* What that leaves as it was
LEMMA QueuedRecord ==
  ASSUME NEW t \in Tcb, NEW l \in Seq(Segment), NEW b \in Seq(Nat)
  PROVE  LET u == QueuedTcb(t, l, b)
         IN /\ u \in Tcb /\ SameRecv(t, u) /\ SameMode(t, u) /\ SameRest(t, u) /\ u.out = t.out
            /\ u.sbuf = b /\ u.slist = l
            /\ u.snd_una = t.snd_una /\ u.snd_nxt = t.snd_nxt /\ u.snd_wnd = t.snd_wnd
BY DEF QueuedTcb, Tcb, SameRecv, SameMode, SameRest

\* queue makes the list longer.
LEMMA QueueShape ==
  ASSUME NEW t, End(t), NoWrap, NEW bytes \in Seq(Nat), NEW ctrl \in BOOLEAN
  PROVE  /\ Queued(t, Queue(t, bytes, ctrl), bytes)
         /\ Extended(Queue(t, bytes, ctrl).slist, t.slist, Total(t), Len(bytes), ctrl)
<1> DEFINE l == t.slist
           last == l[Len(l)]
           merge == Len(l) > 0 /\ last.ctrl = ctrl /\ last.xmit = 0
           long == [l EXCEPT ![Len(l)].len = @ + Len(bytes)]
           g == [seq |-> Add(t.snd_una, Len(t.sbuf)), len |-> Len(bytes), ctrl |-> ctrl, xmit |-> 0]
           r == IF merge THEN long ELSE Append(l, g)
<1>1. /\ t \in Tcb /\ l \in Seq(Segment) /\ Len(l) \in Nat /\ t.sbuf \in Seq(Nat) /\ t.snd_una \in Nat
      /\ Len(t.sbuf) \in Nat /\ Total(t) = t.snd_una + Len(t.sbuf) /\ Total(t) < SeqSpace /\ Total(t) \in Nat
  BY EndNumbers
<1> PICK n \in Nat : n = Len(bytes)
  OBVIOUS
<1> PICK N \in Nat : N = Len(l)
  BY <1>1
<1>2. Queue(t, bytes, ctrl) = QueuedTcb(t, r, t.sbuf \o bytes)
  BY DEF Queue, QueuedTcb
<1>3. Add(t.snd_una, Len(t.sbuf)) = Total(t)
  BY <1>1, SmallNumbers
<1>4. r \in Seq(Segment) /\ Extended(r, l, Total(t), n, ctrl)
  <2>1. CASE merge
    <3>0. r = long /\ N > 0 /\ N \in 1..N
      BY <2>1
    <3> PICK h \in Segment : h = l[N]
      BY <1>1, <3>0
    <3>1. h.len \in Nat /\ h.len + n \in Nat
      BY DEF Segment
    <3> PICK m \in Nat : m = h.len + n
      BY <3>1
    <3> DEFINE f == [h EXCEPT !.len = m]
    <3>2. f \in Segment /\ f.seq = h.seq /\ f.len = m /\ f.ctrl = h.ctrl /\ f.xmit = h.xmit
      BY DEF Segment
    <3>3. long = [l EXCEPT ![N] = f]
      BY <3>0
    <3> HIDE DEF f
    <3> DEFINE q == [l EXCEPT ![N] = f]
    <3>4. q \in Seq(Segment) /\ Len(q) = N /\ q[N] = f /\ \A j \in 1..N : j < N => q[j] = l[j]
      BY <1>1, <3>0, <3>2
    <3> HIDE DEF q
    <3>5. Extended(q, l, Total(t), n, ctrl)
      BY <2>1, <3>0, <3>2, <3>4 DEF Extended
    <3> QED BY <3>0, <3>3, <3>4, <3>5 DEF q
  <2>2. CASE ~merge
    <3>0. r = Append(l, g)
      BY <2>2
    <3>1. g \in Segment /\ g.seq = Total(t) /\ g.len = n /\ g.ctrl = ctrl /\ g.xmit = 0
      BY <1>1, <1>3 DEF Segment
    <3> HIDE DEF g
    <3> DEFINE q == Append(l, g)
    <3>2. q \in Seq(Segment) /\ Len(q) = N + 1 /\ q[N + 1] = g /\ \A j \in 1..N : q[j] = l[j]
      BY <1>1, <3>1
    <3> HIDE DEF q
    <3>3. Extended(q, l, Total(t), n, ctrl)
      BY <3>1, <3>2 DEF Extended
    <3> QED BY <3>0, <3>2, <3>3 DEF q
  <2> QED BY <2>1, <2>2
<1>5. t.sbuf \o bytes \in Seq(Nat)
  BY <1>1
<1> HIDE DEF r
<1> DEFINE u == QueuedTcb(t, r, t.sbuf \o bytes)
<1>6. /\ u \in Tcb /\ SameRecv(t, u) /\ SameMode(t, u) /\ SameRest(t, u) /\ u.out = t.out
      /\ u.sbuf = t.sbuf \o bytes /\ u.slist = r
      /\ u.snd_una = t.snd_una /\ u.snd_nxt = t.snd_nxt /\ u.snd_wnd = t.snd_wnd
  <2> PICK b \in Seq(Nat) : b = t.sbuf \o bytes
    BY <1>5
  <2> QED BY <1>1, <1>4, QueuedRecord, ZenonT(60)
<1> HIDE DEF u
<1> QED BY <1>2, <1>4, <1>6 DEF Queued, u

\* queue with room for the bytes
LEMMA QueueWork ==
  ASSUME NEW t, NEW p, NEW A, NEW B, Work(t, p, A, B), NoWrap,
         NEW bytes \in Seq(Nat), NEW n \in Nat, n = Len(bytes), n > 0, NEW ctrl \in BOOLEAN,
         Numbered(bytes, Total(t)), Total(t) + n <= FileLen + 1, Len(t.sbuf) + n <= SBufLen,
         Kind(ctrl, Total(t), n)
  PROVE  LET u == Queue(t, bytes, ctrl)
         IN /\ Work(u, p, A, B) /\ Queued(t, u, bytes) /\ Total(u) = Total(t) + n
<1> DEFINE u == Queue(t, bytes, ctrl)
<1>1. End(t) /\ Flow(t, p) /\ Pair(t, p, A, B \cup Held(t.out))
  BY DEF Work, Pair
<1>2. /\ t \in Tcb /\ t.snd_una \in Nat /\ t.snd_nxt \in Nat /\ t.sbuf \in Seq(Nat) /\ Len(t.sbuf) \in Nat
      /\ Total(t) \in Nat /\ Total(t) = t.snd_una + Len(t.sbuf)
      /\ t.snd_una <= t.snd_nxt /\ t.snd_nxt <= Total(t)
  BY <1>1, EndNumbers
<1>3. /\ Chain(t.slist, t.snd_una, Total(t)) /\ Sent(t.slist, t.snd_nxt)
      /\ Mark(t, t.snd_nxt) /\ Numbered(t.sbuf, t.snd_una)
  BY <1>1 DEF End, Sender
<1>4. Queued(t, u, bytes) /\ Extended(u.slist, t.slist, Total(t), n, ctrl)
  BY <1>1, QueueShape
<1> HIDE DEF u
<1>5. /\ u \in Tcb /\ SameRecv(t, u) /\ SameMode(t, u) /\ SameRest(t, u) /\ u.out = t.out
      /\ u.sbuf = t.sbuf \o bytes
      /\ u.snd_una = t.snd_una /\ u.snd_nxt = t.snd_nxt /\ u.snd_wnd = t.snd_wnd
  BY <1>4 DEF Queued
<1>6. u.slist \in Seq(Segment)
  BY <1>5 DEF Tcb
<1>7. Chain(u.slist, t.snd_una, Total(t) + n)
  BY <1>2, <1>3, <1>4, <1>6, ExtendedChain
<1>8. Sent(u.slist, t.snd_nxt) /\ KeepsMarks(t.slist, u.slist, t.snd_nxt)
  <2>1. /\ t.snd_una \in Nat /\ Total(t) \in Nat /\ Chain(t.slist, t.snd_una, Total(t)) /\ t.snd_nxt \in Nat
        /\ u.slist \in Seq(Segment) /\ Extended(u.slist, t.slist, Total(t), n, ctrl)
        /\ t.snd_nxt <= Total(t) /\ Sent(t.slist, t.snd_nxt)
    BY <1>2, <1>3, <1>4, <1>6
  <2> QED BY <2>1, ExtendedSent
<1>9. \A x : Mark(t, x) => Mark(u, x)
  BY <1>5, <1>8 DEF Mark, KeepsMarks
<1>10. Len(u.sbuf) = Len(t.sbuf) + n
  BY <1>2, <1>5
<1>11. Total(u) = Total(t) + n
  <2>1. Total(u) = t.snd_una + (Len(t.sbuf) + n)
    BY <1>5, <1>10 DEF Total
  <2>2. t.snd_una \in Nat /\ Len(t.sbuf) \in Nat
    BY <1>2
  <2>3. t.snd_una + (Len(t.sbuf) + n) = (t.snd_una + Len(t.sbuf)) + n
    BY <2>2
  <2> QED BY <2>1, <2>3 DEF Total
<1>12. Numbered(u.sbuf, u.snd_una)
  <2> SUFFICES ASSUME NEW j \in 1..(Len(t.sbuf) + n)
               PROVE  (t.sbuf \o bytes)[j] = t.snd_una + j - 1
    BY <1>5, <1>10 DEF Numbered
  <2> PICK m \in Nat : m = Len(t.sbuf)
    BY <1>2
  <2>1. CASE j <= m
    <3>1. j \in 1..Len(t.sbuf)
      BY <2>1
    <3>2. t.sbuf[j] = t.snd_una + j - 1
      BY <1>3, <3>1 DEF Numbered
    <3>3. (t.sbuf \o bytes)[j] = t.sbuf[j]
      BY <1>2, <2>1
    <3> QED BY <3>2, <3>3
  <2>2. CASE j > m
    <3>0. j - m \in 1..n
      BY <2>2
    <3> PICK k \in 1..n : k = j - m
      BY <3>0
    <3>1. bytes[k] = Total(t) + k - 1
      BY DEF Numbered
    <3>2. (t.sbuf \o bytes)[j] = bytes[k]
      BY <1>2, <2>2
    <3>3. Total(t) + k - 1 = t.snd_una + j - 1
      <4>1. t.snd_una \in Nat
        BY <1>2
      <4>2. (t.snd_una + m) + (j - m) - 1 = t.snd_una + j - 1
        BY <4>1
      <4> QED BY <4>2 DEF Total
    <3> QED BY <3>1, <3>2, <3>3
  <2> QED BY <2>1, <2>2
<1>13. Sender(u)
  <2>1. u.snd_nxt <= Total(u)
    BY <1>2, <1>5, <1>11
  <2>2. Chain(u.slist, u.snd_una, Total(u))
    BY <1>5, <1>7, <1>11
  <2>3. Mark(u, u.snd_nxt)
    BY <1>3, <1>5, <1>9
  <2> QED BY <1>2, <1>5, <1>8, <1>10, <1>11, <1>12, <2>1, <2>2, <2>3 DEF Sender
<1>14. Receiver(u)
  <2>1. Receiver(t)
    BY <1>1 DEF End
  <2>2. Edge(u) = Edge(t) /\ Room(u) = Room(t)
    BY <1>5 DEF SameRecv, Edge, Room
  <2> QED BY <1>5, <2>1, <2>2 DEF SameRecv, Receiver
<1>15. Timed(u)
  <2>1. Timed(t)
    BY <1>1 DEF End
  <2> QED BY <1>5, <2>1 DEF Timed, SameMode, SameRest
<1>16. End(u)
  BY <1>5, <1>13, <1>14, <1>15 DEF End
<1>17. Flow(u, p)
  BY <1>1, <1>5, <1>9 DEF Flow
<1>18. Pair(u, p, A, B \cup Held(t.out))
  BY <1>1, <1>5, <1>9, <1>16, <1>17, PairSend
<1>19. Work(u, p, A, B)
  BY <1>5, <1>18 DEF Work
<1> QED BY <1>4, <1>11, <1>19 DEF u

-----------------------------------------------------------------------------
(* The handshake.                                                          *)

\* Buffers, packets and what goes with them stay.
SameBuffers(t, u) ==
  /\ SameSend(t, u) /\ SameRecv(t, u) /\ u.out = t.out
  /\ u.recover = t.recover /\ u.sflags = t.sflags /\ u.shutdown = t.shutdown

\* A change of the state and of the fields of timers, windows and users
LEMMA QuietWork ==
  ASSUME NEW t, NEW u, NEW p, NEW A, NEW B, Work(t, p, A, B), u \in Tcb, SameBuffers(t, u),
         u.state # "CLOSED" => t.state # "CLOSED" /\ u.rto = t.rto
  PROVE  Work(u, p, A, B)
<1>1. SameSend(t, u) /\ SameRecv(t, u) /\ u.out = t.out /\ u.recover = t.recover
  BY DEF SameBuffers
<1>2. Timed(u)
  <2>1. Timed(t)
    BY DEF Work, Pair, End
  <2>2. u.snd_una = t.snd_una /\ u.snd_nxt = t.snd_nxt
    BY <1>1 DEF SameSend
  <2> QED BY <1>1, <2>1, <2>2 DEF Timed
<1> QED BY <1>1, <1>2, WorkSame

\* The state alone
StateTcb(t, s) == [t EXCEPT !.state = s]

\* What the state leaves alone
LEMMA StateRecord ==
  ASSUME NEW t \in Tcb, NEW s \in StateNames
  PROVE  LET u == StateTcb(t, s)
         IN u \in Tcb /\ SameBuffers(t, u) /\ u.rto = t.rto /\ u.state = s /\ u.deleted = t.deleted
BY DEF StateTcb, Tcb, SameBuffers, SameSend, SameRecv

\* An end after the handshake
OpenTcb(t, m, h, c) ==
  [t EXCEPT !.state = "ESTABLISHED", !.mss = m, !.ssthresh = h, !.cwnd = c,
            !.writable = TRUE, !.readable = TRUE]

\* What the end of the handshake leaves alone
LEMMA OpenRecord ==
  ASSUME NEW t \in Tcb, NEW m \in 1..Mss, NEW h \in Nat \ {0}, NEW c \in 1..CwndMax
  PROVE  LET u == OpenTcb(t, m, h, c)
         IN u \in Tcb /\ SameBuffers(t, u) /\ u.rto = t.rto /\ u.state = "ESTABLISHED" /\ u.deleted = t.deleted
BY DEF OpenTcb, Tcb, StateNames, SameBuffers, SameSend, SameRecv

\* OnTcpOpen
LEMMA OpenWork ==
  ASSUME NEW t, NEW p, NEW A, NEW B, Work(t, p, A, B), t.state # "CLOSED"
  PROVE  LET u == Open(t)
         IN Work(u, p, A, B) /\ SameBuffers(t, u) /\ u.state = "ESTABLISHED" /\ u.deleted = t.deleted
<1>1. t \in Tcb
  BY DEF Work, Pair, End
<1>2. t.ssthresh \in Nat \ {0} /\ t.cwnd \in 1..CwndMax
  BY <1>1 DEF Tcb
<1>3. Greater(t.ssthresh, 2 * Mss) \in Nat \ {0} /\ Greater(t.cwnd, Mss) \in 1..CwndMax /\ Mss \in 1..Mss
  <2>1. Mss \in 1..Mss /\ Mss \in 1..CwndMax /\ 2 * Mss \in Nat \ {0}
    BY Sizes
  <2> QED BY <1>2, <2>1 DEF Greater
<1>4. Open(t) = OpenTcb(t, Mss, Greater(t.ssthresh, 2 * Mss), Greater(t.cwnd, Mss))
  <2> PICK h \in Nat \ {0} : h = Greater(t.ssthresh, 2 * Mss)
    BY <1>3
  <2> PICK c \in 1..CwndMax : c = Greater(t.cwnd, Mss)
    BY <1>3
  <2> DEFINE v == [t EXCEPT !.state = "ESTABLISHED"]
  <2>1. v.ssthresh = t.ssthresh /\ v.cwnd = t.cwnd
    BY <1>1 DEF Tcb
  <2>2. AdjustMTU(v) = [v EXCEPT !.mss = Mss, !.ssthresh = h, !.cwnd = c]
    BY <2>1 DEF AdjustMTU
  <2> QED BY <1>1, <2>2 DEF Open, OpenTcb, Tcb
<1> DEFINE u == OpenTcb(t, Mss, Greater(t.ssthresh, 2 * Mss), Greater(t.cwnd, Mss))
<1>5. u \in Tcb /\ SameBuffers(t, u) /\ u.rto = t.rto /\ u.state = "ESTABLISHED" /\ u.deleted = t.deleted
  BY <1>1, <1>3, OpenRecord
<1> HIDE DEF u
<1>6. Work(u, p, A, B)
  BY <1>5, QuietWork
<1> QED BY <1>4, <1>5, <1>6 DEF u

\* The peer's window alone
WindowTcb(t, w) == [t EXCEPT !.snd_wnd = w]

\* What the window leaves alone
LEMMA WindowRecord ==
  ASSUME NEW t \in Tcb, NEW w \in 0..RBufLen
  PROVE  LET u == WindowTcb(t, w)
         IN /\ u \in Tcb /\ SameList(t, u) /\ SameRecv(t, u) /\ SameMode(t, u) /\ SameRest(t, u)
            /\ u.out = t.out /\ u.snd_wnd = w
BY DEF WindowTcb, Tcb, SameList, SameRecv, SameMode, SameRest

\* What queueing the connect message does
ConnectQueued(t, u) ==
  /\ SameRecv(t, u) /\ SameMode(t, u) /\ SameRest(t, u) /\ u.out = t.out
  /\ u.snd_una = t.snd_una /\ u.snd_nxt = t.snd_nxt /\ Total(u) = 1

\* queueConnectMessage, before anything else is queued
LEMMA ConnectWork ==
  ASSUME NEW t, NEW p, NEW A, NEW B, Work(t, p, A, B), NoWrap, Total(t) = 0
  PROVE  Work(QueueConnectMessage(t), p, A, B) /\ ConnectQueued(t, QueueConnectMessage(t))
<1>1. End(t) /\ End(p) /\ Flow(t, p)
  BY DEF Work, Pair
<1>2. t \in Tcb /\ t.snd_una \in Nat /\ Len(t.sbuf) \in Nat /\ Total(t) = t.snd_una + Len(t.sbuf)
  BY <1>1, EndNumbers
<1>3. t.snd_una = 0 /\ Len(t.sbuf) = 0
  BY <1>2
<1>4. Edge(p) >= 1 /\ Edge(p) \in Nat
  BY <1>1, EndNumbers DEF End, Receiver
<1>w. 1 \in 0..RBufLen
  BY Sizes
<1> DEFINE v == WindowTcb(t, 1)
<1>5. /\ v \in Tcb /\ SameList(t, v) /\ SameRecv(t, v) /\ SameMode(t, v) /\ SameRest(t, v)
      /\ v.out = t.out /\ v.snd_wnd = 1
  BY <1>2, <1>w, WindowRecord
<1> HIDE DEF v
<1>6. v.snd_una = 0 /\ v.snd_una = t.snd_una /\ v.snd_nxt = t.snd_nxt /\ v.sbuf = t.sbuf /\ Total(v) = 0
  BY <1>2, <1>3, <1>5 DEF SameList, Total
<1>7. Work(v, p, A, B)
  <2>1. Timed(v)
    <3>1. Timed(t)
      BY <1>1 DEF End
    <3> QED BY <1>5, <1>6, <3>1 DEF Timed, SameMode, SameRest
  <2>2. v.snd_una + v.snd_wnd <= Edge(p)
    BY <1>4, <1>5, <1>6
  <2> QED BY <1>5, <2>1, <2>2, WorkWindow
<1> DEFINE b == <<CTL_CONNECT>>
<1>8. b \in Seq(Nat) /\ Len(b) = 1 /\ Numbered(b, 0)
  BY DEF CTL_CONNECT, Numbered
<1> HIDE DEF b
<1>9. 0 + 1 <= FileLen + 1 /\ Len(v.sbuf) + 1 <= SBufLen /\ Kind(TRUE, 0, 1)
  BY <1>3, <1>6, Sizes DEF Kind
<1> DEFINE u == Queue(v, b, TRUE)
<1>10. Work(u, p, A, B) /\ Queued(v, u, b) /\ Total(u) = 0 + 1
  <2>1. /\ Work(v, p, A, B) /\ b \in Seq(Nat) /\ 1 = Len(b) /\ Numbered(b, Total(v))
        /\ Total(v) + 1 <= FileLen + 1 /\ Len(v.sbuf) + 1 <= SBufLen /\ Kind(TRUE, Total(v), 1)
    BY <1>6, <1>7, <1>8, <1>9
  <2>2. 1 \in Nat /\ 1 > 0 /\ TRUE \in BOOLEAN
    OBVIOUS
  <2>3. Work(u, p, A, B) /\ Queued(v, u, b) /\ Total(u) = Total(v) + 1
    BY <2>1, <2>2, QueueWork
  <2> QED BY <1>6, <2>3
<1>11. QueueConnectMessage(t) = u
  BY DEF QueueConnectMessage, v, b, WindowTcb
<1> HIDE DEF u
<1>12. /\ SameRecv(v, u) /\ SameMode(v, u) /\ SameRest(v, u) /\ u.out = v.out
       /\ u.snd_una = v.snd_una /\ u.snd_nxt = v.snd_nxt
  BY <1>10 DEF Queued
<1>13. SameRecv(t, u) /\ SameMode(t, u) /\ SameRest(t, u)
  BY <1>5, <1>12 DEF SameRecv, SameMode, SameRest
<1>14. ConnectQueued(t, u)
  BY <1>5, <1>6, <1>10, <1>12, <1>13 DEF ConnectQueued
<1> QED BY <1>10, <1>11, <1>14

\* What the control byte does: an answer is queued, or the handshake is over.
Controlled(t, u, seg) ==
  /\ SameRecv(t, u) /\ u.sflags = t.sflags /\ u.shutdown = t.shutdown
  /\ u.snd_una = t.snd_una /\ u.snd_nxt = t.snd_nxt
  /\ \/ seg.ctrl /\ t.state = "LISTEN" /\ u.state = "SYN_RECEIVED" /\ Total(u) = 1
     \/ seg.ctrl /\ t.state = "SYN_SENT" /\ u.state = "ESTABLISHED" /\ Total(u) = Total(t)
     \/ ~(seg.ctrl /\ t.state = "LISTEN") /\ u.state = t.state /\ Total(u) = Total(t)

\* The control byte of process
LEMMA ControlWork ==
  ASSUME NEW t, NEW p, NEW A, NEW B, Work(t, p, A, B), NoWrap, NEW seg, seg.ctrl \in BOOLEAN,
         t.state = "LISTEN" => Total(t) = 0
  PROVE  Work(Control(t, seg), p, A, B) /\ Controlled(t, Control(t, seg), seg)
<1>0. t \in Tcb
  BY DEF Work, Pair, End
<1>1. CASE seg.ctrl /\ t.state = "LISTEN"
  <2> DEFINE v == StateTcb(t, "SYN_RECEIVED")
             u == QueueConnectMessage(v)
  <2>1. Control(t, seg) = u
    BY <1>1 DEF Control, StateTcb
  <2>2. v \in Tcb /\ SameBuffers(t, v) /\ v.rto = t.rto /\ v.state = "SYN_RECEIVED"
    BY <1>0, StateRecord DEF StateNames
  <2> HIDE DEF v
  <2>3. Work(v, p, A, B)
    BY <1>1, <2>2, QuietWork
  <2>4. SameSend(t, v) /\ SameRecv(t, v) /\ v.sflags = t.sflags /\ v.shutdown = t.shutdown /\ Total(v) = 0
    BY <1>1, <2>2 DEF SameBuffers, SameSend, Total
  <2>5. Work(u, p, A, B) /\ ConnectQueued(v, u)
    BY <2>3, <2>4, ConnectWork
  <2> HIDE DEF u
  <2>6. SameRecv(v, u) /\ SameMode(v, u) /\ SameRest(v, u) /\ u.snd_una = v.snd_una /\ u.snd_nxt = v.snd_nxt
        /\ Total(u) = 1
    BY <2>5 DEF ConnectQueued
  <2>7. SameRecv(t, u)
    BY <2>4, <2>6 DEF SameRecv
  <2>8. /\ u.sflags = t.sflags /\ u.shutdown = t.shutdown /\ u.state = "SYN_RECEIVED"
        /\ u.snd_una = t.snd_una /\ u.snd_nxt = t.snd_nxt
    BY <2>2, <2>4, <2>6 DEF SameMode, SameRest, SameSend
  <2> QED BY <1>1, <2>1, <2>5, <2>6, <2>7, <2>8 DEF Controlled
<1>2. CASE seg.ctrl /\ t.state = "SYN_SENT"
  <2> DEFINE u == Open(t)
  <2>1. Control(t, seg) = u
    BY <1>2 DEF Control
  <2>2. Work(u, p, A, B) /\ SameBuffers(t, u) /\ u.state = "ESTABLISHED"
    BY <1>2, OpenWork
  <2> HIDE DEF u
  <2>3. Total(u) = Total(t) /\ u.snd_una = t.snd_una /\ u.snd_nxt = t.snd_nxt
    BY <2>2 DEF SameBuffers, SameSend, Total
  <2> QED BY <1>2, <2>1, <2>2, <2>3 DEF Controlled, SameBuffers
<1>3. CASE ~(seg.ctrl /\ t.state = "LISTEN") /\ ~(seg.ctrl /\ t.state = "SYN_SENT")
  <2>1. Control(t, seg) = t
    BY <1>3 DEF Control
  <2> QED BY <1>3, <2>1 DEF Controlled, SameRecv
<1> QED BY <1>1, <1>2, <1>3

-----------------------------------------------------------------------------
(* Freeing what was acknowledged.                                          *)

\* The sums of the lengths
SumsEquation(f, l, N) == f = [k \in 0..N |-> IF k = 0 THEN 0 ELSE f[k - 1] + l[k].len]

\* The sums are defined for every list.
LEMMA SumsExist ==
  ASSUME NEW l, NEW N \in Nat
  PROVE  \E f : SumsEquation(f, l, N)
<1> DEFINE T == {M \in Nat : \E f : SumsEquation(f, l, M)}
<1>1. 0 \in T
  <2>1. SumsEquation([k \in 0..0 |-> 0], l, 0)
    BY DEF SumsEquation
  <2> QED BY <2>1
<1>2. ASSUME NEW n \in 1..N, n - 1 \in T
      PROVE  n \in T
  <2>1. PICK f : SumsEquation(f, l, n - 1)
    BY <1>2
  <2> DEFINE g == [m \in 0..n |-> IF m = n THEN f[n - 1] + l[n].len ELSE f[m]]
             h == [m \in 0..n |-> IF m = 0 THEN 0 ELSE g[m - 1] + l[m].len]
  <2>2. f = [m \in 0..(n - 1) |-> IF m = 0 THEN 0 ELSE f[m - 1] + l[m].len]
    BY <2>1 DEF SumsEquation
  <2>3. ASSUME NEW m \in 0..n
        PROVE  g[m] = IF m = 0 THEN 0 ELSE g[m - 1] + l[m].len
    <3>1. CASE m = 0
      <4>1. 0 \in 0..(n - 1) /\ m # n
        BY <3>1
      <4> QED BY <2>2, <3>1, <4>1
    <3>2. CASE m # 0 /\ m # n
      <4>1. m \in 0..(n - 1) /\ m - 1 \in 0..n /\ m - 1 # n
        BY <3>2
      <4>2. g[m - 1] = f[m - 1] /\ g[m] = f[m]
        BY <3>2, <4>1
      <4> QED BY <2>2, <3>2, <4>1, <4>2
    <3>3. CASE m = n
      <4>1. n - 1 \in 0..n /\ n - 1 # n /\ n # 0
        OBVIOUS
      <4> QED BY <3>3, <4>1
    <3> QED BY <3>1, <3>2, <3>3
  <2>4. g = h
    <3> HIDE <2>2
    <3>1. \A m \in 0..n : g[m] = h[m]
      BY <2>3
    <3>2. g = [m \in 0..n |-> g[m]] /\ h = [m \in 0..n |-> h[m]]
      OBVIOUS
    <3> HIDE DEF g, h
    <3> QED BY <3>1, <3>2
  <2>5. SumsEquation(g, l, n)
    <3> HIDE DEF g
    <3> QED BY <2>4 DEF SumsEquation, h
  <2> HIDE DEF g
  <2> QED BY <2>5
<1> HIDE DEF T
<1>3. N \in T
  BY <1>1, <1>2, SetInduction
<1> QED BY <1>3 DEF T

\* The sums of a list, one by one
LEMMA UptoDef ==
  ASSUME NEW l, Len(l) \in Nat
  PROVE  \A k \in 0..Len(l) : Upto(l)[k] = IF k = 0 THEN 0 ELSE Upto(l)[k - 1] + l[k].len
<1> DEFINE Def(f) == SumsEquation(f, l, Len(l))
           g == CHOOSE f : Def(f)
<1>1. Upto(l) = g
  BY DEF Upto, SumsEquation
<1>2. Def(g)
  <2>1. \E f : Def(f)
    BY SumsExist
  <2> HIDE DEF Def
  <2> QED BY <2>1
<1> HIDE DEF g
<1>3. \A k \in 0..Len(l) : g[k] = IF k = 0 THEN 0 ELSE g[k - 1] + l[k].len
  BY <1>2 DEF SumsEquation
<1> QED BY <1>1, <1>3

\* The first segments of a list reach from a to its end of the k-th.
LEMMA UptoChain ==
  ASSUME NEW l, NEW a \in Nat, NEW b \in Nat, Chain(l, a, b)
  PROVE  /\ Upto(l)[0] = 0
         /\ \A k \in 1..Len(l) : Upto(l)[k] = l[k].seq + l[k].len - a
<1> PICK N \in Nat : N = Len(l)
  BY DEF Chain
<1>0. \A k \in 0..N : Upto(l)[k] = IF k = 0 THEN 0 ELSE Upto(l)[k - 1] + l[k].len
  BY UptoDef
<1>1. \A j \in 1..N : l[j].seq \in Nat /\ l[j].len \in Nat
  BY ChainFacts
<1>2. /\ N > 0 => l[1].seq = a
      /\ \A j, k \in 1..N : k = j + 1 => l[j].seq + l[j].len = l[k].seq
  BY DEF Chain
<1>3. Upto(l)[0] = 0
  BY <1>0
<1> DEFINE T == {k \in 0..N : k > 0 => Upto(l)[k] = l[k].seq + l[k].len - a}
<1>4. 0 \in T
  OBVIOUS
<1>5. ASSUME NEW n \in 1..N, n - 1 \in T
      PROVE  n \in T
  <2>0. Upto(l)[n] = Upto(l)[n - 1] + l[n].len /\ l[n].seq \in Nat /\ l[n].len \in Nat
    BY <1>0, <1>1
  <2>1. CASE n = 1
    <3>1. Upto(l)[n] = 0 + l[n].len /\ l[n].seq = a
      BY <1>2, <1>3, <2>0, <2>1
    <3>2. 0 + l[n].len = l[n].seq + l[n].len - a
      BY <2>0, <3>1
    <3> QED BY <3>1, <3>2
  <2>2. CASE n # 1
    <3> PICK m \in 1..N : m = n - 1
      BY <2>2
    <3>1. Upto(l)[m] = l[m].seq + l[m].len - a /\ l[m].seq + l[m].len = l[n].seq
      BY <1>2, <1>5
    <3>0. l[m].seq \in Nat /\ l[m].len \in Nat
      BY <1>1
    <3>2. Upto(l)[m] = l[n].seq - a
      BY <2>0, <3>0, <3>1
    <3>3. Upto(l)[n] = (l[n].seq - a) + l[n].len
      BY <2>0, <3>2
    <3>4. (l[n].seq - a) + l[n].len = l[n].seq + l[n].len - a
      BY <2>0
    <3> QED BY <3>3, <3>4
  <2> QED BY <2>1, <2>2
<1> HIDE DEF T
<1>6. \A k \in 0..N : k \in T
  BY <1>4, <1>5, SetInduction
<1>7. \A k \in 1..N : Upto(l)[k] = l[k].seq + l[k].len - a
  BY <1>6 DEF T
<1> QED BY <1>3, <1>7

\* A set of numbers up to N has a greatest one.
LEMMA GreatestElement ==
  ASSUME NEW N \in Nat, NEW S, S \subseteq 0..N, S # {}
  PROVE  Max(S) \in S /\ \A y \in S : y <= Max(S)
<1> DEFINE T == {m \in Nat : N - m \in S}
<1>1. T \subseteq Nat /\ T # {}
  <2>1. PICK y \in S : TRUE
    OBVIOUS
  <2>2. N - y \in Nat /\ N - (N - y) = y
    BY <2>1
  <2> QED BY <2>1, <2>2
<1>2. PICK m \in T : \A k \in T : m <= k
  BY <1>1, LeastElement
<1>3. N - m \in S /\ m \in Nat
  OBVIOUS
<1>4. ASSUME NEW y \in S
      PROVE  N - m >= y
  <2>1. y \in 0..N /\ N - y \in Nat /\ N - (N - y) = y
    OBVIOUS
  <2>2. N - y \in T
    BY <2>1
  <2>3. m <= N - y
    BY <1>2, <2>2
  <2> QED BY <1>3, <2>1, <2>3
<1> DEFINE P(x) == x \in S /\ \A y \in S : x >= y
<1>5. \E x : P(x)
  BY <1>3, <1>4
<1>6. Max(S) = CHOOSE x : P(x)
  BY DEF Max
<1>7. P(CHOOSE x : P(x))
  <2> HIDE DEF P
  <2> QED BY <1>5
<1>8. P(Max(S))
  BY <1>6, <1>7
<1>9. Max(S) \in 0..N
  BY <1>8
<1> QED BY <1>8, <1>9

\* r is what is left of l without its first g segments.
Suffix(r, l, g) ==
  /\ r \in Seq(Segment) /\ g \in 0..Len(l) /\ Len(r) = Len(l) - g
  /\ \A j \in 1..Len(r) : r[j] = l[j + g]

\* The rest covers the rest.
LEMMA SuffixChain ==
  ASSUME NEW l, NEW a \in Nat, NEW b \in Nat, Chain(l, a, b), NEW r, NEW g, Suffix(r, l, g),
         NEW x \in Nat, g = Len(l) => x = b, g < Len(l) => l[g + 1].seq = x
  PROVE  Chain(r, x, b)
<1> PICK N \in Nat : N = Len(l)
  BY DEF Chain
<1> PICK h \in Nat : h = g /\ h <= N
  BY DEF Suffix
<1> PICK M \in Nat : M = N - h
  OBVIOUS
<1>1. r \in Seq(Segment) /\ Len(r) = M /\ \A j \in 1..M : r[j] = l[j + h]
  BY DEF Suffix
<1>2. \A j \in 1..M : j + h \in 1..N
  OBVIOUS
<1>3. CASE M = 0
  <2>1. r = <<>> /\ x = b
    BY <1>1, <1>3
  <2> QED BY <1>1, <2>1 DEF Chain
<1>4. CASE M > 0
  <2>1. r # <<>>
    BY <1>1, <1>4
  <2>2. r[1].seq = x
    <3>1. r[1] = l[1 + h] /\ 1 + h = h + 1 /\ h < N
      BY <1>1, <1>4
    <3> QED BY <3>1
  <2>3. r[M].seq + r[M].len = b
    <3>1. r[M] = l[N] /\ l # <<>>
      <4>1. M \in 1..M /\ M + h = N
        BY <1>4
      <4> QED BY <1>1, <1>4, <4>1
    <3> QED BY <3>1 DEF Chain
  <2>4. \A j \in 1..M : r[j].len > 0
    BY <1>1, <1>2 DEF Chain
  <2>5. \A j, k \in 1..M : j < k => r[j].seq + r[j].len <= r[k].seq
    <3> SUFFICES ASSUME NEW j \in 1..M, NEW k \in 1..M, j < k
                 PROVE  r[j].seq + r[j].len <= r[k].seq
      OBVIOUS
    <3>1. j + h \in 1..N /\ k + h \in 1..N /\ j + h < k + h
      OBVIOUS
    <3>2. l[j + h].seq + l[j + h].len <= l[k + h].seq
      BY <3>1 DEF Chain
    <3> QED BY <1>1, <3>2
  <2>6. \A j, k \in 1..M : k = j + 1 => r[j].seq + r[j].len = r[k].seq
    <3> SUFFICES ASSUME NEW j \in 1..M, NEW k \in 1..M, k = j + 1
                 PROVE  r[j].seq + r[j].len = r[k].seq
      OBVIOUS
    <3>1. j + h \in 1..N /\ k + h \in 1..N /\ k + h = (j + h) + 1
      OBVIOUS
    <3>2. l[j + h].seq + l[j + h].len = l[k + h].seq
      BY <3>1 DEF Chain
    <3> QED BY <1>1, <3>2
  <2> QED BY <1>1, <2>1, <2>2, <2>3, <2>4, <2>5, <2>6 DEF Chain
<1> QED BY <1>3, <1>4

\* The segments of the rest are as they were, and marks stay marks.
LEMMA SuffixSent ==
  ASSUME NEW l \in Seq(Segment), NEW r, NEW g, Suffix(r, l, g), NEW nxt \in Nat, Sent(l, nxt)
  PROVE  Sent(r, nxt) /\ KeepsMarks(l, r, nxt)
<1> PICK N \in Nat : N = Len(l)
  OBVIOUS
<1> PICK h \in Nat : h = g /\ h <= N
  BY DEF Suffix
<1>0. N - h \in Nat
  <2>1. h <= N /\ h \in Nat /\ N \in Nat
    OBVIOUS
  <2> QED BY <2>1, SMTT(30)
<1> PICK M \in Nat : M = N - h
  BY <1>0
<1>1. r \in Seq(Segment) /\ Len(r) = M /\ \A j \in 1..M : r[j] = l[j + h]
  BY DEF Suffix
<1>2. \A j \in 1..M : j + h \in 1..N
  <2> SUFFICES ASSUME NEW j \in 1..M
               PROVE  j + h \in 1..N
    OBVIOUS
  <2> QED OBVIOUS
<1>3. Sent(r, nxt)
  <2> SUFFICES ASSUME NEW j \in 1..M
               PROVE  /\ r[j].xmit > 0 <=> r[j].seq < nxt
                      /\ r[j].ctrl <=> r[j].seq = 0
                      /\ r[j].ctrl => r[j].len = 1
    BY <1>1 DEF Sent
  <2> PICK k \in 1..N : k = j + h
    BY <1>2
  <2>1. r[j] = l[k]
    BY <1>1
  <2> QED BY <2>1 DEF Sent
<1>4. ASSUME NEW x \in Nat, ListMark(l, x)
      PROVE  ListMark(r, x)
  <2> SUFFICES ASSUME NEW j \in 1..M
               PROVE  r[j].seq < x => r[j].seq + r[j].len <= x
    BY <1>1 DEF ListMark
  <2> PICK k \in 1..N : k = j + h
    BY <1>2
  <2>1. r[j] = l[k]
    BY <1>1
  <2> QED BY <1>4, <2>1 DEF ListMark
<1> QED BY <1>3, <1>4 DEF KeepsMarks

\* Nothing is taken from the first segment of a list.
LEMMA NothingTaken ==
  ASSUME NEW r \in Seq(Segment), r # <<>>
  PROVE  [r EXCEPT ![1].len = @ - 0] = r
<1>1. 1 \in 1..Len(r) /\ r[1] \in Segment
  OBVIOUS
<1> PICK f \in Segment : f = r[1]
  BY <1>1
<1>2. f.len - 0 = f.len /\ [f EXCEPT !.len = f.len] = f
  BY DEF Segment
<1>3. [f EXCEPT !.len = @ - 0] = f
  BY <1>2
<1>4. [r EXCEPT ![1] = f] = r
  BY <1>1
<1> QED BY <1>3, <1>4

\* An acknowledgement up to a mark frees whole segments.
LEMMA FreeSegmentsShape ==
  ASSUME NEW l, NEW a \in Nat, NEW b \in Nat, Chain(l, a, b), NEW n \in Nat, a + n <= b, ListMark(l, a + n)
  PROVE  \E g : Suffix(FreeSegments(l, n), l, g) /\ Chain(FreeSegments(l, n), a + n, b)
<1> PICK N \in Nat : N = Len(l)
  BY DEF Chain
<1>1. l \in Seq(Segment)
  BY DEF Chain
<1>2. \A j \in 1..N : l[j].seq \in Nat /\ l[j].len \in Nat /\ l[j].seq >= a
  BY ChainFacts
<1>3. Upto(l)[0] = 0 /\ \A k \in 1..N : Upto(l)[k] = l[k].seq + l[k].len - a
  BY UptoChain
<1> DEFINE S == {k \in 0..N : Upto(l)[k] <= n}
           g == Max(S)
           r == SubSeq(l, g + 1, N)
<1>4. g \in S /\ \A k \in S : k <= g
  <2>1. 0 \in S /\ S \subseteq 0..N
    BY <1>3
  <2> QED BY <2>1, GreatestElement
<1>5. g \in 0..N /\ Upto(l)[g] <= n
  BY <1>4
<1>6. g < N => Upto(l)[g + 1] > n
  <2> SUFFICES ASSUME g < N
               PROVE  Upto(l)[g + 1] > n
    OBVIOUS
  <2>1. g + 1 \in 1..N /\ ~(g + 1 <= g)
    BY <1>5
  <2>2. ~(Upto(l)[g + 1] <= n)
    BY <1>4, <2>1
  <2>3. Upto(l)[g + 1] \in Int
    BY <1>2, <1>3, <2>1, SMTT(30)
  <2> QED BY <2>2, <2>3
<1>7. FreeSegments(l, n) = IF r = <<>> THEN r ELSE [r EXCEPT ![1].len = @ - (n - Upto(l)[g])]
  BY DEF FreeSegments
<1> HIDE DEF g
<1> HIDE DEF S
<1>8. r \in Seq(Segment) /\ Len(r) = N - g /\ \A j \in 1..(N - g) : r[j] = l[j + g]
  <2>1. g + 1 \in 1..N + 1 /\ N \in g..N
    BY <1>5
  <2>2. \A j \in 1..(N - g) : (g + 1) + j - 1 = j + g
    BY <1>5
  <2> QED BY <1>1, <1>5, <2>1, <2>2
<1>9. Suffix(r, l, g)
  BY <1>5, <1>8 DEF Suffix
<1>10. CASE g = N
  <2>1. Upto(l)[N] = b - a
    <3>1. CASE N = 0
      <4>0. Len(l) = 0
        BY <3>1
      <4>1. l = <<>>
        BY <1>1, <4>0, EmptySeq
      <4>2. a = b
        BY <4>1 DEF Chain
      <4>3. b - a = 0
        BY <4>2
      <4> QED BY <1>3, <3>1, <4>3
    <3>2. CASE N > 0
      <4>1. l # <<>> /\ N \in 1..N
        BY <3>2
      <4>2. l[N].seq + l[N].len = b
        BY <4>1 DEF Chain
      <4> QED BY <1>2, <1>3, <4>1, <4>2
    <3> QED BY <3>1, <3>2
  <2>2. a + n = b
    BY <1>5, <1>10, <2>1
  <2>3. r = <<>>
    BY <1>8, <1>10
  <2>4. Chain(r, a + n, b)
    <3>1. g < Len(l) => l[g + 1].seq = a + n
      BY <1>10
    <3>2. a + n \in Nat
      OBVIOUS
    <3> HIDE DEF r
    <3> QED BY <1>9, <2>2, <3>1, <3>2, SuffixChain
  <2> QED BY <1>7, <1>9, <2>3, <2>4
<1>11. CASE g < N
  <2> PICK h \in 1..N : h = g + 1
    BY <1>5, <1>11
  <2>1. l[h].seq \in Nat /\ l[h].len \in Nat
    BY <1>2
  <2>2. Upto(l)[h] > n /\ Upto(l)[h] = l[h].seq + l[h].len - a
    BY <1>3, <1>6, <1>11
  <2>3. ~(l[h].seq < a + n)
    <3>1. l[h].seq < a + n => l[h].seq + l[h].len <= a + n
      BY DEF ListMark
    <3>2. l[h].seq + l[h].len > a + n
      BY <2>1, <2>2
    <3> QED BY <2>1, <3>1, <3>2
  <2>4. Upto(l)[g] = l[h].seq - a
    <3>1. CASE g = 0
      <4>1. l # <<>> /\ h = 1
        BY <1>11, <3>1
      <4>2. l[h].seq = a
        BY <4>1 DEF Chain
      <4> QED BY <1>3, <3>1, <4>2
    <3>2. CASE g # 0
      <4> PICK k \in 1..N : k = g
        BY <1>5, <3>2
      <4>1. Upto(l)[k] = l[k].seq + l[k].len - a /\ h = k + 1
        BY <1>3
      <4>2. l[k].seq + l[k].len = l[h].seq
        BY <4>1 DEF Chain
      <4>3. l[k].seq \in Nat /\ l[k].len \in Nat
        BY <1>2
      <4> QED BY <2>1, <4>1, <4>2, <4>3, SMTT(30)
    <3> QED BY <3>1, <3>2
  <2>5. l[h].seq = a + n /\ n - Upto(l)[g] = 0
    <3>1. l[h].seq - a <= n
      BY <1>5, <2>4
    <3>2. l[h].seq = a + n
      BY <2>1, <2>3, <3>1
    <3>3. n - (l[h].seq - a) = 0
      BY <3>2
    <3> QED BY <2>4, <3>2, <3>3
  <2>6. r # <<>>
    <3>1. Len(r) # 0
      BY <1>5, <1>8, <1>11
    <3> HIDE DEF r
    <3> QED BY <1>8, <3>1
  <2> HIDE DEF r
  <2>7. FreeSegments(l, n) = r
    <3>1. FreeSegments(l, n) = [r EXCEPT ![1].len = @ - 0]
      BY <1>7, <2>5, <2>6
    <3> QED BY <1>8, <2>6, <3>1, NothingTaken
  <2>8. Chain(r, a + n, b)
    <3>1. g < Len(l) => l[g + 1].seq = a + n
      BY <2>5
    <3>2. g = Len(l) => a + n = b
      BY <1>11
    <3>3. a + n \in Nat
      OBVIOUS
    <3> QED BY <1>9, <3>1, <3>2, <3>3, SuffixChain
  <2> QED BY <1>9, <2>7, <2>8
<1> QED BY <1>5, <1>10, <1>11

-----------------------------------------------------------------------------
(* Acknowledgements.                                                       *)

\* What an acknowledgement leaves alone
Acks(t, u) ==
  /\ SameRecv(t, u) /\ Total(u) = Total(t) /\ u.snd_nxt = t.snd_nxt
  /\ u.sflags = t.sflags /\ u.shutdown = t.shutdown
  /\ u.state = t.state \/ (u.state = "CLOSED" /\ t.snd_una # t.snd_nxt)

\* Two such steps, the first of which does not close the connection
LEMMA AcksTwice ==
  ASSUME NEW t, NEW u, NEW v, Acks(t, u), Acks(u, v), u.state = t.state \/ v.state = u.state,
         u.snd_una # u.snd_nxt => t.snd_una # t.snd_nxt
  PROVE  Acks(t, v)
<1>1. SameRecv(t, v)
  BY DEF Acks, SameRecv
<1> QED BY <1>1 DEF Acks

\* Windows and the fields of fast recovery
TuneTcb(t, d, r, h, c) == [t EXCEPT !.dup_acks = d, !.recover = r, !.ssthresh = h, !.cwnd = c]

\* What they leave alone
LEMMA TuneRecord ==
  ASSUME NEW t \in Tcb, NEW d \in 0..DupMax, NEW r \in Nat, NEW h \in Nat \ {0}, NEW c \in 1..CwndMax
  PROVE  LET u == TuneTcb(t, d, r, h, c)
         IN /\ u \in Tcb /\ SameSend(t, u) /\ SameRecv(t, u) /\ SameMode(t, u) /\ u.out = t.out
            /\ u.rto = t.rto /\ u.sflags = t.sflags /\ u.recover = r
BY DEF TuneTcb, Tcb, SameSend, SameRecv, SameMode

\* Setting them
LEMMA TuneWork ==
  ASSUME NEW t, NEW p, NEW A, NEW B, Work(t, p, A, B), NEW d \in 0..DupMax, NEW r \in Nat, r <= t.snd_nxt,
         NEW h \in Nat \ {0}, NEW c \in 1..CwndMax
  PROVE  Work(TuneTcb(t, d, r, h, c), p, A, B) /\ Acks(t, TuneTcb(t, d, r, h, c))
         /\ SameSend(t, TuneTcb(t, d, r, h, c))
<1> DEFINE u == TuneTcb(t, d, r, h, c)
<1>1. t \in Tcb /\ Timed(t)
  BY DEF Work, Pair, End
<1>2. /\ u \in Tcb /\ SameSend(t, u) /\ SameRecv(t, u) /\ SameMode(t, u) /\ u.out = t.out
      /\ u.rto = t.rto /\ u.sflags = t.sflags /\ u.recover = r
  BY <1>1, TuneRecord
<1> HIDE DEF u
<1>3. Timed(u)
  BY <1>1, <1>2 DEF Timed, SameSend, SameMode
<1>4. Work(u, p, A, B)
  BY <1>2, <1>3, WorkSame
<1>5. Acks(t, u)
  BY <1>2 DEF Acks, SameSend, SameMode, Total
<1> QED BY <1>2, <1>4, <1>5 DEF u

\* The numbers of the windows
LEMMA WindowNumbers ==
  ASSUME NEW t \in Tcb
  PROVE  /\ t.mss \in Nat \ {0} /\ t.cwnd \in 1..CwndMax /\ t.ssthresh \in Nat \ {0}
         /\ t.dup_acks \in 0..DupMax /\ t.recover \in Nat
         /\ Sub(t.snd_nxt, t.snd_una) \in Nat
         /\ Grow(t) \in Nat \ {0} /\ HalfFlight(t) \in Nat \ {0}
<1>1. /\ t.mss \in Nat \ {0} /\ t.cwnd \in 1..CwndMax /\ t.ssthresh \in Nat \ {0}
      /\ t.dup_acks \in 0..DupMax /\ t.recover \in Nat
      /\ t.snd_nxt \in Nat /\ t.snd_una \in Nat
  BY DEF Tcb
<1>2. Sub(t.snd_nxt, t.snd_una) \in Nat
  <2>1. t.snd_nxt \in Int /\ t.snd_una \in Int
    BY <1>1
  <2>2. Sub(t.snd_nxt, t.snd_una) \in 0..SeqSpace - 1
    BY <2>1, SmallNumbers
  <2> QED BY <2>2, Sizes
<1> PICK m \in Nat \ {0} : m = t.mss
  BY <1>1
<1> PICK c \in Nat \ {0} : c = t.cwnd
  BY <1>1
<1> PICK s \in Nat : s = Sub(t.snd_nxt, t.snd_una)
  BY <1>2
<1>3. (m * m) \div c \in Int
  <2> PICK q \in Nat : q = m * m
    OBVIOUS
  <2>1. q \div c \in Int
    OBVIOUS
  <2> QED BY <2>1
<1>4. Grow(t) \in Nat \ {0}
  <2> PICK q \in Int : q = (m * m) \div c
    BY <1>3
  <2>1. Greater(1, q) \in Nat \ {0}
    BY DEF Greater
  <2>2. Grow(t) \in {m, Greater(1, q)}
    BY DEF Grow
  <2> QED BY <2>1, <2>2
<1>5. HalfFlight(t) \in Nat \ {0}
  <2>1. s \div 2 \in Int /\ 2 * m \in Nat \ {0}
    OBVIOUS
  <2> PICK q \in Int : q = s \div 2
    BY <2>1
  <2> PICK k \in Nat \ {0} : k = 2 * m
    BY <2>1
  <2>2. Greater(q, k) \in Nat \ {0}
    BY DEF Greater
  <2>3. HalfFlight(t) = Greater(q, k)
    BY DEF HalfFlight
  <2> QED BY <2>2, <2>3
<1> QED BY <1>1, <1>2, <1>4, <1>5

\* The congestion window alone
LEMMA CwndWork ==
  ASSUME NEW t, NEW p, NEW A, NEW B, Work(t, p, A, B), NEW n \in Nat \ {0}
  PROVE  Work(SetCwnd(t, n), p, A, B) /\ Acks(t, SetCwnd(t, n)) /\ SameSend(t, SetCwnd(t, n))
<1>1. t \in Tcb /\ t.recover <= t.snd_nxt
  BY DEF Work, Pair, End, Timed
<1>2. Lesser(n, CwndMax) \in 1..CwndMax
  <2>1. CwndMax \in Nat \ {0}
    BY Sizes
  <2> QED BY <2>1 DEF Lesser
<1> PICK c \in 1..CwndMax : c = Lesser(n, CwndMax)
  BY <1>2
<1>3. t.dup_acks \in 0..DupMax /\ t.recover \in Nat /\ t.ssthresh \in Nat \ {0}
  BY <1>1, WindowNumbers
<1>4. SetCwnd(t, n) = TuneTcb(t, t.dup_acks, t.recover, t.ssthresh, c)
  BY <1>1 DEF SetCwnd, TuneTcb, Tcb
<1> QED BY <1>1, <1>3, <1>4, TuneWork

\* The count of repeated acknowledgements alone
DupTcb(t, d) == [t EXCEPT !.dup_acks = d]

\* Setting it
LEMMA DupWork ==
  ASSUME NEW t, NEW p, NEW A, NEW B, Work(t, p, A, B), NEW d \in 0..DupMax
  PROVE  Work(DupTcb(t, d), p, A, B) /\ Acks(t, DupTcb(t, d)) /\ SameSend(t, DupTcb(t, d))
<1>1. t \in Tcb /\ t.recover <= t.snd_nxt
  BY DEF Work, Pair, End, Timed
<1>2. t.cwnd \in 1..CwndMax /\ t.recover \in Nat /\ t.ssthresh \in Nat \ {0}
  BY <1>1, WindowNumbers
<1>3. DupTcb(t, d) = TuneTcb(t, d, t.recover, t.ssthresh, t.cwnd)
  BY <1>1 DEF DupTcb, TuneTcb, Tcb
<1> QED BY <1>1, <1>2, <1>3, TuneWork

\* An end with something unacknowledged has a first segment, which was transmitted.
LEMMA FirstSegment ==
  ASSUME NEW t, End(t), t.snd_una # t.snd_nxt
  PROVE  1 \in 1..Len(t.slist) /\ t.slist[1].seq < t.snd_nxt
<1>1. /\ t.snd_una \in Nat /\ t.snd_nxt \in Nat /\ Total(t) \in Nat
      /\ t.snd_una <= t.snd_nxt /\ t.snd_nxt <= Total(t)
  BY EndNumbers
<1>2. Chain(t.slist, t.snd_una, Total(t))
  BY DEF End, Sender
<1>3. t.slist # <<>> /\ t.slist \in Seq(Segment)
  BY <1>1, <1>2 DEF Chain
<1>4. t.slist[1].seq = t.snd_una
  BY <1>2, <1>3 DEF Chain
<1> QED BY <1>1, <1>3, <1>4

\* The retransmission of the first segment, or the end of the connection
LEMMA RetransmitWork ==
  ASSUME NEW t, NEW p, NEW A, NEW B, Work(t, p, A, B), NoWrap, path \in NoRoute..Mss, t.snd_una # t.snd_nxt
  PROVE  Work(Retransmit(t), p, A, B) /\ Acks(t, Retransmit(t))
<1>0. t \in Tcb /\ End(t)
  BY DEF Work, Pair, End
<1>1. 1 \in 1..Len(t.slist) /\ t.slist[1].seq < t.snd_nxt
  BY <1>0, FirstSegment
<1>2. CASE MayTransmit(t, 1)
  <2> DEFINE u == Transmit(t, 1)
  <2>1. Retransmit(t) = u
    BY <1>2 DEF Retransmit
  <2>2. /\ Work(u, p, A, B) /\ Sends(t, u) /\ u.sflags = t.sflags
        /\ t.slist[1].seq < t.snd_nxt => u.snd_nxt = t.snd_nxt
    <3>1. path \in 1..Mss
      BY <1>2, Sizes DEF MayTransmit, NoRoute
    <3> QED BY <1>1, <3>1, TransmitWork
  <2> HIDE DEF u
  <2>3. Acks(t, u)
    BY <1>1, <2>2 DEF Sends, SameMode, Acks
  <2> QED BY <2>1, <2>2, <2>3
<1>3. CASE ~MayTransmit(t, 1)
  <2> DEFINE w == TransmitFailed(t, 1)
             u == StateTcb(w, "CLOSED")
  <2>1. Retransmit(t) = u
    BY <1>3 DEF Retransmit, StateTcb
  <2>2. u \in Tcb /\ SameBuffers(t, u) /\ u.state = "CLOSED"
    <3>1. w \in Tcb /\ SameBuffers(t, w)
      BY <1>0, FailedRecord DEF SameBuffers, SameMode
    <3> HIDE DEF w
    <3>2. u \in Tcb /\ SameBuffers(w, u) /\ u.state = "CLOSED"
      BY <3>1, StateRecord DEF StateNames
    <3> HIDE DEF u
    <3> QED BY <3>1, <3>2 DEF SameBuffers, SameSend, SameRecv
  <2> HIDE DEF w, u
  <2>3. Work(u, p, A, B)
    BY <2>2, QuietWork
  <2>4. Acks(t, u)
    BY <2>2 DEF SameBuffers, SameSend, Acks, Total
  <2> QED BY <2>1, <2>3, <2>4
<1> QED BY <1>2, <1>3

\* b is s without its first n elements.
DropOf(b, s, n) == Len(b) = Len(s) - n /\ \A i \in 1..(Len(s) - n) : b[i] = s[i + n]

\* The rest of a sequence
LEMMA Dropped ==
  ASSUME NEW M, NEW s \in Seq(M), NEW n \in Nat, n <= Len(s)
  PROVE  SubSeq(s, n + 1, Len(s)) \in Seq(M) /\ DropOf(SubSeq(s, n + 1, Len(s)), s, n)
<1> PICK k \in Nat : k = Len(s)
  OBVIOUS
<1> DEFINE b == SubSeq(s, n + 1, k)
<1>1. n + 1 \in Int /\ k \in Int /\ \A i \in n + 1..k : s[i] \in M
  OBVIOUS
<1>2. b \in Seq(M) /\ Len(b) = (IF n + 1 <= k THEN k - (n + 1) + 1 ELSE 0)
  BY <1>1, SubSeqProperties
<1>3. Len(b) = k - n
  BY <1>2
<1>4. \A i \in 1..(k - n) : b[i] = s[i + n]
  BY <1>3
<1> QED BY <1>2, <1>3, <1>4 DEF DropOf

\* An end after an acknowledgement
FreedTcb(t, ack, wnd, rto, b, l) ==
  [t EXCEPT !.snd_wnd = wnd, !.snd_una = ack, !.rto = rto, !.sbuf = b, !.slist = l]

\* What that leaves alone
LEMMA FreedRecord ==
  ASSUME NEW t \in Tcb, NEW ack \in Nat, NEW wnd \in 0..RBufLen, NEW rto \in BOOLEAN, NEW b \in Seq(Nat),
         NEW l \in Seq(Segment)
  PROVE  LET u == FreedTcb(t, ack, wnd, rto, b, l)
         IN /\ u \in Tcb /\ SameRecv(t, u) /\ SameMode(t, u) /\ u.out = t.out
            /\ u.snd_wnd = wnd /\ u.snd_una = ack /\ u.rto = rto /\ u.sbuf = b /\ u.slist = l
            /\ u.snd_nxt = t.snd_nxt /\ u.sflags = t.sflags /\ u.recover = t.recover /\ u.dup_acks = t.dup_acks
BY DEF FreedTcb, Tcb, SameRecv, SameMode

\* What process makes of an end before it looks at the windows
Freed(t, seg) ==
  LET acked == Sub(seg.ack, t.snd_una)
  IN FreedTcb(t, seg.ack, seg.wnd, Unacknowledged(t, seg.ack),
              SubSeq(t.sbuf, acked + 1, Len(t.sbuf)), FreeSegments(t.slist, acked))

\* A valuable acknowledgement frees whole segments and as many bytes.
LEMMA FreedWork ==
  ASSUME NEW t, NEW p, NEW A, NEW B, Work(t, p, A, B), NoWrap, NEW seg \in A,
         t.state # "CLOSED", seg.ack > t.snd_una
  PROVE  /\ Work(Freed(t, seg), p, A, B) /\ Acks(t, Freed(t, seg))
         /\ Freed(t, seg).state = t.state /\ Freed(t, seg).snd_una = seg.ack
<1>1. End(t) /\ End(p) /\ Flow(t, p) /\ Pair(t, p, A, B \cup Held(t.out)) /\ PacketOK(seg, p, t)
  BY DEF Work, Pair
<1>2. /\ t \in Tcb /\ t.snd_una \in Nat /\ t.snd_nxt \in Nat /\ t.sbuf \in Seq(Nat) /\ Len(t.sbuf) \in Nat
      /\ Total(t) \in Nat /\ Total(t) = t.snd_una + Len(t.sbuf) /\ Total(t) < SeqSpace
      /\ t.snd_una <= t.snd_nxt /\ t.snd_nxt <= Total(t) /\ t.slist \in Seq(Segment)
  BY <1>1, EndNumbers
<1>3. /\ Chain(t.slist, t.snd_una, Total(t)) /\ Sent(t.slist, t.snd_nxt)
      /\ Mark(t, t.snd_nxt) /\ Numbered(t.sbuf, t.snd_una)
      /\ Total(t) <= FileLen + 1 /\ Len(t.sbuf) <= SBufLen
  BY <1>1 DEF End, Sender
<1>w. seg.wnd \in 0..RBufLen
  BY <1>1, Sizes DEF PacketOK, PacketRecord
<1>4. /\ seg.ack \in Nat /\ seg.wnd \in Nat /\ seg.ack <= t.snd_nxt /\ ListMark(t.slist, seg.ack)
      /\ seg.ack <= p.rcv_nxt /\ seg.ack + seg.wnd <= Edge(p)
  BY <1>1 DEF PacketOK, PacketRecord, Mark
<1>5. Sub(seg.ack, t.snd_una) = seg.ack - t.snd_una
  <2>1. t.snd_una <= seg.ack /\ seg.ack < SeqSpace
    BY <1>2, <1>4, Sizes
  <2> QED BY <1>2, <1>4, <2>1, SmallNumbers
<1>6. seg.ack - t.snd_una \in Nat /\ seg.ack - t.snd_una <= Len(t.sbuf) /\ t.snd_una + (seg.ack - t.snd_una) = seg.ack
  <2>1. seg.ack - t.snd_una \in Nat
    BY <1>2, <1>4
  <2>2. seg.ack - t.snd_una <= Len(t.sbuf)
    BY <1>2, <1>4
  <2>3. t.snd_una + (seg.ack - t.snd_una) = seg.ack
    BY <1>2, <1>4
  <2> QED BY <2>1, <2>2, <2>3
<1> DEFINE n == seg.ack - t.snd_una
           m == Len(t.sbuf)
           b == SubSeq(t.sbuf, n + 1, m)
           l == FreeSegments(t.slist, n)
           rto == Unacknowledged(t, seg.ack)
           u == FreedTcb(t, seg.ack, seg.wnd, rto, b, l)
<1>7. Freed(t, seg) = u
  BY <1>5 DEF Freed
<1>8. /\ b \in Seq(Nat) /\ Len(b) = m - n
      /\ \A i \in 1..(m - n) : b[i] = t.sbuf[i + n]
  <2>1. n \in Nat /\ m \in Nat /\ n <= m /\ t.sbuf \in Seq(Nat)
    BY <1>2, <1>6
  <2> HIDE DEF n
  <2>2. b \in Seq(Nat) /\ DropOf(b, t.sbuf, n)
    BY <2>1, Dropped
  <2> HIDE DEF b
  <2> QED BY <2>2 DEF DropOf
<1>9. \E g : Suffix(l, t.slist, g) /\ Chain(l, seg.ack, Total(t))
  <2>1. t.snd_una + n <= Total(t) /\ ListMark(t.slist, t.snd_una + n) /\ n \in Nat
    BY <1>2, <1>4, <1>6
  <2>2. \E g : Suffix(l, t.slist, g) /\ Chain(l, t.snd_una + n, Total(t))
    <3> HIDE DEF n
    <3> QED BY <1>2, <1>3, <2>1, FreeSegmentsShape
  <2> QED BY <1>6, <2>2
<1> PICK g : Suffix(l, t.slist, g)
  BY <1>9
<1> HIDE DEF l
<1>10. /\ Chain(l, seg.ack, Total(t)) /\ l \in Seq(Segment) /\ Sent(l, t.snd_nxt)
       /\ KeepsMarks(t.slist, l, t.snd_nxt)
  <2>1. Sent(l, t.snd_nxt) /\ KeepsMarks(t.slist, l, t.snd_nxt)
    BY <1>2, <1>3, SuffixSent
  <2> QED BY <1>9, <2>1 DEF Chain
<1>11. rto \in BOOLEAN /\ (rto <=> seg.ack # t.snd_nxt)
  BY DEF Unacknowledged
<1>12. /\ u \in Tcb /\ SameRecv(t, u) /\ SameMode(t, u) /\ u.out = t.out
       /\ u.snd_wnd = seg.wnd /\ u.snd_una = seg.ack /\ u.rto = rto /\ u.sbuf = b /\ u.slist = l
       /\ u.snd_nxt = t.snd_nxt /\ u.sflags = t.sflags /\ u.recover = t.recover
  <2> HIDE DEF rto, b
  <2>1. /\ t \in Tcb /\ seg.ack \in Nat /\ seg.wnd \in 0..RBufLen /\ rto \in BOOLEAN /\ b \in Seq(Nat)
        /\ l \in Seq(Segment)
    BY <1>2, <1>4, <1>w, <1>8, <1>10, <1>11
  <2> QED BY <2>1, FreedRecord
<1> HIDE DEF u
<1>13. \A x : Mark(t, x) => Mark(u, x)
  BY <1>10, <1>12 DEF Mark, KeepsMarks
<1>14. Len(u.sbuf) = m - n /\ Total(u) = Total(t)
  <2>1. Len(u.sbuf) = m - n
    BY <1>8, <1>12
  <2>2. Total(u) = seg.ack + (m - n)
    BY <1>12, <2>1 DEF Total
  <2>3. seg.ack + (Len(t.sbuf) - (seg.ack - t.snd_una)) = t.snd_una + Len(t.sbuf)
    BY <1>2, <1>4
  <2> QED BY <1>2, <2>1, <2>2, <2>3
<1>15. Numbered(u.sbuf, u.snd_una)
  <2> SUFFICES ASSUME NEW i \in 1..(m - n)
               PROVE  b[i] = seg.ack + i - 1
    BY <1>8, <1>12 DEF Numbered
  <2>1. i + n \in 1..m
    BY <1>2, <1>6, SMTT(30)
  <2>2. t.sbuf[i + n] = t.snd_una + (i + n) - 1
    BY <1>3, <2>1 DEF Numbered
  <2>3. t.snd_una + (i + (seg.ack - t.snd_una)) - 1 = seg.ack + i - 1
    <3>1. t.snd_una \in Int /\ seg.ack \in Int /\ i \in Int
      BY <1>2, <1>4
    <3> QED BY <3>1
  <2> QED BY <1>8, <2>2, <2>3
<1>16. Sender(u)
  <2>1. u.snd_una <= u.snd_nxt /\ u.snd_nxt <= Total(u) /\ Total(u) <= FileLen + 1
    BY <1>2, <1>3, <1>4, <1>12, <1>14
  <2>2. Len(u.sbuf) <= SBufLen
    <3>1. Len(t.sbuf) - (seg.ack - t.snd_una) <= SBufLen
      BY <1>2, <1>3, <1>6, Sizes
    <3> QED BY <1>14, <3>1
  <2>3. Mark(u, u.snd_nxt)
    BY <1>3, <1>12, <1>13
  <2>4. Chain(u.slist, u.snd_una, Total(u)) /\ Sent(u.slist, u.snd_nxt)
    BY <1>10, <1>12, <1>14
  <2> QED BY <1>15, <2>1, <2>2, <2>3, <2>4 DEF Sender
<1>17. Receiver(u)
  <2>1. Receiver(t)
    BY <1>1 DEF End
  <2>2. Edge(u) = Edge(t) /\ Room(u) = Room(t)
    BY <1>12 DEF SameRecv, Edge, Room
  <2> QED BY <1>12, <2>1, <2>2 DEF SameRecv, Receiver
<1>18. Timed(u)
  <2>1. Timed(t)
    BY <1>1 DEF End
  <2> QED BY <1>11, <1>12, <2>1 DEF Timed, SameMode
<1>19. End(u)
  BY <1>12, <1>16, <1>17, <1>18 DEF End
<1>20. Flow(u, p)
  BY <1>1, <1>4, <1>12, <1>13 DEF Flow
<1>21. Pair(u, p, A, B \cup Held(t.out))
  BY <1>1, <1>12, <1>13, <1>19, <1>20, PairSend
<1>22. Work(u, p, A, B)
  BY <1>12, <1>21 DEF Work
<1>23. Acks(t, u) /\ u.state = t.state
  BY <1>12, <1>14 DEF Acks, SameMode
<1> QED BY <1>7, <1>12, <1>22, <1>23

\* A valuable acknowledgement
LEMMA NewAckWork ==
  ASSUME NEW t, NEW p, NEW A, NEW B, Work(t, p, A, B), NoWrap, path \in NoRoute..Mss, NEW seg \in A,
         t.state # "CLOSED", Valuable(t, seg)
  PROVE  Work(NewAck(t, seg), p, A, B) /\ Acks(t, NewAck(t, seg))
<1> DEFINE f == Freed(t, seg)
           d == DupTcb(f, 0)
           acked == Sub(seg.ack, t.snd_una)
           again == Retransmit(f)
<1>0. seg.ack > t.snd_una /\ seg.ack <= t.snd_nxt /\ PacketOK(seg, p, t) /\ t \in Tcb
  BY DEF Valuable, Work, Pair, End
<1>1. Work(f, p, A, B) /\ Acks(t, f) /\ f.state = t.state /\ f.snd_una = seg.ack
  BY <1>0, FreedWork
<1>2. t.snd_una \in Nat /\ t.snd_nxt \in Nat /\ seg.ack \in Nat
  BY <1>0 DEF Tcb, PacketOK, PacketRecord
<1>3. t.snd_una # t.snd_nxt
  BY <1>0, <1>2
<1>4. acked \in Nat
  <2>1. seg.ack \in Int /\ t.snd_una \in Int
    BY <1>2
  <2>2. acked \in 0..SeqSpace - 1
    BY <2>1, SmallNumbers
  <2> QED BY <2>2, Sizes
<1>5. NewAck(t, seg) =
        CASE f.dup_acks < 3 -> SetCwnd(d, f.cwnd + Grow(f))
          [] f.dup_acks >= 3 /\ f.snd_una >= f.recover ->
               SetCwnd(d, Lesser(f.ssthresh, Sub(f.snd_nxt, f.snd_una) + f.mss))
          [] OTHER -> SetCwnd(again, again.cwnd + again.mss - Lesser(acked, again.cwnd))
  BY DEF NewAck, Freed, FreedTcb, DupTcb
<1> HIDE DEF f, d, acked, again
<1>6. f \in Tcb /\ End(f)
  BY <1>1 DEF Work, Pair, End
<1>7. /\ f.mss \in Nat \ {0} /\ f.cwnd \in 1..CwndMax /\ f.ssthresh \in Nat \ {0}
      /\ f.dup_acks \in 0..DupMax /\ f.recover \in Nat
      /\ Sub(f.snd_nxt, f.snd_una) \in Nat /\ Grow(f) \in Nat \ {0}
  BY <1>6, WindowNumbers
<1>8. /\ f.dup_acks \in Nat /\ f.snd_una \in Nat /\ f.snd_nxt \in Nat /\ f.snd_una <= f.snd_nxt
      /\ f.recover <= f.snd_nxt
  <2>1. f.recover <= f.snd_nxt /\ f.snd_una <= f.snd_nxt
    BY <1>6 DEF End, Timed, Sender
  <2> QED BY <1>6, <1>7, <2>1 DEF Tcb
<1>9. Work(d, p, A, B) /\ Acks(t, d)
  <2>1. Work(d, p, A, B) /\ Acks(f, d) /\ SameSend(f, d)
    BY <1>1, DupWork DEF d, DupMax
  <2>2. d.state = f.state
    BY <2>1 DEF d, DupTcb
  <2> QED BY <1>1, <1>3, <2>1, AcksTwice
<1>10. ASSUME NEW n \in Nat \ {0}
       PROVE  Work(SetCwnd(d, n), p, A, B) /\ Acks(t, SetCwnd(d, n))
  <2>1. Work(SetCwnd(d, n), p, A, B) /\ Acks(d, SetCwnd(d, n))
    BY <1>9, CwndWork
  <2>2. SetCwnd(d, n).state = d.state
    BY <1>9 DEF SetCwnd, Work, Pair, End, Tcb
  <2> QED BY <1>3, <1>9, <2>1, <2>2, AcksTwice
<1>11. CASE f.dup_acks < 3
  <2>1. NewAck(t, seg) = SetCwnd(d, f.cwnd + Grow(f))
    <3>1. ~(f.dup_acks >= 3)
      BY <1>8, <1>11
    <3> QED BY <1>5, <1>11, <3>1
  <2>2. f.cwnd + Grow(f) \in Nat \ {0}
    BY <1>7
  <2> QED BY <1>10, <2>1, <2>2
<1>12. CASE f.dup_acks >= 3 /\ f.snd_una >= f.recover
  <2>1. ~(f.dup_acks < 3)
    BY <1>8, <1>12
  <2>2. NewAck(t, seg) = SetCwnd(d, Lesser(f.ssthresh, Sub(f.snd_nxt, f.snd_una) + f.mss))
    BY <1>5, <1>12, <2>1
  <2>3. Lesser(f.ssthresh, Sub(f.snd_nxt, f.snd_una) + f.mss) \in Nat \ {0}
    BY <1>7 DEF Lesser
  <2> QED BY <1>10, <2>2, <2>3
<1>13. CASE ~(f.dup_acks < 3) /\ ~(f.dup_acks >= 3 /\ f.snd_una >= f.recover)
  <2>1. NewAck(t, seg) = SetCwnd(again, again.cwnd + again.mss - Lesser(acked, again.cwnd))
    BY <1>5, <1>13
  <2>2. f.snd_una # f.snd_nxt
    BY <1>7, <1>8, <1>13
  <2>3. Work(again, p, A, B) /\ Acks(f, again)
    BY <1>1, <2>2, RetransmitWork DEF again
  <2>4. again \in Tcb /\ again.mss \in Nat \ {0} /\ again.cwnd \in 1..CwndMax
    <3>1. again \in Tcb
      BY <2>3 DEF Work, Pair, End
    <3> QED BY <3>1, WindowNumbers
  <2>5. again.cwnd + again.mss - Lesser(acked, again.cwnd) \in Nat \ {0}
    <3>1. again.cwnd \in Nat /\ again.mss \in Nat \ {0}
      BY <2>4
    <3>2. Lesser(acked, again.cwnd) \in Nat /\ Lesser(acked, again.cwnd) <= again.cwnd
      BY <1>4, <3>1, LesserGreater
    <3>3. \A c, l \in Nat, m \in Nat \ {0} : l <= c => c + m - l \in Nat \ {0}
      OBVIOUS
    <3> QED BY <3>1, <3>2, <3>3
  <2>6. Acks(t, again)
    BY <1>1, <1>3, <2>3, AcksTwice
  <2> DEFINE u == SetCwnd(again, again.cwnd + again.mss - Lesser(acked, again.cwnd))
  <2>7. Work(u, p, A, B) /\ Acks(again, u)
    BY <2>3, <2>5, CwndWork
  <2>8. u.state = again.state
    BY <2>4 DEF SetCwnd, Tcb
  <2> HIDE DEF u
  <2>9. Acks(t, u)
    BY <1>3, <2>6, <2>7, <2>8, AcksTwice
  <2> QED BY <2>1, <2>7, <2>9 DEF u
<1> QED BY <1>11, <1>12, <1>13

\* An acknowledgement of nothing new
LEMMA OldAckWork ==
  ASSUME NEW t, NEW p, NEW A, NEW B, Work(t, p, A, B), NoWrap, path \in NoRoute..Mss, NEW seg \in A,
         t.state # "CLOSED", seg.ack = t.snd_una
  PROVE  Work(OldAck(t, seg), p, A, B) /\ Acks(t, OldAck(t, seg))
<1>0. End(t) /\ PacketOK(seg, p, t) /\ t \in Tcb
  BY DEF Work, Pair, End
<1>1. /\ seg.wnd \in 0..RBufLen /\ seg.data \in Seq(Nat) /\ Len(seg.data) \in Nat
      /\ t.snd_una + seg.wnd <= Edge(p) /\ t.dup_acks \in 0..DupMax
  <2>1. seg \in PacketRecord /\ seg.ack + seg.wnd <= Edge(p) /\ seg.wnd <= RBufLen
    BY <1>0 DEF PacketOK
  <2>2. seg.wnd \in 0..RBufLen /\ seg.data \in Seq(Nat)
    BY <2>1, Sizes DEF PacketRecord
  <2>3. t.dup_acks \in 0..DupMax
    BY <1>0 DEF Tcb
  <2> QED BY <2>1, <2>2, <2>3
<1> DEFINE told == WindowTcb(t, seg.wnd)
           n == Lesser(t.dup_acks + 1, DupMax)
           count == DupTcb(told, n)
           again == Retransmit(count)
<1>2. /\ told \in Tcb /\ SameList(t, told) /\ SameRecv(t, told) /\ SameMode(t, told) /\ SameRest(t, told)
      /\ told.out = t.out /\ told.snd_wnd = seg.wnd
  BY <1>0, <1>1, WindowRecord
<1>3. n \in 0..DupMax
  BY <1>1 DEF Lesser, DupMax
<1>4. OldAck(t, seg) =
        CASE Len(seg.data) > 0 -> told
          [] Len(seg.data) = 0 /\ t.snd_una = t.snd_nxt -> DupTcb(told, 0)
          [] Len(seg.data) = 0 /\ t.snd_una # t.snd_nxt ->
               CASE t.dup_acks < 2 -> count
                 [] t.dup_acks = 2 -> SetCwnd([again EXCEPT !.recover = again.snd_nxt,
                                                            !.ssthresh = HalfFlight(again)],
                                              HalfFlight(again) + 3 * again.mss)
                 [] t.dup_acks > 2 -> SetCwnd(count, t.cwnd + t.mss)
  <2>1. told.dup_acks = t.dup_acks
    BY <1>2 DEF SameRest
  <2>2. count = [told EXCEPT !.dup_acks = Lesser(@ + 1, DupMax)]
    BY <2>1 DEF DupTcb
  <2> HIDE DEF count, n
  <2> QED BY <2>2 DEF OldAck, WindowTcb, DupTcb
<1> HIDE DEF told, count, again, n
<1>5. Work(told, p, A, B) /\ Acks(t, told) /\ told.state = t.state
      /\ told.snd_una = t.snd_una /\ told.snd_nxt = t.snd_nxt
  <2>1. told.snd_una = t.snd_una /\ told.snd_nxt = t.snd_nxt /\ told.sbuf = t.sbuf
    BY <1>2 DEF SameList
  <2>2. Timed(told)
    <3>1. Timed(t)
      BY <1>0 DEF End
    <3> QED BY <1>2, <2>1, <3>1 DEF Timed, SameMode, SameRest
  <2>3. told.snd_una + told.snd_wnd <= Edge(p)
    BY <1>1, <1>2, <2>1
  <2>4. Work(told, p, A, B)
    BY <1>2, <2>2, <2>3, WorkWindow
  <2> QED BY <1>2, <2>1, <2>4 DEF Acks, SameMode, SameRest, Total
<1>6. ASSUME NEW k \in 0..DupMax
      PROVE  /\ Work(DupTcb(told, k), p, A, B) /\ Acks(t, DupTcb(told, k))
             /\ DupTcb(told, k).snd_una = t.snd_una /\ DupTcb(told, k).snd_nxt = t.snd_nxt
  <2>1. Work(DupTcb(told, k), p, A, B) /\ Acks(told, DupTcb(told, k)) /\ SameSend(told, DupTcb(told, k))
    BY <1>5, DupWork
  <2>2. Acks(t, DupTcb(told, k))
    BY <1>5, <2>1, AcksTwice
  <2> QED BY <1>5, <2>1, <2>2 DEF SameSend
<1>7. /\ Work(count, p, A, B) /\ Acks(t, count) /\ count.state = t.state
      /\ count.snd_una = t.snd_una /\ count.snd_nxt = t.snd_nxt
  <2>1. count.state = t.state
    BY <1>2, <1>5 DEF count, DupTcb, Tcb
  <2> QED BY <1>3, <1>6, <2>1 DEF count
<1>8. CASE Len(seg.data) > 0
  <2>1. OldAck(t, seg) = told
    BY <1>4, <1>8
  <2> QED BY <1>5, <2>1
<1>9. CASE Len(seg.data) = 0 /\ t.snd_una = t.snd_nxt
  <2>1. OldAck(t, seg) = DupTcb(told, 0)
    BY <1>4, <1>9
  <2> QED BY <1>6, <2>1 DEF DupMax
<1>10. CASE Len(seg.data) = 0 /\ t.snd_una # t.snd_nxt
  <2>0. OldAck(t, seg) =
           CASE t.dup_acks < 2 -> count
             [] t.dup_acks = 2 -> SetCwnd([again EXCEPT !.recover = again.snd_nxt,
                                                        !.ssthresh = HalfFlight(again)],
                                          HalfFlight(again) + 3 * again.mss)
             [] t.dup_acks > 2 -> SetCwnd(count, t.cwnd + t.mss)
    <3>1. ~(Len(seg.data) > 0) /\ ~(t.snd_una = t.snd_nxt)
      BY <1>1, <1>10
    <3> QED BY <1>4, <1>10, <3>1
  <2>1. CASE t.dup_acks < 2
    <3>1. OldAck(t, seg) = count
      <4>1. ~(t.dup_acks = 2) /\ ~(t.dup_acks > 2)
        BY <1>1, <2>1
      <4> QED BY <2>0, <2>1, <4>1
    <3> QED BY <1>7, <3>1
  <2>2. CASE t.dup_acks = 2
    <3> DEFINE h == HalfFlight(again)
               v == TuneTcb(again, again.dup_acks, again.snd_nxt, h, again.cwnd)
               u == SetCwnd(v, h + 3 * again.mss)
    <3>1. Work(again, p, A, B) /\ Acks(count, again)
      BY <1>7, <1>10, RetransmitWork DEF again
    <3>2. again \in Tcb /\ again.snd_nxt \in Nat
      BY <3>1, EndNumbers DEF Work, Pair
    <3>3. again.mss \in Nat \ {0} /\ again.cwnd \in 1..CwndMax /\ again.dup_acks \in 0..DupMax /\ h \in Nat \ {0}
      BY <3>2, WindowNumbers
    <3>4. OldAck(t, seg) = u
      <4>1. OldAck(t, seg) = SetCwnd([again EXCEPT !.recover = again.snd_nxt, !.ssthresh = HalfFlight(again)],
                                     HalfFlight(again) + 3 * again.mss)
        BY <2>0, <2>2
      <4> HIDE DEF h
      <4>2. v = [again EXCEPT !.recover = again.snd_nxt, !.ssthresh = h]
        BY <3>2 DEF TuneTcb, Tcb
      <4> QED BY <4>1, <4>2 DEF h
    <3> HIDE DEF h
    <3>5. Work(v, p, A, B) /\ Acks(again, v) /\ v.state = again.state
      <4>1. again.snd_nxt <= again.snd_nxt
        BY <3>2
      <4>2. Work(v, p, A, B) /\ Acks(again, v)
        BY <3>1, <3>2, <3>3, <4>1, TuneWork
      <4> QED BY <3>2, <4>2 DEF TuneTcb, Tcb
    <3> HIDE DEF v
    <3>6. h + 3 * again.mss \in Nat \ {0}
      BY <3>3
    <3>7. Work(u, p, A, B) /\ Acks(v, u) /\ u.state = v.state
      <4>1. v \in Tcb
        BY <3>5 DEF Work, Pair, End
      <4>2. Work(u, p, A, B) /\ Acks(v, u)
        BY <3>5, <3>6, CwndWork
      <4> QED BY <4>1, <4>2 DEF SetCwnd, Tcb
    <3> HIDE DEF u
    <3>8. Acks(t, again)
      BY <1>7, <1>10, <3>1, AcksTwice
    <3>9. Acks(t, v)
      BY <1>10, <3>5, <3>8, AcksTwice
    <3>10. Acks(t, u)
      BY <1>10, <3>7, <3>9, AcksTwice
    <3> QED BY <3>4, <3>7, <3>10
  <2>3. CASE t.dup_acks > 2
    <3>1. t.cwnd + t.mss \in Nat \ {0}
      <4>1. t.mss \in Nat \ {0} /\ t.cwnd \in 1..CwndMax
        BY <1>0, WindowNumbers
      <4> QED BY <4>1
    <3> DEFINE u == SetCwnd(count, t.cwnd + t.mss)
    <3>2. Work(u, p, A, B) /\ Acks(count, u)
      BY <1>7, <3>1, CwndWork
    <3>3. OldAck(t, seg) = u
      <4>1. ~(t.dup_acks < 2) /\ ~(t.dup_acks = 2)
        BY <1>1, <2>3
      <4> QED BY <2>0, <2>3, <4>1
    <3> HIDE DEF u
    <3>4. Acks(t, u)
      BY <1>7, <1>10, <3>2, AcksTwice
    <3> QED BY <3>2, <3>3, <3>4
  <2> QED BY <1>1, <2>1, <2>2, <2>3 DEF DupMax
<1> QED BY <1>1, <1>8, <1>9, <1>10

\* The acknowledgement of a packet
LEMMA AcknowledgedWork ==
  ASSUME NEW t, NEW p, NEW A, NEW B, Work(t, p, A, B), NoWrap, path \in NoRoute..Mss, NEW seg \in A,
         t.state # "CLOSED"
  PROVE  Work(Acknowledged(t, seg), p, A, B) /\ Acks(t, Acknowledged(t, seg))
<1>1. CASE Valuable(t, seg)
  <2>1. Acknowledged(t, seg) = NewAck(t, seg)
    BY <1>1 DEF Acknowledged
  <2> QED BY <1>1, <2>1, NewAckWork
<1>2. CASE ~Valuable(t, seg) /\ seg.ack = t.snd_una
  <2>1. Acknowledged(t, seg) = OldAck(t, seg)
    BY <1>2 DEF Acknowledged
  <2> QED BY <1>2, <2>1, OldAckWork
<1>3. CASE ~Valuable(t, seg) /\ seg.ack # t.snd_una
  <2>1. Acknowledged(t, seg) = t
    BY <1>3 DEF Acknowledged
  <2> QED BY <2>1 DEF Acks, SameRecv
<1> QED BY <1>1, <1>2, <1>3

-----------------------------------------------------------------------------
(* Receiving.                                                              *)

\* The events of the users who send and who read
OfferTcb(t, a, b) == [t EXCEPT !.bWriteEnable = a, !.writable = b]
TellTcb(t, a, b) == [t EXCEPT !.bReadEnable = a, !.readable = b]

\* What they leave alone
EventOf(t, u) == SameBuffers(t, u) /\ u.rto = t.rto /\ u.state = t.state /\ u.deleted = t.deleted

\* An offer to the user who sends
LEMMA OfferRecord ==
  ASSUME NEW t \in Tcb, NEW a \in BOOLEAN, NEW b \in BOOLEAN
  PROVE  OfferTcb(t, a, b) \in Tcb /\ EventOf(t, OfferTcb(t, a, b))
<1>1. OfferTcb(t, a, b) \in Tcb
  BY DEF OfferTcb, Tcb
<1>2. EventOf(t, OfferTcb(t, a, b))
  BY DEF OfferTcb, Tcb, EventOf, SameBuffers, SameSend, SameRecv
<1> QED BY <1>1, <1>2

\* A word to the user who reads
LEMMA TellRecord ==
  ASSUME NEW t \in Tcb, NEW a \in BOOLEAN, NEW b \in BOOLEAN
  PROVE  TellTcb(t, a, b) \in Tcb /\ EventOf(t, TellTcb(t, a, b))
<1>1. TellTcb(t, a, b) \in Tcb
  BY DEF TellTcb, Tcb
<1>2. EventOf(t, TellTcb(t, a, b))
  BY DEF TellTcb, Tcb, EventOf, SameBuffers, SameSend, SameRecv
<1> QED BY <1>1, <1>2

\* Telling a user
LEMMA EventWork ==
  ASSUME NEW t, NEW u, NEW p, NEW A, NEW B, Work(t, p, A, B), u \in Tcb, EventOf(t, u)
  PROVE  Work(u, p, A, B) /\ SameBuffers(t, u) /\ u.state = t.state
<1>1. SameBuffers(t, u) /\ u.rto = t.rto /\ u.state = t.state
  BY DEF EventOf
<1>2. CASE t.state = "CLOSED"
  <2>1. Timed(u)
    <3>1. t.recover <= t.snd_nxt
      BY DEF Work, Pair, End, Timed
    <3> QED BY <1>1, <1>2, <3>1 DEF Timed, SameBuffers, SameSend
  <2> QED BY <1>1, <2>1, WorkSame DEF SameBuffers
<1>3. CASE t.state # "CLOSED"
  BY <1>1, <1>3, QuietWork
<1> QED BY <1>1, <1>2, <1>3

\* The end of the handshake at the server, and a send buffer that has room again
LEMMA NotifyWork ==
  ASSUME NEW t, NEW p, NEW A, NEW B, Work(t, p, A, B), NEW seg, t.state # "CLOSED"
  PROVE  /\ Work(Notify(t, seg), p, A, B) /\ SameBuffers(t, Notify(t, seg))
         /\ \/ Notify(t, seg).state = t.state
            \/ t.state = "SYN_RECEIVED" /\ Notify(t, seg).state = "ESTABLISHED"
<1> DEFINE o == IF t.state = "SYN_RECEIVED" /\ ~seg.ctrl THEN Open(t) ELSE t
           u == OfferTcb(o, FALSE, TRUE)
<1>1. /\ Work(o, p, A, B) /\ SameBuffers(t, o)
      /\ o.state = t.state \/ (t.state = "SYN_RECEIVED" /\ o.state = "ESTABLISHED")
  <2>1. CASE t.state = "SYN_RECEIVED" /\ ~seg.ctrl
    <3>1. o = Open(t)
      BY <2>1
    <3> HIDE DEF o
    <3> QED BY <2>1, <3>1, OpenWork
  <2>2. CASE ~(t.state = "SYN_RECEIVED" /\ ~seg.ctrl)
    <3>1. o = t
      BY <2>2
    <3> HIDE DEF o
    <3> QED BY <3>1 DEF SameBuffers, SameSend, SameRecv
  <2> QED BY <2>1, <2>2
<1>2. \/ Notify(t, seg) = o
      \/ Notify(t, seg) = [o EXCEPT !.bWriteEnable = FALSE, !.writable = TRUE]
  BY DEF Notify
<1> HIDE DEF o
<1>3. o \in Tcb
  BY <1>1 DEF Work, Pair, End
<1>4. [o EXCEPT !.bWriteEnable = FALSE, !.writable = TRUE] = u
  BY DEF OfferTcb
<1>5. Work(u, p, A, B) /\ SameBuffers(o, u) /\ u.state = o.state
  <2>1. u \in Tcb /\ EventOf(o, u)
    BY <1>3, OfferRecord
  <2> HIDE DEF u
  <2> QED BY <1>1, <2>1, EventWork
<1> HIDE DEF u
<1>6. SameBuffers(t, u)
  BY <1>1, <1>5 DEF SameBuffers, SameSend, SameRecv
<1> QED BY <1>1, <1>2, <1>4, <1>5, <1>6

\* Telling the user of fresh bytes
LEMMA ReadableWork ==
  ASSUME NEW t, NEW p, NEW A, NEW B, Work(t, p, A, B), NEW fresh
  PROVE  /\ Work(Readable(t, fresh), p, A, B) /\ SameBuffers(t, Readable(t, fresh))
         /\ Readable(t, fresh).state = t.state
<1> DEFINE u == TellTcb(t, FALSE, TRUE)
<1>1. t \in Tcb
  BY DEF Work, Pair, End
<1>4. Readable(t, fresh) = t \/ Readable(t, fresh) = u
  BY DEF Readable, TellTcb
<1>5. Work(u, p, A, B) /\ SameBuffers(t, u) /\ u.state = t.state
  <2>1. u \in Tcb /\ EventOf(t, u)
    BY <1>1, TellRecord
  <2> HIDE DEF u
  <2> QED BY <2>1, EventWork
<1>6. SameBuffers(t, t)
  BY DEF SameBuffers, SameSend, SameRecv
<1> HIDE DEF u
<1> QED BY <1>4, <1>5, <1>6

\* What process makes of the data of a packet: nothing of it is beyond the window, and what
\* was received before is cut off.
Fits(f, t, seg) ==
  /\ f.seq \in Nat /\ f.data \in Seq(Nat)
  /\ f.data # <<>> => /\ t.rcv_nxt <= f.seq /\ f.seq + Len(f.data) = seg.seq + Len(seg.data)
                      /\ Numbered(f.data, f.seq) /\ seg.data # <<>>
  /\ t.rcv_nxt <= seg.seq => Len(f.data) = Len(seg.data)

\* The part of a packet the receiver takes
LEMMA FitShape ==
  ASSUME NEW t, NEW p, Flow(p, t), End(t), End(p), NEW seg, PacketOK(seg, p, t), NoWrap
  PROVE  Fits(Fit(t, seg), t, seg)
<1>1. /\ seg.seq \in Nat /\ seg.seq < SeqSpace /\ seg.data \in Seq(Nat) /\ Len(seg.data) \in Nat
      /\ Numbered(seg.data, seg.seq)
  <2>1. seg \in PacketRecord /\ seg.seq < SeqSpace /\ Numbered(seg.data, seg.seq)
    BY DEF PacketOK
  <2>2. seg.seq \in Nat /\ seg.data \in Seq(Nat)
    BY <2>1 DEF PacketRecord
  <2> QED BY <2>1, <2>2
<1> PICK L \in Nat : L = Len(seg.data)
  BY <1>1
<1> PICK q \in Nat : q = seg.seq
  BY <1>1
<1>2. t.rcv_nxt \in Nat /\ t.rcv_wnd \in Nat /\ Edge(t) = t.rcv_nxt + t.rcv_wnd /\ Room(t) \in Int
      /\ t.rcv_wnd <= Room(t)
  BY EndNumbers DEF End, Receiver
<1> PICK x \in Nat : x = t.rcv_nxt
  BY <1>2
<1>3. L > 0 => q + L <= x + t.rcv_wnd /\ q + L < SeqSpace
  <2> SUFFICES ASSUME L > 0
               PROVE  q + L <= x + t.rcv_wnd /\ q + L < SeqSpace
    OBVIOUS
  <2>1. seg.data # <<>>
    BY <1>1
  <2>2. q + L <= p.snd_nxt
    BY <2>1 DEF PacketOK, Mark
  <2>3. /\ p.snd_nxt \in Nat /\ Total(p) \in Nat /\ p.snd_nxt <= Total(p) /\ Total(p) < SeqSpace
        /\ p.snd_nxt <= Edge(t)
    BY EndNumbers DEF Flow
  <2>4. q + L < SeqSpace
    BY <2>2, <2>3, Sizes
  <2>5. q + L <= x + t.rcv_wnd
    BY <1>2, <2>2, <2>3, SMTT(30)
  <2> QED BY <2>4, <2>5
<1> DEFINE old == IF q < x THEN Lesser(x - q, L) ELSE 0
           start == IF old < L THEN Add(q, old) ELSE q
           left == L - old
           end == Sub(Add(start, left), x)
           over == IF end > Room(t) THEN Lesser(end - Room(t), left) ELSE 0
<1>4. Fit(t, seg) = [seq |-> start, data |-> SubSeq(seg.data, old + 1, L - over)]
  BY DEF Fit
<1>5. old \in Nat /\ old <= L /\ (x <= q => old = 0) /\ (old < L => x <= q + old)
  BY DEF Lesser
<1> HIDE DEF old
<1>6. left \in Nat
  BY <1>5
<1>7. old < L => start = q + old /\ over = 0
  <2> SUFFICES ASSUME old < L
               PROVE  start = q + old /\ over = 0
    OBVIOUS
  <2>1. q + L <= x + t.rcv_wnd /\ q + L < SeqSpace
    BY <1>3, <1>5
  <2>2. q + old \in Nat /\ q + old < SeqSpace
    BY <1>5, <2>1, Sizes
  <2>3. start = q + old
    BY <1>5, <2>2, SmallNumbers
  <2>4. (q + old) + left = q + L
    BY <1>5
  <2>5. Add(start, left) = q + L
    <3> HIDE DEF left, start
    <3>1. (q + old) + left < SeqSpace
      BY <2>1, <2>4
    <3>2. Add(q + old, left) = (q + old) + left
      BY <1>6, <2>2, <3>1, SmallNumbers
    <3> QED BY <2>3, <2>4, <3>2
  <2>6. x <= q + L
    BY <1>5
  <2>7. end = (q + L) - x
    <3>1. q + L \in Nat
      OBVIOUS
    <3>2. Sub(q + L, x) = (q + L) - x
      BY <2>1, <2>6, <3>1, SmallNumbers
    <3> HIDE DEF left, start
    <3> QED BY <2>5, <3>2
  <2>8. (q + L) - x <= t.rcv_wnd
    BY <1>2, <2>1, SMTT(30)
  <2>9. ~(end > Room(t))
    BY <1>2, <2>7, <2>8, SMTT(30)
  <2> QED BY <2>3, <2>9
<1>8. old = L => start = q /\ over = 0
  <2> SUFFICES ASSUME old = L
               PROVE  start = q /\ over = 0
    OBVIOUS
  <2>1. start = q /\ left = 0
    OBVIOUS
  <2>2. end \in Int
    <3>0. start \in Int /\ left \in Int
      BY <2>1
    <3> HIDE DEF start, left
    <3>1. Add(start, left) \in 0..SeqSpace - 1
      BY <3>0, SmallNumbers
    <3>2. Add(start, left) \in Int /\ x \in Int
      BY <3>1
    <3>3. end \in 0..SeqSpace - 1
      BY <3>2, SmallNumbers
    <3> QED BY <3>3
  <2>3. over = 0
    <3> HIDE DEF end
    <3> QED BY <1>2, <2>1, <2>2 DEF Lesser
  <2> QED BY <2>1, <2>3
<1> HIDE DEF start, left, over
<1> DEFINE f == Fit(t, seg)
           d == SubSeq(seg.data, old + 1, L)
<1>9. over = 0 /\ start \in Nat
  <2>1. old < L \/ old = L
    BY <1>5
  <2> QED BY <1>5, <1>7, <1>8, <2>1
<1>10. f.seq = start /\ f.data = d
  <2>1. L - over = L
    BY <1>9
  <2>2. f = [seq |-> start, data |-> d]
    BY <1>4, <2>1
  <2> HIDE DEF d, f
  <2> QED BY <2>2
<1>11. d \in Seq(Nat) /\ Len(d) = L - old /\ \A i \in 1..(L - old) : d[i] = seg.data[i + old]
  <2>1. d \in Seq(Nat) /\ DropOf(d, seg.data, old)
    BY <1>1, <1>5, Dropped
  <2> HIDE DEF d
  <2> QED BY <2>1 DEF DropOf
<1> HIDE DEF f, d
<1>12. ASSUME d # <<>>
       PROVE  x <= start /\ start + Len(d) = q + L /\ Numbered(d, start) /\ seg.data # <<>>
  <2>1. old < L
    <3>1. Len(d) # 0
      BY <1>11, <1>12
    <3> QED BY <1>5, <1>11, <3>1
  <2>2. start = q + old
    BY <1>7, <2>1
  <2>3. x <= start
    BY <1>5, <2>1, <2>2
  <2>4. (q + old) + (L - old) = q + L
    <3>1. old \in Int
      BY <1>5
    <3> QED BY <3>1
  <2>5. Numbered(d, start)
    <3> SUFFICES ASSUME NEW i \in 1..(L - old)
                 PROVE  d[i] = (q + old) + i - 1
      BY <1>11, <2>2 DEF Numbered
    <3>1. i + old \in 1..L
      BY <1>5
    <3>2. seg.data[i + old] = q + (i + old) - 1
      BY <1>1, <3>1 DEF Numbered
    <3>3. q + (i + old) - 1 = (q + old) + i - 1
      BY <1>5
    <3> QED BY <1>11, <3>2, <3>3
  <2>6. seg.data # <<>>
    <3>1. L # 0
      BY <1>5, <2>1
    <3> QED BY <1>1, <3>1
  <2> QED BY <1>11, <2>2, <2>3, <2>4, <2>5, <2>6
<1>13. x <= q => Len(d) = L
  BY <1>5, <1>11
<1> QED BY <1>9, <1>10, <1>11, <1>12, <1>13 DEF Fits, f

\* An end with another receive side
RecvTcb(t, rl, rb, ah, nx, wn) ==
  [t EXCEPT !.rlist = rl, !.rbuf = rb, !.ahead = ah, !.rcv_nxt = nx, !.rcv_wnd = wn]

\* All but the receive side is as before.
RestKept(t, u) == SameSend(t, u) /\ SameMode(t, u) /\ SameRest(t, u) /\ u.out = t.out

\* An end with the same send side and these fields of the other
RecvFields(t, u, rl, rb, ah, nx, wn) ==
  /\ u \in Tcb /\ RestKept(t, u)
  /\ u.rlist = rl /\ u.rbuf = rb /\ u.ahead = ah /\ u.rcv_nxt = nx /\ u.rcv_wnd = wn

\* What receiving leaves alone
LEMMA RecvRecord ==
  ASSUME NEW t \in Tcb, NEW rl \in Seq(SavedRecord), NEW rb \in Seq(Nat), NEW ah \in [0..RBufLen - 1 -> Int],
         NEW nx \in Nat, NEW wn \in Nat
  PROVE  RecvFields(t, RecvTcb(t, rl, rb, ah, nx, wn), rl, rb, ah, nx, wn)
BY DEF RecvTcb, Tcb, RecvFields, RestKept, SameSend, SameMode, SameRest

\* A receiver that takes nothing back
LEMMA RecvWork ==
  ASSUME NEW t, NEW u, NEW p, NEW A, NEW B, Work(t, p, A, B), u \in Tcb, RestKept(t, u),
         Receiver(u), Flow(p, u), t.rcv_nxt <= u.rcv_nxt, Edge(t) <= Edge(u)
  PROVE  Work(u, p, A, B)
<1>1. End(t) /\ Pair(t, p, A, B \cup Held(t.out))
  BY DEF Work, Pair
<1>2. SameSend(t, u) /\ SameMode(t, u) /\ SameRest(t, u) /\ u.out = t.out
  BY DEF RestKept
<1>3. Sender(u)
  <2>1. Sender(t)
    BY <1>1 DEF End
  <2>2. Total(u) = Total(t) /\ u.snd_nxt = t.snd_nxt /\ u.slist = t.slist /\ u.sbuf = t.sbuf /\ u.snd_una = t.snd_una
    BY <1>2 DEF SameSend, Total
  <2> QED BY <2>1, <2>2 DEF Sender, Mark
<1>4. Timed(u)
  <2>1. Timed(t)
    BY <1>1 DEF End
  <2> QED BY <1>2, <2>1 DEF Timed, SameSend, SameMode, SameRest
<1>5. End(u)
  BY <1>3, <1>4 DEF End
<1>6. Pair(u, p, A, B \cup Held(t.out))
  BY <1>1, <1>2, <1>5, PairRecv
<1> QED BY <1>2, <1>6 DEF Work

\* What more was received, and the first byte in the buffer stays
Receives(t, u) ==
  /\ RestKept(t, u) /\ t.rcv_nxt <= u.rcv_nxt
  /\ u.rcv_nxt - Len(u.rbuf) = t.rcv_nxt - Len(t.rbuf)

\* Two such steps
LEMMA ReceivesTwice ==
  ASSUME NEW t, NEW u, NEW v, Receives(t, u), Receives(u, v),
         t.rcv_nxt \in Nat, u.rcv_nxt \in Nat, v.rcv_nxt \in Nat
  PROVE  Receives(t, v)
<1>1. RestKept(t, v)
  BY DEF Receives, RestKept, SameSend, SameMode, SameRest
<1>2. t.rcv_nxt <= v.rcv_nxt
  BY DEF Receives
<1>3. v.rcv_nxt - Len(v.rbuf) = t.rcv_nxt - Len(t.rbuf)
  BY DEF Receives
<1> QED BY <1>1, <1>2, <1>3 DEF Receives

\* The index among bytes from a on of the one that is i after x
Place(i, a, x) == i - (a - x) + 1

\* The places of n bytes
LEMMA PlaceFacts ==
  ASSUME NEW i \in Int, NEW a \in Int, NEW x \in Int, NEW n \in Int
  PROVE  /\ Place(i, a, x) \in 1..n <=> a <= x + i /\ x + i < a + n
         /\ a + Place(i, a, x) - 1 = x + i
<1>1. a + Place(i, a, x) - 1 = x + i
  BY DEF Place
<1>2. Place(i, a, x) \in Int
  BY DEF Place
<1> QED BY <1>1, <1>2

\* The bytes ahead after another part was written
Patched(t, data, a) ==
  [i \in 0..RBufLen - 1 |-> IF Place(i, a, t.rcv_nxt) \in 1..Len(data) /\ i < Room(t)
                            THEN data[Place(i, a, t.rcv_nxt)] ELSE t.ahead[i]]

\* Only the bytes ahead differ, and those from a to b are there.
Filled(t, u, a, b) ==
  /\ RestKept(t, u) /\ u.rlist = t.rlist /\ u.rbuf = t.rbuf /\ u.rcv_nxt = t.rcv_nxt /\ u.rcv_wnd = t.rcv_wnd
  /\ Covered(u.ahead, u.rcv_nxt, a, b)

\* Data within the window is written to its place.
LEMMA WriteOffsetWork ==
  ASSUME NEW t, NEW p, NEW A, NEW B, Work(t, p, A, B), NoWrap, t.rcv_nxt > 0,
         NEW data \in Seq(Nat), NEW a \in Nat, t.rcv_nxt <= a, Numbered(data, a),
         a + Len(data) <= Edge(t), a + Len(data) <= FileLen + 1, a < SeqSpace
  PROVE  LET u == WriteOffset(t, data, Sub(a, t.rcv_nxt))
         IN Work(u, p, A, B) /\ Filled(t, u, a, a + Len(data))
<1>1. End(t) /\ Receiver(t) /\ Flow(p, t)
  BY DEF Work, Pair, End
<1>2. /\ t \in Tcb /\ t.rcv_nxt \in Nat /\ t.rcv_wnd \in Nat /\ Edge(t) = t.rcv_nxt + t.rcv_wnd
      /\ Room(t) \in Int /\ t.rcv_wnd <= Room(t)
  BY <1>1, EndNumbers DEF Receiver
<1>3. /\ t.ahead \in [0..RBufLen - 1 -> Int] /\ t.rlist \in Seq(SavedRecord) /\ t.rbuf \in Seq(Nat)
  BY <1>2 DEF Tcb
<1> PICK x \in Nat : x = t.rcv_nxt
  BY <1>2
<1> PICK n \in Nat : n = Len(data)
  OBVIOUS
<1>4. Sub(a, t.rcv_nxt) = a - t.rcv_nxt
  BY <1>2, SmallNumbers
<1> DEFINE h == Patched(t, data, a)
           u == RecvTcb(t, t.rlist, t.rbuf, h, t.rcv_nxt, t.rcv_wnd)
<1>5. WriteOffset(t, data, a - t.rcv_nxt) = u
  <2>1. DOMAIN t.ahead = 0..RBufLen - 1 /\ DOMAIN data = 1..Len(data)
    BY <1>3
  <2>2. WriteOffset(t, data, a - t.rcv_nxt) = [t EXCEPT !.ahead = h]
    BY <2>1 DEF WriteOffset, Patched, Place
  <2> HIDE DEF h
  <2> QED BY <1>2, <2>2 DEF RecvTcb, Tcb
<1>s. \A i \in 0..RBufLen - 1 :
        /\ Place(i, a, x) \in 1..n => data[Place(i, a, x)] = x + i
        /\ Place(i, a, x) \in 1..n <=> a <= x + i /\ x + i < a + n
  <2> SUFFICES ASSUME NEW i \in 0..RBufLen - 1
               PROVE  /\ Place(i, a, x) \in 1..n => data[Place(i, a, x)] = x + i
                      /\ Place(i, a, x) \in 1..n <=> a <= x + i /\ x + i < a + n
    OBVIOUS
  <2>1. Place(i, a, x) \in 1..n => data[Place(i, a, x)] = a + Place(i, a, x) - 1
    BY DEF Numbered
  <2>2. i \in Int /\ a \in Int /\ x \in Int /\ n \in Int
    OBVIOUS
  <2>3. /\ Place(i, a, x) \in 1..n <=> a <= x + i /\ x + i < a + n
        /\ a + Place(i, a, x) - 1 = x + i
    BY <2>2, PlaceFacts, ZenonT(60)
  <2> QED BY <2>1, <2>3
<1>6. \A i \in 0..RBufLen - 1 : h[i] = t.ahead[i] \/ (h[i] = x + i /\ x + i < a + n)
  <2> SUFFICES ASSUME NEW i \in 0..RBufLen - 1
               PROVE  h[i] = t.ahead[i] \/ (h[i] = x + i /\ x + i < a + n)
    OBVIOUS
  <2>1. CASE Place(i, a, x) \in 1..Len(data) /\ i < Room(t)
    <3>1. h[i] = data[Place(i, a, x)]
      BY <2>1 DEF Patched
    <3> QED BY <1>s, <2>1, <3>1
  <2>2. CASE ~(Place(i, a, x) \in 1..Len(data) /\ i < Room(t))
    BY <2>2 DEF Patched
  <2> QED BY <2>1, <2>2
<1>7. \A i \in 0..RBufLen - 1 : a <= x + i /\ x + i < a + n => h[i] = x + i
  <2> SUFFICES ASSUME NEW i \in 0..RBufLen - 1, a <= x + i, x + i < a + n
               PROVE  h[i] = x + i
    OBVIOUS
  <2>1. Place(i, a, x) \in 1..Len(data)
    BY <1>s
  <2>2. i < Room(t)
    BY <1>2
  <2>3. h[i] = data[Place(i, a, x)]
    BY <2>1, <2>2 DEF Patched
  <2> QED BY <1>s, <2>1, <2>3
<1>8. h \in [0..RBufLen - 1 -> Int] /\ \A i \in 0..RBufLen - 1 : h[i] \in Int
  <2>1. \A i \in 0..RBufLen - 1 : h[i] \in Int
    <3> SUFFICES ASSUME NEW i \in 0..RBufLen - 1
                 PROVE  h[i] \in Int
      OBVIOUS
    <3> HIDE DEF h
    <3>1. t.ahead[i] \in Int
      BY <1>3
    <3>2. x + i \in Int
      OBVIOUS
    <3> QED BY <1>6, <3>1, <3>2
  <2>2. h = [i \in 0..RBufLen - 1 |-> h[i]]
    BY DEF Patched
  <2> HIDE DEF h
  <2> QED BY <2>1, <2>2
<1> HIDE DEF h
<1>9. /\ u \in Tcb /\ RestKept(t, u) /\ u.rlist = t.rlist /\ u.rbuf = t.rbuf /\ u.ahead = h
      /\ u.rcv_nxt = t.rcv_nxt /\ u.rcv_wnd = t.rcv_wnd
  <2>1. /\ t \in Tcb /\ t.rlist \in Seq(SavedRecord) /\ t.rbuf \in Seq(Nat) /\ h \in [0..RBufLen - 1 -> Int]
        /\ t.rcv_nxt \in Nat /\ t.rcv_wnd \in Nat
    BY <1>2, <1>3, <1>8
  <2>2. RecvFields(t, u, t.rlist, t.rbuf, h, t.rcv_nxt, t.rcv_wnd)
    BY <2>1, RecvRecord
  <2> HIDE DEF u
  <2> QED BY <2>2 DEF RecvFields
<1> HIDE DEF u
<1>10. Edge(u) = Edge(t) /\ Room(u) = Room(t)
  BY <1>9 DEF Edge, Room
<1>11. \A i \in 0..RBufLen - 1 : t.ahead[i] \in {Hole, x + i} /\ t.ahead[i] <= FileLen
  BY <1>1 DEF Receiver
<1>12. \A i \in 0..RBufLen - 1 : h[i] \in {Hole, x + i} /\ h[i] <= FileLen
  <2> SUFFICES ASSUME NEW i \in 0..RBufLen - 1
               PROVE  h[i] \in {Hole, x + i} /\ h[i] <= FileLen
    OBVIOUS
  <2>1. CASE h[i] = t.ahead[i]
    BY <1>11, <2>1
  <2>2. CASE h[i] = x + i /\ x + i < a + n
    BY <2>2, Sizes
  <2> QED BY <1>6, <2>1, <2>2
<1>13. \A i \in 0..RBufLen - 1 : t.ahead[i] # Hole => h[i] # Hole
  <2> SUFFICES ASSUME NEW i \in 0..RBufLen - 1, t.ahead[i] # Hole
               PROVE  h[i] # Hole
    OBVIOUS
  <2>1. x + i # Hole
    BY DEF Hole
  <2> QED BY <1>6, <2>1
<1>14. \A j \in 1..Len(t.rlist) :
         /\ t.rlist[j].seq + t.rlist[j].len <= Edge(u)
         /\ Covered(u.ahead, u.rcv_nxt, t.rlist[j].seq, t.rlist[j].seq + t.rlist[j].len)
  BY <1>1, <1>9, <1>10, <1>13 DEF Receiver, Covered
<1>15. Receiver(u)
  <2>1. t.rcv_wnd <= Room(t) /\ Edge(t) >= 1 /\ (t.rbuf # <<>> => Len(t.rbuf) < t.rcv_nxt)
        /\ Numbered(t.rbuf, t.rcv_nxt - Len(t.rbuf))
    BY <1>1 DEF Receiver
  <2>2. u.rcv_nxt # 0
    BY <1>2, <1>9
  <2> QED BY <1>9, <1>10, <1>12, <1>14, <2>1, <2>2 DEF Receiver
<1>16. Flow(p, u)
  BY <1>1, <1>9, <1>10 DEF Flow
<1>17. Work(u, p, A, B)
  BY <1>2, <1>9, <1>10, <1>15, <1>16, RecvWork
<1>18. Covered(u.ahead, u.rcv_nxt, a, a + n)
  <2> SUFFICES ASSUME NEW i \in 0..RBufLen - 1, a <= x + i, x + i < a + n
               PROVE  h[i] # Hole
    BY <1>9 DEF Covered
  <2> QED BY <1>7 DEF Hole
<1> QED BY <1>4, <1>5, <1>9, <1>17, <1>18 DEF Filled

\* Bytes behind bytes
LEMMA ConcatNumbered ==
  ASSUME NEW b \in Seq(Nat), NEW c \in Seq(Nat), NEW z \in Int, Numbered(b, z), Numbered(c, z + Len(b))
  PROVE  Numbered(b \o c, z) /\ Len(b \o c) = Len(b) + Len(c) /\ b \o c \in Seq(Nat)
<1>0. Len(b) \in Nat /\ Len(c) \in Nat
  OBVIOUS
<1>1. /\ b \o c \in Seq(Nat) /\ Len(b \o c) = Len(b) + Len(c)
      /\ \A j \in 1..Len(b) + Len(c) : (b \o c)[j] = IF j <= Len(b) THEN b[j] ELSE c[j - Len(b)]
  BY ConcatProperties
<1>2. ASSUME NEW j \in 1..Len(b) + Len(c)
      PROVE  (b \o c)[j] = z + j - 1
  <2>1. CASE j <= Len(b)
    <3>1. j \in 1..Len(b)
      BY <1>0, <2>1
    <3>2. b[j] = z + j - 1
      BY <3>1 DEF Numbered
    <3> QED BY <1>1, <2>1, <3>2
  <2>2. CASE ~(j <= Len(b))
    <3>1. j - Len(b) \in 1..Len(c)
      BY <1>0, <2>2
    <3>2. c[j - Len(b)] = (z + Len(b)) + (j - Len(b)) - 1
      BY <3>1 DEF Numbered
    <3>3. (z + Len(b)) + (j - Len(b)) - 1 = z + j - 1
      BY <1>0
    <3> QED BY <1>1, <2>2, <3>2, <3>3
  <2> QED BY <2>1, <2>2
<1> QED BY <1>1, <1>2 DEF Numbered

\* The bytes that come next, and those ahead of them
FrontOf(t, n) == [i \in 1..n |-> t.ahead[i - 1]]
Behind(t, n) == [i \in 0..RBufLen - 1 |-> IF i + n \in 0..RBufLen - 1 THEN t.ahead[i + n] ELSE Hole]

\* n bytes more are in order.
Advanced(t, u, n) ==
  /\ RestKept(t, u) /\ u.rlist = t.rlist /\ u.rcv_nxt = t.rcv_nxt + n /\ u.rcv_wnd = t.rcv_wnd - n
  /\ u.rbuf = t.rbuf \o FrontOf(t, n) /\ Len(u.rbuf) = Len(t.rbuf) + n /\ u.ahead = Behind(t, n)

\* The bytes that come next
LEMMA FrontBytes ==
  ASSUME NEW t, End(t), NEW n \in Nat, t.rcv_nxt + n <= Edge(t),
         Covered(t.ahead, t.rcv_nxt, t.rcv_nxt, t.rcv_nxt + n)
  PROVE  FrontOf(t, n) \in Seq(Nat) /\ Len(FrontOf(t, n)) = n /\ Numbered(FrontOf(t, n), t.rcv_nxt)
         /\ n <= t.rcv_wnd /\ n <= RBufLen
<1>1. /\ t \in Tcb /\ t.rcv_nxt \in Nat /\ t.rcv_wnd \in Nat /\ Edge(t) = t.rcv_nxt + t.rcv_wnd
      /\ Room(t) \in Int /\ t.rcv_wnd <= Room(t) /\ Len(t.rbuf) \in Nat
  BY EndNumbers DEF End, Receiver
<1>2. n <= t.rcv_wnd
  BY <1>1
<1>3. t.rcv_wnd <= RBufLen
  BY <1>1, Sizes DEF Room
<1>4. n <= RBufLen
  BY <1>1, <1>2, <1>3, Sizes
<1>5. ASSUME NEW i \in 1..n
      PROVE  t.ahead[i - 1] = t.rcv_nxt + i - 1 /\ t.rcv_nxt + i - 1 \in Nat
  <2>1. i - 1 \in 0..RBufLen - 1
    BY <1>4, Sizes
  <2>2. t.rcv_nxt <= t.rcv_nxt + (i - 1) /\ t.rcv_nxt + (i - 1) < t.rcv_nxt + n
    BY <1>1
  <2>3. t.ahead[i - 1] # Hole
    BY <2>1, <2>2 DEF Covered
  <2>4. t.ahead[i - 1] \in {Hole, t.rcv_nxt + (i - 1)}
    BY <2>1 DEF End, Receiver
  <2>5. t.rcv_nxt + (i - 1) = t.rcv_nxt + i - 1
    BY <1>1
  <2>6. t.rcv_nxt + i - 1 \in Nat
    BY <1>1
  <2> QED BY <2>3, <2>4, <2>5, <2>6
<1>6. FrontOf(t, n) \in Seq(Nat) /\ Len(FrontOf(t, n)) = n /\ \A i \in 1..n : FrontOf(t, n)[i] = t.ahead[i - 1]
  BY <1>5 DEF FrontOf
<1>7. Numbered(FrontOf(t, n), t.rcv_nxt)
  BY <1>5, <1>6 DEF Numbered
<1> QED BY <1>2, <1>4, <1>6, <1>7

\* The bytes ahead of those
LEMMA BehindBytes ==
  ASSUME NEW t, End(t), NEW n \in Nat
  PROVE  /\ Behind(t, n) \in [0..RBufLen - 1 -> Int]
         /\ \A i \in 0..RBufLen - 1 : /\ Behind(t, n)[i] \in {Hole, (t.rcv_nxt + n) + i}
                                      /\ Behind(t, n)[i] <= FileLen
         /\ \A a, b \in Nat : b <= Edge(t) /\ Covered(t.ahead, t.rcv_nxt, a, b)
                                => Covered(Behind(t, n), t.rcv_nxt + n, a, b)
<1>1. /\ t \in Tcb /\ t.rcv_nxt \in Nat /\ t.rcv_wnd \in Nat /\ Edge(t) = t.rcv_nxt + t.rcv_wnd
      /\ Room(t) \in Int /\ t.rcv_wnd <= Room(t) /\ Len(t.rbuf) \in Nat
  BY EndNumbers DEF End, Receiver
<1>2. t.ahead \in [0..RBufLen - 1 -> Int]
  BY <1>1 DEF Tcb
<1>3. t.rcv_wnd <= RBufLen
  BY <1>1, Sizes DEF Room
<1>4. \A i \in 0..RBufLen - 1 : t.ahead[i] \in {Hole, t.rcv_nxt + i} /\ t.ahead[i] <= FileLen
  BY DEF End, Receiver
<1>5. ASSUME NEW i \in 0..RBufLen - 1
      PROVE  /\ Behind(t, n)[i] \in {Hole, (t.rcv_nxt + n) + i} /\ Behind(t, n)[i] <= FileLen
             /\ Behind(t, n)[i] \in Int
  <2>1. CASE i + n \in 0..RBufLen - 1
    <3>1. Behind(t, n)[i] = t.ahead[i + n]
      BY <2>1 DEF Behind
    <3>2. t.ahead[i + n] \in {Hole, t.rcv_nxt + (i + n)} /\ t.ahead[i + n] <= FileLen /\ t.ahead[i + n] \in Int
      BY <1>2, <1>4, <2>1
    <3>3. t.rcv_nxt + (i + n) = (t.rcv_nxt + n) + i
      BY <1>1
    <3> QED BY <3>1, <3>2, <3>3
  <2>2. CASE i + n \notin 0..RBufLen - 1
    <3>1. Behind(t, n)[i] = Hole
      BY <2>2 DEF Behind
    <3> QED BY <3>1, Sizes DEF Hole
  <2> QED BY <2>1, <2>2
<1>6. Behind(t, n) \in [0..RBufLen - 1 -> Int]
  <2>1. Behind(t, n) = [i \in 0..RBufLen - 1 |-> Behind(t, n)[i]]
    BY DEF Behind
  <2> QED BY <1>5, <2>1
<1>7. ASSUME NEW a \in Nat, NEW b \in Nat, b <= Edge(t), Covered(t.ahead, t.rcv_nxt, a, b)
      PROVE  Covered(Behind(t, n), t.rcv_nxt + n, a, b)
  <2> SUFFICES ASSUME NEW i \in 0..RBufLen - 1, a <= (t.rcv_nxt + n) + i, (t.rcv_nxt + n) + i < b
               PROVE  Behind(t, n)[i] # Hole
    BY DEF Covered
  <2>1. (t.rcv_nxt + n) + i = t.rcv_nxt + (i + n)
    BY <1>1
  <2>2. i + n \in 0..RBufLen - 1
    <3>1. t.rcv_nxt + (i + n) < t.rcv_nxt + t.rcv_wnd
      BY <1>1, <1>7, <2>1
    <3>2. i + n < t.rcv_wnd
      BY <1>1, <3>1
    <3> QED BY <1>1, <1>3, <3>2, Sizes
  <2>3. t.ahead[i + n] # Hole
    BY <1>7, <2>1, <2>2 DEF Covered
  <2> QED BY <2>2, <2>3 DEF Behind
<1> QED BY <1>5, <1>6, <1>7

\* An end whose buffers and then whose numbers were changed
ConsumedTcb(t, b, h, x, w) == [[t EXCEPT !.rbuf = b, !.ahead = h] EXCEPT !.rcv_nxt = x, !.rcv_wnd = w]

\* Two changes of the receive side
LEMMA RecvTwice ==
  ASSUME NEW t \in Tcb, NEW b, NEW h, NEW x, NEW w
  PROVE  ConsumedTcb(t, b, h, x, w) = RecvTcb(t, t.rlist, b, h, x, w)
<1>1. [[t EXCEPT !.rbuf = b, !.ahead = h] EXCEPT !.rcv_nxt = x, !.rcv_wnd = w]
         = [t EXCEPT !.rbuf = b, !.ahead = h, !.rcv_nxt = x, !.rcv_wnd = w]
  OBVIOUS
<1>2. [t EXCEPT !.rbuf = b, !.ahead = h, !.rcv_nxt = x, !.rcv_wnd = w] = RecvTcb(t, t.rlist, b, h, x, w)
  BY DEF RecvTcb, Tcb
<1> QED BY <1>1, <1>2 DEF ConsumedTcb

\* n bytes more are in order: they were ahead, and the peer may have sent them.
LEMMA AdvanceWork ==
  ASSUME NEW t, NEW p, NEW A, NEW B, Work(t, p, A, B), NoWrap, t.rcv_nxt > 0,
         NEW n \in Nat, t.rcv_nxt + n <= Edge(t),
         Covered(t.ahead, t.rcv_nxt, t.rcv_nxt, t.rcv_nxt + n), Mark(p, t.rcv_nxt + n)
  PROVE  LET u == Advance(t, n)
         IN Work(u, p, A, B) /\ Advanced(t, u, n) /\ Receives(t, u)
<1>1. End(t) /\ Receiver(t) /\ Flow(p, t) /\ End(p)
  BY DEF Work, Pair, End
<1>2. /\ t \in Tcb /\ t.rcv_nxt \in Nat /\ t.rcv_wnd \in Nat /\ Edge(t) = t.rcv_nxt + t.rcv_wnd
      /\ t.rbuf \in Seq(Nat) /\ Len(t.rbuf) \in Nat
  BY <1>1, EndNumbers
<1>3. t.rlist \in Seq(SavedRecord) /\ t.ahead \in [0..RBufLen - 1 -> Int]
  BY <1>2 DEF Tcb
<1>4. /\ FrontOf(t, n) \in Seq(Nat) /\ Len(FrontOf(t, n)) = n /\ Numbered(FrontOf(t, n), t.rcv_nxt)
      /\ n <= t.rcv_wnd /\ n <= RBufLen
  BY <1>1, FrontBytes
<1>5. t.rcv_wnd <= RBufLen - Len(t.rbuf) /\ Edge(t) >= 1 /\ (t.rbuf # <<>> => Len(t.rbuf) < t.rcv_nxt)
      /\ Numbered(t.rbuf, t.rcv_nxt - Len(t.rbuf))
  BY <1>1 DEF Receiver, Room
<1>6. Add(t.rcv_nxt, n) = t.rcv_nxt + n
  <2>1. t.rcv_nxt + n <= p.snd_nxt
    BY DEF Mark
  <2>2. p.snd_nxt \in Nat /\ p.snd_nxt <= Total(p) /\ Total(p) < SeqSpace /\ Total(p) \in Nat
    BY <1>1, EndNumbers
  <2>3. t.rcv_nxt + n < SeqSpace
    BY <1>2, <2>1, <2>2, Sizes
  <2> QED BY <1>2, <2>3, SmallNumbers
<1>7. Sub(t.rcv_wnd, n) = t.rcv_wnd - n
  <2>1. t.rcv_wnd < SeqSpace
    BY <1>2, <1>5, Sizes
  <2> QED BY <1>2, <1>4, <2>1, SmallNumbers
<1> DEFINE b == t.rbuf \o FrontOf(t, n)
           u == RecvTcb(t, t.rlist, b, Behind(t, n), t.rcv_nxt + n, t.rcv_wnd - n)
<1>8. Advance(t, n) = u
  <2>1. DOMAIN t.ahead = 0..RBufLen - 1
    BY <1>3
  <2>2. ConsumeWriteBuffer(t, n) = [t EXCEPT !.rbuf = b, !.ahead = Behind(t, n)]
    BY <2>1 DEF ConsumeWriteBuffer, FrontOf, Behind
  <2>3. Advance(t, n) = [ConsumeWriteBuffer(t, n) EXCEPT !.rcv_nxt = t.rcv_nxt + n, !.rcv_wnd = t.rcv_wnd - n]
    BY <1>6, <1>7 DEF Advance
  <2> HIDE DEF b
  <2>4. t \in Tcb /\ Advance(t, n) = ConsumedTcb(t, b, Behind(t, n), t.rcv_nxt + n, t.rcv_wnd - n)
    BY <1>2, <2>2, <2>3 DEF ConsumedTcb
  <2> QED BY <2>4, RecvTwice
<1>9. /\ Numbered(b, t.rcv_nxt - Len(t.rbuf)) /\ Len(b) = Len(t.rbuf) + n /\ b \in Seq(Nat)
  <2>1. t.rcv_nxt - Len(t.rbuf) \in Int /\ (t.rcv_nxt - Len(t.rbuf)) + Len(t.rbuf) = t.rcv_nxt
    BY <1>2
  <2>2. Numbered(FrontOf(t, n), (t.rcv_nxt - Len(t.rbuf)) + Len(t.rbuf))
    BY <1>4, <2>1
  <2>3. t.rbuf \in Seq(Nat) /\ FrontOf(t, n) \in Seq(Nat) /\ Numbered(t.rbuf, t.rcv_nxt - Len(t.rbuf))
    BY <1>2, <1>4, <1>5
  <2>4. /\ Numbered(b, t.rcv_nxt - Len(t.rbuf)) /\ Len(b) = Len(t.rbuf) + Len(FrontOf(t, n)) /\ b \in Seq(Nat)
    BY <2>1, <2>2, <2>3, ConcatNumbered
  <2> HIDE DEF b
  <2> QED BY <1>4, <2>4
<1>10. /\ Behind(t, n) \in [0..RBufLen - 1 -> Int]
       /\ \A i \in 0..RBufLen - 1 : /\ Behind(t, n)[i] \in {Hole, (t.rcv_nxt + n) + i}
                                    /\ Behind(t, n)[i] <= FileLen
       /\ \A c, d \in Nat : d <= Edge(t) /\ Covered(t.ahead, t.rcv_nxt, c, d)
                              => Covered(Behind(t, n), t.rcv_nxt + n, c, d)
  BY <1>1, BehindBytes
<1>11. /\ u \in Tcb /\ RestKept(t, u) /\ u.rlist = t.rlist /\ u.rbuf = b /\ u.ahead = Behind(t, n)
       /\ u.rcv_nxt = t.rcv_nxt + n /\ u.rcv_wnd = t.rcv_wnd - n
  <2> HIDE DEF b
  <2>1. t.rcv_nxt + n \in Nat /\ t.rcv_wnd - n \in Nat
    BY <1>2, <1>4
  <2>2. /\ t \in Tcb /\ t.rlist \in Seq(SavedRecord) /\ b \in Seq(Nat) /\ Behind(t, n) \in [0..RBufLen - 1 -> Int]
    BY <1>2, <1>3, <1>9, <1>10
  <2>3. RecvFields(t, u, t.rlist, b, Behind(t, n), t.rcv_nxt + n, t.rcv_wnd - n)
    BY <2>1, <2>2, RecvRecord
  <2> HIDE DEF u
  <2> QED BY <2>3 DEF RecvFields
<1> HIDE DEF u
<1>12. Advanced(t, u, n)
  BY <1>9, <1>11 DEF Advanced, b
<1> HIDE DEF b
<1>13. Edge(u) = Edge(t)
  BY <1>2, <1>4, <1>11 DEF Edge
<1>base. u.rcv_nxt - Len(u.rbuf) = t.rcv_nxt - Len(t.rbuf)
  <2>1. u.rcv_nxt = t.rcv_nxt + n /\ Len(u.rbuf) = Len(t.rbuf) + n
    BY <1>9, <1>11
  <2>2. t.rcv_nxt \in Int /\ Len(t.rbuf) \in Int
    BY <1>2
  <2>3. (t.rcv_nxt + n) - (Len(t.rbuf) + n) = t.rcv_nxt - Len(t.rbuf)
    BY <2>2
  <2> QED BY <2>1, <2>3
<1>14. \A j \in 1..Len(u.rlist) :
         /\ u.rlist[j].seq + u.rlist[j].len <= Edge(u)
         /\ Covered(u.ahead, u.rcv_nxt, u.rlist[j].seq, u.rlist[j].seq + u.rlist[j].len)
  <2> SUFFICES ASSUME NEW j \in 1..Len(t.rlist)
               PROVE  /\ t.rlist[j].seq + t.rlist[j].len <= Edge(t)
                      /\ Covered(Behind(t, n), t.rcv_nxt + n, t.rlist[j].seq, t.rlist[j].seq + t.rlist[j].len)
    BY <1>11, <1>13
  <2>1. t.rlist[j].seq \in Nat /\ t.rlist[j].seq + t.rlist[j].len \in Nat
    <3>1. t.rlist[j] \in SavedRecord
      BY <1>3
    <3> QED BY <3>1 DEF SavedRecord
  <2>2. /\ t.rlist[j].seq + t.rlist[j].len <= Edge(t)
        /\ Covered(t.ahead, t.rcv_nxt, t.rlist[j].seq, t.rlist[j].seq + t.rlist[j].len)
    BY <1>1 DEF Receiver
  <2> QED BY <1>10, <2>1, <2>2
<1>15. Receiver(u)
  <2>1. u.rcv_wnd <= Room(u)
    BY <1>2, <1>4, <1>5, <1>9, <1>11, Sizes DEF Room
  <2>2. Len(u.rbuf) < u.rcv_nxt
    <3>1. CASE t.rbuf = <<>>
      BY <1>2, <1>9, <1>11, <3>1
    <3>2. CASE t.rbuf # <<>>
      BY <1>2, <1>5, <1>9, <1>11, <3>2
    <3> QED BY <3>1, <3>2
  <2>3. u.rcv_nxt # 0
    BY <1>2, <1>11
  <2>4. Numbered(u.rbuf, u.rcv_nxt - Len(u.rbuf))
    BY <1>9, <1>11, <1>base
  <2>5. \A i \in 0..RBufLen - 1 : u.ahead[i] \in {Hole, u.rcv_nxt + i} /\ u.ahead[i] <= FileLen
    BY <1>10, <1>11
  <2>6. Edge(u) >= 1
    BY <1>5, <1>13
  <2> QED BY <1>14, <2>1, <2>2, <2>3, <2>4, <2>5, <2>6 DEF Receiver
<1>16. Flow(p, u)
  <2>1. p.snd_una <= u.rcv_nxt
    <3>1. p.snd_una <= t.rcv_nxt /\ p.snd_una \in Nat
      BY <1>1, EndNumbers DEF Flow
    <3> QED BY <1>2, <1>11, <3>1
  <2> QED BY <1>1, <1>11, <1>13, <2>1 DEF Flow
<1>17. t.rcv_nxt <= u.rcv_nxt /\ Edge(t) <= Edge(u)
  BY <1>2, <1>11, <1>13
<1>18. Work(u, p, A, B)
  BY <1>11, <1>15, <1>16, <1>17, RecvWork
<1>19. Receives(t, u)
  BY <1>11, <1>17, <1>base DEF Receives
<1> QED BY <1>8, <1>12, <1>18, <1>19

\* A segment that was received ahead of others
SavedOK(g, t, p) ==
  /\ g.seq + g.len <= Edge(t) /\ Covered(t.ahead, t.rcv_nxt, g.seq, g.seq + g.len)
  /\ Mark(p, g.seq + g.len)

\* Every saved segment is such a one.
LEMMA SavedFacts ==
  ASSUME NEW t, NEW p, NEW A, NEW B, Work(t, p, A, B), NEW j \in 1..Len(t.rlist)
  PROVE  SavedOK(t.rlist[j], t, p) /\ t.rlist[j] \in SavedRecord
<1>1. Receiver(t) /\ Flow(p, t) /\ t \in Tcb
  BY DEF Work, Pair, End
<1>2. t.rlist[j] \in SavedRecord
  BY <1>1, SMTT(30) DEF Tcb
<1> QED BY <1>1, <1>2 DEF SavedOK, Receiver, Flow

\* An end with another list of saved segments
ListTcb(t, l) == RecvTcb(t, l, t.rbuf, t.ahead, t.rcv_nxt, t.rcv_wnd)

\* Nothing else is different.
Listed(t, u, l) ==
  /\ RestKept(t, u) /\ u.rlist = l /\ u.rbuf = t.rbuf /\ u.ahead = t.ahead
  /\ u.rcv_nxt = t.rcv_nxt /\ u.rcv_wnd = t.rcv_wnd

\* Another list of segments that were received
LEMMA ListWork ==
  ASSUME NEW t, NEW p, NEW A, NEW B, Work(t, p, A, B), t.rcv_nxt > 0, NEW l \in Seq(SavedRecord),
         \A j \in 1..Len(l) : SavedOK(l[j], t, p)
  PROVE  Work(ListTcb(t, l), p, A, B) /\ Listed(t, ListTcb(t, l), l)
<1>1. End(t) /\ Receiver(t) /\ Flow(p, t)
  BY DEF Work, Pair, End
<1>2. /\ t \in Tcb /\ t.rcv_nxt \in Nat /\ t.rcv_wnd \in Nat /\ t.rbuf \in Seq(Nat) /\ Edge(t) \in Nat
  BY <1>1, EndNumbers
<1>3. t.ahead \in [0..RBufLen - 1 -> Int]
  BY <1>2 DEF Tcb
<1> DEFINE u == ListTcb(t, l)
<1>4. u \in Tcb /\ Listed(t, u, l)
  <2>1. RecvFields(t, u, l, t.rbuf, t.ahead, t.rcv_nxt, t.rcv_wnd)
    BY <1>2, <1>3, RecvRecord DEF ListTcb
  <2> HIDE DEF u
  <2> QED BY <2>1 DEF RecvFields, Listed
<1> HIDE DEF u
<1>5. /\ RestKept(t, u) /\ u.rlist = l /\ u.rbuf = t.rbuf /\ u.ahead = t.ahead
      /\ u.rcv_nxt = t.rcv_nxt /\ u.rcv_wnd = t.rcv_wnd /\ Edge(u) = Edge(t) /\ Room(u) = Room(t)
  BY <1>4 DEF Listed, Edge, Room
<1>6. Receiver(u)
  <2>1. u.rcv_nxt # 0
    BY <1>2, <1>5
  <2>2. \A j \in 1..Len(l) :
         /\ l[j].seq + l[j].len <= Edge(t)
         /\ Covered(t.ahead, t.rcv_nxt, l[j].seq, l[j].seq + l[j].len)
    BY DEF SavedOK
  <2> QED BY <1>1, <1>5, <2>1, <2>2 DEF Receiver
<1>7. Flow(p, u)
  <2>1. \A j \in 1..Len(l) : Mark(p, l[j].seq + l[j].len)
    BY DEF SavedOK
  <2> QED BY <1>1, <1>5, <2>1 DEF Flow
<1>8. t.rcv_nxt <= u.rcv_nxt /\ Edge(t) <= Edge(u)
  BY <1>2, <1>5
<1>9. Work(u, p, A, B)
  BY <1>4, <1>5, <1>6, <1>7, <1>8, RecvWork
<1> QED BY <1>4, <1>9 DEF u

\* Without the first of them
LEMMA ErasedWork ==
  ASSUME NEW t, NEW p, NEW A, NEW B, Work(t, p, A, B), t.rlist # <<>>
  PROVE  Work(Erased(t), p, A, B) /\ Listed(t, Erased(t), Tail(t.rlist)) /\ Receives(t, Erased(t))
         /\ t.rcv_nxt > 0
<1>1. End(t) /\ Receiver(t)
  BY DEF Work, Pair, End
<1>2. t \in Tcb /\ t.rcv_nxt \in Nat
  BY <1>1, EndNumbers
<1>3. t.rlist \in Seq(SavedRecord)
  BY <1>2 DEF Tcb
<1>4. t.rcv_nxt > 0
  BY <1>1, <1>2 DEF Receiver
<1> PICK l \in Seq(SavedRecord) : l = t.rlist
  BY <1>3
<1>5. /\ Tail(l) \in Seq(SavedRecord) /\ Len(Tail(l)) = Len(l) - 1 /\ Len(l) \in Nat \ {0}
      /\ \A j \in 1..Len(Tail(l)) : Tail(l)[j] = l[j + 1]
  BY HeadTailProperties
<1>6. \A j \in 1..Len(Tail(l)) : SavedOK(Tail(l)[j], t, p)
  <2> SUFFICES ASSUME NEW j \in 1..Len(Tail(l))
               PROVE  SavedOK(l[j + 1], t, p)
    BY <1>5
  <2>1. j + 1 \in 1..Len(l)
    BY <1>5
  <2> QED BY <2>1, SavedFacts
<1>7. Erased(t) = ListTcb(t, Tail(l))
  BY <1>2 DEF Erased, ListTcb, RecvTcb, Tcb
<1>8. Work(ListTcb(t, Tail(l)), p, A, B) /\ Listed(t, ListTcb(t, Tail(l)), Tail(l))
  BY <1>4, <1>5, <1>6, ListWork
<1>9. Receives(t, ListTcb(t, Tail(l)))
  BY <1>2, <1>8 DEF Receives, Listed
<1> QED BY <1>4, <1>7, <1>8, <1>9

\* One round of the loop over rlist
LEMMA RecoverWork ==
  ASSUME NEW t, NEW p, NEW A, NEW B, Work(t, p, A, B), NoWrap
  PROVE  Work(Recover(t), p, A, B) /\ Receives(t, Recover(t))
<1>1. End(t) /\ End(p)
  BY DEF Work, Pair
<1>2. t \in Tcb /\ t.rcv_nxt \in Nat /\ Len(t.rbuf) \in Nat
  BY <1>1, EndNumbers
<1>3. t.rlist \in Seq(SavedRecord)
  BY <1>2 DEF Tcb
<1>4. CASE t.rlist = <<>> \/ (t.rlist # <<>> /\ Head(t.rlist).seq > t.rcv_nxt)
  <2>1. Recover(t) = t
    <3>1. CASE t.rlist = <<>>
      BY <3>1 DEF Recover
    <3>2. CASE t.rlist # <<>>
      <4>1. Head(t.rlist).seq \in Nat
        <5>1. Head(t.rlist) \in SavedRecord
          BY <1>3, <3>2
        <5> QED BY <5>1 DEF SavedRecord
      <4>2. ~(Head(t.rlist).seq <= t.rcv_nxt)
        BY <1>2, <1>4, <3>2, <4>1
      <4> QED BY <1>4, <3>2, <4>2 DEF Recover
    <3> QED BY <3>1, <3>2
  <2>2. Receives(t, t)
    BY <1>2 DEF Receives, RestKept, SameSend, SameMode, SameRest
  <2> QED BY <2>1, <2>2
<1>5. CASE t.rlist # <<>> /\ ~(Head(t.rlist).seq > t.rcv_nxt)
  <2> DEFINE g == Head(t.rlist)
             u == Erased(t)
             z == g.seq + g.len
  <2>1. SavedOK(g, t, p) /\ g \in SavedRecord
    <3>1. 1 \in 1..Len(t.rlist) /\ g = t.rlist[1]
      BY <1>3, <1>5
    <3> HIDE DEF g
    <3> QED BY <3>1, SavedFacts
  <2>2. Work(u, p, A, B) /\ Listed(t, u, Tail(t.rlist)) /\ Receives(t, u) /\ t.rcv_nxt > 0
    BY <1>5, ErasedWork
  <2>g. ~(g.seq > t.rcv_nxt)
    BY <1>5
  <2>3. g.seq <= t.rcv_nxt /\ g.seq \in Nat /\ g.len \in Nat
    <3> HIDE DEF g
    <3>1. g.seq \in Nat /\ g.len \in Nat
      BY <2>1 DEF SavedRecord
    <3> QED BY <1>2, <2>g, <3>1
  <2>r. Recover(t) = IF FirstEnd(t) > t.rcv_nxt THEN Advance(u, FirstEnd(t) - t.rcv_nxt) ELSE u
    <3>1. t.rlist # <<>> /\ g.seq <= t.rcv_nxt
      BY <1>5, <2>3
    <3> QED BY <2>g, <3>1 DEF Recover
  <2>f. FirstEnd(t) = Add(g.seq, g.len)
    BY DEF FirstEnd
  <2> HIDE DEF g, u
  <2>4. z \in Nat /\ z < SeqSpace /\ Mark(p, z) /\ z <= Edge(t) /\ Covered(t.ahead, t.rcv_nxt, g.seq, z)
    <3>1. Mark(p, z) /\ z <= Edge(t) /\ Covered(t.ahead, t.rcv_nxt, g.seq, z)
      BY <2>1 DEF SavedOK
    <3>2. z \in Nat
      BY <2>3
    <3> HIDE DEF z
    <3>3. z <= p.snd_nxt
      BY <3>1 DEF Mark
    <3>4. p.snd_nxt \in Nat /\ p.snd_nxt <= Total(p) /\ Total(p) < SeqSpace /\ Total(p) \in Nat
      BY <1>1, EndNumbers
    <3>5. z < SeqSpace
      BY <3>2, <3>3, <3>4, Sizes
    <3> QED BY <3>1, <3>2, <3>5
  <2>5. FirstEnd(t) = z
    BY <2>3, <2>4, <2>f, SmallNumbers
  <2> HIDE DEF z
  <2>6. CASE z > t.rcv_nxt
    <3> DEFINE n == z - t.rcv_nxt
               v == Advance(u, n)
    <3>1. u.rcv_nxt = t.rcv_nxt /\ u.ahead = t.ahead /\ Edge(u) = Edge(t)
      BY <2>2 DEF Listed, Edge
    <3>2. n \in Nat /\ t.rcv_nxt + n = z
      BY <1>2, <2>4, <2>6
    <3>3. Recover(t) = v
      BY <2>5, <2>6, <2>r
    <3> HIDE DEF n
    <3>4. Covered(u.ahead, u.rcv_nxt, u.rcv_nxt, u.rcv_nxt + n)
      <4>1. Covered(t.ahead, t.rcv_nxt, t.rcv_nxt, z)
        BY <1>2, <2>3, <2>4 DEF Covered
      <4> QED BY <3>1, <3>2, <4>1
    <3>5. u.rcv_nxt > 0 /\ u.rcv_nxt + n <= Edge(u) /\ Mark(p, u.rcv_nxt + n)
      BY <2>2, <2>4, <3>1, <3>2
    <3>6. Work(v, p, A, B) /\ Receives(u, v)
      BY <2>2, <3>2, <3>4, <3>5, AdvanceWork
    <3> HIDE DEF v
    <3>7. u.rcv_nxt \in Nat /\ v.rcv_nxt \in Nat
      BY <2>2, <3>6, EndNumbers DEF Work, Pair
    <3>8. Receives(t, v)
      BY <1>2, <2>2, <3>6, <3>7, ReceivesTwice
    <3> QED BY <3>3, <3>6, <3>8
  <2>7. CASE ~(z > t.rcv_nxt)
    <3>1. Recover(t) = u
      BY <2>5, <2>7, <2>r
    <3> QED BY <2>2, <3>1
  <2> QED BY <2>6, <2>7
<1> QED BY <1>4, <1>5

AfterEquation(k, t, N) == k = [n \in 0..N |-> IF n = 0 THEN t ELSE Recover(k[n - 1])]

\* The loop over rlist is defined for any number of rounds.
LEMMA AfterExist ==
  ASSUME NEW t, NEW N \in Nat
  PROVE  \E k : AfterEquation(k, t, N)
<1> DEFINE T == {M \in Nat : \E k : AfterEquation(k, t, M)}
<1>1. 0 \in T
  <2>1. AfterEquation([n \in 0..0 |-> t], t, 0)
    BY DEF AfterEquation
  <2> QED BY <2>1
<1>2. ASSUME NEW n \in 1..N, n - 1 \in T
      PROVE  n \in T
  <2>1. PICK k : AfterEquation(k, t, n - 1)
    BY <1>2
  <2> DEFINE g == [m \in 0..n |-> IF m = n THEN Recover(k[n - 1]) ELSE k[m]]
  <2>2. k = [m \in 0..(n - 1) |-> IF m = 0 THEN t ELSE Recover(k[m - 1])]
    BY <2>1 DEF AfterEquation
  <2>3. ASSUME NEW m \in 0..n
        PROVE  g[m] = IF m = 0 THEN t ELSE Recover(g[m - 1])
    <3>1. CASE m = 0
      <4>1. 0 \in 0..(n - 1) /\ m # n
        BY <3>1
      <4> QED BY <2>2, <3>1, <4>1
    <3>2. CASE m # 0 /\ m # n
      <4>1. m \in 0..(n - 1) /\ m - 1 \in 0..n /\ m - 1 # n
        BY <3>2
      <4>2. g[m - 1] = k[m - 1] /\ g[m] = k[m]
        BY <3>2, <4>1
      <4> QED BY <2>2, <3>2, <4>1, <4>2
    <3>3. CASE m = n
      <4>1. n - 1 \in 0..n /\ n - 1 # n /\ n # 0
        OBVIOUS
      <4> QED BY <3>3, <4>1
    <3> QED BY <3>1, <3>2, <3>3
  <2>4. g = [m \in 0..n |-> IF m = 0 THEN t ELSE Recover(g[m - 1])]
    <3> HIDE <2>2
    <3> DEFINE h == [m \in 0..n |-> IF m = 0 THEN t ELSE Recover(g[m - 1])]
    <3>1. DOMAIN g = 0..n /\ DOMAIN h = 0..n
      OBVIOUS
    <3>2. \A m \in 0..n : g[m] = h[m]
      BY <2>3
    <3>3. g = [m \in 0..n |-> g[m]] /\ h = [m \in 0..n |-> h[m]]
      OBVIOUS
    <3> HIDE DEF g, h
    <3>4. g = h
      BY <3>2, <3>3
    <3> QED BY <3>4 DEF h
  <2> HIDE DEF g
  <2>5. AfterEquation(g, t, n)
    BY <2>4 DEF AfterEquation
  <2> QED BY <2>5
<1> HIDE DEF T
<1>3. N \in T
  BY <1>1, <1>2, SetInduction
<1> QED BY <1>3 DEF T

\* The whole loop over rlist
LEMMA RecoveredWork ==
  ASSUME NEW t, NEW p, NEW A, NEW B, Work(t, p, A, B), NoWrap
  PROVE  Work(Recovered(t), p, A, B) /\ Receives(t, Recovered(t))
<1> DEFINE N == Len(t.rlist)
           Def(k) == AfterEquation(k, t, N)
           after == CHOOSE k : Def(k)
           T == {n \in 0..N : Work(after[n], p, A, B) /\ Receives(t, after[n])}
<1>1. End(t)
  BY DEF Work, Pair
<1>2. t \in Tcb /\ t.rcv_nxt \in Nat /\ Len(t.rbuf) \in Nat
  BY <1>1, EndNumbers
<1>3. t.rlist \in Seq(SavedRecord)
  BY <1>2 DEF Tcb
<1>4. N \in Nat
  BY <1>3
<1>5. Recovered(t) = after[N]
  BY DEF Recovered, AfterEquation
<1>6. Def(after)
  <2>1. \E k : Def(k)
    BY <1>4, AfterExist
  <2> HIDE DEF Def
  <2> QED BY <2>1
<1>7. \A n \in 0..N : after[n] = IF n = 0 THEN t ELSE Recover(after[n - 1])
  BY <1>6 DEF AfterEquation
<1> HIDE DEF after
<1>8. 0 \in T
  <2>1. Receives(t, t)
    BY <1>2 DEF Receives, RestKept, SameSend, SameMode, SameRest
  <2>2. 0 \in 0..N /\ after[0] = t
    BY <1>4, <1>7
  <2> QED BY <2>1, <2>2
<1>9. ASSUME NEW n \in 1..N, n - 1 \in T
      PROVE  n \in T
  <2> DEFINE u == after[n - 1]
  <2>1. Work(u, p, A, B) /\ Receives(t, u)
    BY <1>9
  <2>2. after[n] = Recover(u)
    BY <1>4, <1>7
  <2> HIDE DEF u
  <2>3. Work(Recover(u), p, A, B) /\ Receives(u, Recover(u))
    BY <2>1, RecoverWork
  <2>4. u.rcv_nxt \in Nat /\ Recover(u).rcv_nxt \in Nat
    BY <2>1, <2>3, EndNumbers DEF Work, Pair
  <2>5. Receives(t, Recover(u))
    BY <1>2, <2>1, <2>3, <2>4, ReceivesTwice
  <2>6. n \in 0..N
    BY <1>4
  <2> QED BY <2>2, <2>3, <2>5, <2>6
<1> HIDE DEF T, N
<1>10. N \in T
  BY <1>4, <1>8, <1>9, SetInduction
<1> QED BY <1>5, <1>10 DEF T, N

\* A segment ahead of others is saved at its place.
LEMMA SavedWork ==
  ASSUME NEW t, NEW p, NEW A, NEW B, Work(t, p, A, B), t.rcv_nxt > 0, NEW fit,
         fit.seq \in Nat, fit.data \in Seq(Nat), SavedOK([seq |-> fit.seq, len |-> Len(fit.data)], t, p)
  PROVE  Work(Saved(t, fit), p, A, B) /\ Receives(t, Saved(t, fit))
<1>1. End(t)
  BY DEF Work, Pair
<1>2. t \in Tcb /\ t.rcv_nxt \in Nat /\ Len(t.rbuf) \in Nat
  BY <1>1, EndNumbers
<1>3. t.rlist \in Seq(SavedRecord) /\ Len(t.rlist) \in Nat /\ DOMAIN t.rlist = 1..Len(t.rlist)
  BY <1>2 DEF Tcb
<1> DEFINE g == [seq |-> fit.seq, len |-> Len(fit.data)]
           before == {i \in DOMAIN t.rlist : \A j \in 1..i : t.rlist[j].seq < fit.seq}
           c == Cardinality(before) + 1
           l == InsertAt(t.rlist, c, g)
<1>4. c \in 1..Len(t.rlist) + 1
  <2>1. IsFiniteSet(1..Len(t.rlist)) /\ Cardinality(1..Len(t.rlist)) = Len(t.rlist)
    <3>1. 1 \in Int /\ Len(t.rlist) \in Int
      BY <1>3
    <3> QED BY <1>3, <3>1, FS_Interval
  <2>2. before \subseteq 1..Len(t.rlist)
    BY <1>3
  <2> HIDE DEF before
  <2>3. IsFiniteSet(before) /\ Cardinality(before) <= Len(t.rlist)
    BY <2>1, <2>2, FS_Subset
  <2>4. Cardinality(before) \in Nat
    BY <2>3, FS_CardinalityType
  <2> QED BY <1>3, <2>3, <2>4
<1>5. g \in SavedRecord
  BY DEF SavedRecord
<1>6. SavedOK(g, t, p)
  OBVIOUS
<1>7. Saved(t, fit) = ListTcb(t, l)
  <2> DEFINE v == [t EXCEPT !.rlist = l]
  <2>1. Saved(t, fit) = v
    BY DEF Saved
  <2> HIDE DEF l
  <2>2. v = ListTcb(t, l)
    BY <1>2 DEF ListTcb, RecvTcb, Tcb
  <2> QED BY <2>1, <2>2
<1> HIDE DEF c, g
<1>8. l \in Seq(SavedRecord) /\ Insertion(l, t.rlist, c, g)
  BY <1>3, <1>4, <1>5, Inserted
<1> HIDE DEF l
<1>9. \A j \in 1..Len(l) : SavedOK(l[j], t, p)
  <2> SUFFICES ASSUME NEW j \in 1..Len(l)
               PROVE  SavedOK(l[j], t, p)
    OBVIOUS
  <2>1. l[j] = g \/ \E m \in 1..Len(t.rlist) : l[j] = t.rlist[m]
    <3>1. Len(l) = Len(t.rlist) + 1 /\ l[c] = g
      BY <1>8 DEF Insertion
    <3>2. CASE j = c
      BY <3>1, <3>2
    <3>3. CASE j < c
      <4>1. j \in 1..Len(t.rlist)
        BY <1>3, <1>4, <3>1, <3>3
      <4>2. l[j] = t.rlist[j]
        BY <1>8, <3>3, <4>1 DEF Insertion
      <4> QED BY <4>1, <4>2
    <3>4. CASE j > c
      <4>1. j - 1 \in 1..Len(t.rlist) /\ j - 1 >= c /\ (j - 1) + 1 = j
        BY <1>3, <1>4, <3>1, <3>4
      <4>2. l[(j - 1) + 1] = t.rlist[j - 1]
        BY <1>8, <4>1 DEF Insertion
      <4> QED BY <4>1, <4>2
    <3> QED BY <1>4, <3>2, <3>3, <3>4
  <2> QED BY <1>6, <2>1, SavedFacts
<1>10. Work(ListTcb(t, l), p, A, B) /\ Listed(t, ListTcb(t, l), l)
  BY <1>8, <1>9, ListWork
<1>11. Receives(t, ListTcb(t, l))
  BY <1>2, <1>10 DEF Receives, Listed
<1> QED BY <1>7, <1>10, <1>11

\* What process stores: more bytes of the file, or the connect message before them.
Stores(t, u, seg) ==
  /\ RestKept(t, u) /\ t.rcv_nxt <= u.rcv_nxt
  /\ \/ u.rcv_nxt - Len(u.rbuf) = t.rcv_nxt - Len(t.rbuf)
     \/ t.rcv_nxt = 0 /\ u.rcv_nxt = 1 /\ t.rbuf = <<>> /\ u.rbuf = <<>>
  /\ seg.ctrl => u.rcv_nxt > 0

\* The connect message is the first byte.
LEMMA ConnectStored ==
  ASSUME NEW t, NEW p, NEW A, NEW B, Work(t, p, A, B), t.rcv_nxt = 0, Mark(p, 1)
  PROVE  LET u == RecvTcb(t, t.rlist, t.rbuf, t.ahead, 1, t.rcv_wnd)
         IN Work(u, p, A, B) /\ RestKept(t, u) /\ u.rcv_nxt = 1 /\ t.rbuf = <<>> /\ u.rbuf = <<>>
<1>1. End(t) /\ End(p) /\ Receiver(t) /\ Flow(p, t)
  BY DEF Work, Pair, End
<1>2. /\ t \in Tcb /\ t.rcv_nxt \in Nat /\ t.rcv_wnd \in Nat /\ t.rbuf \in Seq(Nat) /\ Edge(t) \in Nat
      /\ Len(t.rbuf) \in Nat /\ Edge(t) = t.rcv_nxt + t.rcv_wnd
  BY <1>1, EndNumbers
<1>3. t.ahead \in [0..RBufLen - 1 -> Int] /\ t.rlist \in Seq(SavedRecord)
  BY <1>2 DEF Tcb
<1>4. t.rbuf = <<>> /\ t.rlist = <<>> /\ \A i \in 0..RBufLen - 1 : t.ahead[i] = Hole
  <2>1. t.rbuf # <<>> => Len(t.rbuf) < 0
    BY <1>1 DEF Receiver
  <2>2. t.rbuf = <<>>
    BY <1>2, <2>1
  <2> QED BY <1>1, <2>2 DEF Receiver
<1> DEFINE u == RecvTcb(t, t.rlist, t.rbuf, t.ahead, 1, t.rcv_wnd)
<1>5. /\ u \in Tcb /\ RestKept(t, u) /\ u.rlist = t.rlist /\ u.rbuf = t.rbuf /\ u.ahead = t.ahead
      /\ u.rcv_nxt = 1 /\ u.rcv_wnd = t.rcv_wnd
  <2>1. RecvFields(t, u, t.rlist, t.rbuf, t.ahead, 1, t.rcv_wnd)
    BY <1>2, <1>3, RecvRecord
  <2> HIDE DEF u
  <2> QED BY <2>1 DEF RecvFields
<1> HIDE DEF u
<1>6. Edge(u) = Edge(t) + 1 /\ Room(u) = Room(t)
  BY <1>2, <1>5 DEF Edge, Room
<1>7. Receiver(u)
  <2>1. u.rbuf = <<>> /\ u.rlist = <<>> /\ Len(u.rlist) = 0 /\ Len(u.rbuf) = 0 /\ u.rcv_nxt # 0
    BY <1>4, <1>5
  <2>2. u.rcv_wnd <= Room(u)
    BY <1>1, <1>5, <1>6 DEF Receiver
  <2>3. Edge(u) >= 1
    BY <1>2, <1>6
  <2>4. Numbered(u.rbuf, u.rcv_nxt - Len(u.rbuf))
    BY <2>1 DEF Numbered
  <2>5. \A i \in 0..RBufLen - 1 : u.ahead[i] \in {Hole, u.rcv_nxt + i} /\ u.ahead[i] <= FileLen
    BY <1>4, <1>5, Sizes DEF Hole
  <2>6. \A j \in 1..Len(u.rlist) :
         /\ u.rlist[j].seq + u.rlist[j].len <= Edge(u)
         /\ Covered(u.ahead, u.rcv_nxt, u.rlist[j].seq, u.rlist[j].seq + u.rlist[j].len)
    BY <2>1
  <2> QED BY <2>1, <2>2, <2>3, <2>4, <2>5, <2>6 DEF Receiver
<1>8. Flow(p, u)
  <2>1. /\ p.snd_una <= 0 /\ p.snd_nxt <= Edge(t) /\ p.snd_una + p.snd_wnd <= Edge(t)
        /\ p.snd_una \in Nat /\ p.snd_nxt \in Nat /\ p.snd_wnd \in Nat
    BY <1>1, EndNumbers DEF Flow
  <2>2. p.snd_una <= u.rcv_nxt /\ p.snd_nxt <= Edge(u) /\ p.snd_una + p.snd_wnd <= Edge(u)
    BY <1>2, <1>5, <1>6, <2>1
  <2>3. Mark(p, u.rcv_nxt) /\ Len(u.rlist) = 0
    BY <1>4, <1>5
  <2> QED BY <2>2, <2>3 DEF Flow
<1>9. t.rcv_nxt <= u.rcv_nxt /\ Edge(t) <= Edge(u)
  BY <1>2, <1>5, <1>6
<1>10. Work(u, p, A, B)
  BY <1>5, <1>7, <1>8, <1>9, RecvWork
<1> QED BY <1>4, <1>5, <1>10 DEF u

\* The data of a packet
LEMMA StoredWork ==
  ASSUME NEW t, NEW p, NEW A, NEW B, Work(t, p, A, B), NoWrap, NEW seg \in A,
         seg.data # <<>> /\ ~seg.ctrl => t.rcv_nxt > 0 /\ t.shutdown = "NONE"
  PROVE  Work(Stored(t, seg), p, A, B) /\ Stores(t, Stored(t, seg), seg)
<1>1. End(t) /\ End(p) /\ Flow(p, t) /\ PacketOK(seg, p, t)
  BY DEF Work, Pair
<1>2. t \in Tcb /\ t.rcv_nxt \in Nat /\ Len(t.rbuf) \in Nat /\ Edge(t) \in Nat
  BY <1>1, EndNumbers
<1>3. seg.seq \in Nat /\ seg.data \in Seq(Nat) /\ Len(seg.data) \in Nat /\ seg.ctrl \in BOOLEAN
  <2>1. seg \in PacketRecord
    BY <1>1 DEF PacketOK
  <2>2. seg.seq \in Nat /\ seg.data \in Seq(Nat) /\ seg.ctrl \in BOOLEAN
    BY <2>1 DEF PacketRecord
  <2> QED BY <2>2
<1> DEFINE f == Fit(t, seg)
           n == Len(f.data)
           put == WriteOffset(t, f.data, Sub(f.seq, t.rcv_nxt))
<1>4. Fits(f, t, seg)
  BY <1>1, FitShape
<1>5. f.seq \in Nat /\ f.data \in Seq(Nat) /\ n \in Nat
  <2> HIDE DEF f
  <2> QED BY <1>4 DEF Fits
<1>s. Stored(t, seg) =
        CASE n = 0 -> t
          [] n > 0 /\ IgnoreData(t, seg) ->
               IF f.seq = t.rcv_nxt THEN [t EXCEPT !.rcv_nxt = Add(t.rcv_nxt, n)] ELSE t
          [] n > 0 /\ ~IgnoreData(t, seg) ->
               IF f.seq = t.rcv_nxt THEN Recovered(Advance(put, n)) ELSE Saved(put, f)
  BY DEF Stored
<1> HIDE DEF f
<1>c. seg.ctrl => Len(seg.data) = 1 /\ seg.data # <<>> /\ seg.seq = 0
  <2>1. seg.ctrl => Len(seg.data) = 1
    BY <1>1 DEF PacketOK
  <2>2. ASSUME seg.ctrl PROVE seg.data # <<>>
    <3>1. Len(seg.data) = 1
      BY <2>1, <2>2
    <3> QED BY <3>1
  <2> QED BY <1>1, <2>1, <2>2 DEF PacketOK
<1>6. CASE n = 0
  <2>1. Stored(t, seg) = t
    BY <1>s, <1>6
  <2>2. seg.ctrl => t.rcv_nxt > 0
    <3> SUFFICES ASSUME seg.ctrl, t.rcv_nxt = 0
                 PROVE  FALSE
      BY <1>2
    <3>1. t.rcv_nxt <= seg.seq
      BY <1>c
    <3>2. Len(f.data) = Len(seg.data)
      BY <1>4, <3>1 DEF Fits
    <3> QED BY <1>6, <1>c, <3>2
  <2>3. Stores(t, t, seg)
    BY <1>2, <2>2 DEF Stores, RestKept, SameSend, SameMode, SameRest
  <2> QED BY <2>1, <2>3
<1>7. ASSUME n > 0
      PROVE  /\ f.data # <<>> /\ seg.data # <<>> /\ t.rcv_nxt <= f.seq /\ Numbered(f.data, f.seq)
             /\ f.seq + n = seg.seq + Len(seg.data) /\ Mark(p, f.seq + n)
             /\ f.seq + n <= Edge(t) /\ f.seq + n <= FileLen + 1 /\ f.seq + n < SeqSpace
  <2>1. f.data # <<>>
    BY <1>5, <1>7
  <2>2. seg.data # <<>> /\ t.rcv_nxt <= f.seq /\ Numbered(f.data, f.seq) /\ f.seq + n = seg.seq + Len(seg.data)
    BY <1>4, <2>1 DEF Fits
  <2>3. Mark(p, f.seq + n)
    BY <1>1, <2>2 DEF PacketOK
  <2>4. f.seq + n \in Nat
    BY <1>5
  <2>5. f.seq + n <= p.snd_nxt
    BY <2>3 DEF Mark
  <2>6. /\ p.snd_nxt \in Nat /\ p.snd_nxt <= Total(p) /\ Total(p) < SeqSpace /\ Total(p) \in Nat
        /\ Total(p) <= FileLen + 1
    BY <1>1, EndNumbers
  <2>7. p.snd_nxt <= Edge(t)
    BY <1>1 DEF Flow
  <2> HIDE DEF n
  <2>8. f.seq + n <= Edge(t)
    BY <1>2, <2>4, <2>5, <2>6, <2>7
  <2>9. f.seq + n <= FileLen + 1
    BY <2>4, <2>5, <2>6, Sizes
  <2>10. f.seq + n < SeqSpace
    BY <2>4, <2>5, <2>6, Sizes
  <2> QED BY <2>1, <2>2, <2>3, <2>8, <2>9, <2>10
<1>8. CASE n > 0 /\ IgnoreData(t, seg)
  <2>1. seg.ctrl
    BY <1>7, <1>8 DEF IgnoreData
  <2>2. f.seq + n = 1 /\ t.rcv_nxt <= f.seq
    <3>1. Len(seg.data) = 1 /\ seg.seq = 0 /\ n > 0
      BY <1>8, <1>c, <2>1
    <3>2. f.seq + n = seg.seq + Len(seg.data) /\ t.rcv_nxt <= f.seq
      BY <1>7, <3>1
    <3> HIDE DEF n
    <3> QED BY <3>1, <3>2
  <2>3. f.seq = 0 /\ n = 1 /\ t.rcv_nxt = 0
    <3>1. f.seq \in Nat /\ n \in Nat /\ n > 0 /\ t.rcv_nxt \in Nat
      BY <1>2, <1>5, <1>8
    <3> HIDE DEF n
    <3>2. f.seq = 0
      BY <2>2, <3>1
    <3> QED BY <2>2, <3>1, <3>2
  <2>4. Mark(p, 1)
    BY <1>7, <1>8, <2>2
  <2> DEFINE u == RecvTcb(t, t.rlist, t.rbuf, t.ahead, 1, t.rcv_wnd)
  <2>5. Stored(t, seg) = u
    <3>1. Stored(t, seg) = [t EXCEPT !.rcv_nxt = Add(t.rcv_nxt, n)]
      <4>1. ~(n = 0) /\ n > 0 /\ IgnoreData(t, seg) /\ f.seq = t.rcv_nxt
        BY <1>5, <1>8, <2>3
      <4> QED BY <1>s, <4>1
    <3>2. Add(t.rcv_nxt, n) = 1
      <4>1. 0 + 1 < SeqSpace
        BY Sizes
      <4>2. Add(0, 1) = 0 + 1
        BY <4>1, SmallNumbers
      <4> QED BY <2>3, <4>2
    <3>3. [t EXCEPT !.rcv_nxt = 1] = u
      BY <1>2 DEF RecvTcb, Tcb
    <3> QED BY <3>1, <3>2, <3>3
  <2>6. Work(u, p, A, B) /\ RestKept(t, u) /\ u.rcv_nxt = 1 /\ t.rbuf = <<>> /\ u.rbuf = <<>>
    BY <2>3, <2>4, ConnectStored
  <2> HIDE DEF u
  <2>7. Stores(t, u, seg)
    BY <2>3, <2>6 DEF Stores
  <2> QED BY <2>5, <2>6, <2>7
<1>9. CASE n > 0 /\ ~IgnoreData(t, seg)
  <2>1. ~seg.ctrl /\ t.rcv_nxt > 0
    BY <1>7, <1>9 DEF IgnoreData
  <2>2. Stored(t, seg) = IF f.seq = t.rcv_nxt THEN Recovered(Advance(put, n)) ELSE Saved(put, f)
    <3>1. ~(n = 0)
      BY <1>9
    <3> QED BY <1>s, <1>9, <3>1
  <2>3. Work(put, p, A, B) /\ Filled(t, put, f.seq, f.seq + n)
    <3>1. /\ t.rcv_nxt <= f.seq /\ Numbered(f.data, f.seq) /\ f.seq + n <= Edge(t)
          /\ f.seq + n <= FileLen + 1 /\ f.seq + n < SeqSpace
      BY <1>7, <1>9
    <3>2. f.seq < SeqSpace
      BY <1>5, <3>1, Sizes
    <3> QED BY <1>5, <2>1, <3>1, <3>2, WriteOffsetWork
  <2> HIDE DEF put
  <2>4. /\ RestKept(t, put) /\ put.rbuf = t.rbuf /\ put.rcv_nxt = t.rcv_nxt /\ Edge(put) = Edge(t)
        /\ Covered(put.ahead, put.rcv_nxt, f.seq, f.seq + n)
    BY <2>3 DEF Filled, Edge
  <2>5. Receives(t, put) /\ put.rcv_nxt > 0 /\ put.rcv_nxt \in Nat
    BY <1>2, <2>1, <2>4 DEF Receives
  <2>6. ASSUME NEW v, Work(v, p, A, B), Receives(put, v)
        PROVE  Stores(t, v, seg)
    <3>1. v.rcv_nxt \in Nat
      BY <2>6, EndNumbers DEF Work, Pair
    <3>2. Receives(t, v)
      BY <1>2, <2>5, <2>6, <3>1, ReceivesTwice
    <3> QED BY <2>1, <3>2 DEF Receives, Stores
  <2>7. CASE f.seq = t.rcv_nxt
    <3> DEFINE u == Advance(put, n)
               v == Recovered(u)
    <3>1. put.rcv_nxt + n <= Edge(put) /\ Mark(p, put.rcv_nxt + n)
          /\ Covered(put.ahead, put.rcv_nxt, put.rcv_nxt, put.rcv_nxt + n)
      BY <1>7, <1>9, <2>4, <2>7
    <3> HIDE DEF n
    <3>2. Work(u, p, A, B) /\ Receives(put, u)
      BY <1>5, <2>3, <2>5, <3>1, AdvanceWork
    <3> HIDE DEF u
    <3>3. Work(v, p, A, B) /\ Receives(u, v)
      BY <3>2, RecoveredWork
    <3> HIDE DEF v
    <3>4. u.rcv_nxt \in Nat /\ v.rcv_nxt \in Nat
      BY <3>2, <3>3, EndNumbers DEF Work, Pair
    <3>5. Receives(put, v)
      BY <2>5, <3>2, <3>3, <3>4, ReceivesTwice
    <3>6. Stored(t, seg) = v
      BY <2>2, <2>7 DEF u, v
    <3> QED BY <2>6, <3>3, <3>5, <3>6
  <2>8. CASE f.seq # t.rcv_nxt
    <3> DEFINE v == Saved(put, f)
               g == [seq |-> f.seq, len |-> Len(f.data)]
    <3>1. SavedOK(g, put, p)
      <4>1. f.seq + n <= Edge(put) /\ Mark(p, f.seq + n) /\ g.seq = f.seq /\ g.len = n
        BY <1>7, <1>9, <2>4
      <4> HIDE DEF g, n
      <4> QED BY <2>4, <4>1 DEF SavedOK
    <3>2. Work(v, p, A, B) /\ Receives(put, v)
      BY <1>5, <2>3, <2>5, <3>1, SavedWork
    <3> HIDE DEF v
    <3>3. Stored(t, seg) = v
      BY <2>2, <2>8 DEF v
    <3> QED BY <2>6, <3>2, <3>3
  <2> QED BY <2>7, <2>8
<1> QED BY <1>5, <1>6, <1>8, <1>9

\* Where a packet takes an end
Moves(t, u, seg) ==
  \/ u.state = t.state
  \/ u.state = "CLOSED"
  \/ seg.ctrl /\ t.state = "LISTEN" /\ u.state \in {"SYN_RECEIVED", "ESTABLISHED"}
  \/ seg.ctrl /\ t.state = "SYN_SENT" /\ u.state = "ESTABLISHED"
  \/ t.state = "SYN_RECEIVED" /\ u.state = "ESTABLISHED"

\* Only a connect message is answered with one, and then it was received.
Answers(t, u, seg) ==
  \/ Total(u) = Total(t)
  \/ /\ seg.ctrl /\ t.state = "LISTEN" /\ Total(u) = 1 /\ u.rcv_nxt > 0
     /\ u.state \in {"SYN_RECEIVED", "ESTABLISHED"}

\* The bytes that were read, of the ones received
SameBase(t, u) ==
  \/ u.rcv_nxt - Len(u.rbuf) = t.rcv_nxt - Len(t.rbuf)
  \/ t.rcv_nxt = 0 /\ u.rcv_nxt = 1 /\ t.rbuf = <<>> /\ u.rbuf = <<>>

\* What a handler that gets a packet does to an end
Progress(t, u, seg) ==
  /\ u.shutdown = t.shutdown /\ u.sflags = "None"
  /\ t.snd_nxt <= u.snd_nxt /\ t.rcv_nxt <= u.rcv_nxt
  /\ Moves(t, u, seg) /\ Answers(t, u, seg) /\ SameBase(t, u)
  /\ t.state = "CLOSED" => u = t

\* The flags for attemptSend
LEMMA FlagsType ==
  ASSUME NEW t, NEW seg, NEW stored
  PROVE  AckFlags(t, seg, stored) \in {"None", "Immediate", "Delayed"}
<1>1. CASE seg.seq # t.rcv_nxt
  BY <1>1 DEF AckFlags
<1>2. CASE seg.seq = t.rcv_nxt /\ Len(seg.data) = 0
  BY <1>2 DEF AckFlags
<1>3. CASE ~(seg.seq # t.rcv_nxt) /\ ~(seg.seq = t.rcv_nxt /\ Len(seg.data) = 0)
  BY <1>3 DEF AckFlags
<1> QED BY <1>1, <1>2, <1>3

\* process
LEMMA ProcessWork ==
  ASSUME NEW t, NEW p, NEW A, NEW B, Work(t, p, A, B), NoWrap, path \in NoRoute..Mss, NEW seg \in A,
         NEW idle \in BOOLEAN, t.sflags = "None", t.state = "LISTEN" => Total(t) = 0,
         seg.data # <<>> /\ ~seg.ctrl => t.rcv_nxt > 0 /\ t.shutdown = "NONE"
  PROVE  Work(Process(t, seg, idle), p, A, B) /\ Progress(t, Process(t, seg, idle), seg)
<1>1. End(t) /\ PacketOK(seg, p, t)
  BY DEF Work, Pair
<1>2. /\ t \in Tcb /\ t.rcv_nxt \in Nat /\ Len(t.rbuf) \in Nat /\ t.snd_una \in Nat /\ t.snd_nxt \in Nat
      /\ Total(t) \in Nat /\ t.snd_una <= t.snd_nxt /\ t.snd_nxt <= Total(t)
  BY <1>1, EndNumbers
<1>3. seg.ctrl \in BOOLEAN
  <2>1. seg \in PacketRecord
    BY <1>1 DEF PacketOK
  <2> QED BY <2>1 DEF PacketRecord
<1> DEFINE k == Control(t, seg)
           a == Acknowledged(k, seg)
           r == Notify(a, seg)
           s == Stored(r, seg)
           f == AckFlags(r, seg, s)
           v == AttemptSend(s, f, idle)
           fresh == Len(s.rbuf) > Len(r.rbuf)
           u == Readable(v, fresh)
<1>4. CASE t.state = "CLOSED"
  <2>1. Process(t, seg, idle) = t
    BY <1>4 DEF Process
  <2>2. Progress(t, t, seg)
    BY <1>2 DEF Progress, Moves, Answers, SameBase
  <2> QED BY <2>1, <2>2
<1>5. CASE t.state # "CLOSED"
  <2>p. Process(t, seg, idle) = IF a.state = "CLOSED" THEN a ELSE u
    BY <1>5 DEF Process
  <2>1. Work(k, p, A, B) /\ Controlled(t, k, seg)
    BY <1>3, ControlWork
  <2> HIDE DEF k
  <2>2. /\ SameRecv(t, k) /\ k.sflags = t.sflags /\ k.shutdown = t.shutdown
        /\ k.snd_una = t.snd_una /\ k.snd_nxt = t.snd_nxt /\ k.state # "CLOSED"
        /\ \/ seg.ctrl /\ t.state = "LISTEN" /\ k.state = "SYN_RECEIVED" /\ Total(k) = 1
           \/ seg.ctrl /\ t.state = "SYN_SENT" /\ k.state = "ESTABLISHED" /\ Total(k) = Total(t)
           \/ ~(seg.ctrl /\ t.state = "LISTEN") /\ k.state = t.state /\ Total(k) = Total(t)
    BY <1>5, <2>1 DEF Controlled
  <2>3. Work(a, p, A, B) /\ Acks(k, a)
    BY <2>1, <2>2, AcknowledgedWork
  <2> HIDE DEF a
  <2>4. /\ SameRecv(t, a) /\ Total(a) = Total(k) /\ a.snd_nxt = t.snd_nxt /\ a.sflags = "None"
        /\ a.shutdown = t.shutdown
        /\ a.state = k.state \/ (a.state = "CLOSED" /\ t.snd_una # t.snd_nxt)
    BY <2>2, <2>3 DEF Acks, SameRecv
  <2>5. a.rcv_nxt = t.rcv_nxt /\ a.rbuf = t.rbuf
    BY <2>4 DEF SameRecv
  <2>6. CASE a.state = "CLOSED"
    <3>1. ~(t.state = "LISTEN")
      <4>1. t.snd_una # t.snd_nxt
        BY <2>2, <2>4, <2>6
      <4>2. Total(t) # 0
        BY <1>2, <4>1
      <4> QED BY <4>2
    <3>2. Total(a) = Total(t)
      BY <2>2, <2>4, <3>1
    <3>3. Progress(t, a, seg)
      BY <1>2, <1>5, <2>4, <2>5, <2>6, <3>2 DEF Progress, Moves, Answers, SameBase
    <3>4. Process(t, seg, idle) = a
      BY <2>6, <2>p
    <3> QED BY <2>3, <3>3, <3>4
  <2>7. CASE a.state # "CLOSED"
    <3>1. /\ Work(r, p, A, B) /\ SameBuffers(a, r)
          /\ r.state = a.state \/ (a.state = "SYN_RECEIVED" /\ r.state = "ESTABLISHED")
      BY <2>3, <2>7, NotifyWork
    <3> HIDE DEF r
    <3>2. /\ r.rcv_nxt = t.rcv_nxt /\ r.rbuf = t.rbuf /\ r.shutdown = t.shutdown /\ r.sflags = "None"
          /\ r.snd_nxt = t.snd_nxt /\ Total(r) = Total(k)
      BY <2>4, <2>5, <3>1 DEF SameBuffers, SameRecv, SameSend, Total
    <3>3. Work(s, p, A, B) /\ Stores(r, s, seg)
      BY <3>1, <3>2, StoredWork
    <3> HIDE DEF s
    <3>4. /\ t.rcv_nxt <= s.rcv_nxt /\ SameBase(t, s) /\ (seg.ctrl => s.rcv_nxt > 0)
          /\ s.shutdown = t.shutdown /\ s.state = r.state /\ s.snd_nxt = t.snd_nxt /\ Total(s) = Total(k)
      <4>1. t.rcv_nxt <= s.rcv_nxt /\ SameBase(t, s) /\ (seg.ctrl => s.rcv_nxt > 0)
        BY <3>2, <3>3 DEF Stores, SameBase
      <4>2. SameSend(r, s) /\ SameMode(r, s)
        BY <3>3 DEF Stores, RestKept
      <4> QED BY <3>2, <4>1, <4>2 DEF SameSend, SameMode, Total
    <3>5. f \in {"None", "Immediate", "Delayed"}
      BY FlagsType
    <3> HIDE DEF f
    <3>6. Work(v, p, A, B) /\ Sends(s, v) /\ v.sflags = "None"
      BY <3>3, <3>5, AttemptSendWork
    <3> HIDE DEF v
    <3>7. /\ v.rcv_nxt = s.rcv_nxt /\ v.rbuf = s.rbuf /\ v.shutdown = t.shutdown /\ v.state = r.state
          /\ t.snd_nxt <= v.snd_nxt /\ Total(v) = Total(k)
      BY <3>4, <3>6 DEF Sends, SameRecv, SameMode
    <3> HIDE DEF fresh
    <3>8. Work(u, p, A, B) /\ SameBuffers(v, u) /\ u.state = v.state
      BY <3>6, ReadableWork
    <3> HIDE DEF u
    <3>9. /\ u.rcv_nxt = s.rcv_nxt /\ u.rbuf = s.rbuf /\ u.shutdown = t.shutdown /\ u.state = r.state
          /\ t.snd_nxt <= u.snd_nxt /\ Total(u) = Total(k) /\ u.sflags = "None"
      BY <3>6, <3>7, <3>8 DEF SameBuffers, SameRecv, SameSend, Total
    <3>10. SameBase(t, u) /\ t.rcv_nxt <= u.rcv_nxt /\ (seg.ctrl => u.rcv_nxt > 0)
      BY <3>4, <3>9 DEF SameBase
    <3>11. a.state = k.state
      BY <2>4, <2>7
    <3>12. Moves(t, u, seg)
      BY <2>2, <3>1, <3>9, <3>11 DEF Moves
    <3>13. Answers(t, u, seg)
      <4>1. u.state = k.state \/ (k.state = "SYN_RECEIVED" /\ u.state = "ESTABLISHED")
        BY <3>1, <3>9, <3>11
      <4>2. CASE seg.ctrl /\ t.state = "LISTEN" /\ k.state = "SYN_RECEIVED" /\ Total(k) = 1
        BY <3>9, <3>10, <4>1, <4>2 DEF Answers
      <4>3. CASE Total(k) = Total(t)
        BY <3>9, <4>3 DEF Answers
      <4> QED BY <2>2, <4>2, <4>3
    <3>14. Progress(t, u, seg)
      BY <1>5, <3>9, <3>10, <3>12, <3>13 DEF Progress
    <3>15. Process(t, seg, idle) = u
      BY <2>7, <2>p
    <3> QED BY <3>8, <3>14, <3>15
  <2> QED BY <2>6, <2>7
<1> QED BY <1>4, <1>5

-----------------------------------------------------------------------------
(* The steps of the whole connection.                                      *)

\* What an end and the other one are, by the invariant
LEMMA Facing ==
  ASSUME TcpInv, NEW e \in Ends
  PROVE  /\ Peer(e) \in Ends /\ Peer(e) # e /\ Ends = {e, Peer(e)}
         /\ Work(tcb[e], tcb[Peer(e)], Held(net[e]), Held(net[Peer(e)]))
         /\ tcb[e].sflags = "None" /\ tcb[e].out = <<>>
         /\ net[e] \in Seq(PacketRecord) /\ net[Peer(e)] \in Seq(PacketRecord)
<1>1. Peer(e) \in Ends /\ Peer(e) # e /\ Ends = {e, Peer(e)}
  BY DEF Ends, Peer
<1>2. Pair(tcb[e], tcb[Peer(e)], Held(net[e]), Held(net[Peer(e)]))
  <2>1. Pair(tcb["client"], tcb["server"], Held(net["client"]), Held(net["server"]))
    BY DEF TcpInv
  <2>2. CASE e = "client"
    BY <2>1, <2>2 DEF Peer
  <2>3. CASE e = "server"
    BY <2>1, <2>3, PairTurned DEF Peer
  <2> QED BY <2>2, <2>3 DEF Ends
<1>3. tcb[e].sflags = "None" /\ tcb[e].out = <<>>
  BY DEF TcpInv
<1>4. net[e] \in Seq(PacketRecord) /\ net[Peer(e)] \in Seq(PacketRecord)
  BY <1>1 DEF TcpInv
<1>5. Held(net[Peer(e)]) \cup Held(tcb[e].out) = Held(net[Peer(e)])
  BY <1>3, ShortQueues
<1> QED BY <1>1, <1>2, <1>3, <1>4, <1>5 DEF Work

\* The packets a handler of e has written are under way, and no other is new.
Carried(e, u) ==
  /\ net' = [x \in Ends |-> net'[x]]
  /\ net'[e] \in Seq(PacketRecord) /\ Held(net'[e]) \subseteq Held(net[e])
  /\ net'[Peer(e)] = net[Peer(e)] \o u.out

\* An end after its handler
OutTcb(u) == [u EXCEPT !.out = <<>>]
Left(u, w) ==
  /\ SameSend(u, w) /\ SameRecv(u, w) /\ SameMode(u, w) /\ SameRest(u, w) /\ w.out = <<>>

\* What it keeps
LEMMA OutRecord ==
  ASSUME NEW u \in Tcb
  PROVE  OutTcb(u) \in Tcb /\ Left(u, OutTcb(u))
<1>0. <<>> \in Seq(PacketRecord)
  OBVIOUS
<1>1. OutTcb(u) \in Tcb
  BY <1>0 DEF OutTcb, Tcb
<1>2. Left(u, OutTcb(u))
  BY DEF OutTcb, Tcb, Left, SameSend, SameRecv, SameMode, SameRest
<1> QED BY <1>1, <1>2

\* The pair after a handler of one end
LEMMA OutWork ==
  ASSUME NEW u, NEW p, NEW A, NEW B, Work(u, p, A, B)
  PROVE  Pair(OutTcb(u), p, A, B \cup Held(u.out)) /\ Left(u, OutTcb(u))
<1>1. u \in Tcb /\ End(u) /\ Timed(u)
  BY DEF Work, Pair, End
<1> DEFINE w == OutTcb(u)
<1>2. w \in Tcb /\ Left(u, w)
  BY <1>1, OutRecord
<1> HIDE DEF w
<1>3. SameSend(u, w) /\ SameRecv(u, w) /\ SameMode(u, w) /\ SameRest(u, w)
  BY <1>2 DEF Left
<1>4. Timed(w)
  BY <1>1, <1>3 DEF Timed, SameSend, SameMode, SameRest
<1>5. Pair(u, p, A, B \cup Held(u.out))
  BY DEF Work
<1>6. End(w)
  <2>1. Total(w) = Total(u) /\ Edge(w) = Edge(u) /\ Room(w) = Room(u)
    BY <1>3 DEF SameSend, SameRecv, Total, Edge, Room
  <2>2. Sender(w)
    BY <1>1, <1>3, <2>1 DEF End, Sender, SameSend, Mark
  <2>3. Receiver(w)
    BY <1>1, <1>3, <2>1 DEF End, Receiver, SameRecv
  <2> QED BY <1>2, <1>4, <2>2, <2>3 DEF End
<1>7. Flow(p, w)
  BY <1>3, <1>5 DEF Pair, Flow, SameRecv, Edge
<1>8. u.rcv_nxt <= w.rcv_nxt /\ Edge(u) <= Edge(w)
  <2>1. w.rcv_nxt = u.rcv_nxt /\ Edge(w) = Edge(u)
    BY <1>3 DEF SameRecv, Edge
  <2>2. u.rcv_nxt \in Nat /\ Edge(u) \in Nat
    BY <1>1, EndNumbers
  <2> QED BY <2>1, <2>2
<1>9. Pair(w, p, A, B \cup Held(u.out))
  BY <1>3, <1>5, <1>6, <1>7, <1>8, PairRecv
<1> QED BY <1>2, <1>9 DEF w

\* A handler of one end is done.
LEMMA EndStep ==
  ASSUME TcpInv, NEW e \in Ends, NEW u, Work(u, tcb[Peer(e)], Held(net[e]), Held(net[Peer(e)])),
         u.sflags = "None", tcb' = [tcb EXCEPT ![e] = OutTcb(u)], Carried(e, u), Roles', Counts'
  PROVE  TcpInv'
<1> DEFINE p == tcb[Peer(e)]
           w == OutTcb(u)
<1>1. /\ Peer(e) \in Ends /\ Peer(e) # e /\ Ends = {e, Peer(e)} /\ net[Peer(e)] \in Seq(PacketRecord)
  BY Facing
<1>2. tcb = [x \in Ends |-> tcb[x]] /\ \A x \in Ends : tcb[x].out = <<>> /\ tcb[x].sflags = "None"
  BY DEF TcpInv
<1>3. Pair(w, p, Held(net[e]), Held(net[Peer(e)]) \cup Held(u.out)) /\ Left(u, w)
  BY OutWork
<1> HIDE DEF w, p
<1>4. tcb' = [x \in Ends |-> tcb'[x]] /\ tcb'[e] = w /\ tcb'[Peer(e)] = p
  BY <1>1, <1>2 DEF w, p
<1>5. w.out = <<>> /\ w.sflags = "None" /\ p.out = <<>> /\ p.sflags = "None"
  <2>1. w.out = <<>> /\ w.sflags = "None"
    BY <1>3 DEF Left, SameRest
  <2>2. p.out = <<>> /\ p.sflags = "None"
    BY <1>1, <1>2 DEF p
  <2> QED BY <2>1, <2>2
<1>6. u.out \in Seq(PacketRecord)
  <2>1. u \in Tcb
    BY DEF Work, Pair, End
  <2> QED BY <2>1 DEF Tcb
<1>7. /\ net'[Peer(e)] \in Seq(PacketRecord) /\ net'[e] \in Seq(PacketRecord)
      /\ Held(net'[Peer(e)]) = Held(net[Peer(e)]) \cup Held(u.out) /\ Held(net'[e]) \subseteq Held(net[e])
  <2>1. net[Peer(e)] \o u.out \in Seq(PacketRecord)
        /\ Held(net[Peer(e)] \o u.out) = Held(net[Peer(e)]) \cup Held(u.out)
    BY <1>1, <1>6, ConcatQueues
  <2> QED BY <2>1 DEF Carried
<1>8. net' \in [Ends -> Seq(PacketRecord)]
  <2>1. net' = [x \in Ends |-> net'[x]]
    BY DEF Carried
  <2>2. \A x \in Ends : net'[x] \in Seq(PacketRecord)
    BY <1>1, <1>7
  <2> QED BY <2>1, <2>2
<1>9. Pair(w, p, Held(net'[e]), Held(net'[Peer(e)]))
  BY <1>3, <1>7, PairFewer
<1>10. Pair(tcb'["client"], tcb'["server"], Held(net'["client"]), Held(net'["server"]))
  <2>1. CASE e = "client"
    BY <1>4, <1>9, <2>1 DEF Peer
  <2>2. CASE e = "server"
    BY <1>4, <1>9, <2>2, PairTurned DEF Peer
  <2> QED BY <2>1, <2>2 DEF Ends
<1>11. \A x \in Ends : tcb'[x].out = <<>> /\ tcb'[x].sflags = "None"
  BY <1>1, <1>4, <1>5
<1>12. (\A x \in Ends : tcb[x].out = <<>> /\ tcb[x].sflags = "None")'
  BY <1>11
<1>13. Pair(tcb["client"], tcb["server"], Held(net["client"]), Held(net["server"]))'
  BY <1>10 DEF Pair, End, Sender, Receiver, Flow, PacketOK, Timed, Held
<1> QED BY <1>4, <1>8, <1>12, <1>13 DEF TcpInv

\* Become, for the invariant
LEMMA BecomeStep ==
  ASSUME TcpInv, NEW e \in Ends, NEW u, Become(e, u)
  PROVE  tcb' = [tcb EXCEPT ![e] = OutTcb(u)] /\ Carried(e, u)
<1>1. Peer(e) \in Ends /\ Peer(e) # e /\ Ends = {e, Peer(e)} /\ net[e] \in Seq(PacketRecord)
  BY Facing
<1>2. net \in [Ends -> Seq(PacketRecord)]
  BY DEF TcpInv
<1>3. net' = [net EXCEPT ![Peer(e)] = net[Peer(e)] \o u.out]
  BY DEF Become
<1>4. net'[e] = net[e] /\ net'[Peer(e)] = net[Peer(e)] \o u.out
  BY <1>1, <1>2, <1>3
<1>5. net' = [x \in Ends |-> net'[x]]
  BY <1>1, <1>2, <1>3
<1>6. Carried(e, u)
  BY <1>1, <1>4, <1>5 DEF Carried
<1> QED BY <1>6 DEF Become, OutTcb

\* The channel may delete an end.
LEMMA AdjustWork ==
  ASSUME NEW t, NEW p, NEW A, NEW B, Work(t, p, A, B)
  PROVE  /\ Work(AdjustClock(t), p, A, B) /\ SameBuffers(t, AdjustClock(t))
         /\ AdjustClock(t).state = t.state
<1> DEFINE u == [t EXCEPT !.deleted = TRUE]
<1>1. t \in Tcb
  BY DEF Work, Pair, End
<1>2. u \in Tcb
  BY <1>1 DEF Tcb
<1>3. SameBuffers(t, u) /\ u.rto = t.rto /\ u.state = t.state
  BY <1>1 DEF Tcb, SameBuffers, SameSend, SameRecv
<1> HIDE DEF u
<1>4. Work(u, p, A, B)
  <2>1. SameSend(t, u) /\ SameRecv(t, u) /\ u.out = t.out /\ u.recover = t.recover
    BY <1>3 DEF SameBuffers
  <2>2. Timed(u)
    BY <1>2, <1>3, <2>1, TimedSame
  <2> QED BY <1>2, <2>1, <2>2, WorkSame
<1>5. AdjustClock(t) = t \/ AdjustClock(t) = u
  BY DEF AdjustClock, u
<1>6. SameBuffers(t, t)
  BY DEF SameBuffers, SameSend, SameRecv
<1> QED BY <1>3, <1>4, <1>5, <1>6

\* The client goes on within its role.
LEMMA ClientGoesOn ==
  ASSUME Roles, UNCHANGED <<written, read>>, NEW w, tcb'["client"] = w, tcb'["server"] = tcb["server"],
         Total(w) = Total(tcb["client"]),
         \/ w.state = tcb["client"].state
         \/ w.state = "CLOSED"
         \/ tcb["client"].state = "SYN_SENT" /\ w.state = "ESTABLISHED" /\ tcb["server"].snd_nxt > 0
  PROVE  Roles'
<1>1. ReadOK(tcb["server"])'
  BY DEF Roles, ReadOK
<1>2. ServerRole(tcb["server"])'
  BY DEF Roles, Handshake, ServerRole, Total
<1>3. ClientRole(w)'
  BY DEF Roles, Handshake, ClientRole, Total
<1>4. ClientRole(tcb["client"])'
  BY <1>3 DEF ClientRole
<1>5. w.state = "ESTABLISHED" \/ written > 0 => tcb["server"].snd_nxt > 0
  BY DEF Roles, Handshake
<1>6. Handshake(tcb["client"], tcb["server"])'
  BY <1>2, <1>4, <1>5 DEF Handshake
<1> QED BY <1>1, <1>6 DEF Roles

\* The bytes read, as far as the numbers tell
LEMMA SameReads ==
  ASSUME NEW s, NEW w, End(s), End(w), SameBase(s, w)
  PROVE  1..(s.rcv_nxt - 1 - Len(s.rbuf)) = 1..(w.rcv_nxt - 1 - Len(w.rbuf))
<1>0. /\ s.rcv_nxt \in Nat /\ Len(s.rbuf) \in Nat /\ w.rcv_nxt \in Nat /\ Len(w.rbuf) \in Nat
  BY EndNumbers
<1>1. CASE w.rcv_nxt - Len(w.rbuf) = s.rcv_nxt - Len(s.rbuf)
  <2>1. w.rcv_nxt - 1 - Len(w.rbuf) = s.rcv_nxt - 1 - Len(s.rbuf)
    <3>1. /\ s.rcv_nxt \in Int /\ Len(s.rbuf) \in Int /\ w.rcv_nxt \in Int /\ Len(w.rbuf) \in Int
          /\ w.rcv_nxt - Len(w.rbuf) = s.rcv_nxt - Len(s.rbuf)
      BY <1>0, <1>1
    <3>2. w.rcv_nxt - 1 - Len(w.rbuf) = (w.rcv_nxt - Len(w.rbuf)) - 1
      BY <3>1, SMTT(30)
    <3>3. s.rcv_nxt - 1 - Len(s.rbuf) = (s.rcv_nxt - Len(s.rbuf)) - 1
      BY <3>1
    <3> QED BY <3>1, <3>2, <3>3
  <2> QED BY <2>1
<1>2. CASE s.rcv_nxt = 0 /\ w.rcv_nxt = 1 /\ s.rbuf = <<>> /\ w.rbuf = <<>>
  <2>1. s.rcv_nxt - 1 - Len(s.rbuf) = 0 - 1 /\ w.rcv_nxt - 1 - Len(w.rbuf) = 0
    <3>1. Len(s.rbuf) = 0 /\ Len(w.rbuf) = 0 /\ s.rcv_nxt = 0 /\ w.rcv_nxt = 1
      BY <1>2
    <3> QED BY <3>1
  <2> QED BY <2>1
<1> QED BY <1>1, <1>2 DEF SameBase

\* The server goes on within its role.
LEMMA ServerGoesOn ==
  ASSUME Roles, UNCHANGED <<written, read>>, NEW w, tcb'["client"] = tcb["client"], tcb'["server"] = w,
         NEW s, s = tcb["server"], End(s), End(w),
         s.snd_nxt <= w.snd_nxt, s.rcv_nxt <= w.rcv_nxt, w.shutdown = s.shutdown, SameBase(s, w),
         w.state = s.state \/ w.state \notin {"LISTEN", "SYN_SENT"},
         Total(w) = Total(s) \/ (Total(w) = 1 /\ w.rcv_nxt > 0 /\ w.state # "LISTEN")
  PROVE  Roles'
<1>0. /\ s.rcv_nxt \in Nat /\ Len(s.rbuf) \in Nat /\ w.rcv_nxt \in Nat /\ Len(w.rbuf) \in Nat
      /\ s.snd_nxt \in Nat /\ w.snd_nxt \in Nat /\ Total(s) \in Nat /\ Total(w) \in Nat
  BY EndNumbers
<1>1. ReadOK(tcb["server"])'
  <2>1. read = [i \in 1..(s.rcv_nxt - 1 - Len(s.rbuf)) |-> i]
    BY DEF Roles, ReadOK
  <2>2. 1..(s.rcv_nxt - 1 - Len(s.rbuf)) = 1..(w.rcv_nxt - 1 - Len(w.rbuf))
    BY SameReads
  <2>3. read = [i \in 1..(w.rcv_nxt - 1 - Len(w.rbuf)) |-> i]
    BY <2>1, <2>2
  <2> QED BY <2>3 DEF ReadOK
<1>2. ServerRole(s)
  BY DEF Roles, Handshake
<1>3. ServerRole(w)
  <2>1. Total(w) <= 1 /\ (Total(w) > 0 => w.rcv_nxt > 0)
    BY <1>0, <1>2 DEF ServerRole
  <2> QED BY <1>2, <2>1 DEF ServerRole
<1>4. ServerRole(tcb["server"])'
  BY <1>3 DEF ServerRole, Total
<1>5. ClientRole(tcb["client"])'
  BY DEF Roles, Handshake, ClientRole, Total
<1>6. tcb["client"].state = "ESTABLISHED" \/ written > 0 => w.snd_nxt > 0
  <2>1. tcb["client"].state = "ESTABLISHED" \/ written > 0 => s.snd_nxt > 0
    BY DEF Roles, Handshake
  <2> QED BY <1>0, <2>1
<1>7. Handshake(tcb["client"], tcb["server"])'
  BY <1>4, <1>5, <1>6 DEF Handshake
<1> QED BY <1>1, <1>7 DEF Roles

\* An end that goes on or is closed, with what it has received and with the same bytes to send
Steady(t, w) ==
  /\ w.state \in {t.state, "CLOSED"} /\ Total(w) = Total(t) /\ t.snd_nxt <= w.snd_nxt
  /\ w.rcv_nxt = t.rcv_nxt /\ w.rbuf = t.rbuf

\* Nothing is written or read, and a closed end stays closed.
Onward ==
  /\ UNCHANGED <<written, read>>
  /\ \A x \in Ends : tcb[x].state = "CLOSED" => tcb'[x].state = "CLOSED"

\* Such a handler of either end
LEMMA SteadyStep ==
  ASSUME TcpInv, NEW e \in Ends, NEW u, Work(u, tcb[Peer(e)], Held(net[e]), Held(net[Peer(e)])),
         u.sflags = "None", Become(e, u), UNCHANGED <<written, read>>, Counts',
         Steady(tcb[e], u), e = "server" => u.shutdown = tcb[e].shutdown
  PROVE  TcpInv' /\ Onward
<1> DEFINE t == tcb[e]
           w == OutTcb(u)
<1>1. tcb' = [tcb EXCEPT ![e] = w] /\ Carried(e, u)
  BY BecomeStep
<1>2. Peer(e) \in Ends /\ Peer(e) # e /\ Ends = {e, Peer(e)} /\ tcb = [x \in Ends |-> tcb[x]]
  BY Facing DEF TcpInv
<1>3. End(t) /\ End(u) /\ End(w) /\ Left(u, w)
  <2>1. Work(t, tcb[Peer(e)], Held(net[e]), Held(net[Peer(e)]))
    BY Facing
  <2>2. Pair(w, tcb[Peer(e)], Held(net[e]), Held(net[Peer(e)]) \cup Held(u.out)) /\ Left(u, w)
    BY OutWork
  <2> QED BY <2>1, <2>2 DEF Work, Pair
<1> HIDE DEF w
<1>4. tcb'[e] = w /\ tcb'[Peer(e)] = tcb[Peer(e)]
  BY <1>1, <1>2
<1>5. Steady(t, w) /\ w.shutdown = u.shutdown
  BY <1>3 DEF Steady, Left, SameSend, SameRecv, SameMode, Total
<1>6. Roles
  BY DEF TcpInv
<1>7. Roles'
  <2>1. CASE e = "client"
    BY <1>4, <1>5, <1>6, <2>1, ClientGoesOn DEF Steady, Peer
  <2>2. CASE e = "server"
    <3>1. t = tcb["server"] /\ tcb'["server"] = w /\ tcb'["client"] = tcb["client"]
      BY <1>4, <2>2 DEF Peer
    <3>2. /\ t.rcv_nxt \in Nat /\ w.state \in {t.state, "CLOSED"} /\ Total(w) = Total(t) /\ t.snd_nxt <= w.snd_nxt
          /\ w.rcv_nxt = t.rcv_nxt /\ w.rbuf = t.rbuf /\ w.shutdown = t.shutdown
      BY <1>3, <1>5, <2>2, EndNumbers DEF Steady
    <3> HIDE DEF t
    <3>3. SameBase(t, w) /\ t.rcv_nxt <= w.rcv_nxt /\ (w.state = t.state \/ w.state \notin {"LISTEN", "SYN_SENT"})
      BY <3>2 DEF SameBase
    <3> QED BY <1>3, <1>6, <3>1, <3>2, <3>3, ServerGoesOn
  <2> QED BY <2>1, <2>2 DEF Ends
<1>8. Onward
  <2>1. tcb[e].state = "CLOSED" => tcb'[e].state = "CLOSED"
    BY <1>4, <1>5 DEF Steady
  <2> QED BY <1>2, <1>4, <2>1 DEF Onward
<1> QED BY <1>1, <1>7, <1>8, EndStep DEF w

\* Such a handler, after which the channel may delete the end
LEMMA AdjustedStep ==
  ASSUME TcpInv, NEW e \in Ends, NEW x, Work(x, tcb[Peer(e)], Held(net[e]), Held(net[Peer(e)])),
         x.sflags = "None", Become(e, AdjustClock(x)), UNCHANGED <<written, read>>, Counts',
         Steady(tcb[e], x), e = "server" => x.shutdown = tcb[e].shutdown
  PROVE  TcpInv' /\ Onward
<1> DEFINE u == AdjustClock(x)
<1>1. Work(u, tcb[Peer(e)], Held(net[e]), Held(net[Peer(e)])) /\ SameBuffers(x, u) /\ u.state = x.state
  BY AdjustWork
<1> HIDE DEF u
<1>2. u.sflags = "None" /\ u.shutdown = x.shutdown /\ Steady(tcb[e], u)
  BY <1>1 DEF Steady, SameBuffers, SameSend, SameRecv, Total
<1>3. Become(e, u)
  BY DEF u
<1> QED BY <1>1, <1>2, <1>3, SteadyStep

\* The counts after a step
LEMMA CountsStep ==
  ASSUME Counts, NEW h, Fault(h) \/ UNCHANGED faults, UNCHANGED path, written' \in 0..FileLen
  PROVE  Counts'
<1>1. faults \in 0..MaxFaults /\ MaxFaults \in Nat
  BY Sizes DEF Counts
<1>2. CASE UNCHANGED faults
  BY <1>1, <1>2 DEF Counts
<1>3. CASE Fault(h)
  <2>1. CASE h
    <3>1. faults < MaxFaults /\ faults' = faults + 1
      BY <1>3, <2>1 DEF Fault
    <3>2. faults' \in 0..MaxFaults
      BY <1>1, <3>1
    <3> QED BY <3>2 DEF Counts
  <2>2. CASE ~h
    <3>1. faults' = faults + 0
      BY <1>3, <2>2 DEF Fault
    <3>2. faults' \in 0..MaxFaults
      BY <1>1, <3>1
    <3> QED BY <3>2 DEF Counts
  <2> QED BY <2>1, <2>2
<1> QED BY <1>2, <1>3

\* Only packets are lost or repeated.
LEMMA NetStep ==
  ASSUME TcpInv, UNCHANGED <<tcb, written, read>>, Counts', net' = [x \in Ends |-> net'[x]],
         \A x \in Ends : net'[x] \in Seq(PacketRecord) /\ Held(net'[x]) \subseteq Held(net[x])
  PROVE  TcpInv' /\ Onward
<1>1. Pair(tcb["client"], tcb["server"], Held(net["client"]), Held(net["server"]))
  BY DEF TcpInv
<1>2. Pair(tcb["client"], tcb["server"], Held(net'["client"]), Held(net'["server"]))
  <2>1. Held(net'["client"]) \subseteq Held(net["client"]) /\ Held(net'["server"]) \subseteq Held(net["server"])
    BY DEF Ends
  <2> QED BY <1>1, <2>1, PairFewer
<1>3. Pair(tcb["client"], tcb["server"], Held(net["client"]), Held(net["server"]))'
  BY <1>2 DEF Held
<1>4. net' \in [Ends -> Seq(PacketRecord)]
  OBVIOUS
<1>5. Roles'
  BY DEF TcpInv, Roles, Handshake, ClientRole, ServerRole, ReadOK, Total
<1>6. tcb' = [x \in Ends |-> tcb'[x]] /\ \A x \in Ends : tcb'[x].out = <<>> /\ tcb'[x].sflags = "None"
  BY DEF TcpInv
<1>7. (\A x \in Ends : tcb[x].out = <<>> /\ tcb[x].sflags = "None")'
  BY <1>6
<1> QED BY <1>3, <1>4, <1>5, <1>6, <1>7 DEF TcpInv, Onward

\* Loss
LEMMA LoseStep ==
  ASSUME TcpInv, NEW e \in Ends, Lose(e)
  PROVE  TcpInv' /\ Onward
<1>1. net \in [Ends -> Seq(PacketRecord)] /\ Counts
  BY DEF TcpInv
<1>2. net[e] # <<>> /\ net' = [net EXCEPT ![e] = Tail(net[e])] /\ UNCHANGED <<tcb, path, written, read>>
      /\ Fault(TRUE)
  BY DEF Lose
<1>3. Tail(net[e]) \in Seq(PacketRecord) /\ Held(Tail(net[e])) \subseteq Held(net[e])
  <2>1. net[e] \in Seq(PacketRecord) /\ net[e] # <<>>
    BY <1>1, <1>2
  <2> QED BY <2>1, TailQueue
<1>4. net' = [x \in Ends |-> net'[x]]
      /\ \A x \in Ends : net'[x] \in Seq(PacketRecord) /\ Held(net'[x]) \subseteq Held(net[x])
  BY <1>1, <1>2, <1>3
<1>5. Counts'
  <2>1. written' \in 0..FileLen
    BY <1>1, <1>2 DEF Counts
  <2> QED BY <1>1, <1>2, <2>1, CountsStep
<1> QED BY <1>2, <1>4, <1>5, NetStep

\* Repetition
LEMMA DuplicateStep ==
  ASSUME TcpInv, NEW e \in Ends, Duplicate(e)
  PROVE  TcpInv' /\ Onward
<1>1. net \in [Ends -> Seq(PacketRecord)] /\ Counts
  BY DEF TcpInv
<1>2. net[e] # <<>> /\ net' = [net EXCEPT ![e] = Append(net[e], Head(net[e]))]
      /\ UNCHANGED <<tcb, path, written, read>> /\ Fault(TRUE)
  BY DEF Duplicate
<1>3. Append(net[e], Head(net[e])) \in Seq(PacketRecord) /\ Held(Append(net[e], Head(net[e]))) \subseteq Held(net[e])
  <2>1. net[e] \in Seq(PacketRecord) /\ net[e] # <<>>
    BY <1>1, <1>2
  <2>2. Head(net[e]) \in PacketRecord /\ Head(net[e]) \in Held(net[e])
    BY <2>1, TailQueue
  <2>3. /\ Append(net[e], Head(net[e])) \in Seq(PacketRecord)
        /\ Held(Append(net[e], Head(net[e]))) = Held(net[e]) \cup {Head(net[e])}
    BY <2>1, <2>2, AppendQueue
  <2> QED BY <2>2, <2>3
<1>4. net' = [x \in Ends |-> net'[x]]
      /\ \A x \in Ends : net'[x] \in Seq(PacketRecord) /\ Held(net'[x]) \subseteq Held(net[x])
  BY <1>1, <1>2, <1>3
<1>5. Counts'
  <2>1. written' \in 0..FileLen
    BY <1>1, <1>2 DEF Counts
  <2> QED BY <1>1, <1>2, <2>1, CountsStep
<1> QED BY <1>2, <1>4, <1>5, NetStep

\* Packets for a deleted end
LEMMA DiscardStep ==
  ASSUME TcpInv, NEW e \in Ends, Discard(e)
  PROVE  TcpInv' /\ Onward
<1>1. net \in [Ends -> Seq(PacketRecord)] /\ Counts
  BY DEF TcpInv
<1>2. net' = [net EXCEPT ![e] = <<>>] /\ UNCHANGED <<tcb, path, written, read, faults>>
  BY DEF Discard
<1>3. <<>> \in Seq(PacketRecord) /\ Held(<<>>) \subseteq Held(net[e])
  BY ShortQueues
<1>4. net' = [x \in Ends |-> net'[x]]
      /\ \A x \in Ends : net'[x] \in Seq(PacketRecord) /\ Held(net'[x]) \subseteq Held(net[x])
  BY <1>1, <1>2, <1>3
<1>5. Counts'
  BY <1>1, <1>2 DEF Counts
<1> QED BY <1>2, <1>4, <1>5, NetStep

\* Another route, and no step at all
LEMMA OtherSteps ==
  ASSUME TcpInv, RouteChange \/ UNCHANGED vars
  PROVE  TcpInv' /\ Onward
<1>1. net \in [Ends -> Seq(PacketRecord)] /\ Counts
  BY DEF TcpInv
<1>2. UNCHANGED <<tcb, net, written, read>>
  BY DEF RouteChange, vars
<1>3. net' = [x \in Ends |-> net'[x]]
      /\ \A x \in Ends : net'[x] \in Seq(PacketRecord) /\ Held(net'[x]) \subseteq Held(net[x])
  BY <1>1, <1>2
<1>4. Counts'
  <2>1. CASE UNCHANGED vars
    BY <1>1, <2>1 DEF Counts, vars
  <2>2. CASE RouteChange
    <3>1. path' \in NoRoute..Mss /\ faults < MaxFaults /\ faults' = faults + 1 /\ written' = written
      BY <2>2 DEF RouteChange, Fault
    <3>2. faults' \in 0..MaxFaults /\ written' \in 0..FileLen
      BY <1>1, <3>1, Sizes DEF Counts
    <3> QED BY <3>1, <3>2 DEF Counts
  <2> QED BY <2>1, <2>2
<1> QED BY <1>2, <1>3, <1>4, NetStep

\* Retransmission when the timer runs out: then something is unacknowledged.
LEMMA ClockRtoStep ==
  ASSUME TcpInv, NoWrap, NEW e \in Ends, ClockRto(e)
  PROVE  TcpInv' /\ Onward
<1> DEFINE t == tcb[e]
           p == tcb[Peer(e)]
           A == Held(net[e])
           B == Held(net[Peer(e)])
           x == Retransmit(t)
           y == [x EXCEPT !.ssthresh = HalfFlight(x), !.cwnd = x.mss]
           z == IF x.state = "CLOSED" THEN x ELSE y
<1>1. Work(t, p, A, B) /\ t.sflags = "None"
  BY Facing
<1>2. Counts /\ path \in NoRoute..Mss
  BY DEF TcpInv, Counts
<1>3. t.state # "CLOSED" /\ t.rto /\ Fault(~Quiet) /\ Become(e, AdjustClock(z)) /\ UNCHANGED <<path, written, read>>
  BY DEF ClockRto, Live
<1>4. Counts'
  <2>1. written' \in 0..FileLen
    BY <1>2, <1>3 DEF Counts
  <2> QED BY <1>2, <1>3, <2>1, CountsStep
<1> HIDE DEF t, p, A, B
<1>5. t.snd_una # t.snd_nxt
  <2>1. Timed(t)
    BY <1>1 DEF Work, Pair, End
  <2> QED BY <1>3, <2>1 DEF Timed
<1>6. Work(x, p, A, B) /\ Acks(t, x)
  BY <1>1, <1>2, <1>5, RetransmitWork
<1> HIDE DEF x
<1>7. x \in Tcb /\ x.recover <= x.snd_nxt /\ x.snd_nxt \in Nat
  BY <1>6, EndNumbers DEF Work, Pair, End, Timed
<1>8. Work(y, p, A, B) /\ Acks(x, y)
  <2>1. /\ x.dup_acks \in 0..DupMax /\ x.recover \in Nat /\ HalfFlight(x) \in Nat \ {0}
    BY <1>7, WindowNumbers
  <2>2. x.mss \in 1..CwndMax
    <3>1. x.mss \in 1..Mss
      BY <1>7 DEF Tcb
    <3> QED BY <3>1, Sizes
  <2> PICK h \in Nat \ {0} : h = HalfFlight(x)
    BY <2>1
  <2>3. y = TuneTcb(x, x.dup_acks, x.recover, h, x.mss)
    BY <1>7 DEF TuneTcb, Tcb
  <2> QED BY <1>6, <1>7, <2>1, <2>2, <2>3, TuneWork
<1> HIDE DEF y
<1>9. Work(z, p, A, B) /\ z.sflags = "None" /\ z.shutdown = t.shutdown /\ Steady(t, z)
  <2>1. x.snd_nxt = t.snd_nxt /\ x.sflags = "None" /\ x.shutdown = t.shutdown /\ Total(x) = Total(t)
        /\ x.rcv_nxt = t.rcv_nxt /\ x.rbuf = t.rbuf /\ x.state \in {t.state, "CLOSED"}
    BY <1>1, <1>6 DEF Acks, SameRecv
  <2>2. y.snd_nxt = t.snd_nxt /\ y.sflags = "None" /\ y.shutdown = t.shutdown /\ Total(y) = Total(t)
        /\ y.rcv_nxt = t.rcv_nxt /\ y.rbuf = t.rbuf /\ y.state \in {x.state, "CLOSED"}
    BY <1>8, <2>1 DEF Acks, SameRecv
  <2>3. t.snd_nxt <= t.snd_nxt
    BY <1>7, <2>1
  <2>4. CASE z = x
    BY <1>6, <2>1, <2>3, <2>4 DEF Steady
  <2>5. CASE z = y
    BY <1>8, <2>1, <2>2, <2>3, <2>5 DEF Steady
  <2> QED BY <2>4, <2>5
<1> HIDE DEF z
<1>10. /\ Work(z, tcb[Peer(e)], Held(net[e]), Held(net[Peer(e)])) /\ Steady(tcb[e], z)
       /\ z.shutdown = tcb[e].shutdown
  BY <1>9 DEF t, p, A, B
<1> QED BY <1>3, <1>4, <1>9, <1>10, AdjustedStep

\* An acknowledgement or a probe keeps an end.
LEMMA AckSteady ==
  ASSUME NEW t, NEW p, NEW A, NEW B, Work(t, p, A, B), NoWrap, NEW seq \in Nat, seq < SeqSpace
  PROVE  LET x == Packet(t, seq, FALSE, 0, 0)
         IN Work(x, p, A, B) /\ Steady(t, x) /\ x.sflags = t.sflags /\ x.shutdown = t.shutdown
<1> DEFINE x == Packet(t, seq, FALSE, 0, 0)
<1>1. Work(x, p, A, B) /\ SameSend(t, x) /\ SameRecv(t, x) /\ SameMode(t, x) /\ SameRest(t, x)
  BY AckWork
<1>2. t.snd_nxt \in Nat
  BY EndNumbers DEF Work, Pair
<1> HIDE DEF x
<1>3. Steady(t, x) /\ x.sflags = t.sflags /\ x.shutdown = t.shutdown
  BY <1>1, <1>2 DEF Steady, SameSend, SameRecv, SameMode, SameRest, Total
<1> QED BY <1>1, <1>3 DEF x

\* A probe of a closed window
LEMMA ClockProbeStep ==
  ASSUME TcpInv, NoWrap, NEW e \in Ends, ClockProbe(e)
  PROVE  TcpInv' /\ Onward
<1> DEFINE t == tcb[e]
           p == tcb[Peer(e)]
           A == Held(net[e])
           B == Held(net[Peer(e)])
           x == Packet(t, Sub(t.snd_nxt, 1), FALSE, 0, 0)
<1>1. Work(t, p, A, B) /\ t.sflags = "None" /\ End(t)
  BY Facing DEF Work, Pair
<1>2. Counts
  BY DEF TcpInv
<1>3. UNCHANGED <<path, written, read>> /\ Fault(~Quiet) /\ Become(e, AdjustClock(x))
  BY DEF ClockProbe
<1>4. Counts'
  <2>1. written' \in 0..FileLen
    BY <1>2, <1>3 DEF Counts
  <2> QED BY <1>2, <1>3, <2>1, CountsStep
<1> HIDE DEF t, p, A, B
<1>5. t.snd_nxt \in Nat
  BY <1>1, EndNumbers
<1>6. Work(x, p, A, B) /\ Steady(t, x) /\ x.sflags = "None" /\ x.shutdown = t.shutdown
  <2>1. Sub(t.snd_nxt, 1) \in 0..SeqSpace - 1
    <3>1. t.snd_nxt \in Int /\ 1 \in Int
      BY <1>5
    <3> QED BY <3>1, SmallNumbers
  <2>2. Sub(t.snd_nxt, 1) \in Nat /\ Sub(t.snd_nxt, 1) < SeqSpace
    BY <2>1, Sizes
  <2> QED BY <1>1, <2>2, AckSteady
<1> HIDE DEF x
<1>7. Work(x, tcb[Peer(e)], Held(net[e]), Held(net[Peer(e)])) /\ Steady(tcb[e], x) /\ x.shutdown = tcb[e].shutdown
  BY <1>6 DEF t, p, A, B
<1> QED BY <1>3, <1>4, <1>6, <1>7, AdjustedStep

\* The end after a long silence
LEMMA ClockAbortStep ==
  ASSUME TcpInv, NEW e \in Ends, ClockAbort(e)
  PROVE  TcpInv' /\ Onward
<1> DEFINE t == tcb[e]
           p == tcb[Peer(e)]
           A == Held(net[e])
           B == Held(net[Peer(e)])
           y == StateTcb(t, "CLOSED")
<1>1. Work(t, p, A, B) /\ t.sflags = "None" /\ End(t)
  BY Facing DEF Work, Pair
<1>2. Counts
  BY DEF TcpInv
<1>3. UNCHANGED <<path, written, read>> /\ Fault(path # NoRoute) /\ Become(e, AdjustClock(y))
  BY DEF ClockAbort, StateTcb
<1>4. Counts'
  <2>1. written' \in 0..FileLen
    BY <1>2, <1>3 DEF Counts
  <2> QED BY <1>2, <1>3, <2>1, CountsStep
<1> HIDE DEF t, p, A, B
<1>5. t \in Tcb /\ t.snd_nxt \in Nat
  BY <1>1, EndNumbers DEF End
<1>6. Work(y, p, A, B) /\ Steady(t, y) /\ y.sflags = "None" /\ y.shutdown = t.shutdown
  <2>1. y \in Tcb /\ SameBuffers(t, y) /\ y.state = "CLOSED"
    BY <1>5, StateRecord DEF StateNames
  <2> HIDE DEF y
  <2>2. Work(y, p, A, B)
    BY <1>1, <2>1, QuietWork
  <2>3. Steady(t, y) /\ y.sflags = "None" /\ y.shutdown = t.shutdown
    BY <1>1, <1>5, <2>1 DEF Steady, SameBuffers, SameSend, SameRecv, Total
  <2> QED BY <2>2, <2>3
<1> HIDE DEF y
<1>7. Work(y, tcb[Peer(e)], Held(net[e]), Held(net[Peer(e)])) /\ Steady(tcb[e], y) /\ y.shutdown = tcb[e].shutdown
  BY <1>6 DEF t, p, A, B
<1> QED BY <1>3, <1>4, <1>6, <1>7, AdjustedStep

\* The delayed acknowledgement
LEMMA ClockAckStep ==
  ASSUME TcpInv, NoWrap, NEW e \in Ends, ClockAck(e)
  PROVE  TcpInv' /\ Onward
<1> DEFINE t == tcb[e]
           p == tcb[Peer(e)]
           A == Held(net[e])
           B == Held(net[Peer(e)])
           x == Packet(t, t.snd_nxt, FALSE, 0, 0)
<1>1. Work(t, p, A, B) /\ t.sflags = "None" /\ End(t)
  BY Facing DEF Work, Pair
<1>2. Counts
  BY DEF TcpInv
<1>3. UNCHANGED <<path, written, read, faults>> /\ Become(e, AdjustClock(x))
  BY DEF ClockAck
<1>4. Counts'
  BY <1>2, <1>3 DEF Counts
<1> HIDE DEF t, p, A, B
<1>5. t.snd_nxt \in Nat /\ t.snd_nxt < SeqSpace
  <2>1. t.snd_nxt \in Nat /\ t.snd_nxt <= Total(t) /\ Total(t) \in Nat /\ Total(t) < SeqSpace
    BY <1>1, EndNumbers
  <2> QED BY <2>1, Sizes
<1>6. Work(x, p, A, B) /\ Steady(t, x) /\ x.sflags = "None" /\ x.shutdown = t.shutdown
  BY <1>1, <1>5, AckSteady
<1> HIDE DEF x
<1>7. Work(x, tcb[Peer(e)], Held(net[e]), Held(net[Peer(e)])) /\ Steady(tcb[e], x) /\ x.shutdown = tcb[e].shutdown
  BY <1>6 DEF t, p, A, B
<1> QED BY <1>3, <1>4, <1>6, <1>7, AdjustedStep

\* The client's stream is closed.
LEMMA CloseStep ==
  ASSUME TcpInv, Close
  PROVE  TcpInv' /\ Onward
<1> DEFINE t == tcb["client"]
           p == tcb[Peer("client")]
           A == Held(net["client"])
           B == Held(net[Peer("client")])
           x == [t EXCEPT !.shutdown = "GRACEFUL"]
<1>0. "client" \in Ends
  BY DEF Ends
<1>1. Work(t, p, A, B) /\ t.sflags = "None" /\ End(t)
  BY <1>0, Facing DEF Work, Pair
<1>2. Counts
  BY DEF TcpInv
<1>3. UNCHANGED <<path, written, read, faults>> /\ Become("client", AdjustClock(x))
  BY DEF Close
<1>4. Counts'
  BY <1>2, <1>3 DEF Counts
<1> HIDE DEF t, p, A, B
<1>5. t \in Tcb /\ t.snd_nxt \in Nat
  BY <1>1, EndNumbers
<1>6. x \in Tcb /\ SameSend(t, x) /\ SameRecv(t, x) /\ SameRest(t, x) /\ x.out = t.out /\ x.state = t.state
  BY <1>5 DEF Tcb, SameSend, SameRecv, SameRest
<1> HIDE DEF x
<1>7. Timed(x)
  BY <1>1, <1>6, TimedSame DEF SameRest
<1>8. Work(x, p, A, B)
  BY <1>1, <1>6, <1>7, WorkSame
<1>9. Steady(t, x) /\ x.sflags = "None"
  BY <1>1, <1>5, <1>6 DEF Steady, SameSend, SameRecv, SameRest, Total
<1>10. Work(x, tcb[Peer("client")], Held(net["client"]), Held(net[Peer("client")])) /\ Steady(tcb["client"], x)
  BY <1>8, <1>9 DEF t, p, A, B
<1> QED BY <1>0, <1>3, <1>4, <1>9, <1>10, AdjustedStep

\* Connect, the client's first step
LEMMA ConnectStep ==
  ASSUME TcpInv, NoWrap, Connect
  PROVE  TcpInv' /\ Onward
<1> DEFINE t == tcb["client"]
           p == tcb[Peer("client")]
           A == Held(net["client"])
           B == Held(net[Peer("client")])
           v == StateTcb(t, "SYN_SENT")
           x == QueueConnectMessage(v)
           u == AttemptSend(x, "None", FALSE)
<1>0. "client" \in Ends /\ Peer("client") = "server" /\ "server" \in Ends
  BY DEF Ends, Peer
<1>1. Work(t, p, A, B) /\ t.sflags = "None" /\ End(t)
  BY <1>0, Facing DEF Work, Pair
<1>2. Counts /\ path \in NoRoute..Mss /\ Roles /\ written \in 0..FileLen
  BY DEF TcpInv, Counts
<1>3. t.state = "LISTEN" /\ Become("client", u) /\ UNCHANGED <<path, written, read, faults>>
  BY DEF Connect, StateTcb
<1>4. Total(t) = 0 /\ written = 0
  <2>1. Total(t) = 0 /\ (written > 0 => Total(t) = written + 1)
    BY <1>2, <1>3 DEF Roles, Handshake, ClientRole
  <2> QED BY <1>2, <2>1, Sizes
<1> HIDE DEF t, p, A, B
<1>5. t \in Tcb
  BY <1>1 DEF End
<1>6. v \in Tcb /\ SameBuffers(t, v) /\ v.rto = t.rto /\ v.state = "SYN_SENT"
  BY <1>5, StateRecord DEF StateNames
<1> HIDE DEF v
<1>7. Work(v, p, A, B) /\ Total(v) = 0
  <2>1. Work(v, p, A, B)
    BY <1>1, <1>3, <1>6, QuietWork
  <2> QED BY <1>4, <1>6, <2>1 DEF SameBuffers, SameSend, Total
<1>8. Work(x, p, A, B) /\ ConnectQueued(v, x)
  BY <1>7, ConnectWork
<1> HIDE DEF x
<1>9. Work(u, p, A, B) /\ Sends(x, u) /\ u.sflags = "None"
  BY <1>2, <1>8, AttemptSendWork
<1> HIDE DEF u
<1>10. Total(u) = 1 /\ u.state = "SYN_SENT"
  BY <1>6, <1>8, <1>9 DEF ConnectQueued, Sends, SameMode
<1> DEFINE w == OutTcb(u)
<1>11. tcb' = [tcb EXCEPT !["client"] = w] /\ Carried("client", u)
  BY <1>0, <1>3, BecomeStep
<1>12. Left(u, w)
  BY <1>9, OutWork
<1> HIDE DEF w
<1>13. Total(w) = 1 /\ w.state = "SYN_SENT"
  BY <1>10, <1>12 DEF Left, SameSend, SameMode, Total
<1>14. tcb'["client"] = w /\ tcb'["server"] = tcb["server"]
  <2>1. tcb = [y \in Ends |-> tcb[y]]
    BY DEF TcpInv
  <2> QED BY <1>0, <1>11, <2>1
<1>15. Roles'
  <2>1. ReadOK(tcb["server"])' /\ ServerRole(tcb["server"])'
    BY <1>2, <1>3, <1>14 DEF Roles, Handshake, ReadOK, ServerRole, Total
  <2>2. written' = 0 /\ ~(written' > 0)
    BY <1>3, <1>4
  <2>3. Total(tcb["client"])' = 1 /\ tcb'["client"].state = "SYN_SENT"
    BY <1>13, <1>14 DEF Total
  <2>4. ClientRole(tcb["client"])'
    BY <2>2, <2>3 DEF ClientRole
  <2>5. Handshake(tcb["client"], tcb["server"])'
    BY <2>1, <2>2, <2>3, <2>4 DEF Handshake
  <2> QED BY <2>1, <2>5 DEF Roles
<1>16. Counts'
  BY <1>2, <1>3 DEF Counts
<1>17. Work(u, tcb[Peer("client")], Held(net["client"]), Held(net[Peer("client")]))
  BY <1>9 DEF p, A, B
<1>18. Onward
  <2>1. tcb["client"].state # "CLOSED"
    BY <1>3 DEF t
  <2> QED BY <1>3, <1>14, <2>1 DEF Onward, Ends
<1> QED BY <1>0, <1>9, <1>11, <1>15, <1>16, <1>17, <1>18, EndStep DEF w

\* A queue without one of its packets
LEMMA RemovedQueue ==
  ASSUME NEW M, NEW s \in Seq(M), NEW i \in 1..Len(s)
  PROVE  RemoveAt(s, i) \in Seq(M) /\ Held(RemoveAt(s, i)) \subseteq Held(s)
<1> PICK N \in Nat : N = Len(s)
  OBVIOUS
<1> DEFINE a == SubSeq(s, 1, i - 1)
           b == SubSeq(s, i + 1, N)
<1>1. a \in Seq(M) /\ Len(a) = i - 1 /\ \A j \in 1..(i - 1) : a[j] = s[j]
  <2>1. a \in Seq(M)
    OBVIOUS
  <2>2. Len(a) = i - 1
    OBVIOUS
  <2>3. \A j \in 1..(i - 1) : a[j] = s[j]
    OBVIOUS
  <2> QED BY <2>1, <2>2, <2>3
<1>2. b \in Seq(M) /\ DropOf(b, s, i)
  BY Dropped
<1>3. RemoveAt(s, i) = a \o b
  BY DEF RemoveAt
<1> HIDE DEF a, b
<1>4. Held(a) \subseteq Held(s)
  <2> SUFFICES ASSUME NEW j \in 1..(i - 1)
               PROVE  a[j] \in Held(s)
    BY <1>1 DEF Held
  <2>1. j \in 1..Len(s)
    OBVIOUS
  <2> QED BY <1>1, <2>1 DEF Held
<1>5. Held(b) \subseteq Held(s)
  <2> SUFFICES ASSUME NEW j \in 1..(Len(s) - i)
               PROVE  b[j] \in Held(s)
    BY <1>2 DEF Held, DropOf
  <2>1. j + i \in 1..Len(s)
    OBVIOUS
  <2>2. b[j] = s[j + i]
    BY <1>2 DEF DropOf
  <2> QED BY <2>1, <2>2 DEF Held
<1>6. a \o b \in Seq(M) /\ Held(a \o b) = Held(a) \cup Held(b)
  BY <1>1, <1>2, ConcatQueues
<1> QED BY <1>3, <1>4, <1>5, <1>6

\* Data is up to a number the sender has sent.
LEMMA DataFacts ==
  ASSUME NEW seg, NEW s, NEW r, PacketOK(seg, s, r), End(s)
  PROVE  /\ seg.seq \in Nat /\ Len(seg.data) \in Nat /\ seg.ctrl \in BOOLEAN
         /\ seg.data # <<>> => seg.seq + Len(seg.data) <= Total(s) /\ Len(seg.data) > 0
         /\ seg.data # <<>> => seg.seq + Len(seg.data) <= s.snd_nxt
         /\ seg.data # <<>> => (seg.ctrl <=> seg.seq = 0)
         /\ seg.ctrl => seg.data # <<>> /\ seg.seq = 0 /\ s.snd_nxt > 0
<1>1. seg \in PacketRecord
  BY DEF PacketOK
<1>2. seg.seq \in Nat /\ seg.data \in Seq(Nat) /\ seg.ctrl \in BOOLEAN
  BY <1>1 DEF PacketRecord
<1>3. Len(seg.data) \in Nat /\ (seg.data # <<>> => Len(seg.data) > 0)
  BY <1>2
<1>4. s.snd_nxt \in Nat /\ Total(s) \in Nat /\ s.snd_nxt <= Total(s)
  BY EndNumbers
<1>5. ASSUME seg.data # <<>>
      PROVE  /\ seg.seq + Len(seg.data) <= s.snd_nxt /\ seg.seq + Len(seg.data) <= Total(s)
             /\ (seg.ctrl <=> seg.seq = 0)
  <2>1. Mark(s, seg.seq + Len(seg.data)) /\ (seg.ctrl <=> seg.seq = 0)
    BY <1>5 DEF PacketOK
  <2>2. seg.seq + Len(seg.data) <= s.snd_nxt
    BY <2>1 DEF Mark
  <2>3. seg.seq + Len(seg.data) <= Total(s)
    BY <1>2, <1>3, <1>4, <2>2
  <2> QED BY <2>1, <2>2, <2>3
<1>6. ASSUME seg.ctrl
      PROVE  seg.data # <<>> /\ seg.seq = 0 /\ s.snd_nxt > 0
  <2>1. Len(seg.data) = 1
    BY <1>6 DEF PacketOK
  <2>2. seg.data # <<>>
    BY <2>1
  <2>3. seg.seq = 0 /\ seg.seq + Len(seg.data) <= s.snd_nxt
    BY <1>5, <1>6, <2>2
  <2> QED BY <1>4, <2>1, <2>2, <2>3
<1> QED BY <1>2, <1>3, <1>5, <1>6

\* What the client gets: the server sends its connect message only, and only after the client's.
LEMMA ClientGets ==
  ASSUME TcpInv, NEW seg \in Held(net["client"])
  PROVE  /\ seg.data # <<>> => seg.ctrl
         /\ seg.ctrl => tcb["client"].state # "LISTEN" /\ tcb["server"].snd_nxt > 0
<1> PICK c : c = tcb["client"]
  OBVIOUS
<1> PICK s : s = tcb["server"]
  OBVIOUS
<1>1. PacketOK(seg, s, c) /\ End(s) /\ End(c) /\ Flow(c, s)
  BY DEF TcpInv, Pair
<1>2. /\ seg.seq \in Nat /\ Len(seg.data) \in Nat /\ seg.ctrl \in BOOLEAN
      /\ seg.data # <<>> => seg.seq + Len(seg.data) <= Total(s) /\ Len(seg.data) > 0
      /\ seg.data # <<>> => (seg.ctrl <=> seg.seq = 0)
      /\ seg.ctrl => seg.data # <<>> /\ seg.seq = 0 /\ s.snd_nxt > 0
  BY <1>1, DataFacts
<1>3. ClientRole(c) /\ ServerRole(s)
  BY DEF TcpInv, Roles, Handshake
<1>4. /\ s.snd_nxt \in Nat /\ Total(s) \in Nat /\ s.snd_nxt <= Total(s) /\ s.rcv_nxt \in Nat
      /\ c.snd_nxt \in Nat /\ Total(c) \in Nat /\ c.snd_nxt <= Total(c)
  BY <1>1, EndNumbers
<1>5. ASSUME seg.data # <<>>
      PROVE  seg.ctrl
  <2>1. Total(s) <= 1
    BY <1>3 DEF ServerRole
  <2>2. seg.seq = 0
    BY <1>2, <1>4, <1>5, <2>1
  <2> QED BY <1>2, <1>5, <2>2
<1>6. ASSUME seg.ctrl
      PROVE  c.state # "LISTEN" /\ s.snd_nxt > 0
  <2>1. s.snd_nxt > 0
    BY <1>2, <1>6
  <2>2. Total(s) > 0
    BY <1>4, <2>1
  <2>3. s.rcv_nxt > 0
    BY <1>3, <2>2 DEF ServerRole
  <2>4. s.rcv_nxt <= c.snd_nxt
    BY <1>1 DEF Flow, Mark
  <2>5. Total(c) # 0
    BY <1>4, <2>3, <2>4
  <2> QED BY <1>3, <2>1, <2>5 DEF ClientRole
<1> QED BY <1>5, <1>6

\* What the server gets: bytes of the file only after it has answered the connect message.
LEMMA ServerGets ==
  ASSUME TcpInv, NEW seg \in Held(net["server"])
  PROVE  seg.data # <<>> /\ ~seg.ctrl => tcb["server"].rcv_nxt > 0
<1> SUFFICES ASSUME seg.data # <<>>, ~seg.ctrl
             PROVE  tcb["server"].rcv_nxt > 0
  OBVIOUS
<1> PICK c : c = tcb["client"]
  OBVIOUS
<1> PICK s : s = tcb["server"]
  OBVIOUS
<1>1. PacketOK(seg, c, s) /\ End(s) /\ End(c)
  BY DEF TcpInv, Pair
<1>2. /\ seg.seq \in Nat /\ Len(seg.data) \in Nat
      /\ seg.seq + Len(seg.data) <= Total(c) /\ Len(seg.data) > 0 /\ seg.seq # 0
  BY <1>1, DataFacts
<1>3. /\ s.snd_nxt \in Nat /\ Total(s) \in Nat /\ s.snd_nxt <= Total(s) /\ Total(c) \in Nat
  BY <1>1, EndNumbers
<1>4. Total(c) \in {0, written + 1} /\ written \in Nat
  BY DEF TcpInv, Roles, Handshake, ClientRole, Counts
<1>5. written > 0
  BY <1>2, <1>3, <1>4
<1>6. s.snd_nxt > 0 /\ ServerRole(s)
  BY <1>5 DEF TcpInv, Roles, Handshake
<1>7. Total(s) > 0
  BY <1>3, <1>6
<1> QED BY <1>6, <1>7 DEF ServerRole

\* A packet arrives.
LEMMA NotifyPacketStep ==
  ASSUME TcpInv, NoWrap, NEW e \in Ends, NEW i \in DOMAIN net[e], NEW idle \in BOOLEAN, NotifyPacket(e, i, idle)
  PROVE  TcpInv' /\ Onward
<1> DEFINE t == tcb[e]
           p == tcb[Peer(e)]
           A == Held(net[e])
           B == Held(net[Peer(e)])
           seg == net[e][i]
           x == Process(t, seg, idle)
           u == AdjustClock(x)
           w == OutTcb(u)
<1>0. Peer(e) \in Ends /\ Peer(e) # e /\ Ends = {e, Peer(e)} /\ net[e] \in Seq(PacketRecord)
  BY Facing
<1>1. Work(t, p, A, B) /\ t.sflags = "None" /\ End(t)
  BY Facing DEF Work, Pair
<1>2. Counts /\ path \in NoRoute..Mss /\ Roles /\ net \in [Ends -> Seq(PacketRecord)] /\ tcb = [y \in Ends |-> tcb[y]]
  BY DEF TcpInv, Counts
<1>3. /\ Fault(idle \/ i > 1) /\ tcb' = [tcb EXCEPT ![e] = w] /\ UNCHANGED <<path, written, read>>
      /\ net' = [net EXCEPT ![e] = RemoveAt(net[e], i), ![Peer(e)] = net[Peer(e)] \o u.out]
  BY <1>0, <1>2 DEF NotifyPacket, OutTcb
<1>4. Counts'
  <2>1. written' \in 0..FileLen
    BY <1>2, <1>3 DEF Counts
  <2> QED BY <1>2, <1>3, <2>1, CountsStep
<1>5. seg \in A /\ i \in 1..Len(net[e])
  BY <1>0 DEF Held
<1>6. Carried(e, u)
  <2> HIDE DEF u
  <2>1. RemoveAt(net[e], i) \in Seq(PacketRecord) /\ Held(RemoveAt(net[e], i)) \subseteq Held(net[e])
    BY <1>0, <1>5, RemovedQueue
  <2>2. net'[e] = RemoveAt(net[e], i) /\ net'[Peer(e)] = net[Peer(e)] \o u.out /\ net' = [y \in Ends |-> net'[y]]
    BY <1>0, <1>2, <1>3
  <2> QED BY <2>1, <2>2 DEF Carried
<1>7. t.state = "LISTEN" => Total(t) = 0
  BY <1>2 DEF Roles, Handshake, ClientRole, ServerRole, Ends
<1>8. seg.data # <<>> /\ ~seg.ctrl => t.rcv_nxt > 0 /\ t.shutdown = "NONE"
  <2>1. CASE e = "client"
    BY <1>5, <2>1, ClientGets
  <2>2. CASE e = "server"
    <3>1. t.shutdown = "NONE"
      BY <1>2, <2>2 DEF Roles, Handshake, ServerRole
    <3> QED BY <1>5, <2>2, <3>1, ServerGets
  <2> QED BY <2>1, <2>2 DEF Ends
<1>9. e = "client" => (seg.ctrl => t.state # "LISTEN" /\ tcb["server"].snd_nxt > 0)
  BY <1>5, ClientGets
<1> HIDE DEF seg, t, p, A, B
<1>10. Work(x, p, A, B) /\ Progress(t, x, seg)
  BY <1>1, <1>2, <1>5, <1>7, <1>8, ProcessWork
<1> HIDE DEF x
<1>11. Work(u, p, A, B) /\ SameBuffers(x, u) /\ u.state = x.state
  BY <1>10, AdjustWork
<1> HIDE DEF u
<1>12. Left(u, w) /\ End(w)
  BY <1>11, OutWork DEF Pair
<1> HIDE DEF w
<1>13. /\ w.state = x.state /\ w.shutdown = x.shutdown /\ w.snd_nxt = x.snd_nxt /\ w.rcv_nxt = x.rcv_nxt
       /\ w.rbuf = x.rbuf /\ Total(w) = Total(x)
  <2>1. /\ u.shutdown = x.shutdown /\ u.snd_nxt = x.snd_nxt /\ u.rcv_nxt = x.rcv_nxt
        /\ u.rbuf = x.rbuf /\ Total(u) = Total(x)
    BY <1>11 DEF SameBuffers, SameSend, SameRecv, Total
  <2>2. /\ w.state = u.state /\ w.shutdown = u.shutdown /\ w.snd_nxt = u.snd_nxt /\ w.rcv_nxt = u.rcv_nxt
        /\ w.rbuf = u.rbuf /\ Total(w) = Total(u)
    BY <1>12 DEF Left, SameSend, SameRecv, SameMode, Total
  <2> QED BY <1>11, <2>1, <2>2
<1>14. Moves(t, w, seg) /\ Answers(t, w, seg) /\ SameBase(t, w) /\ w.shutdown = t.shutdown
       /\ t.snd_nxt <= w.snd_nxt /\ t.rcv_nxt <= w.rcv_nxt
  BY <1>10, <1>13 DEF Progress, Moves, Answers, SameBase
<1>15. tcb'[e] = w /\ tcb'[Peer(e)] = tcb[Peer(e)]
  BY <1>0, <1>2, <1>3
<1>16. Roles'
  <2>1. CASE e = "client"
    <3>1. t = tcb["client"] /\ tcb'["client"] = w /\ tcb'["server"] = tcb["server"]
      BY <1>15, <2>1 DEF Peer, t
    <3>2. t.state # "SYN_RECEIVED"
      BY <1>2, <3>1 DEF Roles, Handshake, ClientRole
    <3>3. Total(w) = Total(t)
      BY <1>9, <1>14, <2>1 DEF Answers
    <3>4. \/ w.state = t.state
          \/ w.state = "CLOSED"
          \/ t.state = "SYN_SENT" /\ w.state = "ESTABLISHED" /\ tcb["server"].snd_nxt > 0
      BY <1>9, <1>14, <2>1, <3>2 DEF Moves
    <3> QED BY <1>2, <1>3, <3>1, <3>3, <3>4, ClientGoesOn
  <2>2. CASE e = "server"
    <3>1. t = tcb["server"] /\ tcb'["server"] = w /\ tcb'["client"] = tcb["client"]
      BY <1>15, <2>2 DEF Peer, t
    <3>2. t.state # "SYN_SENT"
      BY <1>2, <3>1 DEF Roles, Handshake, ServerRole
    <3>3. w.state = t.state \/ w.state \notin {"LISTEN", "SYN_SENT"}
      BY <1>14, <3>2 DEF Moves
    <3>4. Total(w) = Total(t) \/ (Total(w) = 1 /\ w.rcv_nxt > 0 /\ w.state # "LISTEN")
      BY <1>14 DEF Answers
    <3> QED BY <1>1, <1>2, <1>3, <1>12, <1>14, <3>1, <3>3, <3>4, ServerGoesOn
  <2> QED BY <2>1, <2>2 DEF Ends
<1>17. Work(u, tcb[Peer(e)], Held(net[e]), Held(net[Peer(e)])) /\ u.sflags = "None"
  BY <1>10, <1>11 DEF p, A, B, SameBuffers, Progress
<1>18. Onward
  <2>1. t.state = "CLOSED" => w.state = "CLOSED"
    BY <1>14 DEF Moves
  <2>2. tcb[e].state = "CLOSED" => tcb'[e].state = "CLOSED"
    BY <1>15, <2>1 DEF t
  <2> QED BY <1>0, <1>3, <1>15, <2>2 DEF Onward
<1> QED BY <1>3, <1>4, <1>6, <1>16, <1>17, <1>18, EndStep DEF w

\* Bytes were written.
Wrote ==
  /\ written' > written /\ UNCHANGED read
  /\ \A x \in Ends : tcb'[x].state = tcb[x].state

\* The client's user finds the send buffer full, or its bytes are queued and sent.
LEMMA SendStepInv ==
  ASSUME TcpInv, NoWrap, NEW len \in IoSizes, NEW idle \in BOOLEAN, Send(len, idle)
  PROVE  TcpInv' /\ (Onward \/ Wrote)
<1> DEFINE t == tcb["client"]
           p == tcb[Peer("client")]
           A == Held(net["client"])
           B == Held(net[Peer("client")])
           n == Accepts(t, Lesser(len, FileLen - written))
           bytes == [i \in 1..n |-> written + i]
           o == OfferTcb(t, TRUE, FALSE)
           x == Queue(t, bytes, FALSE)
           u == AttemptSend(x, "None", idle)
<1>0. "client" \in Ends /\ Peer("client") = "server" /\ "server" \in Ends
  BY DEF Ends, Peer
<1>1. Work(t, p, A, B) /\ t.sflags = "None" /\ End(t)
  BY <1>0, Facing DEF Work, Pair
<1>2. Counts /\ path \in NoRoute..Mss /\ Roles /\ written \in Nat /\ tcb = [y \in Ends |-> tcb[y]]
  BY DEF TcpInv, Counts
<1>3. /\ t.state = "ESTABLISHED" /\ written < FileLen /\ Fault(idle) /\ UNCHANGED <<path, read>>
      /\ \/ Become("client", o) /\ UNCHANGED written
         \/ Len(t.sbuf) # SBufLen /\ Become("client", u) /\ written' = written + n
  BY DEF Send, OfferTcb
<1>4. Total(t) = written + 1 /\ tcb["server"].snd_nxt > 0
  BY <1>2, <1>3 DEF Roles, Handshake, ClientRole
<1> HIDE DEF t, p, A, B
<1>5. /\ t \in Tcb /\ t.snd_nxt \in Nat /\ Len(t.sbuf) \in Nat /\ Len(t.sbuf) <= SBufLen /\ Total(t) \in Nat
  BY <1>1, EndNumbers DEF End, Sender
<1>6. CASE Become("client", o) /\ UNCHANGED written
  <2>1. o \in Tcb /\ EventOf(t, o)
    BY <1>5, OfferRecord
  <2> HIDE DEF o
  <2>2. Work(o, p, A, B) /\ SameBuffers(t, o) /\ o.state = t.state
    BY <1>1, <2>1, EventWork
  <2>3. Steady(t, o) /\ o.sflags = "None"
    BY <1>1, <1>5, <2>2 DEF Steady, SameBuffers, SameSend, SameRecv, Total
  <2>4. Work(o, tcb[Peer("client")], Held(net["client"]), Held(net[Peer("client")])) /\ Steady(tcb["client"], o)
    BY <2>2, <2>3 DEF t, p, A, B
  <2>5. Counts'
    <3>1. written' \in 0..FileLen
      BY <1>2, <1>6 DEF Counts
    <3> QED BY <1>2, <1>3, <3>1, CountsStep
  <2> QED BY <1>0, <1>3, <1>6, <2>3, <2>4, <2>5, SteadyStep
<1>7. CASE Len(t.sbuf) # SBufLen /\ Become("client", u) /\ written' = written + n
  <2>1. n \in Nat /\ n > 0 /\ written + n <= FileLen /\ Len(t.sbuf) + n <= SBufLen
    <3>1. len \in Nat \ {0}
      BY ConstantsAssumption
    <3> PICK l \in Nat \ {0} : l = Lesser(len, FileLen - written)
      BY <1>2, <1>3, <3>1, Sizes, SMTT(30) DEF Lesser
    <3>2. l <= FileLen - written
      BY <1>2, <1>3, <3>1, Sizes, SMTT(30) DEF Lesser
    <3>3. SBufLen - Len(t.sbuf) \in Nat \ {0}
      BY <1>5, <1>7, Sizes
    <3> PICK r \in Nat \ {0} : r = SBufLen - Len(t.sbuf)
      BY <3>3
    <3>4. n = Lesser(l, r)
      BY DEF Accepts
    <3> HIDE DEF n
    <3>5. n \in Nat /\ n > 0 /\ n <= l /\ n <= r
      BY <3>4 DEF Lesser
    <3>6. written + n <= FileLen
      BY <1>2, <3>2, <3>5, Sizes, SMTT(30)
    <3>7. Len(t.sbuf) + n <= SBufLen
      <4>1. n <= SBufLen - Len(t.sbuf)
        BY <3>5
      <4> QED BY <1>5, <3>5, <4>1, Sizes
    <3> QED BY <3>5, <3>6, <3>7
  <2> HIDE DEF n
  <2>2. bytes \in Seq(Nat) /\ n = Len(bytes) /\ Numbered(bytes, Total(t))
    <3>1. \A i \in 1..n : written + i \in Nat
      BY <1>2, <2>1
    <3>2. bytes \in Seq(Nat) /\ n = Len(bytes)
      BY <2>1, <3>1
    <3>3. ASSUME NEW i \in 1..n
          PROVE  bytes[i] = (written + 1) + i - 1
      <4>1. bytes[i] = written + i
        OBVIOUS
      <4>2. written + i = (written + 1) + i - 1
        BY <1>2
      <4> QED BY <4>1, <4>2
    <3> HIDE DEF bytes
    <3> QED BY <1>4, <3>2, <3>3 DEF Numbered
  <2> HIDE DEF bytes
  <2>3. Total(t) + n <= FileLen + 1
    BY <1>2, <1>4, <2>1, Sizes, SMTT(30)
  <2>4. Kind(FALSE, Total(t), n)
    BY <1>2, <1>4 DEF Kind
  <2>5. Work(x, p, A, B) /\ Queued(t, x, bytes) /\ Total(x) = Total(t) + n
    BY <1>1, <2>1, <2>2, <2>3, <2>4, QueueWork
  <2> HIDE DEF x
  <2>6. Work(u, p, A, B) /\ Sends(x, u) /\ u.sflags = "None"
    BY <1>2, <2>5, AttemptSendWork
  <2> HIDE DEF u
  <2>7. Total(u) = (written + n) + 1 /\ u.state = "ESTABLISHED"
    <3>1. Total(u) = Total(t) + n /\ u.state = t.state
      BY <2>5, <2>6 DEF Sends, Queued, SameMode
    <3>2. (written + 1) + n = (written + n) + 1
      BY <1>2, <2>1
    <3> QED BY <1>3, <1>4, <3>1, <3>2
  <2> DEFINE w == OutTcb(u)
  <2>8. tcb' = [tcb EXCEPT !["client"] = w] /\ Carried("client", u)
    BY <1>0, <1>7, BecomeStep
  <2>9. Left(u, w)
    BY <2>6, OutWork
  <2> HIDE DEF w
  <2>10. Total(w) = written' + 1 /\ w.state = "ESTABLISHED"
    BY <1>7, <2>7, <2>9 DEF Left, SameSend, SameMode, Total
  <2>11. tcb'["client"] = w /\ tcb'["server"] = tcb["server"]
    BY <1>0, <1>2, <2>8
  <2>12. Roles'
    <3>1. ReadOK(tcb["server"])' /\ ServerRole(tcb["server"])'
      BY <1>2, <1>3, <2>11 DEF Roles, Handshake, ReadOK, ServerRole, Total
    <3>2. Total(tcb["client"])' = written' + 1 /\ tcb'["client"].state = "ESTABLISHED"
      BY <2>10, <2>11 DEF Total
    <3>3. ClientRole(tcb["client"])'
      BY <3>2 DEF ClientRole
    <3>4. Handshake(tcb["client"], tcb["server"])'
      BY <1>4, <2>11, <3>1, <3>3 DEF Handshake
    <3> QED BY <3>1, <3>4 DEF Roles
  <2>13. Counts'
    <3>1. written' \in 0..FileLen
      BY <1>2, <1>7, <2>1, Sizes, SMTT(30)
    <3> QED BY <1>2, <1>3, <3>1, CountsStep
  <2>14. Work(u, tcb[Peer("client")], Held(net["client"]), Held(net[Peer("client")]))
    BY <2>6 DEF p, A, B
  <2>15. Wrote
    <3>1. written' > written
      BY <1>2, <1>7, <2>1
    <3>2. tcb'["client"].state = tcb["client"].state
      BY <1>3, <2>10, <2>11 DEF t
    <3> QED BY <1>3, <2>11, <3>1, <3>2 DEF Wrote, Ends
  <2> QED BY <1>0, <2>6, <2>8, <2>12, <2>13, <2>14, <2>15, EndStep DEF w
<1> QED BY <1>3, <1>6, <1>7

\* The rest of numbered bytes
LEMMA DropNumbered ==
  ASSUME NEW b \in Seq(Nat), NEW z \in Int, Numbered(b, z), NEW n \in Nat, n <= Len(b), NEW d, DropOf(d, b, n)
  PROVE  Numbered(d, z + n)
<1> SUFFICES ASSUME NEW i \in 1..(Len(b) - n)
             PROVE  d[i] = (z + n) + i - 1
  BY DEF Numbered, DropOf
<1>1. d[i] = b[i + n]
  BY DEF DropOf
<1>2. i + n \in 1..Len(b)
  OBVIOUS
<1>3. b[i + n] = z + (i + n) - 1
  BY <1>2 DEF Numbered
<1>4. z + (i + n) - 1 = (z + n) + i - 1
  OBVIOUS
<1> QED BY <1>1, <1>3, <1>4

\* An end whose user has read n bytes, with this window
TakenTcb(t, n, wn) == RecvTcb(t, t.rlist, SubSeq(t.rbuf, n + 1, Len(t.rbuf)), t.ahead, t.rcv_nxt, wn)
Taken(t, u, n) ==
  /\ RestKept(t, u) /\ u.rcv_nxt = t.rcv_nxt /\ DropOf(u.rbuf, t.rbuf, n) /\ Len(u.rbuf) = Len(t.rbuf) - n

\* Reading makes room, and the window may grow with it.
LEMMA TakenWork ==
  ASSUME NEW t, NEW p, NEW A, NEW B, Work(t, p, A, B), NEW n \in Nat, n <= Len(t.rbuf),
         NEW wn \in Nat, t.rcv_wnd <= wn, wn <= Room(t) + n
  PROVE  Work(TakenTcb(t, n, wn), p, A, B) /\ Taken(t, TakenTcb(t, n, wn), n)
<1>1. End(t) /\ Receiver(t) /\ Flow(p, t) /\ End(p)
  BY DEF Work, Pair, End
<1>2. /\ t \in Tcb /\ t.rcv_nxt \in Nat /\ t.rcv_wnd \in Nat /\ Edge(t) = t.rcv_nxt + t.rcv_wnd
      /\ t.rbuf \in Seq(Nat) /\ Len(t.rbuf) \in Nat /\ Edge(t) \in Nat
  BY <1>1, EndNumbers
<1>3. t.rlist \in Seq(SavedRecord) /\ t.ahead \in [0..RBufLen - 1 -> Int]
  BY <1>2 DEF Tcb
<1> DEFINE b == SubSeq(t.rbuf, n + 1, Len(t.rbuf))
           u == RecvTcb(t, t.rlist, b, t.ahead, t.rcv_nxt, wn)
<1>4. b \in Seq(Nat) /\ DropOf(b, t.rbuf, n)
  BY <1>2, Dropped
<1> HIDE DEF b
<1>5. Len(b) = Len(t.rbuf) - n
  BY <1>4 DEF DropOf
<1>6. /\ u \in Tcb /\ RestKept(t, u) /\ u.rlist = t.rlist /\ u.rbuf = b /\ u.ahead = t.ahead
      /\ u.rcv_nxt = t.rcv_nxt /\ u.rcv_wnd = wn
  <2>1. RecvFields(t, u, t.rlist, b, t.ahead, t.rcv_nxt, wn)
    BY <1>2, <1>3, <1>4, RecvRecord
  <2> HIDE DEF u
  <2> QED BY <2>1 DEF RecvFields
<1> HIDE DEF u
<1>7. Edge(u) \in Nat /\ Edge(t) <= Edge(u)
  BY <1>2, <1>6 DEF Edge
<1>8. Receiver(u)
  <2>1. u.rcv_wnd <= Room(u)
    <3>1. wn <= (RBufLen - Len(t.rbuf)) + n
      BY DEF Room
    <3>2. wn <= RBufLen - (Len(t.rbuf) - n)
      BY <1>2, <3>1, Sizes
    <3> QED BY <1>5, <1>6, <3>2 DEF Room
  <2>2. Edge(u) >= 1
    <3>1. Edge(t) >= 1
      BY <1>1 DEF Receiver
    <3> QED BY <1>2, <1>7, <3>1
  <2>3. u.rbuf # <<>> => Len(u.rbuf) < u.rcv_nxt
    <3> SUFFICES ASSUME b # <<>>
                 PROVE  Len(b) < t.rcv_nxt
      BY <1>6
    <3>1. Len(b) # 0
      BY <1>4
    <3>2. t.rbuf # <<>>
      BY <1>2, <1>4, <1>5, <3>1
    <3>3. Len(t.rbuf) < t.rcv_nxt
      BY <1>1, <3>2 DEF Receiver
    <3> QED BY <1>2, <1>5, <3>3
  <2>4. u.rcv_nxt = 0 => u.rlist = <<>> /\ \A i \in 0..RBufLen - 1 : u.ahead[i] = Hole
    BY <1>1, <1>6 DEF Receiver
  <2>5. Numbered(u.rbuf, u.rcv_nxt - Len(u.rbuf))
    <3>1. Numbered(t.rbuf, t.rcv_nxt - Len(t.rbuf)) /\ t.rcv_nxt - Len(t.rbuf) \in Int
      BY <1>1, <1>2 DEF Receiver
    <3>2. Numbered(b, (t.rcv_nxt - Len(t.rbuf)) + n)
      BY <1>2, <1>4, <3>1, DropNumbered
    <3>3. (t.rcv_nxt - Len(t.rbuf)) + n = t.rcv_nxt - (Len(t.rbuf) - n)
      BY <1>2
    <3> QED BY <1>5, <1>6, <3>2, <3>3
  <2>6. \A i \in 0..RBufLen - 1 : u.ahead[i] \in {Hole, u.rcv_nxt + i} /\ u.ahead[i] <= FileLen
    BY <1>1, <1>6 DEF Receiver
  <2>7. \A j \in 1..Len(u.rlist) :
          /\ u.rlist[j].seq + u.rlist[j].len <= Edge(u)
          /\ Covered(u.ahead, u.rcv_nxt, u.rlist[j].seq, u.rlist[j].seq + u.rlist[j].len)
    <3> SUFFICES ASSUME NEW j \in 1..Len(t.rlist)
                 PROVE  /\ t.rlist[j].seq + t.rlist[j].len <= Edge(u)
                        /\ Covered(t.ahead, t.rcv_nxt, t.rlist[j].seq, t.rlist[j].seq + t.rlist[j].len)
      BY <1>6
    <3>1. t.rlist[j].seq + t.rlist[j].len \in Nat
      <4>1. t.rlist[j] \in SavedRecord
        BY <1>3
      <4> QED BY <4>1 DEF SavedRecord
    <3>2. /\ t.rlist[j].seq + t.rlist[j].len <= Edge(t)
          /\ Covered(t.ahead, t.rcv_nxt, t.rlist[j].seq, t.rlist[j].seq + t.rlist[j].len)
      BY <1>1 DEF Receiver
    <3> QED BY <1>2, <1>7, <3>1, <3>2
  <2> QED BY <2>1, <2>2, <2>3, <2>4, <2>5, <2>6, <2>7 DEF Receiver
<1>9. Flow(p, u)
  <2>1. /\ p.snd_nxt <= Edge(t) /\ p.snd_una + p.snd_wnd <= Edge(t)
        /\ p.snd_una \in Nat /\ p.snd_nxt \in Nat /\ p.snd_wnd \in Nat
    BY <1>1, EndNumbers DEF Flow
  <2>2. p.snd_nxt <= Edge(u) /\ p.snd_una + p.snd_wnd <= Edge(u)
    BY <1>2, <1>7, <2>1
  <2> QED BY <1>1, <1>6, <2>2 DEF Flow
<1>10. t.rcv_nxt <= u.rcv_nxt
  BY <1>2, <1>6
<1>11. Work(u, p, A, B)
  BY <1>6, <1>7, <1>8, <1>9, <1>10, RecvWork
<1>12. Taken(t, u, n)
  BY <1>4, <1>5, <1>6 DEF Taken
<1>13. TakenTcb(t, n, wn) = u
  BY DEF TakenTcb, u, b
<1> QED BY <1>11, <1>12, <1>13

\* The first of numbered bytes
LEMMA FirstNumbered ==
  ASSUME NEW b \in Seq(Nat), NEW z \in Int, Numbered(b, z), NEW n \in Nat, n <= Len(b)
  PROVE  SubSeq(b, 1, n) \in Seq(Nat) /\ Len(SubSeq(b, 1, n)) = n /\ Numbered(SubSeq(b, 1, n), z)
<1> PICK N \in Nat : N = Len(b)
  OBVIOUS
<1> DEFINE a == SubSeq(b, 1, n)
<1>1. a \in Seq(Nat)
  OBVIOUS
<1>2. Len(a) = n
  OBVIOUS
<1>3. \A j \in 1..n : a[j] = b[j]
  OBVIOUS
<1> HIDE DEF a
<1>4. \A j \in 1..n : b[j] = z + j - 1
  BY DEF Numbered
<1>5. Numbered(a, z)
  BY <1>2, <1>3, <1>4 DEF Numbered
<1> QED BY <1>1, <1>2, <1>5 DEF a

\* What the user has read and reads now are the first bytes of the file.
LEMMA ReadMore ==
  ASSUME NEW b \in Seq(Nat), NEW x \in Nat, Len(b) < x, Numbered(b, x - Len(b)),
         NEW n \in Nat, n <= Len(b), NEW r, r = [i \in 1..(x - 1 - Len(b)) |-> i]
  PROVE  r \o SubSeq(b, 1, n) = [i \in 1..(x - 1 - (Len(b) - n)) |-> i]
<1> PICK N \in Nat : N = Len(b)
  OBVIOUS
<1>0. x - 1 - N \in Nat
  <2>1. x \in Int /\ N \in Int /\ N < x
    OBVIOUS
  <2> QED BY <2>1
<1> PICK m \in Nat : m = x - 1 - N
  BY <1>0
<1> DEFINE c == SubSeq(b, 1, n)
           s == r \o c
<1>1. x - N = 1 + m /\ x - N \in Int
  OBVIOUS
<1>2. c \in Seq(Nat) /\ Len(c) = n /\ Numbered(c, 1 + m)
  BY <1>1, FirstNumbered
<1>3. r \in Seq(Nat) /\ Len(r) = m /\ Numbered(r, 1)
  <2>1. r = [i \in 1..m |-> i]
    OBVIOUS
  <2>2. r \in Seq(Nat) /\ Len(r) = m
    BY <2>1
  <2>3. \A i \in 1..m : r[i] = 1 + i - 1
    BY <2>1
  <2> QED BY <2>2, <2>3 DEF Numbered
<1> HIDE DEF c
<1>4. Numbered(s, 1) /\ Len(s) = m + n /\ s \in Seq(Nat)
  <2>1. Numbered(c, 1 + Len(r))
    BY <1>2, <1>3
  <2>2. Numbered(s, 1) /\ Len(s) = Len(r) + Len(c) /\ s \in Seq(Nat)
    <3>1. r \in Seq(Nat) /\ c \in Seq(Nat) /\ 1 \in Int /\ Numbered(r, 1)
      BY <1>2, <1>3
    <3> QED BY <2>1, <3>1, ConcatNumbered
  <2> QED BY <1>2, <1>3, <2>2
<1> HIDE DEF s
<1>5. s = [i \in 1..m + n |-> s[i]]
  BY <1>4
<1>6. \A i \in 1..m + n : s[i] = i
  BY <1>4 DEF Numbered
<1>7. s = [i \in 1..m + n |-> i]
  BY <1>5, <1>6
<1>8. x - 1 - (N - n) = m + n
  OBVIOUS
<1> QED BY <1>7, <1>8 DEF s, c

\* A queue does not get shorter by what follows it.
LEMMA NoShorter ==
  ASSUME NEW a \in Seq(Nat), NEW b \in Seq(Nat)
  PROVE  Len(a \o b) >= Len(a)
<1>1. Len(a) \in Nat /\ Len(b) \in Nat /\ Len(a \o b) = Len(a) + Len(b)
  OBVIOUS
<1> QED BY <1>1

\* The first bytes of the file
LEMMA FirstBytes ==
  ASSUME NEW m \in Int, NEW r, r = [i \in 1..m |-> i]
  PROVE  /\ r \in Seq(Nat) /\ Len(r) \in Nat
         /\ m >= 0 => Len(r) = m
         /\ m < 0 => Len(r) = 0
<1>1. CASE m > 0
  <2>1. m \in Nat
    BY <1>1
  <2>2. r \in Seq(Nat) /\ Len(r) = m
    BY <2>1
  <2> QED BY <1>1, <2>1, <2>2
<1>2. CASE m <= 0
  <2>1. 1..m = {}
    BY <1>2
  <2>2. r = <<>>
    BY <2>1
  <2>3. <<>> \in Seq(Nat) /\ Len(<<>>) = 0
    OBVIOUS
  <2>4. r \in Seq(Nat) /\ Len(r) = 0
    BY <2>2, <2>3, Zenon
  <2>5. m >= 0 => m = 0
    BY <1>2
  <2>6. 0 \in Nat
    OBVIOUS
  <2> QED BY <2>4, <2>5, <2>6, Zenon
<1>3. m > 0 \/ m <= 0
  OBVIOUS
<1> QED BY <1>1, <1>2, <1>3

\* Bytes were read.
HasRead ==
  /\ Len(read') >= Len(read) /\ UNCHANGED written
  /\ \A x \in Ends : tcb'[x].state = tcb[x].state

\* The server's user finds nothing, or it reads and the window is announced when it was closed.
LEMMA RecvStepInv ==
  ASSUME TcpInv, NoWrap, NEW len \in IoSizes, NEW idle \in BOOLEAN, Recv(len, idle)
  PROVE  TcpInv' /\ (Onward \/ HasRead)
<1> DEFINE t == tcb["server"]
           p == tcb[Peer("server")]
           A == Held(net["server"])
           B == Held(net[Peer("server")])
           n == Lesser(len, Len(t.rbuf))
           took == [t EXCEPT !.rbuf = SubSeq(@, n + 1, Len(@))]
           wide == Sub(Room(took), t.rcv_wnd) >= Lesser(RBufLen \div 2, t.mss)
           told == IF wide THEN [took EXCEPT !.rcv_wnd = Room(took)] ELSE took
           u == IF wide /\ t.rcv_wnd = 0 THEN AttemptSend(told, "Immediate", idle) ELSE told
           o == TellTcb(t, TRUE, FALSE)
<1>0. "server" \in Ends /\ Peer("server") = "client" /\ "client" \in Ends
  BY DEF Ends, Peer
<1>1. Work(t, p, A, B) /\ t.sflags = "None" /\ End(t)
  BY <1>0, Facing DEF Work, Pair
<1>2. Counts /\ path \in NoRoute..Mss /\ Roles /\ tcb = [y \in Ends |-> tcb[y]]
  BY DEF TcpInv, Counts
<1>3. /\ Fault(idle) /\ UNCHANGED <<path, written>>
      /\ \/ Become("server", o) /\ UNCHANGED read
         \/ t.rbuf # <<>> /\ Become("server", u) /\ read' = read \o SubSeq(t.rbuf, 1, n)
  BY DEF Recv, TellTcb
<1>4. Counts'
  <2>1. written' \in 0..FileLen
    BY <1>2, <1>3 DEF Counts
  <2> QED BY <1>2, <1>3, <2>1, CountsStep
<1>5. read = [i \in 1..(t.rcv_nxt - 1 - Len(t.rbuf)) |-> i]
  BY <1>2 DEF Roles, ReadOK
<1>s. ServerRole(t)
  BY <1>2 DEF Roles, Handshake
<1> HIDE DEF t, p, A, B
<1>6. /\ t \in Tcb /\ t.snd_nxt \in Nat /\ Len(t.rbuf) \in Nat /\ t.rbuf \in Seq(Nat) /\ t.rcv_nxt \in Nat
      /\ t.rcv_wnd \in Nat /\ t.rcv_wnd <= Room(t) /\ Room(t) \in Int
  BY <1>1, EndNumbers DEF End, Receiver
<1>7. CASE Become("server", o) /\ UNCHANGED read
  <2>1. o \in Tcb /\ EventOf(t, o)
    BY <1>6, TellRecord
  <2> HIDE DEF o
  <2>2. Work(o, p, A, B) /\ SameBuffers(t, o) /\ o.state = t.state
    BY <1>1, <2>1, EventWork
  <2>3. Steady(t, o) /\ o.sflags = "None" /\ o.shutdown = t.shutdown
    BY <1>1, <1>6, <2>2 DEF Steady, SameBuffers, SameSend, SameRecv, Total
  <2>4. Work(o, tcb[Peer("server")], Held(net["server"]), Held(net[Peer("server")])) /\ Steady(tcb["server"], o)
        /\ o.shutdown = tcb["server"].shutdown
    BY <2>2, <2>3 DEF t, p, A, B
  <2> QED BY <1>0, <1>3, <1>4, <1>7, <2>3, <2>4, SteadyStep
<1>8. CASE t.rbuf # <<>> /\ Become("server", u) /\ read' = read \o SubSeq(t.rbuf, 1, n)
  <2>1. n \in Nat /\ n <= Len(t.rbuf)
    <3>1. len \in Nat
      BY ConstantsAssumption
    <3> QED BY <1>6, <3>1 DEF Lesser
  <2> HIDE DEF n
  <2>2. took = TakenTcb(t, n, t.rcv_wnd)
    BY <1>6 DEF TakenTcb, RecvTcb, Tcb
  <2>3. t.rcv_wnd <= Room(t) + n /\ Room(t) + n \in Nat
    BY <1>6, <2>1
  <2>4. t.rcv_wnd <= t.rcv_wnd
    BY <1>6
  <2>5. Work(took, p, A, B) /\ Taken(t, took, n)
    BY <1>1, <1>6, <2>1, <2>2, <2>3, <2>4, TakenWork
  <2>6. Room(took) = Room(t) + n
    <3>1. Len(took.rbuf) = Len(t.rbuf) - n
      BY <2>5 DEF Taken
    <3>2. RBufLen - (Len(t.rbuf) - n) = (RBufLen - Len(t.rbuf)) + n
      BY <1>6, <2>1, Sizes
    <3> HIDE DEF took
    <3> QED BY <3>1, <3>2 DEF Room
  <2> DEFINE v == TakenTcb(t, n, Room(t) + n)
  <2>7. Work(v, p, A, B) /\ Taken(t, v, n)
    BY <1>1, <1>6, <2>1, <2>3, TakenWork
  <2>8. [took EXCEPT !.rcv_wnd = Room(took)] = v
    <3>1. [took EXCEPT !.rcv_wnd = Room(t) + n] = v
      BY <1>6, <2>2 DEF TakenTcb, RecvTcb, Tcb
    <3> QED BY <2>6, <3>1
  <2> HIDE DEF took
  <2>9. told = v \/ told = took
    BY <2>8
  <2> HIDE DEF v, wide
  <2>10. Work(told, p, A, B) /\ Taken(t, told, n)
    BY <2>5, <2>7, <2>9
  <2> HIDE DEF told
  <2> DEFINE x == AttemptSend(told, "Immediate", idle)
  <2>11. Work(x, p, A, B) /\ Sends(told, x) /\ x.sflags = "None"
    BY <1>2, <2>10, AttemptSendWork
  <2>12. u = x \/ u = told
    OBVIOUS
  <2> HIDE DEF x, u
  <2>13. /\ told.sflags = "None" /\ told.state = t.state /\ told.shutdown = t.shutdown /\ Total(told) = Total(t)
         /\ told.snd_nxt = t.snd_nxt /\ told.rcv_nxt = t.rcv_nxt /\ Len(told.rbuf) = Len(t.rbuf) - n
    BY <1>1, <2>10 DEF Taken, RestKept, SameSend, SameMode, SameRest, Total
  <2>14. /\ x.state = t.state /\ x.shutdown = t.shutdown /\ Total(x) = Total(t)
         /\ t.snd_nxt <= x.snd_nxt /\ x.rcv_nxt = t.rcv_nxt /\ Len(x.rbuf) = Len(t.rbuf) - n
    BY <2>11, <2>13 DEF Sends, SameRecv, SameMode
  <2>15. /\ Work(u, p, A, B) /\ u.sflags = "None"
         /\ u.state = t.state /\ u.shutdown = t.shutdown /\ Total(u) = Total(t)
         /\ t.snd_nxt <= u.snd_nxt /\ u.rcv_nxt = t.rcv_nxt /\ Len(u.rbuf) = Len(t.rbuf) - n
    <3>1. t.snd_nxt <= t.snd_nxt
      BY <1>6
    <3> QED BY <2>10, <2>11, <2>12, <2>13, <2>14, <3>1
  <2> DEFINE w == OutTcb(u)
  <2>16. tcb' = [tcb EXCEPT !["server"] = w] /\ Carried("server", u)
    BY <1>0, <1>8, BecomeStep
  <2>17. Left(u, w) /\ End(w)
    BY <2>15, OutWork DEF Pair
  <2> HIDE DEF w
  <2>18. /\ w.state = t.state /\ w.shutdown = t.shutdown /\ Total(w) = Total(t)
         /\ t.snd_nxt <= w.snd_nxt /\ w.rcv_nxt = t.rcv_nxt /\ Len(w.rbuf) = Len(t.rbuf) - n
    BY <2>15, <2>17 DEF Left, SameSend, SameRecv, SameMode, Total
  <2>19. tcb'["server"] = w /\ tcb'["client"] = tcb["client"]
    BY <1>0, <1>2, <2>16
  <2>20. read' = [i \in 1..(w.rcv_nxt - 1 - Len(w.rbuf)) |-> i]
    <3>1. Len(t.rbuf) < t.rcv_nxt /\ Numbered(t.rbuf, t.rcv_nxt - Len(t.rbuf))
      BY <1>1, <1>8 DEF End, Receiver
    <3>2. read \o SubSeq(t.rbuf, 1, n) = [i \in 1..(t.rcv_nxt - 1 - (Len(t.rbuf) - n)) |-> i]
      BY <1>5, <1>6, <2>1, <3>1, ReadMore
    <3> QED BY <1>8, <2>18, <3>2
  <2>21. Roles'
    <3>1. ReadOK(tcb["server"])'
      BY <2>19, <2>20 DEF ReadOK
    <3>2. ServerRole(w)
      BY <1>s, <2>18 DEF ServerRole
    <3>3. ServerRole(tcb["server"])'
      BY <2>19, <3>2 DEF ServerRole, Total
    <3>4. ClientRole(tcb["client"])'
      BY <1>2, <1>3, <2>19 DEF Roles, Handshake, ClientRole, Total
    <3>5. tcb["client"].state = "ESTABLISHED" \/ written > 0 => w.snd_nxt > 0
      <4>1. tcb["client"].state = "ESTABLISHED" \/ written > 0 => t.snd_nxt > 0
        BY <1>2 DEF Roles, Handshake, t
      <4>2. w.snd_nxt \in Nat
        BY <2>17, EndNumbers
      <4> QED BY <1>6, <2>18, <4>1, <4>2
    <3>6. Handshake(tcb["client"], tcb["server"])'
      BY <1>3, <2>19, <3>3, <3>4, <3>5 DEF Handshake
    <3> QED BY <3>1, <3>6 DEF Roles
  <2>22. Work(u, tcb[Peer("server")], Held(net["server"]), Held(net[Peer("server")]))
    BY <2>15 DEF p, A, B
  <2>23. HasRead
    <3>1. Len(read') >= Len(read)
      <4>1. read \in Seq(Nat)
        <5>1. t.rcv_nxt - 1 - Len(t.rbuf) \in Int
          BY <1>6
        <5> QED BY <1>5, <5>1, FirstBytes
      <4>2. SubSeq(t.rbuf, 1, n) \in Seq(Nat)
        BY <1>6, <2>1, SMTT(30)
      <4> QED BY <1>8, <4>1, <4>2, NoShorter
    <3>2. tcb'["server"].state = tcb["server"].state
      BY <2>18, <2>19 DEF t
    <3> QED BY <1>3, <2>19, <3>1, <3>2 DEF HasRead, Ends
  <2> QED BY <1>0, <1>4, <2>15, <2>16, <2>21, <2>22, <2>23, EndStep DEF w
<1> QED BY <1>3, <1>7, <1>8

-----------------------------------------------------------------------------
(* The theorems.                                                           *)

\* A new connection
LEMMA NewEnd ==
  /\ End(NewTcb) /\ Flow(NewTcb, NewTcb)
  /\ Total(NewTcb) = 0 /\ NewTcb.rcv_nxt = 0 /\ Len(NewTcb.rbuf) = 0 /\ NewTcb.snd_nxt = 0
  /\ NewTcb.state = "LISTEN" /\ NewTcb.shutdown = "NONE" /\ NewTcb.out = <<>> /\ NewTcb.sflags = "None"
<1> DEFINE t == NewTcb
<1>1. /\ t.slist = <<>> /\ t.sbuf = <<>> /\ t.rlist = <<>> /\ t.rbuf = <<>> /\ t.out = <<>>
      /\ t.snd_una = 0 /\ t.snd_nxt = 0 /\ t.snd_wnd = 1 /\ t.rcv_nxt = 0 /\ t.rcv_wnd = RBufLen
      /\ t.ahead = [i \in 0..RBufLen - 1 |-> Hole] /\ t.recover = 0 /\ t.rto = FALSE
      /\ t.state = "LISTEN" /\ t.shutdown = "NONE" /\ t.sflags = "None"
  BY DEF NewTcb
<1>2. t \in Tcb
  <2>1. <<>> \in Seq(Segment) /\ <<>> \in Seq(Nat) /\ <<>> \in Seq(SavedRecord) /\ <<>> \in Seq(PacketRecord)
    OBVIOUS
  <2>2. 1 \in 0..RBufLen /\ RBufLen \in Nat /\ RBufLen \in Nat \ {0} /\ InitMss \in 1..Mss
        /\ 2 * InitMss \in 1..CwndMax /\ 0 \in 0..DupMax
    BY Sizes DEF InitMss, DupMax
  <2>3. [i \in 0..RBufLen - 1 |-> Hole] \in [0..RBufLen - 1 -> Int]
    BY DEF Hole
  <2> QED BY <2>1, <2>2, <2>3 DEF Tcb, NewTcb, StateNames
<1> HIDE DEF t
<1>3. Len(<<>>) = 0 /\ 1..0 = {}
  OBVIOUS
<1>4. Total(t) = 0 /\ Edge(t) = RBufLen /\ Room(t) = RBufLen
  BY <1>1, <1>3, Sizes DEF Total, Edge, Room
<1>5. Mark(t, 0)
  BY <1>1, <1>3 DEF Mark, ListMark
<1>6. Chain(t.slist, t.snd_una, Total(t)) /\ Sent(t.slist, t.snd_nxt)
  <2>1. t.slist \in Seq(Segment)
    BY <1>2 DEF Tcb
  <2> QED BY <1>1, <1>3, <1>4, <2>1 DEF Chain, Sent
<1>7. Sender(t)
  <2>1. Numbered(t.sbuf, t.snd_una)
    BY <1>1, <1>3 DEF Numbered
  <2>2. 0 <= FileLen + 1 /\ 0 <= SBufLen
    BY Sizes
  <2> QED BY <1>1, <1>3, <1>4, <1>5, <1>6, <2>1, <2>2 DEF Sender
<1>8. Receiver(t)
  <2>1. \A i \in 0..RBufLen - 1 : t.ahead[i] = Hole
    BY <1>1
  <2>2. Hole <= FileLen
    BY Sizes DEF Hole
  <2>3. Numbered(t.rbuf, t.rcv_nxt - Len(t.rbuf))
    BY <1>1, <1>3 DEF Numbered
  <2>4. t.rcv_wnd <= Room(t) /\ Edge(t) >= 1
    BY <1>1, <1>4, Sizes
  <2> QED BY <1>1, <1>3, <2>1, <2>2, <2>3, <2>4 DEF Receiver
<1>9. Timed(t)
  BY <1>1 DEF Timed
<1>10. Flow(t, t)
  <2>1. 0 <= RBufLen /\ 0 + 1 <= RBufLen
    BY Sizes
  <2> QED BY <1>1, <1>3, <1>4, <1>5, <2>1 DEF Flow
<1> QED BY <1>1, <1>2, <1>3, <1>4, <1>7, <1>8, <1>9, <1>10 DEF End, t

\* The invariant holds initially.
LEMMA InitStep ==
  ASSUME Init
  PROVE  TcpInv
<1>1. /\ tcb = [e \in Ends |-> NewTcb] /\ net = [e \in Ends |-> <<>>]
      /\ path = Mss /\ written = 0 /\ read = <<>> /\ faults = 0
  BY DEF Init
<1>2. /\ tcb["client"] = NewTcb /\ tcb["server"] = NewTcb /\ net["client"] = <<>> /\ net["server"] = <<>>
      /\ \A e \in Ends : tcb[e] = NewTcb
  BY <1>1 DEF Ends
<1>3. tcb = [e \in Ends |-> tcb[e]] /\ net \in [Ends -> Seq(PacketRecord)]
  <2>1. <<>> \in Seq(PacketRecord)
    OBVIOUS
  <2> QED BY <1>1, <2>1
<1>4. Pair(tcb["client"], tcb["server"], Held(net["client"]), Held(net["server"]))
  <2>1. Held(<<>>) = {}
    BY ShortQueues
  <2> QED BY <1>2, <2>1, NewEnd DEF Pair
<1>5. Roles
  <2>1. ReadOK(NewTcb)
    <3>1. 1..(NewTcb.rcv_nxt - 1 - Len(NewTcb.rbuf)) = {}
      <4>1. NewTcb.rcv_nxt = 0 /\ Len(NewTcb.rbuf) = 0
        BY NewEnd
      <4>2. 1..(0 - 1 - 0) = {}
        OBVIOUS
      <4> QED BY <4>1, <4>2
    <3>2. [i \in {} |-> i] = <<>>
      OBVIOUS
    <3> QED BY <1>1, <3>1, <3>2 DEF ReadOK
  <2>2. ~(written > 0)
    BY <1>1
  <2>3. ClientRole(NewTcb) /\ ServerRole(NewTcb)
    BY <1>1, <2>2, NewEnd DEF ClientRole, ServerRole
  <2>4. Handshake(NewTcb, NewTcb)
    BY <2>2, <2>3, NewEnd DEF Handshake
  <2> QED BY <1>2, <2>1, <2>4 DEF Roles
<1>6. Counts
  BY <1>1, Sizes DEF Counts, NoRoute
<1>7. \A e \in Ends : tcb[e].out = <<>> /\ tcb[e].sflags = "None"
  BY <1>2, NewEnd
<1> QED BY <1>3, <1>4, <1>5, <1>6, <1>7 DEF TcpInv

\* What a step does, seen by the users
Visible == Onward \/ Wrote \/ HasRead

\* Every step keeps the invariant.
LEMMA NextStep ==
  ASSUME TcpInv, NoWrap, [Next]_vars
  PROVE  TcpInv' /\ Visible
<1>1. CASE Connect
  BY <1>1, ConnectStep DEF Visible
<1>2. ASSUME NEW e \in Ends, NEW i \in DOMAIN net[e], NEW idle \in BOOLEAN, NotifyPacket(e, i, idle)
      PROVE  TcpInv' /\ Visible
  BY <1>2, NotifyPacketStep DEF Visible
<1>3. ASSUME NEW e \in Ends, Lose(e) \/ Duplicate(e) \/ Discard(e)
      PROVE  TcpInv' /\ Visible
  BY <1>3, LoseStep, DuplicateStep, DiscardStep DEF Visible
<1>4. ASSUME NEW e \in Ends, ClockRto(e) \/ ClockProbe(e) \/ ClockAbort(e) \/ ClockAck(e)
      PROVE  TcpInv' /\ Visible
  BY <1>4, ClockRtoStep, ClockProbeStep, ClockAbortStep, ClockAckStep DEF Visible
<1>5. ASSUME NEW len \in IoSizes, NEW idle \in BOOLEAN, Send(len, idle)
      PROVE  TcpInv' /\ Visible
  BY <1>5, SendStepInv DEF Visible
<1>6. ASSUME NEW len \in IoSizes, NEW idle \in BOOLEAN, Recv(len, idle)
      PROVE  TcpInv' /\ Visible
  BY <1>6, RecvStepInv DEF Visible
<1>7. CASE Close
  BY <1>7, CloseStep DEF Visible
<1>8. CASE RouteChange \/ UNCHANGED vars
  BY <1>8, OtherSteps DEF Visible
<1> QED BY <1>1, <1>2, <1>3, <1>4, <1>5, <1>6, <1>7, <1>8 DEF Next

\* The connection keeps its invariant: the segments, the buffers, the windows and
\* every packet on the way agree at both ends.
THEOREM TcpInvariant == NoWrap => (Spec => []TcpInv)
<1> SUFFICES ASSUME NoWrap
             PROVE  Spec => []TcpInv
  OBVIOUS
<1>1. Init => TcpInv
  BY InitStep
<1>2. TcpInv /\ [Next]_vars => TcpInv'
  BY NextStep
<1> QED BY <1>1, <1>2, PTL DEF Spec

\* What one end knows of the other
LEMMA Known ==
  ASSUME TcpInv, NEW e \in Ends
  PROVE  /\ End(tcb[e]) /\ End(tcb[Peer(e)]) /\ Flow(tcb[Peer(e)], tcb[e]) /\ Flow(tcb[e], tcb[Peer(e)])
         /\ \A k \in Held(net[e]) : PacketOK(k, tcb[Peer(e)], tcb[e])
BY Facing DEF Work, Pair

\* A queue of bytes
LEMMA OfBytes ==
  ASSUME NEW N \in Nat, NEW b \in [1..N -> Bytes]
  PROVE  b \in Seq(Bytes)
OBVIOUS

\* Numbered bytes of the file are bytes.
LEMMA NumberedBytes ==
  ASSUME NEW b \in Seq(Nat), NEW z \in Nat, Numbered(b, z), b # <<>> => z + Len(b) <= FileLen + 1
  PROVE  b \in Seq(Bytes)
<1> PICK N \in Nat : N = Len(b)
  OBVIOUS
<1>1. ASSUME NEW i \in 1..N
      PROVE  b[i] \in Bytes
  <2>1. b[i] = z + i - 1 /\ b # <<>>
    BY DEF Numbered
  <2>2. z + N <= FileLen + 1
    BY <2>1
  <2>3. z + i - 1 \in 0..FileLen
    BY <2>2, Sizes
  <2> QED BY <2>1, <2>3, Sizes DEF Bytes, CTL_CONNECT
<1>2. b = [i \in 1..N |-> b[i]]
  OBVIOUS
<1>3. b \in [1..N -> Bytes]
  BY <1>1, <1>2
<1> QED BY <1>3, OfBytes

\* The buffers of an end
LEMMA BufferBytes ==
  ASSUME NEW t, NEW p, End(t), End(p), Flow(p, t)
  PROVE  /\ t.sbuf \in Seq(Bytes) /\ Len(t.sbuf) <= SBufLen
         /\ t.rbuf \in Seq(Bytes) /\ Len(t.rbuf) <= RBufLen
         /\ t.ahead \in [0..RBufLen - 1 -> Bytes]
<1>1. /\ t \in Tcb /\ t.snd_una \in Nat /\ t.sbuf \in Seq(Nat) /\ Len(t.sbuf) \in Nat /\ t.rcv_nxt \in Nat
      /\ t.rbuf \in Seq(Nat) /\ Len(t.rbuf) \in Nat /\ t.rcv_wnd \in Nat
      /\ Total(t) = t.snd_una + Len(t.sbuf) /\ Total(t) <= FileLen + 1
  BY EndNumbers
<1>2. p.snd_nxt \in Nat /\ Total(p) \in Nat /\ p.snd_nxt <= Total(p) /\ Total(p) <= FileLen + 1
  BY EndNumbers
<1>3. t.sbuf \in Seq(Bytes)
  <2>1. Numbered(t.sbuf, t.snd_una)
    BY DEF End, Sender
  <2> QED BY <1>1, <2>1, NumberedBytes
<1>4. t.rcv_nxt <= FileLen + 1
  <2>1. t.rcv_nxt <= p.snd_nxt
    BY DEF Flow, Mark
  <2> QED BY <1>1, <1>2, <2>1, Sizes
<1>5. t.rbuf \in Seq(Bytes)
  <2>1. CASE t.rbuf = <<>>
    <3>1. <<>> \in Seq(Bytes)
      OBVIOUS
    <3> QED BY <2>1, <3>1
  <2>2. CASE t.rbuf # <<>>
    <3>1. Len(t.rbuf) < t.rcv_nxt /\ Numbered(t.rbuf, t.rcv_nxt - Len(t.rbuf))
      BY <2>2 DEF End, Receiver
    <3>2. t.rcv_nxt - Len(t.rbuf) \in Nat
      BY <1>1, <3>1
    <3>3. (t.rcv_nxt - Len(t.rbuf)) + Len(t.rbuf) = t.rcv_nxt
      BY <1>1
    <3>4. (t.rcv_nxt - Len(t.rbuf)) + Len(t.rbuf) <= FileLen + 1
      BY <1>4, <3>3
    <3> QED BY <1>1, <3>1, <3>2, <3>4, NumberedBytes
  <2> QED BY <2>1, <2>2
<1>6. t.ahead \in [0..RBufLen - 1 -> Bytes]
  <2>1. t.ahead \in [0..RBufLen - 1 -> Int]
    BY <1>1 DEF Tcb
  <2>2. ASSUME NEW i \in 0..RBufLen - 1
        PROVE  t.ahead[i] \in Bytes
    <3>1. t.ahead[i] \in {Hole, t.rcv_nxt + i} /\ t.ahead[i] <= FileLen
      BY DEF End, Receiver
    <3>2. CASE t.ahead[i] = Hole
      BY <3>2 DEF Bytes
    <3>3. CASE t.ahead[i] = t.rcv_nxt + i
      <4>1. t.rcv_nxt + i \in 0..FileLen
        BY <1>1, <3>1, <3>3, Sizes
      <4> QED BY <3>3, <4>1, Sizes DEF Bytes, CTL_CONNECT
    <3> QED BY <3>1, <3>2, <3>3
  <2> QED BY <2>1, <2>2
<1>7. Len(t.rbuf) <= RBufLen
  <2>1. t.rcv_wnd <= RBufLen - Len(t.rbuf)
    BY DEF End, Receiver, Room
  <2> QED BY <1>1, <2>1, Sizes
<1>8. Len(t.sbuf) <= SBufLen
  BY DEF End, Sender
<1> QED BY <1>3, <1>5, <1>6, <1>7, <1>8

\* The numbers of an end are below the size of the space.
LEMMA NumbersBelow ==
  ASSUME NEW t, NEW p, End(t), End(p), Flow(p, t), NoWrap
  PROVE  {t.snd_una, t.snd_nxt, t.snd_wnd, t.rcv_nxt, t.rcv_wnd, t.recover} \subseteq Numbers
<1>1. /\ t \in Tcb /\ t.snd_una \in Nat /\ t.snd_nxt \in Nat /\ t.rcv_nxt \in Nat /\ t.rcv_wnd \in Nat
      /\ t.recover \in Nat /\ Total(t) \in Nat /\ t.snd_una <= t.snd_nxt /\ t.snd_nxt <= Total(t)
      /\ Total(t) < SeqSpace /\ Len(t.rbuf) \in Nat
  BY EndNumbers
<1>2. p.snd_nxt \in Nat /\ Total(p) \in Nat /\ p.snd_nxt <= Total(p) /\ Total(p) < SeqSpace
  BY EndNumbers
<1>3. t.snd_una \in Numbers /\ t.snd_nxt \in Numbers
  BY <1>1, Sizes DEF Numbers
<1>4. t.snd_wnd \in Numbers
  <2>1. t.snd_wnd \in 0..RBufLen
    BY <1>1 DEF Tcb
  <2> QED BY <2>1, Sizes DEF Numbers
<1>5. t.rcv_nxt \in Numbers
  <2>1. t.rcv_nxt <= p.snd_nxt
    BY DEF Flow, Mark
  <2> QED BY <1>1, <1>2, <2>1, Sizes DEF Numbers
<1>6. t.rcv_wnd \in Numbers
  <2>1. t.rcv_wnd <= RBufLen - Len(t.rbuf)
    BY DEF End, Receiver, Room
  <2> QED BY <1>1, <2>1, Sizes DEF Numbers
<1>7. t.recover \in Numbers
  <2>1. t.recover <= t.snd_nxt
    BY DEF End, Timed
  <2> QED BY <1>1, <2>1, Sizes DEF Numbers
<1> QED BY <1>3, <1>4, <1>5, <1>6, <1>7

\* The data of a packet
LEMMA PacketBytes ==
  ASSUME NEW k, NEW s, NEW r, End(s), PacketOK(k, s, r)
  PROVE  k.data \in Seq(Bytes)
<1>1. k.seq \in Nat /\ k.data \in Seq(Nat) /\ Len(k.data) \in Nat /\ Numbered(k.data, k.seq)
  BY DEF PacketOK, PacketRecord
<1>2. s.snd_nxt \in Nat /\ Total(s) \in Nat /\ s.snd_nxt <= Total(s) /\ Total(s) <= FileLen + 1
  BY EndNumbers
<1>3. ASSUME k.data # <<>>
      PROVE  k.seq + Len(k.data) <= FileLen + 1
  <2>1. k.seq + Len(k.data) <= s.snd_nxt
    BY <1>3 DEF PacketOK, Mark
  <2> QED BY <1>1, <1>2, <2>1, Sizes
<1> QED BY <1>1, <1>3, NumberedBytes

\* What was written and read, and what is on the way
LEMMA Transfer ==
  ASSUME TcpInv
  PROVE  /\ written \in Nat /\ read \in Seq(Nat) /\ Len(read) \in Nat /\ read = [i \in 1..Len(read) |-> i]
         /\ Len(read) <= written /\ written - Len(read) <= SBufLen + RBufLen
<1> DEFINE c == tcb["client"]
           s == tcb["server"]
           m == s.rcv_nxt - 1 - Len(s.rbuf)
<1>1. End(c) /\ End(s) /\ Flow(c, s)
  BY Known DEF Ends, Peer
<1>2. /\ c.snd_una \in Nat /\ c.snd_nxt \in Nat /\ Len(c.sbuf) \in Nat /\ Total(c) \in Nat
      /\ Total(c) = c.snd_una + Len(c.sbuf) /\ c.snd_una <= c.snd_nxt /\ c.snd_nxt <= Total(c)
      /\ s.rcv_nxt \in Nat /\ Len(s.rbuf) \in Nat /\ s.snd_nxt \in Nat /\ Total(s) \in Nat /\ s.snd_nxt <= Total(s)
  BY <1>1, EndNumbers
<1>3. Len(c.sbuf) <= SBufLen /\ Len(s.rbuf) <= RBufLen
  <2>1. Flow(c, s) /\ End(c) /\ End(s)
    BY <1>1
  <2>2. Len(s.rbuf) <= RBufLen
    BY <2>1, BufferBytes
  <2> QED BY <1>1, <2>2 DEF End, Sender
<1>4. c.snd_una <= s.rcv_nxt /\ s.rcv_nxt <= c.snd_nxt /\ (s.rbuf # <<>> => Len(s.rbuf) < s.rcv_nxt)
  BY <1>1 DEF Flow, Mark, End, Receiver
<1>5. /\ written \in 0..FileLen /\ Total(c) \in {0, written + 1} /\ (written > 0 => Total(c) = written + 1)
      /\ (written > 0 => s.snd_nxt > 0) /\ (Total(s) > 0 => s.rcv_nxt > 0) /\ read = [i \in 1..m |-> i]
  BY DEF TcpInv, Roles, Handshake, ClientRole, ServerRole, ReadOK, Counts
<1> HIDE DEF c, s
<1>6. written \in Nat
  BY <1>5, Sizes
<1>7. CASE s.rcv_nxt > 0
  <2>1. Len(s.rbuf) < s.rcv_nxt
    <3>1. s.rbuf = <<>> => Len(s.rbuf) = 0
      OBVIOUS
    <3> QED BY <1>2, <1>4, <1>7, <3>1
  <2>2. m \in Nat
    BY <1>2, <2>1
  <2> HIDE DEF m
  <2>3. read \in Seq(Nat) /\ Len(read) = m
    BY <1>5, <2>2, FirstBytes
  <2>4. Total(c) = written + 1
    BY <1>2, <1>4, <1>5, <1>7
  <2>5. m <= written /\ written - m <= SBufLen + RBufLen
    <3>1. s.rcv_nxt <= written + 1
      BY <1>2, <1>4, <1>6, <2>4
    <3>2. written + 1 <= s.rcv_nxt + SBufLen
      BY <1>2, <1>3, <1>4, <1>6, <2>4, Sizes
    <3>3. m <= written
      BY <1>2, <1>6, <3>1 DEF m
    <3>4. written - m <= SBufLen + RBufLen
      BY <1>2, <1>3, <1>6, <3>2, Sizes, SMTT(30) DEF m
    <3> QED BY <3>3, <3>4
  <2> QED BY <1>5, <1>6, <2>2, <2>3, <2>5
<1>8. CASE s.rcv_nxt = 0
  <2>1. m \in Int /\ m < 0
    BY <1>2, <1>8
  <2> HIDE DEF m
  <2>2. read \in Seq(Nat) /\ Len(read) = 0
    BY <1>5, <2>1, FirstBytes
  <2>3. 1..m = 1..0
    BY <2>1
  <2>4. read = [i \in 1..0 |-> i]
    BY <1>5, <2>3
  <2>5. written = 0
    BY <1>2, <1>5, <1>6, <1>8
  <2>6. 0 <= 0 /\ 0 - 0 <= SBufLen + RBufLen /\ 0 \in Nat
    BY Sizes
  <2> QED BY <2>2, <2>4, <2>5, <2>6
<1> QED BY <1>2, <1>7, <1>8

\* The first m segments were sent, n bytes.
SentIs(l, m, n) == {i \in DOMAIN l : l[i].xmit > 0} = 1..m /\ Upto(l)[m] = n

\* The segments that were sent are the first of the list, up to snd_nxt.
LEMMA SentFirst ==
  ASSUME NEW l, NEW a \in Nat, NEW b \in Nat, NEW x \in Nat, Chain(l, a, b), a <= x, x <= b,
         ListMark(l, x), Sent(l, x)
  PROVE  \E m \in 0..Len(l) : SentIs(l, m, x - a)
<1> PICK N \in Nat : N = Len(l)
  BY DEF Chain
<1>1. /\ \A i \in 1..N : l[i].seq \in Nat /\ l[i].len \in Nat
      /\ \A i \in 1..N : l[i].seq >= a /\ l[i].seq + l[i].len <= b /\ l[i].len > 0
  BY ChainFacts
<1>2. /\ N = 0 => a = b
      /\ N > 0 => l[1].seq = a /\ l[N].seq + l[N].len = b
      /\ \A i, j \in 1..N : i < j => l[i].seq + l[i].len <= l[j].seq
      /\ \A i, j \in 1..N : j = i + 1 => l[i].seq + l[i].len = l[j].seq
      /\ DOMAIN l = 1..N
  BY DEF Chain
<1>3. /\ \A i \in 1..N : l[i].xmit > 0 <=> l[i].seq < x
      /\ \A i \in 1..N : l[i].seq < x => l[i].seq + l[i].len <= x
  BY DEF Sent, ListMark
<1>4. Upto(l)[0] = 0 /\ \A k \in 1..N : Upto(l)[k] = l[k].seq + l[k].len - a
  BY UptoChain
<1> DEFINE T == {i \in 1..N : ~(l[i].seq < x)} \cup {N + 1}
<1>5. PICK n \in T : \A y \in T : n <= y
  <2>1. T \subseteq Nat /\ T # {}
    OBVIOUS
  <2> HIDE DEF T
  <2> QED BY <2>1, LeastElement
<1>6. n \in 1..N + 1 /\ n - 1 \in 0..N
  BY <1>5
<1> PICK m \in 0..N : m = n - 1
  BY <1>6
<1>7. \A i \in 1..N : i <= m => l[i].seq < x
  <2> SUFFICES ASSUME NEW i \in 1..N, i <= m, ~(l[i].seq < x)
               PROVE  FALSE
    OBVIOUS
  <2>1. n <= i
    BY <1>5
  <2> QED BY <1>6, <2>1
<1>8. m < N => ~(l[m + 1].seq < x)
  <2> SUFFICES ASSUME m < N
               PROVE  ~(l[m + 1].seq < x)
    OBVIOUS
  <2>1. n \in T /\ n # N + 1 /\ n = m + 1
    BY <1>5, <1>6
  <2> QED BY <2>1
<1> HIDE DEF T
<1>9. \A i \in 1..N : l[i].seq < x => i <= m
  <2> SUFFICES ASSUME NEW i \in 1..N, l[i].seq < x, i > m
               PROVE  FALSE
    BY <1>6
  <2>1. m < N /\ m + 1 \in 1..N
    BY <1>6
  <2>2. l[m + 1].seq \in Nat /\ l[m + 1].len \in Nat /\ l[i].seq \in Nat /\ l[m + 1].len > 0
    BY <1>1, <2>1
  <2>3. CASE i = m + 1
    BY <1>8, <2>1, <2>3
  <2>4. CASE m + 1 < i
    <3>1. l[m + 1].seq + l[m + 1].len <= l[i].seq
      BY <1>2, <2>1, <2>4
    <3>2. l[m + 1].seq < x
      BY <2>2, <3>1
    <3> QED BY <1>8, <2>1, <3>2
  <2> QED BY <1>6, <2>3, <2>4
<1>10. {i \in DOMAIN l : l[i].xmit > 0} = 1..m
  <2>1. {i \in DOMAIN l : l[i].xmit > 0} = {i \in 1..N : l[i].seq < x}
    BY <1>2, <1>3
  <2>2. {i \in 1..N : l[i].seq < x} = {i \in 1..N : i <= m}
    BY <1>7, <1>9
  <2>3. {i \in 1..N : i <= m} = 1..m
    OBVIOUS
  <2> QED BY <2>1, <2>2, <2>3
<1>11. Upto(l)[m] = x - a
  <2>1. CASE m = 0
    <3>1. x = a
      <4>1. CASE N = 0
        BY <1>2, <4>1
      <4>2. CASE N > 0
        <5>1. ~(l[1].seq < x) /\ l[1].seq = a
          BY <1>2, <1>8, <2>1, <4>2
        <5> QED BY <5>1
      <4> QED BY <4>1, <4>2
    <3>2. x - a = 0
      BY <3>1
    <3> QED BY <1>4, <2>1, <3>2
  <2>2. CASE m > 0
    <3>0. m \in 1..N /\ l[m].seq \in Nat /\ l[m].len \in Nat
      BY <1>1, <2>2
    <3>1. l[m].seq < x /\ l[m].seq + l[m].len <= x
      BY <1>3, <1>7, <3>0
    <3>4. Upto(l)[m] = (l[m].seq + l[m].len) - a
      <4>1. Upto(l)[m] = l[m].seq + l[m].len - a
        BY <1>4, <3>0
      <4>2. l[m].seq + l[m].len - a = (l[m].seq + l[m].len) - a
        BY <3>0
      <4> QED BY <4>1, <4>2, Zenon
    <3>2. CASE m = N
      <4>1. l[m].seq + l[m].len = b
        BY <1>2, <3>0, <3>2
      <4>2. l[m].seq + l[m].len = x
        BY <3>0, <3>1, <4>1
      <4> QED BY <3>4, <4>2
    <3>3. CASE m < N
      <4>1. m + 1 \in 1..N /\ l[m + 1].seq \in Nat /\ ~(l[m + 1].seq < x) /\ l[m].seq + l[m].len = l[m + 1].seq
        BY <1>1, <1>2, <1>8, <3>0, <3>3
      <4>2. l[m].seq + l[m].len = x
        BY <3>0, <3>1, <4>1
      <4> QED BY <3>4, <4>2
    <3> QED BY <3>2, <3>3
  <2>3. m = 0 \/ m > 0
    BY <1>6
  <2> QED BY <2>1, <2>2, <2>3
<1> QED BY <1>10, <1>11 DEF SentIs

\* The sizes of the intervals that occur
LEMMA IntervalSizes ==
  ASSUME NEW n \in Nat
  PROVE  Cardinality(1..n) = n /\ (n >= 1 => Cardinality(2..n) = n - 1)
<1>1. 1 \in Int /\ 2 \in Int /\ n \in Int
  OBVIOUS
<1>2. Cardinality(1..n) = IF 1 > n THEN 0 ELSE n - 1 + 1
  BY <1>1, FS_Interval
<1>3. Cardinality(2..n) = IF 2 > n THEN 0 ELSE n - 2 + 1
  BY <1>1, FS_Interval
<1> QED BY <1>2, <1>3

\* The segments of one end
Covering(t) ==
  LET sent == {i \in DOMAIN t.slist : t.slist[i].xmit > 0}
  IN /\ \A i \in DOMAIN t.slist : t.slist[i].seq = Add(t.snd_una, Upto(t.slist)[i - 1])
     /\ Upto(t.slist)[Len(t.slist)] = Len(t.sbuf)
     /\ sent = 1..Cardinality(sent)
     /\ t.snd_nxt = Add(t.snd_una, Upto(t.slist)[Cardinality(sent)])

\* The segments of an end cover its send buffer.
LEMMA EndCovering ==
  ASSUME NEW t, End(t), NoWrap
  PROVE  Covering(t)
<1> DEFINE l == t.slist
           a == t.snd_una
           b == Total(t)
           x == t.snd_nxt
           sent == {i \in DOMAIN l : l[i].xmit > 0}
<1>1. /\ a \in Nat /\ b \in Nat /\ x \in Nat /\ a <= x /\ x <= b /\ b < SeqSpace
      /\ Len(t.sbuf) \in Nat /\ b = a + Len(t.sbuf)
  BY EndNumbers
<1>2. Chain(l, a, b) /\ ListMark(l, x) /\ Sent(l, x)
  BY DEF End, Sender, Mark
<1> PICK N \in Nat : N = Len(l)
  BY <1>2 DEF Chain
<1>3. /\ \A i \in 1..N : l[i].seq \in Nat /\ l[i].len \in Nat /\ l[i].seq >= a /\ l[i].seq + l[i].len <= b
  BY <1>1, <1>2, ChainFacts
<1>4. /\ N = 0 => a = b
      /\ N > 0 => l[1].seq = a /\ l[N].seq + l[N].len = b
      /\ \A i, j \in 1..N : j = i + 1 => l[i].seq + l[i].len = l[j].seq
      /\ DOMAIN l = 1..N
  BY <1>2 DEF Chain
<1>5. Upto(l)[0] = 0 /\ \A k \in 1..N : Upto(l)[k] = l[k].seq + l[k].len - a
  BY <1>1, <1>2, UptoChain
<1>6. \E m \in 0..N : SentIs(l, m, x - a)
  <2> HIDE DEF l, a, b, x
  <2> QED BY <1>1, <1>2, SentFirst
<1> HIDE DEF l, a, b, x
<1>7. ASSUME NEW i \in 1..N
      PROVE  l[i].seq = Add(a, Upto(l)[i - 1])
  <2>1. l[i].seq \in Nat /\ l[i].len \in Nat /\ l[i].seq >= a /\ l[i].seq < SeqSpace
    BY <1>1, <1>3, Sizes, SMTT(60)
  <2>2. Upto(l)[i - 1] = l[i].seq - a
    <3>1. CASE i = 1
      <4>1. l[i].seq = a /\ Upto(l)[i - 1] = 0
        BY <1>4, <1>5, <3>1
      <4>2. l[i].seq - a = 0
        BY <1>1, <4>1
      <4> QED BY <4>1, <4>2
    <3>2. CASE i # 1
      <4>1. i - 1 \in 1..N /\ i = (i - 1) + 1
        BY <3>2
      <4>2. Upto(l)[i - 1] = l[i - 1].seq + l[i - 1].len - a
        BY <1>5, <4>1
      <4>3. l[i - 1].seq + l[i - 1].len = l[i].seq
        BY <1>4, <4>1
      <4>4. l[i - 1].seq \in Nat /\ l[i - 1].len \in Nat
        BY <1>3, <4>1
      <4>5. l[i - 1].seq + l[i - 1].len - a = (l[i - 1].seq + l[i - 1].len) - a
        BY <1>1, <4>4
      <4> QED BY <4>2, <4>3, <4>5, Zenon
    <3> QED BY <3>1, <3>2
  <2>3. l[i].seq - a \in Nat /\ a + (l[i].seq - a) = l[i].seq
    BY <1>1, <2>1
  <2>4. Add(a, l[i].seq - a) = l[i].seq
    BY <1>1, <2>1, <2>3, SmallNumbers
  <2> QED BY <2>2, <2>4
<1>8. Upto(l)[N] = Len(t.sbuf)
  <2>1. CASE N = 0
    <3>1. a = b
      BY <1>4, <2>1
    <3>2. Len(t.sbuf) = 0
      BY <1>1, <3>1
    <3> QED BY <1>5, <2>1, <3>2
  <2>2. CASE N > 0
    <3>1. Upto(l)[N] = l[N].seq + l[N].len - a /\ l[N].seq + l[N].len = b
      BY <1>4, <1>5, <2>2
    <3>2. b - a = Len(t.sbuf)
      BY <1>1
    <3>3. Upto(l)[N] = b - a
      <4>1. N \in 1..N
        BY <2>2
      <4>2. l[N].seq \in Nat /\ l[N].len \in Nat
        BY <1>3, <4>1
      <4>3. l[N].seq + l[N].len - a = (l[N].seq + l[N].len) - a
        BY <1>1, <4>2
      <4> QED BY <3>1, <4>3, Zenon
    <3> QED BY <3>2, <3>3
  <2>3. N = 0 \/ N > 0
    OBVIOUS
  <2> QED BY <2>1, <2>2, <2>3
<1>9. PICK m \in 0..N : sent = 1..m /\ Upto(l)[m] = x - a
  BY <1>6 DEF SentIs
<1> HIDE DEF sent
<1>10. Cardinality(sent) = m
  <2>2. Cardinality(1..m) = m
    BY IntervalSizes
  <2> QED BY <1>9, <2>2
<1>11. x = Add(a, Upto(l)[m])
  <2>1. x - a \in Nat /\ a + (x - a) = x /\ x < SeqSpace
    BY <1>1, Sizes
  <2>2. Add(a, x - a) = x
    BY <1>1, <2>1, SmallNumbers
  <2> QED BY <1>9, <2>2
<1> QED BY <1>4, <1>7, <1>8, <1>9, <1>10, <1>11 DEF Covering, l, a, x, sent

\* Of numbered bytes, only the first can be the connect message.
LEMMA QueuedBytes ==
  ASSUME NEW b \in Seq(Nat), NEW z \in Nat, Numbered(b, z)
  PROVE  Cardinality({i \in DOMAIN b : b[i] # CTL_CONNECT}) = IF z = 0 /\ b # <<>> THEN Len(b) - 1 ELSE Len(b)
<1> PICK N \in Nat : N = Len(b)
  OBVIOUS
<1>1. DOMAIN b = 1..N /\ \A i \in 1..N : b[i] = z + i - 1
  BY DEF Numbered
<1>2. CASE z = 0 /\ b # <<>>
  <2>1. N >= 1
    BY <1>2
  <2>2. {i \in DOMAIN b : b[i] # CTL_CONNECT} = 2..N
    BY <1>1, <1>2 DEF CTL_CONNECT
  <2>4. Cardinality(2..N) = N - 1
    BY <2>1, IntervalSizes
  <2> QED BY <1>2, <2>2, <2>4
<1>3. CASE ~(z = 0 /\ b # <<>>)
  <2>1. {i \in DOMAIN b : b[i] # CTL_CONNECT} = 1..N
    <3>1. CASE z = 0
      <4>1. N = 0
        BY <1>3, <3>1
      <4> QED BY <1>1, <4>1
    <3>2. CASE z > 0
      BY <1>1, <3>2 DEF CTL_CONNECT
    <3> QED BY <3>1, <3>2
  <2>3. Cardinality(1..N) = N
    BY IntervalSizes
  <2> QED BY <1>3, <2>1, <2>3
<1> QED BY <1>2, <1>3

\* What was acknowledged is at the server.
LEMMA Delivered ==
  ASSUME TcpInv
  PROVE  AckedIsDelivered
<1> DEFINE c == tcb["client"]
           s == tcb["server"]
           q == Cardinality({i \in DOMAIN c.sbuf : c.sbuf[i] # CTL_CONNECT})
           m == s.rcv_nxt - 1 - Len(s.rbuf)
<1>1. End(c) /\ End(s) /\ Flow(c, s)
  BY Known DEF Ends, Peer
<1>2. /\ c.snd_una \in Nat /\ c.sbuf \in Seq(Nat) /\ Len(c.sbuf) \in Nat /\ Total(c) = c.snd_una + Len(c.sbuf)
      /\ s.rcv_nxt \in Nat /\ Len(s.rbuf) \in Nat
  BY <1>1, EndNumbers
<1>3. Numbered(c.sbuf, c.snd_una) /\ c.snd_una <= s.rcv_nxt
  BY <1>1 DEF End, Sender, Flow
<1>4. /\ written \in 0..FileLen /\ Total(c) \in {0, written + 1} /\ (written > 0 => Total(c) = written + 1)
      /\ read = [i \in 1..m |-> i]
  BY DEF TcpInv, Roles, Handshake, ClientRole, ReadOK, Counts
<1>5. q = IF c.snd_una = 0 /\ c.sbuf # <<>> THEN Len(c.sbuf) - 1 ELSE Len(c.sbuf)
  BY <1>2, <1>3, QueuedBytes
<1>6. AckedIsDelivered <=> written - q <= Len(read) + Len(s.rbuf)
  BY DEF AckedIsDelivered
<1> HIDE DEF c, s, q
<1>7. written \in Nat /\ m \in Int
  BY <1>2, <1>4, Sizes
<1>8. Len(read) \in Nat /\ Len(read) >= m
  <2> HIDE DEF m
  <2> PICK r \in Nat : r = Len(read)
    BY <1>4, <1>7, FirstBytes
  <2>1. (m >= 0 => r = m) /\ (m < 0 => r = 0)
    BY <1>4, <1>7, FirstBytes
  <2>2. r >= m
    BY <1>7, <2>1
  <2> QED BY <2>2
<1>9. Len(read) + Len(s.rbuf) >= s.rcv_nxt - 1 /\ Len(read) + Len(s.rbuf) \in Nat
  BY <1>2, <1>8
<1>10. c.sbuf = <<>> <=> Len(c.sbuf) = 0
  BY <1>2
<1>11. CASE c.snd_una = 0
  <2>1. q \in Nat /\ written - q <= 0
    BY <1>2, <1>4, <1>5, <1>7, <1>10, <1>11
  <2> QED BY <1>6, <1>7, <1>9, <2>1
<1>12. CASE c.snd_una > 0
  <2>1. q = Len(c.sbuf) /\ Total(c) = written + 1
    BY <1>2, <1>4, <1>5, <1>7, <1>12
  <2>2. written - q = c.snd_una - 1
    BY <1>2, <1>7, <2>1
  <2>3. written - q <= s.rcv_nxt - 1
    BY <1>2, <1>3, <2>2
  <2>4. q \in Nat
    BY <1>2, <2>1
  <2>5. written - q <= Len(read) + Len(s.rbuf)
    BY <1>2, <1>7, <1>9, <2>3, <2>4
  <2> QED BY <1>6, <2>5
<1> QED BY <1>2, <1>11, <1>12

\* The ends hold values of their types, and no buffer is larger than its size.
THEOREM AlwaysTypeOK == NoWrap => (Spec => []TypeOK)
<1> SUFFICES ASSUME NoWrap
             PROVE  Spec => []TypeOK
  OBVIOUS
<1>1. ASSUME TcpInv
      PROVE  TypeOK
  <2>1. ASSUME NEW e \in Ends
        PROVE  LET t == tcb[e] IN
               /\ t.state \in {"LISTEN", "SYN_SENT", "SYN_RECEIVED", "ESTABLISHED", "CLOSED"}
               /\ t.sbuf \in Seq(Bytes) /\ Len(t.sbuf) <= SBufLen
               /\ t.rbuf \in Seq(Bytes) /\ Len(t.rbuf) <= RBufLen
               /\ t.ahead \in [0..RBufLen - 1 -> Bytes]
               /\ {t.snd_una, t.snd_nxt, t.snd_wnd, t.rcv_nxt, t.rcv_wnd, t.recover} \subseteq Numbers
               /\ t.mss \in 1..Mss /\ t.cwnd \in 1..CwndMax /\ t.dup_acks \in 0..DupMax
               /\ t.out = <<>> /\ t.sflags = "None" /\ t.failed \in BOOLEAN
    <3> DEFINE t == tcb[e]
    <3>1. End(t) /\ End(tcb[Peer(e)]) /\ Flow(tcb[Peer(e)], t)
      BY <1>1, Known
    <3>2. t.out = <<>> /\ t.sflags = "None"
      BY <1>1 DEF TcpInv
    <3> HIDE DEF t
    <3>3. /\ t.state \in StateNames /\ t.mss \in 1..Mss /\ t.cwnd \in 1..CwndMax /\ t.dup_acks \in 0..DupMax
          /\ t.failed \in BOOLEAN
      BY <3>1 DEF End, Tcb
    <3>4. /\ t.sbuf \in Seq(Bytes) /\ Len(t.sbuf) <= SBufLen
          /\ t.rbuf \in Seq(Bytes) /\ Len(t.rbuf) <= RBufLen
          /\ t.ahead \in [0..RBufLen - 1 -> Bytes]
      BY <3>1, BufferBytes
    <3>5. {t.snd_una, t.snd_nxt, t.snd_wnd, t.rcv_nxt, t.rcv_wnd, t.recover} \subseteq Numbers
      BY <3>1, NumbersBelow
    <3> QED BY <3>2, <3>3, <3>4, <3>5 DEF t, StateNames
  <2>2. ASSUME NEW e \in Ends, NEW i \in DOMAIN net[e]
        PROVE  net[e][i].data \in Seq(Bytes)
    <3>1. net[e] \in Seq(PacketRecord)
      BY <1>1, Facing
    <3>2. net[e][i] \in Held(net[e])
      BY <3>1 DEF Held
    <3>3. End(tcb[Peer(e)]) /\ PacketOK(net[e][i], tcb[Peer(e)], tcb[e])
      BY <1>1, <3>2, Known
    <3> QED BY <3>3, PacketBytes
  <2>3. read \in Seq(Bytes)
    <3>1. /\ read \in Seq(Nat) /\ Len(read) \in Nat /\ read = [i \in 1..Len(read) |-> i]
          /\ Len(read) <= written
      BY <1>1, Transfer
    <3>2. written <= FileLen /\ written \in Nat
      BY <1>1, Sizes DEF TcpInv, Counts
    <3>3. \A i \in 1..Len(read) : read[i] = 1 + i - 1
      BY <3>1
    <3>4. 1 + Len(read) <= FileLen + 1
      BY <3>1, <3>2, Sizes
    <3> QED BY <3>1, <3>3, <3>4, NumberedBytes DEF Numbered
  <2>4. Counts
    BY <1>1 DEF TcpInv
  <2> QED BY <2>1, <2>2, <2>3, <2>4 DEF TypeOK, Counts
<1> QED BY <1>1, TcpInvariant, PTL

\* The segments of the send list cover the send buffer, those transmitted first
\* and up to snd_nxt: an acknowledgement never ends inside a segment, however
\* segments were split and whichever packets were lost, repeated or reordered.
THEOREM AlwaysSegmentsCoverBuffer == NoWrap => (Spec => []SegmentsCoverBuffer)
<1> SUFFICES ASSUME NoWrap
             PROVE  Spec => []SegmentsCoverBuffer
  OBVIOUS
<1>1. ASSUME TcpInv
      PROVE  SegmentsCoverBuffer
  <2>1. \A e \in Ends : Covering(tcb[e])
    BY <1>1, Known, EndCovering
  <2> QED BY <2>1 DEF SegmentsCoverBuffer, Covering
<1> QED BY <1>1, TcpInvariant, PTL

\* Every acknowledged byte is in the server's buffer or has been read, so a
\* graceful close of an empty send buffer loses nothing.
THEOREM AlwaysAckedIsDelivered == NoWrap => (Spec => []AckedIsDelivered)
<1> SUFFICES ASSUME NoWrap
             PROVE  Spec => []AckedIsDelivered
  OBVIOUS
<1>1. TcpInv => AckedIsDelivered
  BY Delivered
<1> QED BY <1>1, TcpInvariant, PTL

\* The announced window is backed by free space, and the client never believes
\* in a larger one, even from an announcement that was overtaken.
THEOREM AlwaysWindowBacked == NoWrap => (Spec => []WindowBacked)
<1> SUFFICES ASSUME NoWrap
             PROVE  Spec => []WindowBacked
  OBVIOUS
<1>1. ASSUME TcpInv
      PROVE  WindowBacked
  <2>1. \A e \in Ends : tcb[e].rcv_wnd <= Room(tcb[e])
    BY <1>1, Known DEF End, Receiver
  <2>2. Flow(tcb["client"], tcb["server"])
    BY <1>1, Known DEF Ends, Peer
  <2> QED BY <2>1, <2>2 DEF WindowBacked, Flow, Edge
<1> QED BY <1>1, TcpInvariant, PTL

\* The retransmission timer is armed exactly while something is unacknowledged.
THEOREM AlwaysTimerArmed == NoWrap => (Spec => []TimerArmed)
<1> SUFFICES ASSUME NoWrap
             PROVE  Spec => []TimerArmed
  OBVIOUS
<1>1. ASSUME TcpInv
      PROVE  TimerArmed
  <2>1. \A e \in Ends : Timed(tcb[e])
    BY <1>1, Known DEF End
  <2> QED BY <2>1 DEF TimerArmed, Timed, Live
<1> QED BY <1>1, TcpInvariant, PTL

-----------------------------------------------------------------------------
(* The connection is a bounded pipe.                                       *)

Broken == \E e \in Ends : tcb[e].state = "CLOSED"

\* Every step is one of the pipe, or none.
LEMMA StepOfStream ==
  ASSUME TcpInv, TcpInv', Visible
  PROVE  [Stream!Next]_(Stream!vars)
<1>1. /\ written \in Nat /\ Len(read) \in Nat /\ read = [i \in 1..Len(read) |-> i] /\ Len(read) <= written
  BY Transfer
<1>2. /\ written' \in Nat /\ Len(read') \in Nat /\ read' = [i \in 1..Len(read') |-> i]
      /\ Len(read') <= written' /\ written' - Len(read') <= SBufLen + RBufLen /\ written' <= FileLen
  <2>1. (/\ written \in Nat /\ Len(read) \in Nat /\ read = [i \in 1..Len(read) |-> i]
         /\ Len(read) <= written /\ written - Len(read) <= SBufLen + RBufLen)'
    BY Transfer, PTL
  <2>2. written' \in 0..FileLen
    BY DEF TcpInv, Counts
  <2> QED BY <2>1, <2>2, Sizes
<1>3. CASE Onward
  <2>1. UNCHANGED <<written, read>> /\ (Broken => Broken')
    BY <1>3 DEF Onward, Broken
  <2>2. CASE Broken'
    BY <2>1, <2>2 DEF Stream!Next, Stream!Break, Broken
  <2>3. CASE ~Broken'
    BY <2>1, <2>3 DEF Stream!vars, Broken
  <2> QED BY <2>2, <2>3
<1>4. CASE Wrote
  <2>1. written' > written /\ read' = read /\ Broken' = Broken
    BY <1>4 DEF Wrote, Broken
  <2>2. written' \in written + 1 .. FileLen /\ written' - Len(read) <= SBufLen + RBufLen
    BY <1>1, <1>2, <2>1, Sizes
  <2> QED BY <2>1, <2>2 DEF Stream!Next, Stream!Write, Broken
<1>5. CASE HasRead
  <2>1. Len(read') >= Len(read) /\ written' = written /\ Broken' = Broken
    BY <1>5 DEF HasRead, Broken
  <2>2. CASE Len(read') = Len(read)
    <3>1. read' = read
      BY <1>1, <1>2, <2>2
    <3> QED BY <2>1, <3>1 DEF Stream!vars, Broken
  <2>3. CASE Len(read') # Len(read)
    <3>0. /\ Len(read) \in Nat /\ Len(read') \in Nat /\ written \in Nat
          /\ Len(read') <= written /\ Len(read') >= Len(read) /\ Len(read') # Len(read)
      BY <1>1, <1>2, <2>1, <2>3
    <3>1. Len(read') \in Len(read) + 1 .. written
      BY <3>0
    <3> QED BY <1>2, <2>1, <3>1 DEF Stream!Next, Stream!Read, Broken
  <2> QED BY <2>2, <2>3
<1> QED BY <1>3, <1>4, <1>5 DEF Visible

\* The safety part of ByteStream, for this connection: bytes come out in order
\* and once, at most SBufLen + RBufLen of them are under way, and a broken
\* connection stays broken.
StreamSafety == Stream!Init /\ [][Stream!Next]_(Stream!vars)

\* A connection implements the safety part of ByteStream, whatever is lost,
\* repeated or reordered, whichever timers run early and however often the
\* segment size changes.
THEOREM ConnectionIsStream == NoWrap => (Spec => StreamSafety)
<1> SUFFICES ASSUME NoWrap
             PROVE  Spec => StreamSafety
  OBVIOUS
<1>1. Init => Stream!Init
  <2> SUFFICES ASSUME Init
               PROVE  Stream!Init
    OBVIOUS
  <2>1. \A e \in Ends : tcb[e].state = "LISTEN"
    BY NewEnd DEF Init
  <2> QED BY <2>1 DEF Init, Stream!Init
<1>2. TcpInv /\ TcpInv' /\ [Next]_vars => [Stream!Next]_(Stream!vars)
  BY NextStep, StepOfStream
<1> QED BY <1>1, <1>2, TcpInvariant, PTL DEF Spec, StreamSafety
=============================================================================
