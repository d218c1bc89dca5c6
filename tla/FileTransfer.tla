---------------------------- MODULE FileTransfer ----------------------------
(***************************************************************************)
(* One file over one established tunnel: the CustomXmppPump of the sending *)
(* and of the receiving process (src/main/customxmpppump.cc), the          *)
(* PseudoTcpChannel under each (src/talk/session/tunnel), the reliable     *)
(* byte stream PseudoTcp provides (src/talk/p2p/base/pseudotcp.cc) and the *)
(* session that is terminated when a channel goes away.                    *)
(*                                                                         *)
(* A process runs everything on one thread: a handler runs to its end      *)
(* before the next message of its queue, or the next packet, is looked at. *)
(* The two processes and the network interleave freely.                    *)
(***************************************************************************)
EXTENDS Integers, Sequences, FiniteSets, SequencesExt, FiniteSetsExt, MessageQueues

CONSTANTS
  Source,       \* the content of the file, a sequence of units
  BufLen,       \* sizeof(buffer_) of the pump
  SendCap,      \* m_sbuf_len of PseudoTcp
  RecvCap,      \* m_rbuf_len of PseudoTcp
  MaxFaults     \* bound: connection and file errors in one behaviour

ASSUME ConstantsAssumption ==
  /\ Source \in Seq(Nat)
  /\ BufLen \in Nat \ {0}
  /\ RecvCap \in Nat \ {0}
  /\ SendCap \in Nat /\ SendCap > RecvCap     \* ASSERT in PseudoTcp::PseudoTcp
  /\ MaxFaults \in Nat

Ends == {"snd", "rcv"}
Peer(e) == IF e = "snd" THEN "rcv" ELSE "snd"

\* Messages of the thread's queue. MSG_ST_EVENT is named by its event:
StreamEvents == {"open",       \* SE_OPEN | SE_READ | SE_WRITE
                 "read", "write",
                 "close",      \* SE_CLOSE, error 0
                 "error"}      \* SE_CLOSE, error # 0
Messages == StreamEvents \cup
  {"destroychannel", "purge", "destroy",  \* MSG_SI_DESTROYCHANNEL, MSG_WK_PURGE,
                                          \* MSG_SI_DESTROY
   "state", "sesserror",                  \* MSG_STATE and MSG_ERROR of the session
   "run",                                 \* XmppPump: run the tasks, one of which
                                          \* sends the terminate stanza
   "done"}                                \* MSG_DONE, handled by Loop

VARIABLES
  client,       \* the end that is not the server: the one that runs Loop
  looping,      \* the client is inside Loop
  q,            \* the message queue of each process
  delayed,      \* a PostDelayed MSG_DONE has not fired
  \* CustomXmppPump
  pc,           \* where OnStreamEvent is
  file,         \* file_ # NULL
  fpos,         \* read position of the sender's file
  out,          \* content of the receiver's file
  buffer,       \* buffer_, buffer_len_ is its length
  pos,          \* write_pos of the sender
  \* PseudoTcpChannel
  stream,       \* stream_ # NULL
  chan,         \* channel_ # NULL (and session_ # NULL)
  worker,       \* worker_thread_ # NULL
  alive,        \* the object has not been deleted
  pendingRead,  \* pending_read_event_
  \* PseudoTcp
  tcp,          \* "opening", "established", "closed", or "gone" (tcp_ = NULL)
  shut,         \* m_shutdown # SD_NONE
  sbuf,         \* m_sbuf of the sender
  sent,         \* how many units of sbuf the receiver has, not yet acknowledged
  rbuf,         \* m_rbuf of the receiver
  writeEnable,  \* m_bWriteEnable of the sender
  readEnable,   \* m_bReadEnable of the receiver
  \* Session
  term,         \* "live", "sent" or "received" terminate, "dead"
  stanza,       \* the ends a terminate stanza is on its way to
  faults,       \* observation: errors so far
  late          \* observation: the tunnel did not empty within the two seconds of PostDelayed

pumpVars == <<pc, file, fpos, out, buffer, pos>>
chanVars == <<stream, chan, worker, alive, pendingRead>>
tcpVars  == <<tcp, shut, sbuf, sent, rbuf, writeEnable, readEnable>>
sessVars == <<term, stanza>>
loopVars == <<client, looping, delayed, late>>
vars == <<client, looping, q, delayed, pc, file, fpos, out, buffer, pos,
          stream, chan, worker, alive, pendingRead, tcp, shut, sbuf, sent, rbuf,
          writeEnable, readEnable, term, stanza, faults, late>>

Set(f, e, v) == [f EXCEPT ![e] = v]

\* OnTcpWriteable is signalled below this fill level of m_sbuf.
RefillNever == 0
RefillSize == (SendCap + RecvCap) \div 2
-----------------------------------------------------------------------------
\* The process of end e looks at its queue and its sockets. A client that has
\* left Loop is back in its own code and does neither.
Idle(e) == pc[e] = "idle" /\ (e = client => looping)

\* Loop takes the first message of the queue.
Next_(e, m) == Idle(e) /\ q[e] # <<>> /\ Head(q[e]) = m

\* PseudoTcp::clock_check: nothing is left to do after Close(false).
Drained(e, sb) ==
  tcp[e] # "established" \/ IF e = "snd" THEN sb = <<>> ELSE sent = 0

\* tcp_ is deleted, and with it what its buffers hold.
DeleteTcp(e) ==
  /\ tcp' = Set(tcp, e, "gone")
  /\ sbuf' = IF e = "snd" THEN <<>> ELSE sbuf
  /\ sent' = IF e = "snd" THEN 0 ELSE sent
  /\ rbuf' = IF e = "rcv" THEN <<>> ELSE rbuf

\* PseudoTcpChannel::AdjustClock when the connection is finished
DestroyChannelMsg(e) == IF chan[e] THEN <<"destroychannel">> ELSE <<>>
-----------------------------------------------------------------------------
(* PseudoTcp and the network.                                              *)

\* The three-way handshake ends first at the initiator, the client.
TcpOpen(e) ==
  /\ Idle(e)
  /\ tcp[e] = "opening"
  /\ IF e = client THEN tcp[Peer(e)] = "opening" ELSE tcp[client] # "opening"
  /\ tcp' = Set(tcp, e, "established")
  /\ IF stream[e]
     THEN /\ pendingRead' = Set(pendingRead, e, TRUE)
          /\ q' = Set(q, e, Append(q[e], "open"))
     ELSE UNCHANGED <<pendingRead, q>>
  /\ UNCHANGED <<pumpVars, sessVars, loopVars, faults, stream, chan, worker, alive,
                 shut, sbuf, sent, rbuf, writeEnable, readEnable>>

\* A segment arrives in order and within the receive window.
Deliver ==
  LET wake == ~shut["rcv"] /\ readEnable
      post == wake /\ stream["rcv"] /\ ~pendingRead["rcv"]
  IN
  /\ Idle("rcv")
  /\ tcp["snd"] = "established" /\ tcp["rcv"] = "established"
  /\ sent < Len(sbuf)
  /\ Len(rbuf) < RecvCap
  /\ sent' = sent + 1
  /\ rbuf' = IF shut["rcv"] THEN rbuf ELSE Append(rbuf, sbuf[sent + 1])
  /\ readEnable' = (readEnable /\ ~wake)
  /\ pendingRead' = IF post THEN Set(pendingRead, "rcv", TRUE) ELSE pendingRead
  /\ q' = IF post THEN Set(q, "rcv", Append(q["rcv"], "read")) ELSE q
  /\ UNCHANGED <<pumpVars, sessVars, loopVars, faults, stream, chan, worker, alive,
                 tcp, shut, sbuf, writeEnable>>

\* An acknowledgement frees the send buffer; a blocked writer is woken, and a
\* closing connection that has nothing left is deleted (AdjustClock).
Ack ==
  LET rest == SubSeq(sbuf, sent + 1, Len(sbuf))
      wake == writeEnable /\ Len(rest) < RefillSize
      finished == shut["snd"] /\ rest = <<>>
  IN
  /\ Idle("snd")
  /\ tcp["snd"] = "established"
  /\ sent > 0
  /\ writeEnable' = (writeEnable /\ ~wake)
  /\ sent' = 0
  /\ sbuf' = rest
  /\ tcp' = IF finished THEN Set(tcp, "snd", "gone") ELSE tcp
  /\ q' = Set(q, "snd", q["snd"]
                \o (IF wake /\ stream["snd"] THEN <<"write">> ELSE <<>>)
                \o (IF finished THEN DestroyChannelMsg("snd") ELSE <<>>))
  /\ UNCHANGED <<pumpVars, sessVars, loopVars, chanVars, faults, shut, rbuf, readEnable>>

\* MSG_WK_CLOCK sends the delayed acknowledgement of a closed receiver.
ClockStep ==
  /\ Idle("rcv")
  /\ tcp["rcv"] = "established" /\ shut["rcv"]
  /\ DeleteTcp("rcv")
  /\ q' = Set(q, "rcv", q["rcv"] \o DestroyChannelMsg("rcv"))
  /\ UNCHANGED <<pumpVars, sessVars, loopVars, chanVars, faults, shut, writeEnable,
                 readEnable>>

\* PseudoTcp::closedown: too many retransmissions, a closed window for 15 s
\* or a reset.
Closedown(e) ==
  /\ Idle(e)
  /\ tcp[e] \in {"opening", "established"}
  /\ faults < MaxFaults
  /\ faults' = faults + 1
  /\ IF shut[e] THEN DeleteTcp(e)
     ELSE tcp' = Set(tcp, e, "closed") /\ UNCHANGED <<sbuf, sent, rbuf>>
  /\ q' = Set(q, e, q[e] \o (IF stream[e] THEN <<"error">> ELSE <<>>)
                         \o (IF shut[e] THEN DestroyChannelMsg(e) ELSE <<>>))
  /\ UNCHANGED <<pumpVars, sessVars, loopVars, chanVars, shut, writeEnable, readEnable>>
-----------------------------------------------------------------------------
(* CustomXmppPump.                                                         *)

\* PseudoTcpChannel::Close clears the pending events of the stream.
KeepEvents(s) == s
ClearEvents(s) == Without(s, StreamEvents)

\* Cleanup: the stream is closed (PseudoTcpChannel::Close), the file is
\* closed, and a client posts MSG_DONE, at once or in two seconds. q0 is the
\* queue of the process without the message being handled.
Cleanup(e, delay, q0) ==
  LET hasTcp == tcp[e] # "gone"
      finished == hasTcp /\ Drained(e, sbuf)
      closing == IF finished THEN DestroyChannelMsg(e)
                 ELSE IF hasTcp \/ worker[e] THEN <<>>
                 ELSE <<"destroy">>                       \* CheckDestroy
  IN
  /\ stream' = Set(stream, e, FALSE)
  /\ shut' = Set(shut, e, shut[e] \/ hasTcp)
  /\ IF finished THEN DeleteTcp(e) ELSE UNCHANGED <<tcp, sbuf, sent, rbuf>>
  /\ file' = Set(file, e, FALSE)
  /\ pc' = Set(pc, e, "idle")
  /\ q' = Set(q, e, ClearEvents(q0) \o closing
                    \o (IF e = client /\ ~delay THEN <<"done">> ELSE <<>>))
  /\ delayed' = (delayed \/ (e = client /\ delay))

\* MSG_ST_EVENT: OnStreamEvent is entered; SE_CLOSE is handled at once.
StreamEvent(e, m) ==
  /\ Next_(e, m)
  /\ pendingRead' = Set(pendingRead, e, pendingRead[e] /\ m \notin {"open", "read"})
  /\ IF m \in {"close", "error"}
     THEN Cleanup(e, FALSE, Tail(q[e])) /\ UNCHANGED <<buffer, pos>>
     ELSE /\ q' = Set(q, e, Tail(q[e]))
          /\ IF e = "snd" /\ m \in {"open", "write"}
             THEN pc' = Set(pc, e, "write") /\ pos' = 0 /\ UNCHANGED buffer
             ELSE IF e = "rcv" /\ m \in {"open", "read"}
             THEN /\ pc' = Set(pc, e, "read")
                  /\ buffer' = Set(buffer, e, <<>>)
                  /\ UNCHANGED pos
             ELSE UNCHANGED <<pc, pos, buffer>>
          /\ UNCHANGED <<file, stream, delayed, tcp, shut, sbuf, sent, rbuf>>
  /\ UNCHANGED <<client, looping, late, fpos, out, chan, worker, alive, writeEnable,
                 readEnable, sessVars, faults>>

\* What a write that returned SR_BLOCK leaves in buffer_ (memmove).
DropAll(b, n) == <<>>
Remainder(b, n) == SubSeq(b, n + 1, Len(b))

\* PseudoTcp::queue takes what the send buffer has room for.
AcceptAll(n) == n
Accepted(n) == Min({n, SendCap - Len(sbuf)})

\* stream->Write: what fits into the send buffer is taken; a full buffer, or a
\* connection that is gone, blocks; a closed one fails.
WriteStep ==
  LET b == buffer["snd"]
      n == Accepted(Len(b) - pos)
  IN
  /\ pc["snd"] = "write" /\ pos < Len(b)
  /\ \/ /\ tcp["snd"] = "established" /\ n > 0
        /\ sbuf' = sbuf \o SubSeq(b, pos + 1, pos + n)
        /\ pos' = pos + n
        /\ UNCHANGED <<pc, buffer, writeEnable, q, stream, file, delayed, tcp, shut,
                       sent, rbuf>>
     \/ /\ tcp["snd"] = "gone" \/ (tcp["snd"] = "established" /\ n = 0)
        /\ buffer' = Set(buffer, "snd", Remainder(b, pos))
        /\ pc' = Set(pc, "snd", "idle")
        /\ pos' = 0
        /\ writeEnable' = (writeEnable \/ tcp["snd"] = "established")
        /\ UNCHANGED <<q, stream, file, delayed, tcp, shut, sbuf, sent, rbuf>>
     \/ /\ tcp["snd"] = "closed"
        /\ Cleanup("snd", FALSE, q["snd"])
        /\ UNCHANGED <<pos, buffer, writeEnable>>
  /\ UNCHANGED <<client, looping, late, fpos, out, chan, worker, alive, pendingRead,
                 readEnable, sessVars, faults>>

\* file_->Read until buffer_ is full or the file ends; at the end of the file
\* the stream is closed with the delayed MSG_DONE.
FillStep ==
  LET n == Min({BufLen, Len(Source) - fpos}) IN
  /\ pc["snd"] = "write" /\ pos = Len(buffer["snd"])
  /\ buffer' = Set(buffer, "snd", SubSeq(Source, fpos + 1, fpos + n))
  /\ fpos' = fpos + n
  /\ pos' = 0
  /\ IF n > 0
     THEN UNCHANGED <<pc, q, stream, file, delayed, tcp, shut, sbuf, sent, rbuf>>
     ELSE Cleanup("snd", TRUE, q["snd"])
  /\ UNCHANGED <<client, looping, late, out, chan, worker, alive, pendingRead, writeEnable,
                 readEnable, sessVars, faults>>

\* file_->Read fails.
ReadError ==
  /\ pc["snd"] = "write" /\ pos = Len(buffer["snd"])
  /\ faults < MaxFaults
  /\ faults' = faults + 1
  /\ Cleanup("snd", FALSE, q["snd"])
  /\ UNCHANGED <<client, looping, late, fpos, out, buffer, pos, chan, worker, alive,
                 pendingRead, writeEnable, readEnable, sessVars>>

\* stream->Read: what is there is taken and SE_READ is posted again, so that
\* the stream is drained; an empty or deleted connection blocks.
ReadStep ==
  LET b == buffer["rcv"]
      n == Min({BufLen - Len(b), Len(rbuf)})
  IN
  /\ pc["rcv"] = "read"
  /\ \/ /\ tcp["rcv"] = "established" /\ n > 0
        /\ buffer' = Set(buffer, "rcv", b \o SubSeq(rbuf, 1, n))
        /\ rbuf' = SubSeq(rbuf, n + 1, Len(rbuf))
        /\ pc' = Set(pc, "rcv", IF Len(b) + n = BufLen THEN "store" ELSE "read")
        /\ pendingRead' = Set(pendingRead, "rcv", TRUE)
        /\ q' = IF pendingRead["rcv"] THEN q
                ELSE Set(q, "rcv", Append(q["rcv"], "read"))
        /\ UNCHANGED <<readEnable, stream, file, delayed, tcp, shut, sbuf, sent>>
     \/ /\ tcp["rcv"] = "gone" \/ (tcp["rcv"] = "established" /\ n = 0)
        /\ readEnable' = (readEnable \/ tcp["rcv"] = "established")
        /\ pc' = Set(pc, "rcv", IF b = <<>> THEN "idle" ELSE "store")
        /\ UNCHANGED <<buffer, rbuf, pendingRead, q, stream, file, delayed, tcp, shut,
                       sbuf, sent>>
     \/ /\ tcp["rcv"] = "closed"
        /\ Cleanup("rcv", FALSE, q["rcv"])
        /\ UNCHANGED <<buffer, pendingRead, readEnable>>
  /\ UNCHANGED <<client, looping, late, fpos, out, pos, chan, worker, alive, writeEnable,
                 sessVars, faults>>

\* file_->Write of the whole buffer
StoreStep ==
  /\ pc["rcv"] = "store"
  /\ out' = out \o buffer["rcv"]
  /\ buffer' = Set(buffer, "rcv", <<>>)
  /\ pc' = Set(pc, "rcv", "read")
  /\ UNCHANGED <<loopVars, q, file, fpos, pos, chanVars, tcpVars, sessVars, faults>>

\* file_->Write fails after n units.
StoreError(n) ==
  /\ pc["rcv"] = "store"
  /\ n < Len(buffer["rcv"])
  /\ faults < MaxFaults
  /\ faults' = faults + 1
  /\ out' = out \o SubSeq(buffer["rcv"], 1, n)
  /\ Cleanup("rcv", FALSE, q["rcv"])
  /\ UNCHANGED <<client, looping, late, fpos, buffer, pos, chan, worker, alive, pendingRead,
                 writeEnable, readEnable, sessVars>>
-----------------------------------------------------------------------------
(* The end of the channel and of the session.                              *)

\* OnChannelDestroyed; q0 is the queue of the process. MSG_SI_DESTROYCHANNEL
\* is cleared, and an owner that still holds the stream is told.
KeepDestroy(s) == s
ClearDestroy(s) == Without(s, {"destroychannel"})
NoCloseEvent(e) == <<>>
CloseEvent(e) == IF stream[e] /\ tcp[e] # "closed" THEN <<"close">> ELSE <<>>
OnChannelDestroyed(e, q0, andThen) ==
  /\ chan' = Set(chan, e, FALSE)
  /\ DeleteTcp(e)
  /\ shut' = Set(shut, e, TRUE)
  /\ q' = Set(q, e, ClearDestroy(q0) \o <<"purge">> \o CloseEvent(e) \o andThen)

\* MSG_SI_DESTROYCHANNEL; TunnelSession::OnChannelClosed terminates the
\* session unless it is already terminated. The stanza is given to a task.
DestroyChannel(e) ==
  LET live == term[e] = "live" IN
  /\ Next_(e, "destroychannel")
  /\ OnChannelDestroyed(e, Tail(q[e]), IF live THEN <<"run", "state">> ELSE <<>>)
  /\ term' = IF live THEN Set(term, e, "sent") ELSE term
  /\ UNCHANGED <<loopVars, pumpVars, stream, worker, alive, pendingRead, writeEnable,
                 readEnable, stanza, faults>>

\* XmppPump::OnMessage: the task sends the stanza.
RunTasks(e) ==
  /\ Next_(e, "run")
  /\ stanza' = stanza \cup {Peer(e)}
  /\ q' = Set(q, e, Tail(q[e]))
  /\ UNCHANGED <<loopVars, pumpVars, chanVars, tcpVars, term, faults>>

\* A terminate stanza arrives; one for a destroyed session is ignored.
RecvTerminate(e) ==
  /\ Idle(e)
  /\ e \in stanza
  /\ stanza' = stanza \ {e}
  /\ IF term[e] = "dead" THEN UNCHANGED <<term, q>>
     ELSE /\ term' = Set(term, e, "received")
          /\ q' = Set(q, e, Append(q[e], "state"))
  /\ UNCHANGED <<loopVars, pumpVars, chanVars, tcpVars, faults>>

\* MSG_TIMEOUT: the transport was not writable for the session timeout.
SessionTimeout(e) ==
  /\ Idle(e)
  /\ chan[e] /\ term[e] # "dead"
  /\ faults < MaxFaults
  /\ faults' = faults + 1
  /\ q' = Set(q, e, Append(q[e], "sesserror"))
  /\ UNCHANGED <<loopVars, pumpVars, chanVars, tcpVars, sessVars>>

\* MSG_ERROR: TerminateWithReason, from either side only once. The channel
\* stays until the session is destroyed.
SessionError(e) ==
  LET live == term[e] = "live" IN
  /\ Next_(e, "sesserror")
  /\ term' = IF live THEN Set(term, e, "sent") ELSE term
  /\ q' = Set(q, e, Tail(q[e]) \o (IF live THEN <<"run", "state">> ELSE <<>>))
  /\ UNCHANGED <<loopVars, pumpVars, chanVars, tcpVars, stanza, faults>>

\* MSG_STATE of a terminated session: DestroySession, which clears the
\* session's messages and destroys its channel.
ClearSession(s) == Without(s, {"state", "sesserror"})
SessionState(e) ==
  /\ Next_(e, "state")
  /\ term' = Set(term, e, "dead")
  /\ IF chan[e] THEN OnChannelDestroyed(e, ClearSession(q[e]), <<>>)
     ELSE /\ q' = Set(q, e, ClearSession(q[e]))
          /\ UNCHANGED <<chan, tcp, sbuf, sent, rbuf, shut>>
  /\ UNCHANGED <<loopVars, pumpVars, stream, worker, alive, pendingRead, writeEnable,
                 readEnable, stanza, faults>>

\* MSG_WK_PURGE
Purge(e) ==
  /\ Next_(e, "purge")
  /\ worker' = Set(worker, e, FALSE)
  /\ q' = Set(q, e, Tail(q[e]) \o (IF stream[e] THEN <<>> ELSE <<"destroy">>))
  /\ UNCHANGED <<loopVars, pumpVars, stream, chan, alive, pendingRead, tcpVars,
                 sessVars, faults>>

\* MSG_SI_DESTROY
Destroy(e) ==
  /\ Next_(e, "destroy")
  /\ alive' = Set(alive, e, FALSE)
  /\ q' = Set(q, e, Tail(q[e]))
  /\ UNCHANGED <<loopVars, pumpVars, stream, chan, worker, pendingRead, tcpVars,
                 sessVars, faults>>

\* The two seconds are over, whether or not the receiver has finished by then.
DelayFires ==
  /\ delayed /\ Idle(client)
  /\ late' = file["rcv"]
  /\ delayed' = FALSE
  /\ q' = Set(q, client, Append(q[client], "done"))
  /\ UNCHANGED <<client, looping, pumpVars, chanVars, tcpVars, sessVars, faults>>

\* Loop returns MSG_DONE.
LoopReturns ==
  /\ Next_(client, "done")
  /\ looping' = FALSE
  /\ q' = Set(q, client, Tail(q[client]))
  /\ UNCHANGED <<client, delayed, late, pumpVars, chanVars, tcpVars, sessVars, faults>>

-----------------------------------------------------------------------------
\* ProcessStream has succeeded at both ends: the files are open and the
\* tunnel is being connected. "recv:" makes the client the sender, "send:"
\* the server.
Init ==
  /\ client \in Ends
  /\ looping = TRUE
  /\ q = [e \in Ends |-> <<>>]
  /\ delayed = FALSE
  /\ pc = [e \in Ends |-> "idle"]
  /\ file = [e \in Ends |-> TRUE]
  /\ fpos = 0
  /\ out = <<>>
  /\ buffer = [e \in Ends |-> <<>>]
  /\ pos = 0
  /\ stream = [e \in Ends |-> TRUE]
  /\ chan = [e \in Ends |-> TRUE]
  /\ worker = [e \in Ends |-> TRUE]
  /\ alive = [e \in Ends |-> TRUE]
  /\ pendingRead = [e \in Ends |-> FALSE]
  /\ tcp = [e \in Ends |-> "opening"]
  /\ shut = [e \in Ends |-> FALSE]
  /\ sbuf = <<>>
  /\ sent = 0
  /\ rbuf = <<>>
  /\ writeEnable = FALSE
  /\ readEnable = TRUE
  /\ term = [e \in Ends |-> "live"]
  /\ stanza = {}
  /\ faults = 0 /\ late = FALSE

\* What one process does by itself
Step(e) ==
  \/ TcpOpen(e)
  \/ \E m \in StreamEvents : StreamEvent(e, m)
  \/ DestroyChannel(e)
  \/ RunTasks(e)
  \/ RecvTerminate(e)
  \/ SessionError(e)
  \/ SessionState(e)
  \/ Purge(e)
  \/ Destroy(e)

SenderStep == WriteStep \/ FillStep
ReceiverStep == ReadStep \/ StoreStep \/ ClockStep
LoopStep == DelayFires \/ LoopReturns

Fault ==
  \/ \E e \in Ends : Closedown(e) \/ SessionTimeout(e)
  \/ ReadError
  \/ \E n \in 0..(BufLen - 1) : StoreError(n)

Next ==
  \/ \E e \in Ends : Step(e)
  \/ SenderStep
  \/ ReceiverStep
  \/ Deliver
  \/ Ack
  \/ LoopStep
  \/ Fault

\* A process keeps handling its messages, and PseudoTcp retransmits until
\* data and acknowledgements get through or the connection is closed down.
Fairness ==
  /\ \A e \in Ends : WF_vars(Step(e))
  /\ WF_vars(SenderStep) /\ WF_vars(ReceiverStep) /\ WF_vars(LoopStep)
  /\ WF_vars(Deliver) /\ WF_vars(Ack)

Spec == Init /\ [][Next]_vars /\ Fairness
-----------------------------------------------------------------------------
(* Properties.                                                             *)

\* Every variable has its type and the buffers respect their capacities.
TypeOK ==
  /\ client \in Ends /\ looping \in BOOLEAN /\ delayed \in BOOLEAN
  /\ q \in [Ends -> Seq(Messages)]
  /\ pc \in [Ends -> {"idle", "write", "read", "store"}]
  /\ file \in [Ends -> BOOLEAN]
  /\ fpos \in 0..Len(Source)
  /\ out \in Seq(Nat)
  /\ buffer \in [Ends -> Seq(Nat)] /\ \A e \in Ends : Len(buffer[e]) <= BufLen
  /\ pos \in 0..BufLen
  /\ stream \in [Ends -> BOOLEAN] /\ chan \in [Ends -> BOOLEAN]
  /\ worker \in [Ends -> BOOLEAN] /\ alive \in [Ends -> BOOLEAN]
  /\ pendingRead \in [Ends -> BOOLEAN]
  /\ tcp \in [Ends -> {"opening", "established", "closed", "gone"}]
  /\ shut \in [Ends -> BOOLEAN]
  /\ sbuf \in Seq(Nat) /\ Len(sbuf) <= SendCap
  /\ sent \in 0..Len(sbuf)
  /\ rbuf \in Seq(Nat) /\ Len(rbuf) <= RecvCap
  /\ writeEnable \in BOOLEAN /\ readEnable \in BOOLEAN
  /\ term \in [Ends -> {"live", "sent", "received", "dead"}]
  /\ stanza \subseteq Ends
  /\ faults \in 0..MaxFaults /\ late \in BOOLEAN

\* While no connection has been lost, every unit read from the file is in
\* exactly one place, in order: the receiver's file, its buffer_, m_rbuf, the
\* part of m_sbuf that is still to arrive, or the unwritten rest of the
\* sender's buffer_.
NothingLost ==
  tcp["snd"] = "established" /\ tcp["rcv"] = "established" /\ ~shut["rcv"] =>
     out \o buffer["rcv"] \o rbuf
         \o SubSeq(sbuf, sent + 1, Len(sbuf))
         \o SubSeq(buffer["snd"], pos + 1, Len(buffer["snd"]))
     = SubSeq(Source, 1, fpos)

\* The assertions of PseudoTcpChannel::OnMessage and of its destructor: an
\* event is only dispatched to a stream that is still there, the channel is
\* destroyed once, and the object is deleted once, when nothing refers to it.
DispatchSafe ==
  \A e \in Ends : q[e] # <<>> =>
    LET m == Head(q[e]) IN
    /\ m \in StreamEvents => stream[e] /\ alive[e]
    /\ m = "destroychannel" => chan[e] /\ alive[e]
    /\ m = "purge" => ~chan[e] /\ alive[e]
    /\ m = "destroy" => /\ ~worker[e] /\ ~chan[e] /\ ~stream[e]
                        /\ tcp[e] = "gone" /\ alive[e]

\* MSG_DONE is posted once in a transfer, however it ends: a second one would
\* end the Loop of the next file.
DoneCount ==
  Cardinality({i \in 1..Len(q[client]) : q[client][i] = "done"})
  + (IF delayed THEN 1 ELSE 0) + (IF looping THEN 0 ELSE 1)
DonePostedOnce == DoneCount <= 1 /\ (DoneCount = 1 <=> ~file[client])

\* The client's Loop always returns, whatever fails.
ClientReturns == <>~looping

\* What the tunnel promises for one file. Through partial writes (the memmove
\* after SR_BLOCK), partial reads and errors at either end the receiver's file
\* is a prefix of the sender's; the terminate that follows the last
\* acknowledgement never overtakes the SE_READ that hands the last units to the
\* pump (OnChannelDestroyed drops m_rbuf). A tunnel that is late counts as an
\* error: a client that stops pumping its queue leaves the receiver waiting.
Copied == INSTANCE FileCopy WITH open <- file["rcv"], faulted <- (faults > 0 \/ late)
IsFileCopy == Copied!Spec

\* "Wait until the copy is done" (synciga.cc): when Loop returns and no error
\* has occurred, the receiver has the whole file.
ReturnsWhenCopied == ~looping /\ faults = 0 => out = Source
=============================================================================
