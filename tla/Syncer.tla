------------------------------- MODULE Syncer -------------------------------
(***************************************************************************)
(* synciga --sync: the client watches a directory and pushes every file    *)
(* that was written through a tunnel of its own to a server process, which *)
(* accepts one tunnel at a time (src/main/synciga.cc, customxmpppump.cc).  *)
(*                                                                         *)
(* The client is one thread that alternates between reading inotify events *)
(* (it blocks there and looks at neither its message queue nor the         *)
(* network) and Loop, in which it pumps its messages until a MSG_DONE. The *)
(* file and the buffer of the pump are shared by all its tunnels. How a    *)
(* single tunnel moves bytes and is torn down is the subject of            *)
(* FileTransfer; here a tunnel is a bounded channel with a handshake.      *)
(***************************************************************************)
EXTENDS Integers, Sequences, FiniteSetsExt, SequencesExt, MessageQueues

CONSTANTS
  Files,        \* names in the watched directory
  Scenarios,    \* the environments: the hazards that may happen (see HazardNames),
                \* and the bound on how often files are rewritten, and so tunnels opened
  FileUnits,    \* length of a file that has been written
  WireCap,      \* what a tunnel takes before a write blocks
  NULL          \* model value

HazardNames == {"busy",    \* files change while the client works
                "delete",  \* a file disappears before it is synchronised
                "slow",    \* the tunnel needs more than the two seconds of Cleanup
                "net",     \* a connection fails
                "open",    \* the server cannot open a file
                "xmpp"}    \* the client's XMPP connection is closed

ASSUME ConstantsAssumption ==
  /\ Scenarios \subseteq [hazards : SUBSET HazardNames, writes : Nat \ {0}]
  /\ \E most \in Scenarios : \A s \in Scenarios : s.writes <= most.writes
  /\ FileUnits \in Nat \ {0}
  /\ WireCap \in Nat \ {0}
  /\ NULL \notin Files \cup [name : Files, pos : 0..FileUnits, open : BOOLEAN]

MaxWrites == Max({s.writes : s \in Scenarios})
Tunnels == 1..MaxWrites

\* A unit of content: the file it was written to, and the write.
Unit == Files \X (0..MaxWrites)
\* Masks as DumpTypes prints them: the two the client compares with, the rest
\* is "OTHER".
Event == [mask : {"IN_CLOSE_WRITE", "IN_CLOSE_NOWRITE", "OTHER"},
          name : Files \cup {NULL}]
Message == [k : {"initiate", "terminate",   \* a task sends this stanza
                 "write",                   \* SE_WRITE (with SE_OPEN) of the stream
                 "close",                   \* SE_CLOSE of the stream
                 "done", "login_failed"},   \* ends Loop
            t : Tunnels \cup {0}]
Stanza == [k : {"initiate", "accept", "reject", "terminate"}, t : Tunnels]

VARIABLES
  env,          \* the scenario of this behaviour
  \* the directory and the kernel's event queue
  disk,         \* [ver, len, exists] of each file
  writer,       \* "closed", "open", "written": the process that writes it
  writes,       \* rewrites so far
  kq,           \* inotify events not yet read
  \* the client
  cpc,          \* "main", "loop" (in Loop), "send" (in OnStreamEvent)
  batch,        \* events of this WaitForEvents still to be handled
  prev,         \* prev_mask_str
  cur,          \* the tunnel this Loop waits for
  sendT,        \* the tunnel OnStreamEvent was called for
  cfile,        \* file_: NULL, or [name, pos, open]
  cbuf,         \* buffer_
  cq,           \* the message queue
  delayed,      \* tunnels whose delayed MSG_DONE has not fired
  opened,       \* number of tunnels created
  \* the tunnels
  name,         \* the file each tunnel is for
  cst,          \* client side: "none", "opening", "accepted", "connected",
                \* "failed", "closing" (stream closed, still sending), "over"
  hooked,       \* OnStreamEvent is connected to the stream
  blocked,      \* a write has returned SR_BLOCK
  wire,         \* units written to the stream, not yet at the server
  toServer, toClient,   \* stanzas under way
  xmpp,         \* the client is logged in
  \* the server
  sst,          \* server side: "none", "accepted", "over"
  sfile,        \* the tunnel file_ is open for, 0 when NULL
  sq,           \* the tunnels whose SE_CLOSE is queued
  remote,       \* content of the server's files
  serving       \* the server is in its Loop

dirVars == <<disk, writer, writes>>
mainVars == <<batch, prev, cur, opened>>
pumpVars == <<sendT, cfile, cbuf, delayed>>
tunVars == <<name, cst, hooked, blocked, wire>>
netVars == <<toServer, toClient, xmpp>>
srvVars == <<sst, sfile, sq, remote, serving, env>>
vars == <<disk, writer, writes, kq, cpc, batch, prev, cur, opened, sendT, cfile,
          cbuf, cq, delayed, name, cst, hooked, blocked, wire, toServer, toClient,
          xmpp, sst, sfile, sq, remote, serving, env>>

Set(f, x, v) == [f EXCEPT ![x] = v]
Content(f) == [i \in 1..disk[f].len |-> <<f, disk[f].ver>>]

\* The kernel merges an event with an identical one before it.
Notify(k, m, f) ==
  LET e == [mask |-> m, name |-> f] IN
  IF k # <<>> /\ Last(k) = e THEN k ELSE Append(k, e)

Msg(kind, t) == [k |-> kind, t |-> t]
-----------------------------------------------------------------------------
(* The processes that write the directory.                                 *)

\* Nothing of an earlier change is still to be synchronised.
AtRest ==
  /\ cpc = "main" /\ batch = <<>> /\ kq = <<>>
  /\ \A f \in Files : writer[f] = "closed"

\* open(O_TRUNC)
WriterOpens(f) ==
  /\ writer[f] = "closed" /\ writes < env.writes
  /\ AtRest \/ "busy" \in env.hazards
  /\ writer' = Set(writer, f, "open")
  /\ writes' = writes + 1
  /\ disk' = Set(disk, f, [ver |-> writes + 1, len |-> 0, exists |-> TRUE])
  /\ kq' = Notify(kq, "OTHER", NULL)
  /\ UNCHANGED <<cpc, mainVars, pumpVars, cq, tunVars, netVars, srvVars>>

WriterWrites(f) ==
  /\ writer[f] = "open"
  /\ writer' = Set(writer, f, "written")
  /\ disk' = [disk EXCEPT ![f].len = FileUnits]
  /\ kq' = Notify(kq, "OTHER", NULL)
  /\ UNCHANGED <<writes, cpc, mainVars, pumpVars, cq, tunVars, netVars, srvVars>>

WriterCloses(f) ==
  /\ writer[f] = "written"
  /\ writer' = Set(writer, f, "closed")
  /\ kq' = Notify(kq, "IN_CLOSE_WRITE", f)
  /\ UNCHANGED <<disk, writes, cpc, mainVars, pumpVars, cq, tunVars, netVars, srvVars>>

\* unlink, or a rename to somewhere else
Deletes(f) ==
  /\ "delete" \in env.hazards
  /\ writer[f] = "closed" /\ disk[f].exists
  /\ disk' = [disk EXCEPT ![f].exists = FALSE, ![f].len = 0]
  /\ kq' = Notify(kq, "OTHER", NULL)
  /\ UNCHANGED <<writer, writes, cpc, mainVars, pumpVars, cq, tunVars, netVars, srvVars>>
-----------------------------------------------------------------------------
(* The client's main loop.                                                 *)

\* notify.WaitForEvents(): read() returns what is queued; prev_mask_str is new.
WaitForEvents ==
  /\ cpc = "main" /\ batch = <<>>
  /\ kq # <<>>
  /\ batch' = kq
  /\ kq' = <<>>
  /\ prev' = "OTHER"
  /\ UNCHANGED <<dirVars, cpc, cur, opened, pumpVars, cq, tunVars, netVars, srvVars>>

\* The events that start a transfer.
Wanted(e) == e.mask = "IN_CLOSE_WRITE" /\ prev # "IN_CLOSE_NOWRITE"

SkipEvent ==
  /\ cpc = "main" /\ batch # <<>>
  /\ ~Wanted(Head(batch))
  /\ prev' = Head(batch).mask
  /\ batch' = Tail(batch)
  /\ UNCHANGED <<dirVars, kq, cpc, cur, opened, pumpVars, cq, tunVars, netVars, srvVars>>

\* file_.reset() closes the file, which is an event of the watched directory.
AfterReset(k) ==
  IF cfile # NULL /\ cfile.open THEN Notify(k, "IN_CLOSE_NOWRITE", cfile.name) ELSE k

\* CreateTunnel and ProcessStream. A tunnel whose file cannot be opened is
\* left behind: its initiate is queued, nobody listens to its stream.
SyncFile ==
  LET e == Head(batch)
      f == e.name
      t == opened + 1
      ok == disk[f].exists
  IN
  /\ cpc = "main" /\ batch # <<>>
  /\ Wanted(e)
  /\ prev' = e.mask
  /\ batch' = Tail(batch)
  /\ opened' = t
  /\ name' = Set(name, t, f)
  /\ cst' = Set(cst, t, "opening")
  /\ cq' = IF xmpp THEN Append(cq, Msg("initiate", t)) ELSE cq
  /\ cfile' = [name |-> f, pos |-> 0, open |-> ok]
  /\ cbuf' = <<>>
  /\ kq' = IF ok THEN Notify(AfterReset(kq), "OTHER", NULL) ELSE AfterReset(kq)
  /\ hooked' = Set(hooked, t, ok)
  /\ cpc' = IF ok THEN "loop" ELSE "main"
  /\ cur' = IF ok THEN t ELSE cur
  /\ UNCHANGED <<dirVars, sendT, delayed, blocked, wire, netVars, srvVars>>
-----------------------------------------------------------------------------
(* Loop: the client's messages, one at a time.                             *)

Dispatch(m) == cpc = "loop" /\ cq # <<>> /\ Head(cq) = m

\* A task sends its stanza; without a connection the tasks are gone.
SendStanza(t, kind) ==
  /\ Dispatch(Msg(kind, t))
  /\ cq' = Tail(cq)
  /\ toServer' = IF xmpp THEN Append(toServer, Msg(kind, t)) ELSE toServer
  /\ UNCHANGED <<dirVars, kq, cpc, mainVars, pumpVars, tunVars, toClient, xmpp, srvVars>>

\* SE_WRITE enters the send loop; the stream of a left-behind tunnel has no
\* listener.
StreamWritable(t) ==
  /\ Dispatch(Msg("write", t))
  /\ cq' = Tail(cq)
  /\ IF hooked[t] THEN cpc' = "send" /\ sendT' = t ELSE UNCHANGED <<cpc, sendT>>
  /\ UNCHANGED <<dirVars, kq, mainVars, cfile, cbuf, delayed, tunVars, netVars, srvVars>>

\* Cleanup: the stream is closed and its events are cleared, the file is
\* closed, MSG_DONE is posted, now or in two seconds. A connection that has
\* nothing more to send is terminated by the messages that follow.
ClearEvents(s, t) == Without(s, {Msg("write", t), Msg("close", t)})

KeepFile == UNCHANGED cfile
ResetFile == cfile' = NULL

DoneAlways(t, delay) == <<Msg("done", t)>>
DoneNow(t, delay) == IF delay THEN <<>> ELSE <<Msg("done", t)>>

\* PseudoTcp::clock_check after Close(false)
DrainedAtOnce(t) == cst[t] \in {"failed", "connected"}
Drained(t) == cst[t] = "failed" \/ (cst[t] = "connected" /\ wire[t] = <<>>)

\* Every call of Cleanup is followed by a return from OnStreamEvent.
NoReturn == UNCHANGED cpc
ReturnToLoop == cpc' = "loop"

Cleanup(t, delay, q0) ==
  /\ ReturnToLoop
  /\ ResetFile
  /\ kq' = AfterReset(kq)
  /\ delayed' = IF delay THEN delayed \cup {t} ELSE delayed
  /\ cst' = Set(cst, t, IF cst[t] = "connected" /\ ~Drained(t) THEN "closing" ELSE "over")
  /\ cq' = ClearEvents(q0, t) \o DoneNow(t, delay)
             \o (IF Drained(t) THEN <<Msg("terminate", t)>> ELSE <<>>)

StreamClosed(t) ==
  /\ Dispatch(Msg("close", t))
  /\ IF hooked[t] THEN Cleanup(t, FALSE, Tail(cq))
     ELSE cq' = Tail(cq) /\ UNCHANGED <<kq, cpc, cfile, delayed, cst>>
  /\ UNCHANGED <<dirVars, mainVars, sendT, cbuf, name, hooked, blocked, wire, netVars, srvVars>>

\* PseudoTcp::Send takes data while its buffer has room.
AlwaysRoom(t) == TRUE
Room(t) == Len(wire[t]) < WireCap

\* The send loop: write what is in buffer_ ...
SendWrite ==
  LET t == sendT IN
  /\ cpc = "send" /\ cbuf # <<>>
  /\ \/ /\ cst[t] = "connected" /\ Room(t)
        /\ wire' = Set(wire, t, Append(wire[t], cbuf[1]))
        /\ cbuf' = <<>>
        /\ UNCHANGED <<kq, cpc, cfile, cq, delayed, cst, blocked>>
     \/ \* SR_BLOCK
        /\ cst[t] = "over" \/ (cst[t] = "connected" /\ ~Room(t))
        /\ blocked' = Set(blocked, t, TRUE)
        /\ cpc' = "loop"
        /\ UNCHANGED <<kq, cfile, cbuf, cq, delayed, cst, wire>>
     \/ \* SR_ERROR
        /\ cst[t] = "failed"
        /\ Cleanup(t, FALSE, cq)
        /\ UNCHANGED <<cbuf, blocked, wire>>
  /\ UNCHANGED <<dirVars, mainVars, sendT, name, hooked, netVars, srvVars>>

\* ... then read the next part of whatever file_ now is; at its end, clean up
\* and let the two seconds run.
SendRead ==
  /\ cpc = "send" /\ cbuf = <<>> /\ cfile # NULL
  /\ IF cfile.open /\ cfile.pos < disk[cfile.name].len
     THEN /\ cbuf' = <<Content(cfile.name)[cfile.pos + 1]>>
          /\ cfile' = [cfile EXCEPT !.pos = @ + 1]
          /\ UNCHANGED <<kq, cpc, cq, delayed, cst>>
     ELSE Cleanup(sendT, TRUE, cq) /\ UNCHANGED cbuf
  /\ UNCHANGED <<dirVars, mainVars, sendT, name, hooked, blocked, wire, netVars, srvVars>>

\* The two seconds are over. Unless the tunnel is slow the server has by then
\* closed its file.
DelayFires(t) ==
  /\ cpc = "loop"
  /\ t \in delayed
  /\ "slow" \in env.hazards \/ sfile # t
  /\ delayed' = delayed \ {t}
  /\ cq' = Append(cq, Msg("done", t))
  /\ UNCHANGED <<dirVars, kq, cpc, mainVars, sendT, cfile, cbuf, tunVars, netVars, srvVars>>

\* Loop returns; which message ended it is not looked at.
LoopReturns(m) ==
  /\ m.k \in {"done", "login_failed"}
  /\ Dispatch(m)
  /\ cq' = Tail(cq)
  /\ cpc' = "main"
  /\ UNCHANGED <<dirVars, kq, mainVars, pumpVars, tunVars, netVars, srvVars>>
-----------------------------------------------------------------------------
(* What reaches the client from outside, while it is in Loop.              *)

\* An accept that is not awaited (CheckState) is answered with an error.
RecvAccept(t) ==
  /\ cst' = IF cst[t] = "opening" THEN Set(cst, t, "accepted") ELSE cst
  /\ UNCHANGED <<cq, wire>>

\* A reject or terminate ends the session; the owner of the stream is told.
RecvEndSilent(t) ==
  /\ cst' = Set(cst, t, "over")
  /\ wire' = Set(wire, t, <<>>)
  /\ UNCHANGED cq
RecvEnd(t) ==
  /\ cst' = Set(cst, t, "over")
  /\ wire' = Set(wire, t, <<>>)
  /\ cq' = IF cst[t] \in {"opening", "accepted", "connected"}
           THEN Append(cq, Msg("close", t)) ELSE cq

ClientStanza ==
  LET s == Head(toClient) IN
  /\ cpc = "loop" /\ xmpp /\ toClient # <<>>
  /\ IF s.k = "accept" THEN RecvAccept(s.t) ELSE RecvEnd(s.t)
  /\ toClient' = Tail(toClient)
  /\ UNCHANGED <<dirVars, kq, cpc, mainVars, pumpVars, name, hooked, blocked, toServer,
                 xmpp, srvVars>>

\* PseudoTcp connects.
TunnelOpens(t) ==
  /\ cpc = "loop"
  /\ cst[t] = "accepted" /\ sst[t] = "accepted"
  /\ cst' = Set(cst, t, "connected")
  /\ cq' = Append(cq, Msg("write", t))
  /\ UNCHANGED <<dirVars, kq, cpc, mainVars, pumpVars, name, hooked, blocked, wire, netVars,
                 srvVars>>

TunnelWritable(t) ==
  /\ cpc = "loop"
  /\ cst[t] = "connected" /\ blocked[t] /\ Room(t)
  /\ blocked' = Set(blocked, t, FALSE)
  /\ cq' = Append(cq, Msg("write", t))
  /\ UNCHANGED <<dirVars, kq, cpc, mainVars, pumpVars, name, cst, hooked, wire, netVars,
                 srvVars>>

\* A closed stream has sent everything: its session is terminated.
TunnelDrained(t) ==
  /\ cpc = "loop"
  /\ cst[t] = "closing" /\ wire[t] = <<>>
  /\ cst' = Set(cst, t, "over")
  /\ cq' = Append(cq, Msg("terminate", t))
  /\ UNCHANGED <<dirVars, kq, cpc, mainVars, pumpVars, name, hooked, blocked, wire, netVars,
                 srvVars>>

\* PseudoTcp gives up.
TunnelFails(t) ==
  /\ "net" \in env.hazards
  /\ cpc = "loop"
  /\ cst[t] \in {"connected", "closing"}
  /\ wire' = Set(wire, t, <<>>)
  /\ cst' = Set(cst, t, IF cst[t] = "closing" THEN "over" ELSE "failed")
  /\ cq' = Append(cq, Msg(IF cst[t] = "closing" THEN "terminate" ELSE "close", t))
  /\ UNCHANGED <<dirVars, kq, cpc, mainVars, pumpVars, name, hooked, blocked, netVars,
                 srvVars>>

\* The server has exited: the initiate is bounced by the XMPP server, or the
\* connection checks of an accepted session fail until it gives up.
TunnelGivesUp(t) ==
  /\ cpc = "loop" /\ ~serving
  /\ cst[t] = "accepted" \/ (cst[t] = "opening" /\ xmpp /\ Contains(toServer, Msg("initiate", t)))
  /\ cst' = Set(cst, t, "over")
  /\ cq' = Append(cq, Msg("close", t))
  /\ UNCHANGED <<dirVars, kq, cpc, mainVars, pumpVars, name, hooked, blocked, wire, netVars,
                 srvVars>>

\* STATE_CLOSED: MSG_LOGIN_FAILED is posted, no stanza passes any more; what
\* was just sent may still arrive.
LoggedOut ==
  /\ "xmpp" \in env.hazards
  /\ cpc = "loop" /\ xmpp
  /\ xmpp' = FALSE
  /\ toServer' \in {toServer, <<>>}
  /\ cq' = Append(cq, Msg("login_failed", 0))
  /\ UNCHANGED <<dirVars, kq, cpc, mainVars, pumpVars, tunVars, toClient, srvVars>>
-----------------------------------------------------------------------------
(* The server, in Loop until a file of its own cannot be opened.           *)

\* OnIncomingTunnel: declined while a file is open; else the file is opened
\* with "wb", which truncates it.
NeverDeclines(t) == FALSE
Declines(t) == sfile # 0

RecvInitiate(t) ==
  /\ \/ /\ Declines(t)
        /\ toClient' = Append(toClient, Msg("reject", t))
        /\ sst' = Set(sst, t, "over")
        /\ UNCHANGED <<sfile, remote, serving>>
     \/ /\ ~Declines(t)
        /\ toClient' = Append(toClient, Msg("accept", t))
        /\ sst' = Set(sst, t, "accepted")
        /\ sfile' = t
        /\ remote' = Set(remote, name[t], <<>>)
        /\ UNCHANGED serving
     \/ \* The tunnel is accepted before the file is opened; when that fails
        \* MSG_DONE ends the server's own Loop, and the process exits.
        /\ ~Declines(t) /\ "open" \in env.hazards
        /\ toClient' = Append(toClient, Msg("accept", t))
        /\ sst' = Set(sst, t, "over")
        /\ serving' = FALSE
        /\ UNCHANGED <<sfile, remote>>
  /\ UNCHANGED <<sq, env>>

\* The session is destroyed by its MSG_STATE, the stream then gets SE_CLOSE;
\* a terminate for a session that is gone is answered with an error.
RecvTerminate(t) ==
  /\ sq' = IF sst[t] = "accepted" /\ t \notin Range(sq) THEN Append(sq, t) ELSE sq
  /\ UNCHANGED <<toClient, sst, sfile, remote, serving, env>>

ServerStanza ==
  LET s == Head(toServer) IN
  /\ serving /\ toServer # <<>>
  /\ IF s.k = "initiate" THEN RecvInitiate(s.t) ELSE RecvTerminate(s.t)
  /\ toServer' = Tail(toServer)
  /\ UNCHANGED <<dirVars, kq, cpc, mainVars, pumpVars, cq, tunVars, xmpp>>

\* Cleanup of the server: no MSG_DONE.
ServerCloses ==
  /\ serving /\ sq # <<>>
  /\ sq' = Tail(sq)
  /\ sst' = Set(sst, Head(sq), "over")
  /\ sfile' = 0
  /\ UNCHANGED <<dirVars, kq, cpc, mainVars, pumpVars, cq, tunVars, netVars, remote, serving, env>>

\* A unit arrives and is written to the file that is open.
Deliver(t) ==
  /\ wire[t] # <<>> /\ sst[t] = "accepted" /\ sfile # 0
  /\ wire' = Set(wire, t, Tail(wire[t]))
  /\ remote' = [remote EXCEPT ![name[sfile]] = Append(@, Head(wire[t]))]
  /\ UNCHANGED <<dirVars, kq, cpc, mainVars, pumpVars, cq, name, cst, hooked, blocked,
                 netVars, sst, sfile, sq, serving, env>>
-----------------------------------------------------------------------------
Init ==
  /\ disk = [f \in Files |-> [ver |-> 0, len |-> 0, exists |-> FALSE]]
  /\ writer = [f \in Files |-> "closed"]
  /\ writes = 0
  /\ kq = <<>>
  /\ cpc = "main" /\ batch = <<>> /\ prev = "OTHER" /\ cur = 0 /\ opened = 0
  /\ sendT = 0 /\ cfile = NULL /\ cbuf = <<>> /\ cq = <<>> /\ delayed = {}
  /\ name = [t \in Tunnels |-> NULL]
  /\ cst = [t \in Tunnels |-> "none"]
  /\ hooked = [t \in Tunnels |-> FALSE]
  /\ blocked = [t \in Tunnels |-> FALSE]
  /\ wire = [t \in Tunnels |-> <<>>]
  /\ toServer = <<>> /\ toClient = <<>> /\ xmpp = TRUE
  /\ sst = [t \in Tunnels |-> "none"]
  /\ sfile = 0 /\ sq = <<>>
  /\ remote = [f \in Files |-> <<>>]
  /\ serving = TRUE
  /\ env \in Scenarios

WriterStep == \E f \in Files : WriterWrites(f) \/ WriterCloses(f)

MainStep == WaitForEvents \/ SkipEvent \/ SyncFile

LoopStep ==
  \/ \E t \in Tunnels : \/ \E k \in {"initiate", "terminate"} : SendStanza(t, k)
                        \/ StreamWritable(t)
                        \/ StreamClosed(t)
  \/ SendWrite
  \/ SendRead
  \/ \E m \in Message : LoopReturns(m)

TunnelStep(t) ==
  TunnelOpens(t) \/ TunnelWritable(t) \/ TunnelDrained(t) \/ DelayFires(t) \/ TunnelGivesUp(t)

ServerStep == ServerStanza \/ ServerCloses

Next ==
  \/ \E f \in Files : WriterOpens(f) \/ Deletes(f)
  \/ WriterStep
  \/ MainStep
  \/ LoopStep
  \/ ClientStanza
  \/ \E t \in Tunnels : TunnelStep(t) \/ Deliver(t) \/ TunnelFails(t)
  \/ LoggedOut
  \/ ServerStep

\* Both processes keep running; while the client pumps its tunnels their data
\* and stanzas get through; a writer finishes what it has begun.
Fairness ==
  /\ WF_vars(WriterStep)
  /\ WF_vars(MainStep) /\ WF_vars(LoopStep)
  /\ WF_vars(ClientStanza) /\ WF_vars(ServerStep)
  /\ \A t \in Tunnels : WF_vars(TunnelStep(t)) /\ WF_vars(cpc = "loop" /\ Deliver(t))

Spec == Init /\ [][Next]_vars /\ Fairness
-----------------------------------------------------------------------------
(* Properties.                                                             *)

\* Every variable has its type, and no tunnel holds more than its capacity.
TypeOK ==
  /\ disk \in [Files -> [ver : 0..MaxWrites, len : {0, FileUnits}, exists : BOOLEAN]]
  /\ writer \in [Files -> {"closed", "open", "written"}]
  /\ writes \in 0..MaxWrites
  /\ kq \in Seq(Event) /\ batch \in Seq(Event)
  /\ prev \in {"IN_CLOSE_WRITE", "IN_CLOSE_NOWRITE", "OTHER"}
  /\ cpc \in {"main", "loop", "send"}
  /\ cur \in 0..MaxWrites /\ sendT \in 0..MaxWrites /\ opened \in 0..MaxWrites
  /\ cfile \in [name : Files, pos : 0..FileUnits, open : BOOLEAN] \cup {NULL}
  /\ cbuf \in Seq(Unit) /\ Len(cbuf) <= 1
  /\ cq \in Seq(Message)
  /\ delayed \subseteq Tunnels
  /\ name \in [Tunnels -> Files \cup {NULL}]
  /\ cst \in [Tunnels -> {"none", "opening", "accepted", "connected", "failed",
                          "closing", "over"}]
  /\ hooked \in [Tunnels -> BOOLEAN] /\ blocked \in [Tunnels -> BOOLEAN]
  /\ wire \in [Tunnels -> Seq(Unit)] /\ \A t \in Tunnels : Len(wire[t]) <= WireCap
  /\ toServer \in Seq(Stanza) /\ toClient \in Seq(Stanza)
  /\ xmpp \in BOOLEAN
  /\ sst \in [Tunnels -> {"none", "accepted", "over"}]
  /\ sfile \in 0..MaxWrites
  /\ sq \in Seq(Tunnels)
  /\ remote \in [Files -> Seq(Unit)]
  /\ serving \in BOOLEAN /\ env \in Scenarios

\* The file and the buffer of a pump are shared by all its tunnels, yet a file
\* of the server never receives a unit of another file.
RemoteUnmixed ==
  \A f \in Files : \A i \in 1..Len(remote[f]) : remote[f][i][1] = f

\* As long as the client has not been logged out (MSG_LOGIN_FAILED ends a Loop
\* whose tunnel goes on), no file of the server receives a unit of another file;
\* and a file that is rewritten while it is read may be torn, but its units never
\* go back to an earlier write (OnIncomingTunnel declines a second tunnel).
RemoteFaithful ==
  xmpp => /\ RemoteUnmixed
          /\ \A f \in Files : \A i, j \in 1..Len(remote[f]) :
               i < j => remote[f][i][2] <= remote[f][j][2]

\* OnStreamEvent only reads from file_ while there is one: no SE_WRITE reaches
\* the pump after Cleanup has reset it (the next read would be through NULL).
FileOpenWhileSending == cpc = "send" => cfile # NULL

Calm == env.hazards = {}

\* When nothing goes wrong, and the client is back in WaitForEvents with no event
\* left and no writer at work, every file of the server is the file of the client.
SyncedAtRest ==
  Calm /\ AtRest => \A f \in Files : remote[f] = Content(f)

\* ASSERT(file_.get() == NULL) in ProcessStream: a transfer starts only when
\* the one before it has cleaned up. A file that disappears before its transfer
\* and a logout during one are the only ways to break it.
FileClearedBeforeProcessStream ==
  [][opened' # opened /\ xmpp /\ "delete" \notin env.hazards => cfile = NULL]_vars

\* Loop ends for the file it was entered for, not for an MSG_DONE that an
\* earlier tunnel has left in the queue, unless the client is logged out.
LoopEndsForItsFile ==
  [][xmpp /\ cpc = "loop" /\ cpc' = "main" => Head(cq) = Msg("done", cur)]_vars

\* The client always comes back to the directory while it is logged in: also
\* when the server has exited.
LoopAlwaysEnds == cpc # "main" ~> cpc = "main" \/ ~xmpp

\* Once the writers rest, the server's files come to be those of the client.
EventuallySynced == \A f \in Files : <>[](remote[f] = Content(f))
=============================================================================
