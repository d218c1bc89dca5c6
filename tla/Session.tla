------------------------------ MODULE Session ------------------------------
(***************************************************************************)
(* The signalling of one tunnel: the Session of its initiator and of its   *)
(* responder, the SessionManager that finds, creates and destroys them,    *)
(* the SessionSendTask that waits for the answer to every request, and     *)
(* what TunnelSession does when the session changes its state.             *)
(*                                                                         *)
(* Each end runs on one thread, the one of XmppPump: `end[e].q' holds the  *)
(* messages posted to its Session and Transport.  MessageQueue::Get looks  *)
(* at its sockets only when no message is left, so what comes from there   *)
(* finds an empty q; but one read may bring a batch of several stanzas,    *)
(* all of them handled, in one RunTasks, before the messages that their    *)
(* handlers post. Every Get puts the timers that are due behind the        *)
(* messages that are there: a timer may come before those posted later.    *)
(*                                                                         *)
(* `net' holds the stanzas the XMPP server has not yet delivered; it       *)
(* delivers them in any order, and, within a budget of MaxFaults, loses    *)
(* them, repeats them, or delivers an answer after the timeout of the task *)
(* that waits for it.                                                      *)
(***************************************************************************)
EXTENDS Naturals, Sequences, FiniteSets

CONSTANTS
  Candidates,        \* batches of candidates a session of each end gathers
  MaxFaults,         \* bound on what the network does wrong
  ChannelFirst       \* subset of BOOLEAN: may the initiator's client create
                     \* its channel before Initiate (media clients do, the
                     \* tunnel client creates it when the accept arrives)

ASSUME SessionAssumption ==
  /\ Candidates \in [{"initiator", "responder"} -> Nat]
  /\ MaxFaults \in Nat
  /\ ChannelFirst \subseteq BOOLEAN

VARIABLES
  end,      \* per end, its session (if live), message queue and send tasks
  net,      \* stanzas under way
  faults    \* what the network has done wrong so far

vars == <<end, net, faults>>

Ends == {"initiator", "responder"}
Peer(e) == IF e = "initiator" THEN "responder" ELSE "initiator"

Actions == {"initiate", "accept", "reject", "terminate", "info"}
Types == {"set", "result", "error"}

States == {"INIT", "SENTINITIATE", "RECEIVEDINITIATE", "SENTACCEPT", "RECEIVEDACCEPT",
           "SENTREJECT", "RECEIVEDREJECT", "SENTTERMINATE", "RECEIVEDTERMINATE",
           "INPROGRESS", "DEINIT"}
Ending == {"SENTREJECT", "RECEIVEDREJECT", "SENTTERMINATE", "RECEIVEDTERMINATE"}
Together == {"SENTACCEPT", "RECEIVEDACCEPT", "INPROGRESS"}

\* A session as its constructor leaves it, at an end that has sent `ids'
\* requests, still waits for the answers in `tasks', and has had `made' sessions.
NewSession(e, early, tasks, ids, made) ==
  [live |-> TRUE, state |-> "INIT", error |-> "NONE",
   initiator |-> e = "initiator", acked |-> FALSE,
   unsent |-> 0, left |-> Candidates[e],
   chan |-> early, connecting |-> FALSE,    \* the transport has a channel, connects it
   writable |-> FALSE,                      \* Transport::writable_
   timer |-> FALSE,                         \* MSG_TIMEOUT is posted
   q |-> <<>>, batch |-> FALSE,             \* stanzas are being handled
   tasks |-> tasks, ids |-> ids, made |-> made, out |-> {}]

NoSession(e, tasks, ids, made) ==
  [NewSession(e, FALSE, tasks, ids, made) EXCEPT !.live = FALSE, !.state = "DEINIT"]

---------------------------------------------------------------------------
(* Building blocks: each takes the record of an end and returns it changed; *)
(* the stanzas written are collected in `out'.                              *)

Post(s, msg) == [s EXCEPT !.q = Append(@, msg)]

\* Mutant: the task does not stamp its request with an id of its own.
SendUnnumbered(s, action) ==
  [s EXCEPT !.tasks = @ \cup {[action |-> action, id |-> s.ids]},
            !.out = @ \cup {[action |-> action, id |-> s.ids, type |-> "set"]}]

\* SendMessage: a SessionSendTask numbers the request and waits for its answer.
SendMessage(s, action) ==
  [s EXCEPT !.ids = @ + 1,
            !.tasks = @ \cup {[action |-> action, id |-> s.ids]},
            !.out = @ \cup {[action |-> action, id |-> s.ids, type |-> "set"]}]

SendAnswer(s, m, type) ==
  [s EXCEPT !.out = @ \cup {[action |-> m.action, id |-> m.id, type |-> type]}]

\* SetState, for the states to which TunnelSession does not react.
SetState(s, state) ==
  IF s.state = state THEN s ELSE Post([s EXCEPT !.state = state], "STATE")

\* SetState(SENTACCEPT / RECEIVEDACCEPT): OnAccept connects the PseudoTcpChannel,
\* which creates the transport channel, before MSG_STATE is posted.
SetAccepted(s, state) == SetState([s EXCEPT !.chan = TRUE], state)

\* The transport starts once it has a channel.
ConnectChannels(s) ==
  IF s.chan /\ ~s.connecting THEN Post([s EXCEPT !.connecting = TRUE], "CONNECTING") ELSE s

\* Mutant: a session whose transport fails later is not timed.
OnTransportWritableOnce(s) == [s EXCEPT !.timer = s.chan /\ ~s.writable /\ s.state # "INPROGRESS"]

OnTransportWritable(s) == [s EXCEPT !.timer = s.chan /\ ~s.writable]

SetError(s, error) == Post([s EXCEPT !.error = error], "ERROR")

OnInitiateAcked(s) ==
  IF s.acked THEN s
  ELSE IF s.unsent = 0 THEN [s EXCEPT !.acked = TRUE]
  ELSE SendMessage([s EXCEPT !.acked = TRUE, !.unsent = 0], "info")

Terminate(s) ==
  IF s.state \in {"SENTTERMINATE", "RECEIVEDTERMINATE"} THEN s
  ELSE IF s.state \in {"SENTREJECT", "RECEIVEDREJECT"} THEN SetState(s, "SENTTERMINATE")
  ELSE SetState(SendMessage(s, "terminate"), "SENTTERMINATE")

\* Accept and Reject, called by the tunnel client
Accept(s) == SetAccepted(SendMessage(s, "accept"), "SENTACCEPT")
Reject(s) == SetState(SendMessage(s, "reject"), "SENTREJECT")

\* DestroySession: the session leaves the map and takes its messages with it.
DestroySession(s) ==
  [NoSession(IF s.initiator THEN "initiator" ELSE "responder", s.tasks, s.ids, s.made)
     EXCEPT !.out = s.out]

---------------------------------------------------------------------------
(* Requests.  An operator returns the end after a valid message; the state  *)
(* in which each action is valid is in Allowed.                             *)

\* Mutant: an accept that overtakes the answer to the initiate is refused.
AllowedInOrder(s, action) ==
  CASE action = "initiate" -> s.state = "INIT"
    [] action = "accept" -> s.state = "SENTINITIATE" /\ s.acked
    [] action = "reject" -> s.state = "SENTINITIATE"
    [] OTHER -> TRUE

\* CheckState, per action
Allowed(s, action) ==
  CASE action = "initiate" -> s.state = "INIT"
    [] action \in {"accept", "reject"} -> s.state = "SENTINITIATE"
    [] OTHER -> TRUE

\* SignalState(RECEIVEDINITIATE) lets the tunnel client answer at once, so the
\* nested SetState posts its MSG_STATE before this one's.
OnInitiateMessage(s, accept) ==
  LET asked == [s EXCEPT !.state = "RECEIVEDINITIATE"]
      told == Post(IF accept THEN Accept(asked) ELSE Reject(asked), "STATE")
  IN IF told.state = "SENTREJECT" THEN told ELSE ConnectChannels(told)

\* Mutant: the accept does not stand in for the missing answer to the initiate.
OnAcceptUnacked(s) == ConnectChannels(SetAccepted(s, "RECEIVEDACCEPT"))

OnAcceptMessage(s) == ConnectChannels(SetAccepted(OnInitiateAcked(s), "RECEIVEDACCEPT"))

OnMessageOf(s, action, accept) ==
  CASE action = "initiate" -> OnInitiateMessage(s, accept)
    [] action = "accept" -> OnAcceptMessage(s)
    [] action = "reject" -> SetState(s, "RECEIVEDREJECT")
    [] action = "terminate" -> SetState(s, "RECEIVEDTERMINATE")
    [] action = "info" -> ConnectChannels(s)

\* Session::OnIncomingMessage: handle, then acknowledge or refuse
OnIncomingMessage(s, m, accept) ==
  IF Allowed(s, m.action) THEN SendAnswer(OnMessageOf(s, m.action, accept), m, "result")
  ELSE SendAnswer(s, m, "error")

\* SessionManager::OnIncomingMessage
Incoming(e, s, m, accept) ==
  IF s.live THEN OnIncomingMessage(s, m, accept)
  ELSE IF m.action # "initiate" THEN SendAnswer(s, m, "error")
  ELSE OnIncomingMessage(NewSession(e, FALSE, s.tasks, s.ids, s.made + 1), m, accept)

\* OnFailedSend: an error to a transport-info is ignored.
OnFailedSend(s, action) == IF action = "info" THEN s ELSE SetError(s, "RESPONSE")

\* SessionSendTask::ProcessResponse, or OnTimeout if the answer came too late;
\* an answer nobody waits for is dropped.
Response(s, m, late) ==
  LET task == [action |-> m.action, id |-> m.id]
      done == [s EXCEPT !.tasks = @ \ {task}]
  IN IF task \notin s.tasks THEN s
     ELSE IF ~s.live THEN done
     ELSE IF m.type = "error" \/ late THEN OnFailedSend(done, m.action)
     ELSE IF m.action = "initiate" THEN OnInitiateAcked(done)
     ELSE done

---------------------------------------------------------------------------
(* Actions                                                                  *)

\* The end's new record; its stanzas go to the network, in place of `gone'.
Become(e, s, gone) ==
  /\ end' = [end EXCEPT ![e] = [s EXCEPT !.out = {}, !.batch = @ /\ s.q # <<>>]]
  /\ net' = (net \ gone) \cup
            {[to |-> Peer(e), action |-> o.action, id |-> o.id, type |-> o.type] : o \in s.out}

Init ==
  /\ end = [e \in Ends |-> NoSession(e, {}, 0, 0)]
  /\ net = {}
  /\ faults = 0

Fault(n) == /\ faults + n <= MaxFaults
            /\ faults' = faults + n

\* CreateTunnel: CreateSession and Initiate, with the channel of a client that
\* has created it before.
Initiate ==
  LET e == "initiator"
      s == end[e]
  IN /\ s.made = 0
     /\ \E early \in ChannelFirst :
          LET new == NewSession(e, early, s.tasks, s.ids, 1)
          IN Become(e, SetState(ConnectChannels(SendMessage(new, "initiate")), "SENTINITIATE"), {})
     /\ UNCHANGED faults

\* A stanza arrives; a repeated one stays to arrive again.
Receive(m, keep, late, accept) ==
  LET e == m.to
      s == [end[e] EXCEPT !.batch = TRUE]
  IN /\ end[e].q = <<>> \/ end[e].batch
     /\ Fault((IF keep THEN 1 ELSE 0) + (IF late THEN 1 ELSE 0))
     /\ Become(e, IF m.type = "set" THEN Incoming(e, s, m, accept) ELSE Response(s, m, late),
               IF keep THEN {} ELSE {m})

\* Only an answer is late, and only a request worth repeating: of two answers
\* the task takes one.
Deliver(keep) ==
  \E m \in net :
    /\ keep => m.type = "set"
    /\ \E late \in {FALSE} \cup {m.type = "result"},
          accept \in {FALSE} \cup {m.type = "set" /\ m.action = "initiate"} :
         Receive(m, keep, late, accept)

Lose ==
  /\ Fault(1)
  /\ \E m \in net : net' = net \ {m}
  /\ UNCHANGED end

\* Mutant: candidates go out while the initiate is unanswered.
CandidatesReadyNow(s) == SendMessage([s EXCEPT !.left = @ - 1], "info")

\* OnTransportProxyCandidatesReady
CandidatesReady(s) ==
  IF s.initiator /\ ~s.acked THEN [s EXCEPT !.left = @ - 1, !.unsent = @ + 1]
  ELSE SendMessage([s EXCEPT !.left = @ - 1], "info")

Gather(e) ==
  LET s == end[e]
  IN /\ s.q = <<>> /\ s.live /\ s.connecting /\ s.left > 0
     /\ Become(e, CandidatesReady(s), {})
     /\ UNCHANGED faults

\* Mutant: the state is tested after BaseSession::OnMessage has changed it, and
\* only for the states of the terminate.
HandleStateTerminateOnly(s) ==
  IF s.state \in {"SENTTERMINATE", "RECEIVEDTERMINATE"} THEN DestroySession(s)
  ELSE IF s.state \in {"SENTACCEPT", "RECEIVEDACCEPT"} THEN SetState(s, "INPROGRESS")
  ELSE s

\* MSG_STATE
HandleState(s) ==
  CASE s.state \in {"SENTACCEPT", "RECEIVEDACCEPT"} -> SetState(s, "INPROGRESS")
    [] s.state \in {"SENTREJECT", "RECEIVEDREJECT"} -> Terminate(s)
    [] s.state \in {"SENTTERMINATE", "RECEIVEDTERMINATE"} -> DestroySession(s)
    [] OTHER -> s

\* MSG_WRITESTATE: Transport::OnChannelWritableState_s
HandleWriteState(s, now) ==
  IF now = s.writable THEN s ELSE OnTransportWritable([s EXCEPT !.writable = now])

\* The thread of end e takes the next message.
Dispatch(e) ==
  LET s == end[e]
      t == [s EXCEPT !.q = Tail(@), !.batch = FALSE]
  IN /\ s.q # <<>>
     /\ Become(e, CASE Head(s.q) = "STATE" -> HandleState(t)
                    [] Head(s.q) = "ERROR" -> Terminate(t)
                    [] Head(s.q) = "CONNECTING" -> OnTransportWritable(t), {})
     /\ UNCHANGED faults

\* MSG_TIMEOUT: 50 seconds without a writable transport. The messages of q, if
\* any, were posted after Get had found it due.
Timeout(e) ==
  LET s == end[e]
  IN /\ s.timer
     /\ Become(e, SetError([s EXCEPT !.timer = FALSE, !.batch = FALSE], "TIME"), {})
     /\ UNCHANGED faults

Connects(e) == end[e].chan /\ end[e].connecting

\* The channel finds its peer, and posts MSG_WRITESTATE, which is the only message ...
ChannelUp(e) ==
  LET s == end[e]
  IN /\ s.q = <<>> /\ ~s.writable /\ Connects(e) /\ Connects(Peer(e))
     /\ Become(e, HandleWriteState(s, TRUE), {})
     /\ UNCHANGED faults

\* ... and loses it: because it is gone, or for a while.
ChannelDown(e, peerGone) ==
  LET s == end[e]
  IN /\ s.q = <<>> /\ s.writable
     /\ peerGone = ~Connects(Peer(e))
     /\ Fault(IF peerGone THEN 0 ELSE 1)
     /\ Become(e, HandleWriteState(s, FALSE), {})

\* The tunnel's stream is closed: the channel is destroyed, which takes the
\* timer with it, and TunnelSession::OnChannelClosed terminates the session.
ChannelClosed(e) ==
  LET s == end[e]
  IN /\ s.q = <<>> /\ s.live /\ s.chan
     /\ Become(e, Terminate([s EXCEPT !.chan = FALSE, !.writable = FALSE, !.timer = FALSE]), {})
     /\ UNCHANGED faults

Next ==
  \/ Initiate
  \/ \E keep \in BOOLEAN : Deliver(keep)
  \/ Lose
  \/ \E e \in Ends : \/ Gather(e)
                     \/ Dispatch(e)
                     \/ Timeout(e)
                     \/ ChannelUp(e)
                     \/ \E peerGone \in BOOLEAN : ChannelDown(e, peerGone)
                     \/ ChannelClosed(e)

\* Every thread takes its messages, a delayed one included; the XMPP server
\* delivers what it does not lose; a channel whose peer is gone notices.
Fairness ==
  /\ WF_vars(Deliver(FALSE))
  /\ \A e \in Ends : /\ WF_vars(Dispatch(e))
                     /\ WF_vars(Timeout(e))
                     /\ WF_vars(ChannelDown(e, TRUE))

Spec == Init /\ [][Next]_vars /\ Fairness

---------------------------------------------------------------------------
(* Properties                                                               *)

Stanza == [to : Ends, action : Actions, id : Nat, type : Types]
Task == [action : Actions, id : Nat]
Written == [action : Actions, id : Nat, type : Types]
Posted == {"STATE", "ERROR", "CONNECTING"}
EndState ==
  [live : BOOLEAN, state : States, error : {"NONE", "RESPONSE", "TIME"}, initiator : BOOLEAN,
   acked : BOOLEAN, unsent : Nat, left : Nat, chan : BOOLEAN, connecting : BOOLEAN,
   writable : BOOLEAN, timer : BOOLEAN, q : Seq(Posted), batch : BOOLEAN,
   tasks : SUBSET Task, ids : Nat, made : Nat,
   out : SUBSET Written]

\* Type invariant: every request under way, and every one waited for, has a
\* number its end has given out.
TypeOK ==
  /\ faults \in 0..MaxFaults
  /\ net \subseteq Stanza
  /\ end \in [Ends -> EndState]
  /\ \A m \in net : m.id < end[IF m.type = "set" THEN Peer(m.to) ELSE m.to].ids
  /\ \A e \in Ends :
       /\ end[e].unsent <= Candidates[e] /\ end[e].left <= Candidates[e]
       /\ \A t \in end[e].tasks : t.id < end[e].ids
       /\ end[e].made <= MaxFaults + 1 /\ end[e].out = {}

\* However the server reorders stanzas, the initiator's candidates are on their
\* way only once the responder has had the session: they are kept back until
\* the initiate is answered (the work-around in OnTransportProxyCandidatesReady).
InitiateFirst ==
  \A m \in net : m.action = "info" /\ m.type = "set" /\ m.to = "responder"
                    => end["responder"].made > 0

\* Candidates that were kept back do not stay behind in an accepted session,
\* even if the answer to the initiate is lost or overtaken (OnAcceptMessage).
CandidatesNotStranded ==
  \A e \in Ends : end[e].state \in Together => end[e].unsent = 0

\* Reordering alone breaks no session that both ends want: an error answer
\* reaches a session only after a loss, a repetition or a late answer, or once
\* one of the ends is ending it (CheckState, OnFailedSend).
ErrorForCause ==
  \A e \in Ends : end[e].error = "RESPONSE" =>
    \/ faults > 0
    \/ \E d \in Ends : end[d].state \in Ending \cup {"DEINIT"}

\* A rejected or terminated session is destroyed (OnMessage, DestroySession).
EndingEnds ==
  \A e \in Ends : end[e].state \in Ending ~> end[e].state = "DEINIT"

\* An end that connects to nobody gives up: the session timer of
\* OnTransportWritable ends a session whose peer was never there, or is gone,
\* whatever happened to the messages that should have said so.
LoneEndGivesUp ==
  \A e \in Ends : (Connects(e) /\ ~Connects(Peer(e))) ~>
                     (~Connects(e) \/ Connects(Peer(e)))

\* "If not response happens within 5 seconds, it will signal failure on a
\* SessionManager": a session does not wait for ever for the answer to a
\* request (SessionSendTask).
RequestsSettle ==
  \A e \in Ends : (end[e].live /\ end[e].tasks # {}) ~> (~end[e].live \/ end[e].tasks = {})
=============================================================================
