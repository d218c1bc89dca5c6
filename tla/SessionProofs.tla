--------------------------- MODULE SessionProofs ---------------------------
(* Proofs about the signalling of a tunnel, for any number of candidates    *)
(* and of faults.                                                           *)
EXTENDS Session, TLAPS

Over(s) == s.state \in Ending \cup {"DEINIT"}
Ended(s) == s.made > 0 /\ Over(s)

(* What holds of the record of end e at any moment, inside a handler too.   *)
(* Candidates are kept back only by an initiator without an answer, and an  *)
(* initiator is in an accepted session only with one; what is not live is   *)
(* as NoSession made it.                                                    *)
EndOK(e, s) ==
  /\ s \in EndState
  /\ s.initiator = (e = "initiator")
  /\ s.unsent + s.left <= Candidates[e]
  /\ s.acked \/ ~s.initiator => s.unsent = 0
  /\ s.initiator /\ s.state \in Together => s.acked
  /\ s.live => s.made > 0 /\ s.state # "DEINIT"
  /\ ~s.live => /\ s.state = "DEINIT" /\ s.q = <<>> /\ s.error = "NONE"
                /\ ~s.timer /\ ~s.chan /\ ~s.connecting /\ ~s.writable /\ ~s.acked
  /\ \A t \in s.tasks : t.id < s.ids

(* Between two handlers no session is half made and nothing is unsent.       *)
AtRest(s) == s.state \notin {"INIT", "RECEIVEDINITIATE"} /\ s.out = {}

EndsOK == end \in [Ends -> EndState] /\ \A e \in Ends : EndOK(e, end[e]) /\ AtRest(end[e])

(* A request for one of the actions A.                                      *)
IsSet(m, A) == m.type = "set" /\ m.action \in A

(* Who may have sent a stanza m under way, and with which number.           *)
StanzaOK(m) ==
  /\ m \in Stanza
  /\ m.id < end[IF m.type = "set" THEN Peer(m.to) ELSE m.to].ids
  /\ IsSet(m, {"initiate"}) =>
       m.to = "responder" /\ end["initiator"].made > 0 /\ end["responder"].made <= faults
  /\ IsSet(m, {"accept", "reject"}) => m.to = "initiator"
  /\ IsSet(m, {"info"}) => end["responder"].made > 0
  /\ m.type # "error" /\ m.to = "initiator" => end["responder"].made > 0

(* A session that has ended for either side.                                *)
SomeEnded == \E e \in Ends : Ended(end[e])

(* What a network without faults adds.                                      *)
FaultlessOK(m) ==
  /\ IsSet(m, {"terminate"}) => Ended(end[Peer(m.to)])
  /\ m.type = "error" => SomeEnded
  /\ IsSet(m, {"accept", "reject"}) => end["initiator"].state \notin Together

SameMessage(A) == \A m1, m2 \in net : IsSet(m1, A) /\ IsSet(m2, A) => m1 = m2

SessionInv ==
  /\ faults \in 0..MaxFaults
  /\ EndsOK
  /\ \A m \in net : StanzaOK(m)
  /\ SameMessage({"initiate"})
  /\ end["initiator"].acked => end["responder"].made > 0
  /\ end["responder"].made > 0 => end["initiator"].made > 0
  /\ end["initiator"].made <= 1 /\ end["responder"].made <= faults + 1
  /\ faults = 0 => /\ \A m \in net : FaultlessOK(m)
                   /\ SameMessage({"accept", "reject"})
                   /\ \A e \in Ends : end[e].error = "RESPONSE" => SomeEnded

-----------------------------------------------------------------------------
(* What the building blocks of the handlers do to the record of an end.     *)

(* t follows s without a request sent and without a change of the candidates.*)
Quiet(s, t) ==
  /\ t \in EndState
  /\ t.live = s.live /\ t.initiator = s.initiator /\ t.made = s.made
  /\ t.acked = s.acked /\ t.unsent = s.unsent /\ t.left = s.left
  /\ t.tasks = s.tasks /\ t.ids = s.ids /\ t.out = s.out

(* The fields have their types.                                             *)
LEMMA FieldTypes ==
  ASSUME NEW s \in EndState
  PROVE  /\ s.live \in BOOLEAN /\ s.state \in States /\ s.initiator \in BOOLEAN
         /\ s.acked \in BOOLEAN /\ s.chan \in BOOLEAN /\ s.writable \in BOOLEAN
         /\ s.connecting \in BOOLEAN /\ s.timer \in BOOLEAN
         /\ s.unsent \in Nat /\ s.left \in Nat /\ s.ids \in Nat /\ s.made \in Nat
         /\ s.q \in Seq(Posted) /\ s.tasks \subseteq Task /\ s.out \subseteq Written
BY DEF EndState

(* Posting a message to the thread.                                         *)
LEMMA PostFacts ==
  ASSUME NEW s \in EndState, NEW msg \in Posted, NEW t, t = Post(s, msg)
  PROVE  Quiet(s, t) /\ t.state = s.state /\ t.error = s.error
<1>1. Append(s.q, msg) \in Seq(Posted)
  BY FieldTypes
<1>2. t \in EndState
  BY <1>1 DEF Post, EndState
<1> QED BY <1>2 DEF Post, Quiet, EndState

(* SetState only changes the state and posts a message.                     *)
LEMMA SetStateFacts ==
  ASSUME NEW s \in EndState, NEW st \in States, NEW t, t = SetState(s, st)
  PROVE  Quiet(s, t) /\ t.state = st /\ t.error = s.error
<1> DEFINE u == [s EXCEPT !.state = st]
<1>1. CASE s.state = st
  BY <1>1 DEF SetState, Quiet
<1>2. CASE s.state # st
  <2>1. u \in EndState /\ Quiet(s, u) /\ u.state = st /\ u.error = s.error
    BY DEF EndState, Quiet
  <2>2. t = Post(u, "STATE") /\ "STATE" \in Posted
    BY <1>2 DEF SetState, Posted
  <2> HIDE DEF u
  <2>3. Quiet(u, t) /\ t.state = u.state /\ t.error = u.error
    BY <2>1, <2>2, PostFacts
  <2> QED BY <2>1, <2>3 DEF Quiet
<1> QED BY <1>1, <1>2

(* So does SetState to an accepted state, with the channel it creates.      *)
LEMMA SetAcceptedFacts ==
  ASSUME NEW s \in EndState, NEW st \in States, NEW t, t = SetAccepted(s, st)
  PROVE  Quiet(s, t) /\ t.state = st /\ t.error = s.error
<1> DEFINE u == [s EXCEPT !.chan = TRUE]
<1>1. u \in EndState /\ Quiet(s, u) /\ u.error = s.error
  BY DEF EndState, Quiet
<1>2. t = SetState(u, st)
  BY DEF SetAccepted
<1> HIDE DEF u
<1>3. Quiet(u, t) /\ t.state = st /\ t.error = u.error
  BY <1>1, <1>2, SetStateFacts
<1> QED BY <1>1, <1>3 DEF Quiet

(* Connecting the channels is a message to the transport at most.           *)
LEMMA ConnectChannelsFacts ==
  ASSUME NEW s \in EndState, NEW t, t = ConnectChannels(s)
  PROVE  Quiet(s, t) /\ t.state = s.state /\ t.error = s.error
<1> DEFINE u == [s EXCEPT !.connecting = TRUE]
<1>1. u \in EndState /\ Quiet(s, u) /\ u.state = s.state /\ u.error = s.error
  BY DEF EndState, Quiet
<1>2. t = s \/ t = Post(u, "CONNECTING")
  BY DEF ConnectChannels
<1>3. "CONNECTING" \in Posted
  BY DEF Posted
<1> HIDE DEF u
<1>4. CASE t = Post(u, "CONNECTING")
  <2>1. Quiet(u, t) /\ t.state = u.state /\ t.error = u.error
    BY <1>1, <1>3, <1>4, PostFacts
  <2> QED BY <1>1, <2>1 DEF Quiet
<1>5. CASE t = s
  BY <1>5 DEF Quiet
<1> QED BY <1>2, <1>4, <1>5

(* SetError notes the error and posts a message.                            *)
LEMMA SetErrorFacts ==
  ASSUME NEW s \in EndState, NEW err \in {"RESPONSE", "TIME"}, NEW t, t = SetError(s, err)
  PROVE  Quiet(s, t) /\ t.state = s.state /\ t.error = err
<1> DEFINE u == [s EXCEPT !.error = err]
<1>1. u \in EndState /\ Quiet(s, u) /\ u.state = s.state /\ u.error = err
  BY DEF EndState, Quiet
<1>2. t = Post(u, "ERROR") /\ "ERROR" \in Posted
  BY DEF SetError, Posted
<1> HIDE DEF u
<1>3. Quiet(u, t) /\ t.state = u.state /\ t.error = u.error
  BY <1>1, <1>2, PostFacts
<1> QED BY <1>1, <1>3 DEF Quiet

(* The session timer is started or stopped, nothing else.                   *)
LEMMA OnTransportWritableFacts ==
  ASSUME NEW s \in EndState, NEW t, t = OnTransportWritable(s)
  PROVE  Quiet(s, t) /\ t.state = s.state /\ t.error = s.error
<1>1. (s.chan /\ ~s.writable) \in BOOLEAN
  BY FieldTypes
<1>2. t \in EndState
  BY <1>1 DEF OnTransportWritable, EndState
<1> QED BY <1>2 DEF OnTransportWritable, EndState, Quiet

(* t follows s with the request act sent, under the next number.            *)
Sends(s, t, act) ==
  /\ t \in EndState
  /\ t.live = s.live /\ t.initiator = s.initiator /\ t.made = s.made
  /\ t.acked = s.acked /\ t.unsent = s.unsent /\ t.left = s.left
  /\ t.tasks = s.tasks \cup {[action |-> act, id |-> s.ids]}
  /\ t.ids = s.ids + 1
  /\ t.out = s.out \cup {[action |-> act, id |-> s.ids, type |-> "set"]}

(* SendMessage sends one request and waits for its answer.                  *)
LEMMA SendMessageFacts ==
  ASSUME NEW s \in EndState, NEW act \in Actions, NEW t, t = SendMessage(s, act)
  PROVE  Sends(s, t, act) /\ t.state = s.state /\ t.error = s.error
<1>1. s.tasks \cup {[action |-> act, id |-> s.ids]} \in SUBSET Task
  BY FieldTypes DEF Task
<1>2. s.out \cup {[action |-> act, id |-> s.ids, type |-> "set"]} \in SUBSET Written
  BY FieldTypes DEF Written, Types
<1>3. s.ids + 1 \in Nat
  BY FieldTypes
<1>4. t \in EndState
  BY <1>1, <1>2, <1>3 DEF SendMessage, EndState
<1> QED BY <1>4 DEF SendMessage, EndState, Sends

(* SendAnswer adds one answer to what is written.                           *)
LEMMA SendAnswerFacts ==
  ASSUME NEW s \in EndState, NEW m \in Stanza, NEW ty \in Types, NEW t, t = SendAnswer(s, m, ty)
  PROVE  /\ t \in EndState
         /\ t.live = s.live /\ t.initiator = s.initiator /\ t.made = s.made
         /\ t.acked = s.acked /\ t.unsent = s.unsent /\ t.left = s.left
         /\ t.tasks = s.tasks /\ t.ids = s.ids /\ t.state = s.state /\ t.error = s.error
         /\ t.q = s.q /\ t.timer = s.timer /\ t.chan = s.chan
         /\ t.connecting = s.connecting /\ t.writable = s.writable
         /\ t.out = s.out \cup {[action |-> m.action, id |-> m.id, type |-> ty]}
<1>1. s.out \cup {[action |-> m.action, id |-> m.id, type |-> ty]} \in SUBSET Written
  BY FieldTypes DEF Written, Stanza
<1>2. t \in EndState
  BY <1>1 DEF SendAnswer, EndState
<1> QED BY <1>2 DEF SendAnswer, EndState

-----------------------------------------------------------------------------
(* The handlers.                                                            *)

(* t follows s with at most requests for an action of A sent.               *)
Moves(s, t, A) ==
  /\ t \in EndState
  /\ t.live = s.live /\ t.initiator = s.initiator /\ t.made = s.made
  /\ t.ids >= s.ids
  /\ \A x \in t.tasks : x \in s.tasks \/ x.id < t.ids
  /\ \A o \in t.out : o \in s.out \/ (o.type = "set" /\ o.action \in A /\ o.id < t.ids)

(* A record that follows quietly has moved, with no request sent.           *)
LEMMA QuietMoves ==
  ASSUME NEW s \in EndState, NEW t, Quiet(s, t), NEW A
  PROVE  Moves(s, t, A)
BY FieldTypes DEF Quiet, Moves

(* So has one that sent a request.                                          *)
LEMMA SendsMoves ==
  ASSUME NEW s \in EndState, NEW t, NEW act, Sends(s, t, act), NEW A, act \in A
  PROVE  Moves(s, t, A)
BY FieldTypes DEF Sends, Moves

(* Two moves make a move.                                                   *)
LEMMA MovesTransitive ==
  ASSUME NEW s \in EndState, NEW t, NEW u, NEW A, Moves(s, t, A), Moves(t, u, A)
  PROVE  Moves(s, u, A)
<1>1. s.ids \in Nat /\ t.ids \in Nat /\ u.ids \in Nat /\ t.tasks \subseteq Task /\ t.out \subseteq Written
  BY FieldTypes DEF Moves
<1>2. \A x \in u.tasks : x \in t.tasks \/ x.id < u.ids
  BY DEF Moves
<1>3. \A x \in t.tasks : x \in s.tasks \/ x.id < u.ids
  BY <1>1 DEF Moves, Task
<1>4. \A o \in t.out : o \in s.out \/ (o.type = "set" /\ o.action \in A /\ o.id < u.ids)
  BY <1>1 DEF Moves, Written
<1> QED BY <1>1, <1>2, <1>3, <1>4 DEF Moves

(* The answer to the initiate, or the accept that stands in for it.         *)
LEMMA OnInitiateAckedFacts ==
  ASSUME NEW s \in EndState, s.acked => s.unsent = 0, NEW t, t = OnInitiateAcked(s)
  PROVE  /\ Moves(s, t, {"info"}) /\ t.acked /\ t.unsent = 0 /\ t.left = s.left
         /\ t.state = s.state /\ t.error = s.error
<1>1. CASE s.acked
  BY <1>1, QuietMoves DEF OnInitiateAcked, Quiet
<1>2. CASE ~s.acked /\ s.unsent = 0
  <2>1. t = [s EXCEPT !.acked = TRUE]
    BY <1>2 DEF OnInitiateAcked
  <2>2. /\ t \in EndState /\ t.live = s.live /\ t.initiator = s.initiator /\ t.made = s.made
        /\ t.ids = s.ids /\ t.tasks = s.tasks /\ t.out = s.out
        /\ t.acked /\ t.unsent = s.unsent /\ t.left = s.left /\ t.state = s.state /\ t.error = s.error
    BY <2>1 DEF EndState
  <2> QED BY <1>2, <2>2, FieldTypes DEF Moves
<1>3. CASE ~s.acked /\ s.unsent # 0
  <2> DEFINE u == [s EXCEPT !.acked = TRUE, !.unsent = 0]
  <2>0. /\ u \in EndState /\ u.live = s.live /\ u.initiator = s.initiator /\ u.made = s.made
        /\ u.ids = s.ids /\ u.tasks = s.tasks /\ u.out = s.out
        /\ u.acked /\ u.unsent = 0 /\ u.left = s.left /\ u.state = s.state /\ u.error = s.error
    BY DEF EndState
  <2>1. Moves(s, u, {"info"})
    BY <2>0, FieldTypes DEF Moves
  <2>2. t = SendMessage(u, "info") /\ "info" \in Actions
    BY <1>3 DEF OnInitiateAcked, Actions
  <2> HIDE DEF u
  <2>3. Sends(u, t, "info") /\ t.state = u.state /\ t.error = u.error
    BY <2>0, <2>2, SendMessageFacts
  <2>4. Moves(u, t, {"info"})
    BY <2>0, <2>3, SendsMoves
  <2> QED BY <2>0, <2>1, <2>3, <2>4, MovesTransitive DEF Sends
<1> QED BY <1>1, <1>2, <1>3, FieldTypes

(* Terminate ends the session and tells the peer at most once.              *)
LEMMA TerminateFacts ==
  ASSUME NEW s \in EndState, NEW t, t = Terminate(s)
  PROVE  /\ Moves(s, t, {"terminate"}) /\ t.acked = s.acked /\ t.unsent = s.unsent /\ t.left = s.left
         /\ t.state \in {"SENTTERMINATE", "RECEIVEDTERMINATE"} /\ t.error = s.error
<1>0. "SENTTERMINATE" \in States /\ "terminate" \in Actions
  BY DEF States, Actions
<1>1. CASE t = s /\ s.state \in {"SENTTERMINATE", "RECEIVEDTERMINATE"}
  BY <1>1, QuietMoves DEF Quiet
<1>2. CASE t = SetState(s, "SENTTERMINATE")
  <2>1. Quiet(s, t) /\ t.state = "SENTTERMINATE" /\ t.error = s.error
    BY <1>0, <1>2, SetStateFacts
  <2> QED BY <2>1, QuietMoves DEF Quiet
<1>3. CASE t = SetState(SendMessage(s, "terminate"), "SENTTERMINATE")
  <2> DEFINE u == SendMessage(s, "terminate")
  <2>1. Sends(s, u, "terminate") /\ u.error = s.error
    BY <1>0, SendMessageFacts
  <2> HIDE DEF u
  <2>2. u \in EndState
    BY <2>1 DEF Sends
  <2>3. Quiet(u, t) /\ t.state = "SENTTERMINATE" /\ t.error = u.error
    BY <1>0, <1>3, <2>2, SetStateFacts DEF u
  <2>4. Moves(s, u, {"terminate"}) /\ Moves(u, t, {"terminate"})
    BY <2>1, <2>2, <2>3, SendsMoves, QuietMoves
  <2> QED BY <2>1, <2>3, <2>4, MovesTransitive DEF Sends, Quiet
<1> QED BY <1>1, <1>2, <1>3 DEF Terminate

(* The responder's answer goes out as one request of its own.               *)
LEMMA OnInitiateMessageFacts ==
  ASSUME NEW s \in EndState, NEW accept \in BOOLEAN, NEW t, t = OnInitiateMessage(s, accept)
  PROVE  \E act \in {"accept", "reject"} :
           /\ Sends(s, t, act)
           /\ t.state \in {"SENTACCEPT", "SENTREJECT"} /\ t.error = s.error
<1> DEFINE asked == [s EXCEPT !.state = "RECEIVEDINITIATE"]
           act == IF accept THEN "accept" ELSE "reject"
           st == IF accept THEN "SENTACCEPT" ELSE "SENTREJECT"
           sent == SendMessage(asked, act)
           answered == IF accept THEN Accept(asked) ELSE Reject(asked)
           told == Post(answered, "STATE")
<1>0. /\ act \in Actions /\ act \in {"accept", "reject"} /\ st \in States
      /\ st \in {"SENTACCEPT", "SENTREJECT"} /\ "STATE" \in Posted /\ "RECEIVEDINITIATE" \in States
  BY DEF Actions, States, Posted
<1>1. asked \in EndState /\ Quiet(s, asked) /\ asked.error = s.error
  BY <1>0 DEF EndState, Quiet
<1>2. answered = IF accept THEN SetAccepted(sent, st) ELSE SetState(sent, st)
  BY DEF Accept, Reject
<1>3. t = told \/ t = ConnectChannels(told)
  BY DEF OnInitiateMessage
<1> HIDE DEF asked, act, st, answered, told
<1>4. Sends(asked, sent, act) /\ sent.error = asked.error
  BY <1>0, <1>1, SendMessageFacts
<1>5. sent \in EndState
  BY <1>4 DEF Sends
<1> HIDE DEF sent
<1>6. Quiet(sent, answered) /\ answered.state = st /\ answered.error = sent.error
  BY <1>0, <1>2, <1>5, SetAcceptedFacts, SetStateFacts
<1>7. Quiet(answered, told) /\ told.state = st /\ told.error = answered.error /\ told \in EndState
  <2>1. answered \in EndState
    BY <1>6 DEF Quiet
  <2> QED BY <1>0, <1>6, <2>1, PostFacts DEF told, Quiet
<1>8. Quiet(told, t) /\ t.state = st /\ t.error = told.error
  <2>1. CASE t = told
    BY <1>7, <2>1 DEF Quiet
  <2>2. CASE t = ConnectChannels(told)
    BY <1>7, <2>2, ConnectChannelsFacts
  <2> QED BY <1>3, <2>1, <2>2
<1>9. Sends(s, t, act)
  BY <1>1, <1>4, <1>6, <1>7, <1>8 DEF Sends, Quiet
<1> QED BY <1>0, <1>1, <1>4, <1>6, <1>7, <1>8, <1>9

(* The accept sends what was kept back and leaves nothing unsent.           *)
LEMMA OnAcceptMessageFacts ==
  ASSUME NEW s \in EndState, s.acked => s.unsent = 0, NEW t, t = OnAcceptMessage(s)
  PROVE  /\ Moves(s, t, {"info"}) /\ t.acked /\ t.unsent = 0 /\ t.left = s.left
         /\ t.state = "RECEIVEDACCEPT" /\ t.error = s.error
<1> DEFINE u == OnInitiateAcked(s)
           v == SetAccepted(u, "RECEIVEDACCEPT")
<1>1. Moves(s, u, {"info"}) /\ u.acked /\ u.unsent = 0 /\ u.left = s.left /\ u.error = s.error
  BY OnInitiateAckedFacts
<1>2. u \in EndState /\ "RECEIVEDACCEPT" \in States
  BY <1>1 DEF Moves, States
<1>3. t = ConnectChannels(v)
  BY DEF OnAcceptMessage
<1> HIDE DEF u
<1>4. Quiet(u, v) /\ v.state = "RECEIVEDACCEPT" /\ v.error = u.error
  BY <1>2, SetAcceptedFacts
<1>5. v \in EndState
  BY <1>4 DEF Quiet
<1> HIDE DEF v
<1>6. Quiet(v, t) /\ t.state = v.state /\ t.error = v.error
  BY <1>3, <1>5, ConnectChannelsFacts
<1>7. Quiet(u, t)
  BY <1>4, <1>6 DEF Quiet
<1>8. Moves(u, t, {"info"})
  BY <1>2, <1>7, QuietMoves
<1> QED BY <1>1, <1>4, <1>6, <1>7, <1>8, MovesTransitive DEF Quiet

(* A destroyed session leaves its end as an end without a session.          *)
LEMMA DestroySessionFacts ==
  ASSUME NEW e \in Ends, NEW s, EndOK(e, s), NEW t, t = DestroySession(s)
  PROVE  /\ EndOK(e, t) /\ t.state = "DEINIT" /\ t.error = "NONE" /\ ~t.acked
         /\ t.tasks = s.tasks /\ t.ids = s.ids /\ t.made = s.made /\ t.out = s.out
<1> DEFINE n == NewSession(e, FALSE, s.tasks, s.ids, s.made)
<1>1. /\ s \in EndState /\ s.initiator = (e = "initiator") /\ s.tasks \in SUBSET Task
      /\ s.ids \in Nat /\ s.made \in Nat /\ s.out \in SUBSET Written
  BY FieldTypes DEF EndOK
<1>2. t = [[n EXCEPT !.live = FALSE, !.state = "DEINIT"] EXCEPT !.out = s.out]
  BY <1>1 DEF DestroySession, NoSession, Ends
<1>3. /\ n \in EndState /\ n.error = "NONE" /\ n.initiator = (e = "initiator")
      /\ ~n.acked /\ n.unsent = 0 /\ n.left = Candidates[e] /\ n.left \in Nat
      /\ n.tasks = s.tasks /\ n.ids = s.ids /\ n.made = s.made
  <2>1. Candidates[e] \in Nat /\ <<>> \in Seq(Posted) /\ "INIT" \in States /\ {} \in SUBSET Written
    BY SessionAssumption DEF Ends, States
  <2> QED BY <1>1, <2>1 DEF NewSession, EndState
<1>4. n.q = <<>> /\ ~n.timer /\ ~n.chan /\ ~n.connecting /\ ~n.writable
  BY DEF NewSession
<1> HIDE DEF n
<1>5. "DEINIT" \in States
  BY DEF States
<1>6. /\ t \in EndState /\ ~t.live /\ t.state = "DEINIT" /\ t.error = n.error
      /\ t.initiator = n.initiator /\ t.acked = n.acked /\ t.unsent = n.unsent /\ t.left = n.left
      /\ t.tasks = n.tasks /\ t.ids = n.ids /\ t.made = n.made /\ t.out = s.out
      /\ t.q = n.q /\ t.timer = n.timer /\ t.chan = n.chan
      /\ t.connecting = n.connecting /\ t.writable = n.writable
  BY <1>1, <1>2, <1>3, <1>5 DEF EndState
<1> QED BY <1>1, <1>3, <1>4, <1>6 DEF EndOK, Together

(* Candidates are sent, or kept back by an initiator without an answer.     *)
LEMMA CandidatesReadyFacts ==
  ASSUME NEW s \in EndState, s.left > 0, NEW t, t = CandidatesReady(s)
  PROVE  /\ Moves(s, t, {"info"}) /\ t.acked = s.acked /\ t.state = s.state /\ t.error = s.error
         /\ t.unsent + t.left <= s.unsent + s.left
         /\ t.unsent # s.unsent => s.initiator /\ ~s.acked
         /\ t.out # s.out => s.acked \/ ~s.initiator
<1>0. s.left - 1 \in Nat /\ s.unsent + 1 \in Nat /\ "info" \in Actions
  BY FieldTypes DEF Actions
<1>1. CASE s.initiator /\ ~s.acked
  <2>1. t = [s EXCEPT !.left = @ - 1, !.unsent = @ + 1]
    BY <1>1 DEF CandidatesReady
  <2>2. /\ t \in EndState /\ t.live = s.live /\ t.initiator = s.initiator /\ t.made = s.made
        /\ t.ids = s.ids /\ t.tasks = s.tasks /\ t.out = s.out /\ t.acked = s.acked
        /\ t.unsent = s.unsent + 1 /\ t.left = s.left - 1 /\ t.state = s.state /\ t.error = s.error
    BY <1>0, <2>1 DEF EndState
  <2> QED BY <1>1, <2>2, FieldTypes DEF Moves
<1>2. CASE ~(s.initiator /\ ~s.acked)
  <2> DEFINE u == [s EXCEPT !.left = @ - 1]
  <2>1. t = SendMessage(u, "info")
    BY <1>2 DEF CandidatesReady
  <2>2. /\ u \in EndState /\ u.live = s.live /\ u.initiator = s.initiator /\ u.made = s.made
        /\ u.ids = s.ids /\ u.tasks = s.tasks /\ u.out = s.out /\ u.acked = s.acked
        /\ u.unsent = s.unsent /\ u.left = s.left - 1 /\ u.state = s.state /\ u.error = s.error
    BY <1>0 DEF EndState
  <2> HIDE DEF u
  <2>3. Sends(u, t, "info") /\ t.state = u.state /\ t.error = u.error
    BY <1>0, <2>1, <2>2, SendMessageFacts
  <2>4. Moves(s, u, {"info"}) /\ Moves(u, t, {"info"})
    <3>1. Moves(s, u, {"info"})
      BY <2>2, FieldTypes DEF Moves
    <3> QED BY <2>2, <2>3, <3>1, SendsMoves
  <2>5. Moves(s, t, {"info"})
    BY <2>4, MovesTransitive
  <2>6. t.unsent = s.unsent /\ t.left = s.left - 1 /\ t.acked = s.acked
    BY <2>2, <2>3 DEF Sends
  <2> QED BY <1>2, <2>2, <2>3, <2>5, <2>6, FieldTypes
<1> QED BY <1>1, <1>2

(* The answer to a request, for a session that is there.                    *)
LEMMA ResponseFacts ==
  ASSUME NEW s \in EndState, s.live, s.acked => s.unsent = 0, NEW m \in Stanza, NEW late \in BOOLEAN,
         NEW t, t = Response(s, m, late)
  PROVE  /\ Moves(s, t, {"info"}) /\ t.state = s.state /\ t.left = s.left
         /\ \/ t.acked = s.acked /\ t.unsent = s.unsent /\ t.out = s.out
            \/ t.acked /\ t.unsent = 0 /\ m.type # "error"
         /\ t.error = s.error \/ m.type = "error" \/ late
<1> DEFINE u == [s EXCEPT !.tasks = @ \ {[action |-> m.action, id |-> m.id]}]
<1>0. s.tasks \ {[action |-> m.action, id |-> m.id]} \in SUBSET Task
  BY FieldTypes
<1>1. /\ u \in EndState /\ u.live = s.live /\ u.initiator = s.initiator /\ u.made = s.made
      /\ u.ids = s.ids /\ u.tasks \subseteq s.tasks /\ u.out = s.out /\ u.acked = s.acked
      /\ u.unsent = s.unsent /\ u.left = s.left /\ u.state = s.state /\ u.error = s.error
  BY <1>0 DEF EndState
<1>2. \/ t = s
      \/ t = u
      \/ t = SetError(u, "RESPONSE") /\ (m.type = "error" \/ late)
      \/ t = OnInitiateAcked(u) /\ m.type # "error"
  BY DEF Response, OnFailedSend
<1> HIDE DEF u
<1>3. Moves(s, u, {"info"})
  BY <1>1, FieldTypes DEF Moves
<1>4. CASE t = s
  <2>1. Quiet(s, t)
    BY <1>4 DEF Quiet
  <2> QED BY <1>4, <2>1, QuietMoves
<1>5. CASE t = u
  BY <1>1, <1>3, <1>5
<1>6. CASE t = SetError(u, "RESPONSE") /\ (m.type = "error" \/ late)
  <2>1. Quiet(u, t) /\ t.state = u.state
    BY <1>1, <1>6, SetErrorFacts
  <2>2. Moves(u, t, {"info"})
    BY <1>1, <2>1, QuietMoves
  <2> QED BY <1>1, <1>3, <1>6, <2>1, <2>2, MovesTransitive DEF Quiet
<1>7. CASE t = OnInitiateAcked(u) /\ m.type # "error"
  <2>1. /\ Moves(u, t, {"info"}) /\ t.acked /\ t.unsent = 0 /\ t.left = u.left
        /\ t.state = u.state /\ t.error = u.error
    BY <1>1, <1>7, OnInitiateAckedFacts
  <2> QED BY <1>1, <1>3, <1>7, <2>1, MovesTransitive
<1> QED BY <1>2, <1>4, <1>5, <1>6, <1>7

-----------------------------------------------------------------------------
(* From what a handler does to one end to the invariant of the system.      *)

(* What end e may write when its record becomes t, the stanzas `gone' have  *)
(* arrived and the network has done f things wrong.                         *)
NewOK(e, t, gone, f, o) ==
  /\ o.id < IF o.type = "set" THEN t.ids ELSE end[Peer(e)].ids
  /\ IsSet(o, {"initiate"}) => e = "initiator" /\ end[e].made = 0 /\ t.made = 1
  /\ IsSet(o, {"accept", "reject"}) => e = "responder"
  /\ IsSet(o, {"info"}) /\ e = "initiator" => end["responder"].made > 0
  /\ o.type # "error" /\ e = "responder" => t.made > 0
  /\ f = 0 => /\ IsSet(o, {"terminate"}) => Ended(t)
              /\ o.type = "error" => Ended(t) \/ Ended(end[Peer(e)])
              /\ IsSet(o, {"accept", "reject"}) =>
                   /\ end["initiator"].state \notin Together
                   /\ \A m \in net \ gone : ~IsSet(m, {"accept", "reject"})

(* What a handler may make of end e.                                        *)
Outcome(e, t, gone, f) ==
  /\ EndOK(e, t) /\ t.state \notin {"INIT", "RECEIVEDINITIATE"}
  /\ t.ids >= end[e].ids /\ t.made >= end[e].made
  /\ \A o \in t.out : NewOK(e, t, gone, f, o)
  /\ \A o1, o2 \in t.out : /\ IsSet(o1, {"initiate"}) /\ IsSet(o2, {"initiate"}) => o1 = o2
                           /\ IsSet(o1, {"accept", "reject"}) /\ IsSet(o2, {"accept", "reject"}) => o1 = o2
  /\ e = "initiator" => t.made <= 1 /\ (t.acked => end["responder"].made > 0)
  /\ e = "responder" => /\ t.made > 0 => end["initiator"].made > 0
                        /\ t.made <= f + 1
                        /\ \A m \in net \ gone : IsSet(m, {"initiate"}) => t.made <= f
  /\ f = 0 => /\ Ended(end[e]) => Ended(t)
              /\ t.error = "RESPONSE" => Ended(t) \/ Ended(end[Peer(e)])
              /\ e = "initiator" /\ t.state \in Together =>
                   \A m \in net \ gone : ~IsSet(m, {"accept", "reject"})

(* The invariant of the system follows from what the handler did to its end. *)
LEMMA BecomeInv ==
  ASSUME SessionInv, faults' \in 0..MaxFaults, faults' >= faults,
         NEW e \in Ends, NEW t, NEW gone, Outcome(e, t, gone, faults'), Become(e, t, gone)
  PROVE  SessionInv'
<1> DEFINE r == [t EXCEPT !.out = {}, !.batch = @ /\ t.q # <<>>]
           Wire(o) == [to |-> Peer(e), action |-> o.action, id |-> o.id, type |-> o.type]
<1>0. /\ faults \in Nat /\ faults' \in Nat /\ Peer(e) \in Ends /\ Peer(e) # e
      /\ \A d \in Ends : d = e \/ d = Peer(e)
  BY SessionAssumption DEF SessionInv, Ends, Peer
<1>1. t \in EndState /\ t.out \subseteq Written /\ t.ids \in Nat /\ t.made \in Nat
  BY FieldTypes DEF Outcome, EndOK
<1>2. /\ r \in EndState /\ r.out = {} /\ r.live = t.live /\ r.state = t.state /\ r.error = t.error
      /\ r.initiator = t.initiator /\ r.acked = t.acked /\ r.unsent = t.unsent /\ r.left = t.left
      /\ r.made = t.made /\ r.tasks = t.tasks /\ r.ids = t.ids /\ r.q = t.q /\ r.timer = t.timer
      /\ r.chan = t.chan /\ r.connecting = t.connecting /\ r.writable = t.writable
  <2>1. (t.batch /\ t.q # <<>>) \in BOOLEAN
    OBVIOUS
  <2> QED BY <1>1, <2>1 DEF EndState
<1>3. end' = [end EXCEPT ![e] = r]
  BY DEF Become
<1>4. net' = (net \ gone) \cup {Wire(o) : o \in t.out}
  BY DEF Become
<1> HIDE DEF r
<1>5. end \in [Ends -> EndState] /\ end'[e] = r /\ end'[Peer(e)] = end[Peer(e)]
  BY <1>0, <1>3 DEF SessionInv, EndsOK
<1>6. \A d \in Ends : /\ end[d].ids \in Nat /\ end[d].made \in Nat
                      /\ end'[d].ids >= end[d].ids /\ end'[d].made >= end[d].made
                      /\ end'[d].ids \in Nat /\ end'[d].made \in Nat
  BY <1>0, <1>1, <1>2, <1>5, FieldTypes DEF Outcome
<1>7. EndsOK'
  <2>1. EndOK(e, r) /\ AtRest(r)
    BY <1>2 DEF Outcome, EndOK, AtRest
  <2>2. EndOK(Peer(e), end[Peer(e)]) /\ AtRest(end[Peer(e)])
    BY <1>0 DEF SessionInv, EndsOK
  <2>3. end' \in [Ends -> EndState]
    BY <1>2, <1>3, <1>5
  <2>4. \A d \in Ends : EndOK(d, end'[d]) /\ AtRest(end'[d])
    BY <1>0, <1>5, <2>1, <2>2
  <2> QED BY <2>3, <2>4 DEF EndsOK, EndOK, AtRest
<1>8. \A o \in t.out : /\ Wire(o) \in Stanza
                       /\ Wire(o).to = Peer(e) /\ Wire(o).action = o.action
                       /\ Wire(o).id = o.id /\ Wire(o).type = o.type
  BY <1>0, <1>1 DEF Stanza, Written
<1> HIDE DEF Wire
<1>9. \A m \in net' : m \in net \ gone \/ \E o \in t.out : m = Wire(o)
  BY <1>4
<1>10. /\ e = "initiator" => /\ Peer(e) = "responder" /\ end'["initiator"] = r
                             /\ end'["responder"] = end["responder"]
       /\ e = "responder" => /\ Peer(e) = "initiator" /\ end'["responder"] = r
                             /\ end'["initiator"] = end["initiator"]
       /\ e = "initiator" \/ e = "responder"
       /\ Peer(Peer(e)) = e
  BY <1>5 DEF Peer, Ends
<1>11. /\ "initiator" \in Ends /\ "responder" \in Ends
  BY DEF Ends
<1>12. ASSUME NEW m \in net' PROVE StanzaOK(m)'
  <2>1. CASE m \in net \ gone
    <3>1. StanzaOK(m)
      BY <2>1 DEF SessionInv
    <3>2. m \in Stanza /\ m.id \in Nat /\ (IF m.type = "set" THEN Peer(m.to) ELSE m.to) \in Ends
      BY <3>1 DEF StanzaOK, Stanza, Peer, Ends
    <3>3. m.id < end'[IF m.type = "set" THEN Peer(m.to) ELSE m.to].ids
      BY <1>6, <3>1, <3>2 DEF StanzaOK
    <3>4. /\ end["initiator"].made > 0 => end'["initiator"].made > 0
          /\ end["responder"].made > 0 => end'["responder"].made > 0
      BY <1>6, <1>11
    <3>5. IsSet(m, {"initiate"}) => end'["responder"].made <= faults'
      <4>1. CASE e = "initiator"
        BY <1>0, <1>6, <1>10, <1>11, <3>1, <4>1 DEF StanzaOK
      <4>2. CASE e = "responder"
        BY <1>2, <1>10, <2>1, <4>2 DEF Outcome
      <4> QED BY <1>10, <4>1, <4>2
    <3> QED BY <3>1, <3>2, <3>3, <3>4, <3>5 DEF StanzaOK
  <2>2. ASSUME NEW o \in t.out, m = Wire(o) PROVE StanzaOK(m)'
    <3>1. m \in Stanza /\ m.to = Peer(e) /\ m.action = o.action /\ m.id = o.id /\ m.type = o.type
      BY <1>8, <2>2
    <3>2. NewOK(e, t, gone, faults', o)
      BY <2>2 DEF Outcome
    <3>3. m.id < end'[IF m.type = "set" THEN Peer(m.to) ELSE m.to].ids
      BY <1>2, <1>5, <1>10, <3>1, <3>2 DEF NewOK
    <3>4. IsSet(m, {"initiate"}) => /\ m.to = "responder" /\ end'["initiator"].made > 0
                                    /\ end'["responder"].made <= faults'
      BY <1>0, <1>2, <1>6, <1>10, <1>11, <3>1, <3>2 DEF NewOK, IsSet, SessionInv
    <3>5. IsSet(m, {"accept", "reject"}) => m.to = "initiator"
      BY <1>10, <3>1, <3>2 DEF NewOK, IsSet
    <3>6. IsSet(m, {"info"}) => end'["responder"].made > 0
      BY <1>2, <1>10, <3>1, <3>2 DEF NewOK, IsSet
    <3>7. m.type # "error" /\ m.to = "initiator" => end'["responder"].made > 0
      BY <1>2, <1>10, <3>1, <3>2 DEF NewOK
    <3> QED BY <3>1, <3>3, <3>4, <3>5, <3>6, <3>7 DEF StanzaOK
  <2> QED BY <1>9, <2>1, <2>2
<1>13. SameMessage({"initiate"})'
  <2>1. ASSUME NEW m \in net \ gone, IsSet(m, {"initiate"}), NEW o \in t.out, IsSet(o, {"initiate"})
        PROVE  FALSE
    <3>1. end["initiator"].made > 0
      BY <2>1 DEF SessionInv, StanzaOK
    <3>2. end["initiator"].made = 0
      BY <2>1 DEF Outcome, NewOK
    <3> QED BY <3>1, <3>2
  <2>2. ASSUME NEW m1 \in net', NEW m2 \in net', IsSet(m1, {"initiate"}), IsSet(m2, {"initiate"})
        PROVE  m1 = m2
    <3>1. CASE m1 \in net \ gone /\ m2 \in net \ gone
      BY <2>2, <3>1 DEF SessionInv, SameMessage
    <3>2. ASSUME NEW o \in t.out, m1 = Wire(o) \/ m2 = Wire(o) PROVE IsSet(o, {"initiate"})
      BY <1>8, <2>2, <3>2 DEF IsSet
    <3>3. ASSUME NEW o1 \in t.out, NEW o2 \in t.out, m1 = Wire(o1), m2 = Wire(o2) PROVE m1 = m2
      BY <3>2, <3>3 DEF Outcome
    <3> QED BY <1>9, <2>1, <2>2, <3>1, <3>2, <3>3
  <2> QED BY <2>2 DEF SameMessage
<1>14. /\ end'["initiator"].acked => end'["responder"].made > 0
       /\ end'["responder"].made > 0 => end'["initiator"].made > 0
       /\ end'["initiator"].made <= 1 /\ end'["responder"].made <= faults' + 1
  <2>1. CASE e = "initiator"
    BY <1>0, <1>2, <1>6, <1>10, <1>11, <2>1 DEF SessionInv, Outcome
  <2>2. CASE e = "responder"
    BY <1>0, <1>2, <1>6, <1>10, <1>11, <2>2 DEF SessionInv, Outcome
  <2> QED BY <1>10, <2>1, <2>2
<1>15. ASSUME faults' = 0
       PROVE  /\ \A m \in net' : FaultlessOK(m)'
              /\ SameMessage({"accept", "reject"})'
              /\ \A d \in Ends : end'[d].error = "RESPONSE" => SomeEnded'
  <2>0. faults = 0
    BY <1>0, <1>15
  <2>1. \A d \in Ends : Ended(end[d]) => Ended(end'[d])
    BY <1>0, <1>2, <1>5, <1>15 DEF Outcome, Ended, Over
  <2>2. SomeEnded => SomeEnded'
    BY <2>1 DEF SomeEnded, Ended, Over
  <2>3. Ended(t) \/ Ended(end[Peer(e)]) => SomeEnded'
    BY <1>0, <1>2, <1>5 DEF SomeEnded, Ended, Over
  <2>4. ASSUME NEW m \in net' PROVE FaultlessOK(m)'
    <3>1. CASE m \in net \ gone
      <4>1. FaultlessOK(m) /\ StanzaOK(m)
        BY <2>0, <3>1 DEF SessionInv
      <4>2. Peer(m.to) \in Ends
        BY <4>1 DEF StanzaOK, Stanza, Peer, Ends
      <4>3. IsSet(m, {"terminate"}) => Ended(end'[Peer(m.to)])
        BY <2>1, <4>1, <4>2 DEF FaultlessOK
      <4>4. IsSet(m, {"accept", "reject"}) => end'["initiator"].state \notin Together
        BY <1>2, <1>10, <1>15, <3>1, <4>1 DEF FaultlessOK, Outcome
      <4> QED BY <2>2, <4>1, <4>3, <4>4 DEF FaultlessOK, Ended, Over
    <3>2. ASSUME NEW o \in t.out, m = Wire(o) PROVE FaultlessOK(m)'
      <4>1. m \in Stanza /\ m.to = Peer(e) /\ m.action = o.action /\ m.type = o.type
        BY <1>8, <3>2
      <4>2. NewOK(e, t, gone, faults', o)
        BY <3>2 DEF Outcome
      <4>3. IsSet(m, {"terminate"}) => Ended(end'[Peer(m.to)])
        BY <1>2, <1>5, <1>10, <1>15, <4>1, <4>2 DEF NewOK, IsSet, Ended, Over
      <4>4. m.type = "error" => SomeEnded'
        BY <1>15, <2>3, <4>1, <4>2 DEF NewOK
      <4>5. IsSet(m, {"accept", "reject"}) => end'["initiator"].state \notin Together
        BY <1>10, <1>15, <4>1, <4>2 DEF NewOK, IsSet
      <4> QED BY <4>3, <4>4, <4>5 DEF FaultlessOK, Ended, Over
    <3> QED BY <1>9, <3>1, <3>2
  <2>5. ASSUME NEW m1 \in net', NEW m2 \in net',
               IsSet(m1, {"accept", "reject"}), IsSet(m2, {"accept", "reject"})
        PROVE  m1 = m2
    <3>1. CASE m1 \in net \ gone /\ m2 \in net \ gone
      BY <2>0, <2>5, <3>1 DEF SessionInv, SameMessage
    <3>2. ASSUME NEW o \in t.out, m1 = Wire(o) \/ m2 = Wire(o)
          PROVE  IsSet(o, {"accept", "reject"})
      BY <1>8, <2>5, <3>2 DEF IsSet
    <3>3. ASSUME NEW o1 \in t.out, NEW o2 \in t.out, m1 = Wire(o1), m2 = Wire(o2) PROVE m1 = m2
      BY <3>2, <3>3 DEF Outcome
    <3>4. ASSUME NEW m \in net \ gone, IsSet(m, {"accept", "reject"}),
                 NEW o \in t.out, IsSet(o, {"accept", "reject"})
          PROVE  FALSE
      BY <1>15, <3>4 DEF Outcome, NewOK
    <3> QED BY <1>9, <2>5, <3>1, <3>2, <3>3, <3>4
  <2>6. ASSUME NEW d \in Ends, end'[d].error = "RESPONSE" PROVE SomeEnded'
    <3>1. CASE d = e
      BY <1>2, <1>5, <1>15, <2>3, <2>6, <3>1 DEF Outcome
    <3>2. CASE d = Peer(e)
      BY <1>5, <2>0, <2>2, <2>6, <3>2 DEF SessionInv
    <3> QED BY <1>0, <3>1, <3>2
  <2> QED BY <2>4, <2>5, <2>6 DEF SameMessage
<1> QED BY <1>7, <1>12, <1>13, <1>14, <1>15 DEF SessionInv

(* The facts of SessionInv about one end.                                   *)
LEMMA EndFacts ==
  ASSUME SessionInv, NEW e \in Ends
  PROVE  /\ EndOK(e, end[e]) /\ end[e] \in EndState /\ end[e].out = {}
         /\ end[e].state \notin {"INIT", "RECEIVEDINITIATE"}
         /\ end[e].ids \in Nat /\ end[e].made \in Nat /\ faults \in Nat
         /\ end[e].unsent \in Nat /\ end[e].left \in Nat
         /\ Peer(e) \in Ends /\ Peer(Peer(e)) = e
         /\ end[e].live => end[e].made > 0
         /\ end[e].acked \/ ~end[e].initiator => end[e].unsent = 0
         /\ end[e].initiator = (e = "initiator")
         /\ e = "initiator" /\ end[e].state \in Together => end[e].acked
<1>1. EndOK(e, end[e]) /\ AtRest(end[e])
  BY DEF SessionInv, EndsOK
<1>2. end[e] \in EndState /\ faults \in Nat /\ Peer(e) \in Ends /\ Peer(Peer(e)) = e
  BY <1>1, SessionAssumption DEF EndOK, SessionInv, Peer, Ends
<1> QED BY <1>1, <1>2, FieldTypes DEF EndOK, AtRest

(* What a handler of a live session may do that only sends candidates and a  *)
(* terminate.                                                               *)
LEMMA LiveOutcome ==
  ASSUME SessionInv, NEW e \in Ends, NEW s, s = end[e], s.live, NEW f \in Nat, f >= faults, NEW gone,
         NEW t, Moves(s, t, {"info", "terminate"}),
         t.unsent + t.left <= s.unsent + s.left,
         t.acked \/ e = "responder" => t.unsent = 0,
         e = "initiator" /\ t.acked => end["responder"].made > 0,
         e = "initiator" /\ t.state \in Together =>
           t.acked /\ (f = 0 => \A m \in net \ gone : ~IsSet(m, {"accept", "reject"})),
         t.state \notin {"INIT", "RECEIVEDINITIATE", "DEINIT"},
         Over(s) => Over(t),
         f = 0 /\ t.error = "RESPONSE" => Ended(t) \/ Ended(end[Peer(e)]),
         \A o \in t.out : /\ o.action = "info" /\ e = "initiator" => end["responder"].made > 0
                          /\ o.action = "terminate" => Over(t)
  PROVE  Outcome(e, t, gone, f)
<1>1. /\ EndOK(e, s) /\ s \in EndState /\ s.out = {} /\ s.ids \in Nat /\ s.made \in Nat
      /\ s.made > 0 /\ faults \in Nat /\ s.unsent \in Nat /\ s.left \in Nat
      /\ s.initiator = (e = "initiator")
  BY EndFacts
<1>2. /\ t \in EndState /\ t.live /\ t.initiator = s.initiator /\ t.made = s.made /\ t.ids >= s.ids
      /\ t.ids \in Nat /\ t.unsent \in Nat /\ t.left \in Nat /\ t.tasks \subseteq Task
  BY FieldTypes DEF Moves
<1>3. \A x \in t.tasks : x.id < t.ids
  <2>1. \A x \in s.tasks : x.id < s.ids /\ x.id \in Nat
    BY <1>1, FieldTypes DEF EndOK, Task
  <2>2. \A x \in t.tasks : x \in s.tasks \/ x.id < t.ids
    BY DEF Moves
  <2> QED BY <1>1, <1>2, <2>1, <2>2
<1>4. EndOK(e, t)
  <2>1. s.unsent + s.left <= Candidates[e] /\ Candidates[e] \in Nat
    BY <1>1, SessionAssumption DEF EndOK, Ends
  <2>2. t.unsent + t.left <= Candidates[e]
    BY <1>1, <1>2, <2>1
  <2> QED BY <1>1, <1>2, <1>3, <2>2 DEF EndOK, Ends
<1>5. \A o \in t.out : o.type = "set" /\ o.action \in {"info", "terminate"} /\ o.id < t.ids
  BY <1>1 DEF Moves
<1>6. \A o \in t.out : NewOK(e, t, gone, f, o)
  <2>1. ASSUME NEW o \in t.out PROVE NewOK(e, t, gone, f, o)
    BY <1>1, <1>2, <1>5 DEF NewOK, IsSet, Ended
  <2> QED BY <2>1
<1>7. \A o \in t.out : ~IsSet(o, {"initiate"}) /\ ~IsSet(o, {"accept", "reject"})
  BY <1>5 DEF IsSet
<1>8. e = "initiator" => t.made <= 1
  BY <1>2 DEF SessionInv
<1>9. e = "responder" => /\ t.made > 0 => end["initiator"].made > 0
                         /\ t.made <= f + 1
                         /\ \A m \in net \ gone : IsSet(m, {"initiate"}) => t.made <= f
  <2>1. \A m \in net : IsSet(m, {"initiate"}) => end["responder"].made <= faults
    BY DEF SessionInv, StanzaOK
  <2> QED BY <1>1, <1>2, <2>1 DEF SessionInv
<1>10. Ended(s) => Ended(t)
  BY <1>2 DEF Ended
<1> QED BY <1>1, <1>2, <1>4, <1>6, <1>7, <1>8, <1>9, <1>10 DEF Outcome

(* A live session that only changes its state, error, timer and messages.    *)
LEMMA QuietOutcome ==
  ASSUME SessionInv, NEW e \in Ends, NEW s, s = end[e], s.live, NEW f \in Nat, f >= faults, NEW gone,
         NEW t, Quiet(s, t),
         t.state \notin {"INIT", "RECEIVEDINITIATE", "DEINIT"},
         t.state \in Together => s.state \in Together,
         Over(s) => Over(t),
         f = 0 /\ t.error = "RESPONSE" => s.error = "RESPONSE" \/ SomeEnded
  PROVE  Outcome(e, t, gone, f)
<1>1. /\ s \in EndState /\ s.out = {} /\ s.unsent \in Nat /\ s.left \in Nat
      /\ s.acked \/ ~s.initiator => s.unsent = 0
      /\ e = "initiator" /\ s.state \in Together => s.acked
      /\ s.initiator = (e = "initiator") /\ faults \in Nat
      /\ \A d \in Ends : d = e \/ d = Peer(e)
  BY EndFacts DEF Ends, Peer
<1>2. Moves(s, t, {"info", "terminate"})
  BY <1>1, QuietMoves
<1>3. /\ t.unsent = s.unsent /\ t.left = s.left /\ t.acked = s.acked /\ t.out = {} /\ t.made = s.made
  BY <1>1 DEF Quiet
<1>4. f = 0 /\ t.error = "RESPONSE" => Ended(t) \/ Ended(end[Peer(e)])
  <2>1. f = 0 /\ t.error = "RESPONSE" => SomeEnded
    BY <1>1 DEF SessionInv
  <2>2. Ended(s) => Ended(t)
    BY <1>3 DEF Ended
  <2> QED BY <1>1, <2>1, <2>2 DEF SomeEnded
<1>5. f = 0 /\ e = "initiator" /\ t.state \in Together => \A m \in net \ gone : ~IsSet(m, {"accept", "reject"})
  BY <1>1 DEF SessionInv, FaultlessOK
<1>6. e = "initiator" /\ t.acked => end["responder"].made > 0
  BY <1>3 DEF SessionInv
<1>7. t.acked \/ e = "responder" => t.unsent = 0
  BY <1>1, <1>3
<1>8. e = "initiator" /\ t.state \in Together => t.acked
  BY <1>1, <1>3
<1>9. t.unsent + t.left <= s.unsent + s.left
  BY <1>1, <1>3
<1> HIDE DEF Together
<1> QED BY <1>2, <1>3, <1>4, <1>5, <1>6, <1>7, <1>8, <1>9, LiveOutcome

(* Terminate, from any state of a live session and whatever is destroyed     *)
(* before it.                                                               *)
LEMMA TerminateOutcome ==
  ASSUME SessionInv, NEW e \in Ends, NEW s, s = end[e], s.live,
         NEW u, Quiet(s, u), u.error = s.error, NEW t, t = Terminate(u)
  PROVE  Outcome(e, t, {}, faults)
<1>1. /\ s \in EndState /\ s.out = {} /\ s.unsent \in Nat /\ s.left \in Nat /\ s.made > 0
      /\ s.acked \/ ~s.initiator => s.unsent = 0
      /\ s.initiator = (e = "initiator") /\ faults \in Nat
      /\ \A d \in Ends : d = e \/ d = Peer(e)
  BY EndFacts DEF Ends, Peer
<1>2. u \in EndState
  BY DEF Quiet
<1>3. /\ Moves(u, t, {"terminate"}) /\ t.acked = u.acked /\ t.unsent = u.unsent /\ t.left = u.left
      /\ t.state \in {"SENTTERMINATE", "RECEIVEDTERMINATE"} /\ t.error = u.error
  BY <1>2, TerminateFacts
<1>4. Moves(u, t, {"info", "terminate"})
  BY <1>3 DEF Moves
<1>5. Moves(s, t, {"info", "terminate"})
  BY <1>1, <1>4, QuietMoves, MovesTransitive
<1>6. t.acked = s.acked /\ t.unsent = s.unsent /\ t.left = s.left /\ t.error = s.error /\ t.made = s.made
  BY <1>3 DEF Quiet, Moves
<1>7. \A o \in t.out : o.action = "terminate"
  BY <1>1, <1>3 DEF Moves, Quiet
<1>8. Over(t) /\ Ended(t) /\ t.state \notin Together /\ t.state \notin {"INIT", "RECEIVEDINITIATE", "DEINIT"}
  BY <1>1, <1>3, <1>6 DEF Over, Ended, Ending, Together
<1>9. e = "initiator" /\ t.acked => end["responder"].made > 0
  BY <1>6 DEF SessionInv
<1>10. t.unsent + t.left <= s.unsent + s.left /\ (t.acked \/ e = "responder" => t.unsent = 0)
  <2>1. t.unsent + t.left <= s.unsent + s.left
    BY <1>1, <1>6
  <2>2. e = "responder" => ~s.initiator
    BY <1>1
  <2> QED BY <1>1, <1>6, <2>1, <2>2
<1>11. faults >= faults
  BY <1>1
<1> QED BY <1>1, <1>5, <1>7, <1>8, <1>9, <1>10, <1>11, LiveOutcome

(* Candidates are ready.                                                    *)
LEMMA GatherStep ==
  ASSUME SessionInv, NEW e \in Ends, Gather(e)
  PROVE  SessionInv'
<1> DEFINE s == end[e]
           t == CandidatesReady(s)
<1>1. s.live /\ s.left > 0 /\ Become(e, t, {}) /\ faults' = faults
  BY DEF Gather
<1>2. /\ s \in EndState /\ s.out = {} /\ s.unsent \in Nat /\ s.left \in Nat
      /\ s.state \notin {"INIT", "RECEIVEDINITIATE"} /\ EndOK(e, s)
      /\ s.acked \/ ~s.initiator => s.unsent = 0
      /\ e = "initiator" /\ s.state \in Together => s.acked
      /\ s.initiator = (e = "initiator") /\ faults \in Nat /\ faults >= faults
      /\ \A d \in Ends : d = e \/ d = Peer(e)
  BY EndFacts DEF Ends, Peer
<1>3. /\ Moves(s, t, {"info"}) /\ t.acked = s.acked /\ t.state = s.state /\ t.error = s.error
      /\ t.unsent + t.left <= s.unsent + s.left
      /\ t.unsent # s.unsent => s.initiator /\ ~s.acked
      /\ t.out # s.out => s.acked \/ ~s.initiator
  BY <1>1, <1>2, CandidatesReadyFacts
<1> HIDE DEF t
<1>4. Moves(s, t, {"info", "terminate"}) /\ t.made = s.made
  BY <1>3 DEF Moves
<1>5. \A o \in t.out : o.action = "info" /\ (e = "initiator" => end["responder"].made > 0)
  BY <1>2, <1>3 DEF Moves, SessionInv
<1>6. faults = 0 /\ t.error = "RESPONSE" => Ended(t) \/ Ended(end[Peer(e)])
  BY <1>2, <1>3, <1>4 DEF SessionInv, SomeEnded, Ended, Over
<1>7. faults = 0 /\ e = "initiator" /\ t.state \in Together
        => \A m \in net \ {} : ~IsSet(m, {"accept", "reject"})
  BY <1>3 DEF SessionInv, FaultlessOK
<1>8. t.state \notin {"INIT", "RECEIVEDINITIATE", "DEINIT"}
  BY <1>1, <1>2, <1>3 DEF EndOK
<1>9. Over(s) => Over(t)
  BY <1>3 DEF Over
<1>10. e = "initiator" /\ t.acked => end["responder"].made > 0
  BY <1>3 DEF SessionInv
<1>11. (t.acked \/ e = "responder" => t.unsent = 0) /\ (e = "initiator" /\ t.state \in Together => t.acked)
  BY <1>2, <1>3
<1>12. Outcome(e, t, {}, faults)
  <2> HIDE DEF s
  <2> QED BY <1>1, <1>2, <1>3, <1>4, <1>5, <1>6, <1>7, <1>8, <1>9, <1>10, <1>11, LiveOutcome DEF s
<1>13. Outcome(e, t, {}, faults') /\ faults' \in 0..MaxFaults /\ faults' >= faults
  BY <1>1, <1>2, <1>12 DEF SessionInv
<1> QED BY <1>1, <1>13, BecomeInv

(* The thread takes a message of the session or of the transport.           *)
LEMMA DispatchStep ==
  ASSUME SessionInv, NEW e \in Ends, Dispatch(e)
  PROVE  SessionInv'
<1> DEFINE s == end[e]
           u == [s EXCEPT !.q = Tail(@), !.batch = FALSE]
<1>1. PICK t : /\ Become(e, t, {}) /\ faults' = faults
               /\ t = CASE Head(s.q) = "STATE" -> HandleState(u)
                        [] Head(s.q) = "ERROR" -> Terminate(u)
                        [] Head(s.q) = "CONNECTING" -> OnTransportWritable(u)
  BY DEF Dispatch
<1>2. s.q # <<>> /\ s \in EndState /\ EndOK(e, s)
  BY EndFacts DEF Dispatch
<1>3. s.live
  BY <1>2, FieldTypes DEF EndOK
<1>4. s.q \in Seq(Posted) /\ Tail(s.q) \in Seq(Posted) /\ Head(s.q) \in Posted
  BY <1>2, FieldTypes
<1>5. Quiet(s, u) /\ u.state = s.state /\ u.error = s.error
  BY <1>2, <1>4 DEF EndState, Quiet
<1>6. u \in EndState /\ EndOK(e, u)
  <2>1. u \in EndState /\ u.live
    BY <1>3, <1>5 DEF Quiet
  <2> HIDE DEF u
  <2> QED BY <1>2, <1>5, <2>1 DEF EndOK, Quiet
<1> HIDE DEF u
<1>7. /\ s.state \notin {"INIT", "RECEIVEDINITIATE", "DEINIT"} /\ faults \in Nat /\ faults >= faults
      /\ s.out = {} /\ s.made > 0 /\ s.made \in Nat
  BY <1>2, <1>3, EndFacts DEF EndOK
<1>8. faults' \in 0..MaxFaults /\ faults' >= faults
  BY <1>1, <1>7 DEF SessionInv
<1>9. \/ t = Terminate(u)
      \/ t = OnTransportWritable(u)
      \/ t = SetState(u, "INPROGRESS") /\ s.state \in {"SENTACCEPT", "RECEIVEDACCEPT"}
      \/ t = DestroySession(u)
      \/ t = u
  <2>1. \/ t = HandleState(u)
        \/ t = Terminate(u)
        \/ t = OnTransportWritable(u)
    BY <1>1, <1>4 DEF Posted
  <2> QED BY <1>5, <2>1 DEF HandleState
<1>10. CASE t = Terminate(u)
  <2>1. Outcome(e, t, {}, faults)
    BY <1>3, <1>5, <1>10, TerminateOutcome
  <2> QED BY <1>1, <1>8, <2>1, BecomeInv
<1>11. ASSUME Quiet(u, t), t.error = u.error, t.state \notin {"INIT", "RECEIVEDINITIATE", "DEINIT"},
              t.state \in Together => s.state \in Together, Over(s) => Over(t)
       PROVE  SessionInv'
  <2>1. Quiet(s, t) /\ t.error = s.error
    BY <1>5, <1>11 DEF Quiet
  <2>2. Outcome(e, t, {}, faults)
    BY <1>3, <1>7, <1>11, <2>1, QuietOutcome
  <2> QED BY <1>1, <1>8, <2>2, BecomeInv
<1>12. CASE t = OnTransportWritable(u)
  <2>1. Quiet(u, t) /\ t.state = u.state /\ t.error = u.error
    BY <1>6, <1>12, OnTransportWritableFacts
  <2> QED BY <1>5, <1>7, <1>11, <2>1 DEF Over
<1>13. CASE t = u
  BY <1>5, <1>6, <1>7, <1>11, <1>13 DEF Over, Quiet
<1>14. CASE t = SetState(u, "INPROGRESS") /\ s.state \in {"SENTACCEPT", "RECEIVEDACCEPT"}
  <2>1. "INPROGRESS" \in States
    BY DEF States
  <2>2. Quiet(u, t) /\ t.state = "INPROGRESS" /\ t.error = u.error
    BY <1>6, <1>14, <2>1, SetStateFacts
  <2>3. ~Over(s) /\ s.state \in Together
    BY <1>14 DEF Over, Ending, Together
  <2> QED BY <1>11, <2>2, <2>3
<1>15. CASE t = DestroySession(u)
  <2>1. /\ EndOK(e, t) /\ t.state = "DEINIT" /\ t.error = "NONE" /\ ~t.acked
        /\ t.tasks = u.tasks /\ t.ids = u.ids /\ t.made = u.made /\ t.out = u.out
    BY <1>6, <1>15, DestroySessionFacts
  <2>2. t.ids = s.ids /\ t.made = s.made /\ t.out = {} /\ s.ids \in Nat
    BY <1>2, <1>5, <1>7, <2>1, FieldTypes DEF Quiet
  <2>3. Ended(t) /\ t.state \notin Together
    BY <1>7, <2>1, <2>2 DEF Ended, Over, Together
  <2>4. \A m \in net : IsSet(m, {"initiate"}) => end["responder"].made <= faults
    BY DEF SessionInv, StanzaOK
  <2>5. Outcome(e, t, {}, faults)
    BY <1>7, <2>1, <2>2, <2>3, <2>4 DEF Outcome, SessionInv
  <2> QED BY <1>1, <1>8, <2>5, BecomeInv
<1> QED BY <1>9, <1>10, <1>12, <1>13, <1>14, <1>15

(* The timer and the channel.                                               *)
LEMMA TransportStep ==
  ASSUME SessionInv, NEW e \in Ends,
         \/ Timeout(e) \/ ChannelUp(e) \/ ChannelClosed(e)
         \/ \E peerGone \in BOOLEAN : ChannelDown(e, peerGone)
  PROVE  SessionInv'
<1> DEFINE s == end[e]
<1>1. /\ s \in EndState /\ EndOK(e, s) /\ faults \in Nat /\ faults >= faults
      /\ s.state \notin {"INIT", "RECEIVEDINITIATE"}
  BY EndFacts
<1>2. s.live
  BY <1>1, FieldTypes DEF EndOK, Timeout, ChannelUp, ChannelDown, ChannelClosed, Connects
<1>3. s.state \notin {"INIT", "RECEIVEDINITIATE", "DEINIT"}
  BY <1>1, <1>2 DEF EndOK
<1>4. ASSUME NEW t, Quiet(s, t), t.state = s.state, t.error = s.error \/ t.error = "TIME",
             NEW f \in Nat, f >= faults
      PROVE  Outcome(e, t, {}, f)
  BY <1>2, <1>3, <1>4, QuietOutcome DEF Over
<1>5. CASE Timeout(e)
  <2> DEFINE u == [s EXCEPT !.timer = FALSE, !.batch = FALSE]
             t == SetError(u, "TIME")
  <2>1. Quiet(s, u) /\ u \in EndState /\ u.state = s.state
    BY <1>1 DEF EndState, Quiet
  <2>2. Become(e, t, {}) /\ faults' = faults
    BY <1>5 DEF Timeout
  <2> HIDE DEF u
  <2>3. Quiet(u, t) /\ t.state = u.state /\ t.error = "TIME"
    BY <2>1, SetErrorFacts
  <2>4. Outcome(e, t, {}, faults)
    BY <1>1, <1>4, <2>1, <2>3 DEF Quiet
  <2> QED BY <1>1, <2>2, <2>4, BecomeInv DEF SessionInv
<1>6. ASSUME NEW now \in BOOLEAN, Become(e, HandleWriteState(s, now), {}),
             faults' \in 0..MaxFaults, faults' \in Nat, faults' >= faults
      PROVE  SessionInv'
  <2> DEFINE u == [s EXCEPT !.writable = now]
             t == HandleWriteState(s, now)
  <2>1. Quiet(s, u) /\ u \in EndState /\ u.state = s.state /\ u.error = s.error
    BY <1>1 DEF EndState, Quiet
  <2>2. t = s \/ t = OnTransportWritable(u)
    BY DEF HandleWriteState
  <2> HIDE DEF u
  <2>3. Quiet(s, t) /\ t.state = s.state /\ t.error = s.error
    <3>1. CASE t = s
      BY <1>1, <3>1 DEF Quiet
    <3>2. CASE t = OnTransportWritable(u)
      <4>1. Quiet(u, t) /\ t.state = u.state /\ t.error = u.error
        BY <2>1, <3>2, OnTransportWritableFacts
      <4> QED BY <2>1, <4>1 DEF Quiet
    <3> QED BY <2>2, <3>1, <3>2
  <2> HIDE DEF t
  <2>4. Outcome(e, t, {}, faults')
    BY <1>4, <1>6, <2>3
  <2> QED BY <1>6, <2>4, BecomeInv DEF t
<1>7. CASE ChannelUp(e)
  BY <1>1, <1>6, <1>7 DEF ChannelUp, SessionInv
<1>8. ASSUME NEW peerGone \in BOOLEAN, ChannelDown(e, peerGone) PROVE SessionInv'
  <2>1. Become(e, HandleWriteState(s, FALSE), {}) /\ FALSE \in BOOLEAN
    BY <1>8 DEF ChannelDown
  <2>2. \E n \in {0, 1} : Fault(n)
    BY <1>8 DEF ChannelDown
  <2>3. faults' \in 0..MaxFaults /\ faults' \in Nat /\ faults' >= faults
    BY <1>1, <2>2, SessionAssumption DEF Fault
  <2> QED BY <1>6, <2>1, <2>3
<1>9. CASE ChannelClosed(e)
  <2> DEFINE u == [s EXCEPT !.chan = FALSE, !.writable = FALSE, !.timer = FALSE]
  <2>1. Quiet(s, u) /\ u.error = s.error
    BY <1>1 DEF EndState, Quiet
  <2>2. Become(e, Terminate(u), {}) /\ faults' = faults
    BY <1>9 DEF ChannelClosed
  <2> HIDE DEF u
  <2>3. Outcome(e, Terminate(u), {}, faults)
    BY <1>2, <2>1, TerminateOutcome
  <2> QED BY <1>1, <2>2, <2>3, BecomeInv DEF SessionInv
<1> QED BY <1>5, <1>7, <1>8, <1>9

(* The tunnel is created.                                                   *)
LEMMA InitiateStep ==
  ASSUME SessionInv, Initiate
  PROVE  SessionInv'
<1> DEFINE e == "initiator"
           s == end[e]
<1>1. PICK early \in ChannelFirst :
        LET new == NewSession(e, early, s.tasks, s.ids, 1) IN
        Become(e, SetState(ConnectChannels(SendMessage(new, "initiate")), "SENTINITIATE"), {})
  BY DEF Initiate
<1> DEFINE n == NewSession(e, early, s.tasks, s.ids, 1)
           u == SendMessage(n, "initiate")
           v == ConnectChannels(u)
           t == SetState(v, "SENTINITIATE")
<1>2. /\ s.made = 0 /\ faults' = faults /\ early \in BOOLEAN /\ e \in Ends
      /\ "SENTINITIATE" \in States /\ "initiate" \in Actions
  BY SessionAssumption DEF Initiate, Ends, States, Actions
<1>3. /\ s \in EndState /\ EndOK(e, s) /\ s.ids \in Nat /\ s.tasks \in SUBSET Task /\ faults \in Nat
  BY <1>2, EndFacts, FieldTypes
<1>4. /\ n \in EndState
      /\ n.live /\ n.state = "INIT" /\ n.error = "NONE" /\ n.initiator = (e = "initiator")
      /\ ~n.acked /\ n.unsent = 0 /\ n.left = Candidates[e] /\ n.left \in Nat
      /\ n.tasks = s.tasks /\ n.ids = s.ids /\ n.made = 1 /\ n.out = {}
  <2>1. /\ Candidates[e] \in Nat /\ <<>> \in Seq(Posted) /\ "INIT" \in States
        /\ {} \in SUBSET Written /\ 1 \in Nat
    BY SessionAssumption DEF States
  <2> QED BY <1>2, <1>3, <2>1 DEF NewSession, EndState
<1> HIDE DEF n
<1>5. Sends(n, u, "initiate") /\ u.error = n.error
  BY <1>2, <1>4, SendMessageFacts
<1>6. u \in EndState
  BY <1>5 DEF Sends
<1> HIDE DEF u
<1>7. Quiet(u, v) /\ v.error = u.error
  BY <1>6, ConnectChannelsFacts
<1>8. v \in EndState
  BY <1>7 DEF Quiet
<1> HIDE DEF v
<1>9. Quiet(v, t) /\ t.state = "SENTINITIATE" /\ t.error = v.error
  BY <1>2, <1>8, SetStateFacts
<1>10. Become(e, t, {})
  BY <1>1 DEF n, u, v
<1> HIDE DEF t
<1>11. /\ t \in EndState /\ t.live /\ t.error = "NONE" /\ t.initiator /\ ~t.acked
       /\ t.unsent = 0 /\ t.left = Candidates[e] /\ t.made = 1 /\ t.ids = s.ids + 1
       /\ t.tasks = s.tasks \cup {[action |-> "initiate", id |-> s.ids]}
       /\ t.out = {[action |-> "initiate", id |-> s.ids, type |-> "set"]}
  <2>1. n.initiator /\ n.live
    BY <1>4
  <2>2. /\ t \in EndState /\ t.live = n.live /\ t.error = n.error /\ t.initiator = n.initiator
        /\ t.acked = n.acked /\ t.unsent = n.unsent /\ t.left = n.left /\ t.made = n.made
        /\ t.ids = n.ids + 1
        /\ t.tasks = n.tasks \cup {[action |-> "initiate", id |-> n.ids]}
        /\ t.out = n.out \cup {[action |-> "initiate", id |-> n.ids, type |-> "set"]}
    BY <1>5, <1>7, <1>9 DEF Sends, Quiet
  <2> QED BY <1>4, <2>1, <2>2
<1>12. \A x \in s.tasks : x.id < s.ids /\ x.id \in Nat
  BY <1>3 DEF EndOK, Task
<1>13. \A x \in t.tasks : x.id < t.ids
  BY <1>3, <1>11, <1>12
<1>14. EndOK(e, t)
  <2>1. t.unsent + t.left <= Candidates[e]
    BY <1>4, <1>11
  <2>2. t.state \notin Together /\ t.state # "DEINIT" /\ t.initiator = (e = "initiator")
    BY <1>9, <1>11, FieldTypes DEF Together
  <2>3. t.made > 0
    BY <1>11
  <2> QED BY <1>11, <1>13, <2>1, <2>2, <2>3 DEF EndOK
<1>15. \A o \in t.out : NewOK(e, t, {}, faults, o)
  BY <1>2, <1>3, <1>11 DEF NewOK, IsSet
<1>16. t.state \notin Together \cup {"INIT", "RECEIVEDINITIATE"} /\ ~Ended(s)
  BY <1>2, <1>9 DEF Together, Ended
<1>17. Outcome(e, t, {}, faults)
  <2>1. t.ids >= s.ids /\ t.made >= s.made /\ t.made <= 1 /\ t.error # "RESPONSE"
    BY <1>2, <1>3, <1>11
  <2>2. \A o1, o2 \in t.out : o1 = o2
    BY <1>11
  <2> QED BY <1>11, <1>14, <1>15, <1>16, <2>1, <2>2 DEF Outcome
<1> QED BY <1>2, <1>3, <1>10, <1>17, BecomeInv DEF SessionInv

(* A stanza is lost.                                                        *)
LEMMA LoseStep ==
  ASSUME SessionInv, Lose
  PROVE  SessionInv'
<1>1. faults \in Nat /\ faults' = faults + 1 /\ faults' \in 0..MaxFaults /\ net' \subseteq net /\ end' = end
  BY SessionAssumption DEF Lose, Fault, SessionInv
<1>2. EndsOK'
  BY <1>1 DEF SessionInv, EndsOK, EndOK, AtRest
<1>3. end["responder"].made \in Nat
  BY EndFacts DEF Ends
<1>4. ASSUME NEW m \in net' PROVE StanzaOK(m)'
  <2>1. StanzaOK(m)
    BY <1>1, <1>4 DEF SessionInv
  <2> QED BY <1>1, <1>3, <2>1 DEF StanzaOK
<1>5. SameMessage({"initiate"})'
  BY <1>1 DEF SessionInv, SameMessage
<1>6. end["responder"].made <= faults' + 1 /\ faults' # 0
  BY <1>1, <1>3 DEF SessionInv
<1> QED BY <1>1, <1>2, <1>4, <1>5, <1>6 DEF SessionInv

(* The answer to a request that goes back with the rest.                    *)
LEMMA AnswerOutcome ==
  ASSUME NEW e \in Ends, NEW u, NEW gone, NEW f, Outcome(e, u, gone, f), NEW m \in Stanza,
         NEW ty \in {"result", "error"}, NEW t, t = SendAnswer(u, m, ty),
         m.id < end[Peer(e)].ids,
         ty = "result" => u.made > 0,
         f = 0 /\ ty = "error" => Ended(u) \/ Ended(end[Peer(e)])
  PROVE  Outcome(e, t, gone, f)
<1> DEFINE a == [action |-> m.action, id |-> m.id, type |-> ty]
<1>1. u \in EndState /\ EndOK(e, u) /\ ty \in Types
  BY DEF Outcome, EndOK, Types
<1>2. /\ t \in EndState
      /\ t.live = u.live /\ t.initiator = u.initiator /\ t.made = u.made
      /\ t.acked = u.acked /\ t.unsent = u.unsent /\ t.left = u.left
      /\ t.tasks = u.tasks /\ t.ids = u.ids /\ t.state = u.state /\ t.error = u.error
      /\ t.q = u.q /\ t.timer = u.timer /\ t.chan = u.chan
      /\ t.connecting = u.connecting /\ t.writable = u.writable
      /\ t.out = u.out \cup {a}
  BY <1>1, SendAnswerFacts
<1>3. EndOK(e, t)
  BY <1>1, <1>2 DEF EndOK
<1>4. Ended(u) <=> Ended(t)
  BY <1>2 DEF Ended, Over
<1>5. NewOK(e, t, gone, f, a) /\ ~IsSet(a, {"initiate"}) /\ ~IsSet(a, {"accept", "reject"})
  BY <1>2, <1>4 DEF NewOK, IsSet
<1>6. \A o \in u.out : NewOK(e, t, gone, f, o)
  BY <1>2, <1>4 DEF Outcome, NewOK
<1> HIDE DEF a
<1>7. \A o \in t.out : NewOK(e, t, gone, f, o)
  BY <1>2, <1>5, <1>6
<1>8. \A o \in t.out : o \in u.out \/ (~IsSet(o, {"initiate"}) /\ ~IsSet(o, {"accept", "reject"}))
  BY <1>2, <1>5
<1> QED BY <1>2, <1>3, <1>4, <1>7, <1>8 DEF Outcome

(* What Receive has in hand: the end m is for, with a stanza that obeys      *)
(* StanzaOK, and a stanza that stays only at the price of a fault.           *)
Arrives(m, e, s, gone, f) ==
  /\ m \in net /\ e = m.to /\ s = [end[e] EXCEPT !.batch = TRUE]
  /\ f \in Nat /\ f >= faults
  /\ gone = {m} \/ (gone = {} /\ f > faults)

(* What the invariant says of the stanza and of the end it reaches.         *)
LEMMA ArrivesFacts ==
  ASSUME SessionInv, NEW m, NEW e, NEW s, NEW gone, NEW f, Arrives(m, e, s, gone, f)
  PROVE  /\ e \in Ends /\ m \in Stanza /\ StanzaOK(m) /\ m.to = e
         /\ Quiet(end[e], s) /\ s.state = end[e].state /\ s.error = end[e].error
         /\ s \in EndState /\ EndOK(e, s) /\ s.out = {}
         /\ s.state \notin {"INIT", "RECEIVEDINITIATE"}
         /\ f = 0 => FaultlessOK(m) /\ gone = {m} /\ faults = 0
         /\ m.type = "set" => m.id < end[Peer(e)].ids
<1>1. m \in Stanza /\ StanzaOK(m) /\ e \in Ends /\ m.to = e
  BY DEF Arrives, SessionInv, StanzaOK, Stanza
<1>2. end[e] \in EndState /\ EndOK(e, end[e]) /\ end[e].out = {} /\ faults \in Nat
      /\ end[e].state \notin {"INIT", "RECEIVEDINITIATE"}
  BY <1>1, EndFacts
<1>3. /\ Quiet(end[e], s) /\ s.state = end[e].state /\ s.error = end[e].error /\ s \in EndState
      /\ s.q = end[e].q /\ s.timer = end[e].timer /\ s.chan = end[e].chan
      /\ s.connecting = end[e].connecting /\ s.writable = end[e].writable
  BY <1>2 DEF Arrives, EndState, Quiet
<1>4. EndOK(e, s) /\ s.out = {}
  BY <1>2, <1>3 DEF EndOK, Quiet
<1>5. f = 0 => faults = 0 /\ gone = {m}
  BY <1>2 DEF Arrives
<1>6. f = 0 => FaultlessOK(m)
  BY <1>5 DEF Arrives, SessionInv
<1>7. m.type = "set" => m.id < end[Peer(e)].ids
  BY <1>1 DEF StanzaOK
<1> QED BY <1>1, <1>2, <1>3, <1>4, <1>5, <1>6, <1>7

(* An end that stays as it is: it refuses the stanza, or answers nothing.    *)
LEMMA StaysOutcome ==
  ASSUME SessionInv, NEW m, NEW e, NEW s, NEW gone, NEW f, Arrives(m, e, s, gone, f),
         NEW t, EndOK(e, t), t.state = s.state, t.error = s.error, t.ids = s.ids, t.made = s.made,
         t.acked = s.acked, t.out = {}
  PROVE  Outcome(e, t, gone, f)
<1>1. /\ e \in Ends /\ Quiet(end[e], s) /\ s.state = end[e].state /\ s.error = end[e].error
      /\ s.state \notin {"INIT", "RECEIVEDINITIATE"} /\ (f = 0 => faults = 0)
  BY ArrivesFacts
<1>2. /\ end[e].ids \in Nat /\ end[e].made \in Nat /\ faults \in Nat
      /\ \A d \in Ends : d = e \/ d = Peer(e)
  BY <1>1, EndFacts DEF Ends, Peer
<1>3. t.ids = end[e].ids /\ t.made = end[e].made /\ t.acked = end[e].acked
  BY <1>1 DEF Quiet
<1>4. Ended(end[e]) <=> Ended(t)
  BY <1>1, <1>3 DEF Ended, Over
<1>5. f = 0 /\ t.error = "RESPONSE" => Ended(t) \/ Ended(end[Peer(e)])
  BY <1>1, <1>2, <1>4 DEF SessionInv, SomeEnded
<1>6. f = 0 /\ e = "initiator" /\ t.state \in Together => \A n \in net \ gone : ~IsSet(n, {"accept", "reject"})
  BY <1>1 DEF SessionInv, FaultlessOK
<1>7. \A n \in net : IsSet(n, {"initiate"}) => end["responder"].made <= faults
  BY DEF SessionInv, StanzaOK
<1>8. f \in Nat /\ f >= faults
  BY DEF Arrives
<1>9. e = "initiator" => t.made <= 1 /\ (t.acked => end["responder"].made > 0)
  BY <1>3 DEF SessionInv
<1>10. e = "responder" => /\ t.made > 0 => end["initiator"].made > 0
                          /\ t.made <= f + 1
                          /\ \A n \in net \ gone : IsSet(n, {"initiate"}) => t.made <= f
  BY <1>2, <1>3, <1>7, <1>8 DEF SessionInv
<1>11. t.ids >= end[e].ids /\ t.made >= end[e].made /\ t.state \notin {"INIT", "RECEIVEDINITIATE"}
  BY <1>1, <1>2, <1>3
<1> QED BY <1>4, <1>5, <1>6, <1>9, <1>10, <1>11 DEF Outcome

(* The answer to a request.                                                 *)
LEMMA ResponseOutcome ==
  ASSUME SessionInv, NEW m, NEW e, NEW s, NEW gone, NEW f, Arrives(m, e, s, gone, f),
         m.type # "set", NEW late \in BOOLEAN, late => f > 0, NEW t, t = Response(s, m, late)
  PROVE  Outcome(e, t, gone, f)
<1>0. /\ e \in Ends /\ m \in Stanza /\ StanzaOK(m) /\ m.to = e
      /\ Quiet(end[e], s) /\ s.state = end[e].state /\ s.error = end[e].error
      /\ s \in EndState /\ EndOK(e, s) /\ s.out = {} /\ s.state \notin {"INIT", "RECEIVEDINITIATE"}
      /\ f = 0 => FaultlessOK(m) /\ gone = {m} /\ faults = 0
  BY ArrivesFacts
<1>1. f \in Nat /\ f >= faults
  BY DEF Arrives
<1>2. CASE ~s.live
  <2> DEFINE u == [s EXCEPT !.tasks = @ \ {[action |-> m.action, id |-> m.id]}]
  <2>1. t = s \/ t = u
    BY <1>2 DEF Response
  <2>2. s.tasks \ {[action |-> m.action, id |-> m.id]} \in SUBSET Task
    BY <1>0, FieldTypes
  <2>3. /\ u \in EndState /\ u.live = s.live /\ u.initiator = s.initiator /\ u.made = s.made
        /\ u.ids = s.ids /\ u.tasks \subseteq s.tasks /\ u.out = s.out /\ u.acked = s.acked
        /\ u.unsent = s.unsent /\ u.left = s.left /\ u.state = s.state /\ u.error = s.error
        /\ u.q = s.q /\ u.timer = s.timer /\ u.chan = s.chan
        /\ u.connecting = s.connecting /\ u.writable = s.writable
    BY <1>0, <2>2 DEF EndState
  <2> HIDE DEF u
  <2>4. EndOK(e, u)
    BY <1>0, <2>3 DEF EndOK
  <2> QED BY <1>0, <2>1, <2>3, <2>4, StaysOutcome
<1>3. CASE s.live
  <2> DEFINE c == end[e]
  <2>1. /\ c.live /\ c.acked = s.acked /\ c.unsent = s.unsent /\ c.left = s.left /\ c.made = s.made
        /\ s.initiator = (e = "initiator")
    BY <1>0, <1>3 DEF Quiet, EndOK
  <2>2. /\ s.acked \/ ~s.initiator => s.unsent = 0
        /\ e = "initiator" /\ s.state \in Together => s.acked
        /\ s.unsent \in Nat /\ s.left \in Nat /\ s.state # "DEINIT"
    BY <1>0, <1>3, FieldTypes DEF EndOK
  <2>3. /\ Moves(s, t, {"info"}) /\ t.state = s.state /\ t.left = s.left
        /\ \/ t.acked = s.acked /\ t.unsent = s.unsent /\ t.out = s.out
           \/ t.acked /\ t.unsent = 0 /\ m.type # "error"
        /\ t.error = s.error \/ m.type = "error" \/ late
    BY <1>0, <1>3, <2>2, ResponseFacts
  <2>4. Moves(c, t, {"info", "terminate"}) /\ t.made = c.made
    <3>1. Moves(s, t, {"info", "terminate"}) /\ t.made = s.made
      BY <2>3 DEF Moves
    <3>2. c \in EndState
      BY <1>0, EndFacts
    <3> QED BY <1>0, <2>1, <3>1, <3>2, QuietMoves, MovesTransitive
  <2>5. e = "initiator" /\ (t.acked \/ t.out # {}) => end["responder"].made > 0
    <3>1. e = "initiator" /\ m.type # "error" => end["responder"].made > 0
      BY <1>0 DEF StanzaOK
    <3>2. e = "initiator" /\ c.acked => end["responder"].made > 0
      BY DEF SessionInv
    <3> QED BY <1>0, <2>1, <2>3, <3>1, <3>2
  <2>6. t.unsent + t.left <= c.unsent + c.left /\ (t.acked \/ e = "responder" => t.unsent = 0)
    <3>1. t.unsent = 0 \/ t.unsent = s.unsent
      BY <2>3
    <3>2. t.unsent + t.left <= c.unsent + c.left
      BY <2>1, <2>2, <2>3, <3>1
    <3>3. e = "responder" => ~s.initiator
      BY <2>1
    <3> QED BY <2>2, <2>3, <3>2, <3>3
  <2>7. e = "initiator" /\ t.state \in Together =>
           t.acked /\ (f = 0 => \A n \in net \ gone : ~IsSet(n, {"accept", "reject"}))
    <3>1. e = "initiator" /\ t.state \in Together => t.acked
      BY <2>2, <2>3
    <3>2. f = 0 /\ e = "initiator" /\ t.state \in Together => \A n \in net : ~IsSet(n, {"accept", "reject"})
      BY <1>0, <2>3 DEF SessionInv, FaultlessOK
    <3> QED BY <3>1, <3>2
  <2>8. f = 0 /\ t.error = "RESPONSE" => Ended(t) \/ Ended(end[Peer(e)])
    <3>1. f = 0 /\ t.error = "RESPONSE" => SomeEnded
      BY <1>0, <2>3 DEF SessionInv, FaultlessOK
    <3>2. Ended(c) => Ended(t)
      BY <1>0, <2>3, <2>4 DEF Ended, Over
    <3>3. \A d \in Ends : d = e \/ d = Peer(e)
      BY <1>0 DEF Ends, Peer
    <3> QED BY <3>1, <3>2, <3>3 DEF SomeEnded
  <2>9. \A o \in t.out : o.action = "info"
    BY <1>0, <2>3 DEF Moves
  <2>10. Over(c) => Over(t)
    BY <1>0, <2>3 DEF Over
  <2>11. t.state \notin {"INIT", "RECEIVEDINITIATE", "DEINIT"}
    BY <1>0, <2>2, <2>3
  <2> HIDE DEF c
  <2>12. \A o \in t.out : /\ o.action = "info" /\ e = "initiator" => end["responder"].made > 0
                          /\ o.action = "terminate" => Over(t)
    BY <2>5, <2>9
  <2> QED BY <1>0, <1>1, <2>1, <2>4, <2>5, <2>6, <2>7, <2>8, <2>10, <2>11, <2>12, LiveOutcome DEF c
<1> QED BY <1>2, <1>3

(* A request for a session that is there.                                   *)
LEMMA RequestOutcome ==
  ASSUME SessionInv, NEW m, NEW e, NEW s, NEW gone, NEW f, Arrives(m, e, s, gone, f),
         m.type = "set", s.live, NEW accept \in BOOLEAN, NEW t, t = OnIncomingMessage(s, m, accept)
  PROVE  Outcome(e, t, gone, f)
<1> DEFINE c == end[e]
<1>0. /\ e \in Ends /\ m \in Stanza /\ StanzaOK(m) /\ m.to = e
      /\ Quiet(c, s) /\ s.state = c.state /\ s.error = c.error
      /\ s \in EndState /\ EndOK(e, s) /\ s.out = {} /\ s.state \notin {"INIT", "RECEIVEDINITIATE"}
      /\ f = 0 => FaultlessOK(m) /\ gone = {m} /\ faults = 0
      /\ m.id < end[Peer(e)].ids
  BY ArrivesFacts
<1>1. f \in Nat /\ f >= faults /\ m \in net
  BY DEF Arrives
<1>2. /\ c.live /\ c.acked = s.acked /\ c.unsent = s.unsent /\ c.left = s.left /\ c.made = s.made
      /\ c \in EndState /\ s.initiator = (e = "initiator") /\ s.made > 0 /\ s.made \in Nat
      /\ s.state # "DEINIT"
  BY <1>0, EndFacts, FieldTypes DEF Quiet, EndOK
<1>3. Outcome(e, s, gone, f)
  BY <1>0, StaysOutcome
<1>4. CASE ~Allowed(s, m.action)
  <2>1. t = SendAnswer(s, m, "error")
    BY <1>4 DEF OnIncomingMessage
  <2>2. IsSet(m, {"initiate"}) \/ IsSet(m, {"accept", "reject"})
    BY <1>0, <1>4 DEF Allowed, IsSet, Stanza, Actions
  <2>3. ASSUME f = 0 PROVE Ended(s)
    <3>1. CASE IsSet(m, {"initiate"})
      BY <1>0, <1>2, <2>3, <3>1 DEF StanzaOK
    <3>2. CASE IsSet(m, {"accept", "reject"})
      <4>1. e = "initiator" /\ s.state \notin Together /\ s.state # "SENTINITIATE"
        BY <1>0, <1>4, <2>3, <3>2 DEF StanzaOK, FaultlessOK, Allowed, IsSet
      <4>2. s.state \in States
        BY <1>0, FieldTypes
      <4>3. s.state \in Ending
        BY <1>0, <1>2, <4>1, <4>2 DEF States, Together, Ending
      <4> QED BY <1>2, <4>3 DEF Ended, Over
    <3> QED BY <2>2, <3>1, <3>2
  <2> QED BY <1>0, <1>3, <2>1, <2>3, AnswerOutcome
<1>5. CASE Allowed(s, m.action)
  <2> DEFINE u == OnMessageOf(s, m.action, accept)
  <2>1. t = SendAnswer(u, m, "result")
    BY <1>5 DEF OnIncomingMessage
  <2>2. ASSUME Outcome(e, u, gone, f), u.made > 0 PROVE Outcome(e, t, gone, f)
    <3> HIDE DEF u
    <3> QED BY <1>0, <2>1, <2>2, AnswerOutcome
  <2>3. m.action \in {"accept", "reject", "terminate", "info"}
    BY <1>0, <1>5 DEF Allowed, Stanza, Actions
  <2>4. ASSUME Quiet(s, u), u.error = s.error, u.state \notin {"INIT", "RECEIVEDINITIATE", "DEINIT"},
               u.state \in Together => s.state \in Together, Over(s) => Over(u)
        PROVE  Outcome(e, t, gone, f)
    <3> HIDE DEF u
    <3>1. Quiet(c, u) /\ u.made > 0
      BY <1>0, <1>2, <2>4 DEF Quiet
    <3>2. Over(c) => Over(u)
      BY <1>0, <2>4 DEF Over
    <3>3. Outcome(e, u, gone, f)
      BY <1>0, <1>1, <1>2, <2>4, <3>1, <3>2, QuietOutcome
    <3> QED BY <2>2, <3>1, <3>3
  <2>5. CASE m.action = "info"
    <3>1. u = ConnectChannels(s)
      BY <2>5 DEF OnMessageOf
    <3> HIDE DEF u
    <3>2. Quiet(s, u) /\ u.state = s.state /\ u.error = s.error
      BY <1>0, <3>1, ConnectChannelsFacts
    <3> QED BY <1>0, <1>2, <2>4, <3>2 DEF Over
  <2>6. CASE m.action \in {"reject", "terminate"}
    <3> DEFINE st == IF m.action = "reject" THEN "RECEIVEDREJECT" ELSE "RECEIVEDTERMINATE"
    <3>1. u = SetState(s, st) /\ st \in States /\ st \in Ending
      BY <2>6 DEF OnMessageOf, States, Ending
    <3> HIDE DEF u, st
    <3>2. Quiet(s, u) /\ u.state = st /\ u.error = s.error
      BY <1>0, <3>1, SetStateFacts
    <3>3. st \notin Together /\ st \notin {"INIT", "RECEIVEDINITIATE", "DEINIT"} /\ Over(u)
      BY <3>1, <3>2 DEF Ending, Together, Over
    <3> QED BY <2>4, <3>2, <3>3
  <2>7. CASE m.action = "accept"
    <3>1. u = OnAcceptMessage(s)
      BY <2>7 DEF OnMessageOf
    <3>2. /\ s.acked \/ ~s.initiator => s.unsent = 0
          /\ s.unsent \in Nat /\ s.left \in Nat
      BY <1>0, FieldTypes DEF EndOK
    <3> HIDE DEF u
    <3>3. /\ Moves(s, u, {"info"}) /\ u.acked /\ u.unsent = 0 /\ u.left = s.left
          /\ u.state = "RECEIVEDACCEPT" /\ u.error = s.error
      BY <1>0, <3>1, <3>2, OnAcceptMessageFacts
    <3>4. e = "initiator" /\ end["responder"].made > 0
      BY <1>0, <2>7 DEF StanzaOK, IsSet
    <3>5. Moves(c, u, {"info", "terminate"}) /\ u.made = c.made
      <4>1. Moves(s, u, {"info", "terminate"}) /\ u.made = s.made
        BY <3>3 DEF Moves
      <4> QED BY <1>0, <1>2, <4>1, QuietMoves, MovesTransitive
    <3>6. f = 0 => \A n \in net \ gone : ~IsSet(n, {"accept", "reject"})
      BY <1>0, <1>1, <2>7 DEF SessionInv, SameMessage, IsSet
    <3>7. s.state = "SENTINITIATE" /\ ~Over(c)
      BY <1>0, <1>5, <2>7 DEF Allowed, Over, Ending
    <3>8. f = 0 /\ u.error = "RESPONSE" => Ended(u) \/ Ended(end[Peer(e)])
      <4>1. \A d \in Ends : d = e \/ d = Peer(e)
        BY <1>0 DEF Ends, Peer
      <4>2. f = 0 /\ u.error = "RESPONSE" => SomeEnded
        BY <1>0, <3>3 DEF SessionInv
      <4> QED BY <3>7, <4>1, <4>2 DEF SomeEnded, Ended
    <3>9. \A o \in u.out : o.action = "info"
      BY <1>0, <3>3 DEF Moves
    <3>10. u.unsent + u.left <= c.unsent + c.left
      BY <1>2, <3>2, <3>3
    <3>11. u.state \notin {"INIT", "RECEIVEDINITIATE", "DEINIT"}
      BY <3>3
    <3> HIDE DEF c
    <3>12. Outcome(e, u, gone, f)
      BY <1>0, <1>1, <1>2, <3>3, <3>4, <3>5, <3>6, <3>7, <3>8, <3>9, <3>10, <3>11, LiveOutcome DEF c
    <3>13. u.made > 0
      BY <1>2, <3>5
    <3> QED BY <2>2, <3>12, <3>13
  <2> QED BY <2>3, <2>5, <2>6, <2>7
<1> QED BY <1>4, <1>5

(* A request that finds no session: an initiate makes one, the others are    *)
(* refused.                                                                 *)
LEMMA NoSessionOutcome ==
  ASSUME SessionInv, NEW m, NEW e, NEW s, NEW gone, NEW f, Arrives(m, e, s, gone, f),
         m.type = "set", ~s.live, NEW accept \in BOOLEAN, NEW t, t = Incoming(e, s, m, accept)
  PROVE  Outcome(e, t, gone, f)
<1> DEFINE c == end[e]
<1>0. /\ e \in Ends /\ m \in Stanza /\ StanzaOK(m) /\ m.to = e
      /\ Quiet(c, s) /\ s.state = c.state /\ s.error = c.error
      /\ s \in EndState /\ EndOK(e, s) /\ s.out = {} /\ s.state \notin {"INIT", "RECEIVEDINITIATE"}
      /\ f = 0 => FaultlessOK(m) /\ gone = {m} /\ faults = 0
      /\ m.id < end[Peer(e)].ids
  BY ArrivesFacts
<1>1. f \in Nat /\ f >= faults /\ m \in net /\ (gone = {m} \/ f > faults)
  BY DEF Arrives
<1>2. /\ c.made = s.made /\ c.ids = s.ids /\ s.made \in Nat /\ s.ids \in Nat /\ faults \in Nat
      /\ s.tasks \in SUBSET Task /\ s.state = "DEINIT"
  BY <1>0, EndFacts, FieldTypes DEF Quiet, EndOK
<1>3. CASE m.action # "initiate"
  <2>1. t = SendAnswer(s, m, "error")
    BY <1>3 DEF Incoming
  <2>2. Outcome(e, s, gone, f)
    BY <1>0, StaysOutcome
  <2>3. ASSUME f = 0 PROVE Ended(s) \/ Ended(end[Peer(e)])
    <3>1. CASE s.made > 0
      BY <1>2, <3>1 DEF Ended, Over
    <3>2. CASE s.made = 0 /\ e = "initiator"
      BY <1>0, <1>2, <3>2 DEF StanzaOK, SessionInv
    <3>3. CASE s.made = 0 /\ e = "responder"
      <4>1. ~IsSet(m, {"accept", "reject"}) /\ ~IsSet(m, {"info"})
        BY <1>0, <1>2, <3>3 DEF StanzaOK
      <4>2. IsSet(m, {"terminate"})
        BY <1>0, <1>3, <4>1 DEF IsSet, Stanza, Actions
      <4> QED BY <1>0, <2>3, <4>2 DEF FaultlessOK
    <3> QED BY <1>0, <1>2, <3>1, <3>2, <3>3 DEF Ends
  <2> QED BY <1>0, <2>1, <2>2, <2>3, AnswerOutcome
<1>4. CASE m.action = "initiate"
  <2> DEFINE n == NewSession(e, FALSE, s.tasks, s.ids, s.made + 1)
             u == OnInitiateMessage(n, accept)
  <2>1. /\ n \in EndState
        /\ n.live /\ n.state = "INIT" /\ n.error = "NONE" /\ n.initiator = (e = "initiator")
        /\ ~n.acked /\ n.unsent = 0 /\ n.left = Candidates[e] /\ n.left \in Nat
        /\ n.tasks = s.tasks /\ n.ids = s.ids /\ n.made = s.made + 1 /\ n.out = {}
    <3>1. Candidates[e] \in Nat /\ <<>> \in Seq(Posted) /\ "INIT" \in States /\ {} \in SUBSET Written
      BY <1>0, SessionAssumption DEF Ends, States
    <3>2. s.made + 1 \in Nat
      BY <1>2
    <3> QED BY <1>0, <1>2, <3>1, <3>2 DEF NewSession, EndState
  <2>2. t = SendAnswer(u, m, "result")
    <3>1. t = OnIncomingMessage(n, m, accept)
      BY <1>4 DEF Incoming
    <3>2. n.state = "INIT"
      BY <2>1
    <3> HIDE DEF n
    <3> QED BY <1>4, <3>1, <3>2 DEF OnIncomingMessage, Allowed, OnMessageOf
  <2> HIDE DEF n
  <2>3. PICK act \in {"accept", "reject"} :
          /\ Sends(n, u, act)
          /\ u.state \in {"SENTACCEPT", "SENTREJECT"} /\ u.error = n.error
    BY <2>1, OnInitiateMessageFacts
  <2> HIDE DEF u
  <2>4. e = "responder" /\ end["initiator"].made > 0 /\ s.made <= faults
    BY <1>0, <1>2, <1>4 DEF StanzaOK, IsSet
  <2>5. /\ u \in EndState /\ u.live /\ ~u.initiator /\ u.unsent = 0 /\ u.left = Candidates[e]
        /\ u.made = s.made + 1 /\ u.ids = s.ids + 1 /\ u.error = "NONE"
        /\ u.tasks = s.tasks \cup {[action |-> act, id |-> s.ids]}
        /\ u.out = {[action |-> act, id |-> s.ids, type |-> "set"]}
    <3>1. ~n.initiator
      BY <2>1, <2>4
    <3> QED BY <2>1, <2>3, <3>1 DEF Sends
  <2>6. EndOK(e, u)
    <3>1. \A x \in s.tasks : x.id < s.ids /\ x.id \in Nat
      BY <1>0, <1>2 DEF EndOK, Task
    <3>2. \A x \in u.tasks : x.id < u.ids
      BY <1>2, <2>5, <3>1
    <3>3. u.unsent + u.left <= Candidates[e] /\ u.made > 0
      BY <1>2, <2>1, <2>5
    <3>4. u.initiator = (e = "initiator")
      BY <2>4, <2>5, FieldTypes
    <3> QED BY <2>3, <2>5, <3>2, <3>3, <3>4 DEF EndOK
  <2>7. f = 0 => /\ end["initiator"].state \notin Together
                 /\ \A x \in net \ gone : ~IsSet(x, {"accept", "reject"})
                 /\ ~Ended(c)
    <3> SUFFICES ASSUME f = 0 PROVE /\ end["initiator"].state \notin Together
                                    /\ \A x \in net \ gone : ~IsSet(x, {"accept", "reject"})
                                    /\ ~Ended(c)
      OBVIOUS
    <3>1. end["responder"].made = 0
      BY <1>0, <1>1, <1>2, <2>4
    <3>2. ~Ended(c)
      BY <2>4, <3>1 DEF Ended
    <3>3. \A x \in net : ~IsSet(x, {"accept", "reject"})
      BY <3>1 DEF SessionInv, StanzaOK, IsSet
    <3>4. end["initiator"].state \in Together => end["initiator"].acked
      BY EndFacts DEF Ends
    <3> QED BY <3>1, <3>2, <3>3, <3>4 DEF SessionInv
  <2>8. \A o \in u.out : NewOK(e, u, gone, f, o)
    BY <1>2, <2>4, <2>5, <2>7 DEF NewOK, IsSet
  <2>9. u.made <= f + 1 /\ \A x \in net \ gone : IsSet(x, {"initiate"}) => u.made <= f
    <3>1. u.made <= f + 1
      BY <1>1, <1>2, <2>4, <2>5
    <3>2. CASE gone = {m}
      BY <1>0, <1>1, <1>4, <3>1, <3>2 DEF SessionInv, SameMessage, IsSet
    <3>3. CASE f > faults
      BY <1>1, <1>2, <2>4, <2>5, <3>3
    <3> QED BY <1>1, <3>1, <3>2, <3>3
  <2>10. Outcome(e, u, gone, f)
    <3>1. \A o1, o2 \in u.out : o1 = o2
      BY <2>5
    <3>2. u.ids >= c.ids /\ u.made >= c.made /\ u.state \notin {"INIT", "RECEIVEDINITIATE"}
      BY <1>2, <2>3, <2>5
    <3> QED BY <2>4, <2>5, <2>6, <2>7, <2>8, <2>9, <3>1, <3>2 DEF Outcome
  <2>11. u.made > 0
    BY <1>2, <2>5
  <2> QED BY <1>0, <2>2, <2>10, <2>11, AnswerOutcome
<1> QED BY <1>3, <1>4

(* A stanza arrives, in whatever order, repeated or late.                   *)
LEMMA ReceiveStep ==
  ASSUME SessionInv, NEW m \in net, NEW keep \in BOOLEAN, NEW late \in BOOLEAN, NEW accept \in BOOLEAN,
         Receive(m, keep, late, accept)
  PROVE  SessionInv'
<1> DEFINE e == m.to
           s == [end[e] EXCEPT !.batch = TRUE]
           gone == IF keep THEN {} ELSE {m}
           t == IF m.type = "set" THEN Incoming(e, s, m, accept) ELSE Response(s, m, late)
<1>1. Become(e, t, gone)
  BY DEF Receive
<1>2. PICK n : /\ n = (IF keep THEN 1 ELSE 0) + (IF late THEN 1 ELSE 0)
               /\ Fault(n)
  BY DEF Receive
<1>3. /\ faults \in Nat /\ faults' = faults + n /\ faults' \in 0..MaxFaults
      /\ faults' \in Nat /\ faults' >= faults
      /\ keep \/ late => faults' > faults
  <2>1. faults \in Nat
    BY SessionAssumption DEF SessionInv
  <2>2. n \in Nat /\ (keep \/ late => n > 0)
    BY <1>2
  <2> QED BY <1>2, <2>1, <2>2, SessionAssumption DEF Fault
<1>4. Arrives(m, e, s, gone, faults')
  BY <1>3 DEF Arrives
<1>5. e \in Ends /\ s.live \in BOOLEAN
  BY <1>4, ArrivesFacts, FieldTypes
<1>6. late => faults' > 0
  BY <1>3
<1> HIDE DEF e, s, gone
<1>7. CASE m.type # "set"
  <2>1. Outcome(e, t, gone, faults')
    BY <1>4, <1>6, <1>7, ResponseOutcome
  <2> HIDE DEF t
  <2> QED BY <1>1, <1>3, <1>5, <2>1, BecomeInv
<1>8. CASE m.type = "set" /\ s.live
  <2>1. t = OnIncomingMessage(s, m, accept)
    BY <1>8 DEF Incoming
  <2>2. Outcome(e, t, gone, faults')
    BY <1>4, <1>8, <2>1, RequestOutcome
  <2> HIDE DEF t
  <2> QED BY <1>1, <1>3, <1>5, <2>2, BecomeInv
<1>9. CASE m.type = "set" /\ ~s.live
  <2>1. t = Incoming(e, s, m, accept)
    BY <1>9
  <2> HIDE DEF t
  <2>2. Outcome(e, t, gone, faults')
    BY <1>4, <1>9, <2>1, NoSessionOutcome
  <2> QED BY <1>1, <1>3, <1>5, <2>2, BecomeInv
<1> QED BY <1>7, <1>8, <1>9

-----------------------------------------------------------------------------
(* Every step of either end and of the network preserves the invariant.      *)
LEMMA SessionStep == SessionInv /\ [Next]_vars => SessionInv'
<1> SUFFICES ASSUME SessionInv, [Next]_vars PROVE SessionInv'
  OBVIOUS
<1>1. CASE Initiate
  BY <1>1, InitiateStep
<1>2. ASSUME NEW keep \in BOOLEAN, Deliver(keep) PROVE SessionInv'
  <2>1. PICK m \in net : \E late \in BOOLEAN, accept \in BOOLEAN : Receive(m, keep, late, accept)
    BY <1>2 DEF Deliver
  <2> QED BY <2>1, ReceiveStep
<1>3. CASE Lose
  BY <1>3, LoseStep
<1>4. ASSUME NEW e \in Ends, Gather(e) PROVE SessionInv'
  BY <1>4, GatherStep
<1>5. ASSUME NEW e \in Ends, Dispatch(e) PROVE SessionInv'
  BY <1>5, DispatchStep
<1>6. ASSUME NEW e \in Ends,
             \/ Timeout(e) \/ ChannelUp(e) \/ ChannelClosed(e)
             \/ \E peerGone \in BOOLEAN : ChannelDown(e, peerGone)
      PROVE  SessionInv'
  BY <1>6, TransportStep
<1>7. CASE UNCHANGED vars
  BY <1>7 DEF vars, SessionInv, EndsOK, EndOK, AtRest, StanzaOK, FaultlessOK, SameMessage,
              SomeEnded, Ended, Over
<1> QED BY <1>1, <1>2, <1>3, <1>4, <1>5, <1>6, <1>7 DEF Next

(* The inductive invariant, in every reachable state of the two ends and of  *)
(* the network between them.                                                *)
THEOREM SessionInvariant == Spec => []SessionInv
<1>1. Init => SessionInv
  <2> SUFFICES ASSUME Init PROVE SessionInv
    OBVIOUS
  <2>1. \A e \in Ends : end[e] = NoSession(e, {}, 0, 0)
    BY DEF Init
  <2>2. ASSUME NEW e \in Ends
        PROVE  /\ end[e] \in EndState /\ ~end[e].live /\ end[e].state = "DEINIT"
               /\ end[e].error = "NONE" /\ end[e].initiator = (e = "initiator") /\ ~end[e].acked
               /\ end[e].unsent = 0 /\ end[e].left = Candidates[e] /\ Candidates[e] \in Nat
               /\ end[e].tasks = {} /\ end[e].ids = 0 /\ end[e].made = 0 /\ end[e].out = {}
               /\ end[e].q = <<>> /\ ~end[e].timer /\ ~end[e].chan /\ ~end[e].connecting
               /\ ~end[e].writable
    <3>1. /\ Candidates[e] \in Nat /\ <<>> \in Seq(Posted) /\ "INIT" \in States /\ "DEINIT" \in States
          /\ {} \in SUBSET Written /\ {} \in SUBSET Task
      BY SessionAssumption DEF Ends, States
    <3> DEFINE n == NewSession(e, FALSE, {}, 0, 0)
    <3>2. /\ n \in EndState /\ n.error = "NONE" /\ n.initiator = (e = "initiator") /\ ~n.acked
          /\ n.unsent = 0 /\ n.left = Candidates[e] /\ n.tasks = {} /\ n.ids = 0 /\ n.made = 0
          /\ n.out = {} /\ n.q = <<>> /\ ~n.timer /\ ~n.chan /\ ~n.connecting /\ ~n.writable
      BY <3>1 DEF NewSession, EndState
    <3>3. end[e] = [n EXCEPT !.live = FALSE, !.state = "DEINIT"]
      BY <2>1 DEF NoSession
    <3> HIDE DEF n
    <3>4. /\ end[e] \in EndState /\ ~end[e].live /\ end[e].state = "DEINIT"
          /\ end[e].error = n.error /\ end[e].initiator = n.initiator /\ end[e].acked = n.acked
          /\ end[e].unsent = n.unsent /\ end[e].left = n.left
          /\ end[e].tasks = n.tasks /\ end[e].ids = n.ids /\ end[e].made = n.made
          /\ end[e].out = n.out /\ end[e].q = n.q /\ end[e].timer = n.timer /\ end[e].chan = n.chan
          /\ end[e].connecting = n.connecting /\ end[e].writable = n.writable
      BY <3>1, <3>2, <3>3 DEF EndState
    <3> QED BY <3>1, <3>2, <3>4
  <2>3. \A e \in Ends : EndOK(e, end[e]) /\ AtRest(end[e])
    BY <2>2 DEF EndOK, AtRest, Together
  <2>4. EndsOK
    BY <2>2, <2>3 DEF EndsOK, Init
  <2>5. faults \in 0..MaxFaults /\ net = {} /\ faults = 0
    BY SessionAssumption DEF Init
  <2> QED BY <2>2, <2>4, <2>5 DEF SessionInv, SameMessage, Ends
<1> QED BY <1>1, SessionStep, PTL DEF Spec

(* Every request under way or waited for carries a number its end has given  *)
(* out, and no session is made more often than the network repeats stanzas.  *)
THEOREM TypeCorrect == Spec => []TypeOK
<1>1. SessionInv => TypeOK
  <2> SUFFICES ASSUME SessionInv PROVE TypeOK
    OBVIOUS
  <2>1. ASSUME NEW e \in Ends
        PROVE  /\ end[e].unsent <= Candidates[e] /\ end[e].left <= Candidates[e]
               /\ \A t \in end[e].tasks : t.id < end[e].ids
               /\ end[e].made <= MaxFaults + 1 /\ end[e].out = {}
    <3>1. EndOK(e, end[e]) /\ end[e].out = {} /\ end[e].unsent \in Nat /\ end[e].left \in Nat
          /\ end[e].made \in Nat
      BY EndFacts
    <3>2. end[e].unsent + end[e].left <= Candidates[e] /\ Candidates[e] \in Nat
      BY <3>1, SessionAssumption DEF EndOK, Ends
    <3>3. end[e].made <= MaxFaults + 1
      BY <3>1, SessionAssumption DEF SessionInv, Ends
    <3> QED BY <3>1, <3>2, <3>3 DEF EndOK
  <2>2. net \subseteq Stanza
    BY DEF SessionInv, StanzaOK
  <2>3. \A m \in net : m.id < end[IF m.type = "set" THEN Peer(m.to) ELSE m.to].ids
    BY DEF SessionInv, StanzaOK
  <2> QED BY <2>1, <2>2, <2>3 DEF TypeOK, SessionInv, EndsOK
<1> QED BY <1>1, SessionInvariant, PTL

(* However stanzas are reordered, lost, repeated or late, the initiator's     *)
(* candidates are on their way only once the responder has had the session.  *)
THEOREM InitiateAlwaysFirst == Spec => []InitiateFirst
<1>1. SessionInv => InitiateFirst
  BY DEF SessionInv, StanzaOK, IsSet, InitiateFirst
<1> QED BY <1>1, SessionInvariant, PTL

(* No accepted session keeps candidates back, also when the answer to the    *)
(* initiate is lost or overtaken by the accept.                             *)
THEOREM CandidatesNeverStranded == Spec => []CandidatesNotStranded
<1>1. SessionInv => CandidatesNotStranded
  <2> SUFFICES ASSUME SessionInv, NEW e \in Ends, end[e].state \in Together
               PROVE  end[e].unsent = 0
    BY DEF CandidatesNotStranded
  <2>1. e = "responder" => ~end[e].initiator
    BY EndFacts
  <2> QED BY <2>1, EndFacts DEF Ends
<1> QED BY <1>1, SessionInvariant, PTL

(* Reordering alone makes no session fail: an error response needs a fault   *)
(* or a session that one end has already given up.                          *)
THEOREM ErrorsHaveCause == Spec => []ErrorForCause
<1>1. SessionInv => ErrorForCause
  <2> SUFFICES ASSUME SessionInv, NEW e \in Ends, end[e].error = "RESPONSE", ~(faults > 0)
               PROVE  \E d \in Ends : end[d].state \in Ending \cup {"DEINIT"}
    BY DEF ErrorForCause
  <2>1. faults = 0
    BY EndFacts
  <2> QED BY <2>1 DEF SessionInv, SomeEnded, Ended, Over
<1> QED BY <1>1, SessionInvariant, PTL
=============================================================================
