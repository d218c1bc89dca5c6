---------------------------- MODULE TaskRunner ----------------------------
(***************************************************************************)
(* The tasks that carry the XMPP stanzas: Task, TaskParent and TaskRunner  *)
(* of talk/base, run by XmppPump.  WakeTasks posts a message to the pump's *)
(* thread (`pump'), and the message runs the tasks until all are blocked,  *)
(* then deletes those that are done.                                       *)
(*                                                                         *)
(* What a task's own code does is a choice: a deed (start a child, wake,   *)
(* abort or fail a task, change a timeout) and the state it returns.  The  *)
(* same deeds come from other handlers of the thread, between two runs.    *)
(* Tasks are numbered in the order of their creation (unique_id_); 0       *)
(* stands for the runner as a parent, and for NULL as a task.              *)
(***************************************************************************)
EXTENDS Naturals, Sequences, SequencesExt, MessageQueues

CONSTANTS
  MaxTasks,     \* tasks created
  MaxDeeds,     \* deeds, and
  MaxSteps,     \* steps that do not block their task, in a behaviour
  Timeouts,     \* timeout_seconds_ a task may be given; 0 is none
  MaxTime,      \* bound of the clock
  LateChildren, \* may a task get a child between its end and its deletion
  Polled        \* does anyone call PollTasks?  The unit tests do; XmppPump does not

ASSUME TaskRunnerAssumption ==
  /\ MaxTasks \in Nat \ {0} /\ MaxDeeds \in Nat /\ MaxSteps \in Nat /\ MaxTime \in Nat \ {0}
  /\ Timeouts \subseteq Nat /\ 0 \in Timeouts
  /\ LateChildren \in BOOLEAN /\ Polled \in BOOLEAN

VARIABLES
  r,        \* the runner: task, tasks_, next_timeout_task_, and the posted wake
  run,      \* where InternalRunTasks is
  now,      \* CurrentTime()
  deeds, steps

vars == <<r, run, now, deeds, steps>>

Ids == 1..MaxTasks
NULL == 0
TaskStates == {"INIT", "START", "RESPONSE", "DONE", "ERROR"}

NoTask == [phase |-> "none", parent |-> 0, state |-> "INIT", blocked |-> FALSE, done |-> FALSE,
           aborted |-> FALSE, error |-> FALSE, secs |-> 0, timeout |-> 0]
Gone == [NoTask EXCEPT !.phase = "deleted"]

\* A task is one of tasks_ from Start to its deletion.
Started(s, t) == Contains(s.tasks, t)

---------------------------------------------------------------------------
(* Timeouts                                                                 *)

TimedOut(s, t) ==
  /\ s.task[t].secs > 0 /\ s.task[t].timeout > 0
  /\ now >= s.task[t].timeout

\* RecalcNextTimeout: the last of the tasks with the closest timeout
RecalcNextTimeout(s, exclude) ==
  LET waiting == {i \in DOMAIN s.tasks :
                    LET t == s.tasks[i]
                    IN ~s.task[t].done /\ s.task[t].timeout > 0 /\ t # exclude}
      At(i) == s.task[s.tasks[i]].timeout
      best == {i \in waiting : \A j \in waiting : At(i) < At(j) \/ (At(i) = At(j) /\ j <= i)}
  IN [s EXCEPT !.next = IF waiting = {} THEN NULL ELSE s.tasks[CHOOSE i \in best : TRUE]]

\* UpdateTaskTimeout.  CheckForTimeoutChange is left out: XmppPump does not
\* override the OnTimeoutChange it may call.
UpdateTaskTimeout(s, t) ==
  IF s.task[t].timeout > 0
  THEN IF s.next = NULL \/ s.task[t].timeout <= s.task[s.next].timeout
       THEN [s EXCEPT !.next = t] ELSE s
  ELSE IF s.next = t THEN RecalcNextTimeout(s, t) ELSE s

ResetTimeout(s, t) ==
  UpdateTaskTimeout(
    [s EXCEPT !.task[t].timeout =
        IF s.task[t].secs > 0 /\ s.task[t].state \in {"START", "RESPONSE"}
        THEN now + s.task[t].secs ELSE 0], t)

ClearTimeout(s, t) == UpdateTaskTimeout([s EXCEPT !.task[t].timeout = 0], t)

---------------------------------------------------------------------------
(* The task tree                                                            *)

\* The tasks above each task; a task is created after its parent.
Above(s) ==
  LET A[t \in Ids] == IF s.task[t].parent = 0 THEN {}
                      ELSE {s.task[t].parent} \cup A[s.task[t].parent]
  IN A

\* Mutant: a stopped task leaves its children to themselves.
AbortedAlone(s, t, busy) == {t}

\* The tasks that aborting t reaches through the children_ of stopped tasks: a
\* busy task (one whose Process runs) is marked but not stopped, so its own
\* children are spared until it returns.
AbortedWith(s, t, busy) ==
  {c \in Ids : /\ s.task[c].phase = "live" /\ ~s.task[c].done
               /\ \/ c = t
                  \/ t \in Above(s)[c] /\ busy \notin Above(s)[c] \ Above(s)[t]}

\* TaskParent::AbortAllChildren, and t itself, without the wake
AbortTree(s, t, busy) ==
  LET hit == AbortedWith(s, t, busy)
  IN [s EXCEPT !.task =
        [c \in Ids |-> IF c \notin hit THEN @[c]
                       ELSE IF c = busy THEN [@[c] EXCEPT !.aborted = TRUE]
                       ELSE [@[c] EXCEPT !.aborted = TRUE, !.done = TRUE,
                                         !.blocked = TRUE, !.error = TRUE]]]

WakeTasks(s) == [s EXCEPT !.pump = TRUE]

\* Mutant: an aborted task waits for someone else's wake.
AbortUnheard(s, t, busy) == IF s.task[t].done THEN s ELSE AbortTree(s, t, busy)

\* Abort(false): wakes the runner to delete the task
Abort(s, t, busy) ==
  IF s.task[t].done THEN s
  ELSE IF t = busy THEN AbortTree(s, t, busy)
  ELSE WakeTasks(AbortTree(s, t, busy))

\* Mutant: the flag is cleared but the runner not told.
WakeSilently(s, t) == IF s.task[t].done THEN s ELSE [s EXCEPT !.task[t].blocked = FALSE]

Wake(s, t) ==
  IF s.task[t].done \/ ~s.task[t].blocked THEN s
  ELSE WakeTasks([s EXCEPT !.task[t].blocked = FALSE])

Error(s, t) ==
  IF s.task[t].error \/ s.task[t].done THEN s
  ELSE Wake([s EXCEPT !.task[t].error = TRUE], t)

\* new Task(parent) with its timeout, and Start
StartTask(s, t, parent, secs) ==
  WakeTasks([s EXCEPT !.task[t] = [NoTask EXCEPT !.phase = "live", !.parent = parent, !.secs = secs],
                      !.tasks = Append(@, t)])

Exists(s, t) == s.task[t].phase = "live"

\* What code on the runner's thread may do, while Process of `busy' runs (or 0).
\* LateChildren says whether a child may be created under a parent that is done.
DeedsOf(s, busy) ==
  LET new == {t \in Ids : s.task[t].phase = "none" /\ \A u \in Ids : u < t => s.task[u].phase # "none"}
      old == {t \in Ids : Exists(s, t)}
  IN ({StartTask(s, t, p, n) : t \in new, n \in Timeouts,
                              p \in {0} \cup {u \in old : LateChildren \/ ~s.task[u].done}}
     \cup {Wake(s, t) : t \in old} \cup {Abort(s, t, busy) : t \in old}
     \cup {Error(s, t) : t \in old}
     \cup {ResetTimeout([s EXCEPT !.task[t].secs = n], t) : t \in old, n \in Timeouts})
     \ {s}

---------------------------------------------------------------------------
(* Running                                                                  *)

\* Step, when Process has returned `state' (none is run for a failed task);
\* Stop aborts the children of a task that is done.
AfterProcess(s, t, state) ==
  LET moved == ResetTimeout([s EXCEPT !.task[t].state = state, !.task[t].blocked = FALSE], t)
  IN CASE s.task[t].aborted -> AbortTree(s, t, NULL)
       [] ~s.task[t].aborted /\ state = "BLOCKED" -> [s EXCEPT !.task[t].blocked = TRUE]
       [] ~s.task[t].aborted /\ state \in {"START", "RESPONSE"} -> moved
       [] ~s.task[t].aborted /\ state \in {"DONE", "ERROR"} ->
            AbortTree([moved EXCEPT !.task[t].done = TRUE, !.task[t].blocked = TRUE,
                                    !.task[t].error = state = "ERROR"], t, NULL)

\* Step of a task for which Error was called
StepFailed(s, t) ==
  AbortTree([s EXCEPT !.task[t].done = TRUE, !.task[t].state = "ERROR",
                      !.task[t].blocked = TRUE], t, NULL)

\* What Process may return, without a timeout
Returns(state) ==
  IF state = "INIT" THEN {"START"} ELSE {"BLOCKED", "START", "RESPONSE", "DONE", "ERROR"}

\* DoLogin has started the XmppClient, task 1, which has no timeout.
Init ==
  /\ r = StartTask([task |-> [t \in Ids |-> NoTask], tasks |-> <<>>, next |-> NULL,
                     pump |-> FALSE], 1, 0, 0)
  /\ run = [on |-> FALSE, i |-> 0, did |-> FALSE]
  /\ now = 1 /\ deeds = 0 /\ steps = 0

\* Another handler of the thread
Outside ==
  /\ ~run.on /\ deeds < MaxDeeds
  /\ r' \in DeedsOf(r, NULL)
  /\ deeds' = deeds + 1
  /\ UNCHANGED <<run, now, steps>>

Tick ==
  /\ ~run.on /\ now < MaxTime
  /\ now' = now + 1
  /\ UNCHANGED <<r, run, deeds, steps>>

\* XmppPump::OnMessage: RunTasks
RunTasks ==
  /\ ~run.on /\ r.pump
  /\ r' = [r EXCEPT !.pump = FALSE]
  /\ run' = [on |-> TRUE, i |-> 1, did |-> FALSE]
  /\ UNCHANGED <<now, deeds, steps>>

Current == r.tasks[run.i]
AtTask == run.on /\ run.i <= Len(r.tasks)

\* Task::Step of the current task, with Process and the deed of its code
Step ==
  LET t == Current
      timed == IF TimedOut(r, t) THEN ClearTimeout(r, t) ELSE r
      returns == IF TimedOut(r, t) THEN {"DONE"} ELSE Returns(r.task[t].state)
  IN /\ AtTask /\ ~r.task[t].blocked
     /\ run' = [run EXCEPT !.did = TRUE]
     /\ UNCHANGED now
     /\ IF r.task[t].error
        THEN r' = StepFailed(r, t) /\ UNCHANGED <<deeds, steps>>
        ELSE \E state \in returns, deed \in BOOLEAN :
               /\ LET moves == state \in {"START", "RESPONSE"} /\ r.task[t].state # "INIT"
                  IN /\ moves => steps < MaxSteps
                     /\ steps' = IF moves THEN steps + 1 ELSE steps
               /\ deed => deeds < MaxDeeds /\ r.task[t].state # "INIT"
               /\ deeds' = IF deed THEN deeds + 1 ELSE deeds
               /\ \E s \in IF deed THEN DeedsOf(timed, t) ELSE {timed} :
                    r' = AfterProcess(s, t, state)

\* The loops of InternalRunTasks
NextTask ==
  /\ AtTask /\ r.task[Current].blocked
  /\ run' = [run EXCEPT !.i = @ + 1]
  /\ UNCHANGED <<r, now, deeds, steps>>

Again ==
  /\ run.on /\ run.i > Len(r.tasks) /\ run.did
  /\ run' = [run EXCEPT !.i = 1, !.did = FALSE]
  /\ UNCHANGED <<r, now, deeds, steps>>

\* Mutant: the task that was to time out next is forgotten, not replaced.
DeleteNoRecalc(s) ==
  LET dead == {t \in Ids : Started(s, t) /\ s.task[t].done}
  IN [s EXCEPT !.task = [t \in Ids |-> IF t \in dead THEN Gone ELSE @[t]],
               !.tasks = Without(@, dead),
               !.next = IF @ \in dead THEN NULL ELSE @]

\* Mutant: the deleted tasks stay in tasks_.
DeleteInPlace(s) ==
  LET dead == {t \in Ids : Started(s, t) /\ s.task[t].done}
      left == [s EXCEPT !.task = [t \in Ids |-> IF t \in dead THEN Gone ELSE @[t]]]
  IN IF s.next \in dead THEN [left EXCEPT !.next = NULL] ELSE left

\* Tasks that are done are deleted when running has paused.
DeleteDone(s) ==
  LET dead == {t \in Ids : Started(s, t) /\ s.task[t].done}
      left == [s EXCEPT !.task = [t \in Ids |-> IF t \in dead THEN Gone ELSE @[t]],
                        !.tasks = Without(@, dead)]
  IN IF s.next \in dead THEN RecalcNextTimeout(left, NULL) ELSE left

Pause ==
  /\ run.on /\ run.i > Len(r.tasks) /\ ~run.did
  /\ r' = DeleteDone(r)
  /\ run' = [on |-> FALSE, i |-> 0, did |-> FALSE]
  /\ UNCHANGED <<now, deeds, steps>>

\* PollTasks: with a WakeTasks that only posts, its loop ends after one turn.
PollTasks ==
  /\ Polled /\ ~run.on /\ r.next # NULL /\ TimedOut(r, r.next)
  /\ r' = WakeTasks(Wake(r, r.next))
  /\ UNCHANGED <<run, now, deeds, steps>>

Next == \/ Outside \/ Tick \/ RunTasks \/ Step \/ NextTask \/ Again \/ Pause \/ PollTasks

\* The thread dispatches the pump's message, and the run goes on to its end: weak
\* fairness of RunTasks, Step, NextTask, Again and Pause together, one of which is
\* enabled when the runner runs or its message is posted, and which are the steps
\* that begin or end with the runner running.
Fairness == []<>(~run.on /\ ~r.pump) \/ []<><<run.on \/ run'.on>>_vars

Spec == Init /\ [][Next]_vars /\ Fairness

---------------------------------------------------------------------------
(* Properties                                                               *)

\* Type invariant.
TypeOK ==
  /\ r.next \in {NULL} \cup Ids /\ r.pump \in BOOLEAN
  /\ \A i \in DOMAIN r.tasks : Exists(r, r.tasks[i])
  /\ \A t \in Ids :
       LET k == r.task[t]
       IN /\ k.phase \in {"none", "live", "deleted"} /\ k.state \in TaskStates
          /\ k.parent \in 0..(t - 1) /\ {k.blocked, k.done, k.aborted, k.error} \subseteq BOOLEAN
          /\ k.secs \in Timeouts /\ k.timeout \in Nat
  /\ now \in 1..MaxTime /\ deeds \in 0..MaxDeeds /\ steps \in 0..MaxSteps
  /\ run.on => run.i \in 1..(Len(r.tasks) + 1)

\* No wake is lost: while a task could run, the runner is running or its message
\* is on the way (Wake, Error, StartTask, and the loops of InternalRunTasks).
NoLostWake ==
  (\E t \in Ids : Started(r, t) /\ ~r.task[t].blocked) => run.on \/ r.pump

\* "If a parent task gets aborted, all the children tasks are too": nobody lives
\* below a task that is done or deleted, whoever aborted whom, from within or
\* from outside a step (Stop, AbortAllChildren, the busy_ flag).
NoOrphans ==
  \A t \in Ids : Exists(r, t) /\ ~r.task[t].done
                     => \A p \in Above(r)[t] : Exists(r, p) /\ ~r.task[p].done

\* next_timeout_task_ is never a deleted task (every UpdateTaskTimeout follows
\* the pointer), and as long as some task waits for a timeout there is one: nothing
\* else makes PollTasks look at the clock (UpdateTaskTimeout, RecalcNextTimeout,
\* the deletions of InternalRunTasks).
NextTimeoutWatched ==
  /\ r.next # NULL => Exists(r, r.next)
  /\ (\E t \in Ids : Started(r, t) /\ ~r.task[t].done /\ r.task[t].timeout > 0)
       => r.next # NULL

\* A task that is done is deleted "sometime afterwards".
DoneIsDeleted ==
  \A t \in Ids : (Exists(r, t) /\ r.task[t].done) ~> ~Exists(r, t)
=============================================================================
