-------------------------- MODULE TaskRunnerProofs --------------------------
(***************************************************************************)
(* Theorems about TaskRunner, for any number of tasks, deeds and steps and *)
(* any timeouts.                                                           *)
(***************************************************************************)
EXTENDS TaskRunner, QueueTheorems

-----------------------------------------------------------------------------
(* The inductive invariants, as predicates of the runner's record.         *)

TaskRecord ==
  [phase : {"none", "live", "deleted"}, parent : 0..MaxTasks, state : TaskStates, blocked : BOOLEAN,
   done : BOOLEAN, aborted : BOOLEAN, error : BOOLEAN, secs : Timeouts, timeout : Nat]

Runner == [task : [Ids -> TaskRecord], tasks : Seq(Ids), next : {NULL} \cup Ids, pump : BOOLEAN]

\* Tasks are created in their order, below older ones; what is in tasks_ is there; a
\* task that is done is not stepped.
Shape(s) ==
  /\ \A t \in Ids : s.task[t].parent < t
  /\ \A t \in Held(s.tasks) : Exists(s, t)
  /\ \A t, u \in Ids : u < t /\ s.task[u].phase = "none" => s.task[t].phase = "none"
  /\ \A t \in Ids : s.task[t].done => s.task[t].blocked

\* NextTimeoutWatched of a record.
Waits(s, t) == ~s.task[t].done /\ s.task[t].timeout > 0
Watched(s) ==
  /\ s.next # NULL => Exists(s, s.next)
  /\ (\E t \in Held(s.tasks) : Waits(s, t)) => s.next # NULL

Sound(s) == s \in Runner /\ Shape(s) /\ Watched(s)

\* A task that could run is announced.
Heard(s) == (\E t \in Held(s.tasks) : ~s.task[t].blocked) => s.pump

\* The parent of t is alive, unless t has none.
Cared(s, t) ==
  Exists(s, t) /\ ~s.task[t].done /\ s.task[t].parent # 0 =>
    Exists(s, s.task[t].parent) /\ ~s.task[s.task[t].parent].done

\* Nobody lives below a dead parent, but for the task that is in its Process: an
\* abort from within has marked that one.
Families(s, busy) ==
  /\ \A t \in Ids : t # busy => Cared(s, t)
  /\ busy \in Ids /\ ~s.task[busy].aborted => Cared(s, busy)

\* While the walk over tasks_ has stepped nobody, it has left blocked tasks behind.
Walk ==
  /\ run.on => run.i \in 1..(Len(r.tasks) + 1)
  /\ run.on /\ ~run.did => \A i \in 1..Len(r.tasks) : i < run.i => r.task[r.tasks[i]].blocked
  /\ ~run.on => Heard(r)

Counters ==
  /\ run \in [on : BOOLEAN, i : Nat, did : BOOLEAN]
  /\ now \in 1..MaxTime /\ deeds \in 0..MaxDeeds /\ steps \in 0..MaxSteps

TaskInv == Sound(r) /\ Walk /\ Counters
FamilyInv == TaskInv /\ Families(r, NULL)

-----------------------------------------------------------------------------
(* What the operators on tasks do to the runner's record.                  *)

\* The fields have their types.
LEMMA Fields ==
  ASSUME NEW s \in Runner
  PROVE  /\ s.task \in [Ids -> TaskRecord] /\ s.tasks \in Seq(Ids) /\ s.next \in {NULL} \cup Ids
         /\ s.pump \in BOOLEAN /\ Held(s.tasks) \subseteq Ids
         /\ \A t \in Ids : /\ s.task[t] \in TaskRecord /\ s.task[t].parent \in 0..MaxTasks
                           /\ s.task[t].timeout \in Nat /\ s.task[t].secs \in Timeouts
                           /\ s.task[t].state \in TaskStates
                           /\ s.task[t].blocked \in BOOLEAN /\ s.task[t].done \in BOOLEAN
                           /\ s.task[t].aborted \in BOOLEAN /\ s.task[t].error \in BOOLEAN
                           /\ s.task[t].phase \in {"none", "live", "deleted"}
<1>1. /\ s.task \in [Ids -> TaskRecord] /\ s.tasks \in Seq(Ids) /\ s.next \in {NULL} \cup Ids
      /\ s.pump \in BOOLEAN
  BY DEF Runner
<1>2. Held(s.tasks) \subseteq Ids
  BY <1>1 DEF Held
<1>3. \A t \in Ids : s.task[t] \in TaskRecord
  BY <1>1
<1> HIDE DEF Ids
<1> QED BY <1>1, <1>2, <1>3 DEF TaskRecord

\* The record of one task is replaced.
LEMMA OneTask ==
  ASSUME NEW s \in Runner, NEW t \in Ids, NEW k \in TaskRecord
  PROVE  /\ [s EXCEPT !.task[t] = k] \in Runner
         /\ [s EXCEPT !.task[t] = k].tasks = s.tasks /\ [s EXCEPT !.task[t] = k].next = s.next
         /\ [s EXCEPT !.task[t] = k].pump = s.pump
         /\ [s EXCEPT !.task[t] = k].task[t] = k
         /\ \A u \in Ids : u # t => [s EXCEPT !.task[t] = k].task[u] = s.task[u]
BY DEF Runner

\* u is s with other flags: nobody comes back from being done.
Flags(s, u) ==
  /\ u \in Runner /\ u.tasks = s.tasks /\ u.next = s.next
  /\ \A t \in Ids : /\ u.task[t].phase = s.task[t].phase /\ u.task[t].parent = s.task[t].parent
                    /\ u.task[t].timeout = s.task[t].timeout
                    /\ s.task[t].done => u.task[t].done
                    /\ u.task[t].done => u.task[t].blocked

\* Other flags leave the shape and the next timeout as they are.
LEMMA FlagsSound ==
  ASSUME NEW s, Sound(s), NEW u, Flags(s, u)
  PROVE  Sound(u)
<1>1. s \in Runner /\ u \in Runner /\ Held(s.tasks) \subseteq Ids /\ s.next \in {NULL} \cup Ids
  BY Fields DEF Sound, Flags
<1>2. Shape(u)
  BY <1>1 DEF Sound, Shape, Flags, Exists
<1>3. Watched(u)
  <2>1. s.next # NULL => s.next \in Ids
    BY <1>1
  <2>2. \A t \in Held(s.tasks) : Waits(u, t) => Waits(s, t)
    BY <1>1 DEF Flags, Waits
  <2> QED BY <1>1, <2>1, <2>2 DEF Sound, Watched, Flags, Exists
<1> QED BY <1>1, <1>2, <1>3 DEF Sound

\* Parents, and who is alive, are as they were.
SameFamilies(s, u) ==
  \A t \in Ids : /\ u.task[t].phase = s.task[t].phase /\ u.task[t].parent = s.task[t].parent
                 /\ u.task[t].done = s.task[t].done /\ u.task[t].aborted = s.task[t].aborted

\* Families that did not change are as they were.
LEMMA FamiliesFrame ==
  ASSUME NEW s \in Runner, NEW u, NEW b, Families(s, b), SameFamilies(s, u)
  PROVE  Families(u, b)
<1>1. ASSUME NEW t \in Ids, Cared(s, t) PROVE Cared(u, t)
  <2>1. s.task[t].parent # 0 => s.task[t].parent \in Ids
    BY Fields DEF Ids
  <2> QED BY <1>1, <2>1 DEF Cared, SameFamilies, Exists
<1> QED BY <1>1 DEF Families, SameFamilies

\* Wake posts the runner's message when it lets the task run.
LEMMA WakeFacts ==
  ASSUME NEW s, Sound(s), NEW t \in Ids
  PROVE  /\ Flags(s, Wake(s, t)) /\ SameFamilies(s, Wake(s, t))
         /\ Wake(s, t) = s \/ Wake(s, t).pump
<1>1. s \in Runner /\ s.task[t] \in TaskRecord
  BY Fields DEF Sound
<1>2. CASE s.task[t].done \/ ~s.task[t].blocked
  BY <1>1, <1>2 DEF Wake, Flags, SameFamilies, Sound, Shape
<1>3. CASE ~(s.task[t].done \/ ~s.task[t].blocked)
  <2> DEFINE k == [s.task[t] EXCEPT !.blocked = FALSE]
             v == [s EXCEPT !.task[t] = k]
  <2>1. k \in TaskRecord
    BY <1>1 DEF TaskRecord
  <2>k. /\ k.phase = s.task[t].phase /\ k.parent = s.task[t].parent /\ k.timeout = s.task[t].timeout
        /\ k.done = s.task[t].done /\ k.aborted = s.task[t].aborted
    BY <1>1 DEF TaskRecord
  <2>2. Wake(s, t) = [v EXCEPT !.pump = TRUE]
    BY <1>3 DEF Wake, WakeTasks
  <2> HIDE DEF k
  <2>3. /\ v \in Runner /\ v.tasks = s.tasks /\ v.next = s.next /\ v.task[t] = k
        /\ \A u \in Ids : u # t => v.task[u] = s.task[u]
    BY <1>1, <2>1, OneTask
  <2> HIDE DEF v
  <2>4. /\ Wake(s, t) \in Runner /\ Wake(s, t).tasks = v.tasks /\ Wake(s, t).next = v.next
        /\ Wake(s, t).task = v.task /\ Wake(s, t).pump
    BY <2>2, <2>3 DEF Runner
  <2> HIDE DEF Wake
  <2>5. ~k.done
    BY <1>3, <2>k
  <2> QED BY <1>1, <2>3, <2>4, <2>5, <2>k DEF Flags, SameFamilies, Sound, Shape
<1> QED BY <1>2, <1>3

\* Error marks the task and wakes it.
LEMMA ErrorFacts ==
  ASSUME NEW s, Sound(s), NEW t \in Ids
  PROVE  /\ Flags(s, Error(s, t)) /\ SameFamilies(s, Error(s, t))
         /\ Heard(s) => Heard(Error(s, t))
<1>1. s \in Runner /\ s.task[t] \in TaskRecord
  BY Fields DEF Sound
<1>2. CASE s.task[t].error \/ s.task[t].done
  BY <1>1, <1>2 DEF Error, Flags, SameFamilies, Sound, Shape
<1>3. CASE ~(s.task[t].error \/ s.task[t].done)
  <2> DEFINE k == [s.task[t] EXCEPT !.error = TRUE]
             v == [s EXCEPT !.task[t] = k]
  <2>1. k \in TaskRecord
    BY <1>1 DEF TaskRecord
  <2>k. /\ k.phase = s.task[t].phase /\ k.parent = s.task[t].parent /\ k.timeout = s.task[t].timeout
        /\ k.done = s.task[t].done /\ k.aborted = s.task[t].aborted /\ k.blocked = s.task[t].blocked
    BY <1>1 DEF TaskRecord
  <2>2. Error(s, t) = Wake(v, t)
    BY <1>3 DEF Error
  <2> HIDE DEF k
  <2>3. /\ v \in Runner /\ v.tasks = s.tasks /\ v.next = s.next /\ v.task[t] = k /\ v.pump = s.pump
        /\ \A u \in Ids : u # t => v.task[u] = s.task[u]
    BY <1>1, <2>1, OneTask
  <2> HIDE DEF v
  <2>4. Flags(s, v) /\ SameFamilies(s, v) /\ (Heard(s) => Heard(v))
    <3>1. \A u \in Ids : v.task[u].blocked = s.task[u].blocked
      BY <2>3, <2>k
    <3>2. Held(s.tasks) \subseteq Ids
      BY <1>1, Fields
    <3> QED BY <2>3, <2>k, <3>1, <3>2 DEF Flags, SameFamilies, Sound, Shape, Heard
  <2>5. /\ Flags(v, Wake(v, t)) /\ SameFamilies(v, Wake(v, t)) /\ (Wake(v, t) = v \/ Wake(v, t).pump)
    BY <2>4, FlagsSound, WakeFacts
  <2> HIDE DEF Wake, Error
  <2> QED BY <2>2, <2>4, <2>5 DEF Flags, SameFamilies, Heard
<1> QED BY <1>2, <1>3

-----------------------------------------------------------------------------
(* The tree.                                                               *)

\* The recursive equation of Above, for the first N tasks.
AboveEquation(A, s, N) ==
  A = [t \in 1..N |-> IF s.task[t].parent = 0 THEN {}
                      ELSE {s.task[t].parent} \cup A[s.task[t].parent]]

\* The recursive equation of Above has a solution, as parents are older.
LEMMA AboveExists ==
  ASSUME NEW s, \A t \in Ids : s.task[t].parent \in 0..(t - 1)
  PROVE  \E A : AboveEquation(A, s, MaxTasks)
<1> DEFINE T == {n \in Nat : n <= MaxTasks => \E A : AboveEquation(A, s, n)}
<1>0. MaxTasks \in Nat
  BY TaskRunnerAssumption
<1>1. 0 \in T
  <2>1. AboveEquation([t \in 1..0 |-> {}], s, 0)
    BY DEF AboveEquation
  <2> QED BY <2>1
<1>2. ASSUME NEW n \in 1..MaxTasks, n - 1 \in T PROVE n \in T
  <2>1. n - 1 <= MaxTasks
    BY <1>0
  <2>2. PICK A : AboveEquation(A, s, n - 1)
    BY <1>2, <2>1
  <2> DEFINE p == s.task[n].parent
             B == [t \in 1..n |-> IF t = n THEN IF p = 0 THEN {} ELSE {p} \cup A[p] ELSE A[t]]
  <2>3. ASSUME NEW t \in 1..n
        PROVE  B[t] = IF s.task[t].parent = 0 THEN {}
                      ELSE {s.task[t].parent} \cup B[s.task[t].parent]
    <3>1. s.task[t].parent \in 0..(t - 1)
      BY <1>0 DEF Ids
    <3>2. s.task[t].parent # 0 => s.task[t].parent \in 1..(n - 1)
      BY <3>1
    <3>3. s.task[t].parent # 0 => B[s.task[t].parent] = A[s.task[t].parent]
      BY <3>2
    <3>4. CASE t = n
      BY <3>3, <3>4
    <3>5. CASE t # n
      <4>1. t \in 1..(n - 1)
        BY <3>5
      <4>2. A[t] = IF s.task[t].parent = 0 THEN {} ELSE {s.task[t].parent} \cup A[s.task[t].parent]
        BY <2>2, <4>1 DEF AboveEquation
      <4> QED BY <3>3, <3>5, <4>2
    <3> QED BY <3>4, <3>5
  <2>4. B = [t \in 1..n |-> B[t]]
    OBVIOUS
  <2> HIDE DEF B
  <2>5. AboveEquation(B, s, n)
    BY <2>3, <2>4 DEF AboveEquation
  <2> QED BY <2>5
<1> HIDE DEF T
<1>3. MaxTasks \in T
  BY <1>0, <1>1, <1>2, SetInduction
<1> QED BY <1>0, <1>3 DEF T

\* Above satisfies its recursive equation.
LEMMA AboveDef ==
  ASSUME NEW s \in Runner, Shape(s)
  PROVE  \A t \in Ids :
           Above(s)[t] = IF s.task[t].parent = 0 THEN {}
                         ELSE {s.task[t].parent} \cup Above(s)[s.task[t].parent]
<1>0. MaxTasks \in Nat /\ \A t \in Ids : s.task[t].parent \in 0..(t - 1)
  <2>1. \A t \in Ids : s.task[t].parent \in 0..MaxTasks /\ s.task[t].parent < t
    BY Fields DEF Shape
  <2> QED BY <2>1, TaskRunnerAssumption DEF Ids
<1> DEFINE Def(A) == AboveEquation(A, s, MaxTasks)
<1>1. \E A : Def(A)
  BY <1>0, AboveExists
<1>2. Above(s) = CHOOSE A : Def(A)
  BY DEF Above, AboveEquation, Ids
<1>3. Def(CHOOSE A : Def(A))
  <2> HIDE DEF Def
  <2> QED BY <1>1
<1>4. Def(Above(s))
  BY <1>2, <1>3
<1>5. \A t \in Ids : Above(s)[t] = IF s.task[t].parent = 0 THEN {}
                                   ELSE {s.task[t].parent} \cup Above(s)[s.task[t].parent]
  <2> DEFINE A == Above(s)
  <2>1. AboveEquation(A, s, MaxTasks)
    BY <1>4
  <2> HIDE DEF A
  <2>2. \A t \in Ids : A[t] = IF s.task[t].parent = 0 THEN {}
                              ELSE {s.task[t].parent} \cup A[s.task[t].parent]
    BY <2>1 DEF AboveEquation, Ids
  <2> QED BY <2>2 DEF A
<1> QED BY <1>5

\* AbortTree marks what it reaches and stops it, but for the busy task.
LEMMA AbortTreeFacts ==
  ASSUME NEW s, Sound(s), NEW t, NEW b, NEW u, u = AbortTree(s, t, b)
  PROVE  /\ Flags(s, u) /\ u.pump = s.pump /\ (Heard(s) => Heard(u))
         /\ \A c \in Ids :
              /\ c \notin AbortedWith(s, t, b) => u.task[c] = s.task[c]
              /\ c \in AbortedWith(s, t, b) /\ c # b => u.task[c].done
              /\ c \in AbortedWith(s, t, b) /\ c = b =>
                   u.task[c].aborted /\ u.task[c].done = s.task[c].done
              /\ s.task[c].blocked => u.task[c].blocked
<1> DEFINE hit == AbortedWith(s, t, b)
           F(c) == IF c \notin hit THEN s.task[c]
                   ELSE IF c = b THEN [s.task[c] EXCEPT !.aborted = TRUE]
                   ELSE [s.task[c] EXCEPT !.aborted = TRUE, !.done = TRUE, !.blocked = TRUE,
                                          !.error = TRUE]
<1>0. s \in Runner /\ Shape(s) /\ \A c \in Ids : s.task[c] \in TaskRecord
  BY Fields DEF Sound
<1>1. u = [s EXCEPT !.task = [c \in Ids |-> F(c)]]
  BY DEF AbortTree
<1> HIDE DEF hit
<1>2. ASSUME NEW c \in Ids
      PROVE  /\ F(c) \in TaskRecord
             /\ F(c).phase = s.task[c].phase /\ F(c).parent = s.task[c].parent
             /\ F(c).timeout = s.task[c].timeout
             /\ s.task[c].done => F(c).done
             /\ s.task[c].blocked => F(c).blocked
             /\ c \notin hit => F(c) = s.task[c]
             /\ c \in hit /\ c # b => F(c).done /\ F(c).blocked
             /\ c \in hit /\ c = b => F(c).aborted /\ F(c).done = s.task[c].done
                                      /\ F(c).blocked = s.task[c].blocked
  <2>1. s.task[c] \in TaskRecord
    BY <1>0
  <2> QED BY <2>1 DEF TaskRecord
<1> HIDE DEF F
<1>3. /\ u \in Runner /\ u.tasks = s.tasks /\ u.next = s.next /\ u.pump = s.pump
      /\ \A c \in Ids : u.task[c] = F(c)
  <2>1. [c \in Ids |-> F(c)] \in [Ids -> TaskRecord]
    BY <1>2
  <2> DEFINE G == [c \in Ids |-> F(c)]
  <2>2. \A c \in Ids : G[c] = F(c)
    OBVIOUS
  <2>3. G \in [Ids -> TaskRecord] /\ u = [s EXCEPT !.task = G]
    BY <1>1, <2>1
  <2> HIDE DEF G
  <2>4. u.task = G /\ u \in Runner /\ u.tasks = s.tasks /\ u.next = s.next /\ u.pump = s.pump
    BY <1>0, <2>3 DEF Runner
  <2> QED BY <2>2, <2>4
<1>4. Flags(s, u)
  <2>1. \A c \in Ids : F(c).done => F(c).blocked
    BY <1>0, <1>2 DEF Shape
  <2> QED BY <1>2, <1>3, <2>1 DEF Flags
<1>5. Heard(s) => Heard(u)
  <2>1. Held(s.tasks) \subseteq Ids
    BY <1>0, Fields
  <2> QED BY <1>2, <1>3, <2>1 DEF Heard
<1> QED BY <1>2, <1>3, <1>4, <1>5 DEF hit

\* What AbortTree does to families: nobody below t is left behind, and a busy task that is
\* has been marked.
LEMMA AbortTreeFamilies ==
  ASSUME NEW s, Sound(s), NEW t \in Ids, NEW b \in {NULL} \cup Ids, NEW u, u = AbortTree(s, t, b),
         Exists(s, t), t # b \/ ~s.task[t].done,
         \A c \in Ids : c # b /\ c # t => Cared(s, c) \/ s.task[c].parent = t,
         b \in Ids /\ b # t /\ ~s.task[b].aborted => Cared(s, b) \/ s.task[b].parent = t
  PROVE  Families(u, b)
<1> DEFINE hit == AbortedWith(s, t, b)
<1>0. s \in Runner /\ Shape(s)
  BY DEF Sound
<1>1. /\ Flags(s, u)
      /\ \A c \in Ids :
              /\ c \notin hit => u.task[c] = s.task[c]
              /\ c \in hit /\ c # b => u.task[c].done
              /\ c \in hit /\ c = b => u.task[c].aborted /\ u.task[c].done = s.task[c].done
  <2> HIDE DEF AbortTree
  <2>1. /\ Flags(s, u)
        /\ \A c \in Ids :
              /\ c \notin AbortedWith(s, t, b) => u.task[c] = s.task[c]
              /\ c \in AbortedWith(s, t, b) /\ c # b => u.task[c].done
              /\ c \in AbortedWith(s, t, b) /\ c = b =>
                   u.task[c].aborted /\ u.task[c].done = s.task[c].done
    BY AbortTreeFacts
  <2> QED BY <2>1
<1>2. \A c \in Ids : c \in hit <=>
        /\ Exists(s, c) /\ ~s.task[c].done
        /\ c = t \/ (t \in Above(s)[c] /\ b \notin Above(s)[c] \ Above(s)[t])
  BY DEF AbortedWith, Exists
<1>3. \A c \in Ids : Above(s)[c] = IF s.task[c].parent = 0 THEN {}
                                   ELSE {s.task[c].parent} \cup Above(s)[s.task[c].parent]
  BY <1>0, AboveDef
<1> HIDE DEF hit, Above
<1>4. ASSUME NEW c \in Ids, Exists(s, c), ~s.task[c].done, c \notin hit, s.task[c].parent # 0,
             Cared(s, c) \/ s.task[c].parent = t
      PROVE  Exists(u, s.task[c].parent) /\ ~u.task[s.task[c].parent].done
  <2>1. PICK p \in Ids : p = s.task[c].parent
    <3>1. s.task[c].parent \in 0..MaxTasks
      BY <1>0, Fields
    <3> QED BY <1>4, <3>1 DEF Ids
  <2>2. Above(s)[c] = {p} \cup Above(s)[p]
    BY <1>3, <1>4, <2>1
  <2>3. p = t => b = t
    <3> SUFFICES ASSUME p = t PROVE b = t
      OBVIOUS
    <3>1. t \in Above(s)[c] /\ Above(s)[c] \ Above(s)[t] \subseteq {t}
      BY <2>2
    <3> QED BY <1>2, <1>4, <3>1
  <2>4. Exists(s, p) /\ ~s.task[p].done
    BY <1>4, <2>1, <2>3 DEF Cared
  <2>5. p \in hit => p = b
    <3> SUFFICES ASSUME p \in hit, p # b PROVE FALSE
      OBVIOUS
    <3>1. t \in Above(s)[p] /\ b \notin Above(s)[p] \ Above(s)[t]
      BY <1>2, <2>3
    <3>2. t \in Above(s)[c]
      BY <2>2, <3>1
    <3>3. b \in Above(s)[c] \ Above(s)[t]
      BY <1>2, <1>4, <3>2
    <3> QED BY <2>2, <3>1, <3>3
  <2>6. u.task[p].done = s.task[p].done
    BY <1>1, <2>5
  <2>7. Exists(u, p)
    BY <1>1, <2>4 DEF Exists, Flags
  <2> QED BY <2>1, <2>4, <2>6, <2>7
<1>5. ASSUME NEW c \in Ids, c \notin hit, Cared(s, c) \/ s.task[c].parent = t
      PROVE  Cared(u, c)
  BY <1>1, <1>4, <1>5 DEF Cared, Exists
<1>6. ASSUME NEW c \in Ids, c # b PROVE Cared(u, c)
  <2>1. CASE c \in hit
    BY <1>1, <1>6, <2>1 DEF Cared
  <2>2. c = t => c \in hit \/ Cared(s, c)
    BY <1>2 DEF Cared
  <2> QED BY <1>5, <1>6, <2>1, <2>2
<1>7. ASSUME b \in Ids, ~u.task[b].aborted PROVE Cared(u, b)
  <2>1. b \notin hit /\ b # t
    BY <1>1, <1>2, <1>7
  <2> QED BY <1>1, <1>5, <1>7, <2>1
<1> QED BY <1>6, <1>7 DEF Families

-----------------------------------------------------------------------------
(* Timeouts.                                                               *)

\* RecalcNextTimeout finds a task with a timeout when there is one besides the excluded.
LEMMA RecalcFacts ==
  ASSUME NEW s \in Runner, Shape(s), NEW x, NEW u, u = RecalcNextTimeout(s, x)
  PROVE  /\ u \in Runner /\ u.task = s.task /\ u.tasks = s.tasks /\ u.pump = s.pump
         /\ u.next # NULL => Exists(s, u.next)
         /\ \A t \in Held(s.tasks) : Waits(s, t) /\ t # x => u.next # NULL
<1> DEFINE At(i) == s.task[s.tasks[i]].timeout
           W == {i \in DOMAIN s.tasks : ~s.task[s.tasks[i]].done /\ At(i) > 0 /\ s.tasks[i] # x}
           best == {i \in W : \A j \in W : At(i) < At(j) \/ (At(i) = At(j) /\ j <= i)}
           n == IF W = {} THEN NULL ELSE s.tasks[CHOOSE i \in best : TRUE]
<1>1. u = [s EXCEPT !.next = n]
  BY DEF RecalcNextTimeout
<1>2. /\ s.tasks \in Seq(Ids) /\ Len(s.tasks) \in Nat /\ DOMAIN s.tasks = 1..Len(s.tasks)
      /\ \A i \in DOMAIN s.tasks : s.tasks[i] \in Ids /\ At(i) \in Nat /\ s.tasks[i] \in Held(s.tasks)
  <2>1. s.tasks \in Seq(Ids) /\ \A t \in Ids : s.task[t].timeout \in Nat
    BY Fields
  <2> QED BY <2>1 DEF Held
<1>3. W # {} => best # {}
  <2> SUFFICES ASSUME W # {} PROVE best # {}
    OBVIOUS
  <2> DEFINE T == {At(i) : i \in W}
  <2>1. T \subseteq Nat /\ T # {}
    BY <1>2
  <2> HIDE DEF T
  <2>2. PICK m \in T : \A y \in T : m <= y
    BY <2>1, LeastElement
  <2>a. PICK l \in Nat : l = Len(s.tasks) /\ \A i \in W : i \in 1..l /\ At(i) \in Nat
    BY <1>2
  <2> DEFINE L == {k \in Nat : \E i \in W : At(i) = m /\ k = l - i}
  <2>3. PICK i0 \in W : At(i0) = m
    BY <2>2 DEF T
  <2>w. \A i \in W : l - i \in Nat
    BY <2>a
  <2> HIDE DEF W, At
  <2>4. l - i0 \in L
    BY <2>w, <2>3
  <2>5. L \subseteq Nat /\ L # {}
    BY <2>4
  <2> HIDE DEF L
  <2>6. PICK k \in L : \A y \in L : k <= y
    BY <2>5, LeastElement
  <2>7. PICK i \in W : At(i) = m /\ k = l - i
    BY <2>6 DEF L
  <2>8. ASSUME NEW j \in W PROVE At(i) < At(j) \/ (At(i) = At(j) /\ j <= i)
    <3>1. At(j) \in T /\ At(j) \in Nat /\ i \in Nat /\ j \in Nat /\ j <= l
      BY <2>a DEF T
    <3>2. m <= At(j) /\ m \in Nat
      BY <2>1, <2>2, <3>1
    <3>3. CASE At(j) = m
      <4>1. l - j \in L
        BY <2>w, <3>3 DEF L
      <4>2. l - i <= l - j
        BY <2>6, <2>7, <4>1
      <4> QED BY <2>7, <3>1, <3>3, <4>2
    <3> QED BY <2>7, <3>1, <3>2, <3>3
  <2>9. i \in best
    BY <2>8
  <2> QED BY <2>9
<1>4. W # {} => n \in Held(s.tasks) /\ n \in Ids
  <2> SUFFICES ASSUME W # {} PROVE n \in Held(s.tasks) /\ n \in Ids
    OBVIOUS
  <2> DEFINE i == CHOOSE i \in best : TRUE
  <2>1. i \in best
    BY <1>3
  <2>2. i \in DOMAIN s.tasks /\ n = s.tasks[i]
    BY <2>1
  <2> QED BY <1>2, <2>2
<1>5. n \in {NULL} \cup Ids /\ (n # NULL => n \in Held(s.tasks)) /\ (W # {} => n # NULL)
  <2>1. NULL \notin Ids
    BY DEF NULL, Ids
  <2>2. W = {} => n = NULL
    OBVIOUS
  <2> QED BY <1>4, <2>1, <2>2
<1>6. \A t \in Held(s.tasks) : Waits(s, t) /\ t # x => W # {}
  BY <1>2 DEF Waits, Held
<1> HIDE DEF n, W
<1>7. u \in Runner /\ u.task = s.task /\ u.tasks = s.tasks /\ u.pump = s.pump /\ u.next = n
  BY <1>1, <1>5 DEF Runner
<1> QED BY <1>5, <1>6, <1>7 DEF Shape

\* u is s with another timeout of t.
Retimed(s, t, n, u) ==
  /\ u \in Runner /\ u.tasks = s.tasks /\ u.pump = s.pump
  /\ u.task[t] = [s.task[t] EXCEPT !.timeout = n]
  /\ \A c \in Ids : c # t => u.task[c] = s.task[c]

\* UpdateTaskTimeout keeps a task to watch, whatever the new timeout.
LEMMA UpdateFacts ==
  ASSUME NEW s, Sound(s), NEW t \in Ids, Exists(s, t), NEW n \in Nat,
         NEW u, u = UpdateTaskTimeout([s EXCEPT !.task[t].timeout = n], t)
  PROVE  Sound(u) /\ Retimed(s, t, n, u)
<1> DEFINE k == [s.task[t] EXCEPT !.timeout = n]
           v == [s EXCEPT !.task[t] = k]
<1>1. s \in Runner /\ s.task[t] \in TaskRecord
  BY Fields DEF Sound
<1>2. k \in TaskRecord
  BY <1>1 DEF TaskRecord
<1>3. /\ k.phase = s.task[t].phase /\ k.parent = s.task[t].parent /\ k.timeout = n
      /\ k.done = s.task[t].done /\ k.blocked = s.task[t].blocked
  BY <1>1 DEF TaskRecord
<1>4. u = UpdateTaskTimeout(v, t)
  OBVIOUS
<1>5. k = [s.task[t] EXCEPT !.timeout = n]
  OBVIOUS
<1> HIDE DEF k
<1>6. /\ v \in Runner /\ v.tasks = s.tasks /\ v.next = s.next /\ v.pump = s.pump /\ v.task[t] = k
      /\ \A c \in Ids : c # t => v.task[c] = s.task[c]
  BY <1>1, <1>2, OneTask
<1> HIDE DEF v
<1>7. Retimed(s, t, n, v) /\ Exists(v, t)
  BY <1>3, <1>5, <1>6 DEF Retimed, Exists
<1>8. Shape(v)
  <2>1. Held(s.tasks) \subseteq Ids
    BY <1>1, Fields
  <2> QED BY <1>3, <1>6, <2>1 DEF Sound, Shape, Exists
<1>9. /\ v.next # NULL => Exists(v, v.next)
      /\ v.next \in {NULL} \cup Ids
      /\ \A c \in Held(s.tasks) : Waits(v, c) => c = t \/ v.next # NULL
  <2>1. Held(s.tasks) \subseteq Ids /\ s.next \in {NULL} \cup Ids
    BY <1>1, Fields
  <2> QED BY <1>3, <1>6, <2>1 DEF Sound, Watched, Exists, Waits
<1>10. CASE v.task[t].timeout > 0
  <2>1. CASE v.next = NULL \/ v.task[t].timeout <= v.task[v.next].timeout
    <3>1. u = [v EXCEPT !.next = t]
      BY <1>4, <1>10, <2>1 DEF UpdateTaskTimeout
    <3>2. u \in Runner /\ u.task = v.task /\ u.tasks = v.tasks /\ u.pump = v.pump /\ u.next = t
      BY <1>6, <3>1 DEF Runner
    <3>3. t # NULL
      BY DEF NULL, Ids
    <3>4. Shape(u) /\ Exists(u, t)
      BY <1>7, <1>8, <3>2 DEF Shape, Exists
    <3>5. Retimed(s, t, n, u)
      BY <1>7, <3>2 DEF Retimed
    <3> QED BY <3>2, <3>3, <3>4, <3>5 DEF Sound, Watched
  <2>2. CASE ~(v.next = NULL \/ v.task[t].timeout <= v.task[v.next].timeout)
    <3>1. u = v
      BY <1>4, <1>10, <2>2 DEF UpdateTaskTimeout
    <3> QED BY <1>6, <1>7, <1>8, <1>9, <2>2, <3>1 DEF Sound, Watched
  <2> QED BY <2>1, <2>2
<1>11. CASE ~(v.task[t].timeout > 0)
  <2>0. ~Waits(v, t)
    BY <1>11 DEF Waits
  <2>1. CASE v.next = t
    <3>1. u = RecalcNextTimeout(v, t)
      BY <1>4, <1>11, <2>1 DEF UpdateTaskTimeout
    <3>2. /\ u \in Runner /\ u.task = v.task /\ u.tasks = v.tasks /\ u.pump = v.pump
          /\ u.next # NULL => Exists(v, u.next)
          /\ \A c \in Held(v.tasks) : Waits(v, c) /\ c # t => u.next # NULL
      <4>1. v \in Runner /\ Shape(v)
        BY <1>6, <1>8
      <4> HIDE DEF RecalcNextTimeout
      <4>2. u \in Runner /\ u.task = v.task /\ u.tasks = v.tasks /\ u.pump = v.pump
        BY <3>1, <4>1, RecalcFacts
      <4>3. u.next # NULL => Exists(v, u.next)
        BY <3>1, <4>1, RecalcFacts
      <4>4. \A c \in Held(v.tasks) : Waits(v, c) /\ c # t => u.next # NULL
        BY <3>1, <4>1, RecalcFacts
      <4> QED BY <4>2, <4>3, <4>4
    <3>4. Shape(u) /\ (u.next # NULL => Exists(u, u.next))
      BY <1>8, <3>2 DEF Shape, Exists
    <3>5. Retimed(s, t, n, u)
      BY <1>7, <3>2 DEF Retimed
    <3>6. \A c \in Held(u.tasks) : Waits(u, c) => u.next # NULL
      BY <2>0, <3>2 DEF Waits
    <3> QED BY <3>2, <3>4, <3>5, <3>6 DEF Sound, Watched
  <2>2. CASE v.next # t
    <3>1. u = v
      BY <1>4, <1>11, <2>2 DEF UpdateTaskTimeout
    <3> QED BY <1>6, <1>7, <1>8, <1>9, <2>0, <3>1 DEF Sound, Watched
  <2> QED BY <2>1, <2>2
<1> QED BY <1>10, <1>11

\* ResetTimeout and ClearTimeout give t a timeout.
LEMMA TimeoutFacts ==
  ASSUME NEW s, Sound(s), NEW t \in Ids, Exists(s, t), now \in Nat
  PROVE  /\ Sound(ResetTimeout(s, t)) /\ \E n \in Nat : Retimed(s, t, n, ResetTimeout(s, t))
         /\ Sound(ClearTimeout(s, t)) /\ \E n \in Nat : Retimed(s, t, n, ClearTimeout(s, t))
<1>1. s.task[t].secs \in Nat
  <2>1. s.task[t].secs \in Timeouts
    BY Fields DEF Sound
  <2> QED BY <2>1, TaskRunnerAssumption
<1> DEFINE m == IF s.task[t].secs > 0 /\ s.task[t].state \in {"START", "RESPONSE"}
                THEN now + s.task[t].secs ELSE 0
<1>2. m \in Nat /\ ResetTimeout(s, t) = UpdateTaskTimeout([s EXCEPT !.task[t].timeout = m], t)
  BY <1>1 DEF ResetTimeout
<1>3. ClearTimeout(s, t) = UpdateTaskTimeout([s EXCEPT !.task[t].timeout = 0], t)
  BY DEF ClearTimeout
<1> HIDE DEF m, UpdateTaskTimeout, ResetTimeout, ClearTimeout
<1>4. Sound(ResetTimeout(s, t)) /\ Retimed(s, t, m, ResetTimeout(s, t))
  BY <1>2, UpdateFacts
<1>5. Sound(ClearTimeout(s, t)) /\ Retimed(s, t, 0, ClearTimeout(s, t))
  BY <1>3, UpdateFacts
<1> QED BY <1>2, <1>4, <1>5

\* A new timeout changes nothing else of t.
LEMMA RetimedFrame ==
  ASSUME NEW s \in Runner, NEW t \in Ids, NEW n \in Nat, NEW u, Retimed(s, t, n, u)
  PROVE  /\ SameFamilies(s, u) /\ (Heard(s) => Heard(u))
         /\ \A c \in Ids : u.task[c].blocked = s.task[c].blocked
<1>1. s.task[t] \in TaskRecord /\ Held(s.tasks) \subseteq Ids
  BY Fields
<1>2. /\ u.task[t].phase = s.task[t].phase /\ u.task[t].parent = s.task[t].parent
      /\ u.task[t].done = s.task[t].done /\ u.task[t].blocked = s.task[t].blocked
      /\ u.task[t].aborted = s.task[t].aborted
  <2>1. u.task[t] = [s.task[t] EXCEPT !.timeout = n]
    BY DEF Retimed
  <2> QED BY <1>1, <2>1 DEF TaskRecord
<1>3. \A c \in Ids : c # t => u.task[c] = s.task[c]
  BY DEF Retimed
<1>4. \A c \in Ids : u.task[c].blocked = s.task[c].blocked
  BY <1>2, <1>3
<1> QED BY <1>1, <1>2, <1>3, <1>4 DEF SameFamilies, Heard, Retimed

-----------------------------------------------------------------------------
(* Deeds.                                                                  *)

\* WakeTasks only posts the runner's message.
LEMMA WakeTasksFacts ==
  ASSUME NEW s \in Runner
  PROVE  /\ WakeTasks(s) \in Runner /\ WakeTasks(s).task = s.task /\ WakeTasks(s).tasks = s.tasks
         /\ WakeTasks(s).next = s.next /\ WakeTasks(s).pump
         /\ Heard(WakeTasks(s)) /\ SameFamilies(s, WakeTasks(s))
         /\ Sound(s) => Flags(s, WakeTasks(s))
<1>1. /\ WakeTasks(s) \in Runner /\ WakeTasks(s).task = s.task /\ WakeTasks(s).tasks = s.tasks
      /\ WakeTasks(s).next = s.next /\ WakeTasks(s).pump
  BY DEF WakeTasks, Runner
<1> QED BY <1>1 DEF Heard, SameFamilies, Flags, Sound, Shape

\* What a deed leaves true, while Process of b runs.
Deed(s, b, u) ==
  /\ Sound(u) /\ (Heard(s) => Heard(u))
  /\ Len(u.tasks) >= Len(s.tasks)
  /\ b \in Ids => Exists(u, b) /\ u.task[b].done = s.task[b].done
  /\ ~LateChildren /\ Families(s, b) => Families(u, b)

\* Other flags, with the families as they were, are a deed.
LEMMA FlagsDeed ==
  ASSUME NEW s, Sound(s), NEW b, b \in Ids => Exists(s, b), NEW u, Flags(s, u), SameFamilies(s, u),
         Heard(s) => Heard(u)
  PROVE  Deed(s, b, u)
<1>1. s \in Runner
  BY DEF Sound
<1>2. Sound(u)
  BY FlagsSound
<1>3. Families(s, b) => Families(u, b)
  BY <1>1, FamiliesFrame
<1>4. Len(u.tasks) >= Len(s.tasks)
  <2>1. s.tasks \in Seq(Ids) /\ u.tasks = s.tasks
    BY <1>1, Fields DEF Flags
  <2> QED BY <2>1
<1>5. b \in Ids => Exists(u, b) /\ u.task[b].done = s.task[b].done
  BY DEF SameFamilies, Exists
<1> QED BY <1>2, <1>3, <1>4, <1>5 DEF Deed

\* A new task is younger than its parent, and announced.
LEMMA StartDeed ==
  ASSUME NEW s, Sound(s), NEW b, b \in Ids => Exists(s, b),
         NEW t \in Ids, s.task[t].phase = "none", \A c \in Ids : c < t => s.task[c].phase # "none",
         NEW n \in Timeouts, NEW p,
         p = 0 \/ (p \in Ids /\ Exists(s, p) /\ (LateChildren \/ ~s.task[p].done)),
         NEW u, u = StartTask(s, t, p, n)
  PROVE  Deed(s, b, u) /\ Heard(u)
<1> DEFINE k == [NoTask EXCEPT !.phase = "live", !.parent = p, !.secs = n]
           q == Append(s.tasks, t)
           v == [s EXCEPT !.task[t] = k, !.tasks = q]
<1>1. /\ s \in Runner /\ Shape(s) /\ Watched(s) /\ s.task \in [Ids -> TaskRecord]
      /\ s.tasks \in Seq(Ids) /\ Held(s.tasks) \subseteq Ids /\ s.next \in {NULL} \cup Ids
  BY Fields DEF Sound
<1>2. /\ k.phase = "live" /\ k.parent = p /\ k.secs = n /\ ~k.done /\ ~k.blocked /\ k.timeout = 0
      /\ p \in 0..MaxTasks => k \in TaskRecord
  <2>1. n \in Nat
    BY TaskRunnerAssumption
  <2> QED BY <2>1 DEF NoTask, TaskRecord, TaskStates
<1>3. p \in 0..MaxTasks /\ p < t /\ p # t
  <2>1. t \in 1..MaxTasks /\ MaxTasks \in Nat
    BY TaskRunnerAssumption DEF Ids
  <2>2. CASE p = 0
    BY <2>1, <2>2
  <2>3. CASE p # 0
    <3>1. p \in Ids /\ s.task[p].phase = "live"
      BY <2>3 DEF Exists
    <3>2. ~(t < p)
      BY <1>1, <3>1 DEF Shape
    <3>3. p # t
      BY <3>1
    <3> QED BY <2>1, <3>1, <3>2, <3>3 DEF Ids
  <2> QED BY <2>2, <2>3
<1>4. q \in Seq(Ids) /\ Held(q) = Held(s.tasks) \cup {t} /\ Len(q) >= Len(s.tasks)
  BY <1>1, AppendQueue
<1>5. u = WakeTasks(v)
  BY DEF StartTask
<1> HIDE DEF k, q
<1>6. /\ v \in Runner /\ v.tasks = q /\ v.next = s.next /\ v.task[t] = k
      /\ \A c \in Ids : c # t => v.task[c] = s.task[c]
  BY <1>1, <1>2, <1>3, <1>4 DEF Runner
<1> HIDE DEF v
<1>7. /\ u \in Runner /\ u.tasks = q /\ u.next = s.next /\ u.task[t] = k /\ Heard(u)
      /\ \A c \in Ids : c # t => u.task[c] = s.task[c]
  BY <1>5, <1>6, WakeTasksFacts
<1>8. Shape(u)
  <2>1. \A c \in Ids : u.task[c].parent < c
    BY <1>1, <1>2, <1>3, <1>7 DEF Shape
  <2>2. \A c \in Held(u.tasks) : Exists(u, c)
    BY <1>1, <1>2, <1>4, <1>7 DEF Shape, Exists
  <2>3. \A c, d \in Ids : d < c /\ u.task[d].phase = "none" => u.task[c].phase = "none"
    BY <1>1, <1>2, <1>7 DEF Shape
  <2>4. \A c \in Ids : u.task[c].done => u.task[c].blocked
    BY <1>1, <1>2, <1>7 DEF Shape
  <2> QED BY <2>1, <2>2, <2>3, <2>4 DEF Shape
<1>9. Watched(u)
  <2>1. u.next # NULL => Exists(u, u.next)
    BY <1>1, <1>2, <1>7 DEF Watched, Exists
  <2>2. ASSUME NEW c \in Held(u.tasks), Waits(u, c) PROVE u.next # NULL
    <3>1. c # t /\ c \in Held(s.tasks) /\ Waits(s, c)
      BY <1>1, <1>2, <1>4, <1>7, <2>2 DEF Waits
    <3> QED BY <1>1, <1>7, <3>1 DEF Watched
  <2> QED BY <2>1, <2>2 DEF Watched
<1>10. b \in Ids => b # t /\ Exists(u, b) /\ u.task[b] = s.task[b]
  BY <1>7 DEF Exists
<1>11. ASSUME ~LateChildren, Families(s, b) PROVE Families(u, b)
  <2>1. Cared(u, t)
    BY <1>2, <1>3, <1>7, <1>11 DEF Cared, Exists
  <2>2. ASSUME NEW c \in Ids, c # t, Cared(s, c) PROVE Cared(u, c)
    <3>1. s.task[c].parent # 0 => s.task[c].parent \in Ids
      BY <1>1, Fields DEF Ids
    <3> QED BY <1>2, <1>7, <2>2, <3>1 DEF Cared, Exists
  <2>3. \A c \in Ids : c # b => Cared(u, c)
    BY <1>11, <2>1, <2>2 DEF Families
  <2>4. b \in Ids /\ ~u.task[b].aborted => Cared(u, b)
    BY <1>10, <1>11, <2>2 DEF Families
  <2> QED BY <2>3, <2>4 DEF Families
<1> QED BY <1>4, <1>7, <1>8, <1>9, <1>10, <1>11 DEF Deed, Sound

\* Abort is a deed.
LEMMA AbortDeed ==
  ASSUME NEW s, Sound(s), NEW b \in {NULL} \cup Ids, b \in Ids => Exists(s, b),
         NEW t \in Ids, Exists(s, t), NEW u, u = Abort(s, t, b)
  PROVE  Deed(s, b, u)
<1>0. s \in Runner /\ s.tasks \in Seq(Ids)
  BY Fields DEF Sound
<1>1. CASE s.task[t].done
  <2>1. u = s
    BY <1>1 DEF Abort
  <2> QED BY <1>0, <2>1 DEF Deed
<1>2. CASE ~s.task[t].done
  <2> DEFINE v == AbortTree(s, t, b)
  <2>1. u = v \/ u = WakeTasks(v)
    BY <1>2 DEF Abort
  <2> HIDE DEF v
  <2>2. /\ Flags(s, v) /\ (Heard(s) => Heard(v))
        /\ \A c \in Ids :
              /\ c \notin AbortedWith(s, t, b) => v.task[c] = s.task[c]
              /\ c \in AbortedWith(s, t, b) /\ c = b =>
                   v.task[c].aborted /\ v.task[c].done = s.task[c].done
    BY AbortTreeFacts DEF v
  <2>3. Families(s, b) => Families(v, b)
    BY <1>2, AbortTreeFamilies DEF Families, v
  <2>4. Sound(v) /\ v \in Runner /\ v.tasks = s.tasks
    BY <2>2, FlagsSound DEF Flags
  <2>5. b \in Ids => Exists(v, b) /\ v.task[b].done = s.task[b].done
    BY <2>2 DEF Exists, Flags
  <2>6. Deed(s, b, v)
    BY <1>0, <2>2, <2>3, <2>4, <2>5 DEF Deed
  <2>7. Deed(v, b, WakeTasks(v))
    BY <2>4, <2>5, WakeTasksFacts, FlagsDeed
  <2>8. Deed(s, b, WakeTasks(v))
    <3>1. Len(WakeTasks(v).tasks) >= Len(s.tasks)
      BY <1>0, <2>4, WakeTasksFacts
    <3> QED BY <2>5, <2>6, <2>7, <3>1 DEF Deed
  <2> QED BY <2>1, <2>6, <2>8
<1> QED BY <1>1, <1>2

\* What code on the runner's thread does leaves the runner sound.
LEMMA DeedFacts ==
  ASSUME NEW s, Sound(s), NEW b \in {NULL} \cup Ids, b \in Ids => Exists(s, b), now \in Nat,
         NEW u \in DeedsOf(s, b)
  PROVE  Deed(s, b, u)
<1> DEFINE new == {t \in Ids : s.task[t].phase = "none"
                             /\ \A c \in Ids : c < t => s.task[c].phase # "none"}
           old == {t \in Ids : Exists(s, t)}
           Sec(t, n) == [s EXCEPT !.task[t].secs = n]
<1>0. s \in Runner
  BY DEF Sound
<1>1. \/ \E t \in new, n \in Timeouts, p \in {0} \cup {c \in old : LateChildren \/ ~s.task[c].done} :
           u = StartTask(s, t, p, n)
      \/ \E t \in old : u = Wake(s, t) \/ u = Abort(s, t, b) \/ u = Error(s, t)
      \/ \E t \in old, n \in Timeouts : u = ResetTimeout(Sec(t, n), t)
  BY DEF DeedsOf
<1> HIDE DEF Sec
<1>2. ASSUME NEW t \in new, NEW n \in Timeouts,
             NEW p \in {0} \cup {c \in old : LateChildren \/ ~s.task[c].done}, u = StartTask(s, t, p, n)
      PROVE  Deed(s, b, u)
  <2>1. p = 0 \/ (p \in Ids /\ Exists(s, p) /\ (LateChildren \/ ~s.task[p].done))
    OBVIOUS
  <2>2. t \in Ids /\ s.task[t].phase = "none" /\ \A c \in Ids : c < t => s.task[c].phase # "none"
    OBVIOUS
  <2> HIDE DEF new, old
  <2> QED BY <1>2, <2>1, <2>2, StartDeed
<1>3. ASSUME NEW t \in old, u = Wake(s, t) PROVE Deed(s, b, u)
  <2>1. /\ Flags(s, u) /\ SameFamilies(s, u) /\ (u = s \/ u.pump)
    BY <1>3, WakeFacts
  <2>2. Heard(s) => Heard(u)
    BY <2>1 DEF Heard
  <2> QED BY <2>1, <2>2, FlagsDeed
<1>4. ASSUME NEW t \in old, u = Abort(s, t, b) PROVE Deed(s, b, u)
  BY <1>4, AbortDeed
<1>5. ASSUME NEW t \in old, u = Error(s, t) PROVE Deed(s, b, u)
  <2>1. /\ Flags(s, u) /\ SameFamilies(s, u) /\ (Heard(s) => Heard(u))
    BY <1>5, ErrorFacts
  <2> QED BY <2>1, FlagsDeed
<1>6. ASSUME NEW t \in old, NEW n \in Timeouts, u = ResetTimeout(Sec(t, n), t) PROVE Deed(s, b, u)
  <2> DEFINE k == [s.task[t] EXCEPT !.secs = n]
             v == [s EXCEPT !.task[t] = k]
  <2>1. s.task[t] \in TaskRecord /\ t \in Ids /\ Exists(s, t)
    BY <1>0, Fields
  <2>2. k \in TaskRecord
    BY <2>1 DEF TaskRecord
  <2>3. /\ k.phase = s.task[t].phase /\ k.parent = s.task[t].parent /\ k.timeout = s.task[t].timeout
        /\ k.done = s.task[t].done /\ k.blocked = s.task[t].blocked /\ k.aborted = s.task[t].aborted
    BY <2>1 DEF TaskRecord
  <2>4. Sec(t, n) = v
    BY DEF Sec
  <2> HIDE DEF k
  <2>5. /\ v \in Runner /\ v.tasks = s.tasks /\ v.next = s.next /\ v.pump = s.pump /\ v.task[t] = k
        /\ \A c \in Ids : c # t => v.task[c] = s.task[c]
    BY <1>0, <2>1, <2>2, OneTask
  <2> HIDE DEF v
  <2>6. Flags(s, v) /\ SameFamilies(s, v) /\ (Heard(s) => Heard(v))
    <3>1. \A c \in Ids : v.task[c].blocked = s.task[c].blocked
      BY <2>3, <2>5
    <3>2. Held(s.tasks) \subseteq Ids
      BY <1>0, Fields
    <3> QED BY <2>3, <2>5, <3>1, <3>2 DEF Flags, SameFamilies, Sound, Shape, Heard
  <2>7. Sound(v) /\ Exists(v, t)
    BY <2>1, <2>6, FlagsSound DEF Flags, Exists
  <2>8. u = ResetTimeout(v, t)
    BY <1>6, <2>4
  <2>9. PICK m \in Nat : Sound(u) /\ Retimed(v, t, m, u)
    BY <2>1, <2>7, <2>8, TimeoutFacts
  <2>10. SameFamilies(v, u) /\ (Heard(v) => Heard(u))
    BY <2>1, <2>5, <2>9, RetimedFrame
  <2>11. SameFamilies(s, u) /\ (Heard(s) => Heard(u))
    BY <2>6, <2>10 DEF SameFamilies
  <2>12. Families(s, b) => Families(u, b)
    BY <1>0, <2>11, FamiliesFrame
  <2>13. s.tasks \in Seq(Ids) /\ u.tasks = s.tasks
    BY <1>0, <2>5, <2>9, Fields DEF Retimed
  <2>14. Len(u.tasks) >= Len(s.tasks)
    BY <2>13
  <2>15. b \in Ids => Exists(u, b) /\ u.task[b].done = s.task[b].done
    BY <2>11 DEF SameFamilies, Exists
  <2> QED BY <2>9, <2>11, <2>12, <2>14, <2>15 DEF Deed
<1> QED BY <1>1, <1>2, <1>3, <1>4, <1>5, <1>6

-----------------------------------------------------------------------------
(* The steps of the runner.                                                *)

\* A task that is done takes its children with it.
LEMMA StopFacts ==
  ASSUME NEW s, Sound(s), NEW t \in Ids, Exists(s, t), NEW k \in TaskRecord,
         k.phase = s.task[t].phase, k.parent = s.task[t].parent, k.timeout = s.task[t].timeout,
         k.done, k.blocked, NEW u, u = AbortTree([s EXCEPT !.task[t] = k], t, NULL)
  PROVE  /\ Sound(u) /\ u.tasks = s.tasks
         /\ Families(s, t) => Families(u, NULL)
<1> DEFINE v == [s EXCEPT !.task[t] = k]
<1>0. s \in Runner /\ t # NULL
  BY DEF Sound, Ids, NULL
<1>1. /\ v \in Runner /\ v.tasks = s.tasks /\ v.next = s.next /\ v.task[t] = k
      /\ \A c \in Ids : c # t => v.task[c] = s.task[c]
  BY <1>0, OneTask
<1>2. u = AbortTree(v, t, NULL)
  OBVIOUS
<1> HIDE DEF v
<1>3. Flags(s, v)
  BY <1>1 DEF Flags, Sound, Shape
<1>4. Sound(v) /\ Exists(v, t)
  BY <1>3, FlagsSound DEF Flags, Exists
<1>5. Flags(v, u)
  BY <1>2, <1>4, AbortTreeFacts
<1>6. Sound(u) /\ u.tasks = s.tasks
  BY <1>1, <1>4, <1>5, FlagsSound DEF Flags
<1>7. ASSUME Families(s, t) PROVE Families(u, NULL)
  <2>1. ASSUME NEW c \in Ids, c # t PROVE Cared(v, c) \/ v.task[c].parent = t
    <3>1. s.task[c].parent # 0 => s.task[c].parent \in Ids
      BY <1>0, Fields DEF Ids
    <3>2. Cared(s, c)
      BY <1>7, <2>1 DEF Families
    <3> QED BY <1>1, <2>1, <3>1, <3>2 DEF Cared, Exists
  <2>2. NULL \in {NULL} \cup Ids /\ NULL \notin Ids
    BY DEF NULL, Ids
  <2> QED BY <1>0, <1>2, <1>4, <2>1, <2>2, AbortTreeFamilies
<1> QED BY <1>6, <1>7

\* Nobody is spared when the busy task was not marked.
LEMMA NoneMarked ==
  ASSUME NEW s, NEW t \in Ids, Families(s, t), ~s.task[t].aborted
  PROVE  Families(s, NULL)
<1>1. NULL \notin Ids
  BY DEF NULL, Ids
<1> QED BY <1>1 DEF Families

\* The end of a step: an aborted task is stopped, a blocked one waits, one that goes on gets
\* its timeout, one that is done stops.
LEMMA AfterFacts ==
  ASSUME NEW s, Sound(s), NEW t \in Ids, Exists(s, t), ~s.task[t].done, now \in Nat,
         NEW state \in {"BLOCKED", "START", "RESPONSE", "DONE", "ERROR"},
         NEW u, u = AfterProcess(s, t, state)
  PROVE  /\ Sound(u) /\ u.tasks = s.tasks
         /\ Families(s, t) => Families(u, NULL)
<1>0. s \in Runner /\ s.task[t] \in TaskRecord /\ s.tasks \in Seq(Ids) /\ t # NULL
      /\ s.task[t].aborted \in BOOLEAN
  BY Fields DEF Sound, Ids, NULL
<1>1. CASE s.task[t].aborted
  <2>1. u = AbortTree(s, t, NULL)
    BY <1>1 DEF AfterProcess
  <2>2. Flags(s, u)
    BY <2>1, AbortTreeFacts
  <2>3. Sound(u) /\ u.tasks = s.tasks
    BY <2>2, FlagsSound DEF Flags
  <2>4. NULL \in {NULL} \cup Ids /\ NULL \notin Ids
    BY DEF NULL, Ids
  <2>5. Families(s, t) => \A c \in Ids : c # t => Cared(s, c)
    BY DEF Families
  <2>6. Families(s, t) => Families(u, NULL)
    BY <1>0, <2>1, <2>4, <2>5, AbortTreeFamilies
  <2> QED BY <2>3, <2>6
<1>2. CASE ~s.task[t].aborted /\ state = "BLOCKED"
  <2> DEFINE k == [s.task[t] EXCEPT !.blocked = TRUE]
             v == [s EXCEPT !.task[t] = k]
  <2>1. k \in TaskRecord
    BY <1>0 DEF TaskRecord
  <2>2. /\ k.phase = s.task[t].phase /\ k.parent = s.task[t].parent /\ k.timeout = s.task[t].timeout
        /\ k.done = s.task[t].done /\ k.blocked /\ k.aborted = s.task[t].aborted
    BY <1>0 DEF TaskRecord
  <2>3. u = v
    BY <1>2 DEF AfterProcess
  <2> HIDE DEF k
  <2>4. /\ v \in Runner /\ v.tasks = s.tasks /\ v.next = s.next /\ v.task[t] = k
        /\ \A c \in Ids : c # t => v.task[c] = s.task[c]
    BY <1>0, <2>1, OneTask
  <2> HIDE DEF v
  <2>5. Flags(s, v) /\ SameFamilies(s, v)
    BY <2>2, <2>4 DEF Flags, SameFamilies, Sound, Shape
  <2>6. Sound(v)
    BY <2>5, FlagsSound
  <2>7. Families(s, t) => Families(v, NULL)
    BY <1>0, <1>2, <2>5, NoneMarked, FamiliesFrame
  <2> QED BY <2>3, <2>4, <2>6, <2>7
<1>3. CASE ~s.task[t].aborted /\ state # "BLOCKED"
  <2> DEFINE k == [s.task[t] EXCEPT !.state = state, !.blocked = FALSE]
             v == [s EXCEPT !.task[t] = k]
             w == ResetTimeout(v, t)
  <2>1. k \in TaskRecord
    BY <1>0, <1>3 DEF TaskRecord, TaskStates
  <2>2. /\ k.phase = s.task[t].phase /\ k.parent = s.task[t].parent /\ k.timeout = s.task[t].timeout
        /\ k.done = s.task[t].done /\ k.aborted = s.task[t].aborted
    BY <1>0 DEF TaskRecord
  <2>3. v = [s EXCEPT !.task[t].state = state, !.task[t].blocked = FALSE]
    BY <1>0 DEF Runner, TaskRecord
  <2>4. /\ state \in {"START", "RESPONSE"} => u = w
        /\ state \in {"DONE", "ERROR"} =>
             u = AbortTree([w EXCEPT !.task[t].done = TRUE, !.task[t].blocked = TRUE,
                                     !.task[t].error = state = "ERROR"], t, NULL)
    BY <1>3, <2>3 DEF AfterProcess
  <2> HIDE DEF k
  <2>5. /\ v \in Runner /\ v.tasks = s.tasks /\ v.next = s.next /\ v.task[t] = k
        /\ \A c \in Ids : c # t => v.task[c] = s.task[c]
    BY <1>0, <2>1, OneTask
  <2> HIDE DEF v
  <2>6. Flags(s, v) /\ SameFamilies(s, v)
    BY <2>2, <2>5 DEF Flags, SameFamilies, Sound, Shape
  <2>7. Sound(v) /\ Exists(v, t)
    BY <2>6, FlagsSound DEF Flags, Exists
  <2>8. PICK m \in Nat : Sound(w) /\ Retimed(v, t, m, w)
    BY <2>7, TimeoutFacts
  <2> HIDE DEF w
  <2>9. SameFamilies(v, w) /\ w.tasks = s.tasks /\ w \in Runner
    BY <2>5, <2>8, RetimedFrame DEF Retimed
  <2>10. SameFamilies(s, w)
    BY <2>6, <2>9 DEF SameFamilies
  <2>11. CASE state \in {"START", "RESPONSE"}
    <3>1. Families(s, t) => Families(w, NULL)
      BY <1>0, <1>3, <2>10, NoneMarked, FamiliesFrame
    <3> QED BY <2>4, <2>8, <2>9, <2>11, <3>1
  <2>12. CASE state \in {"DONE", "ERROR"}
    <3> DEFINE e == state = "ERROR"
               j == [w.task[t] EXCEPT !.done = TRUE, !.blocked = TRUE, !.error = e]
    <3>1. w.task[t] \in TaskRecord /\ e \in BOOLEAN
      BY <2>9, Fields
    <3> HIDE DEF e
    <3>2. j \in TaskRecord
      BY <3>1 DEF TaskRecord
    <3>3. /\ j.phase = w.task[t].phase /\ j.parent = w.task[t].parent
          /\ j.timeout = w.task[t].timeout /\ j.done /\ j.blocked
      BY <3>1 DEF TaskRecord
    <3>4. [w EXCEPT !.task[t] = j]
            = [w EXCEPT !.task[t].done = TRUE, !.task[t].blocked = TRUE, !.task[t].error = e]
      BY <2>9, <3>1 DEF Runner, TaskRecord
    <3>5. u = AbortTree([w EXCEPT !.task[t] = j], t, NULL)
      BY <2>4, <2>12, <3>4 DEF e
    <3> HIDE DEF j
    <3>6. Exists(w, t)
      BY <2>7, <2>9 DEF SameFamilies, Exists
    <3>7. Sound(u) /\ u.tasks = w.tasks /\ (Families(w, t) => Families(u, NULL))
      BY <2>8, <3>2, <3>3, <3>5, <3>6, StopFacts
    <3>8. Families(s, t) => Families(w, t)
      BY <1>0, <2>10, FamiliesFrame
    <3> QED BY <2>9, <3>7, <3>8
  <2> QED BY <1>3, <2>11, <2>12
<1> QED BY <1>0, <1>1, <1>2, <1>3

\* The step of a failed task.
LEMMA FailedFacts ==
  ASSUME NEW s, Sound(s), NEW t \in Ids, Exists(s, t), NEW u, u = StepFailed(s, t)
  PROVE  /\ Sound(u) /\ u.tasks = s.tasks
         /\ Families(s, t) => Families(u, NULL)
<1> DEFINE j == [s.task[t] EXCEPT !.done = TRUE, !.state = "ERROR", !.blocked = TRUE]
<1>1. s \in Runner /\ s.task[t] \in TaskRecord
  BY Fields DEF Sound
<1>2. j \in TaskRecord
  BY <1>1 DEF TaskRecord, TaskStates
<1>3. /\ j.phase = s.task[t].phase /\ j.parent = s.task[t].parent
      /\ j.timeout = s.task[t].timeout /\ j.done /\ j.blocked
  BY <1>1 DEF TaskRecord
<1>4. [s EXCEPT !.task[t] = j]
        = [s EXCEPT !.task[t].done = TRUE, !.task[t].state = "ERROR", !.task[t].blocked = TRUE]
  BY <1>1 DEF Runner, TaskRecord
<1>5. u = AbortTree([s EXCEPT !.task[t] = j], t, NULL)
  BY <1>4 DEF StepFailed
<1> HIDE DEF j
<1> QED BY <1>2, <1>3, <1>5, StopFacts

\* The deletions, when all tasks are blocked: next_timeout_task_ is not left dangling, and
\* nobody loses a living parent.
LEMMA DeleteFacts ==
  ASSUME NEW s, Sound(s), \A c \in Held(s.tasks) : s.task[c].blocked, NEW u, u = DeleteDone(s)
  PROVE  /\ Sound(u) /\ Heard(u)
         /\ Families(s, NULL) => Families(u, NULL)
<1> DEFINE dead == {t \in Ids : Started(s, t) /\ s.task[t].done}
           G == [t \in Ids |-> IF t \in dead THEN Gone ELSE s.task[t]]
           q == Without(s.tasks, dead)
           v == [s EXCEPT !.task = G, !.tasks = q]
<1>0. /\ s \in Runner /\ Shape(s) /\ Watched(s) /\ s.task \in [Ids -> TaskRecord]
      /\ s.tasks \in Seq(Ids) /\ Held(s.tasks) \subseteq Ids /\ s.next \in {NULL} \cup Ids
  BY Fields DEF Sound
<1>1. \A t \in Ids : t \in dead <=> t \in Held(s.tasks) /\ s.task[t].done
  BY <1>0 DEF Started, Contains, Held
<1>2. u = IF s.next \in dead THEN RecalcNextTimeout(v, NULL) ELSE v
  BY DEF DeleteDone
<1>3. /\ Gone \in TaskRecord /\ Gone.phase = "deleted" /\ Gone.parent = 0 /\ ~Gone.done
  <2>1. 0 \in Timeouts /\ 0 \in 0..MaxTasks
    BY TaskRunnerAssumption
  <2> QED BY <2>1 DEF Gone, NoTask, TaskRecord, TaskStates
<1>4. q \in Seq(Ids) /\ Held(q) = Held(s.tasks) \ dead
  BY <1>0, WithoutQueue
<1>5. dead \subseteq Ids
  OBVIOUS
<1>6. /\ G \in [Ids -> TaskRecord]
      /\ \A t \in Ids : G[t] = IF t \in dead THEN Gone ELSE s.task[t]
  BY <1>0, <1>3
<1> HIDE DEF dead, G, q
<1>7. /\ v \in Runner /\ v.task = G /\ v.tasks = q /\ v.next = s.next
  BY <1>0, <1>4, <1>6 DEF Runner
<1> HIDE DEF v
<1>8. Shape(v)
  <2>1. \A t \in Ids : v.task[t].parent < t
    BY <1>0, <1>3, <1>6, <1>7 DEF Shape, Ids
  <2>2. \A t \in Held(v.tasks) : Exists(v, t)
    BY <1>0, <1>4, <1>6, <1>7 DEF Shape, Exists
  <2>3. \A t \in Ids : v.task[t].phase = "none" <=> s.task[t].phase = "none"
    BY <1>0, <1>1, <1>3, <1>6, <1>7 DEF Shape, Exists
  <2>4. \A t \in Ids : v.task[t].done => v.task[t].blocked
    BY <1>0, <1>3, <1>6, <1>7 DEF Shape
  <2> QED BY <1>0, <2>1, <2>2, <2>3, <2>4 DEF Shape
<1>9. /\ u \in Runner /\ u.task = G /\ u.tasks = q /\ Watched(u)
  <2>1. CASE s.next \in dead
    <3>1. u = RecalcNextTimeout(v, NULL)
      BY <1>2, <2>1
    <3>2. u \in Runner /\ u.task = v.task /\ u.tasks = v.tasks
      BY <1>7, <1>8, <3>1, RecalcFacts
    <3>3. u.next # NULL => Exists(v, u.next)
      BY <1>7, <1>8, <3>1, RecalcFacts
    <3>4. \A t \in Held(v.tasks) : Waits(v, t) /\ t # NULL => u.next # NULL
      BY <1>7, <1>8, <3>1, RecalcFacts
    <3>5. \A t \in Held(v.tasks) : t # NULL
      BY <1>0, <1>4, <1>7 DEF NULL, Ids
    <3> QED BY <1>7, <3>2, <3>3, <3>4, <3>5 DEF Watched, Exists, Waits
  <2>2. CASE s.next \notin dead
    <3>1. u = v
      BY <1>2, <2>2
    <3>2. v.next # NULL => Exists(v, v.next)
      BY <1>0, <1>6, <1>7, <2>2 DEF Watched, Exists
    <3>3. ASSUME NEW t \in Held(v.tasks), Waits(v, t) PROVE v.next # NULL
      <4>1. t \in Held(s.tasks) /\ Waits(s, t)
        BY <1>0, <1>4, <1>6, <1>7, <3>3 DEF Waits
      <4> QED BY <1>0, <1>7, <4>1 DEF Watched
    <3> QED BY <1>7, <3>1, <3>2, <3>3 DEF Watched
  <2> QED BY <2>1, <2>2
<1>10. Sound(u)
  BY <1>7, <1>8, <1>9 DEF Sound, Shape, Exists
<1>11. Heard(u)
  BY <1>0, <1>4, <1>6, <1>9 DEF Heard
<1>12. ASSUME Families(s, NULL) PROVE Families(u, NULL)
  <2>1. NULL \notin Ids
    BY DEF NULL, Ids
  <2>2. ASSUME NEW t \in Ids PROVE Cared(u, t)
    <3>1. Cared(s, t)
      BY <1>12, <2>1 DEF Families
    <3>2. s.task[t].parent # 0 => s.task[t].parent \in Ids
      BY <1>0, Fields DEF Ids
    <3>3. CASE t \in dead
      BY <1>3, <1>6, <1>9, <3>3 DEF Cared, Exists
    <3>4. CASE t \notin dead
      BY <1>1, <1>6, <1>9, <3>1, <3>2, <3>4 DEF Cared, Exists
    <3> QED BY <3>3, <3>4
  <2> QED BY <2>1, <2>2 DEF Families
<1> QED BY <1>10, <1>11, <1>12

-----------------------------------------------------------------------------
(* The invariants.                                                         *)

\* The XmppClient is started and announced.
LEMMA InitInv ==
  ASSUME Init
  PROVE  TaskInv /\ Families(r, NULL)
<1> DEFINE s == [task |-> [t \in Ids |-> NoTask], tasks |-> <<>>, next |-> NULL, pump |-> FALSE]
<1>0. NULL \notin Ids /\ 1 \in Ids /\ 0 \in Timeouts /\ 0 \in 0..MaxTasks
  BY TaskRunnerAssumption DEF NULL, Ids
<1>1. NoTask \in TaskRecord /\ NoTask.phase = "none" /\ NoTask.parent = 0 /\ ~NoTask.done
  BY <1>0 DEF NoTask, TaskRecord, TaskStates
<1>2. s \in Runner /\ Held(s.tasks) = {} /\ \A t \in Ids : s.task[t] = NoTask
  <2>1. [t \in Ids |-> NoTask] \in [Ids -> TaskRecord]
    BY <1>1
  <2> QED BY <2>1, ShortQueues DEF Runner
<1>3. s.next = NULL /\ r = StartTask(s, 1, 0, 0)
  BY DEF Init
<1> HIDE DEF s
<1>4. Sound(s)
  <2>1. \A t \in Ids : 0 < t
    BY DEF Ids
  <2> QED BY <1>1, <1>2, <1>3, <2>1 DEF Sound, Shape, Watched
<1>5. Families(s, NULL)
  BY <1>0, <1>1, <1>2 DEF Families, Cared, Exists
<1>6. s.task[1].phase = "none" /\ \A c \in Ids : c < 1 => s.task[c].phase # "none"
  BY <1>0, <1>1, <1>2 DEF Ids
<1>7. Deed(s, NULL, r) /\ Heard(r)
  BY <1>0, <1>3, <1>4, <1>6, StartDeed
<1>8. Sound(r) /\ Heard(r)
  BY <1>7 DEF Deed
<1>9. Walk /\ Counters
  BY <1>8, TaskRunnerAssumption DEF Init, Walk, Counters
<1>10. Families(r, NULL)
  <2>1. \A c \in Ids : c # 1 => r.task[c] = s.task[c]
    BY <1>0, <1>2, <1>3 DEF StartTask, WakeTasks, Runner
  <2>2. r.task[1].parent = 0
    BY <1>0, <1>2, <1>3 DEF StartTask, WakeTasks, Runner, NoTask
  <2> QED BY <1>0, <1>1, <1>2, <2>1, <2>2 DEF Families, Cared, Exists
<1> QED BY <1>8, <1>9, <1>10 DEF TaskInv

\* Task::Step leaves the runner sound, and the tree whole.
LEMMA StepFacts ==
  ASSUME TaskInv, Step
  PROVE  /\ Sound(r') /\ Len(r'.tasks) >= Len(r.tasks)
         /\ AtTask /\ run' = [run EXCEPT !.did = TRUE] /\ now' = now
         /\ deeds' \in 0..MaxDeeds /\ steps' \in 0..MaxSteps
         /\ ~LateChildren /\ Families(r, NULL) => Families(r', NULL)
<1>1. PICK t : t = Current
  OBVIOUS
<1>2. /\ AtTask /\ ~r.task[t].blocked /\ run' = [run EXCEPT !.did = TRUE] /\ now' = now
  BY <1>1 DEF Step
<1>3. /\ Sound(r) /\ r \in Runner /\ r.tasks \in Seq(Ids) /\ Len(r.tasks) \in Nat
      /\ now \in Nat /\ deeds \in 0..MaxDeeds /\ steps \in 0..MaxSteps
      /\ MaxDeeds \in Nat /\ MaxSteps \in Nat
  <2>1. r.tasks \in Seq(Ids)
    BY Fields DEF TaskInv, Sound
  <2> QED BY <2>1, TaskRunnerAssumption DEF TaskInv, Sound, Counters
<1>4. t \in Ids /\ Exists(r, t) /\ ~r.task[t].done
  <2>1. run.i \in 1..Len(r.tasks)
    BY <1>2, <1>3 DEF AtTask, TaskInv, Walk
  <2>2. t \in Held(r.tasks) /\ t \in Ids
    BY <1>1, <1>3, <2>1 DEF Current, Held
  <2> QED BY <1>2, <1>3, <2>2 DEF Sound, Shape
<1>5. Families(r, NULL) => Families(r, t)
  <2>1. NULL \notin Ids
    BY DEF NULL, Ids
  <2> QED BY <1>4, <2>1 DEF Families
<1>6. CASE r.task[t].error
  <2>1. r' = StepFailed(r, t) /\ deeds' = deeds /\ steps' = steps
    BY <1>1, <1>6 DEF Step
  <2>2. Sound(r') /\ r'.tasks = r.tasks /\ (Families(r, t) => Families(r', NULL))
    BY <1>3, <1>4, <2>1, FailedFacts
  <2>3. Len(r'.tasks) >= Len(r.tasks)
    BY <1>3, <2>2
  <2> QED BY <1>2, <1>3, <1>5, <2>1, <2>2, <2>3
<1>7. CASE ~r.task[t].error
  <2> DEFINE timed == IF TimedOut(r, t) THEN ClearTimeout(r, t) ELSE r
             returns == IF TimedOut(r, t) THEN {"DONE"} ELSE Returns(r.task[t].state)
             moves(state) == state \in {"START", "RESPONSE"} /\ r.task[t].state # "INIT"
  <2>1. PICK state \in returns, deed \in BOOLEAN :
          /\ moves(state) => steps < MaxSteps
          /\ steps' = IF moves(state) THEN steps + 1 ELSE steps
          /\ deed => deeds < MaxDeeds
          /\ deeds' = IF deed THEN deeds + 1 ELSE deeds
          /\ \E s \in IF deed THEN DeedsOf(timed, t) ELSE {timed} : r' = AfterProcess(s, t, state)
    BY <1>1, <1>7 DEF Step
  <2>2. deeds' \in 0..MaxDeeds /\ steps' \in 0..MaxSteps
    BY <1>3, <2>1
  <2>3. state \in {"BLOCKED", "START", "RESPONSE", "DONE", "ERROR"}
    BY DEF Returns
  <2>4. PICK s : (s = timed \/ s \in DeedsOf(timed, t)) /\ r' = AfterProcess(s, t, state)
    BY <2>1
  <2> HIDE DEF moves, returns
  <2>5. Sound(timed) /\ timed.tasks = r.tasks /\ SameFamilies(r, timed)
    <3>1. CASE TimedOut(r, t)
      <4>1. PICK m \in Nat : Sound(timed) /\ Retimed(r, t, m, timed)
        BY <1>3, <1>4, <3>1, TimeoutFacts
      <4> HIDE DEF timed
      <4>2. SameFamilies(r, timed)
        BY <1>3, <1>4, <4>1, RetimedFrame
      <4> QED BY <4>1, <4>2 DEF Retimed
    <3>2. CASE ~TimedOut(r, t)
      BY <1>3, <3>2 DEF SameFamilies
    <3> QED BY <3>1, <3>2
  <2> HIDE DEF timed
  <2>6. Exists(timed, t) /\ ~timed.task[t].done /\ (Families(r, t) => Families(timed, t))
    BY <1>3, <1>4, <2>5, FamiliesFrame DEF SameFamilies, Exists
  <2>7. /\ Sound(s) /\ Len(s.tasks) >= Len(r.tasks) /\ Exists(s, t) /\ ~s.task[t].done
        /\ ~LateChildren /\ Families(timed, t) => Families(s, t)
    <3>1. CASE s = timed
      BY <1>3, <2>5, <2>6, <3>1
    <3>2. CASE s \in DeedsOf(timed, t)
      <4>1. Deed(timed, t, s)
        BY <1>3, <1>4, <2>5, <2>6, <3>2, DeedFacts
      <4> QED BY <1>4, <2>5, <2>6, <4>1 DEF Deed
    <3> QED BY <2>4, <3>1, <3>2
  <2>8. Sound(r') /\ r'.tasks = s.tasks /\ (Families(s, t) => Families(r', NULL))
    BY <1>3, <1>4, <2>3, <2>4, <2>7, AfterFacts
  <2>9. Len(r'.tasks) >= Len(r.tasks)
    BY <2>7, <2>8
  <2>10. ~LateChildren /\ Families(r, NULL) => Families(r', NULL)
    BY <1>5, <2>6, <2>7, <2>8
  <2> QED BY <1>2, <2>2, <2>8, <2>9, <2>10
<1> QED BY <1>6, <1>7

\* Walk after the walk has been cut off or has stepped somebody.
LEMMA WalkOn ==
  ASSUME TaskInv, run'.on = TRUE, run'.i = run.i, run.on, run'.did = TRUE,
         r'.tasks \in Seq(Ids), Len(r'.tasks) >= Len(r.tasks)
  PROVE  Walk'
<1>1. run.i \in 1..(Len(r.tasks) + 1) /\ Len(r.tasks) \in Nat /\ Len(r'.tasks) \in Nat
  <2>1. r.tasks \in Seq(Ids)
    BY Fields DEF TaskInv, Sound
  <2> QED BY <2>1 DEF TaskInv, Walk
<1>2. run.i \in 1..(Len(r'.tasks) + 1)
  BY <1>1
<1> QED BY <1>2 DEF Walk

\* The invariants are inductive.
LEMMA NextInv ==
  ASSUME TaskInv, [Next]_vars
  PROVE  /\ TaskInv'
         /\ ~LateChildren /\ Families(r, NULL) => Families(r', NULL)
<1>0. /\ Sound(r) /\ r \in Runner /\ r.tasks \in Seq(Ids) /\ Len(r.tasks) \in Nat
      /\ now \in 1..MaxTime /\ now \in Nat /\ MaxTime \in Nat
      /\ deeds \in 0..MaxDeeds /\ steps \in 0..MaxSteps /\ MaxDeeds \in Nat /\ MaxSteps \in Nat
      /\ run \in [on : BOOLEAN, i : Nat, did : BOOLEAN]
      /\ r.pump \in BOOLEAN
  <2>1. r.tasks \in Seq(Ids) /\ r.pump \in BOOLEAN
    BY Fields DEF TaskInv, Sound
  <2> QED BY <2>1, TaskRunnerAssumption DEF TaskInv, Sound, Counters
<1>n. NULL \in {NULL} \cup Ids /\ NULL \notin Ids
  BY DEF NULL, Ids
<1>1. CASE Outside
  <2>1. /\ ~run.on /\ deeds < MaxDeeds /\ r' \in DeedsOf(r, NULL) /\ deeds' = deeds + 1
        /\ run' = run /\ now' = now /\ steps' = steps
    BY <1>1 DEF Outside
  <2>2. Deed(r, NULL, r')
    BY <1>0, <1>n, <2>1, DeedFacts
  <2>3. Sound(r') /\ Heard(r')
    BY <2>1, <2>2 DEF Deed, TaskInv, Walk
  <2>4. Walk' /\ Counters'
    BY <1>0, <2>1, <2>3 DEF Walk, Counters
  <2> QED BY <2>2, <2>3, <2>4 DEF TaskInv, Deed
<1>2. CASE Tick
  <2>1. /\ now < MaxTime /\ now' = now + 1 /\ r' = r /\ run' = run /\ deeds' = deeds /\ steps' = steps
    BY <1>2 DEF Tick
  <2>2. now' \in 1..MaxTime
    BY <1>0, <2>1
  <2> QED BY <1>0, <2>1, <2>2 DEF TaskInv, Walk, Counters
<1>3. CASE RunTasks
  <2>1. /\ r' = [r EXCEPT !.pump = FALSE] /\ run' = [on |-> TRUE, i |-> 1, did |-> FALSE]
        /\ now' = now /\ deeds' = deeds /\ steps' = steps
    BY <1>3 DEF RunTasks
  <2>2. /\ r' \in Runner /\ r'.task = r.task /\ r'.tasks = r.tasks /\ r'.next = r.next
    BY <1>0, <2>1 DEF Runner
  <2>3. Flags(r, r') /\ SameFamilies(r, r')
    BY <1>0, <2>2 DEF Flags, SameFamilies, Sound, Shape
  <2>4. Sound(r') /\ (Families(r, NULL) => Families(r', NULL))
    BY <1>0, <2>3, FlagsSound, FamiliesFrame
  <2>5. Walk'
    <3>1. run'.on = TRUE /\ run'.i = 1 /\ 1 \in 1..(Len(r'.tasks) + 1)
      BY <1>0, <2>1, <2>2
    <3>2. \A i \in 1..Len(r'.tasks) : ~(i < run'.i)
      BY <3>1
    <3> QED BY <3>1, <3>2 DEF Walk
  <2> QED BY <1>0, <2>1, <2>4, <2>5 DEF TaskInv, Counters
<1>4. CASE Step
  <2>1. /\ Sound(r') /\ Len(r'.tasks) >= Len(r.tasks)
        /\ AtTask /\ run' = [run EXCEPT !.did = TRUE] /\ now' = now
        /\ deeds' \in 0..MaxDeeds /\ steps' \in 0..MaxSteps
    BY <1>4, StepFacts
  <2>2. ~LateChildren /\ Families(r, NULL) => Families(r', NULL)
    BY <1>4, StepFacts
  <2>3. run.on /\ run'.on = TRUE /\ run'.i = run.i /\ run'.did = TRUE
    BY <1>0, <2>1 DEF AtTask
  <2>4. r'.tasks \in Seq(Ids)
    BY <2>1, Fields DEF Sound
  <2>5. Walk'
    BY <2>1, <2>3, <2>4, WalkOn
  <2> QED BY <1>0, <2>1, <2>2, <2>5 DEF TaskInv, Counters
<1>5. CASE NextTask
  <2>1. /\ AtTask /\ r.task[Current].blocked /\ run' = [run EXCEPT !.i = @ + 1]
        /\ r' = r /\ now' = now /\ deeds' = deeds /\ steps' = steps
    BY <1>5 DEF NextTask
  <2>2. run.i \in 1..Len(r.tasks) /\ run.on /\ r.task[r.tasks[run.i]].blocked
    BY <1>0, <2>1 DEF AtTask, Current, TaskInv, Walk
  <2>3. /\ run' \in [on : BOOLEAN, i : Nat, did : BOOLEAN] /\ run'.on = TRUE /\ run'.i = run.i + 1
        /\ run'.did = run.did
    BY <1>0, <2>1, <2>2
  <2>4. Walk'
    <3>1. run'.i \in 1..(Len(r'.tasks) + 1)
      BY <1>0, <2>1, <2>2, <2>3
    <3>2. ASSUME ~run'.did, NEW i \in 1..Len(r.tasks), i < run'.i PROVE r.task[r.tasks[i]].blocked
      <4>1. i < run.i \/ i = run.i
        BY <2>2, <2>3, <3>2
      <4> QED BY <2>2, <2>3, <3>2, <4>1 DEF TaskInv, Walk
    <3> QED BY <2>1, <2>3, <3>1, <3>2 DEF Walk
  <2> QED BY <1>0, <2>1, <2>3, <2>4 DEF TaskInv, Counters
<1>6. CASE Again
  <2>1. /\ run.on /\ run' = [run EXCEPT !.i = 1, !.did = FALSE]
        /\ r' = r /\ now' = now /\ deeds' = deeds /\ steps' = steps
    BY <1>6 DEF Again
  <2>2. /\ run' \in [on : BOOLEAN, i : Nat, did : BOOLEAN] /\ run'.on = TRUE /\ run'.i = 1
    BY <1>0, <2>1
  <2>3. Walk'
    <3>1. 1 \in 1..(Len(r.tasks) + 1) /\ \A i \in 1..Len(r.tasks) : ~(i < 1)
      BY <1>0
    <3> QED BY <2>1, <2>2, <3>1 DEF Walk
  <2> QED BY <1>0, <2>1, <2>2, <2>3 DEF TaskInv, Counters
<1>7. CASE Pause
  <2>1. /\ run.on /\ run.i > Len(r.tasks) /\ ~run.did /\ r' = DeleteDone(r)
        /\ run' = [on |-> FALSE, i |-> 0, did |-> FALSE]
        /\ now' = now /\ deeds' = deeds /\ steps' = steps
    BY <1>7 DEF Pause
  <2>2. \A c \in Held(r.tasks) : r.task[c].blocked
    <3>1. \A i \in 1..Len(r.tasks) : i < run.i
      BY <1>0, <2>1
    <3>2. \A i \in 1..Len(r.tasks) : r.task[r.tasks[i]].blocked
      BY <2>1, <3>1 DEF TaskInv, Walk
    <3> QED BY <1>0, <3>2 DEF Held
  <2>3. Sound(r') /\ Heard(r') /\ (Families(r, NULL) => Families(r', NULL))
    BY <1>0, <2>1, <2>2, DeleteFacts
  <2> QED BY <1>0, <2>1, <2>3 DEF TaskInv, Walk, Counters
<1>8. CASE PollTasks
  <2>1. /\ ~run.on /\ r.next # NULL /\ r' = WakeTasks(Wake(r, r.next))
        /\ run' = run /\ now' = now /\ deeds' = deeds /\ steps' = steps
    BY <1>8 DEF PollTasks
  <2>2. r.next \in Ids
    BY <1>0, <2>1, Fields
  <2> DEFINE v == Wake(r, r.next)
  <2>3. Flags(r, v) /\ SameFamilies(r, v)
    BY <1>0, <2>2, WakeFacts
  <2>4. r' = WakeTasks(v)
    BY <2>1
  <2> HIDE DEF v
  <2>5. Sound(v) /\ v \in Runner
    BY <1>0, <2>3, FlagsSound DEF Sound
  <2>6. Flags(v, r') /\ SameFamilies(v, r') /\ Heard(r')
    BY <2>4, <2>5, WakeTasksFacts
  <2>7. Sound(r')
    BY <2>5, <2>6, FlagsSound
  <2>8. Families(r, NULL) => Families(r', NULL)
    BY <1>0, <2>3, <2>5, <2>6, FamiliesFrame
  <2> QED BY <1>0, <2>1, <2>6, <2>7, <2>8 DEF TaskInv, Walk, Counters
<1>9. CASE UNCHANGED vars
  <2>1. r' = r /\ run' = run /\ now' = now /\ deeds' = deeds /\ steps' = steps
    BY <1>9 DEF vars
  <2> QED BY <2>1 DEF TaskInv, Walk, Counters
<1> QED BY <1>1, <1>2, <1>3, <1>4, <1>5, <1>6, <1>7, <1>8, <1>9 DEF Next

\* When every parent is alive, so is everyone further up.
LEMMA AllAboveLive ==
  ASSUME NEW s \in Runner, Shape(s), \A t \in Ids : Cared(s, t)
  PROVE  \A t \in Ids : Exists(s, t) /\ ~s.task[t].done
                          => \A p \in Above(s)[t] : Exists(s, p) /\ ~s.task[p].done
<1> DEFINE Good(t) == Exists(s, t) /\ ~s.task[t].done
                        => \A p \in Above(s)[t] : Exists(s, p) /\ ~s.task[p].done
           Bad == {t \in Ids : ~Good(t)}
<1> SUFFICES ASSUME Bad # {} PROVE FALSE
  OBVIOUS
<1>1. Bad \subseteq Nat
  BY DEF Ids
<1>2. PICK t \in Bad : \A y \in Bad : t <= y
  <2> HIDE DEF Bad
  <2> QED BY <1>1, LeastElement
<1>3. /\ s.task[t].parent \in 0..MaxTasks /\ s.task[t].parent < t /\ t \in Nat /\ Cared(s, t)
  BY <1>1, <1>2, Fields DEF Shape
<1>4. Above(s)[t] = IF s.task[t].parent = 0 THEN {}
                    ELSE {s.task[t].parent} \cup Above(s)[s.task[t].parent]
  BY <1>2, AboveDef
<1>5. s.task[t].parent # 0
  BY <1>2, <1>4
<1>6. PICK p \in Ids : p = s.task[t].parent /\ p < t
  BY <1>3, <1>5 DEF Ids
<1>7. p \notin Bad
  <2>1. p \in Nat
    BY DEF Ids
  <2> HIDE DEF Bad
  <2> QED BY <1>2, <1>3, <1>6, <2>1
<1> HIDE DEF Above
<1>8. Good(p)
  BY <1>6, <1>7
<1>9. Exists(s, p) /\ ~s.task[p].done
  BY <1>2, <1>3, <1>5, <1>6 DEF Cared
<1> QED BY <1>2, <1>4, <1>5, <1>6, <1>8, <1>9

\* Task, TaskParent and TaskRunner keep TaskInv.
LEMMA AlwaysTaskInv == Spec => []TaskInv
<1>1. Init => TaskInv
  BY InitInv
<1>2. TaskInv /\ [Next]_vars => TaskInv'
  BY NextInv
<1> QED BY <1>1, <1>2, PTL DEF Spec

\* The types of TaskRunner, for any number of tasks.
THEOREM TypeCorrect == Spec => []TypeOK
<1>1. TaskInv => TypeOK
  <2> SUFFICES ASSUME TaskInv PROVE TypeOK
    OBVIOUS
  <2>1. r \in Runner /\ Shape(r)
    BY DEF TaskInv, Sound
  <2>2. /\ r.next \in {NULL} \cup Ids /\ r.pump \in BOOLEAN
    BY <2>1, Fields
  <2>3. \A i \in DOMAIN r.tasks : Exists(r, r.tasks[i])
    <3>1. r.tasks \in Seq(Ids)
      BY <2>1, Fields
    <3> QED BY <2>1, <3>1 DEF Shape, Held
  <2>4. ASSUME NEW t \in Ids
        PROVE  /\ r.task[t].phase \in {"none", "live", "deleted"} /\ r.task[t].state \in TaskStates
               /\ r.task[t].parent \in 0..(t - 1)
               /\ {r.task[t].blocked, r.task[t].done, r.task[t].aborted, r.task[t].error}
                    \subseteq BOOLEAN
               /\ r.task[t].secs \in Timeouts /\ r.task[t].timeout \in Nat
    <3>1. r.task[t].parent \in 0..MaxTasks /\ r.task[t].parent < t
      BY <2>1, Fields DEF Shape
    <3>2. r.task[t].parent \in 0..(t - 1)
      BY <3>1 DEF Ids
    <3>3. /\ r.task[t].phase \in {"none", "live", "deleted"} /\ r.task[t].state \in TaskStates
          /\ r.task[t].secs \in Timeouts /\ r.task[t].timeout \in Nat
      BY <2>1, Fields
    <3>4. /\ r.task[t].blocked \in BOOLEAN /\ r.task[t].done \in BOOLEAN
          /\ r.task[t].aborted \in BOOLEAN /\ r.task[t].error \in BOOLEAN
      BY <2>1, Fields
    <3> QED BY <3>2, <3>3, <3>4
  <2> QED BY <2>2, <2>3, <2>4 DEF TypeOK, TaskInv, Walk, Counters
<1> QED BY <1>1, AlwaysTaskInv, PTL

\* A task that could run is run or announced: Wake, Error, Start and the loops of
\* InternalRunTasks lose no wake, whatever a task's code does meanwhile.
THEOREM NoWakeLost == Spec => []NoLostWake
<1>1. TaskInv => NoLostWake
  <2> SUFFICES ASSUME TaskInv, NEW t \in Ids, Started(r, t), ~r.task[t].blocked
               PROVE  run.on \/ r.pump
    BY DEF NoLostWake
  <2>1. r.tasks \in Seq(Ids)
    BY Fields DEF TaskInv, Sound
  <2>2. t \in Held(r.tasks)
    BY <2>1 DEF Started, Contains, Held
  <2> QED BY <2>2 DEF TaskInv, Walk, Heard
<1> QED BY <1>1, AlwaysTaskInv, PTL

\* next_timeout_task_ is never a deleted task, and is set while a task has a timeout to
\* come, through every change of a timeout and every deletion.
THEOREM AlwaysTimeoutWatched == Spec => []NextTimeoutWatched
<1>1. TaskInv => NextTimeoutWatched
  <2> SUFFICES ASSUME TaskInv PROVE NextTimeoutWatched
    OBVIOUS
  <2>1. r.tasks \in Seq(Ids) /\ Watched(r)
    BY Fields DEF TaskInv, Sound
  <2>2. \A t \in Ids : Started(r, t) => t \in Held(r.tasks)
    BY <2>1 DEF Started, Contains, Held
  <2> QED BY <2>1, <2>2 DEF NextTimeoutWatched, Watched, Waits
<1> QED BY <1>1, AlwaysTaskInv, PTL

\* As long as nobody starts a task below one that is done, no task lives below a task
\* that is done or deleted, whoever aborts whom, from within Process or from outside.
THEOREM NeverOrphans == ~LateChildren => (Spec => []NoOrphans)
<1> SUFFICES ASSUME ~LateChildren PROVE Spec => []NoOrphans
  OBVIOUS
<1>1. Init => FamilyInv
  BY InitInv DEF FamilyInv
<1>2. FamilyInv /\ [Next]_vars => FamilyInv'
  BY NextInv DEF FamilyInv
<1>3. FamilyInv => NoOrphans
  <2> SUFFICES ASSUME FamilyInv PROVE NoOrphans
    OBVIOUS
  <2>1. r \in Runner /\ Shape(r)
    BY DEF FamilyInv, TaskInv, Sound
  <2>2. \A t \in Ids : Cared(r, t)
    BY DEF FamilyInv, Families, NULL, Ids
  <2>3. \A t \in Ids : Exists(r, t) /\ ~r.task[t].done
                         => \A p \in Above(r)[t] : Exists(r, p) /\ ~r.task[p].done
    BY <2>1, <2>2, AllAboveLive
  <2> HIDE DEF Above
  <2> QED BY <2>3 DEF NoOrphans
<1> QED BY <1>1, <1>2, <1>3, PTL DEF Spec
=============================================================================
